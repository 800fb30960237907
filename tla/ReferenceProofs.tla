--------------------------- MODULE ReferenceProofs ---------------------------
(* The staged references, for any number of requests, microphones, ids and   *)
(* kills and any age of expiry: the directory of the gateway holds whole     *)
(* pairs and nothing that nobody answers for, the selected reference is      *)
(* served, and a live microphone is owned by what is on screen.              *)
EXTENDS ReferenceIntake, TLAPS

USE StoreAssumption

-----------------------------------------------------------------------------
(* The store. *)

Pcs == {"idle", "evict", "remove", "wav", "side", "stat", "cut", "intake", "check",
        "staged", "refused"}
Nexts == {"idle", "wav", "staged", "refused", "check", "up"}
Request == [pc : Pcs, id : Ids \cup {NoRef}, evict : SUBSET Ids,
            victim : Ids \cup {NoRef}, rm : SUBSET Parts, then : Nexts]

(* the request r writes a recording nobody has heard of; it has indexed one  *)
(* nobody has been told of; it carries the one or the other                  *)
Creates(r) == r.pc \in {"intake", "wav", "side"} \/ (r.pc = "evict" /\ r.then = "wav")
Stages(r) == r.pc = "staged" \/ (r.pc = "evict" /\ r.then = "staged")
Carries(r) == Creates(r) \/ Stages(r)

(* what a request holds at each place *)
Shaped(r) ==
    /\ r.pc = "evict" => r.then \in {"wav", "staged", "up"}
    /\ r.pc = "remove" => r.then \in {"refused", "idle"}
    /\ Carries(r) \/ r.pc \in {"stat", "cut", "remove"} => r.id \in Ids
    /\ r.rm # {} => r.victim \in Ids /\ r.pc \in {"evict", "remove", "check"}

Known(r) == r.id < fresh /\ r.victim < fresh /\ \A x \in r.evict : x < fresh

(* the index is what the directory holds *)
Indexing == phase = "up" \/ (phase = "loading" /\ task[Loader].pc = "evict")

Booting ==
    /\ phase = "down" => records = {} /\ \A t \in Tasks : task[t] = Idle
    /\ phase = "loading" =>
          /\ \A t \in Tasks \ {Loader} : task[t] = Idle
          /\ \/ task[Loader].pc = "evict" /\ task[Loader].then = "up"
             \/ task[Loader].pc = "check" /\ records = {}

(* what a request is unlinking is indexed no more *)
VictimsOut == \A t \in Tasks : task[t].rm # {} => task[t].victim \notin records

(* who answers for the files of id: the request that writes them, the one    *)
(* that unlinks all that is left of them, or load, which has yet to look;    *)
(* nobody, when the file system refused to read or to unlink one             *)
Answers(t, id) ==
    \/ task[t].pc \in {"wav", "side"} /\ task[t].id = id
    \/ task[t].victim = id /\ \A part \in Parts : disk[id][part] # "none" => part \in task[t].rm
    \/ task[t].pc = "check" /\ id \in task[t].evict

Covered ==
    phase # "down" => \A id \in Ids : ~ Gone(id) =>
        id \in records \cup faulty \/ \E t \in Tasks : Answers(t, id)

(* a recording being created is known to its request alone *)
Secret(t) ==
    /\ Creates(task[t]) => /\ task[t].id \notin records
                           /\ \A u \in Tasks : /\ task[t].id \notin task[u].evict
                                               /\ task[t].id # task[u].victim
    /\ Carries(task[t]) => \A u \in Tasks \ {t} : task[u].id # task[t].id

(* a recording that has not expired, and that the file system never refused, *)
(* is indexed; while the index is rebuilt, it is on the disk and nobody      *)
(* unlinks it                                                                *)
Live(id) ==
    ~ OldEnough(id) /\ id \notin faulty =>
        IF Indexing THEN id \in records
        ELSE WholePair(id) /\ \A t \in Tasks : task[t].rm # {} => task[t].victim # id

InHand(t) ==
    LET r == task[t] IN
    /\ Shaped(r) /\ Known(r)
    /\ r.pc = "evict" => \A x \in r.evict : OldEnough(x)
    /\ r.pc = "side" => disk[r.id].wav = "whole"
    /\ r.pc = "remove" => r.id \notin records
    /\ Stages(r) => Live(r.id)

StoreInv ==
    /\ StoreTypeOK /\ Booting /\ VictimsOut /\ Covered
    /\ \A id \in records : WholePair(id) /\ id < fresh
    /\ \A id \in Ids : ~ Gone(id) => id < fresh
    /\ \A t \in Tasks : InHand(t) /\ Secret(t)

-----------------------------------------------------------------------------
(* The draft. *)

Chosen(id) ==
    \/ id = sel \/ id \in owed
    \/ \E m \in Mics : mic[m].sel = id
    \/ \E t \in Tasks : intake[t].sel = id

(* what a request carries nobody has chosen; what is selected is served and  *)
(* nobody hands it back                                                      *)
HoldInv ==
    /\ IntakeTypeOK
    /\ \A id \in Ids : Chosen(id) => id < fresh
    /\ \A t \in Tasks : Carries(task[t]) => ~ Chosen(task[t].id)
    /\ sel \notin owed
    /\ sel # NoRef => Live(sel)

(* a microphone that is asked for or live, for the panel that is mounted;    *)
(* two of them are both stray                                                *)
MicInv ==
    /\ \A m \in Mics : /\ mic[m].here => panel /\ mic[m].state # "off"
                       /\ mic[m].state = "live" /\ m \notin stray => mic[m].here
    /\ \A m, n \in Mics : m # n /\ mic[m].here /\ mic[n].here => m \in stray
    /\ MicrophoneOwned

IInv == StoreInv /\ HoldInv /\ MicInv

-----------------------------------------------------------------------------
LEMMA LoaderIsTask == Loader \in Tasks
  BY DEF Loader, StoreAssumption

LEMMA Idleness ==
    /\ Idle \in Request /\ Shaped(Idle) /\ ~ Creates(Idle) /\ ~ Stages(Idle) /\ ~ Carries(Idle)
    /\ Idle.pc = "idle" /\ Idle.id = NoRef /\ Idle.evict = {} /\ Idle.victim = NoRef /\ Idle.rm = {}
    /\ Idle.then = "idle"
  BY DEF Idle, Request, Pcs, Nexts, Shaped, Creates, Stages, Carries

LEMMA IdsAreNat ==
    /\ Ids \subseteq Nat /\ NoRef \in Nat /\ NoRef \notin Ids
    /\ \A x \in Ids : x > 0
  BY DEF Ids, NoRef, StoreAssumption

LEMMA TypedTasks ==
    ASSUME StoreTypeOK
    PROVE  /\ task \in [Tasks -> Request] /\ records \subseteq Ids
           /\ fresh \in Nat /\ clock \in Nat /\ born \in [Ids -> Nat] /\ faulty \subseteq Ids
           /\ disk \in [Ids -> [Parts -> {"none", "torn", "whole"}]]
  BY DEF StoreTypeOK, Request, Pcs, Nexts, StoreAssumption

(* What a request may do by itself, the disk left as it is: the recordings   *)
(* it drops from the index have expired or could not be read, or nobody      *)
(* carries them, and it goes                                                 *)
(* on to unlink them; what it had in hand it keeps or hands over; what others*)
(* carry it does not touch.                                                  *)
Takes(t, new) ==
    /\ new \in Request /\ Shaped(new) /\ Known(new)
    /\ task' = [task EXCEPT ![t] = new]
    /\ UNCHANGED <<disk, born, fresh, clock, phase, kills>>
    /\ faulty' = faulty \/ (faulty \subseteq faulty' /\ faulty' \subseteq Ids)
    /\ phase = "up" \/ (t = Loader /\ task[t].pc = "evict" /\ new.pc = "evict" /\ new.then = "up")
    /\ records' \subseteq records
    /\ \A x \in records \ records' :
          /\ x = new.victim /\ new.rm = Parts
          /\ OldEnough(x) \/ x \in faulty' \/ \A u \in Tasks : Carries(task[u]) => task[u].id # x
    /\ new.pc = "evict" => \A x \in new.evict : OldEnough(x)
    /\ new.pc # "side"
    /\ new.pc = "remove" => new.id \notin records'
    /\ Stages(new) => Stages(task[t]) /\ new.id = task[t].id
    /\ Creates(new) => Creates(task[t]) /\ new.id = task[t].id
    /\ \A u \in Tasks \ {t} : Carries(task[u]) => task[u].id # new.id
    /\ \A u \in Tasks : Creates(task[u]) =>
          /\ task[u].id \notin new.evict
          /\ task[u].id # new.victim \/ (u = t /\ ~ Creates(new))
    /\ new.rm # {} => new.victim \notin records'
    /\ \A id \in Ids : Answers(t, id) /\ ~ Gone(id) =>
          new.victim = id /\ \A part \in Parts : disk[id][part] # "none" => part \in new.rm

LEMMA SameTimes ==
    ASSUME UNCHANGED <<disk, born, fresh, clock>>
    PROVE  /\ \A id : OldEnough(id)' <=> OldEnough(id)
           /\ \A id : Gone(id)' <=> Gone(id)
           /\ \A id : WholePair(id)' <=> WholePair(id)
  BY DEF OldEnough, Gone, WholePair

LEMMA TakesBooting ==
    ASSUME StoreInv, NEW t \in Tasks, NEW new, Takes(t, new)
    PROVE  Booting' /\ Indexing /\ Indexing'
<1>1. phase' = phase /\ task \in [Tasks -> Request] /\ task' = [task EXCEPT ![t] = new]
  BY TypedTasks DEF Takes, StoreInv
<1>2. CASE phase = "up"
  BY <1>1, <1>2 DEF Booting, Indexing
<1>3. CASE phase # "up"
  <2>1. t = Loader /\ task[t].pc = "evict" /\ new.pc = "evict" /\ new.then = "up"
    BY <1>3 DEF Takes
  <2>2. phase = "loading"
    BY <1>3, <2>1, Idleness DEF StoreInv, StoreTypeOK, Booting
  <2>3. /\ task'[Loader] = new
        /\ \A u \in Tasks \ {Loader} : task'[u] = task[u]
    BY <1>1, <2>1
  <2>4. \A u \in Tasks \ {Loader} : task[u] = Idle
    BY <2>2 DEF StoreInv, Booting
  <2> QED BY <1>1, <2>1, <2>2, <2>3, <2>4 DEF Booting, Indexing
<1> QED
  BY <1>2, <1>3

LEMMA TakesCovered ==
    ASSUME StoreInv, NEW t \in Tasks, NEW new, Takes(t, new)
    PROVE  Covered'
<1>1. /\ task'[t] = new
      /\ \A u \in Tasks \ {t} : task'[u] = task[u]
  BY TypedTasks DEF Takes, StoreInv
<1>2. disk' = disk /\ records' \subseteq records
  BY DEF Takes
<1>3. SUFFICES ASSUME phase # "down", NEW id \in Ids, ~ Gone(id)
               PROVE  id \in records' \cup faulty' \/ \E u \in Tasks : Answers(u, id)'
  BY <1>2, SameTimes DEF Covered, Takes
<1>4. id \in records \cup faulty \/ \E u \in Tasks : Answers(u, id)
  BY <1>3 DEF StoreInv, Covered
<1>5. ASSUME NEW u \in Tasks \ {t}, Answers(u, id) PROVE Answers(u, id)'
  BY <1>1, <1>2, <1>5 DEF Answers
<1>6. CASE Answers(t, id)
  <2>1. new.victim = id /\ \A part \in Parts : disk[id][part] # "none" => part \in new.rm
    BY <1>3, <1>6 DEF Takes
  <2> QED BY <1>1, <1>2, <2>1 DEF Answers
<1>7. CASE id \in records \ records'
  <2>1. id = new.victim /\ new.rm = Parts
    BY <1>7 DEF Takes
  <2> QED BY <1>1, <1>2, <2>1 DEF Answers
<1> QED
  BY <1>4, <1>5, <1>6, <1>7 DEF Takes

LEMMA TakesLive ==
    ASSUME StoreInv, NEW t \in Tasks, NEW new, Takes(t, new), NEW id \in Ids, Live(id),
           OldEnough(id) \/ id \in faulty' \/ id \notin records \ records'
    PROVE  Live(id)'
<1>1. Indexing /\ Indexing'
  BY TakesBooting
<1>2. OldEnough(id)' <=> OldEnough(id)
  BY SameTimes DEF Takes
<1>3. faulty \subseteq faulty'
  BY DEF Takes
<1> QED
  BY <1>1, <1>2, <1>3 DEF Live

LEMMA TakesInHand ==
    ASSUME StoreInv, NEW t \in Tasks, NEW new, Takes(t, new), NEW u \in Tasks
    PROVE  InHand(u)'
<1>1. /\ task'[t] = new
      /\ u # t => task'[u] = task[u]
      /\ fresh' = fresh /\ disk' = disk /\ records' \subseteq records
  BY TypedTasks DEF Takes, StoreInv
<1>2. \A x : OldEnough(x)' <=> OldEnough(x)
  BY SameTimes DEF Takes
<1>3. Shaped(new) /\ Known(new)
  BY DEF Takes
<1>4. CASE u = t
  <2>1. Shaped(task'[u]) /\ Known(task[u])'
    BY <1>1, <1>3, <1>4 DEF Known, Shaped, Carries, Creates, Stages
  <2>2. /\ task'[u].pc = "evict" => \A x \in task'[u].evict : OldEnough(x)'
        /\ task'[u].pc # "side"
        /\ task'[u].pc = "remove" => task'[u].id \notin records'
    BY <1>1, <1>2, <1>4 DEF Takes
  <2>3. ASSUME Stages(new) PROVE Live(task[u].id)'
    <3>1. Stages(task[t]) /\ new.id = task[t].id
      BY <2>3 DEF Takes
    <3>2. Live(task[t].id) /\ task[t].id \in Ids /\ Carries(task[t])
      BY <3>1 DEF StoreInv, InHand, Shaped, Carries
    <3>3. OldEnough(task[t].id) \/ task[t].id \in faulty' \/ task[t].id \notin records \ records'
      BY <3>2 DEF Takes
    <3>4. PICK x \in Ids : x = task[t].id
      BY <3>2
    <3>5. Live(x)'
      BY <3>2, <3>3, <3>4, TakesLive
    <3>6. task'[u] = new /\ new.id = x
      BY <1>1, <1>4, <3>1, <3>4
    <3> QED BY <3>5, <3>6 DEF Live
  <2> QED BY <1>1, <1>4, <2>1, <2>2, <2>3 DEF InHand, Shaped
<1>5. CASE u # t
  <2>1. InHand(u)
    BY DEF StoreInv
  <2>2. task'[u] = task[u]
    BY <1>1, <1>5
  <2>3. ASSUME Stages(task[u]) PROVE Live(task[u].id)'
    <3>1. Live(task[u].id) /\ task[u].id \in Ids /\ Carries(task[u])
      BY <2>1, <2>3 DEF InHand, Shaped, Carries
    <3>2. OldEnough(task[u].id) \/ task[u].id \in faulty' \/ task[u].id \notin records \ records'
      BY <3>1 DEF Takes
    <3>3. PICK x \in Ids : x = task[u].id
      BY <3>1
    <3>4. Live(x)'
      BY <3>1, <3>2, <3>3, TakesLive
    <3> QED BY <2>2, <3>3, <3>4 DEF Live
  <2> QED BY <1>1, <1>2, <2>1, <2>2, <2>3 DEF InHand, Known
<1> QED
  BY <1>4, <1>5

LEMMA TakesSecret ==
    ASSUME StoreInv, NEW t \in Tasks, NEW new, Takes(t, new), NEW u \in Tasks
    PROVE  Secret(u)'
<1>1. /\ task'[t] = new
      /\ \A v \in Tasks \ {t} : task'[v] = task[v]
      /\ records' \subseteq records
  BY TypedTasks DEF Takes, StoreInv
<1>2. Secret(u)
  BY DEF StoreInv
<1>3. CASE u = t
  <2>1. Creates(new) => Creates(task[t]) /\ new.id = task[t].id
    BY DEF Takes
  <2>2. Carries(new) => Carries(task[t]) /\ new.id = task[t].id
    BY DEF Takes, Carries
  <2>3. Creates(new) => task[t].id \notin new.evict /\ task[t].id # new.victim
    BY <2>1 DEF Takes
  <2>4. Creates(new) => /\ new.id \notin records'
                        /\ \A v \in Tasks : new.id \notin task'[v].evict /\ new.id # task'[v].victim
    BY <1>1, <1>2, <1>3, <2>1, <2>3 DEF Secret
  <2>5. Carries(new) => \A v \in Tasks \ {t} : task'[v].id # new.id
    BY <1>1, <1>2, <1>3, <2>2 DEF Secret
  <2> QED BY <1>1, <1>3, <2>4, <2>5 DEF Secret
<1>4. CASE u # t
  <2>1. Creates(task[u]) => task[u].id \notin new.evict /\ task[u].id # new.victim
    BY <1>4 DEF Takes
  <2>2. Carries(task[u]) => task[u].id # new.id
    BY <1>4 DEF Takes
  <2>3. task'[u] = task[u]
    BY <1>1, <1>4
  <2>4. Creates(task[u]) => /\ task[u].id \notin records'
                            /\ \A v \in Tasks : task[u].id \notin task'[v].evict /\ task[u].id # task'[v].victim
    BY <1>1, <1>2, <2>1 DEF Secret
  <2>5. Carries(task[u]) => \A v \in Tasks \ {u} : task'[v].id # task[u].id
    BY <1>1, <1>2, <2>2 DEF Secret
  <2> QED BY <2>3, <2>4, <2>5 DEF Secret
<1> QED
  BY <1>3, <1>4

LEMMA TakesStep ==
    ASSUME StoreInv, NEW t \in Tasks, NEW new, Takes(t, new)
    PROVE  StoreInv'
<1>1. /\ task'[t] = new
      /\ \A u \in Tasks \ {t} : task'[u] = task[u]
      /\ task \in [Tasks -> Request] /\ task' = [task EXCEPT ![t] = new] /\ new \in Request
      /\ UNCHANGED <<disk, born, fresh, clock, phase, kills>> /\ records' \subseteq records
      /\ faulty' \subseteq Ids
  BY TypedTasks DEF Takes, StoreInv
<1>2. StoreTypeOK'
  BY <1>1 DEF StoreInv, StoreTypeOK, Request, Pcs, Nexts
<1>3. VictimsOut'
  BY <1>1 DEF StoreInv, VictimsOut, Takes
<1>4. /\ \A id \in records' : WholePair(id)' /\ id < fresh'
      /\ \A id \in Ids : ~ Gone(id)' => id < fresh'
  BY <1>1, SameTimes DEF StoreInv
<1> QED
  BY <1>2, <1>3, <1>4, TakesBooting, TakesCovered, TakesInHand, TakesSecret DEF StoreInv

-----------------------------------------------------------------------------
(* what the invariant says around a request *)
LEMMA Around ==
    ASSUME StoreInv, NEW t \in Tasks
    PROVE  /\ task[t] \in Request /\ Shaped(task[t]) /\ Known(task[t])
           /\ task[t].evict \subseteq Ids
           /\ \A u \in Tasks \ {t} : Carries(task[u]) => task[u].id # task[t].id
           /\ \A u \in Tasks : Creates(task[u]) =>
                 /\ task[u].id \in Ids /\ task[u].id \notin records
                 /\ task[u].id \notin task[t].evict /\ task[u].id # task[t].victim
           /\ \A x \in records : x \in Ids /\ x < fresh /\ WholePair(x)
<1>1. task[t] \in Request /\ task[t].evict \subseteq Ids /\ records \subseteq Ids
  BY TypedTasks DEF StoreInv, Request
<1>2. Shaped(task[t]) /\ Known(task[t])
  BY DEF StoreInv, InHand
<1>3. \A u \in Tasks : Secret(u) /\ Shaped(task[u])
  BY DEF StoreInv, InHand
<1>4. \A u \in Tasks \ {t} : Carries(task[u]) => task[u].id # task[t].id
  BY <1>3 DEF Secret
<1>5. \A u \in Tasks : Creates(task[u]) => task[u].id \in Ids
  BY <1>3 DEF Shaped, Carries
<1>6. \A x \in records : x \in Ids /\ x < fresh /\ WholePair(x)
  BY <1>1 DEF StoreInv
<1> QED
  BY <1>1, <1>2, <1>3, <1>4, <1>5, <1>6 DEF Secret

(* A request that unlinks nothing and writes nothing answers for no file.    *)
LEMMA AnswersForNone ==
    ASSUME NEW t \in Tasks, task[t].rm = {}, task[t].pc \notin {"wav", "side", "check"}
    PROVE  \A id \in Ids : Answers(t, id) => Gone(id)
  BY DEF Answers, Gone

(* A request that goes on with the recording it has, or with none.           *)
LEMMA GoesOn ==
    ASSUME StoreInv, NEW t \in Tasks, phase = "up", NEW new \in Request,
           task[t].rm = {}, task[t].pc \notin {"wav", "side", "check"},
           task' = [task EXCEPT ![t] = new],
           UNCHANGED <<records, disk, born, fresh, clock, phase, kills, faulty>>,
           new.id \in {task[t].id, NoRef}, new.victim = NoRef, new.rm = {},
           new.evict = {} \/ (new.pc = "evict" /\ new.evict = Expired),
           Shaped(new), new.pc # "side",
           new.pc = "remove" => new.id \notin records,
           Creates(new) => Creates(task[t]) /\ new.id = task[t].id,
           Stages(new) => Stages(task[t]) /\ new.id = task[t].id
    PROVE  StoreInv'
<1>1. /\ \A u \in Tasks \ {t} : Carries(task[u]) => task[u].id # task[t].id
      /\ \A u \in Tasks : Creates(task[u]) => task[u].id \in Ids /\ task[u].id \notin records
      /\ task[t].id < fresh /\ \A x \in records : x < fresh
  BY Around DEF Known
<1>2. \A x \in new.evict : x \in records /\ OldEnough(x)
  BY DEF Expired
<1>3. fresh \in Nat /\ NoRef < fresh
  BY DEF StoreInv, StoreTypeOK, StoreAssumption, NoRef
<1>4. Known(new)
  BY <1>1, <1>2, <1>3 DEF Known
<1>5. \A u \in Tasks \ {t} : Carries(task[u]) => task[u].id # new.id
  <2>1. \A u \in Tasks : Carries(task[u]) => task[u].id \in Ids
    BY DEF StoreInv, InHand, Shaped
  <2> QED BY <1>1, <2>1, IdsAreNat
<1>6. \A u \in Tasks : Creates(task[u]) => task[u].id \notin new.evict /\ task[u].id # new.victim
  BY <1>1, <1>2, IdsAreNat
<1>7. \A id \in Ids : Answers(t, id) => Gone(id)
  BY AnswersForNone
<1>8. Takes(t, new)
  BY <1>2, <1>4, <1>5, <1>6, <1>7 DEF Takes
<1> QED
  BY <1>8, TakesStep

LEMMA GoingOnSteps ==
    ASSUME StoreInv, NEW t \in Tasks,
           Removed(t) \/ IntakeFails(t) \/ Create(t) \/ Created(t) \/ Stat(t) \/ Cut(t) \/ Answer(t),
           ~ Stat(t) \/ task'[t].pc = "cut"
    PROVE  StoreInv'
<1>0. task[t] \in Request /\ Shaped(task[t])
  BY Around
<1>1. CASE Removed(t)
  <2>1. PICK new : new = IF task[t].then = "refused" THEN [Idle EXCEPT !.pc = "refused"] ELSE Idle
    OBVIOUS
  <2>2. /\ phase = "up" /\ task[t].pc = "remove" /\ task[t].rm = {}
        /\ task' = [task EXCEPT ![t] = new]
        /\ UNCHANGED <<records, disk, born, fresh, clock, phase, kills, faulty>>
    BY <1>1, <2>1 DEF Removed, At, Become
  <2>3. task[t].then \in {"refused", "idle"} /\ task[t].id \in Ids
    BY <1>0, <2>2 DEF Shaped
  <2>4. /\ new \in Request /\ new.pc = task[t].then /\ new.id = NoRef /\ new.victim = NoRef
        /\ new.rm = {} /\ new.evict = {}
    BY <2>1, <2>3 DEF Idle, Request, Pcs, Nexts
  <2>5. Shaped(new) /\ ~ Creates(new) /\ ~ Stages(new)
    BY <2>3, <2>4 DEF Shaped, Creates, Stages, Carries
  <2>6. new.pc # "remove"
    BY <2>3, <2>4
  <2>7. new.pc # "side" /\ task[t].pc \notin {"wav", "side", "check"}
    BY <2>2, <2>3, <2>4
  <2> QED BY <2>2, <2>4, <2>5, <2>6, <2>7, GoesOn
<1>2. CASE IntakeFails(t)
  <2>1. PICK new : new = [Idle EXCEPT !.pc = "refused"]
    OBVIOUS
  <2>2. /\ phase = "up" /\ task[t].pc = "intake"
        /\ task' = [task EXCEPT ![t] = new]
        /\ UNCHANGED <<records, disk, born, fresh, clock, phase, kills, faulty>>
    BY <1>2, <2>1 DEF IntakeFails, At, Become
  <2>3. task[t].rm = {}
    BY <1>0, <2>2 DEF Shaped
  <2>4. /\ new \in Request /\ new.pc = "refused" /\ new.id = NoRef /\ new.victim = NoRef
        /\ new.rm = {} /\ new.evict = {}
    BY <2>1 DEF Idle, Request, Pcs, Nexts
  <2>5. Shaped(new) /\ ~ Creates(new) /\ ~ Stages(new)
    BY <2>4 DEF Shaped, Creates, Stages, Carries
  <2>7. new.pc # "side" /\ task[t].pc \notin {"wav", "side", "check"} /\ new.pc # "remove"
    BY <2>2, <2>4
  <2> QED BY <2>2, <2>3, <2>4, <2>5, <2>7, GoesOn
<1>3. CASE Create(t)
  <2>1. PICK new : new = Evicting(t, "wav")
    OBVIOUS
  <2>2. /\ phase = "up" /\ task[t].pc = "intake"
        /\ task' = [task EXCEPT ![t] = new]
        /\ UNCHANGED <<records, disk, born, fresh, clock, phase, kills, faulty>>
    BY <1>3, <2>1 DEF Create, At, Become
  <2>3. task[t].rm = {} /\ task[t].id \in Ids /\ Creates(task[t])
    BY <1>0, <2>2 DEF Shaped, Creates, Carries
  <2>4. /\ new.pc = "evict" /\ new.id = task[t].id /\ new.victim = NoRef
        /\ new.rm = {} /\ new.evict = Expired /\ new.then = "wav"
    BY <2>1 DEF Idle, Evicting
  <2>5. new \in Request
    <3>1. Expired \in SUBSET Ids
      BY TypedTasks DEF StoreInv, Expired
    <3> QED BY <2>1, <2>3, <3>1 DEF Idle, Evicting, Request, Pcs, Nexts
  <2>6. Shaped(new) /\ ~ Stages(new)
    BY <2>3, <2>4 DEF Shaped, Creates, Stages, Carries
  <2>7. new.pc # "side" /\ task[t].pc \notin {"wav", "side", "check"} /\ new.pc # "remove"
    BY <2>2, <2>4
  <2> QED BY <2>2, <2>3, <2>4, <2>5, <2>6, <2>7, GoesOn
<1>4. CASE Created(t)
  <2>1. PICK new : new = [Idle EXCEPT !.pc = "staged", !.id = task[t].id]
    OBVIOUS
  <2>2. /\ phase = "up" /\ task[t].pc = "evict" /\ task[t].then = "staged" /\ task[t].rm = {}
        /\ task' = [task EXCEPT ![t] = new]
        /\ UNCHANGED <<records, disk, born, fresh, clock, phase, kills, faulty>>
    BY <1>4, <2>1 DEF Created, At, Become
  <2>3. task[t].id \in Ids /\ Stages(task[t])
    BY <1>0, <2>2 DEF Shaped, Stages, Carries
  <2>4. /\ new \in Request /\ new.pc = "staged" /\ new.id = task[t].id /\ new.victim = NoRef
        /\ new.rm = {} /\ new.evict = {}
    BY <2>1, <2>3 DEF Idle, Request, Pcs, Nexts
  <2>5. Shaped(new) /\ ~ Creates(new)
    BY <2>3, <2>4 DEF Shaped, Creates, Stages, Carries
  <2>7. new.pc # "side" /\ task[t].pc \notin {"wav", "side", "check"} /\ new.pc # "remove"
    BY <2>2, <2>4
  <2> QED BY <2>2, <2>3, <2>4, <2>5, <2>7, GoesOn
<1>5. CASE Stat(t)
  <2>1. /\ task' = [task EXCEPT ![t] = [task[t] EXCEPT !.pc = "cut"]]
        /\ UNCHANGED <<records, faulty>>
    <3>1. ASSUME task' = [task EXCEPT ![t] = Removing(task[t].id, "idle")] PROVE FALSE
      <4>1. task'[t] = Removing(task[t].id, "idle")
        BY <3>1, TypedTasks DEF StoreInv
      <4> QED BY <1>5, <4>1 DEF Removing, Idle
    <3> QED BY <1>5, <3>1 DEF Stat, Become
  <2>2. PICK new : new = [task[t] EXCEPT !.pc = "cut"]
    OBVIOUS
  <2>3. /\ phase = "up" /\ task[t].pc = "stat"
        /\ task' = [task EXCEPT ![t] = new]
        /\ UNCHANGED <<records, disk, born, fresh, clock, phase, kills, faulty>>
    BY <1>5, <2>1, <2>2 DEF Stat, At
  <2>4. task[t].rm = {} /\ task[t].id \in Ids
    BY <1>0, <2>3 DEF Shaped
  <2>5. /\ new \in Request /\ new.pc = "cut" /\ new.id = task[t].id /\ new.victim = task[t].victim
        /\ new.rm = {} /\ new.evict = task[t].evict
    BY <1>0, <2>1, <2>2, <2>4 DEF Request, Pcs
  <2>6. Shaped(new) /\ ~ Creates(new) /\ ~ Stages(new)
    BY <2>1, <2>4, <2>5 DEF Shaped, Creates, Stages, Carries
  <2>7. new.pc # "side" /\ new.pc # "evict" /\ task[t].pc \notin {"wav", "side", "check"}
    BY <2>1, <2>3, <2>5
  <2>8. new.pc # "remove"
    BY <2>5
  <2>9. Known(new)
    BY <2>5, Around DEF Known
  <2>10. /\ \A u \in Tasks \ {t} : Carries(task[u]) => task[u].id # new.id
         /\ \A u \in Tasks : Creates(task[u]) => task[u].id \notin new.evict /\ task[u].id # new.victim
    BY <2>5, Around
  <2>11. \A id \in Ids : Answers(t, id) => Gone(id)
    BY <2>4, <2>7, AnswersForNone
  <2>12. Takes(t, new)
    BY <2>3, <2>5, <2>6, <2>7, <2>8, <2>9, <2>10, <2>11 DEF Takes
  <2> QED BY <2>12, TakesStep
<1>6. CASE Answer(t) \/ Cut(t)
  <2>1. PICK new : new = Idle
    OBVIOUS
  <2>2. /\ phase = "up"
        /\ task[t].pc \in {"staged", "refused", "cut"}
        /\ task' = [task EXCEPT ![t] = new]
        /\ UNCHANGED <<records, disk, born, fresh, clock, phase, kills, faulty>>
    BY <1>6, <2>1 DEF Answer, Cut, At, Become
  <2>3. task[t].rm = {}
    BY <1>0, <2>2 DEF Shaped
  <2>7. new.pc # "side" /\ task[t].pc \notin {"wav", "side", "check"} /\ new.pc # "remove"
    BY <2>1, <2>2, Idleness
  <2> QED BY <2>1, <2>2, <2>3, <2>7, Idleness, GoesOn
<1> QED
  BY <1>1, <1>2, <1>3, <1>4, <1>5, <1>6

-----------------------------------------------------------------------------
(* A request that drops a recording and goes on to unlink it.                *)

LEMMA EvictNextStep ==
    ASSUME StoreInv, NEW t \in Tasks, EvictNext(t)
    PROVE  StoreInv'
<1>0. task[t] \in Request /\ Shaped(task[t]) /\ Known(task[t]) /\ task[t].evict \subseteq Ids
  BY Around
<1>1. PICK id \in task[t].evict :
        /\ records' = records \ {id}
        /\ task' = [task EXCEPT ![t].evict = @ \ {id}, ![t].rm = Parts, ![t].victim = id]
  BY Zenon DEF EvictNext
<1>2. PICK new : new = [task[t] EXCEPT !.evict = task[t].evict \ {id}, !.rm = Parts, !.victim = id]
  OBVIOUS
<1>3. /\ task[t].pc = "evict" /\ task[t].rm = {} /\ phase # "down"
      /\ UNCHANGED <<disk, born, fresh, clock, phase, kills, faulty>>
  BY DEF EvictNext
<1>4. task' = [task EXCEPT ![t] = new]
  BY <1>1, <1>2, TypedTasks DEF StoreInv
<1>5. /\ new \in Request /\ new.pc = "evict" /\ new.then = task[t].then /\ new.id = task[t].id
      /\ new.victim = id /\ new.rm = Parts /\ new.evict = task[t].evict \ {id}
  BY <1>0, <1>2, <1>3 DEF Request
<1>6. /\ Shaped(new) /\ (Creates(new) <=> Creates(task[t])) /\ (Stages(new) <=> Stages(task[t]))
  BY <1>0, <1>3, <1>5 DEF Shaped, Creates, Stages, Carries
<1>7. Known(new)
  BY <1>0, <1>5 DEF Known
<1>8. \A x \in task[t].evict : OldEnough(x)
  BY <1>3 DEF StoreInv, InHand
<1>9. phase = "up" \/ (t = Loader /\ task[t].then = "up")
  BY <1>3, Idleness DEF StoreInv, StoreTypeOK, Booting
<1>10. /\ \A u \in Tasks \ {t} : Carries(task[u]) => task[u].id # new.id
       /\ \A u \in Tasks : Creates(task[u]) => task[u].id \notin new.evict /\ task[u].id # new.victim
  BY <1>5, Around
<1>11. \A x \in Ids : Answers(t, x) => Gone(x)
  BY <1>3, AnswersForNone
<1>12. records' \subseteq records /\ \A x \in records \ records' : x = id /\ OldEnough(x)
  BY <1>1, <1>8
<1>13. id \notin records'
  BY <1>1
<1>14. Takes(t, new)
  BY <1>3, <1>4, <1>5, <1>6, <1>7, <1>8, <1>9, <1>10, <1>11, <1>12, <1>13 DEF Takes
<1> QED
  BY <1>14, TakesStep

(* a recording that is handed back, or that the store gives up *)
Free(id) == id \in Ids /\ id < fresh /\ \A u \in Tasks : Carries(task[u]) => task[u].id # id

LEMMA RemovingFields ==
    ASSUME NEW id \in Ids, NEW next \in {"refused", "idle"}
    PROVE  /\ Removing(id, next) \in Request /\ Shaped(Removing(id, next))
           /\ Removing(id, next).pc = "remove" /\ Removing(id, next).id = id
           /\ Removing(id, next).victim = id /\ Removing(id, next).rm = Parts
           /\ Removing(id, next).evict = {}
           /\ ~ Creates(Removing(id, next)) /\ ~ Stages(Removing(id, next))
<1>1. PICK r : r = Removing(id, next)
  OBVIOUS
<1>2. /\ r \in Request /\ r.pc = "remove" /\ r.id = id /\ r.victim = id /\ r.rm = Parts
      /\ r.evict = {} /\ r.then = next
  BY <1>1 DEF Removing, Idle, Request, Pcs, Nexts
<1>3. Shaped(r) /\ ~ Creates(r) /\ ~ Stages(r)
  BY <1>2 DEF Shaped, Creates, Stages, Carries
<1> QED
  BY <1>1, <1>2, <1>3

LEMMA StartRemoveStep ==
    ASSUME StoreInv, NEW t \in Tasks, NEW id, Free(id), StartRemove(t, id),
           UNCHANGED <<disk, born, fresh, clock, phase, kills, faulty>>
    PROVE  StoreInv'
<1>1. PICK new : new = Removing(id, "idle")
  OBVIOUS
<1>2. /\ phase = "up" /\ task[t].pc = "idle" /\ task' = [task EXCEPT ![t] = new]
      /\ records' = records \ {id}
  BY <1>1 DEF StartRemove, At, Become
<1>3. id \in Ids
  BY DEF Free
<1>4. /\ new \in Request /\ Shaped(new) /\ new.pc = "remove" /\ new.id = id /\ new.victim = id
      /\ new.rm = Parts /\ new.evict = {} /\ ~ Creates(new) /\ ~ Stages(new)
  BY <1>1, <1>3, RemovingFields
<1>5. Known(new) /\ \A u \in Tasks : Carries(task[u]) => task[u].id # id
  BY <1>4 DEF Known, Free
<1>6. task[t].rm = {}
  BY <1>2, Around DEF Shaped
<1>7. \A x \in Ids : Answers(t, x) => Gone(x)
  BY <1>2, <1>6, AnswersForNone
<1>8. \A u \in Tasks : Creates(task[u]) => Carries(task[u])
  BY DEF Carries
<1>9. Takes(t, new)
  BY <1>2, <1>4, <1>5, <1>7, <1>8 DEF Takes
<1> QED
  BY <1>9, TakesStep

LEMMA WindowStep ==
    ASSUME StoreInv, NEW t \in Tasks, NEW id, Free(id), Window(t, id)
    PROVE  StoreInv'
<1>1. PICK new : new = [Idle EXCEPT !.pc = "stat", !.id = id]
  OBVIOUS
<1>2. /\ phase = "up" /\ task[t].pc = "idle" /\ task' = [task EXCEPT ![t] = new]
      /\ UNCHANGED <<records, disk, born, fresh, clock, phase, kills, faulty>>
  BY <1>1 DEF Window, At, Become
<1>3. /\ id \in Ids /\ id < fresh
      /\ \A u \in Tasks : Carries(task[u]) => task[u].id # id
  BY DEF Free
<1>4. /\ new \in Request /\ new.pc = "stat" /\ new.id = id /\ new.victim = NoRef
      /\ new.rm = {} /\ new.evict = {}
  BY <1>1, <1>3 DEF Idle, Request, Pcs, Nexts
<1>5. Shaped(new) /\ ~ Creates(new) /\ ~ Stages(new)
  BY <1>3, <1>4 DEF Shaped, Creates, Stages, Carries
<1>6. Known(new)
  <2>1. NoRef < fresh
    BY DEF StoreInv, StoreTypeOK, StoreAssumption, NoRef
  <2> QED BY <1>3, <1>4, <2>1 DEF Known
<1>7. task[t].rm = {}
  BY <1>2, Around DEF Shaped
<1>8. \A x \in Ids : Answers(t, x) => Gone(x)
  BY <1>2, <1>7, AnswersForNone
<1>9. \A u \in Tasks : Creates(task[u]) => task[u].id # NoRef
  BY Around, IdsAreNat
<1>10. Takes(t, new)
  BY <1>2, <1>3, <1>4, <1>5, <1>6, <1>8, <1>9 DEF Takes
<1> QED
  BY <1>10, TakesStep

LEMMA WriteFailsStep ==
    ASSUME StoreInv, NEW t \in Tasks, WriteFails(t)
    PROVE  StoreInv'
<1>1. PICK id, new : id = task[t].id /\ new = Removing(id, "refused")
  OBVIOUS
<1>2. /\ phase = "up" /\ task[t].pc \in {"wav", "side"} /\ task' = [task EXCEPT ![t] = new]
      /\ UNCHANGED <<records, disk, born, fresh, clock, phase, kills, faulty>>
  BY <1>1 DEF WriteFails, At, Become
<1>3. Creates(task[t]) /\ Carries(task[t])
  BY <1>2 DEF Creates, Carries
<1>4. id \in Ids /\ id \notin records /\ id < fresh /\ task[t].rm = {}
  BY <1>1, <1>2, <1>3, Around DEF Shaped, Known
<1>5. /\ new \in Request /\ Shaped(new) /\ new.pc = "remove" /\ new.id = id /\ new.victim = id
      /\ new.rm = Parts /\ new.evict = {} /\ ~ Creates(new) /\ ~ Stages(new)
  BY <1>1, <1>4, RemovingFields
<1>6. Known(new)
  BY <1>4, <1>5 DEF Known
<1>7. \A u \in Tasks \ {t} : Carries(task[u]) => task[u].id # id
  BY <1>1, Around
<1>8. ASSUME NEW x \in Ids, Answers(t, x), ~ Gone(x) PROVE x = id
  BY <1>1, <1>2, <1>4, <1>8 DEF Answers, Gone
<1>9. \A u \in Tasks \ {t} : Creates(task[u]) => task[u].id # id
  BY <1>7 DEF Carries
<1>10. Takes(t, new)
  <2>1. \A u \in Tasks : Creates(task[u]) =>
          /\ task[u].id \notin new.evict
          /\ task[u].id # new.victim \/ (u = t /\ ~ Creates(new))
    BY <1>5, <1>9
  <2>2. \A x \in Ids : Answers(t, x) /\ ~ Gone(x) =>
          new.victim = x /\ \A part \in Parts : disk[x][part] # "none" => part \in new.rm
    BY <1>5, <1>8
  <2> QED BY <1>2, <1>4, <1>5, <1>6, <1>7, <2>1, <2>2 DEF Takes
<1> QED
  BY <1>10, TakesStep

(* the recording is gone, and was indexed no more; or it could not be read   *)
LEMMA StatGoneStep ==
    ASSUME StoreInv, NEW t \in Tasks, Stat(t), task'[t].pc # "cut"
    PROVE  StoreInv'
<1>1. PICK id, new : id = task[t].id /\ new = Removing(id, "idle")
  OBVIOUS
<1>2. /\ phase = "up" /\ task[t].pc = "stat" /\ task' = [task EXCEPT ![t] = new]
      /\ records' = records \ {id}
      /\ Refused(IF disk[id].wav = "whole" THEN {id} ELSE {})
      /\ UNCHANGED <<disk, born, fresh, clock, phase, kills>>
  <2>1. task[t] \in Request /\ task \in [Tasks -> Request]
    BY TypedTasks DEF StoreInv
  <2>2. ASSUME task' = [task EXCEPT ![t] = [task[t] EXCEPT !.pc = "cut"]] PROVE FALSE
    BY <2>1, <2>2 DEF Request
  <2> QED BY <1>1, <2>2 DEF Stat, At, Become
<1>3. id \in records => id \in faulty'
  <2>1. id \in records => disk[id]["wav"] = "whole"
    BY Around DEF WholePair, Parts
  <2> QED BY <1>2, <2>1 DEF Refused
<1>4. id \in Ids /\ id < fresh /\ task[t].rm = {}
  BY <1>1, <1>2, Around DEF Shaped, Known
<1>5. /\ new \in Request /\ Shaped(new) /\ new.pc = "remove" /\ new.id = id /\ new.victim = id
      /\ new.rm = Parts /\ new.evict = {} /\ ~ Creates(new) /\ ~ Stages(new)
  BY <1>1, <1>4, RemovingFields
<1>6. Known(new)
  BY <1>4, <1>5 DEF Known
<1>7. \A u \in Tasks : Creates(task[u]) => Carries(task[u])
  BY DEF Carries
<1>8. \A u \in Tasks \ {t} : Carries(task[u]) => task[u].id # id
  BY <1>1, Around
<1>9. ~ Creates(task[t])
  BY <1>2 DEF Creates
<1>10. \A x \in Ids : Answers(t, x) => Gone(x)
  BY <1>2, <1>4, AnswersForNone
<1>11. faulty \subseteq faulty' /\ faulty' \subseteq Ids
  BY <1>2, <1>4, TypedTasks DEF Refused, StoreInv
<1>12. Takes(t, new)
  BY <1>2, <1>3, <1>5, <1>6, <1>7, <1>8, <1>9, <1>10, <1>11 DEF Takes
<1> QED
  BY <1>12, TakesStep

-----------------------------------------------------------------------------
(* Steps that touch the files or the clock.                                  *)

(* A file of a recording that is dropped goes, or the file system refuses;   *)
(* whoever else had part of it to unlink still has.                          *)
LEMMA UnlinkEffect ==
    ASSUME StoreInv, NEW t \in Tasks, Unlink(t) \/ UnlinkFails(t)
    PROVE  \E parts \in SUBSET task[t].rm :
              /\ parts # {}
              /\ task' = [task EXCEPT ![t].rm = @ \ parts]
              /\ disk' \in [Ids -> [Parts -> {"none", "torn", "whole"}]]
              /\ \A id \in Ids : id # task[t].victim => disk'[id] = disk[id]
              /\ \A id \in Ids, p \in Parts : disk'[id][p] = disk[id][p] \/ disk'[id][p] = "none"
              /\ task[t].victim \in faulty' \/ \A p \in parts : disk'[task[t].victim][p] = "none"
              /\ faulty \subseteq faulty' /\ faulty' \subseteq Ids
<1>1. /\ task \in [Tasks -> Request] /\ disk \in [Ids -> [Parts -> {"none", "torn", "whole"}]]
      /\ faulty \subseteq Ids /\ task[t].rm \subseteq Parts
  BY TypedTasks DEF StoreInv, Request
<1>2. task[t].rm # {} => task[t].victim \in Ids
  BY Around DEF Shaped
<1>3. CASE Unlink(t)
  <2>1. PICK part \in task[t].rm :
          /\ disk' = [disk EXCEPT ![task[t].victim][part] = "none"]
          /\ task' = [task EXCEPT ![t].rm = @ \ {part}]
    BY <1>3, Zenon DEF Unlink
  <2>2. faulty' = faulty
    BY <1>3 DEF Unlink
  <2>3. part \in Parts /\ task[t].victim \in Ids
    BY <1>1, <1>2, <2>1
  <2>4. /\ disk' \in [Ids -> [Parts -> {"none", "torn", "whole"}]]
        /\ disk'[task[t].victim][part] = "none"
        /\ \A id \in Ids : id # task[t].victim => disk'[id] = disk[id]
        /\ \A id \in Ids, p \in Parts : disk'[id][p] = disk[id][p] \/ disk'[id][p] = "none"
    BY <1>1, <2>1, <2>3
  <2> WITNESS {part} \in SUBSET task[t].rm
  <2> QED BY <1>1, <2>1, <2>2, <2>4
<1>4. CASE UnlinkFails(t)
  <2>1. PICK left \in SUBSET task[t].rm :
          left # {} /\ task' = [task EXCEPT ![t].rm = @ \ left]
    BY <1>4, Zenon DEF UnlinkFails
  <2>2. task[t].rm # {} /\ disk' = disk
    BY <1>4 DEF UnlinkFails
  <2>3. faulty' = faulty \cup {task[t].victim}
    BY <1>4 DEF UnlinkFails, Refused
  <2> WITNESS left \in SUBSET task[t].rm
  <2> QED BY <1>1, <1>2, <2>1, <2>2, <2>3
<1> QED
  BY <1>3, <1>4

LEMMA UnlinkStep ==
    ASSUME StoreInv, NEW t \in Tasks, Unlink(t) \/ UnlinkFails(t)
    PROVE  StoreInv'
<1>1. PICK parts \in SUBSET task[t].rm :
        /\ parts # {}
        /\ task' = [task EXCEPT ![t].rm = @ \ parts]
        /\ disk' \in [Ids -> [Parts -> {"none", "torn", "whole"}]]
        /\ \A id \in Ids : id # task[t].victim => disk'[id] = disk[id]
        /\ \A id \in Ids, p \in Parts : disk'[id][p] = disk[id][p] \/ disk'[id][p] = "none"
        /\ task[t].victim \in faulty' \/ \A p \in parts : disk'[task[t].victim][p] = "none"
        /\ faulty \subseteq faulty' /\ faulty' \subseteq Ids
  BY UnlinkEffect
<1>2. PICK victim, new : victim = task[t].victim /\ new = [task[t] EXCEPT !.rm = task[t].rm \ parts]
  OBVIOUS
<1>3. /\ phase # "down" /\ UNCHANGED <<records, born, fresh, clock, phase, kills>>
  BY DEF Unlink, UnlinkFails
<1>4. /\ task \in [Tasks -> Request] /\ disk \in [Ids -> [Parts -> {"none", "torn", "whole"}]]
      /\ task[t] \in Request /\ Shaped(task[t]) /\ Known(task[t])
  BY TypedTasks, Around DEF StoreInv
<1>5. /\ victim \in Ids /\ task[t].pc \in {"evict", "remove", "check"} /\ victim \notin records
      /\ parts \subseteq Parts
  BY <1>1, <1>2, <1>4 DEF Shaped, StoreInv, VictimsOut, Request
<1>6. /\ new \in Request /\ new.pc = task[t].pc /\ new.then = task[t].then /\ new.id = task[t].id
      /\ new.victim = victim /\ new.rm = task[t].rm \ parts /\ new.evict = task[t].evict
  BY <1>2, <1>4 DEF Request
<1>7. /\ task' = [task EXCEPT ![t] = new] /\ task'[t] = new
      /\ \A u \in Tasks \ {t} : task'[u] = task[u]
  BY <1>1, <1>2, <1>4
<1>8. /\ disk' \in [Ids -> [Parts -> {"none", "torn", "whole"}]]
      /\ victim \in faulty' \/ \A p \in parts : disk'[victim][p] = "none"
      /\ \A id \in Ids : id # victim => disk'[id] = disk[id]
      /\ \A id \in Ids, p \in Parts : disk'[id][p] = disk[id][p] \/ disk'[id][p] = "none"
      /\ faulty \subseteq faulty' /\ faulty' \subseteq Ids
  BY <1>1, <1>2
<1>9. \A u \in Tasks : /\ task'[u].pc = task[u].pc /\ task'[u].id = task[u].id
                       /\ task'[u].then = task[u].then /\ task'[u].evict = task[u].evict
                       /\ task'[u].victim = task[u].victim /\ task'[u].rm \subseteq task[u].rm
  BY <1>2, <1>6, <1>7
<1>10. /\ \A u \in Tasks : (Creates(task'[u]) <=> Creates(task[u])) /\ (Stages(task'[u]) <=> Stages(task[u]))
       /\ \A u \in Tasks : Carries(task'[u]) <=> Carries(task[u])
  BY <1>9 DEF Creates, Stages, Carries
<1>11. \A id : OldEnough(id)' <=> OldEnough(id)
  BY <1>3 DEF OldEnough
<1>12. \A id \in Ids : Gone(id) => Gone(id)'
  BY <1>8 DEF Gone
<1>13. StoreTypeOK'
  <2>1. task' \in [Tasks -> Request]
    BY <1>4, <1>6, <1>7
  <2> QED BY <1>3, <1>8, <2>1 DEF StoreInv, StoreTypeOK, Request, Pcs, Nexts
<1>14. Indexing' <=> Indexing
  BY <1>3, <1>9, LoaderIsTask DEF Indexing
<1>15. Booting'
  <2>1. CASE phase = "up"
    BY <1>3, <2>1 DEF Booting
  <2>2. CASE phase = "loading"
    <3>1. task[t].pc # Idle.pc
      BY <1>5, Idleness
    <3>2. t = Loader
      BY <2>2, <3>1 DEF StoreInv, Booting
    <3>3. \A u \in Tasks \ {Loader} : task'[u] = Idle
      BY <1>7, <2>2, <3>2 DEF StoreInv, Booting
    <3> QED BY <1>3, <1>9, <2>2, <3>2, <3>3 DEF StoreInv, Booting
  <2> QED BY <1>3, <2>1, <2>2 DEF StoreInv, StoreTypeOK
<1>16. VictimsOut'
  BY <1>3, <1>9 DEF StoreInv, VictimsOut
<1>17. Covered'
  <2>1. SUFFICES ASSUME NEW id \in Ids, ~ Gone(id)', id \notin faulty'
                 PROVE  id \in records \/ \E u \in Tasks : Answers(u, id)'
    BY <1>3 DEF Covered
  <2>2. ~ Gone(id)
    BY <1>12, <2>1
  <2>3. id \in records \/ \E u \in Tasks : Answers(u, id)
    BY <1>3, <1>8, <2>1, <2>2 DEF StoreInv, Covered
  <2>4. ASSUME NEW u \in Tasks, Answers(u, id) PROVE Answers(u, id)'
    <3>1. CASE \/ task[u].pc \in {"wav", "side"} /\ task[u].id = id
               \/ task[u].pc = "check" /\ id \in task[u].evict
      BY <1>9, <3>1 DEF Answers
    <3>2. CASE task[u].victim = id /\ \A p \in Parts : disk[id][p] # "none" => p \in task[u].rm
      <4>1. ASSUME NEW p \in Parts, disk'[id][p] # "none" PROVE p \in task'[u].rm
        <5>1. disk[id][p] # "none"
          BY <1>8, <4>1
        <5>2. p \in task[u].rm
          BY <3>2, <5>1
        <5>3. CASE u # t
          BY <1>7, <5>2, <5>3
        <5>4. CASE u = t
          <6>1. victim = id /\ p \notin parts
            BY <1>2, <1>8, <2>1, <3>2, <4>1, <5>4
          <6> QED BY <1>6, <1>7, <5>2, <5>4, <6>1
        <5> QED BY <5>3, <5>4
      <4> QED BY <1>9, <3>2, <4>1 DEF Answers
    <3> QED BY <2>4, <3>1, <3>2 DEF Answers
  <2> QED BY <2>3, <2>4
<1>18. /\ \A id \in records : WholePair(id)' /\ id < fresh
       /\ \A id \in Ids : ~ Gone(id)' => id < fresh
  <2>1. ASSUME NEW id \in records PROVE WholePair(id)' /\ id < fresh
    <3>1. id \in Ids /\ id # victim /\ WholePair(id) /\ id < fresh
      BY <1>5, Around
    <3> QED BY <1>8, <3>1 DEF WholePair
  <2>2. ASSUME NEW id \in Ids, ~ Gone(id)' PROVE id < fresh
    BY <1>12, <2>2 DEF StoreInv
  <2> QED BY <2>1, <2>2
<1>19. ASSUME NEW u \in Tasks PROVE InHand(u)' /\ Secret(u)'
  <2>1. InHand(u) /\ Secret(u)
    BY DEF StoreInv
  <2>2. Shaped(task'[u]) /\ Known(task[u])'
    BY <1>3, <1>9, <1>10, <2>1 DEF InHand, Shaped, Known
  <2>3. ASSUME task[u].pc = "side" PROVE disk'[task[u].id].wav = "whole"
    <3>1. Creates(task[u]) /\ disk[task[u].id].wav = "whole"
      BY <2>1, <2>3 DEF Creates, InHand
    <3>2. task[u].id \in Ids /\ task[u].id # victim
      BY <1>2, <3>1, Around
    <3> QED BY <1>8, <3>1, <3>2
  <2>4. ASSUME Stages(task[u]) PROVE Live(task[u].id)'
    <3>1. PICK id \in Ids : id = task[u].id
      BY <2>1, <2>4 DEF InHand, Shaped, Carries
    <3>2. Live(id)
      BY <2>1, <2>4, <3>1 DEF InHand
    <3>3. phase # "loading"
      <4>1. ASSUME phase = "loading" PROVE FALSE
        <5>1. u = Loader
          BY <2>4, <4>1, Idleness DEF StoreInv, Booting
        <5> QED BY <2>4, <4>1, <5>1 DEF StoreInv, Booting, Stages
      <4> QED BY <4>1
    <3>4. Indexing
      BY <1>3, <3>3 DEF StoreInv, StoreTypeOK, Indexing
    <3>5. Live(id)'
      BY <1>3, <1>8, <1>11, <1>14, <3>2, <3>4 DEF Live
    <3>6. task'[u].id = id
      BY <1>9, <3>1
    <3> QED BY <3>5, <3>6 DEF Live
  <2>5. InHand(u)'
    <3>1. \A x \in task[u].evict : task[u].pc = "evict" => OldEnough(x)
      BY <2>1 DEF InHand
    <3>2. task[u].pc = "remove" => task[u].id \notin records
      BY <2>1 DEF InHand
    <3> QED BY <1>3, <1>9, <1>10, <1>11, <2>2, <2>3, <2>4, <3>1, <3>2 DEF InHand
  <2>6. Secret(u)'
    BY <1>3, <1>9, <1>10, <2>1 DEF Secret
  <2> QED BY <2>5, <2>6
<1> QED
  BY <1>3, <1>13, <1>15, <1>16, <1>17, <1>18, <1>19 DEF StoreInv

(* The request that creates a recording writes its files, and indexes it     *)
(* when both are whole; nobody else has anything to do with it.              *)
LEMMA WritesStep ==
    ASSUME StoreInv, NEW t \in Tasks, NEW id \in Ids, id = task[t].id, Creates(task[t]),
           phase = "up", task[t].rm = {}, NEW new \in Request, Shaped(new),
           task' = [task EXCEPT ![t] = new], UNCHANGED <<fresh, clock, phase, kills, faulty>>,
           disk' \in [Ids -> [Parts -> {"none", "torn", "whole"}]], born' \in [Ids -> 0..MaxClock],
           \A x \in Ids \ {id} : disk'[x] = disk[x] /\ born'[x] = born[x],
           new.id = id, new.rm = {}, new.victim \in {NoRef, task[t].victim},
           \/ /\ new.pc = "wav" \/ (new.pc = "side" /\ disk'[id]["wav"] = "whole")
              /\ records' = records /\ new.evict \subseteq task[t].evict
           \/ /\ new.pc = "evict" /\ new.then = "staged"
              /\ records' = records \cup {id} /\ WholePair(id)'
              /\ \A x \in new.evict : x \in records' /\ OldEnough(x)'
    PROVE  StoreInv'
<1>1. /\ task \in [Tasks -> Request] /\ task'[t] = new
      /\ \A u \in Tasks \ {t} : task'[u] = task[u]
  BY TypedTasks DEF StoreInv
<1>2. /\ id \notin records /\ id < fresh /\ Carries(task[t])
      /\ \A u \in Tasks : id \notin task[u].evict /\ id # task[u].victim
      /\ \A u \in Tasks \ {t} : task[u].id # id
  <2>1. Secret(t) /\ Known(task[t])
    BY DEF StoreInv, InHand
  <2> QED BY <2>1 DEF Secret, Carries, Known
<1>3. /\ \A u \in Tasks \ {t} : Carries(task[u]) => task[u].id # id
      /\ \A u \in Tasks : Creates(task[u]) => task[u].id \in Ids /\ task[u].id \notin records
  BY Around
<1>4. \A x \in Ids \ {id} : /\ OldEnough(x)' <=> OldEnough(x)
                            /\ Gone(x)' <=> Gone(x)
                            /\ WholePair(x)' <=> WholePair(x)
  BY DEF OldEnough, Gone, WholePair
<1>5. records \subseteq Ids /\ records \subseteq records' /\ records' \subseteq records \cup {id}
  BY TypedTasks DEF StoreInv
<1>6. StoreTypeOK'
  <2>1. task' \in [Tasks -> Request]
    BY <1>1
  <2> QED BY <1>5, <2>1 DEF StoreInv, StoreTypeOK, Request, Pcs, Nexts
<1>7. Booting' /\ Indexing /\ Indexing'
  BY DEF Booting, Indexing
<1>8. VictimsOut'
  <2>1. ASSUME NEW u \in Tasks \ {t}, task[u].rm # {} PROVE task[u].victim \notin records'
    BY <1>2, <1>5, <2>1 DEF StoreInv, VictimsOut
  <2> QED BY <1>1, <2>1 DEF VictimsOut
<1>9. Covered'
  <2>1. SUFFICES ASSUME NEW x \in Ids, ~ Gone(x)'
                 PROVE  x \in records' \cup faulty \/ \E u \in Tasks : Answers(u, x)'
    BY DEF Covered
  <2>2. CASE x = id
    <3>1. CASE new.pc \in {"wav", "side"}
      BY <1>1, <2>2, <3>1 DEF Answers
    <3>2. CASE new.pc = "evict"
      BY <2>2, <3>2
    <3> QED BY <3>1, <3>2
  <2>3. CASE x # id
    <3>1. ~ Gone(x)
      BY <1>4, <2>1, <2>3
    <3>2. x \in records \cup faulty \/ \E u \in Tasks : Answers(u, x)
      BY <3>1 DEF StoreInv, Covered
    <3>3. ~ Answers(t, x)
      BY <2>3, <3>1 DEF Answers, Gone, Creates
    <3>4. ASSUME NEW u \in Tasks \ {t}, Answers(u, x) PROVE Answers(u, x)'
      BY <1>1, <2>3, <3>4 DEF Answers
    <3> QED BY <1>5, <3>2, <3>3, <3>4
  <2> QED BY <2>2, <2>3
<1>10. \A x \in records' : WholePair(x)' /\ x < fresh'
  <2>1. \A x \in records : WholePair(x)' /\ x < fresh
    BY <1>2, <1>4, <1>5 DEF StoreInv
  <2> QED BY <1>2, <2>1
<1>11. \A x \in Ids : ~ Gone(x)' => x < fresh'
  BY <1>2, <1>4 DEF StoreInv
<1>12. ASSUME NEW u \in Tasks PROVE InHand(u)'
  <2>1. InHand(u)
    BY DEF StoreInv
  <2>2. CASE u = t
    <3>1. Known(task[u])'
      <4>1. NoRef < fresh /\ task[t].victim < fresh /\ \A x \in task[t].evict : x < fresh
        BY <2>1, <2>2 DEF InHand, Known, StoreInv, StoreTypeOK, StoreAssumption, NoRef
      <4>2. \A x \in new.evict : x < fresh
        BY <1>10, <4>1
      <4> QED BY <1>1, <1>2, <2>2, <4>1, <4>2 DEF Known
    <3>2. task'[u] = new /\ Shaped(task'[u])
      BY <1>1, <2>2
    <3>3. new.pc = "evict" => \A x \in new.evict : OldEnough(x)'
      OBVIOUS
    <3>4. new.pc = "side" => disk'[id].wav = "whole"
      OBVIOUS
    <3>5. new.pc # "remove"
      OBVIOUS
    <3>6. Stages(new) => Live(task[u].id)'
      <4>1. Stages(new) => id \in records'
        BY DEF Stages
      <4> QED BY <1>7, <3>2, <4>1 DEF Live
    <3> QED BY <3>1, <3>2, <3>3, <3>4, <3>5, <3>6 DEF InHand, Shaped
  <2>3. CASE u # t
    <3>1. task'[u] = task[u] /\ task[u].id # id /\ Known(task[u]) /\ Shaped(task[u])
      BY <1>1, <1>2, <2>1, <2>3 DEF InHand
    <3>2. Known(task[u])'
      BY <3>1 DEF Known
    <3>3. task[u].pc = "evict" => \A x \in task[u].evict : OldEnough(x)'
      <4>1. \A x \in task[u].evict : x \in Ids \ {id}
        BY <1>2, Around
      <4> QED BY <1>4, <2>1, <4>1 DEF InHand
    <3>4. task[u].pc = "side" => disk'[task[u].id].wav = "whole"
      <4>1. task[u].pc = "side" => task[u].id \in Ids /\ disk[task[u].id].wav = "whole"
        BY <2>1 DEF InHand, Shaped, Carries, Creates
      <4> QED BY <3>1, <4>1
    <3>5. task[u].pc = "remove" => task[u].id \notin records'
      BY <1>5, <2>1, <3>1 DEF InHand
    <3>6. Stages(task[u]) => Live(task[u].id)'
      <4>1. ASSUME Stages(task[u]) PROVE Live(task[u].id)'
        <5>1. PICK x \in Ids : x = task[u].id
          BY <3>1, <4>1 DEF Shaped, Carries
        <5>2. Live(x) /\ x # id
          BY <2>1, <3>1, <4>1, <5>1 DEF InHand
        <5>3. Live(x)'
          BY <1>4, <1>5, <1>7, <5>2 DEF Live
        <5> QED BY <3>1, <5>1, <5>3 DEF Live
      <4> QED BY <4>1
    <3> QED BY <3>1, <3>2, <3>3, <3>4, <3>5, <3>6 DEF InHand
  <2> QED BY <2>2, <2>3
<1>13. ASSUME NEW u \in Tasks PROVE Secret(u)'
  <2>1. Secret(u)
    BY DEF StoreInv
  <2>2. CASE u = t
    <3>1. Creates(new) => records' = records /\ new.evict \subseteq task[t].evict
      BY DEF Creates
    <3>2. id # NoRef
      BY IdsAreNat
    <3>3. Creates(new) => /\ id \notin records'
                          /\ \A v \in Tasks : id \notin task'[v].evict /\ id # task'[v].victim
      BY <1>1, <1>2, <3>1, <3>2
    <3> QED BY <1>1, <1>2, <2>2, <3>3 DEF Secret
  <2>3. CASE u # t
    <3>1. task'[u] = task[u]
      BY <1>1, <2>3
    <3>2. Carries(task[u]) => task[u].id # id
      BY <1>2, <2>3
    <3>3. ASSUME Creates(task[u])
          PROVE  /\ task[u].id \notin records'
                 /\ \A v \in Tasks : task[u].id \notin task'[v].evict /\ task[u].id # task'[v].victim
      <4>1. /\ task[u].id \notin records' /\ task[u].id # NoRef
            /\ \A v \in Tasks : task[u].id \notin task[v].evict /\ task[u].id # task[v].victim
        BY <1>3, <1>5, <2>1, <3>2, <3>3, IdsAreNat DEF Secret, Carries
      <4>2. task[u].id \notin new.evict /\ task[u].id # new.victim
        BY <4>1
      <4> QED BY <1>1, <4>1, <4>2
    <3>4. Carries(task[u]) => \A v \in Tasks \ {u} : task'[v].id # task[u].id
      BY <1>1, <2>1, <3>2 DEF Secret
    <3> QED BY <3>1, <3>3, <3>4 DEF Secret
  <2> QED BY <2>2, <2>3
<1> QED
  BY <1>6, <1>7, <1>8, <1>9, <1>10, <1>11, <1>12, <1>13 DEF StoreInv

LEMMA CreationSteps ==
    ASSUME StoreInv, NEW t \in Tasks, OpenWav(t) \/ WriteWav(t) \/ WriteSide(t)
    PROVE  StoreInv'
<1>0. /\ task[t] \in Request /\ Shaped(task[t]) /\ clock \in 0..MaxClock
      /\ disk \in [Ids -> [Parts -> {"none", "torn", "whole"}]] /\ born \in [Ids -> 0..MaxClock]
  BY Around, TypedTasks DEF StoreInv, StoreTypeOK
<1>1. Creates(task[t]) /\ phase = "up" /\ task[t].rm = {}
  BY <1>0 DEF OpenWav, WriteWav, WriteSide, At, Creates, Shaped
<1>2. PICK id \in Ids : id = task[t].id
  BY <1>0, <1>1 DEF Shaped, Carries
<1>3. "wav" \in Parts /\ "side" \in Parts /\ Parts = {"wav", "side"}
  BY DEF Parts
<1>4. CASE OpenWav(t)
  <2>1. PICK new : new = [Idle EXCEPT !.pc = "wav", !.id = id]
    OBVIOUS
  <2>2. /\ new \in Request /\ new.pc = "wav" /\ new.id = id /\ new.victim = NoRef /\ new.rm = {}
        /\ new.evict = {}
    BY <2>1 DEF Idle, Request, Pcs, Nexts
  <2>3. Shaped(new)
    BY <2>2 DEF Shaped, Carries
  <2>4. /\ task' = [task EXCEPT ![t] = new] /\ UNCHANGED <<records, fresh, clock, phase, kills, faulty>>
        /\ born' = [born EXCEPT ![id] = clock]
        /\ disk' = [disk EXCEPT ![id].wav = "torn"]
    BY <1>2, <1>4, <2>1 DEF OpenWav, Become
  <2>5. /\ disk' \in [Ids -> [Parts -> {"none", "torn", "whole"}]] /\ born' \in [Ids -> 0..MaxClock]
        /\ \A x \in Ids \ {id} : disk'[x] = disk[x] /\ born'[x] = born[x]
    BY <1>0, <1>3, <2>4
  <2> QED BY <1>1, <1>2, <2>2, <2>3, <2>4, <2>5, WritesStep
<1>5. CASE WriteWav(t)
  <2>1. PICK new : new = [task[t] EXCEPT !.pc = "side"]
    OBVIOUS
  <2>2. /\ new \in Request /\ new.pc = "side" /\ new.id = id /\ new.victim = task[t].victim
        /\ new.rm = {} /\ new.evict = task[t].evict
    BY <1>0, <1>1, <1>2, <2>1 DEF Request, Pcs
  <2>3. Shaped(new)
    BY <2>2 DEF Shaped, Carries
  <2>4. /\ task' = [task EXCEPT ![t] = new] /\ UNCHANGED <<records, born, fresh, clock, phase, kills, faulty>>
        /\ disk' = [disk EXCEPT ![id] = [wav |-> "whole", side |-> "torn"]]
    BY <1>2, <1>5, <2>1 DEF WriteWav, Become
  <2>5. [wav |-> "whole", side |-> "torn"] \in [Parts -> {"none", "torn", "whole"}]
    BY <1>3
  <2>6. /\ disk' \in [Ids -> [Parts -> {"none", "torn", "whole"}]] /\ born' \in [Ids -> 0..MaxClock]
        /\ disk'[id]["wav"] = "whole"
        /\ \A x \in Ids \ {id} : disk'[x] = disk[x] /\ born'[x] = born[x]
    BY <1>0, <2>4, <2>5
  <2> QED BY <1>1, <1>2, <2>2, <2>3, <2>4, <2>6, WritesStep
<1>6. CASE WriteSide(t)
  <2>0. PICK with : with = records \cup {id}
    OBVIOUS
  <2>1. PICK old : old = {x \in with : OldEnough(x)}
    OBVIOUS
  <2>2. PICK new : new = [Idle EXCEPT !.pc = "evict", !.id = id, !.then = "staged", !.evict = old]
    OBVIOUS
  <2>3. /\ new \in Request /\ new.pc = "evict" /\ new.then = "staged" /\ new.id = id
        /\ new.victim = NoRef /\ new.rm = {} /\ new.evict = old
    <3>1. old \in SUBSET Ids
      BY <2>0, <2>1, TypedTasks DEF StoreInv
    <3> QED BY <2>2, <3>1 DEF Idle, Request, Pcs, Nexts
  <2>4. Shaped(new)
    BY <2>3 DEF Shaped, Carries
  <2>5. /\ task[t].pc = "side"
        /\ task' = [task EXCEPT ![t] = new] /\ records' = with
        /\ UNCHANGED <<born, fresh, clock, phase, kills, faulty>>
        /\ disk' = [disk EXCEPT ![id].side = "whole"]
    BY <1>2, <1>6, <2>0, <2>1, <2>2 DEF WriteSide, Become, At
  <2>6. disk[id]["wav"] = "whole"
    BY <1>2, <2>5 DEF StoreInv, InHand
  <2>7. /\ disk' \in [Ids -> [Parts -> {"none", "torn", "whole"}]] /\ born' \in [Ids -> 0..MaxClock]
        /\ \A x \in Ids \ {id} : disk'[x] = disk[x] /\ born'[x] = born[x]
        /\ disk'[id]["wav"] = "whole" /\ disk'[id]["side"] = "whole"
    BY <1>0, <1>3, <2>5, <2>6
  <2>8. WholePair(id)'
    BY <1>3, <2>7 DEF WholePair
  <2>9. \A x \in new.evict : x \in records' /\ OldEnough(x)'
    <3>1. \A x \in old : x \in with /\ OldEnough(x)
      BY <2>1
    <3> QED BY <2>3, <2>5, <3>1 DEF OldEnough
  <2>10. records' = records \cup {id}
    BY <2>0, <2>5
  <2> QED BY <1>1, <1>2, <2>3, <2>4, <2>5, <2>7, <2>8, <2>9, <2>10, WritesStep
<1> QED
  BY <1>4, <1>5, <1>6

(* an id nobody has used *)
LEMMA IntakeStep ==
    ASSUME StoreInv, NEW t \in Tasks, Intake(t)
    PROVE  StoreInv'
<1>1. PICK id, new : id = fresh /\ new = [Idle EXCEPT !.pc = "intake", !.id = fresh]
  OBVIOUS
<1>2. /\ phase = "up" /\ task[t].pc = "idle" /\ task' = [task EXCEPT ![t] = new]
      /\ fresh \in 1..MaxIds /\ fresh' = fresh + 1
      /\ UNCHANGED <<records, disk, born, clock, phase, kills, faulty>>
  BY <1>1 DEF Intake, At, Become, StoreInv, StoreTypeOK, StoreAssumption
<1>3. id \in Ids /\ id \in Nat /\ \A x \in Ids \cup {NoRef} : x < fresh => x < fresh'
  BY <1>1, <1>2, IdsAreNat DEF Ids, StoreAssumption
<1>4. /\ new \in Request /\ new.pc = "intake" /\ new.id = id /\ new.victim = NoRef
      /\ new.rm = {} /\ new.evict = {}
  BY <1>1, <1>3 DEF Idle, Request, Pcs, Nexts
<1>5. Shaped(new) /\ ~ Stages(new)
  BY <1>3, <1>4 DEF Shaped, Stages, Carries
<1>6. /\ task \in [Tasks -> Request] /\ task'[t] = new /\ records \subseteq Ids
      /\ \A u \in Tasks \ {t} : task'[u] = task[u]
  BY <1>2, TypedTasks DEF StoreInv
<1>7. \A u \in Tasks : /\ task[u].id < fresh /\ task[u].victim < fresh /\ \A x \in task[u].evict : x < fresh
                       /\ task[u].id \in Ids \cup {NoRef} /\ task[u].victim \in Ids \cup {NoRef}
                       /\ task[u].evict \subseteq Ids
  BY <1>6 DEF StoreInv, InHand, Known, Request
<1>8. /\ \A id1 : OldEnough(id1)' <=> OldEnough(id1)
      /\ \A id1 : Gone(id1)' <=> Gone(id1)
      /\ \A id1 : WholePair(id1)' <=> WholePair(id1)
  BY <1>2 DEF OldEnough, Gone, WholePair
<1>9. StoreTypeOK'
  <2>1. task' \in [Tasks -> Request] /\ fresh' \in 1..(MaxIds + 1)
    BY <1>2, <1>4, <1>6 DEF StoreAssumption
  <2> QED BY <1>2, <2>1 DEF StoreInv, StoreTypeOK, Request, Pcs, Nexts
<1>10. Booting' /\ Indexing /\ Indexing'
  BY <1>2 DEF Booting, Indexing
<1>11. VictimsOut'
  BY <1>2, <1>4, <1>6 DEF StoreInv, VictimsOut
<1>12. Covered'
  <2>1. SUFFICES ASSUME NEW x \in Ids, ~ Gone(x)
                 PROVE  x \in records \cup faulty \/ \E u \in Tasks : Answers(u, x)'
    BY <1>2, <1>8 DEF Covered
  <2>2. x \in records \cup faulty \/ \E u \in Tasks : Answers(u, x)
    BY <1>2, <2>1 DEF StoreInv, Covered
  <2>3. ~ Answers(t, x)
    <3>1. task[t].rm = {}
      BY <1>2, Around DEF Shaped
    <3> QED BY <1>2, <2>1, <3>1, AnswersForNone
  <2>4. ASSUME NEW u \in Tasks \ {t}, Answers(u, x) PROVE Answers(u, x)'
    BY <1>2, <1>6, <2>4 DEF Answers
  <2> QED BY <2>2, <2>3, <2>4
<1>13. /\ \A x \in records' : WholePair(x)' /\ x < fresh'
       /\ \A x \in Ids : ~ Gone(x)' => x < fresh'
  BY <1>2, <1>3, <1>6, <1>8 DEF StoreInv
<1>14. ASSUME NEW u \in Tasks PROVE InHand(u)'
  <2>1. InHand(u)
    BY DEF StoreInv
  <2>2. CASE u = t
    <3>1. Known(task[u])'
      <4>1. id < fresh' /\ NoRef < fresh'
        BY <1>1, <1>2 DEF NoRef
      <4> QED BY <1>4, <1>6, <2>2, <4>1 DEF Known
    <3> QED BY <1>4, <1>5, <1>6, <2>2, <3>1 DEF InHand, Shaped, Stages
  <2>3. CASE u # t
    <3>1. task'[u] = task[u]
      BY <1>6, <2>3
    <3>2. Known(task[u])'
      BY <1>3, <1>7, <3>1 DEF Known
    <3>3. Stages(task[u]) => Live(task[u].id)'
      BY <1>2, <1>8, <1>10, <2>1, <3>1 DEF InHand, Live
    <3> QED BY <1>2, <1>8, <2>1, <3>1, <3>2, <3>3 DEF InHand, Shaped
  <2> QED BY <2>2, <2>3
<1>15. ASSUME NEW u \in Tasks PROVE Secret(u)'
  <2>1. Secret(u)
    BY DEF StoreInv
  <2>2. ~ (fresh < fresh)
    BY <1>2
  <2>3. CASE u = t
    <3>1. /\ id \notin records
          /\ \A v \in Tasks : id \notin task[v].evict /\ id # task[v].victim /\ task[v].id # id
      BY <1>1, <1>7, <2>2 DEF StoreInv
    <3>2. id # NoRef
      BY <1>3, IdsAreNat
    <3>3. /\ \A v \in Tasks : id \notin task'[v].evict /\ id # task'[v].victim
          /\ \A v \in Tasks \ {t} : task'[v].id # id
      BY <1>4, <1>6, <3>1, <3>2
    <3> QED BY <1>2, <1>4, <1>6, <2>3, <3>1, <3>3 DEF Secret
  <2>4. CASE u # t
    <3>1. task'[u] = task[u] /\ task[u].id # id
      BY <1>1, <1>6, <1>7, <2>2, <2>4
    <3>2. Creates(task[u]) => task[u].id # NoRef
      BY Around, IdsAreNat
    <3>3. Creates(task[u]) =>
            \A v \in Tasks : task[u].id \notin task'[v].evict /\ task[u].id # task'[v].victim
      BY <1>4, <1>6, <2>1, <3>2 DEF Secret
    <3>4. Carries(task[u]) => \A v \in Tasks \ {u} : task'[v].id # task[u].id
      BY <1>4, <1>6, <2>1, <3>1 DEF Secret
    <3> QED BY <1>2, <2>1, <3>1, <3>3, <3>4 DEF Secret
  <2> QED BY <2>3, <2>4
<1> QED
  BY <1>9, <1>10, <1>11, <1>12, <1>13, <1>14, <1>15 DEF StoreInv

-----------------------------------------------------------------------------
(* The process and the clock.                                                *)

(* nothing in memory *)
LEMMA NothingHeld ==
    ASSUME StoreInv, \A t \in Tasks : task'[t] = Idle, UNCHANGED <<fresh, disk>>
    PROVE  VictimsOut' /\ \A t \in Tasks : InHand(t)' /\ Secret(t)'
<1>1. NoRef < fresh
  BY DEF StoreInv, StoreTypeOK, StoreAssumption, NoRef
<1> QED
  BY <1>1, Idleness DEF VictimsOut, InHand, Secret, Known

LEMMA KillStep ==
    ASSUME StoreInv, Kill
    PROVE  StoreInv'
<1>1. /\ task' = [t \in Tasks |-> Idle] /\ records' = {} /\ phase' = "down"
      /\ UNCHANGED <<disk, born, fresh, clock, faulty>>
      /\ kills \in 0..MaxKills /\ kills' = kills + 1 /\ kills < MaxKills
  BY DEF Kill, StoreInv, StoreTypeOK
<1>2. \A t \in Tasks : task'[t] = Idle
  BY <1>1
<1>3. StoreTypeOK'
  <2>1. task' \in [Tasks -> Request]
    BY <1>1, Idleness
  <2>2. kills' \in 0..MaxKills
    BY <1>1, StoreAssumption
  <2> QED BY <1>1, <2>1, <2>2 DEF StoreInv, StoreTypeOK, Request, Pcs, Nexts
<1>4. Booting' /\ Covered'
  BY <1>1, <1>2 DEF Booting, Covered
<1>5. \A id \in Ids : ~ Gone(id)' => id < fresh'
  BY <1>1, SameTimes DEF StoreInv
<1> QED
  BY <1>1, <1>2, <1>3, <1>4, <1>5, NothingHeld DEF StoreInv

LEMMA ListenStep ==
    ASSUME StoreInv, Listen
    PROVE  StoreInv'
<1>1. /\ task' = [task EXCEPT ![Loader] = Idle] /\ phase = "loading" /\ phase' = "up"
      /\ task[Loader].pc = "evict" /\ task[Loader].evict = {} /\ task[Loader].rm = {}
      /\ UNCHANGED <<records, disk, born, fresh, clock, kills, faulty>>
  BY DEF Listen, Become
<1>2. /\ task \in [Tasks -> Request] /\ \A t \in Tasks \ {Loader} : task[t] = Idle
  BY <1>1, TypedTasks DEF StoreInv, Booting
<1>3. \A t \in Tasks : task'[t] = Idle
  BY <1>1, <1>2
<1>4. StoreTypeOK'
  <2>1. task' \in [Tasks -> Request]
    BY <1>1, <1>2, Idleness
  <2> QED BY <1>1, <2>1 DEF StoreInv, StoreTypeOK, Request, Pcs, Nexts
<1>5. Booting'
  BY <1>1 DEF Booting
<1>6. Covered'
  <2>1. SUFFICES ASSUME NEW id \in Ids, ~ Gone(id) PROVE id \in records \cup faulty
    BY <1>1, SameTimes DEF Covered
  <2>2. id \in records \cup faulty \/ \E t \in Tasks : Answers(t, id)
    BY <1>1, <2>1 DEF StoreInv, Covered
  <2>3. ASSUME NEW t \in Tasks PROVE ~ Answers(t, id)
    <3>1. task[t].rm = {} /\ task[t].pc \notin {"wav", "side", "check"}
      BY <1>1, <1>2, Idleness
    <3> QED BY <2>1, <3>1, AnswersForNone
  <2> QED BY <2>2, <2>3
<1>7. /\ \A id \in records' : WholePair(id)' /\ id < fresh'
      /\ \A id \in Ids : ~ Gone(id)' => id < fresh'
  BY <1>1, SameTimes DEF StoreInv
<1> QED
  BY <1>1, <1>3, <1>4, <1>5, <1>6, <1>7, NothingHeld DEF StoreInv

(* While load runs, it is the only request there is, and it creates nothing. *)
LEMMA LoaderAlone ==
    ASSUME StoreInv, NEW new \in Request, phase' = "loading",
           \A t \in Tasks \ {Loader} : task[t] = Idle,
           task' = [task EXCEPT ![Loader] = new], UNCHANGED <<born, fresh, clock, kills>>,
           faulty' = faulty \/ (faulty \subseteq faulty' /\ faulty' \subseteq Ids),
           disk' = disk, records' \subseteq Ids,
           \/ new.pc = "evict" /\ new.then = "up"
           \/ new.pc = "check" /\ records' = {},
           new.rm # {} => new.victim \in Ids /\ new.victim \notin records',
           new.victim < fresh, new.id < fresh, \A x \in new.evict : x < fresh,
           new.pc = "evict" => \A x \in new.evict : OldEnough(x),
           \A id \in records' : WholePair(id),
           \A id \in Ids : ~ Gone(id) => id \in records' \cup faulty' \/ Answers(Loader, id)'
    PROVE  StoreInv'
<1>1. /\ task \in [Tasks -> Request] /\ task'[Loader] = new
      /\ \A t \in Tasks \ {Loader} : task'[t] = Idle
  BY TypedTasks, LoaderIsTask DEF StoreInv
<1>2. /\ \A id : OldEnough(id)' <=> OldEnough(id)
      /\ \A id : Gone(id)' <=> Gone(id)
      /\ \A id : WholePair(id)' <=> WholePair(id)
  BY SameTimes
<1>3. ~ Creates(new) /\ ~ Stages(new) /\ ~ Carries(new)
  BY DEF Creates, Stages, Carries
<1>4. StoreTypeOK'
  <2>1. task' \in [Tasks -> Request]
    BY <1>1
  <2> QED BY <2>1 DEF StoreInv, StoreTypeOK, Request, Pcs, Nexts
<1>5. Booting'
  BY <1>1 DEF Booting
<1>6. VictimsOut'
  BY <1>1, Idleness DEF VictimsOut
<1>7. Covered'
  BY <1>2, LoaderIsTask DEF Covered
<1>8. /\ \A id \in Ids : ~ Gone(id)' => id < fresh'
      /\ \A id \in records' : WholePair(id)' /\ id < fresh'
  <2>1. \A id \in Ids : ~ Gone(id)' => id < fresh'
    BY <1>2 DEF StoreInv
  <2>2. \A id \in records' : WholePair(id)' /\ ~ Gone(id)'
    BY <1>2 DEF WholePair, Gone, Parts
  <2> QED BY <2>1, <2>2
<1>9. NoRef < fresh
  BY DEF StoreInv, StoreTypeOK, StoreAssumption, NoRef
<1>10. ASSUME NEW t \in Tasks PROVE InHand(t)' /\ Secret(t)'
  <2>1. CASE t = Loader
    <3>1. Known(task[t])'
      BY <1>1, <1>9, <2>1 DEF Known
    <3>2. Shaped(new)
      BY <1>3 DEF Shaped
    <3>3. task'[t] = new /\ new.pc \notin {"side", "remove"}
      BY <1>1, <2>1
    <3> QED BY <1>2, <1>3, <3>1, <3>2, <3>3 DEF InHand, Secret
  <2>2. CASE t # Loader
    <3>1. task'[t] = Idle
      BY <1>1, <2>2
    <3> QED BY <1>9, <3>1, Idleness DEF InHand, Secret, Known
  <2> QED BY <2>1, <2>2
<1> QED
  BY <1>4, <1>5, <1>6, <1>7, <1>8, <1>10 DEF StoreInv

LEMMA StartLoadStep ==
    ASSUME StoreInv, StartLoad
    PROVE  StoreInv'
<1>0. PICK there : there = {id \in Ids : ~ Gone(id)}
  OBVIOUS
<1>a. PICK all \in {there, {}} :
        /\ task' = [task EXCEPT ![Loader] =
              [Idle EXCEPT !.pc = "check", !.then = "check", !.evict = all]]
        /\ Refused(there \ all)
  BY <1>0, Zenon DEF StartLoad, Become
<1>1. PICK new : new = [Idle EXCEPT !.pc = "check", !.then = "check", !.evict = all]
  OBVIOUS
<1>2. /\ phase = "down" /\ phase' = "loading" /\ task' = [task EXCEPT ![Loader] = new]
      /\ UNCHANGED <<records, disk, born, fresh, clock, kills>>
  BY <1>a, <1>1 DEF StartLoad
<1>b. faulty' = faulty \cup (there \ all) /\ faulty' \subseteq Ids
  BY <1>0, <1>a, TypedTasks DEF Refused, StoreInv
<1>3. records = {} /\ \A t \in Tasks : task[t] = Idle
  BY <1>2 DEF StoreInv, Booting
<1>4. /\ new \in Request /\ new.pc = "check" /\ new.id = NoRef /\ new.victim = NoRef /\ new.rm = {}
      /\ new.evict = all
  <2>1. all \in SUBSET Ids
    BY <1>0, <1>a
  <2> QED BY <1>1, <2>1 DEF Idle, Request, Pcs, Nexts
<1>5. NoRef < fresh
  BY DEF StoreInv, StoreTypeOK, StoreAssumption, NoRef
<1>6. \A x \in new.evict : x < fresh
  BY <1>0, <1>a, <1>4 DEF StoreInv
<1>7. ASSUME NEW id \in Ids, ~ Gone(id) PROVE id \in faulty' \/ Answers(Loader, id)'
  <2>1. task'[Loader] = new
    BY <1>2, TypedTasks, LoaderIsTask DEF StoreInv
  <2>2. id \in new.evict \cup faulty'
    BY <1>0, <1>b, <1>4, <1>7
  <2> QED BY <1>4, <2>1, <2>2 DEF Answers
<1> QED
  BY <1>2, <1>b, <1>3, <1>4, <1>5, <1>6, <1>7, LoaderAlone

(* what is not a whole pair, or cannot be read, is unlinked *)
LEMMA LoadOneStep ==
    ASSUME StoreInv, LoadOne
    PROVE  StoreInv'
<1>1. PICK id \in task[Loader].evict :
        /\ Refused(IF Usable(id) THEN {id} ELSE {})
        /\ task' = [task EXCEPT ![Loader].evict = @ \ {id}, ![Loader].victim = id,
                                ![Loader].rm = Parts]
  BY Zenon DEF LoadOne
<1>2. PICK new : new = [task[Loader] EXCEPT !.evict = task[Loader].evict \ {id}, !.victim = id, !.rm = Parts]
  OBVIOUS
<1>3. /\ phase = "loading" /\ task[Loader].pc = "check" /\ task[Loader].rm = {}
      /\ UNCHANGED <<records, disk, born, fresh, clock, phase, kills>>
  BY DEF LoadOne
<1>4. /\ task \in [Tasks -> Request] /\ task[Loader] \in Request /\ Known(task[Loader])
      /\ task[Loader].evict \subseteq Ids
  BY TypedTasks, Around, LoaderIsTask DEF StoreInv
<1>5. task' = [task EXCEPT ![Loader] = new]
  BY <1>1, <1>2, <1>4, LoaderIsTask
<1>6. /\ new \in Request /\ new.pc = "check" /\ new.id = task[Loader].id /\ new.victim = id
      /\ new.rm = Parts /\ new.evict = task[Loader].evict \ {id}
  BY <1>2, <1>3, <1>4 DEF Request
<1>7. records = {} /\ \A t \in Tasks \ {Loader} : task[t] = Idle
  BY <1>3 DEF StoreInv, Booting
<1>8. id < fresh /\ (\A x \in new.evict : x < fresh) /\ task[Loader].id < fresh
  BY <1>4, <1>6 DEF Known
<1>a. faulty \subseteq faulty' /\ faulty' \subseteq Ids
  BY <1>1, <1>4, TypedTasks DEF Refused, StoreInv
<1>9. ASSUME NEW x \in Ids, ~ Gone(x), x \notin faulty PROVE Answers(Loader, x)'
  <2>1. task'[Loader] = new
    BY <1>4, <1>5, LoaderIsTask
  <2>2. \E t \in Tasks : Answers(t, x)
    BY <1>3, <1>7, <1>9 DEF StoreInv, Covered
  <2>3. \A t \in Tasks \ {Loader} : ~ Answers(t, x)
    <3>1. \A t \in Tasks \ {Loader} : task[t].rm = {} /\ task[t].pc \notin {"wav", "side", "check"}
      BY <1>7, Idleness
    <3> QED BY <1>9, <3>1, AnswersForNone
  <2>4. Answers(Loader, x)
    BY <2>2, <2>3
  <2>5. x \in task[Loader].evict
    BY <1>3, <1>9, <2>4 DEF Answers, Gone
  <2> QED BY <1>3, <1>6, <2>1, <2>5 DEF Answers
<1> QED
  BY <1>1, <1>a, <1>3, <1>4, <1>5, <1>6, <1>7, <1>8, <1>9, LoaderAlone

(* what is left is whole, and is the index *)
LEMMA PublishStep ==
    ASSUME StoreInv, Publish
    PROVE  StoreInv'
<1>0. PICK kept, old : kept = task[Loader].evict /\ old = {id \in task[Loader].evict : OldEnough(id)}
  OBVIOUS
<1>1. PICK new : new = [Idle EXCEPT !.pc = "evict", !.then = "up", !.evict = old]
  OBVIOUS
<1>2. /\ phase = "loading" /\ task[Loader].pc = "check" /\ task[Loader].rm = {}
      /\ \A id \in kept : Usable(id)
      /\ records' = kept /\ task' = [task EXCEPT ![Loader] = new]
      /\ UNCHANGED <<disk, born, fresh, clock, phase, kills, faulty>>
  BY <1>0, <1>1 DEF Publish, Become
<1>3. kept \subseteq Ids /\ old \in SUBSET Ids /\ (\A x \in kept : x < fresh)
  BY <1>0, Around, LoaderIsTask DEF Known
<1>4. /\ new \in Request /\ new.pc = "evict" /\ new.then = "up" /\ new.id = NoRef /\ new.victim = NoRef
      /\ new.rm = {} /\ new.evict = old
  BY <1>1, <1>3 DEF Idle, Request, Pcs, Nexts
<1>5. records = {} /\ \A t \in Tasks \ {Loader} : task[t] = Idle
  BY <1>2 DEF StoreInv, Booting
<1>6. NoRef < fresh
  BY DEF StoreInv, StoreTypeOK, StoreAssumption, NoRef
<1>7. \A x \in old : x \in kept /\ OldEnough(x)
  BY <1>0
<1>8. \A id \in kept : WholePair(id)
  BY <1>2 DEF Usable
<1>9. ASSUME NEW x \in Ids, ~ Gone(x), x \notin faulty PROVE x \in kept
  <2>1. \E t \in Tasks : Answers(t, x)
    BY <1>2, <1>5, <1>9 DEF StoreInv, Covered
  <2>2. \A t \in Tasks \ {Loader} : ~ Answers(t, x)
    <3>1. \A t \in Tasks \ {Loader} : task[t].rm = {} /\ task[t].pc \notin {"wav", "side", "check"}
      BY <1>5, Idleness
    <3> QED BY <1>9, <3>1, AnswersForNone
  <2>3. Answers(Loader, x)
    BY <2>1, <2>2
  <2> QED BY <1>0, <1>2, <1>9, <2>3 DEF Answers, Gone
<1> QED
  BY <1>2, <1>3, <1>4, <1>5, <1>6, <1>7, <1>8, <1>9, LoaderAlone

(* time only makes recordings older *)
LEMMA OlderStays ==
    ASSUME StoreInv, clock' = clock + 1, born' = born, NEW id \in Ids, OldEnough(id)
    PROVE  OldEnough(id)'
<1>1. clock \in Nat /\ born[id] \in Nat /\ MaxAge \in Nat
  BY TypedTasks DEF StoreInv, StoreAssumption
<1>2. PICK c, b, m : c = clock /\ b = born[id] /\ m = MaxAge
  OBVIOUS
<1>3. c \in Nat /\ b \in Nat /\ m \in Nat /\ c - b >= m
  BY <1>1, <1>2 DEF OldEnough
<1>4. (c + 1) - b >= m
  BY <1>3
<1> QED
  BY <1>2, <1>4 DEF OldEnough

LEMMA TickStep ==
    ASSUME StoreInv, Tick
    PROVE  StoreInv'
<1>1. /\ clock < MaxClock /\ clock' = clock + 1 /\ clock \in Nat
      /\ UNCHANGED <<records, disk, born, fresh, task, phase, kills, faulty>>
  BY TypedTasks DEF Tick, StoreInv
<1>2. \A id \in Ids : OldEnough(id) => OldEnough(id)'
  BY <1>1, OlderStays
<1>3. StoreTypeOK'
  <2>1. clock' \in 0..MaxClock
    BY <1>1, StoreAssumption
  <2> QED BY <1>1, <2>1 DEF StoreInv, StoreTypeOK
<1>4. Booting' /\ VictimsOut' /\ Covered' /\ (Indexing' <=> Indexing)
  BY <1>1 DEF StoreInv, Booting, VictimsOut, Covered, Answers, Gone, Indexing
<1>5. /\ \A id \in records' : WholePair(id)' /\ id < fresh'
      /\ \A id \in Ids : ~ Gone(id)' => id < fresh'
  BY <1>1 DEF StoreInv, WholePair, Gone
<1>6. ASSUME NEW t \in Tasks PROVE InHand(t)' /\ Secret(t)'
  <2>1. InHand(t) /\ Secret(t) /\ task[t].evict \subseteq Ids
    BY Around DEF StoreInv
  <2>2. Stages(task[t]) => Live(task[t].id)'
    <3>1. ASSUME Stages(task[t]) PROVE Live(task[t].id)'
      <4>1. PICK id \in Ids : id = task[t].id
        BY <2>1, <3>1 DEF InHand, Shaped, Carries
      <4>2. Live(id)
        BY <2>1, <3>1, <4>1 DEF InHand
      <4>3. Live(id)'
        BY <1>1, <1>2, <1>4, <4>2 DEF Live, WholePair
      <4> QED BY <1>1, <4>1, <4>3 DEF Live
    <3> QED BY <3>1
  <2>3. Known(task[t])'
    BY <1>1, <2>1 DEF InHand, Known
  <2>4. task[t].pc = "evict" => \A x \in task[t].evict : OldEnough(x)'
    BY <1>2, <2>1 DEF InHand
  <2>5. InHand(t)'
    BY <1>1, <2>1, <2>2, <2>3, <2>4 DEF InHand, Shaped
  <2> QED BY <1>1, <2>1, <2>5 DEF Secret
<1> QED
  BY <1>3, <1>4, <1>5, <1>6 DEF StoreInv

-----------------------------------------------------------------------------
(* A recording that is served stays so until it expires or is handed back.   *)

(* what the requests and the process do by themselves *)
StoreStep ==
    \/ \E t \in Tasks : Progress(t) \/ Answer(t)
    \/ Boot \/ Kill \/ Tick

LEMMA StoreStepKeeps ==
    ASSUME StoreInv, StoreStep
    PROVE  StoreInv'
<1>1. ASSUME NEW t \in Tasks, Progress(t) \/ Answer(t) PROVE StoreInv'
  <2>1. CASE Stat(t) /\ task'[t].pc # "cut"
    BY <2>1, StatGoneStep
  <2>2. CASE EvictNext(t) \/ Unlink(t) \/ UnlinkFails(t) \/ WriteFails(t)
    BY <2>2, EvictNextStep, UnlinkStep, WriteFailsStep
  <2>3. CASE OpenWav(t) \/ WriteWav(t) \/ WriteSide(t)
    BY <2>3, CreationSteps
  <2>4. CASE /\ Removed(t) \/ IntakeFails(t) \/ Create(t) \/ Created(t) \/ Stat(t) \/ Cut(t) \/ Answer(t)
             /\ ~ Stat(t) \/ task'[t].pc = "cut"
    BY <2>4, GoingOnSteps
  <2> QED BY <1>1, <2>1, <2>2, <2>3, <2>4 DEF Progress
<1>2. ASSUME Boot PROVE StoreInv'
  BY <1>2, StartLoadStep, LoadOneStep, PublishStep, ListenStep DEF Boot
<1> QED
  BY <1>1, <1>2, KillStep, TickStep DEF StoreStep

LEMMA LiveWhileUp ==
    ASSUME NEW id, Live(id), phase = "up", phase' = "up", born'[id] = born[id], clock' = clock,
           faulty \subseteq faulty',
           OldEnough(id) \/ id \in faulty' \/ (id \in records => id \in records')
    PROVE  Live(id)'
  BY DEF Live, Indexing, OldEnough

(* The index after an eviction still holds what has not expired.             *)
LEMMA LiveInEviction ==
    ASSUME StoreInv, NEW id \in Ids, Live(id), NEW t \in Tasks, EvictNext(t)
    PROVE  Live(id)'
<1>1. PICK x \in task[t].evict :
        /\ records' = records \ {x}
        /\ task' = [task EXCEPT ![t].evict = @ \ {x}, ![t].rm = Parts, ![t].victim = x]
  BY Zenon DEF EvictNext
<1>2. OldEnough(x) /\ UNCHANGED <<born, clock, phase, faulty>> /\ phase # "down" /\ task[t].pc = "evict"
  BY DEF EvictNext, StoreInv, InHand
<1>3. id \in records => OldEnough(id) \/ id \in records'
  BY <1>1, <1>2
<1>4. \A u \in Tasks : task'[u].pc = task[u].pc
  BY <1>1, TypedTasks DEF StoreInv, Request
<1>5. Indexing
  <2>1. CASE phase = "loading"
    <3>1. t = Loader
      BY <1>2, <2>1, Idleness DEF StoreInv, Booting
    <3> QED BY <1>2, <2>1, <3>1 DEF Indexing
  <2> QED BY <1>2, <2>1 DEF StoreInv, StoreTypeOK, Indexing
<1>6. Indexing'
  BY <1>2, <1>4, <1>5, LoaderIsTask DEF Indexing
<1> QED
  BY <1>2, <1>3, <1>5, <1>6 DEF Live, OldEnough

LEMMA LiveInUnlink ==
    ASSUME StoreInv, NEW id \in Ids, Live(id), NEW t \in Tasks, Unlink(t) \/ UnlinkFails(t)
    PROVE  Live(id)'
<1>1. PICK parts \in SUBSET task[t].rm :
        /\ parts # {}
        /\ task' = [task EXCEPT ![t].rm = @ \ parts]
        /\ disk' \in [Ids -> [Parts -> {"none", "torn", "whole"}]]
        /\ \A x \in Ids : x # task[t].victim => disk'[x] = disk[x]
        /\ \A x \in Ids, p \in Parts : disk'[x][p] = disk[x][p] \/ disk'[x][p] = "none"
        /\ task[t].victim \in faulty' \/ \A p \in parts : disk'[task[t].victim][p] = "none"
        /\ faulty \subseteq faulty' /\ faulty' \subseteq Ids
  BY UnlinkEffect
<1>2. UNCHANGED <<records, born, clock, phase>> /\ task \in [Tasks -> Request]
  BY TypedTasks DEF Unlink, UnlinkFails, StoreInv
<1>3. \A u \in Tasks : /\ task'[u].pc = task[u].pc /\ task'[u].victim = task[u].victim
                       /\ task'[u].rm \subseteq task[u].rm
  BY <1>1, <1>2 DEF Request
<1>4. Indexing' <=> Indexing
  BY <1>2, <1>3, LoaderIsTask DEF Indexing
<1>5. task[t].rm # {} /\ task[t].victim \in Ids
  BY <1>1, Around DEF Shaped
<1>6. task[t].victim # id => disk'[id] = disk[id]
  BY <1>1
<1>7. ASSUME ~ OldEnough(id), id \notin faulty, ~ Indexing
      PROVE  WholePair(id)' /\ \A u \in Tasks : task'[u].rm # {} => task'[u].victim # id
  <2>1. WholePair(id) /\ \A u \in Tasks : task[u].rm # {} => task[u].victim # id
    BY <1>7 DEF Live
  <2>2. disk'[id] = disk[id]
    BY <1>5, <1>6, <2>1
  <2> QED BY <1>3, <2>1, <2>2 DEF WholePair
<1> QED
  BY <1>1, <1>2, <1>4, <1>7 DEF Live, OldEnough

LEMMA LiveInRequest ==
    ASSUME StoreInv, NEW id \in Ids, Live(id), NEW t \in Tasks, Progress(t) \/ Answer(t),
           \A u \in Tasks : Creates(task[u]) => task[u].id # id
    PROVE  Live(id)'
<1>1. CASE EvictNext(t) \/ Unlink(t) \/ UnlinkFails(t)
  BY <1>1, LiveInEviction, LiveInUnlink
<1>2. CASE Removed(t) \/ IntakeFails(t) \/ Create(t) \/ WriteWav(t) \/ WriteFails(t) \/ Created(t)
           \/ Cut(t) \/ Answer(t)
  BY <1>2, LiveWhileUp
  DEF Removed, IntakeFails, Create, WriteWav, WriteFails, Created, Cut, Answer, At
<1>3. CASE OpenWav(t)
  <2>1. Creates(task[t])
    BY <1>3 DEF OpenWav, Creates, At
  <2>2. born'[id] = born[id]
    BY <1>3, <2>1, TypedTasks DEF OpenWav, StoreInv
  <2> QED BY <1>3, <2>2, LiveWhileUp DEF OpenWav, At
<1>4. CASE WriteSide(t)
  BY <1>4, LiveWhileUp DEF WriteSide, At
<1>5. CASE Stat(t)
  <2>1. id \in records => disk[id]["wav"] = "whole"
    BY Around DEF WholePair, Parts
  <2>2. (id \in records => id \in records') \/ id \in faulty'
    BY <1>5, <2>1 DEF Stat, Refused
  <2>3. faulty \subseteq faulty'
    BY <1>5 DEF Stat, Refused
  <2> QED BY <1>5, <2>2, <2>3, LiveWhileUp DEF Stat, At
<1> QED
  BY <1>1, <1>2, <1>3, <1>4, <1>5 DEF Progress

(* The process dies and load brings it back.                                 *)
LEMMA LiveThroughRestart ==
    ASSUME StoreInv, NEW id \in Ids, Live(id), Kill \/ Boot
    PROVE  Live(id)'
<1>0. UNCHANGED <<disk, born, clock>> /\ task \in [Tasks -> Request]
  <2>1. LoadOne => UNCHANGED <<disk, born, clock>>
    BY DEF LoadOne
  <2>2. Kill \/ StartLoad \/ Publish \/ Listen => UNCHANGED <<disk, born, clock>>
    BY DEF Kill, StartLoad, Publish, Listen
  <2> QED BY <2>1, <2>2, TypedTasks DEF StoreInv, Boot
<1>1. OldEnough(id)' <=> OldEnough(id)
  BY <1>0 DEF OldEnough
<1>a. faulty \subseteq faulty'
  <2>1. LoadOne => faulty \subseteq faulty'
    BY DEF LoadOne, Refused
  <2>2. StartLoad => faulty \subseteq faulty'
    BY DEF StartLoad, Refused
  <2>3. Kill \/ Publish \/ Listen => faulty \subseteq faulty'
    BY DEF Kill, Publish, Listen
  <2> QED BY <2>1, <2>2, <2>3 DEF Boot
<1>2. ASSUME ~ OldEnough(id), id \notin faulty PROVE WholePair(id)
  BY <1>2, Around, LoaderIsTask DEF Live, Indexing
<1>3. SUFFICES ASSUME ~ OldEnough(id), id \notin faulty, id \notin faulty'
               PROVE  IF Indexing' THEN id \in records'
                      ELSE WholePair(id)' /\ \A t \in Tasks : task'[t].rm # {} => task'[t].victim # id
  BY <1>1, <1>a DEF Live
<1>4. WholePair(id)' /\ WholePair(id)
  BY <1>0, <1>2, <1>3 DEF WholePair
<1>5. CASE Kill
  <2>1. phase' = "down" /\ \A t \in Tasks : task'[t].rm = {}
    BY <1>5, Idleness DEF Kill
  <2> QED BY <1>4, <2>1 DEF Indexing
<1>6. CASE StartLoad
  <2>1. phase' = "loading" /\ task'[Loader].pc = "check" /\ task'[Loader].rm = {}
    <3>0. PICK all : /\ phase' = "loading"
                     /\ task' = [task EXCEPT ![Loader] =
                            [Idle EXCEPT !.pc = "check", !.then = "check", !.evict = all]]
      BY <1>6 DEF StartLoad, Become
    <3>1. PICK new : new = [Idle EXCEPT !.pc = "check", !.then = "check", !.evict = all]
      OBVIOUS
    <3>2. new.pc = "check" /\ new.rm = {}
      BY <3>1 DEF Idle
    <3>3. task' = [task EXCEPT ![Loader] = new] /\ phase' = "loading"
      BY <3>0, <3>1
    <3> QED BY <1>0, <3>2, <3>3, LoaderIsTask
  <2>2. \A t \in Tasks \ {Loader} : task'[t].rm = {}
    <3>1. \A t \in Tasks : task[t].rm = {}
      BY <1>6, Idleness DEF StartLoad, StoreInv, Booting
    <3> QED BY <1>0, <1>6, <3>1 DEF StartLoad, Become
  <2> QED BY <1>4, <2>1, <2>2 DEF Indexing
<1>7. CASE LoadOne
  <2>1. PICK x \in task[Loader].evict :
          /\ Refused(IF Usable(x) THEN {x} ELSE {})
          /\ task' = [task EXCEPT ![Loader].evict = @ \ {x}, ![Loader].victim = x,
                                  ![Loader].rm = Parts]
    BY Zenon, <1>7 DEF LoadOne
  <2>2. x # id
    BY <1>3, <1>4, <2>1 DEF Usable, Refused
  <2>3. /\ phase = "loading" /\ phase' = phase /\ task[Loader].pc = "check"
        /\ task'[Loader].pc = "check" /\ task'[Loader].victim = x
        /\ \A t \in Tasks \ {Loader} : task'[t] = task[t]
    BY <1>0, <1>7, <2>1, LoaderIsTask DEF LoadOne, Request
  <2>4. \A t \in Tasks : task[t].rm # {} => task[t].victim # id
    BY <1>3, <2>3 DEF Live, Indexing
  <2> QED BY <1>4, <2>2, <2>3, <2>4 DEF Indexing
<1>8. CASE Publish
  <2>1. /\ phase = "loading" /\ task[Loader].pc = "check" /\ task[Loader].rm = {}
        /\ records' = task[Loader].evict
    BY <1>8 DEF Publish
  <2>2. ~ Gone(id) /\ records = {}
    BY <1>4, <2>1 DEF WholePair, Gone, Parts, StoreInv, Booting
  <2>3. PICK t \in Tasks : Answers(t, id)
    BY <1>3, <2>1, <2>2 DEF StoreInv, Covered
  <2>4. t = Loader
    <3>1. \A u \in Tasks \ {Loader} : task[u].rm = {} /\ task[u].pc \notin {"wav", "side", "check"}
      BY <2>1, Idleness DEF StoreInv, Booting
    <3> QED BY <2>2, <2>3, <3>1, AnswersForNone
  <2>5. id \in task[Loader].evict
    BY <2>1, <2>2, <2>3, <2>4 DEF Answers, Gone
  <2>6. phase' = "loading" /\ task'[Loader].pc = "evict"
    <3>0. PICK old : old = {x \in task[Loader].evict : OldEnough(x)}
      OBVIOUS
    <3>1. PICK new : new = [Idle EXCEPT !.pc = "evict", !.then = "up", !.evict = old]
      OBVIOUS
    <3>2. new.pc = "evict"
      BY <3>1 DEF Idle
    <3>3. task' = [task EXCEPT ![Loader] = new] /\ phase' = "loading"
      BY <1>8, <3>0, <3>1 DEF Publish, Become
    <3> QED BY <1>0, <3>2, <3>3, LoaderIsTask
  <2> QED BY <2>1, <2>5, <2>6 DEF Indexing
<1>9. CASE Listen
  <2>1. Indexing /\ phase' = "up" /\ records' = records
    BY <1>9 DEF Listen, Indexing
  <2>2. id \in records
    BY <1>3, <2>1 DEF Live
  <2> QED BY <2>1, <2>2 DEF Indexing
<1> QED
  BY <1>5, <1>6, <1>7, <1>8, <1>9 DEF Boot

LEMMA LiveStep ==
    ASSUME StoreInv, NEW id \in Ids, Live(id), StoreStep,
           \A u \in Tasks : Creates(task[u]) => task[u].id # id
    PROVE  Live(id)'
<1>1. CASE Tick
  <2>1. OldEnough(id) => OldEnough(id)'
    BY <1>1, OlderStays DEF Tick
  <2>2. UNCHANGED <<records, disk, task, phase, faulty>>
    BY <1>1 DEF Tick
  <2> QED BY <2>1, <2>2 DEF Live, Indexing, WholePair
<1> QED
  BY <1>1, LiveInRequest, LiveThroughRestart DEF StoreStep

(* Nobody begins to carry a recording but by an intake.                      *)
CarriesOn(t) ==
    Carries(task'[t]) => Carries(task[t]) /\ task'[t].id = task[t].id

LEMMA CarriesInRequest ==
    ASSUME StoreInv, NEW t \in Tasks, Progress(t) \/ Answer(t), NEW u \in Tasks
    PROVE  CarriesOn(u) /\ fresh' = fresh
<1> USE DEF CarriesOn, Carries, Creates, Stages, At
<1>0. /\ task \in [Tasks -> Request] /\ task[t] \in Request /\ Shaped(task[t])
      /\ \A new : task' = [task EXCEPT ![t] = new] => task'[t] = new /\ (u # t => task'[u] = task[u])
  BY TypedTasks, Around DEF StoreInv
<1>1. CASE EvictNext(t)
  <2>1. PICK x \in task[t].evict :
          task' = [task EXCEPT ![t].evict = @ \ {x}, ![t].rm = Parts, ![t].victim = x]
    BY Zenon, <1>1 DEF EvictNext
  <2>2. task'[u].pc = task[u].pc /\ task'[u].then = task[u].then /\ task'[u].id = task[u].id
    BY <1>0, <2>1 DEF Request
  <2> QED BY <1>1, <2>2 DEF EvictNext
<1>2. CASE Unlink(t) \/ UnlinkFails(t)
  <2>1. PICK parts \in SUBSET task[t].rm : task' = [task EXCEPT ![t].rm = @ \ parts]
    BY <1>2, UnlinkEffect
  <2>2. task'[u].pc = task[u].pc /\ task'[u].then = task[u].then /\ task'[u].id = task[u].id
    BY <1>0, <2>1 DEF Request
  <2> QED BY <1>2, <2>2 DEF Unlink, UnlinkFails
<1>3. CASE Removed(t)
  <2>1. PICK new : new = IF task[t].then = "refused" THEN [Idle EXCEPT !.pc = "refused"] ELSE Idle
    OBVIOUS
  <2>2. new.pc = task[t].then /\ task[t].then \in {"refused", "idle"}
    BY <1>0, <1>3, <2>1 DEF Removed, Shaped, Idle
  <2> QED BY <1>0, <1>3, <2>1, <2>2 DEF Removed, Become
<1>4. CASE IntakeFails(t) \/ Answer(t) \/ Cut(t)
  <2>1. PICK new : new = Idle \/ new = [Idle EXCEPT !.pc = "refused"]
    OBVIOUS
  <2>2. /\ task'[t].pc \in {"refused", "idle"} /\ (u # t => task'[u] = task[u])
    BY <1>0, <1>4 DEF IntakeFails, Answer, Cut, Become, Idle
  <2> QED BY <1>4, <2>2 DEF IntakeFails, Answer, Cut
<1>5. CASE Create(t)
  <2>1. PICK new : new = Evicting(t, "wav")
    OBVIOUS
  <2>2. new.id = task[t].id
    BY <2>1 DEF Evicting, Idle
  <2>3. task'[t] = new /\ (u # t => task'[u] = task[u])
    BY <1>0, <1>5, <2>1 DEF Create, Become
  <2> QED BY <1>5, <2>2, <2>3 DEF Create
<1>6. CASE OpenWav(t) \/ Created(t)
  <2>1. PICK pc \in {"wav", "staged"} : task' = [task EXCEPT ![t] = [Idle EXCEPT !.pc = pc, !.id = task[t].id]]
    BY <1>6 DEF OpenWav, Created, Become
  <2>2. task'[t].id = task[t].id /\ (u # t => task'[u] = task[u])
    BY <1>0, <2>1 DEF Idle
  <2> QED BY <1>6, <2>2 DEF OpenWav, Created
<1>7. CASE WriteWav(t)
  <2>1. task' = [task EXCEPT ![t] = [task[t] EXCEPT !.pc = "side"]]
    BY <1>7 DEF WriteWav, Become
  <2>2. task'[t].id = task[t].id /\ (u # t => task'[u] = task[u])
    BY <1>0, <2>1 DEF Request
  <2> QED BY <1>7, <2>2 DEF WriteWav
<1>a. CASE Stat(t) /\ task' = [task EXCEPT ![t] = [task[t] EXCEPT !.pc = "cut"]]
  <2>1. task'[t].id = task[t].id /\ task'[t].pc = "cut" /\ (u # t => task'[u] = task[u])
    BY <1>0, <1>a DEF Request
  <2> QED BY <1>a, <2>1 DEF Stat
<1>8. CASE WriteFails(t) \/ (Stat(t) /\ task' = [task EXCEPT ![t] = Removing(task[t].id, "idle")])
  <2>1. PICK next \in {"refused", "idle"} : task' = [task EXCEPT ![t] = Removing(task[t].id, next)]
    BY <1>8 DEF WriteFails, Become
  <2>2. Removing(task[t].id, next).pc = "remove"
    BY DEF Removing, Idle
  <2>3. task'[t].pc = "remove" /\ (u # t => task'[u] = task[u])
    BY <1>0, <2>1, <2>2
  <2> QED BY <1>8, <2>3 DEF WriteFails, Stat
<1>9. CASE WriteSide(t)
  <2>1. PICK old : old = {x \in records \cup {task[t].id} : OldEnough(x)}
    OBVIOUS
  <2>2. PICK new : new = [Idle EXCEPT !.pc = "evict", !.id = task[t].id, !.then = "staged", !.evict = old]
    OBVIOUS
  <2>3. new.id = task[t].id
    BY <2>2 DEF Idle
  <2>4. task' = [task EXCEPT ![t] = new]
    BY <1>9, <2>1, <2>2 DEF WriteSide, Become
  <2>5. task'[t] = new /\ (u # t => task'[u] = task[u])
    BY <1>0, <2>4
  <2> QED BY <1>9, <2>3, <2>5 DEF WriteSide
<1>b. Stat(t) => \/ task' = [task EXCEPT ![t] = [task[t] EXCEPT !.pc = "cut"]]
                 \/ task' = [task EXCEPT ![t] = Removing(task[t].id, "idle")]
  BY DEF Stat, Become
<1> QED
  BY <1>1, <1>2, <1>3, <1>4, <1>5, <1>6, <1>7, <1>a, <1>b, <1>8, <1>9 DEF Progress

LEMMA CarriesThroughBoot ==
    ASSUME StoreInv, Boot \/ Kill \/ Tick, NEW u \in Tasks
    PROVE  CarriesOn(u) /\ fresh' = fresh
<1> USE DEF CarriesOn, Carries, Creates, Stages
<1>0. task \in [Tasks -> Request] /\ Loader \in Tasks
  BY TypedTasks, LoaderIsTask DEF StoreInv
<1>1. CASE Kill
  BY <1>1, Idleness DEF Kill
<1>2. CASE Tick
  BY <1>2 DEF Tick
<1>3. CASE StartLoad
  <2>1. PICK all : /\ fresh' = fresh
                   /\ task' = [task EXCEPT ![Loader] =
                          [Idle EXCEPT !.pc = "check", !.then = "check", !.evict = all]]
    BY <1>3 DEF StartLoad, Become
  <2>2. PICK new : new = [Idle EXCEPT !.pc = "check", !.then = "check", !.evict = all]
    OBVIOUS
  <2>3. new.pc = "check"
    BY <2>2 DEF Idle
  <2>4. task' = [task EXCEPT ![Loader] = new] /\ fresh' = fresh
    BY <2>1, <2>2
  <2> QED BY <1>0, <2>3, <2>4
<1>4. CASE LoadOne
  <2>1. PICK x \in task[Loader].evict :
          task' = [task EXCEPT ![Loader].evict = @ \ {x}, ![Loader].victim = x, ![Loader].rm = Parts]
    BY Zenon, <1>4 DEF LoadOne
  <2>2. task'[u].pc = task[u].pc /\ task'[u].then = task[u].then /\ task'[u].id = task[u].id
    BY <1>0, <2>1 DEF Request
  <2> QED BY <1>4, <2>2 DEF LoadOne
<1>5. CASE Publish
  <2>1. PICK old : old = {id \in task[Loader].evict : OldEnough(id)}
    OBVIOUS
  <2>2. PICK new : new = [Idle EXCEPT !.pc = "evict", !.then = "up", !.evict = old]
    OBVIOUS
  <2>3. new.pc = "evict" /\ new.then = "up"
    BY <2>2 DEF Idle
  <2>4. task' = [task EXCEPT ![Loader] = new] /\ fresh' = fresh
    BY <1>5, <2>1, <2>2 DEF Publish, Become
  <2> QED BY <1>0, <2>3, <2>4
<1>6. CASE Listen
  BY <1>0, <1>6, Idleness DEF Listen, Become
<1> QED
  BY <1>1, <1>2, <1>3, <1>4, <1>5, <1>6 DEF Boot

LEMMA StoreStepCarries ==
    ASSUME StoreInv, StoreStep
    PROVE  fresh' = fresh /\ \A u \in Tasks : CarriesOn(u)
  BY CarriesInRequest, CarriesThroughBoot, LoaderIsTask DEF StoreStep

-----------------------------------------------------------------------------
(* The draft, step by step.                                                  *)

LEMMA HoldFrame ==
    ASSUME StoreInv, HoldInv, IntakeTypeOK', fresh \in Nat, fresh' \in Nat, fresh <= fresh',
           \A id \in Ids : Chosen(id)' => Chosen(id),
           \A t \in Tasks : CarriesOn(t)
                          \/ (task'[t].id \in Ids /\ \A id \in Ids : id = task'[t].id => ~ Chosen(id)'),
           \A t \in Tasks : Carries(task'[t]) => task'[t].id \in Ids,
           owed' \subseteq owed \/ sel' = NoRef, sel' \in {sel, NoRef},
           sel' # NoRef /\ Live(sel) => Live(sel)'
    PROVE  HoldInv'
<1>1. \A id \in Ids : Chosen(id)' => id < fresh'
  <2>1. \A id \in Ids : id \in Nat
    BY IdsAreNat
  <2> QED BY <2>1 DEF HoldInv
<1>2. ASSUME NEW t \in Tasks, Carries(task'[t]), NEW x \in Ids, x = task'[t].id
      PROVE  ~ Chosen(x)'
  <2>1. CASE CarriesOn(t)
    <3>1. Carries(task[t]) /\ task[t].id = x
      BY <1>2, <2>1 DEF CarriesOn
    <3>2. ~ Chosen(x)
      BY <3>1 DEF HoldInv
    <3> QED BY <3>2
  <2>2. CASE task'[t].id \in Ids /\ \A id \in Ids : id = task'[t].id => ~ Chosen(id)'
    BY <1>2, <2>2
  <2> QED BY <2>1, <2>2
<1>3. sel' \notin owed'
  BY IdsAreNat DEF HoldInv, IntakeTypeOK
<1>4. sel' # NoRef => Live(sel)'
  BY DEF HoldInv, IntakeTypeOK, Refs
<1>5. ASSUME NEW t \in Tasks, Carries(task'[t])
      PROVE  ~ (\/ task'[t].id = sel' \/ task'[t].id \in owed'
                \/ \E m \in Mics : mic'[m].sel = task'[t].id
                \/ \E u \in Tasks : intake'[u].sel = task'[t].id)
  <2>1. PICK x \in Ids : x = task'[t].id
    BY <1>5
  <2>2. ~ Chosen(x)'
    BY <1>2, <1>5, <2>1
  <2> QED BY <2>1, <2>2 DEF Chosen
<1> QED
  BY <1>1, <1>3, <1>4, <1>5 DEF HoldInv, Chosen, Carries, Creates, Stages

LEMMA GatewayHolds ==
    ASSUME StoreInv, HoldInv, StoreStep, UNCHANGED uiVars
    PROVE  HoldInv'
<1>1. StoreInv'
  BY StoreStepKeeps
<1>2. fresh' = fresh /\ fresh \in Nat /\ \A u \in Tasks : CarriesOn(u)
  BY StoreStepCarries, TypedTasks DEF StoreInv
<1>3. IntakeTypeOK' /\ \A id : Chosen(id)' <=> Chosen(id)
  BY DEF HoldInv, IntakeTypeOK, Chosen, uiVars
<1>4. \A t \in Tasks : Carries(task'[t]) => task'[t].id \in Ids
  BY <1>1 DEF StoreInv, InHand, Shaped
<1>5. UNCHANGED <<sel, owed>>
  BY DEF uiVars
<1>6. sel' # NoRef /\ Live(sel) => Live(sel)'
  <2>1. SUFFICES ASSUME sel' # NoRef, Live(sel) PROVE Live(sel)'
    OBVIOUS
  <2>2. PICK x \in Ids : x = sel
    BY <1>5, <2>1 DEF HoldInv, IntakeTypeOK, Refs
  <2>3. \A u \in Tasks : Creates(task[u]) => task[u].id # x
    BY <2>2 DEF HoldInv, Chosen, Carries
  <2>4. Live(x)'
    BY <2>1, <2>2, <2>3, LiveStep
  <2> QED BY <1>5, <2>2, <2>4 DEF Live
<1> QED
  BY <1>2, <1>3, <1>4, <1>5, <1>6, HoldFrame

LEMMA StoreAtRest ==
    ASSUME StoreInv, UNCHANGED storeVars
    PROVE  /\ StoreInv' /\ fresh' = fresh /\ fresh \in Nat
           /\ \A id : Live(id) => Live(id)'
           /\ \A u \in Tasks : CarriesOn(u)
<1>0. UNCHANGED <<records, disk, born, fresh, clock, task, phase, kills, faulty>>
  BY DEF storeVars
<1>1. StoreTypeOK' /\ Booting' /\ VictimsOut'
  BY <1>0 DEF StoreInv, StoreTypeOK, Booting, VictimsOut
<1>2. /\ \A id : (Gone(id)' <=> Gone(id)) /\ (WholePair(id)' <=> WholePair(id))
      /\ \A id : OldEnough(id)' <=> OldEnough(id)
      /\ \A t, id : Answers(t, id)' <=> Answers(t, id)
  BY <1>0 DEF Gone, WholePair, OldEnough, Answers
<1>3. Covered'
  BY <1>0, <1>2 DEF StoreInv, Covered
<1>4. \A id : Live(id)' <=> Live(id)
  BY <1>0, <1>2 DEF Live, Indexing
<1>5. \A t \in Tasks : InHand(t)' /\ Secret(t)'
  <2>1. TAKE t \in Tasks
  <2>2. InHand(t) /\ Secret(t)
    BY DEF StoreInv
  <2>3. Shaped(task[t])' /\ Known(task[t])'
    BY <1>0, <2>2 DEF InHand, Shaped, Known, Carries, Creates, Stages
  <2>4. Stages(task'[t]) => Live(task[t].id)'
    BY <1>0, <1>4, <2>2 DEF InHand
  <2>5. InHand(t)'
    BY <1>0, <1>2, <2>2, <2>3, <2>4 DEF InHand
  <2>6. Secret(t)'
    BY <1>0, <2>2 DEF Secret, Creates, Stages, Carries
  <2> QED BY <2>5, <2>6
<1>6. \A u \in Tasks : CarriesOn(u)
  BY <1>0 DEF CarriesOn
<1>7. /\ \A id \in records' : WholePair(id)' /\ id < fresh'
      /\ \A id \in Ids : ~ Gone(id)' => id < fresh'
  BY <1>0, <1>2 DEF StoreInv
<1> QED
  BY <1>0, <1>1, <1>3, <1>4, <1>5, <1>6, <1>7, TypedTasks DEF StoreInv

LEMMA ScreenHolds ==
    ASSUME StoreInv, HoldInv, UNCHANGED storeVars, IntakeTypeOK',
           \A id \in Ids : Chosen(id)' => Chosen(id),
           owed' \subseteq owed, sel' \in {sel, NoRef}
    PROVE  HoldInv'
<1>1. /\ StoreInv' /\ fresh' = fresh /\ fresh \in Nat
      /\ \A u \in Tasks : CarriesOn(u)
  BY StoreAtRest
<1>2. \A t \in Tasks : Carries(task'[t]) => task'[t].id \in Ids
  BY <1>1 DEF StoreInv, InHand, Shaped
<1>3. sel' # NoRef /\ Live(sel) => Live(sel)'
  <2>1. SUFFICES ASSUME sel' # NoRef, Live(sel) PROVE Live(sel)'
    OBVIOUS
  <2>2. PICK x : x = sel
    OBVIOUS
  <2>3. Live(x)'
    BY <2>1, <2>2, StoreAtRest
  <2>4. sel' = x
    BY <2>1, <2>2
  <2> QED BY <2>3, <2>4 DEF Live
<1> QED
  BY <1>1, <1>2, <1>3, HoldFrame

(* What the microphones and the panel do: the files stay as they are.        *)
ScreenStep ==
    \/ \E m \in Mics : PressRecord(m) \/ Granted(m) \/ Denied(m) \/ RecorderFails(m)
    \/ ReleaseLost \/ Unmount \/ Mount \/ Discard

LEMMA ScreenStepHolds ==
    ASSUME StoreInv, HoldInv, ScreenStep
    PROVE  StoreInv' /\ HoldInv'
<1>0. IntakeTypeOK /\ NoRef \notin Ids
  BY IdsAreNat DEF HoldInv
<1>1. ASSUME NEW m \in Mics, PressRecord(m) PROVE UNCHANGED storeVars /\ HoldInv'
  <2>0. PICK new : new = [state |-> "asked", sel |-> sel, here |-> TRUE]
    OBVIOUS
  <2>1. /\ mic' = [mic EXCEPT ![m] = new] /\ new.sel = sel
        /\ UNCHANGED <<sel, panel, staging, recording, capture, intake, owed>> /\ UNCHANGED storeVars
    BY <1>1, <2>0 DEF PressRecord
  <2>2. \A id \in Ids : Chosen(id)' => Chosen(id)
    BY <1>0, <2>1 DEF Chosen, IntakeTypeOK
  <2>3. mic' \in [Mics -> [state : {"off", "asked", "live"}, sel : Refs, here : BOOLEAN]]
    BY <1>0, <2>0, <2>1 DEF IntakeTypeOK
  <2>4. stray' \subseteq Mics
    BY <1>0, <1>1 DEF IntakeTypeOK, PressRecord
  <2>5. IntakeTypeOK'
    BY <1>0, <2>1, <2>3, <2>4 DEF IntakeTypeOK
  <2> QED BY <2>1, <2>2, <2>5, ScreenHolds
<1>2. ASSUME NEW m \in Mics, Granted(m) \/ Denied(m) \/ RecorderFails(m) PROVE UNCHANGED storeVars /\ HoldInv'
  <2>1. PICK new \in [state : {"off", "asked", "live"}, sel : Refs, here : BOOLEAN] :
          mic' = [mic EXCEPT ![m] = new] /\ new.sel \in {mic[m].sel, NoRef}
    <3>1. PICK off : off = Off
      OBVIOUS
    <3>2. off \in [state : {"off", "asked", "live"}, sel : Refs, here : BOOLEAN] /\ off.sel = NoRef
      BY <3>1 DEF Off, Refs
    <3>3. CASE Granted(m)
      <4>1. PICK new : new = [mic[m] EXCEPT !.state = "live"]
        OBVIOUS
      <4>2. mic[m] \in [state : {"off", "asked", "live"}, sel : Refs, here : BOOLEAN]
        BY <1>0 DEF IntakeTypeOK
      <4>3. new \in [state : {"off", "asked", "live"}, sel : Refs, here : BOOLEAN] /\ new.sel = mic[m].sel
        BY <4>1, <4>2
      <4>4. mic' = [mic EXCEPT ![m] = new]
        BY <1>0, <3>3, <4>1 DEF Granted, IntakeTypeOK
      <4> QED BY <4>3, <4>4
    <3>4. CASE Denied(m) \/ RecorderFails(m)
      <4>1. mic' = [mic EXCEPT ![m] = off]
        BY <3>1, <3>4 DEF Denied, RecorderFails
      <4> QED BY <3>2, <4>1
    <3> QED BY <1>2, <3>3, <3>4
  <2>2. UNCHANGED <<sel, panel, staging, intake, owed>> /\ UNCHANGED storeVars
    BY <1>2 DEF Granted, Denied, RecorderFails
  <2>3. \A id \in Ids : Chosen(id)' => Chosen(id)
    BY <1>0, <2>1, <2>2 DEF Chosen, IntakeTypeOK
  <2>4. capture' \in Mics \cup {NoMic} /\ recording' \in BOOLEAN /\ stray' \subseteq Mics
    BY <1>0, <1>2 DEF Granted, Denied, RecorderFails, IntakeTypeOK
  <2>5. IntakeTypeOK'
    BY <1>0, <2>1, <2>2, <2>4 DEF IntakeTypeOK
  <2> QED BY <2>2, <2>3, <2>5, ScreenHolds
<1>3. CASE ReleaseLost
  <2>1. PICK x \in owed : owed' = owed \ {x}
    BY <1>3 DEF ReleaseLost
  <2>2. UNCHANGED storeVars /\ UNCHANGED <<sel, panel, staging, recording, capture, mic, intake, stray>>
    BY <1>3 DEF ReleaseLost
  <2>3. IntakeTypeOK' /\ \A id \in Ids : Chosen(id)' => Chosen(id)
    BY <1>0, <2>1, <2>2 DEF IntakeTypeOK, Chosen
  <2> QED BY <2>1, <2>2, <2>3, StoreAtRest, ScreenHolds
<1>4. CASE Unmount
  <2>0. PICK off : off = Off
    OBVIOUS
  <2>1. /\ off \in [state : {"off", "asked", "live"}, sel : Refs, here : BOOLEAN] /\ off.sel = NoRef
        /\ \A s \in {"off", "asked", "live"} :
              /\ [off EXCEPT !.state = s] \in [state : {"off", "asked", "live"}, sel : Refs, here : BOOLEAN]
              /\ [off EXCEPT !.state = s].sel = NoRef
    BY <2>0 DEF Off, Refs
  <2>2. mic' = [m \in Mics |-> IF m = capture THEN off ELSE [off EXCEPT !.state = mic[m].state]]
    BY <1>4, <2>0 DEF Unmount
  <2>3. \A m \in Mics : mic[m].state \in {"off", "asked", "live"}
    BY <1>0 DEF IntakeTypeOK
  <2>4. \A m \in Mics : /\ mic'[m] \in [state : {"off", "asked", "live"}, sel : Refs, here : BOOLEAN]
                        /\ mic'[m].sel = NoRef
    <3>1. TAKE m \in Mics
    <3>2. PICK w : w = [off EXCEPT !.state = mic[m].state]
      OBVIOUS
    <3>3. mic'[m] = off \/ mic'[m] = w
      BY <2>2, <3>2
    <3>4. w \in [state : {"off", "asked", "live"}, sel : Refs, here : BOOLEAN] /\ w.sel = NoRef
      BY <2>1, <2>3, <3>2
    <3> QED BY <2>1, <3>3, <3>4
  <2>5. mic' \in [Mics -> [state : {"off", "asked", "live"}, sel : Refs, here : BOOLEAN]]
    BY <2>2, <2>4
  <2>6. intake' = [t \in Tasks |-> [intake[t] EXCEPT !.here = FALSE]]
    BY <1>4 DEF Unmount
  <2>7. \A t \in Tasks : /\ intake'[t] \in [on : BOOLEAN, sel : Refs, here : BOOLEAN]
                         /\ intake'[t].sel = intake[t].sel
    <3>1. TAKE t \in Tasks
    <3>2. intake[t] \in [on : BOOLEAN, sel : Refs, here : BOOLEAN]
      BY <1>0 DEF IntakeTypeOK
    <3>3. PICK w : w = [intake[t] EXCEPT !.here = FALSE]
      OBVIOUS
    <3>4. intake'[t] = w
      BY <2>6, <3>3
    <3> QED BY <3>2, <3>3, <3>4
  <2>8. intake' \in [Tasks -> [on : BOOLEAN, sel : Refs, here : BOOLEAN]]
    BY <2>6, <2>7
  <2>9. /\ UNCHANGED storeVars /\ UNCHANGED <<sel, owed, stray>>
        /\ panel' = FALSE /\ capture' = NoMic /\ recording' = FALSE /\ staging' = FALSE
    BY <1>4 DEF Unmount
  <2>10. IntakeTypeOK'
    BY <1>0, <2>5, <2>8, <2>9 DEF IntakeTypeOK
  <2>11. \A id \in Ids : Chosen(id)' => Chosen(id)
    BY <1>0, <2>4, <2>7, <2>9 DEF Chosen
  <2> QED BY <2>9, <2>10, <2>11, StoreAtRest, ScreenHolds
<1>5. CASE Mount \/ Discard
  <2>1. /\ UNCHANGED storeVars /\ sel' \in {sel, NoRef} /\ panel' \in {panel, TRUE}
        /\ UNCHANGED <<staging, recording, capture, mic, intake, owed, stray>>
    BY <1>5 DEF Mount, Discard
  <2>2. IntakeTypeOK' /\ \A id \in Ids : Chosen(id)' => Chosen(id)
    BY <1>0, <2>1 DEF IntakeTypeOK, Chosen, Refs
  <2> QED BY <2>1, <2>2, StoreAtRest, ScreenHolds
<1> QED
  BY <1>1, <1>2, <1>3, <1>4, <1>5, StoreAtRest DEF ScreenStep

(* accept: what the new intake will replace was chosen already, and the      *)
(* recording it brings is one nobody has heard of.                           *)
LEMMA AcceptHolds ==
    ASSUME StoreInv, HoldInv, NEW t \in Tasks, Intake(t), IntakeTypeOK',
           \A id \in Ids : Chosen(id)' => Chosen(id), UNCHANGED <<sel, owed>>
    PROVE  StoreInv' /\ HoldInv'
<1>1. StoreInv'
  BY IntakeStep
<1>2. PICK new : new = [Idle EXCEPT !.pc = "intake", !.id = fresh]
  OBVIOUS
<1>3. /\ phase = "up" /\ task' = [task EXCEPT ![t] = new] /\ fresh \in Nat /\ fresh' = fresh + 1
      /\ fresh \in Ids /\ task \in [Tasks -> Request] /\ new.id = fresh
      /\ UNCHANGED <<records, disk, born, clock, phase, kills, faulty>>
  <2>1. fresh \in 1..(MaxIds + 1) /\ fresh <= MaxIds
    BY DEF StoreInv, StoreTypeOK, Intake
  <2>2. fresh \in Ids
    BY <2>1 DEF Ids, StoreAssumption
  <2> QED BY <1>2, <2>2, TypedTasks DEF Intake, At, Become, Idle, StoreInv
<1>4. ASSUME NEW u \in Tasks
      PROVE  CarriesOn(u) \/ (task'[u].id \in Ids /\ \A id \in Ids : id = task'[u].id => ~ Chosen(id)')
  <2>1. CASE u = t
    <3>1. task'[u].id = fresh
      BY <1>3, <2>1
    <3>2. ~ Chosen(fresh)
      BY <1>3 DEF HoldInv
    <3>3. \A id \in Ids : id = fresh => ~ Chosen(id)'
      BY <3>2
    <3> QED BY <1>3, <3>1, <3>3
  <2>2. CASE u # t
    BY <1>3, <2>2 DEF CarriesOn
  <2> QED BY <2>1, <2>2
<1>5. \A u \in Tasks : Carries(task'[u]) => task'[u].id \in Ids
  BY <1>1 DEF StoreInv, InHand, Shaped
<1>6. sel' # NoRef /\ Live(sel) => Live(sel)'
  <2>1. SUFFICES ASSUME sel' # NoRef, Live(sel) PROVE Live(sel)'
    OBVIOUS
  <2>2. PICK x : x = sel
    OBVIOUS
  <2>3. Live(x)'
    BY <1>3, <2>1, <2>2, LiveWhileUp
  <2>4. sel' = x
    BY <2>2
  <2> QED BY <2>3, <2>4 DEF Live
<1>7. fresh' \in Nat /\ fresh <= fresh'
  BY <1>3
<1> QED
  BY <1>1, <1>3, <1>4, <1>5, <1>6, <1>7, HoldFrame

LEMMA UploadHolds ==
    ASSUME StoreInv, HoldInv, Upload
    PROVE  StoreInv' /\ HoldInv'
<1>0. IntakeTypeOK /\ NoRef \notin Ids
  BY IdsAreNat DEF HoldInv
<1>1. PICK t \in Tasks : Accept(t, Closure)
  BY DEF Upload
<1>2. PICK new : new = [on |-> TRUE, sel |-> Closure.sel, here |-> Closure.here]
  OBVIOUS
<1>3. new \in [on : BOOLEAN, sel : Refs, here : BOOLEAN] /\ new.sel = sel
  BY <1>0, <1>2 DEF Closure, IntakeTypeOK
<1>4. /\ Intake(t) /\ intake' = [intake EXCEPT ![t] = new] /\ staging' = (staging \/ Closure.here)
      /\ UNCHANGED <<sel, panel, recording, capture, mic, owed, stray>>
  BY <1>1, <1>2 DEF Accept, Upload
<1>5. IntakeTypeOK'
  BY <1>0, <1>3, <1>4 DEF IntakeTypeOK, Closure
<1>6. \A id \in Ids : Chosen(id)' => Chosen(id)
  BY <1>0, <1>3, <1>4 DEF Chosen, IntakeTypeOK
<1> QED
  BY <1>4, <1>5, <1>6, AcceptHolds

LEMMA PressStopHolds ==
    ASSUME StoreInv, HoldInv, NEW t \in Tasks, PressStop(t)
    PROVE  StoreInv' /\ HoldInv'
<1>0. IntakeTypeOK /\ NoRef \notin Ids /\ capture \in Mics
  BY IdsAreNat DEF HoldInv, IntakeTypeOK, PressStop
<1>1. PICK m \in Mics : m = capture
  BY <1>0
<1>2. PICK new, off : new = [on |-> TRUE, sel |-> mic[m].sel, here |-> mic[m].here] /\ off = Off
  OBVIOUS
<1>3. /\ Intake(t) /\ intake' = [intake EXCEPT ![t] = new] /\ staging' = (staging \/ mic[m].here)
      /\ mic' = [mic EXCEPT ![m] = off] /\ stray' = stray \ {m}
      /\ capture' = NoMic /\ recording' = FALSE /\ UNCHANGED <<sel, panel, owed>>
  BY <1>1, <1>2 DEF PressStop, Accept
<1>4. /\ mic[m] \in [state : {"off", "asked", "live"}, sel : Refs, here : BOOLEAN]
      /\ new \in [on : BOOLEAN, sel : Refs, here : BOOLEAN] /\ new.sel = mic[m].sel
  BY <1>0, <1>2 DEF IntakeTypeOK
<1>5. off \in [state : {"off", "asked", "live"}, sel : Refs, here : BOOLEAN] /\ off.sel = NoRef
  BY <1>2 DEF Off, Refs
<1>6. IntakeTypeOK'
  BY <1>0, <1>3, <1>4, <1>5 DEF IntakeTypeOK
<1>7. \A id \in Ids : Chosen(id)' => Chosen(id)
  BY <1>0, <1>3, <1>4, <1>5 DEF Chosen, IntakeTypeOK
<1> QED
  BY <1>3, <1>6, <1>7, AcceptHolds

(* The reply to an intake that failed, or to one the gateway never finished. *)
LEMMA StageFailsHolds ==
    ASSUME StoreInv, HoldInv, NEW t \in Tasks, StageFails(t)
    PROVE  StoreInv' /\ HoldInv'
<1>0. IntakeTypeOK /\ NoRef \notin Ids
  BY IdsAreNat DEF HoldInv
<1>1. PICK none : none = NoIntake
  OBVIOUS
<1>2. /\ intake' = [intake EXCEPT ![t] = none] /\ staging' = (staging /\ ~ intake[t].here)
      /\ UNCHANGED <<sel, panel, recording, capture, mic, owed, stray>>
  BY <1>1 DEF StageFails, Settled
<1>3. none \in [on : BOOLEAN, sel : Refs, here : BOOLEAN] /\ none.sel = NoRef
  BY <1>1 DEF NoIntake, Refs
<1>4. IntakeTypeOK'
  BY <1>0, <1>2, <1>3 DEF IntakeTypeOK
<1>5. \A id \in Ids : Chosen(id)' => Chosen(id)
  BY <1>0, <1>2, <1>3 DEF Chosen, IntakeTypeOK
<1>6. CASE UNCHANGED storeVars
  BY <1>2, <1>4, <1>5, <1>6, StoreAtRest, ScreenHolds
<1>7. CASE Answer(t)
  <2>1. StoreInv' /\ fresh' = fresh /\ fresh \in Nat /\ \A u \in Tasks : CarriesOn(u)
    BY <1>7, GoingOnSteps, CarriesInRequest, TypedTasks DEF StoreInv, Answer, Stat, At
  <2>2. \A u \in Tasks : Carries(task'[u]) => task'[u].id \in Ids
    BY <2>1 DEF StoreInv, InHand, Shaped
  <2>3. sel' # NoRef /\ Live(sel) => Live(sel)'
    <3>1. SUFFICES ASSUME sel' # NoRef, Live(sel) PROVE Live(sel)'
      OBVIOUS
    <3>2. PICK x : x = sel
      OBVIOUS
    <3>3. Live(x)'
      BY <1>7, <3>1, <3>2, LiveWhileUp DEF Answer
    <3>4. sel' = x
      BY <1>2, <3>2
    <3> QED BY <3>3, <3>4 DEF Live
  <2> QED
    BY <1>2, <1>4, <1>5, <2>1, <2>2, <2>3, HoldFrame
<1> QED
  BY <1>6, <1>7 DEF StageFails

(* The reply that brings a new reference: nobody had chosen it, so nobody    *)
(* hands it back.                                                            *)
LEMMA StagedHolds ==
    ASSUME StoreInv, HoldInv, NEW t \in Tasks, Staged(t)
    PROVE  StoreInv' /\ HoldInv'
<1>0. IntakeTypeOK /\ NoRef \notin Ids
  BY IdsAreNat DEF HoldInv
<1>1. PICK none, id, was : none = NoIntake /\ id = task[t].id /\ was = intake[t].sel
  OBVIOUS
<1>2. /\ intake' = [intake EXCEPT ![t] = none] /\ staging' = (staging /\ ~ intake[t].here)
      /\ sel' = id /\ owed' = IF was \notin {NoRef, id} THEN owed \cup {was} ELSE owed
      /\ UNCHANGED <<panel, recording, capture, mic, stray>>
      /\ Answer(t) /\ task[t].pc = "staged"
  BY <1>1 DEF Staged, Settled, Adopt
<1>3. /\ none \in [on : BOOLEAN, sel : Refs, here : BOOLEAN] /\ none.sel = NoRef
      /\ was \in Refs
  BY <1>0, <1>1 DEF NoIntake, Refs, IntakeTypeOK
<1>4. /\ StoreInv' /\ fresh' = fresh /\ \A u \in Tasks : CarriesOn(u)
  BY <1>2, GoingOnSteps, CarriesInRequest DEF Stat, At
<1>5. InHand(t) /\ Stages(task[t]) /\ Carries(task[t]) /\ id \in Ids /\ id < fresh /\ Live(id)
  <2>1. InHand(t) /\ Stages(task[t]) /\ Carries(task[t])
    BY <1>2 DEF StoreInv, Stages, Carries
  <2>2. id \in Ids /\ id < fresh
    BY <1>1, <2>1 DEF InHand, Shaped, Known
  <2>3. Live(id)
    BY <1>1, <2>1 DEF InHand, Live
  <2> QED BY <2>1, <2>2, <2>3
<1>6. ~ Chosen(id)
  BY <1>1, <1>5 DEF HoldInv, Chosen
<1>7. IntakeTypeOK'
  BY <1>0, <1>2, <1>3, <1>5 DEF IntakeTypeOK, Refs
<1>8. \A x \in Ids : Chosen(x)' => Chosen(x) \/ x = id
  BY <1>0, <1>1, <1>2, <1>3 DEF Chosen, IntakeTypeOK
<1>9. \A x \in Ids : Chosen(x)' => x < fresh'
  BY <1>4, <1>5, <1>8 DEF HoldInv
<1>10. ASSUME NEW u \in Tasks, Carries(task'[u]), NEW x \in Ids, x = task'[u].id PROVE ~ Chosen(x)'
  <2>1. Carries(task[u]) /\ task[u].id = x
    BY <1>4, <1>10 DEF CarriesOn
  <2>2. ~ Chosen(x)
    BY <2>1 DEF HoldInv
  <2>3. u # t
    <3>1. u = t => task'[u] = Idle
      BY <1>2, TypedTasks DEF Answer, Become, StoreInv
    <3> QED BY <1>10, <3>1, Idleness
  <2>4. x # id
    BY <1>1, <2>1, <2>3, Around
  <2> QED BY <1>8, <2>2, <2>4
<1>11. sel' \notin owed'
  BY <1>2, <1>6 DEF Chosen
<1>12. Live(sel)'
  <2>1. Live(id)'
    BY <1>2, <1>5, LiveWhileUp DEF Answer
  <2> QED BY <1>2, <2>1 DEF Live
<1>13. ASSUME NEW u \in Tasks, Carries(task'[u])
      PROVE  ~ (\/ task'[u].id = sel' \/ task'[u].id \in owed'
                \/ \E m \in Mics : mic'[m].sel = task'[u].id
                \/ \E v \in Tasks : intake'[v].sel = task'[u].id)
  <2>1. task'[u].id \in Ids
    BY <1>4, <1>13 DEF StoreInv, InHand, Shaped
  <2>2. PICK x \in Ids : x = task'[u].id
    BY <2>1
  <2>3. ~ Chosen(x)'
    BY <1>10, <1>13, <2>2
  <2> QED BY <2>2, <2>3 DEF Chosen
<1> QED
  BY <1>4, <1>7, <1>9, <1>11, <1>12, <1>13 DEF HoldInv, Chosen, Carries, Creates, Stages

LEMMA ReleaseHolds ==
    ASSUME StoreInv, HoldInv, NEW t \in Tasks, Release(t)
    PROVE  StoreInv' /\ HoldInv'
<1>0. IntakeTypeOK /\ NoRef \notin Ids /\ task \in [Tasks -> Request] /\ fresh \in Nat
  BY IdsAreNat, TypedTasks DEF HoldInv, StoreInv
<1>1. PICK id \in owed : StartRemove(t, id) /\ owed' = owed \ {id}
  BY DEF Release
<1>2. id \in Ids /\ Chosen(id)
  BY <1>0 DEF IntakeTypeOK, Chosen
<1>3. Free(id)
  BY <1>2 DEF Free, HoldInv
<1>4. UNCHANGED <<disk, born, fresh, clock, phase, kills, faulty>>
      /\ UNCHANGED <<sel, panel, staging, recording, capture, mic, intake, stray>>
  BY DEF Release
<1>5. StoreInv'
  BY <1>1, <1>3, <1>4, StartRemoveStep
<1>6. PICK new : new = Removing(id, "idle")
  OBVIOUS
<1>7. task' = [task EXCEPT ![t] = new] /\ records' = records \ {id} /\ phase = "up"
      /\ ~ Creates(new) /\ ~ Stages(new)
  BY <1>1, <1>2, <1>6, RemovingFields DEF StartRemove, Become, At
<1>8. \A u \in Tasks : CarriesOn(u)
  BY <1>0, <1>7 DEF CarriesOn, Carries
<1>9. IntakeTypeOK' /\ \A x \in Ids : Chosen(x)' => Chosen(x)
  BY <1>0, <1>1, <1>4 DEF IntakeTypeOK, Chosen
<1>10. sel' # NoRef /\ Live(sel) => Live(sel)'
  <2>1. SUFFICES ASSUME sel' # NoRef, Live(sel) PROVE Live(sel)'
    OBVIOUS
  <2>2. PICK x : x = sel
    OBVIOUS
  <2>3. x # id
    BY <2>2 DEF HoldInv
  <2>4. Live(x)'
    BY <1>4, <1>7, <2>1, <2>2, <2>3, LiveWhileUp
  <2>5. sel' = x
    BY <1>4, <2>2
  <2> QED BY <2>4, <2>5 DEF Live
<1>11. \A u \in Tasks : Carries(task'[u]) => task'[u].id \in Ids
  BY <1>5 DEF StoreInv, InHand, Shaped
<1> QED
  BY <1>0, <1>1, <1>4, <1>5, <1>8, <1>9, <1>10, <1>11, HoldFrame

LEMMA PreviewHolds ==
    ASSUME StoreInv, HoldInv, NEW t \in Tasks, Preview(t)
    PROVE  StoreInv' /\ HoldInv'
<1>0. IntakeTypeOK /\ NoRef \notin Ids /\ task \in [Tasks -> Request] /\ fresh \in Nat
  BY IdsAreNat, TypedTasks DEF HoldInv, StoreInv
<1>1. PICK id : id = sel
  OBVIOUS
<1>2. id \in Ids /\ Chosen(id) /\ Window(t, id) /\ UNCHANGED uiVars
  BY <1>0, <1>1 DEF Preview, Chosen, IntakeTypeOK, Refs
<1>3. Free(id)
  BY <1>2 DEF Free, HoldInv
<1>4. StoreInv'
  BY <1>2, <1>3, WindowStep
<1>5. PICK new : new = [Idle EXCEPT !.pc = "stat", !.id = id]
  OBVIOUS
<1>6. new.pc = "stat" /\ task' = [task EXCEPT ![t] = new] /\ phase = "up"
      /\ UNCHANGED <<records, disk, born, fresh, clock, phase, kills, faulty>>
  BY <1>2, <1>5 DEF Window, Become, At, Idle
<1>7. \A u \in Tasks : CarriesOn(u)
  BY <1>0, <1>6 DEF CarriesOn, Carries, Creates, Stages
<1>8. IntakeTypeOK' /\ \A x : Chosen(x)' <=> Chosen(x)
  BY <1>0, <1>2 DEF IntakeTypeOK, Chosen, uiVars
<1>9. sel' # NoRef /\ Live(sel) => Live(sel)'
  <2>1. SUFFICES ASSUME sel' # NoRef, Live(sel) PROVE Live(sel)'
    OBVIOUS
  <2>2. Live(id)'
    BY <1>1, <1>6, <2>1, LiveWhileUp
  <2>3. sel' = id
    BY <1>1, <1>2 DEF uiVars
  <2> QED BY <2>2, <2>3 DEF Live
<1>10. \A u \in Tasks : Carries(task'[u]) => task'[u].id \in Ids
  BY <1>4 DEF StoreInv, InHand, Shaped
<1>11. UNCHANGED <<sel, owed>>
  BY <1>2 DEF uiVars
<1> QED
  BY <1>0, <1>4, <1>6, <1>7, <1>8, <1>9, <1>10, <1>11, HoldFrame

LEMMA DraftHolds ==
    ASSUME StoreInv, HoldInv, Next
    PROVE  StoreInv' /\ HoldInv'
<1>1. ASSUME Gateway PROVE StoreStep /\ UNCHANGED uiVars
  BY <1>1 DEF Gateway, StoreStep
<1>2. CASE Gateway
  BY <1>1, <1>2, StoreStepKeeps, GatewayHolds
<1>3. CASE \E t \in Tasks : Staged(t) \/ StageFails(t) \/ Release(t) \/ PressStop(t) \/ Preview(t)
  BY <1>3, StagedHolds, StageFailsHolds, ReleaseHolds, PressStopHolds, PreviewHolds
<1>4. CASE Upload
  BY <1>4, UploadHolds
<1>5. CASE ScreenStep
  BY <1>5, ScreenStepHolds
<1> QED
  BY <1>2, <1>3, <1>4, <1>5 DEF Next, Browser, ScreenStep

-----------------------------------------------------------------------------
(* The microphones.                                                          *)

Streams == [Mics -> [state : {"off", "asked", "live"}, sel : Refs, here : BOOLEAN]]

LEMMA StreamTypes == HoldInv => mic \in Streams
  BY DEF HoldInv, IntakeTypeOK, Streams

(* What the gateway does, and what becomes of an intake, leave them alone.   *)
LEMMA MicsAtRest ==
    ASSUME MicInv, UNCHANGED <<recording, capture, mic, stray>>, panel => panel'
    PROVE  MicInv'
  BY DEF MicInv, MicrophoneOwned

(* A stream that is given up: it was live for nobody else.                   *)
LEMMA GivenUp ==
    ASSUME HoldInv, MicInv, NEW m \in Mics, mic' = [mic EXCEPT ![m] = Off], stray' = stray \ {m},
           panel' = panel,
           (recording' = recording /\ capture' = capture) \/ mic[m].here \/ capture = m
    PROVE  MicInv'
<1>1. PICK off : off = Off
  OBVIOUS
<1>2. off.state = "off" /\ off.here = FALSE
  BY <1>1 DEF Off
<1>3. /\ mic \in Streams /\ mic'[m].state = "off" /\ mic'[m].here = FALSE
      /\ \A n \in Mics \ {m} : mic'[n] = mic[n] /\ (n \in stray' <=> n \in stray)
  BY <1>1, <1>2, StreamTypes DEF Streams
<1>4. ASSUME NEW n \in Mics, mic'[n].state = "live", n \notin stray'
      PROVE  mic'[n].here /\ recording' /\ panel' /\ capture' = n
  <2>1. n # m /\ mic[n].state = "live" /\ n \notin stray
    BY <1>3, <1>4
  <2>2. mic[n].here /\ recording /\ panel /\ capture = n
    BY <2>1 DEF MicInv, MicrophoneOwned
  <2>3. ~ mic[m].here /\ capture # m
    BY <2>1, <2>2 DEF MicInv
  <2> QED BY <1>3, <2>1, <2>2, <2>3
<1>5. \A n \in Mics : mic'[n].here => panel' /\ mic'[n].state # "off"
  BY <1>3 DEF MicInv
<1>6. \A n, o \in Mics : n # o /\ mic'[n].here /\ mic'[o].here => n \in stray'
  BY <1>3 DEF MicInv
<1> QED
  BY <1>4, <1>5, <1>6 DEF MicInv, MicrophoneOwned

LEMMA PressRecordKeepsMics ==
    ASSUME HoldInv, MicInv, NEW m \in Mics, PressRecord(m)
    PROVE  MicInv'
<1>1. PICK new : new = [state |-> "asked", sel |-> sel, here |-> TRUE]
  OBVIOUS
<1>2. /\ mic \in Streams /\ mic' = [mic EXCEPT ![m] = new] /\ panel /\ panel' = panel
      /\ mic[m].state = "off" /\ UNCHANGED <<recording, capture>>
      /\ mic'[m].state = "asked" /\ mic'[m].here = TRUE
      /\ \A n \in Mics \ {m} : mic'[n] = mic[n]
  BY <1>1, StreamTypes DEF PressRecord, Streams
<1>3. \A n \in Mics : n \notin stray' /\ n # m => n \notin stray /\ ~ mic[n].here
  <2>1. \A n \in Mics : mic[n].here => mic[n].state # "off"
    BY DEF MicInv
  <2> QED BY <2>1 DEF PressRecord
<1>4. ASSUME NEW n \in Mics, mic'[n].state = "live", n \notin stray' PROVE FALSE
  <2>1. n # m /\ mic[n].state = "live" /\ n \notin stray /\ ~ mic[n].here
    BY <1>2, <1>3, <1>4
  <2> QED BY <2>1 DEF MicInv
<1>5. \A n \in Mics : mic'[n].here => panel' /\ mic'[n].state # "off"
  BY <1>2 DEF MicInv
<1>6. ASSUME NEW n \in Mics, NEW o \in Mics, n # o, mic'[n].here, mic'[o].here PROVE n \in stray'
  <2>1. CASE n # m
    BY <1>2, <1>3, <1>6, <2>1
  <2>2. CASE n = m
    <3>1. mic[o].here /\ mic[o].state # "off"
      BY <1>2, <1>6, <2>2 DEF MicInv
    <3> QED BY <2>2, <3>1 DEF PressRecord
  <2> QED BY <2>1, <2>2
<1> QED
  BY <1>4, <1>5, <1>6 DEF MicInv, MicrophoneOwned

LEMMA GrantedKeepsMics ==
    ASSUME HoldInv, MicInv, NEW m \in Mics, Granted(m)
    PROVE  MicInv'
<1>1. PICK new : new = [mic[m] EXCEPT !.state = "live"]
  OBVIOUS
<1>2. /\ mic \in Streams /\ mic' = [mic EXCEPT ![m] = new] /\ panel' = panel
      /\ mic'[m].state = "live" /\ mic'[m].here = mic[m].here
      /\ \A n \in Mics \ {m} : mic'[n] = mic[n]
  BY <1>1, StreamTypes DEF Granted, Streams
<1>3. /\ mic[m].here => capture' = m /\ recording' = TRUE /\ stray' = stray
      /\ ~ mic[m].here => stray' = stray \cup {m} /\ capture' = capture /\ recording' = recording
  BY DEF Granted
<1>4. ASSUME NEW n \in Mics, mic'[n].state = "live", n \notin stray'
      PROVE  mic'[n].here /\ recording' /\ panel' /\ capture' = n
  <2>1. CASE n = m
    BY <1>2, <1>3, <1>4, <2>1 DEF MicInv
  <2>2. CASE n # m
    <3>1. mic[n].state = "live" /\ n \notin stray
      BY <1>2, <1>3, <1>4, <2>2
    <3>2. mic[n].here /\ recording /\ panel /\ capture = n
      BY <3>1 DEF MicInv, MicrophoneOwned
    <3>3. ~ mic[m].here
      BY <2>2, <3>1, <3>2 DEF MicInv
    <3> QED BY <1>2, <1>3, <2>2, <3>2, <3>3
  <2> QED BY <2>1, <2>2
<1>5. \A n \in Mics : mic'[n].here => panel' /\ mic'[n].state # "off"
  BY <1>2 DEF MicInv
<1>6. \A n, o \in Mics : n # o /\ mic'[n].here /\ mic'[o].here => n \in stray'
  BY <1>2, <1>3 DEF MicInv
<1> QED
  BY <1>4, <1>5, <1>6 DEF MicInv, MicrophoneOwned

(* releaseMicrophone: what is live afterwards is a stray one.                *)
LEMMA UnmountKeepsMics ==
    ASSUME HoldInv, MicInv, Unmount
    PROVE  MicInv'
<1>1. PICK off : off = Off
  OBVIOUS
<1>2. ASSUME NEW m \in Mics
      PROVE  mic'[m].here = FALSE /\ (mic'[m].state = "live" => mic[m].state = "live" /\ m # capture)
  <2>1. PICK w : w = [off EXCEPT !.state = mic[m].state]
    OBVIOUS
  <2>2. off.here = FALSE /\ off.state = "off" /\ w.here = FALSE /\ w.state = mic[m].state
    BY <1>1, <2>1 DEF Off
  <2>3. mic'[m] = IF m = capture THEN off ELSE w
    BY <1>1, <2>1 DEF Unmount
  <2> QED BY <2>2, <2>3
<1>3. stray' = stray
  BY DEF Unmount
<1>4. \A m \in Mics : mic'[m].state = "live" => m \in stray'
  BY <1>2, <1>3 DEF MicInv, MicrophoneOwned
<1> QED
  BY <1>2, <1>4 DEF MicInv, MicrophoneOwned

LEMMA MicsHold ==
    ASSUME HoldInv, MicInv, Next
    PROVE  MicInv'
<1>1. CASE Gateway
  BY <1>1, MicsAtRest DEF Gateway, uiVars
<1>2. CASE \E t \in Tasks : Staged(t) \/ StageFails(t) \/ Release(t) \/ Preview(t)
  BY <1>2, MicsAtRest DEF Staged, StageFails, Release, Preview, uiVars
<1>3. CASE Upload \/ ReleaseLost \/ Discard \/ Mount
  BY <1>3, MicsAtRest DEF Upload, ReleaseLost, Discard, Mount
<1>4. ASSUME NEW t \in Tasks, PressStop(t) PROVE MicInv'
  <2>1. capture \in Mics /\ panel' = panel
    BY <1>4 DEF PressStop, HoldInv, IntakeTypeOK
  <2>2. PICK m \in Mics : m = capture
    BY <2>1
  <2>3. mic' = [mic EXCEPT ![m] = Off] /\ stray' = stray \ {m}
    BY <1>4, <2>2 DEF PressStop
  <2> QED BY <2>1, <2>2, <2>3, GivenUp
<1>5. ASSUME NEW m \in Mics, Denied(m) \/ RecorderFails(m) PROVE MicInv'
  <2>1. mic' = [mic EXCEPT ![m] = Off] /\ stray' = stray \ {m} /\ panel' = panel
    BY <1>5 DEF Denied, RecorderFails
  <2>2. (recording' = recording /\ capture' = capture) \/ mic[m].here
    BY <1>5 DEF Denied, RecorderFails, HoldInv, IntakeTypeOK
  <2> QED BY <2>1, <2>2, GivenUp
<1>6. CASE \E m \in Mics : PressRecord(m) \/ Granted(m)
  BY <1>6, PressRecordKeepsMics, GrantedKeepsMics
<1>7. CASE Unmount
  BY <1>7, UnmountKeepsMics
<1> QED
  BY <1>1, <1>2, <1>3, <1>4, <1>5, <1>6, <1>7 DEF Next, Browser

-----------------------------------------------------------------------------
(* From the start, for ever.                                                 *)

LEMMA InitHolds == Init => IInv
<1> SUFFICES ASSUME Init PROVE IInv
  OBVIOUS
<1>1. PICK none, off, no : none = [part \in Parts |-> "none"] /\ off = Off /\ no = NoIntake
  OBVIOUS
<1>2. /\ records = {} /\ disk = [id \in Ids |-> none] /\ born = [id \in Ids |-> 0]
      /\ fresh = 1 /\ clock = 0 /\ task = [t \in Tasks |-> Idle] /\ phase = "up" /\ kills = 0
      /\ faulty = {}
  BY <1>1 DEF Init, StoreInit
<1>3. {MaxIds, MaxAge, MaxClock, MaxKills} \subseteq Nat
  BY DEF StoreAssumption
<1>4. StoreTypeOK
  <2>1. disk \in [Ids -> [Parts -> {"none", "torn", "whole"}]]
    BY <1>1, <1>2
  <2>2. task \in [Tasks -> Request]
    BY <1>2, Idleness
  <2>3. /\ fresh \in 1..(MaxIds + 1) /\ clock \in 0..MaxClock /\ kills \in 0..MaxKills
        /\ born \in [Ids -> 0..MaxClock]
    BY <1>2, <1>3
  <2> QED BY <1>2, <2>1, <2>2, <2>3 DEF StoreTypeOK, Request, Pcs, Nexts
<1>5. \A id \in Ids : Gone(id)
  BY <1>1, <1>2 DEF Gone
<1>6. \A t \in Tasks : task[t] = Idle
  BY <1>2
<1>7. Booting /\ VictimsOut /\ Covered
  BY <1>2, <1>5, <1>6, Idleness DEF Booting, VictimsOut, Covered
<1>8. ASSUME NEW t \in Tasks PROVE InHand(t) /\ Secret(t)
  <2>1. Known(Idle)
    BY <1>2, Idleness DEF Known, NoRef
  <2> QED BY <1>6, <2>1, Idleness DEF InHand, Secret
<1>9. StoreInv
  BY <1>2, <1>4, <1>5, <1>7, <1>8 DEF StoreInv
<1>10. /\ sel = NoRef /\ panel = TRUE /\ staging = FALSE /\ recording = FALSE /\ capture = NoMic
       /\ mic = [m \in Mics |-> off] /\ intake = [t \in Tasks |-> no] /\ owed = {} /\ stray = {}
  BY <1>1 DEF Init
<1>11. /\ off.state = "off" /\ off.sel = NoRef /\ off.here = FALSE /\ no.sel = NoRef
       /\ off \in [state : {"off", "asked", "live"}, sel : Refs, here : BOOLEAN]
       /\ no \in [on : BOOLEAN, sel : Refs, here : BOOLEAN]
  BY <1>1 DEF Off, NoIntake, Refs
<1>12. IntakeTypeOK
  BY <1>10, <1>11 DEF IntakeTypeOK, Refs
<1>13. \A id \in Ids : ~ Chosen(id)
  BY <1>10, <1>11, IdsAreNat DEF Chosen
<1>14. HoldInv
  BY <1>6, <1>10, <1>12, <1>13, Idleness DEF HoldInv
<1>15. MicInv
  BY <1>10, <1>11 DEF MicInv, MicrophoneOwned
<1> QED
  BY <1>9, <1>14, <1>15 DEF IInv

LEMMA StandingStill == IInv /\ UNCHANGED vars => IInv'
<1> SUFFICES ASSUME IInv, UNCHANGED vars PROVE IInv'
  OBVIOUS
<1>1. UNCHANGED storeVars /\ UNCHANGED uiVars
  BY DEF vars
<1>2. StoreInv'
  BY <1>1, StoreAtRest DEF IInv
<1>3. IntakeTypeOK' /\ \A id \in Ids : Chosen(id)' => Chosen(id)
  BY <1>1 DEF IInv, HoldInv, IntakeTypeOK, Chosen, uiVars
<1>4. HoldInv'
  BY <1>1, <1>3, ScreenHolds DEF IInv, uiVars
<1>5. MicInv'
  BY <1>1, MicsAtRest DEF IInv, uiVars
<1> QED
  BY <1>2, <1>4, <1>5 DEF IInv

(* What the store and the panel rely on holds of every behaviour: every file *)
(* in the directory is indexed or answered for by a request (create, its     *)
(* failure path, #removeFiles, load), what a request is creating is known to *)
(* nobody else, and what is selected or still to be handed back is nothing a *)
(* request carries (accept, releaseStaged).                                  *)
THEOREM ReferencesInvariant == Spec => []IInv
<1>1. Init => IInv
  BY InitHolds
<1>2. IInv /\ [Next]_vars => IInv'
  BY DraftHolds, MicsHold, StandingStill DEF IInv
<1> QED
  BY <1>1, <1>2, PTL DEF Spec

(* create, remove, evictExpired and load, whatever is written, fails or is   *)
(* killed between: an indexed pair is whole, and when no request is being    *)
(* served the directory holds the indexed pairs and nothing else.            *)
THEOREM StoreIsTidy == Spec => []NothingLeftBehind
<1>1. IInv => NothingLeftBehind
  <2> SUFFICES ASSUME IInv PROVE NothingLeftBehind
    OBVIOUS
  <2>1. StoreInv /\ StoreTypeOK /\ \A id \in records : WholePair(id)
    BY DEF IInv, StoreInv
  <2>2. ASSUME phase = "up", \A t \in Tasks : task[t].pc = "idle", NEW id \in Ids, ~ Gone(id)
        PROVE  id \in records \cup faulty
    <3>1. \A t \in Tasks : task[t].rm = {}
      BY <2>1, <2>2 DEF StoreInv, InHand, Shaped
    <3>2. \A t \in Tasks : ~ Answers(t, id)
      BY <2>2, <3>1, AnswersForNone
    <3> QED BY <2>1, <2>2, <3>2 DEF StoreInv, Covered
  <2> QED BY <2>1, <2>2 DEF NothingLeftBehind
<1> QED
  BY <1>1, ReferencesInvariant, PTL

(* stageReference and accept, in whatever order the replies come: the        *)
(* reference the draft holds is one the gateway has still indexed, until it  *)
(* expires or the file system refuses to read it.                            *)
THEOREM SelectionIsServed == Spec => []HeldIsServed
<1>1. IInv => HeldIsServed
  <2> SUFFICES ASSUME IInv PROVE HeldIsServed
    OBVIOUS
  <2>1. IntakeTypeOK /\ (sel # NoRef => Live(sel))
    BY DEF IInv, HoldInv
  <2>3. phase = "up" /\ sel # NoRef /\ ~ OldEnough(sel) => sel \in records \cup faulty
    BY <2>1 DEF Live, Indexing
  <2> QED BY <2>1, <2>3 DEF HeldIsServed
<1> QED
  BY <1>1, ReferencesInvariant, PTL

(* startRecording and releaseMicrophone: whoever presses, grants, denies or  *)
(* leaves in whatever order, a live microphone that was not opened twice or  *)
(* for a panel already gone is the one Stop and the unmounting end.          *)
THEOREM LiveMicrophoneIsOwned == Spec => []MicrophoneOwned
<1>1. IInv => MicrophoneOwned
  BY DEF IInv, MicInv
<1> QED
  BY <1>1, ReferencesInvariant, PTL
=============================================================================
