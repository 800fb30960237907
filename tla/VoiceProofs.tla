----------------------------- MODULE VoiceProofs -----------------------------
(* The voice library, as it is kept (voices.ts) and as a browser shows it  *)
(* (App.tsx), for any number of voices, handlers, calls and kills.  Of the *)
(* first, five invariants, each resting on those before it:                *)
(*   TypeOK    a free suffix always exists: fewer names are taken than     *)
(*             there are suffixes;                                         *)
(*   PairInv   a sidecar that parses has its recording, or is of a voice   *)
(*             that the next start purges: what a kill between the two     *)
(*             files leaves behind;                                        *)
(*   MeetInv   on a voice where no two handlers met, a handler still finds *)
(*             what it was accepted for;                                   *)
(*   FileInv   on such a voice the index and the sidecar agree, or the     *)
(*             handler at work on it says how they differ.                 *)
(*   LifeInv   what a handler at work on a voice makes of its life: a      *)
(*             write that was begun ends as VoiceLife allows.              *)
(* Of the second, ShownInv: the call under way about a voice says how the  *)
(* list and the gateway differ on it; and BornInv, that a call to delete   *)
(* or restore is about a voice that was born.                              *)
(* VoiceLife is what the two have in common: the library implements it,    *)
(* and the gateway behind the list does nothing that it does not.          *)
EXTENDS VoiceStore, Library, FiniteSetTheorems, TLAPS

(* A set of naturals below some bound has a least element.                 *)
LEMMA LeastOf ==
    ASSUME NEW top \in Nat, NEW S \in SUBSET (1..top), S # {}
    PROVE  \E n \in S : \A m \in S : n <= m
<1> DEFINE below(n) == 1..(n - 1)
<1> DEFINE B == {below(n) : n \in S}
<1>0. \A n \in S : below(n) \subseteq 1..top
  OBVIOUS
<1>1. B \subseteq SUBSET (1..top) /\ B # {}
  <2> HIDE DEF below
  <2> QED
    BY <1>0
<1>2. IsFiniteSet(1..top)
  BY FS_Interval
<1>3. IsWellFoundedOn(StrictSubsetOrdering(1..top), SUBSET (1..top))
  BY <1>2, FS_StrictSubsetOrderingWellFounded, FS_FiniteSubsetsOfFinite
<1>4. PICK b \in B : \A c \in B : <<c, b>> \notin StrictSubsetOrdering(1..top)
  <2> HIDE DEF B
  <2> QED
    BY <1>1, <1>3, WFMin, Zenon
<1>5. PICK n \in S : b = below(n)
  OBVIOUS
<1>6. SUFFICES ASSUME NEW m \in S, m < n
               PROVE  FALSE
  BY <1>5
<1>7. below(m) \subseteq below(n) /\ below(m) # below(n)
  <2>1. m \in below(n) /\ m \notin below(m)
    BY <1>6
  <2>2. below(m) \subseteq below(n)
    BY <1>6
  <2> QED
    BY <2>1, <2>2
<1>8. <<below(m), below(n)>> \in StrictSubsetOrdering(1..top)
  <2> HIDE DEF below
  <2> QED
    BY <1>0, <1>7 DEF StrictSubsetOrdering
<1> QED
  BY <1>4, <1>5, <1>8

LEMMA SuffixesCount ==
    /\ IsFiniteSet(VoiceIds) /\ Cardinality(VoiceIds) \in Nat
    /\ IsFiniteSet(Suffix) /\ Cardinality(Suffix) = Cardinality(VoiceIds) + 1
<1>1. IsFiniteSet(VoiceIds) /\ Cardinality(VoiceIds) \in Nat
  BY VoiceStoreAssumption, FS_CardinalityType
<1> QED
  BY <1>1, FS_Interval, SMTT(30) DEF Suffix

(* No more names are taken than there are other voices.                    *)
LEMMA TakenFew ==
    ASSUME TypeOK, NEW id \in VoiceIds
    PROVE  /\ IsFiniteSet(TakenBut(id))
           /\ Cardinality(TakenBut(id)) <= Cardinality(VoiceIds)
<1> DEFINE S == {u \in VoiceIds \ {id} : Visible(u)}
<1> DEFINE f == [u \in S |-> records[u].name]
<1>1. S \in SUBSET VoiceIds
  OBVIOUS
<1>2. IsFiniteSet(S) /\ Cardinality(S) <= Cardinality(VoiceIds)
  BY <1>1, SuffixesCount, FS_Subset
<1>3. f \in Surjection(S, TakenBut(id))
  BY DEF Surjection, TakenBut
<1>4. IsFiniteSet(TakenBut(id)) /\ Cardinality(TakenBut(id)) <= Cardinality(S)
  <2> HIDE DEF f, S
  <2> QED
    BY <1>2, <1>3, FS_Surjection
<1> QED
  BY <1>2, <1>4, SuffixesCount, FS_CardinalityType

(* A free suffix is always found, and the name it makes is a name.         *)
LEMMA DisambiguateType ==
    ASSUME TypeOK, NEW id \in VoiceIds, NEW typed \in Names
    PROVE  Disambiguate(typed, TakenBut(id)) \in Name
<1> DEFINE T == TakenBut(id)
<1> DEFINE free == {n \in Suffix : <<typed, n>> \notin T}
<1>1. free # {}
  <2>1. SUFFICES ASSUME \A n \in Suffix : <<typed, n>> \in T
                 PROVE  FALSE
    OBVIOUS
  <2> DEFINE f == [n \in Suffix |-> <<typed, n>>]
  <2>2. f \in Injection(Suffix, T)
    BY <2>1 DEF Injection, IsInjective
  <2>3. Cardinality(Suffix) <= Cardinality(T)
    <3> HIDE DEF f, T
    <3> QED
      BY <2>2, TakenFew, FS_Injection DEF T
  <2>4. Cardinality(T) \in Nat /\ Cardinality(T) <= Cardinality(VoiceIds)
    BY TakenFew, FS_CardinalityType
  <2> QED
    BY <2>3, <2>4, SuffixesCount
<1>2. PICK n \in free : \A m \in free : n <= m
  <2>1. free \in SUBSET (1..(Cardinality(VoiceIds) + 1))
    BY DEF Suffix
  <2>2. Cardinality(VoiceIds) + 1 \in Nat
    BY SuffixesCount
  <2> HIDE DEF free
  <2> QED
    BY <1>1, <2>1, <2>2, LeastOf
<1>3. /\ <<typed, n>> \in {typed} \X Suffix /\ <<typed, n>> \notin T
      /\ \A m \in Suffix : m < <<typed, n>>[2] => <<typed, m>> \in T
  BY <1>2, SuffixesCount DEF Suffix
<1>4. Disambiguate(typed, T) \in {typed} \X Suffix
  <2> HIDE DEF T
  <2> QED
    BY <1>3 DEF Disambiguate
<1> QED
  BY <1>4 DEF Name

-----------------------------------------------------------------------------
(* Types.                                                                  *)
LEMMA RecordTypes ==
    ASSUME TypeOK, NEW id \in VoiceIds, Kept(id)
    PROVE  /\ records[id] \in Voice
           /\ \A name \in Name : [records[id] EXCEPT !.name = name] \in Voice
           /\ \A said \in BOOLEAN : [records[id] EXCEPT !.said = said] \in Voice
           /\ \A at \in Time \cup {None} : [records[id] EXCEPT !.deleted = at] \in Voice
<1>1. records[id] \in Voice
  BY DEF TypeOK, Kept
<1> QED
  BY <1>1 DEF Voice

LEMMA AcceptTypes ==
    ASSUME TypeOK, NEW r \in Requests, NEW id \in VoiceIds, NEW voice \in Voice,
           NEW op \in {"create", "update", "remove", "restore"},
           Accept(r, op, id, voice), used' \in SUBSET VoiceIds,
           disturbed' \in SUBSET VoiceIds
    PROVE  TypeOK'
<1>1. [op |-> op, pc |-> IF op = "create" THEN "wav" ELSE "side", id |-> id, voice |-> voice]
        \in Working
  BY DEF Working
<1>2. request' \in [Requests -> Working \cup {None}]
  BY <1>1 DEF Accept, TypeOK
<1> QED
  BY <1>2 DEF Accept, TypeOK, disk

LEMMA FreshType ==
    ASSUME TypeOK, NEW id \in VoiceIds, NEW typed \in Names
    PROVE  Fresh(id, typed) \in Voice
  BY DisambiguateType DEF Fresh, Voice

LEMMA GotoTypes ==
    ASSUME TypeOK, NEW r \in Requests, NEW pc \in {"wav", "wavOpen", "side", "sideOpen", "written"},
           request[r] # None, Goto(r, pc)
    PROVE  /\ request' \in [Requests -> Working \cup {None}]
           /\ request[r] \in Working
           /\ request'[r] = [request[r] EXCEPT !.pc = pc]
<1>1. request[r] \in Working
  BY DEF TypeOK
<1>2. [request[r] EXCEPT !.pc = pc] \in Working
  BY <1>1 DEF Working
<1> QED
  BY <1>1, <1>2 DEF TypeOK, Goto

LEMMA HandlerTypes ==
    ASSUME TypeOK, NEW r \in Requests, Handler(r), disturbed' \in SUBSET VoiceIds
    PROVE  TypeOK'
<1>1. ASSUME NEW id \in VoiceIds, NEW typed \in Names, Create(r, id, typed)
      PROVE  TypeOK'
  <2>1. used' \in SUBSET VoiceIds
    BY <1>1 DEF Create, TypeOK
  <2> QED
    BY <1>1, <2>1, FreshType, AcceptTypes DEF Create
<1>2. ASSUME NEW id \in VoiceIds, NEW typed \in Names, Rename(r, id, typed)
      PROVE  TypeOK'
  <2>1. used' \in SUBSET VoiceIds
    BY <1>2 DEF Rename, TypeOK
  <2>2. [records[id] EXCEPT !.name = Disambiguate(typed, TakenBut(id))] \in Voice
    BY <1>2, RecordTypes, DisambiguateType DEF Rename, Visible
  <2> QED
    BY <1>2, <2>1, <2>2, AcceptTypes DEF Rename
<1>3. ASSUME NEW id \in VoiceIds, NEW said \in Said, Transcribe(r, id, said)
      PROVE  TypeOK'
  <2>1. used' \in SUBSET VoiceIds
    BY <1>3 DEF Transcribe, TypeOK
  <2>2. [records[id] EXCEPT !.said = said] \in Voice
    BY <1>3, RecordTypes, VoiceStoreAssumption DEF Transcribe, Visible
  <2> QED
    BY <1>3, <2>1, <2>2, AcceptTypes DEF Transcribe
<1>4. ASSUME NEW id \in VoiceIds, RemoveVoice(r, id)
      PROVE  TypeOK'
  <2>1. used' \in SUBSET VoiceIds /\ clock \in Time
    BY <1>4 DEF RemoveVoice, TypeOK
  <2>2. [records[id] EXCEPT !.deleted = clock] \in Voice
    BY <1>4, <2>1, RecordTypes DEF RemoveVoice
  <2> QED
    BY <1>4, <2>1, <2>2, AcceptTypes DEF RemoveVoice
<1>5. ASSUME NEW id \in VoiceIds, Restore(r, id)
      PROVE  TypeOK'
  <2>1. used' \in SUBSET VoiceIds
    BY <1>5 DEF Restore, TypeOK
  <2>2. [records[id] EXCEPT !.deleted = None] \in Voice
    BY <1>5, RecordTypes DEF Restore
  <2> QED
    BY <1>5, <2>1, <2>2, AcceptTypes DEF Restore
<1>6. CASE WavOpened(r) \/ WavWritten(r)
  <2>1. request[r] # None /\ (Goto(r, "wavOpen") \/ Goto(r, "side"))
    BY <1>6 DEF WavOpened, WavWritten, At
  <2>2. request' \in [Requests -> Working \cup {None}]
    BY <2>1, GotoTypes
  <2>3. wav' \in [VoiceIds -> {None, Torn, "whole"}] /\ side' = side
    BY <1>6 DEF TypeOK, WavOpened, WavWritten
  <2> QED
    BY <2>1, <2>2, <2>3 DEF TypeOK, Goto
<1>7. CASE SideOpened(r) \/ SideWritten(r)
  <2>1. request[r] # None /\ (Goto(r, "sideOpen") \/ Goto(r, "written"))
    BY <1>7 DEF SideOpened, SideWritten, At
  <2>2. request' \in [Requests -> Working \cup {None}] /\ request[r] \in Working
    BY <2>1, GotoTypes
  <2>3. request[r].voice \in Voice
    BY <2>2 DEF Working
  <2>4. side' \in [VoiceIds -> Voice \cup {None, Torn}] /\ wav' = wav
    BY <1>7, <2>3 DEF TypeOK, SideOpened, SideWritten
  <2> QED
    BY <2>1, <2>2, <2>4 DEF TypeOK, Goto
<1>8. CASE WriteFails(r)
  BY <1>8 DEF WriteFails, TypeOK, disk
<1>9. CASE Stored(r)
  <2>1. request[r] \in Working
    BY <1>9 DEF Stored, At, TypeOK
  <2>2. request[r].voice \in Voice
    BY <2>1 DEF Working
  <2> QED
    BY <1>9, <2>2 DEF Stored, TypeOK, disk
<1> QED
  BY <1>1, <1>2, <1>3, <1>4, <1>5, <1>6, <1>7, <1>8, <1>9 DEF Handler

LEMMA StoreTypes ==
    ASSUME TypeOK, disturbed' \in SUBSET VoiceIds,
           Tick \/ Crash \/ Load \/ \E id \in VoiceIds : Purge(id) \/ PurgeFails(id)
    PROVE  TypeOK'
<1>1. CASE Tick
  BY <1>1, VoiceStoreAssumption DEF Tick, TypeOK, disk, Time
<1>2. CASE Crash
  <2>1. crashes' \in 0..MaxCrashes
    BY <1>2, VoiceStoreAssumption DEF Crash, TypeOK
  <2> QED
    BY <1>2, <2>1 DEF Crash, TypeOK, disk
<1>3. CASE Load
  <2>1. records' \in [VoiceIds -> Voice \cup {None}]
    BY <1>3 DEF Load, Valid
  <2>2. up' \in BOOLEAN /\ purging' \in SUBSET VoiceIds
    BY <1>3 DEF Load
  <2> QED
    BY <1>3, <2>1, <2>2 DEF Load, TypeOK, disk
<1>4. ASSUME NEW id \in VoiceIds, Purge(id)
      PROVE  TypeOK'
  <2>1. /\ wav' \in [VoiceIds -> {None, Torn, "whole"}]
        /\ side' \in [VoiceIds -> Voice \cup {None, Torn}]
        /\ records' \in [VoiceIds -> Voice \cup {None}]
    BY <1>4 DEF Purge, TypeOK
  <2>2. up' \in BOOLEAN /\ purging' \in SUBSET VoiceIds
    BY <1>4 DEF Purge, TypeOK
  <2> QED
    BY <1>4, <2>1, <2>2 DEF Purge, TypeOK
<1>5. ASSUME NEW id \in VoiceIds, PurgeFails(id)
      PROVE  TypeOK'
  <2>1. records' \in [VoiceIds -> Voice \cup {None}]
    BY <1>5 DEF PurgeFails, TypeOK
  <2>2. up' \in BOOLEAN /\ purging' \in SUBSET VoiceIds
    BY <1>5 DEF PurgeFails, TypeOK
  <2> QED
    BY <1>5, <2>1, <2>2 DEF PurgeFails, TypeOK, disk
<1> QED
  BY <1>1, <1>2, <1>3, <1>4, <1>5

LEMMA TypeStep ==
    ASSUME TypeOK, [Next]_vars
    PROVE  TypeOK'
<1>1. CASE Next
  <2>1. disturbed' \in SUBSET VoiceIds
    BY <1>1 DEF Next, Disturb, TypeOK
  <2> QED
    BY <1>1, <2>1, HandlerTypes, StoreTypes DEF Next, Step
<1>2. CASE UNCHANGED vars
  BY <1>2 DEF vars, TypeOK
<1> QED
  BY <1>1, <1>2

LEMMA InitTypes == Init => TypeOK
  BY VoiceStoreAssumption DEF Init, TypeOK, Time

-----------------------------------------------------------------------------
(* Recording and transcript together.                                      *)
Opening == {"wav", "wavOpen"}

Quiet == ~ up => \A r \in Requests : request[r] = None
Settled == up => purging = {}
IdsUsed ==
    /\ \A id \in VoiceIds : Kept(id) \/ Valid(side[id]) => id \in used
    /\ \A r \in Requests : request[r] # None => request[r].id \in used
KeptWhole == \A id \in VoiceIds \ purging : Kept(id) => wav[id] = "whole"
ValidWhole == \A id \in VoiceIds : Valid(side[id]) => wav[id] = "whole" \/ Expired(side[id])
PurgedExpired == \A id \in purging : Valid(side[id]) => Expired(side[id])
SideAfterWav ==
    \A r \in Requests : request[r] # None =>
        IF request[r].pc \in Opening
        THEN /\ ~ Kept(request[r].id) /\ ~ Valid(side[request[r].id])
             /\ \A s \in Requests : request[s] # None /\ request[s].id = request[r].id => s = r
        ELSE wav[request[r].id] = "whole"

PairInv ==
    /\ Quiet /\ Settled /\ IdsUsed
    /\ KeptWhole /\ ValidWhole /\ PurgedExpired /\ SideAfterWav

(* A handler is accepted for a new voice, or for one that is kept.         *)
LEMMA PairAccept ==
    ASSUME TypeOK, PairInv, NEW r \in Requests, NEW id \in VoiceIds, NEW voice \in Voice,
           NEW op \in {"create", "update", "remove", "restore"},
           Accept(r, op, id, voice),
           \/ op = "create" /\ id \notin used /\ used' = used \cup {id}
           \/ op # "create" /\ Kept(id) /\ used' = used
    PROVE  PairInv'
<1> DEFINE new == [op |-> op, pc |-> IF op = "create" THEN "wav" ELSE "side",
                   id |-> id, voice |-> voice]
<1>1. /\ up /\ up' = up /\ request[r] = None /\ purging' = purging /\ clock' = clock
      /\ wav' = wav /\ side' = side /\ records' = records
      /\ request' = [request EXCEPT ![r] = new]
  BY DEF Accept, disk
<1>2. request'[r] = new /\ \A s \in Requests \ {r} : request'[s] = request[s]
  BY <1>1 DEF TypeOK
<1>3. new.id = id /\ new.pc = (IF op = "create" THEN "wav" ELSE "side")
  OBVIOUS
<1>4. purging = {}
  BY <1>1 DEF PairInv, Settled
<1>5. Kept(id) => wav[id] = "whole"
  BY <1>4 DEF PairInv, KeptWhole
<1>6. IdsUsed'
  BY <1>1, <1>2, <1>3 DEF PairInv, IdsUsed, Kept
<1>7. SideAfterWav'
  <2> HIDE DEF new
  <2> SUFFICES ASSUME NEW s \in Requests, request'[s] # None
               PROVE  IF request'[s].pc \in Opening
                      THEN /\ ~ Kept(request'[s].id) /\ ~ Valid(side[request'[s].id])
                           /\ \A q \in Requests :
                                 request'[q] # None /\ request'[q].id = request'[s].id => q = s
                      ELSE wav[request'[s].id] = "whole"
    BY <1>1 DEF SideAfterWav, Kept
  <2>1. CASE s = r
    <3>1. CASE op = "create"
      <4>1. ~ Kept(id) /\ ~ Valid(side[id])
        BY <3>1 DEF PairInv, IdsUsed
      <4>2. \A q \in Requests : request[q] # None => request[q].id # id
        BY <3>1 DEF PairInv, IdsUsed
      <4> QED
        BY <2>1, <3>1, <4>1, <4>2, <1>2, <1>3 DEF Opening
    <3>2. CASE op # "create"
      BY <2>1, <3>2, <1>2, <1>3, <1>5 DEF Opening
    <3> QED
      BY <3>1, <3>2
  <2>2. CASE s # r
    <3>1. request'[s] = request[s]
      BY <2>2, <1>2
    <3>2. CASE request[s].pc \in Opening
      <4>1. /\ ~ Kept(request[s].id) /\ ~ Valid(side[request[s].id])
            /\ \A q \in Requests : request[q] # None /\ request[q].id = request[s].id => q = s
            /\ request[s].id \in used
        BY <3>1, <3>2 DEF PairInv, SideAfterWav, IdsUsed
      <4>2. request[s].id # id
        BY <4>1
      <4> QED
        BY <3>1, <3>2, <4>1, <4>2, <1>2, <1>3
    <3>3. CASE request[s].pc \notin Opening
      BY <3>1, <3>3 DEF PairInv, SideAfterWav
    <3> QED
      BY <3>2, <3>3
  <2> QED
    BY <2>1, <2>2
<1>8. KeptWhole' /\ ValidWhole' /\ PurgedExpired'
  BY <1>1 DEF PairInv, KeptWhole, ValidWhole, PurgedExpired, Kept, Expired
<1>9. Quiet' /\ Settled'
  BY <1>1, <1>4 DEF Quiet, Settled
<1> QED
  BY <1>6, <1>7, <1>8, <1>9 DEF PairInv

(* What a handler that moves on from one await to the next leaves alone.   *)
LEMMA GotoFrame ==
    ASSUME TypeOK, NEW r \in Requests, NEW pc \in {"wav", "wavOpen", "side", "sideOpen", "written"},
           request[r] # None, Goto(r, pc)
    PROVE  /\ request'[r].pc = pc /\ request'[r].id = request[r].id
           /\ request'[r].voice = request[r].voice /\ request'[r].op = request[r].op
           /\ request'[r] # None
           /\ request[r].id \in VoiceIds /\ request[r].voice \in Voice
           /\ \A s \in Requests \ {r} : request'[s] = request[s]
           /\ \A s \in Requests : request'[s] = None <=> request[s] = None
           /\ \A s \in Requests : request[s] # None => request'[s].id = request[s].id
<1>1. /\ request[r] \in Working /\ request'[r] = [request[r] EXCEPT !.pc = pc]
  BY GotoTypes
<1>2. /\ request'[r].pc = pc /\ request'[r].id = request[r].id
      /\ request'[r].voice = request[r].voice /\ request'[r].op = request[r].op
      /\ request[r].id \in VoiceIds /\ request[r].voice \in Voice
  BY <1>1 DEF Working
<1>3. \A s \in Requests \ {r} : request'[s] = request[s]
  BY DEF Goto, TypeOK
<1>4. request'[r] # None
  <2>1. request'[r].id \in VoiceIds /\ request'[r] \in Working
    BY <1>1, <1>2 DEF Working
  <2> QED
    BY <2>1, MarksAssumption
<1> QED
  BY <1>2, <1>3, <1>4

(* A handler that only moves on and touches the files of its own voice.    *)
LEMMA PairGoto ==
    ASSUME TypeOK, TypeOK', PairInv, NEW r \in Requests,
           NEW pc \in {"wav", "wavOpen", "side", "sideOpen", "written"},
           At(r, request[r].pc), Goto(r, pc),
           \A id \in VoiceIds \ {request[r].id} : wav'[id] = wav[id] /\ side'[id] = side[id],
           ~ Valid(side'[request[r].id]) \/ wav'[request[r].id] = "whole",
           IF pc \in Opening THEN request[r].pc \in Opening /\ ~ Valid(side'[request[r].id])
                             ELSE wav'[request[r].id] = "whole",
           request[r].pc \in Opening \/ wav' = wav
    PROVE  PairInv'
<1> DEFINE id == request[r].id
<1>1. /\ up /\ request[r] # None /\ records' = records /\ used' = used /\ clock' = clock
      /\ up' = up /\ purging' = purging /\ purging = {}
  BY DEF At, Goto, PairInv, Settled
<1>2. /\ request'[r].pc = pc /\ request'[r].id = id /\ id \in VoiceIds
      /\ \A s \in Requests \ {r} : request'[s] = request[s]
      /\ \A s \in Requests : request'[s] = None <=> request[s] = None
      /\ \A s \in Requests : request[s] # None => request'[s].id = request[s].id
  BY <1>1, GotoFrame
<1>3. id \in used
  BY <1>1 DEF PairInv, IdsUsed
<1>4. IdsUsed'
  <2>1. ASSUME NEW v \in VoiceIds, Kept(v)' \/ Valid(side[v])'
        PROVE  v \in used
    <3>1. CASE v = id
      BY <3>1, <1>3
    <3>2. CASE v # id
      BY <2>1, <3>2, <1>1 DEF PairInv, IdsUsed, Kept
    <3> QED
      BY <3>1, <3>2
  <2> QED
    BY <2>1, <1>1, <1>2 DEF PairInv, IdsUsed
<1>5. ~ Kept(id) \/ wav' = wav
  BY <1>1 DEF PairInv, SideAfterWav
<1>6. KeptWhole'
  <2> SUFFICES ASSUME NEW v \in VoiceIds, Kept(v)
               PROVE  wav'[v] = "whole"
    BY <1>1 DEF KeptWhole, Kept
  <2>1. wav[v] = "whole"
    BY <1>1 DEF PairInv, KeptWhole
  <2> QED
    BY <2>1, <1>5
<1>7. ValidWhole'
  <2> SUFFICES ASSUME NEW v \in VoiceIds, Valid(side'[v])
               PROVE  wav'[v] = "whole" \/ Expired(side'[v])
    BY <1>1 DEF ValidWhole, Expired
  <2>1. CASE v = id
    BY <2>1
  <2>2. CASE v # id
    BY <2>2 DEF PairInv, ValidWhole
  <2> QED
    BY <2>1, <2>2
<1>8. SideAfterWav'
  <2> SUFFICES ASSUME NEW s \in Requests, request'[s] # None
               PROVE  IF request'[s].pc \in Opening
                      THEN /\ ~ Kept(request'[s].id) /\ ~ Valid(side'[request'[s].id])
                           /\ \A q \in Requests :
                                 request'[q] # None /\ request'[q].id = request'[s].id => q = s
                      ELSE wav'[request'[s].id] = "whole"
    BY <1>1 DEF SideAfterWav, Kept
  <2>1. CASE s = r
    <3>1. CASE pc \in Opening
      <4>1. /\ ~ Kept(id)
            /\ \A q \in Requests : request[q] # None /\ request[q].id = id => q = r
        BY <3>1, <1>1 DEF PairInv, SideAfterWav
      <4> QED
        BY <2>1, <3>1, <4>1, <1>2
    <3>2. CASE pc \notin Opening
      BY <2>1, <3>2, <1>2
    <3> QED
      BY <3>1, <3>2
  <2>2. CASE s # r
    <3>1. request'[s] = request[s] /\ request[s] # None
      BY <2>2, <1>2
    <3>2. request[s].id \in VoiceIds
      BY <3>1 DEF TypeOK, Working
    <3>3. CASE request[s].pc \in Opening
      <4>1. /\ ~ Kept(request[s].id) /\ ~ Valid(side[request[s].id])
            /\ \A q \in Requests : request[q] # None /\ request[q].id = request[s].id => q = s
        BY <3>1, <3>3 DEF PairInv, SideAfterWav
      <4>2. request[s].id # id
        BY <4>1, <1>1, <2>2
      <4>3. side'[request[s].id] = side[request[s].id]
        BY <4>2, <3>2
      <4> QED
        BY <3>1, <3>3, <4>1, <4>3, <1>2
    <3>4. CASE request[s].pc \notin Opening
      <4>1. wav[request[s].id] = "whole"
        BY <3>1, <3>4 DEF PairInv, SideAfterWav
      <4>2. request[r].pc \in Opening => request[s].id # id
        BY <1>1, <2>2, <3>1 DEF PairInv, SideAfterWav
      <4>3. wav'[request[s].id] = wav[request[s].id]
        BY <4>2, <3>2
      <4> QED
        BY <3>1, <3>4, <4>1, <4>3
    <3> QED
      BY <3>3, <3>4
  <2> QED
    BY <2>1, <2>2
<1>9. Quiet' /\ Settled' /\ PurgedExpired'
  BY <1>1 DEF Quiet, Settled, PurgedExpired
<1> QED
  BY <1>4, <1>6, <1>7, <1>8, <1>9 DEF PairInv

LEMMA PairHandler ==
    ASSUME TypeOK, TypeOK', PairInv, NEW r \in Requests, Handler(r)
    PROVE  PairInv'
<1>1. ASSUME NEW id \in VoiceIds, NEW typed \in Names, Create(r, id, typed)
      PROVE  PairInv'
  BY <1>1, FreshType, PairAccept DEF Create
<1>2. ASSUME NEW id \in VoiceIds, NEW typed \in Names, Rename(r, id, typed)
      PROVE  PairInv'
  <2>1. [records[id] EXCEPT !.name = Disambiguate(typed, TakenBut(id))] \in Voice /\ Kept(id)
    BY <1>2, RecordTypes, DisambiguateType DEF Rename, Visible
  <2> QED
    BY <1>2, <2>1, PairAccept DEF Rename
<1>3. ASSUME NEW id \in VoiceIds, NEW said \in Said, Transcribe(r, id, said)
      PROVE  PairInv'
  <2>1. [records[id] EXCEPT !.said = said] \in Voice /\ Kept(id)
    BY <1>3, RecordTypes, VoiceStoreAssumption DEF Transcribe, Visible
  <2> QED
    BY <1>3, <2>1, PairAccept DEF Transcribe
<1>4. ASSUME NEW id \in VoiceIds, RemoveVoice(r, id)
      PROVE  PairInv'
  <2>1. [records[id] EXCEPT !.deleted = clock] \in Voice /\ Kept(id)
    BY <1>4, RecordTypes DEF RemoveVoice, TypeOK
  <2> QED
    BY <1>4, <2>1, PairAccept DEF RemoveVoice
<1>5. ASSUME NEW id \in VoiceIds, Restore(r, id)
      PROVE  PairInv'
  <2>1. [records[id] EXCEPT !.deleted = None] \in Voice /\ Kept(id)
    BY <1>5, RecordTypes DEF Restore
  <2> QED
    BY <1>5, <2>1, PairAccept DEF Restore
<1>6. ASSUME request[r] # None
      PROVE  /\ request[r].id \in VoiceIds /\ request[r].voice \in Voice
             /\ request[r].pc \in Opening => ~ Valid(side[request[r].id])
             /\ request[r].pc \notin Opening => wav[request[r].id] = "whole"
  BY <1>6 DEF TypeOK, Working, PairInv, SideAfterWav
<1>7. CASE WavOpened(r)
  <2>1. /\ up /\ request[r] # None /\ request[r].pc = "wav" /\ Goto(r, "wavOpen") /\ side' = side
        /\ wav' = [wav EXCEPT ![request[r].id] = Torn]
    BY <1>7 DEF WavOpened, At
  <2> QED
    BY <2>1, <1>6, PairGoto DEF Opening, At, TypeOK
<1>8. CASE WavWritten(r)
  <2>1. /\ up /\ request[r] # None /\ request[r].pc = "wavOpen" /\ Goto(r, "side") /\ side' = side
        /\ wav' = [wav EXCEPT ![request[r].id] = "whole"]
    BY <1>8 DEF WavWritten, At
  <2> QED
    BY <2>1, <1>6, PairGoto DEF Opening, At, TypeOK
<1>9. CASE SideOpened(r)
  <2>1. /\ up /\ request[r] # None /\ request[r].pc = "side" /\ Goto(r, "sideOpen") /\ wav' = wav
        /\ side' = [side EXCEPT ![request[r].id] = Torn]
    BY <1>9 DEF SideOpened, At
  <2> QED
    BY <2>1, <1>6, PairGoto DEF Opening, At, TypeOK
<1>10. CASE SideWritten(r)
  <2>1. /\ up /\ request[r] # None /\ request[r].pc = "sideOpen" /\ Goto(r, "written") /\ wav' = wav
        /\ \A id \in VoiceIds \ {request[r].id} : side'[id] = side[id]
    BY <1>10 DEF SideWritten, At, TypeOK
  <2> QED
    BY <2>1, <1>6, PairGoto DEF Opening, At
<1>11. CASE WriteFails(r)
  <2>1. /\ wav' = wav /\ side' = side /\ records' = records /\ used' = used /\ clock' = clock
        /\ up' = up /\ purging' = purging /\ request' = [request EXCEPT ![r] = None]
    BY <1>11 DEF WriteFails, disk
  <2>2. request'[r] = None /\ \A s \in Requests \ {r} : request'[s] = request[s]
    BY <2>1 DEF TypeOK
  <2> QED
    BY <2>1, <2>2 DEF PairInv, Quiet, Settled, IdsUsed, KeptWhole, ValidWhole, PurgedExpired,
                      SideAfterWav, Kept, Expired
<1>12. CASE Stored(r)
  <2>1. /\ wav' = wav /\ side' = side /\ used' = used /\ clock' = clock
        /\ up' = up /\ purging' = purging /\ request' = [request EXCEPT ![r] = None]
        /\ records' = [records EXCEPT ![request[r].id] = request[r].voice]
        /\ request[r] # None /\ request[r].pc = "written" /\ up
    BY <1>12 DEF Stored, disk, At
  <2>2. request'[r] = None /\ \A s \in Requests \ {r} : request'[s] = request[s]
    BY <2>1 DEF TypeOK
  <2>3. \A id \in VoiceIds \ {request[r].id} : records'[id] = records[id]
    BY <2>1 DEF TypeOK
  <2>4. wav[request[r].id] = "whole" /\ request[r].id \in used
    BY <2>1, <1>6 DEF Opening, PairInv, IdsUsed
  <2>5. IdsUsed' /\ KeptWhole'
    BY <2>1, <2>2, <2>3, <2>4 DEF PairInv, IdsUsed, KeptWhole, Kept
  <2>6. SideAfterWav'
    <3> SUFFICES ASSUME NEW s \in Requests, request'[s] # None
                 PROVE  IF request'[s].pc \in Opening
                        THEN /\ records'[request'[s].id] = None /\ ~ Valid(side[request'[s].id])
                             /\ \A q \in Requests :
                                   request'[q] # None /\ request'[q].id = request'[s].id => q = s
                        ELSE wav[request'[s].id] = "whole"
      BY <2>1 DEF SideAfterWav, Kept
    <3>1. s # r /\ request'[s] = request[s] /\ request[s] # None
      BY <2>2
    <3>2. request[s].id \in VoiceIds
      BY <3>1 DEF TypeOK, Working
    <3>3. CASE request[s].pc \in Opening
      <4>1. /\ ~ Kept(request[s].id) /\ ~ Valid(side[request[s].id])
            /\ \A q \in Requests : request[q] # None /\ request[q].id = request[s].id => q = s
        BY <3>1, <3>3 DEF PairInv, SideAfterWav
      <4>2. request[s].id # request[r].id
        BY <4>1, <2>1, <3>1
      <4> QED
        BY <3>1, <3>2, <3>3, <4>1, <4>2, <2>2, <2>3 DEF Kept
    <3>4. CASE request[s].pc \notin Opening
      BY <3>1, <3>4 DEF PairInv, SideAfterWav
    <3> QED
      BY <3>3, <3>4
  <2> QED
    BY <2>1, <2>5, <2>6 DEF PairInv, Quiet, Settled, ValidWhole, PurgedExpired, Expired
<1> QED
  BY <1>1, <1>2, <1>3, <1>4, <1>5, <1>7, <1>8, <1>9, <1>10, <1>11, <1>12 DEF Handler

LEMMA PairStore ==
    ASSUME TypeOK, TypeOK', PairInv,
           Tick \/ Crash \/ Load \/ \E id \in VoiceIds : Purge(id) \/ PurgeFails(id)
    PROVE  PairInv'
<1>0. /\ clock \in Nat /\ Window \in Nat /\ \A v \in Voice : v.deleted # None => v.deleted \in Nat
      /\ \A id \in VoiceIds : Valid(side[id]) => side[id] \in Voice
  BY VoiceStoreAssumption DEF TypeOK, Time, Voice, Valid
<1>1. CASE Tick
  <2>1. /\ wav' = wav /\ side' = side /\ records' = records /\ used' = used
        /\ clock' = clock + 1 /\ up' = up /\ purging' = purging /\ request' = request
    BY <1>1 DEF Tick, disk
  <2>2. \A id \in VoiceIds : Valid(side[id]) /\ Expired(side[id]) => Expired(side[id])'
    BY <1>0, <2>1 DEF Expired
  <2>3. purging \in SUBSET VoiceIds
    BY DEF TypeOK
  <2>4. ValidWhole' /\ PurgedExpired'
    BY <2>1, <2>2, <2>3 DEF PairInv, ValidWhole, PurgedExpired
  <2> QED
    BY <2>1, <2>4 DEF PairInv, Quiet, Settled, IdsUsed, KeptWhole, SideAfterWav, Kept
<1>2. CASE Crash
  <2>1. /\ wav' = wav /\ side' = side /\ used' = used /\ clock' = clock
        /\ up' = FALSE /\ purging' = {}
        /\ \A id \in VoiceIds : records'[id] = None
        /\ \A r \in Requests : request'[r] = None
    BY <1>2 DEF Crash, disk
  <2> QED
    BY <2>1 DEF PairInv, Quiet, Settled, IdsUsed, KeptWhole, ValidWhole, PurgedExpired,
                SideAfterWav, Kept, Expired
<1>3. CASE Load
  <2>1. /\ wav' = wav /\ side' = side /\ used' = used /\ clock' = clock /\ request' = request
        /\ ~ up /\ up' = (purging' = {})
        /\ purging' = {id \in VoiceIds : Valid(side[id]) /\ Expired(side[id])}
        /\ \A id \in VoiceIds : records'[id] = IF Valid(side[id]) THEN side[id] ELSE None
    BY <1>3 DEF Load, disk
  <2>2. \A r \in Requests : request'[r] = None
    BY <2>1 DEF PairInv, Quiet
  <2> QED
    BY <2>1, <2>2 DEF PairInv, Quiet, Settled, IdsUsed, KeptWhole, ValidWhole, PurgedExpired,
                SideAfterWav, Kept, Expired
<1>4. ASSUME NEW id \in VoiceIds, Purge(id) \/ PurgeFails(id)
      PROVE  PairInv'
  <2>1. /\ used' = used /\ clock' = clock /\ request' = request /\ ~ up /\ up' = (purging' = {})
        /\ id \in purging /\ purging' \subseteq purging
        /\ \A v \in VoiceIds \ {id} : /\ wav'[v] = wav[v] /\ side'[v] = side[v]
                                     /\ records'[v] = records[v]
                                     /\ (v \in purging' <=> v \in purging)
        /\ records'[id] = None /\ side'[id] \in {side[id], None}
    BY <1>4 DEF Purge, PurgeFails, TypeOK, disk
  <2>2. \A r \in Requests : request'[r] = None
    BY <2>1 DEF PairInv, Quiet
  <2>3. ~ Valid(None) /\ purging \in SUBSET VoiceIds
    BY MarksAssumption DEF Valid, TypeOK
  <2>4. Valid(side'[id]) => side'[id] = side[id]
    BY <2>1, <2>3
  <2>5. Valid(side[id]) => Expired(side[id])
    BY <2>1 DEF PairInv, PurgedExpired
  <2>6. IdsUsed' /\ KeptWhole'
    BY <2>1, <2>2, <2>3, <2>4 DEF PairInv, IdsUsed, KeptWhole, Kept
  <2>7. ValidWhole' /\ PurgedExpired'
    BY <2>1, <2>3, <2>4, <2>5 DEF PairInv, ValidWhole, PurgedExpired, Expired
  <2> QED
    BY <2>1, <2>2, <2>6, <2>7 DEF PairInv, Quiet, Settled, SideAfterWav
<1> QED
  BY <1>1, <1>2, <1>3, <1>4

LEMMA PairStep ==
    ASSUME TypeOK, PairInv, [Next]_vars
    PROVE  PairInv'
<1>1. TypeOK'
  BY TypeStep
<1>2. CASE Next
  BY <1>1, <1>2, PairHandler, PairStore DEF Next, Step
<1>3. CASE UNCHANGED vars
  BY <1>3 DEF vars, PairInv, Quiet, Settled, IdsUsed, KeptWhole, ValidWhole, PurgedExpired,
              SideAfterWav, Kept, Expired
<1> QED
  BY <1>2, <1>3

LEMMA InitPair == Init => PairInv
  BY MarksAssumption DEF Init, PairInv, Quiet, Settled, IdsUsed, KeptWhole, ValidWhole,
     PurgedExpired, SideAfterWav, Kept, Expired, Valid

(* Every variable has its type, and the files of a voice keep the order    *)
(* they are written in, for any number of voices, handlers and kills.      *)
THEOREM LibraryInvariant == Spec => [](TypeOK /\ PairInv)
<1>1. Init => TypeOK /\ PairInv
  BY InitTypes, InitPair
<1>2. TypeOK /\ PairInv /\ [Next]_vars => (TypeOK /\ PairInv)'
  BY TypeStep, PairStep
<1> QED
  BY <1>1, <1>2, PTL DEF Spec

(* Audio and transcript always together (voices.ts): a gateway that serves *)
(* has the recording of every voice it keeps.                              *)
THEOREM RecordingsKept == Spec => []PairTogether
<1>1. TypeOK /\ PairInv => PairTogether
  BY DEF PairInv, Settled, KeptWhole, PairTogether
<1> QED
  BY <1>1, LibraryInvariant, PTL

-----------------------------------------------------------------------------
(* Handlers that meet on a voice.                                          *)
Disturbed(id) == id \in disturbed

Alone ==
    \A r, s \in Requests :
        request[r] # None /\ request[s] # None /\ request[r].id = request[s].id
            => r = s \/ Disturbed(request[r].id)
Aimed ==
    \A r \in Requests :
        request[r] # None /\ ~ Disturbed(request[r].id) =>
            /\ request[r].op = "create" => ~ Kept(request[r].id)
            /\ request[r].op = "update" => Visible(request[r].id)
            /\ request[r].op = "remove" => request[r].voice.deleted # None
Unloaded == ~ up /\ purging = {} => \A id \in VoiceIds : ~ Kept(id)

MeetInv == Alone /\ Aimed /\ Unloaded

(* What is noted of a step of a gateway that is up.                        *)
LEMMA Noted ==
    ASSUME TypeOK, TypeOK', Disturb, up
    PROVE  /\ disturbed \subseteq disturbed'
           /\ Alone'
           /\ \A r \in Requests : request[r] # None /\ WriteFails(r) => request[r].id \in disturbed'
<1>1. disturbed' = disturbed \cup {id \in VoiceIds :
               \/ Cardinality(Handling(id)') > 1
               \/ \E r \in Handling(id) : WriteFails(r)}
  BY DEF Disturb
<1>2. ASSUME NEW r \in Requests, NEW s \in Requests, NEW id \in VoiceIds,
             request'[r] # None, request'[s] # None,
             request'[r].id = id, request'[s].id = id, r # s
      PROVE  id \in disturbed'
  <2>2. {r, s} \subseteq Handling(id)' /\ Handling(id)' \subseteq Requests
    BY <1>2 DEF Handling
  <2>3. IsFiniteSet(Handling(id)')
    BY <2>2, VoiceStoreAssumption, FS_Subset
  <2>4. IsFiniteSet({r}) /\ Cardinality({r}) = 1 /\ s \notin {r}
    BY <1>2, FS_Singleton
  <2>5. Cardinality({r} \cup {s}) = 2
    BY <2>4, FS_AddElement
  <2>6. {r} \cup {s} = {r, s}
    OBVIOUS
  <2>7. Cardinality({r, s}) <= Cardinality(Handling(id)') /\ Cardinality(Handling(id)') \in Nat
    BY <2>2, <2>3, FS_Subset, FS_CardinalityType
  <2>8. Cardinality(Handling(id)') > 1
    BY <2>5, <2>6, <2>7
  <2> QED
    BY <1>1, <2>8
<1>3. ASSUME NEW r \in Requests, request[r] # None, WriteFails(r)
      PROVE  request[r].id \in disturbed'
  <2>1. request[r].id \in VoiceIds /\ r \in Handling(request[r].id)
    BY <1>3 DEF TypeOK, Working, Handling
  <2> QED
    BY <1>1, <1>3, <2>1
<1>4. \A r \in Requests : request'[r] # None => request'[r].id \in VoiceIds
  BY DEF TypeOK, Working
<1> QED
  BY <1>1, <1>2, <1>3, <1>4 DEF Alone, Disturbed

(* What a step of a handler can be: it is accepted, it moves on, it throws *)
(* or it stores its record.                                                *)
Aim(op, id, voice) ==
    /\ voice \in Voice /\ op \in {"create", "update", "remove", "restore"}
    /\ op = "create" => ~ Kept(id)
    /\ op = "update" => Visible(id)
    /\ op = "remove" => voice.deleted # None
    /\ IF op = "create" THEN id \notin used /\ used' = used \cup {id} /\ voice.deleted = None
                        ELSE Kept(id) /\ used' = used

LEMMA HandlerShape ==
    ASSUME TypeOK, PairInv, NEW r \in Requests, Handler(r)
    PROVE  \/ \E op, voice : \E id \in VoiceIds : Accept(r, op, id, voice) /\ Aim(op, id, voice)
           \/ WavOpened(r) \/ WavWritten(r) \/ SideOpened(r) \/ SideWritten(r)
           \/ WriteFails(r) \/ Stored(r)
<1>1. ASSUME NEW id \in VoiceIds, NEW typed \in Names, Create(r, id, typed)
      PROVE  \E op, voice : Accept(r, op, id, voice) /\ Aim(op, id, voice)
  <2>1. /\ Fresh(id, typed) \in Voice /\ ~ Kept(id)
        /\ Fresh(id, typed).deleted = None /\ id \notin used /\ used' = used \cup {id}
    BY <1>1, FreshType DEF Create, PairInv, IdsUsed, Fresh
  <2>2. Aim("create", id, Fresh(id, typed))
    BY <2>1 DEF Aim
  <2> QED
    BY <1>1, <2>2 DEF Create
<1>2. ASSUME NEW id \in VoiceIds, NEW typed \in Names, Rename(r, id, typed)
      PROVE  \E op, voice : Accept(r, op, id, voice) /\ Aim(op, id, voice)
  <2> DEFINE voice == [records[id] EXCEPT !.name = Disambiguate(typed, TakenBut(id))]
  <2>1. voice \in Voice /\ Visible(id) /\ Kept(id) /\ records[id] \in Voice /\ used' = used
    BY <1>2, RecordTypes, DisambiguateType DEF Rename, Visible, TypeOK, Kept
  <2>2. Aim("update", id, voice)
    <3> HIDE DEF voice
    <3> QED
      BY <1>2, <2>1 DEF Aim
  <2> QED
    BY <1>2, <2>2 DEF Rename
<1>3. ASSUME NEW id \in VoiceIds, NEW said \in Said, Transcribe(r, id, said)
      PROVE  \E op, voice : Accept(r, op, id, voice) /\ Aim(op, id, voice)
  <2> DEFINE voice == [records[id] EXCEPT !.said = said]
  <2>1. voice \in Voice /\ Visible(id) /\ Kept(id) /\ records[id] \in Voice /\ used' = used
    BY <1>3, RecordTypes, VoiceStoreAssumption DEF Transcribe, Visible, TypeOK, Kept
  <2>2. Aim("update", id, voice)
    <3> HIDE DEF voice
    <3> QED
      BY <1>3, <2>1 DEF Aim
  <2> QED
    BY <1>3, <2>2 DEF Transcribe
<1>4. ASSUME NEW id \in VoiceIds, RemoveVoice(r, id)
      PROVE  \E op, voice : Accept(r, op, id, voice) /\ Aim(op, id, voice)
  <2> DEFINE voice == [records[id] EXCEPT !.deleted = clock]
  <2>1. /\ voice \in Voice /\ Kept(id) /\ records[id] \in Voice /\ clock # None
        /\ used' = used
    BY <1>4, RecordTypes, MarksAssumption DEF RemoveVoice, TypeOK, Kept
  <2>2. voice.deleted = clock
    BY <2>1 DEF Voice
  <2>3. Aim("remove", id, voice)
    <3> HIDE DEF voice
    <3> QED
      BY <1>4, <2>1, <2>2 DEF Aim
  <2> QED
    BY <1>4, <2>3 DEF RemoveVoice
<1>5. ASSUME NEW id \in VoiceIds, Restore(r, id)
      PROVE  \E op, voice : Accept(r, op, id, voice) /\ Aim(op, id, voice)
  <2> DEFINE voice == [records[id] EXCEPT !.deleted = None]
  <2>1. voice \in Voice /\ Kept(id) /\ records[id] \in Voice /\ used' = used
    BY <1>5, RecordTypes DEF Restore, TypeOK, Kept
  <2>2. Aim("restore", id, voice)
    <3> HIDE DEF voice
    <3> QED
      BY <1>5, <2>1 DEF Aim
  <2> QED
    BY <1>5, <2>2 DEF Restore
<1> QED
  BY <1>1, <1>2, <1>3, <1>4, <1>5 DEF Handler

(* A handler that is accepted.                                             *)
LEMMA AcceptFrame ==
    ASSUME TypeOK, NEW r \in Requests, NEW id \in VoiceIds, NEW op, NEW voice,
           Accept(r, op, id, voice), Aim(op, id, voice)
    PROVE  /\ up /\ up' /\ request[r] = None /\ request'[r] # None
           /\ request'[r].op = op /\ request'[r].id = id /\ request'[r].voice = voice
           /\ request'[r].pc \in {"wav", "side"}
           /\ records' = records /\ side' = side /\ wav' = wav /\ purging' = purging
           /\ clock' = clock
           /\ \A s \in Requests \ {r} : request'[s] = request[s]
<1> DEFINE new == [op |-> op, pc |-> IF op = "create" THEN "wav" ELSE "side",
                   id |-> id, voice |-> voice]
<1>1. new \in Working
  BY DEF Aim, Working
<1>2. new # None
  BY <1>1, MarksAssumption
<1>3. new.op = op /\ new.id = id /\ new.voice = voice /\ new.pc \in {"wav", "side"}
  OBVIOUS
<1> HIDE DEF new
<1>4. request' = [request EXCEPT ![r] = new]
  BY DEF Accept, new
<1>5. request'[r] = new /\ \A s \in Requests \ {r} : request'[s] = request[s]
  BY <1>4 DEF TypeOK
<1> QED
  BY <1>2, <1>3, <1>5 DEF Accept, disk

(* A handler that is done, or throws.                                      *)
LEMMA LeaveFrame ==
    ASSUME TypeOK, NEW r \in Requests, request' = [request EXCEPT ![r] = None]
    PROVE  request'[r] = None /\ \A s \in Requests \ {r} : request'[s] = request[s]
  BY DEF TypeOK

LEMMA MeetHandler ==
    ASSUME TypeOK, TypeOK', PairInv, MeetInv, Disturb, NEW r \in Requests, Handler(r)
    PROVE  MeetInv'
<1>1. up
  BY HandlerShape DEF Accept, WavOpened, WavWritten, SideOpened, SideWritten, WriteFails, Stored, At
<1>2. disturbed \subseteq disturbed' /\ Alone'
  BY <1>1, Noted
<1>3. ASSUME NEW op, NEW voice, NEW id \in VoiceIds, Accept(r, op, id, voice), Aim(op, id, voice)
      PROVE  Aimed' /\ up'
  <2>1. /\ up' /\ request'[r].op = op /\ request'[r].id = id /\ request'[r].voice = voice
        /\ records' = records /\ \A s \in Requests \ {r} : request'[s] = request[s]
    BY <1>3, AcceptFrame
  <2>2. /\ op = "create" => ~ Kept(id)
        /\ op = "update" => Visible(id)
        /\ op = "remove" => voice.deleted # None
    BY <1>3 DEF Aim
  <2> QED
    BY <1>2, <2>1, <2>2 DEF MeetInv, Aimed, Disturbed, Kept, Visible
<1>4. ASSUME NEW pc \in {"wav", "wavOpen", "side", "sideOpen", "written"},
             request[r] # None, Goto(r, pc)
      PROVE  Aimed' /\ up'
  <2>1. /\ request'[r].id = request[r].id /\ request'[r].voice = request[r].voice
        /\ request'[r].op = request[r].op
        /\ \A s \in Requests \ {r} : request'[s] = request[s]
    BY <1>4, GotoFrame
  <2>2. records' = records /\ up'
    BY <1>1, <1>4 DEF Goto
  <2> QED
    BY <1>2, <1>4, <2>1, <2>2 DEF MeetInv, Aimed, Disturbed, Kept, Visible
<1>5. CASE WriteFails(r)
  <2>1. request'[r] = None /\ \A s \in Requests \ {r} : request'[s] = request[s]
    BY <1>5, LeaveFrame DEF WriteFails
  <2>2. records' = records /\ up'
    BY <1>1, <1>5 DEF WriteFails
  <2>3. Aimed'
    BY <1>2, <2>1, <2>2 DEF MeetInv, Aimed, Disturbed, Kept, Visible
  <2> QED
    BY <1>2, <2>2, <2>3 DEF MeetInv, Unloaded
<1>6. CASE Stored(r)
  <2>1. request'[r] = None /\ \A s \in Requests \ {r} : request'[s] = request[s]
    BY <1>6, LeaveFrame DEF Stored
  <2>2. /\ \A id \in VoiceIds \ {request[r].id} : records'[id] = records[id]
        /\ request[r] # None /\ up'
    BY <1>1, <1>6 DEF Stored, TypeOK, At
  <2>3. ASSUME NEW s \in Requests, request'[s] # None, request'[s].id \notin disturbed'
        PROVE  /\ request'[s] = request[s] /\ request[s] # None /\ ~ Disturbed(request[s].id)
               /\ records'[request[s].id] = records[request[s].id]
    <3>1. s # r /\ request'[s] = request[s] /\ request[s] # None /\ ~ Disturbed(request[s].id)
      BY <1>2, <2>1, <2>3 DEF Disturbed
    <3>2. request[s].id # request[r].id /\ request[s].id \in VoiceIds
      BY <2>2, <3>1 DEF MeetInv, Alone, Disturbed, TypeOK, Working
    <3> QED
      BY <2>2, <3>1, <3>2
  <2>4. Aimed'
    BY <2>3 DEF MeetInv, Aimed, Disturbed, Kept, Visible
  <2> QED
    BY <1>2, <2>2, <2>4 DEF MeetInv, Unloaded
<1>7. CASE WavOpened(r) \/ WavWritten(r) \/ SideOpened(r) \/ SideWritten(r)
  BY <1>2, <1>4, <1>7 DEF WavOpened, WavWritten, SideOpened, SideWritten, At, MeetInv, Unloaded
<1> QED
  BY <1>2, <1>3, <1>5, <1>6, <1>7, HandlerShape DEF MeetInv, Unloaded

LEMMA MeetStep ==
    ASSUME TypeOK, PairInv, MeetInv, [Next]_vars
    PROVE  MeetInv'
<1>1. TypeOK' /\ PairInv'
  BY TypeStep, PairStep
<1>2. CASE UNCHANGED vars
  BY <1>2 DEF vars, MeetInv, Alone, Aimed, Unloaded, Disturbed, Kept, Visible
<1>3. CASE Next /\ \E r \in Requests : Handler(r)
  BY <1>1, <1>3, MeetHandler DEF Next
<1>4. CASE Next /\ Tick
  <2>1. request' = request /\ records' = records /\ up' = up /\ purging' = purging
    BY <1>4 DEF Tick
  <2>2. CASE up
    <3>1. disturbed \subseteq disturbed' /\ Alone'
      BY <1>1, <1>4, <2>2, Noted DEF Next
    <3> QED
      BY <2>1, <3>1 DEF MeetInv, Aimed, Unloaded, Disturbed, Kept, Visible
  <2>3. CASE ~ up
    <3>1. \A r \in Requests : request[r] = None
      BY <2>3 DEF PairInv, Quiet
    <3> QED
      BY <2>1, <3>1 DEF MeetInv, Alone, Aimed, Unloaded, Kept
  <2> QED
    BY <2>2, <2>3
<1>5. CASE Crash
  <2>1. \A r \in Requests : request'[r] = None
    BY <1>5 DEF Crash
  <2>2. \A id \in VoiceIds : records'[id] = None
    BY <1>5 DEF Crash
  <2> QED
    BY <2>1, <2>2 DEF MeetInv, Alone, Aimed, Unloaded, Kept
<1>6. CASE Load \/ \E id \in VoiceIds : Purge(id) \/ PurgeFails(id)
  <2>1. request' = request /\ ~ up /\ up' = (purging' = {})
    BY <1>6 DEF Load, Purge, PurgeFails
  <2>2. \A r \in Requests : request'[r] = None
    BY <2>1 DEF PairInv, Quiet
  <2> QED
    BY <2>1, <2>2 DEF MeetInv, Alone, Aimed, Unloaded
<1> QED
  BY <1>2, <1>3, <1>4, <1>5, <1>6 DEF Next, Step

LEMMA InitMeet == Init => MeetInv
  BY DEF Init, MeetInv, Alone, Aimed, Unloaded

(* A deleted voice on which no two handlers met comes back by the record   *)
(* of a restore and by nothing else.                                       *)
LEMMA BackByRestore ==
    ASSUME TypeOK, PairInv, MeetInv, [Next]_vars, NEW id \in VoiceIds \ disturbed,
           Kept(id), ~ Visible(id), Visible(id)'
    PROVE  \E r \in Handling(id) : request[r].op = "restore"
<1>1. records'[id] # records[id] /\ records'[id] # None
  BY DEF Kept, Visible
<1>2. ASSUME NEW r \in Requests, Handler(r)
      PROVE  \E s \in Handling(id) : request[s].op = "restore"
  <2>1. CASE Stored(r)
    <3>1. /\ request[r] # None /\ request[r] \in Working
          /\ records' = [records EXCEPT ![request[r].id] = request[r].voice]
      BY <2>1 DEF Stored, At, TypeOK
    <3>2. request[r].id = id /\ request[r].voice = records'[id]
      BY <1>1, <3>1 DEF TypeOK
    <3>3. request[r].voice.deleted = None
      BY <3>2 DEF Visible
    <3>4. /\ request[r].op # "create" /\ request[r].op # "update" /\ request[r].op # "remove"
      BY <3>1, <3>2, <3>3 DEF MeetInv, Aimed, Disturbed
    <3>5. request[r].op = "restore"
      BY <3>1, <3>4 DEF Working
    <3> QED
      BY <3>1, <3>2, <3>5 DEF Handling
  <2>2. CASE ~ Stored(r)
    <3>1. records' = records
      BY <1>2, <2>2, HandlerShape DEF Accept, WavOpened, WavWritten, SideOpened, SideWritten,
                                      WriteFails, Goto
    <3> QED
      BY <1>1, <3>1
  <2> QED
    BY <2>1, <2>2
<1>3. ~ Tick /\ ~ Crash /\ ~ UNCHANGED vars
  BY <1>1 DEF Tick, Crash, vars
<1>4. ~ Load
  BY DEF Load, MeetInv, Unloaded
<1>5. ASSUME NEW v \in VoiceIds, Purge(v) \/ PurgeFails(v)
      PROVE  FALSE
  <2>1. records' = [records EXCEPT ![v] = None]
    BY <1>5 DEF Purge, PurgeFails
  <2> QED
    BY <1>1, <2>1 DEF TypeOK
<1> QED
  BY <1>2, <1>3, <1>4, <1>5 DEF Next, Step

(* Only a restore brings a deleted voice back (voices.ts), unless two      *)
(* handlers met on it: for any number of voices, handlers and kills.       *)
THEOREM DeletedStaysDeleted == Spec => DeletedUntilRestored
<1>1. Init => TypeOK /\ PairInv /\ MeetInv
  BY InitTypes, InitPair, InitMeet
<1>2. TypeOK /\ PairInv /\ MeetInv /\ [Next]_vars => (TypeOK /\ PairInv /\ MeetInv)'
  BY TypeStep, PairStep, MeetStep
<1>3. TypeOK /\ PairInv /\ MeetInv /\ [Next]_vars =>
        [\A id \in VoiceIds \ disturbed :
            Kept(id) /\ ~ Visible(id) /\ Visible(id)' =>
                \E r \in Handling(id) : request[r].op = "restore"]_vars
  BY BackByRestore
<1> QED
  BY <1>1, <1>2, <1>3, PTL DEF Spec, DeletedUntilRestored

-----------------------------------------------------------------------------
(* The index and the sidecars.                                             *)
Lost(s) == ~ Valid(s) \/ Expired(s)
Agree(id) == IF Kept(id) THEN side[id] = records[id] ELSE Lost(side[id])

Resting(id) ==
    /\ IF up THEN ~ Disturbed(id) ELSE purging # {}
    /\ \A r \in Requests : request[r] # None => request[r].id # id
RestingAgree == \A id \in VoiceIds \ purging : Resting(id) => Agree(id)
HandClause(r) ==
    /\ request[r].pc \in {"wav", "wavOpen", "side"} => Agree(request[r].id)
    /\ request[r].pc = "sideOpen" => side[request[r].id] = Torn
    /\ request[r].pc = "written" => side[request[r].id] = request[r].voice
InHand ==
    \A r \in Requests :
        request[r] # None /\ ~ Disturbed(request[r].id) => HandClause(r)

FileInv == RestingAgree /\ InHand

(* A step of one handler that leaves the other voices as they are.         *)
LEMMA FileFrame ==
    ASSUME TypeOK, TypeOK', Alone, FileInv, NEW r \in Requests, NEW id \in VoiceIds,
           up, up', purging = {}, purging' = {}, clock' = clock,
           disturbed \subseteq disturbed',
           \A v \in VoiceIds \ {id} : side'[v] = side[v] /\ records'[v] = records[v],
           \A s \in Requests \ {r} : request'[s] = request[s],
           request[r] # None => request[r].id = id,
           request'[r] # None => request'[r].id = id,
           request[r] = None => /\ side' = side /\ records' = records
                                /\ request'[r] # None,
           request'[r] # None /\ id \notin disturbed' => HandClause(r)',
           request'[r] = None /\ id \notin disturbed' => Agree(id)'
    PROVE  RestingAgree' /\ InHand'
<1>1. ASSUME NEW v \in VoiceIds, Resting(v)', v # id
      PROVE  Agree(v)'
  <2>1. Resting(v)
    BY <1>1 DEF Resting, Disturbed
  <2> QED
    BY <1>1, <2>1 DEF FileInv, RestingAgree, Agree, Kept, Lost, Expired
<1>2. Resting(id)' => Agree(id)'
  BY DEF Resting, Disturbed
<1>3. RestingAgree'
  BY <1>1, <1>2 DEF RestingAgree
<1>4. ASSUME NEW s \in Requests, request'[s] # None, request'[s].id \notin disturbed', s # r
      PROVE  HandClause(s)'
  <2>1. request'[s] = request[s] /\ request[s] # None /\ HandClause(s)
    BY <1>4 DEF FileInv, InHand, Disturbed
  <2>2. request[s].id \in VoiceIds
    BY <2>1 DEF TypeOK, Working
  <2>3. /\ side'[request[s].id] = side[request[s].id]
        /\ records'[request[s].id] = records[request[s].id]
    <3>1. CASE request[r] = None
      BY <3>1
    <3>2. CASE request[r] # None
      <4>1. request[s].id # id
        BY <1>4, <2>1, <3>2 DEF Alone, Disturbed
      <4> QED
        BY <2>2, <4>1
    <3> QED
      BY <3>1, <3>2
  <2> QED
    BY <2>1, <2>3 DEF HandClause, Agree, Kept, Lost, Expired
<1>5. InHand'
  BY <1>4 DEF InHand, Disturbed
<1> QED
  BY <1>3, <1>5

LEMMA FileHandler ==
    ASSUME TypeOK, TypeOK', PairInv, PairInv', MeetInv, Disturb, FileInv,
           NEW r \in Requests, Handler(r)
    PROVE  FileInv'
<1>0. up
  BY HandlerShape DEF Accept, WavOpened, WavWritten, SideOpened, SideWritten, WriteFails, Stored, At
<1>1. disturbed \subseteq disturbed' /\ Alone' /\ purging = {} /\ Alone
  BY <1>0, Noted DEF PairInv, Settled, MeetInv
<1>2. ASSUME NEW op, NEW voice, NEW id \in VoiceIds, Accept(r, op, id, voice), Aim(op, id, voice)
      PROVE  FileInv'
  <2>1. /\ up' /\ request[r] = None /\ request'[r] # None /\ request'[r].pc \in {"wav", "side"}
        /\ request'[r].id = id /\ request'[r].voice = voice
        /\ records' = records /\ side' = side /\ purging' = purging /\ clock' = clock
        /\ \A s \in Requests \ {r} : request'[s] = request[s]
    BY <1>2, AcceptFrame
  <2>2. ASSUME id \notin disturbed'
        PROVE  HandClause(r)'
    <3>1. \A s \in Requests : request[s] # None => request[s].id # id
      BY <1>1, <2>1, <2>2 DEF Alone, Disturbed
    <3>2. Resting(id)
      BY <1>0, <1>1, <2>2, <3>1 DEF Resting, Disturbed
    <3>3. Agree(id)
      BY <1>1, <3>2 DEF FileInv, RestingAgree
    <3> QED
      BY <2>1, <3>3 DEF HandClause, Agree, Kept, Lost, Expired
  <2>3. RestingAgree' /\ InHand'
    BY <1>0, <1>1, <2>1, <2>2, FileFrame
  <2> QED
    BY <2>3 DEF FileInv
<1>3. ASSUME NEW pc \in {"wav", "wavOpen", "side", "sideOpen", "written"},
             request[r] # None, Goto(r, pc),
             \A id \in VoiceIds \ {request[r].id} : side'[id] = side[id],
             request[r].id \notin disturbed' => HandClause(r)'
      PROVE  FileInv'
  <2>1. /\ request'[r].id = request[r].id /\ request'[r].voice = request[r].voice
        /\ request[r].id \in VoiceIds /\ request'[r] # None
        /\ \A s \in Requests \ {r} : request'[s] = request[s]
    BY <1>3, GotoFrame
  <2>2. records' = records /\ up' /\ purging' = purging /\ clock' = clock
    BY <1>0, <1>3 DEF Goto
  <2>3. RestingAgree' /\ InHand'
    BY <1>0, <1>1, <1>3, <2>1, <2>2, FileFrame
  <2> QED
    BY <2>3 DEF FileInv
<1>4. ASSUME request[r] # None
      PROVE  /\ request[r].id \in VoiceIds /\ request[r].voice \in Voice
             /\ request[r].id \notin disturbed' => HandClause(r)
  BY <1>1, <1>4 DEF TypeOK, Working, FileInv, InHand, Disturbed
<1>5. CASE WavOpened(r) \/ WavWritten(r)
  <2>1. /\ request[r] # None /\ side' = side /\ request[r].pc \in {"wav", "wavOpen"}
        /\ Goto(r, "wavOpen") \/ Goto(r, "side")
    BY <1>5 DEF WavOpened, WavWritten, At
  <2>2. PICK pc \in {"wavOpen", "side"} : Goto(r, pc)
    BY <2>1
  <2>3. request'[r].pc = pc /\ request'[r].id = request[r].id
    BY <2>1, <2>2, GotoFrame
  <2>4. records' = records /\ clock' = clock
    BY <2>2 DEF Goto
  <2>5. request[r].id \notin disturbed' => HandClause(r)'
    BY <1>4, <2>1, <2>3, <2>4 DEF HandClause, Agree, Kept, Lost, Expired
  <2> QED
    BY <1>3, <2>1, <2>2, <2>5
<1>6. CASE SideOpened(r)
  <2>1. /\ request[r] # None /\ Goto(r, "sideOpen") /\ request[r].id \in VoiceIds
        /\ side' = [side EXCEPT ![request[r].id] = Torn]
    BY <1>4, <1>6 DEF SideOpened, At
  <2>2. /\ \A id \in VoiceIds \ {request[r].id} : side'[id] = side[id]
        /\ side'[request[r].id] = Torn
    BY <2>1 DEF TypeOK
  <2>3. request'[r].pc = "sideOpen" /\ request'[r].id = request[r].id
    BY <2>1, GotoFrame
  <2>4. HandClause(r)'
    BY <2>2, <2>3 DEF HandClause
  <2> QED
    BY <1>3, <2>1, <2>2, <2>4, MarksAssumption
<1>7. CASE SideWritten(r)
  <2>1. /\ request[r] # None /\ Goto(r, "written") /\ request[r].id \in VoiceIds
        /\ request[r].pc = "sideOpen"
        /\ \/ side' = [side EXCEPT ![request[r].id] = request[r].voice]
           \/ /\ side[request[r].id] # Torn
              /\ side' = [side EXCEPT ![request[r].id] = Torn]
    BY <1>4, <1>7 DEF SideWritten, At
  <2>2. /\ \A id \in VoiceIds \ {request[r].id} : side'[id] = side[id]
        /\ \/ side'[request[r].id] = request[r].voice
           \/ side[request[r].id] # Torn /\ side'[request[r].id] = Torn
    BY <2>1 DEF TypeOK
  <2>3. /\ request'[r].pc = "written" /\ request'[r].id = request[r].id
        /\ request'[r].voice = request[r].voice
    BY <2>1, GotoFrame
  <2>4. request[r].id \notin disturbed' => HandClause(r)'
    BY <1>4, <2>1, <2>2, <2>3 DEF HandClause
  <2> QED
    BY <1>3, <2>1, <2>2, <2>4
<1>8. CASE WriteFails(r)
  <2>1. /\ request[r] # None /\ request'[r] = None
        /\ \A s \in Requests \ {r} : request'[s] = request[s]
    BY <1>8, LeaveFrame DEF WriteFails, At
  <2>2. records' = records /\ side' = side /\ up' /\ purging' = purging /\ clock' = clock
    BY <1>0, <1>8 DEF WriteFails, disk
  <2>3. request[r].id \in disturbed' /\ request[r].id \in VoiceIds
    BY <1>0, <1>4, <1>8, <2>1, Noted
  <2>4. RestingAgree' /\ InHand'
    BY <1>0, <1>1, <2>1, <2>2, <2>3, FileFrame
  <2> QED
    BY <2>4 DEF FileInv
<1>9. CASE Stored(r)
  <2>1. /\ request[r] # None /\ request[r].pc = "written" /\ request'[r] = None
        /\ \A s \in Requests \ {r} : request'[s] = request[s]
    BY <1>9, LeaveFrame DEF Stored, At
  <2>2. /\ side' = side /\ up' /\ purging' = purging /\ clock' = clock
        /\ records' = [records EXCEPT ![request[r].id] = request[r].voice]
    BY <1>0, <1>9 DEF Stored, disk
  <2>3. /\ \A id \in VoiceIds \ {request[r].id} : records'[id] = records[id]
        /\ records'[request[r].id] = request[r].voice
        /\ request[r].id \in VoiceIds /\ request[r].voice # None
    BY <1>4, <2>1, <2>2, MarksAssumption DEF TypeOK
  <2>4. ASSUME NEW id \in VoiceIds, id = request[r].id, id \notin disturbed'
        PROVE  Agree(id)'
    BY <1>4, <2>1, <2>2, <2>3, <2>4 DEF HandClause, Agree, Kept
  <2>5. RestingAgree' /\ InHand'
    BY <1>0, <1>1, <2>1, <2>2, <2>3, <2>4, FileFrame
  <2> QED
    BY <2>5 DEF FileInv
<1> QED
  BY <1>2, <1>5, <1>6, <1>7, <1>8, <1>9, HandlerShape

(* A window that has closed stays closed.                                  *)
LEMMA LaterExpired ==
    ASSUME TypeOK, clock' = clock + 1, NEW s \in Voice, Expired(s)
    PROVE  Expired(s)'
<1>1. clock \in Nat /\ Window \in Nat
  BY VoiceStoreAssumption DEF TypeOK, Time
<1>2. s.deleted # None /\ s.deleted \in Nat /\ clock >= s.deleted + Window
  BY DEF Expired, Voice, Time
<1>3. clock' >= s.deleted + Window
  BY <1>1, <1>2
<1> QED
  BY <1>2, <1>3 DEF Expired

LEMMA FileStep ==
    ASSUME TypeOK, PairInv, MeetInv, FileInv, [Next]_vars
    PROVE  FileInv'
<1>1. TypeOK' /\ PairInv' /\ MeetInv'
  BY TypeStep, PairStep, MeetStep
<1>2. CASE UNCHANGED vars
  BY <1>2 DEF vars, FileInv, RestingAgree, Resting, InHand, HandClause, Agree, Disturbed, Kept,
              Lost, Expired
<1>3. CASE Next /\ \E r \in Requests : Handler(r)
  BY <1>1, <1>3, FileHandler DEF Next
<1>4. CASE Next /\ Tick
  <2>1. /\ request' = request /\ records' = records /\ side' = side
        /\ up' = up /\ purging' = purging /\ clock' = clock + 1
    BY <1>4 DEF Tick, disk
  <2>2. up => disturbed \subseteq disturbed'
    BY <1>1, <1>4, Noted DEF Next
  <2>3. ~ up => \A r \in Requests : request[r] = None
    BY DEF PairInv, Quiet
  <2>4. \A id \in VoiceIds : Resting(id)' => Resting(id)
    BY <2>1, <2>2 DEF Resting, Disturbed
  <2>5. \A id \in VoiceIds : Lost(side[id]) => Lost(side[id])'
    BY <2>1, LaterExpired DEF Lost, Valid
  <2>6. \A id \in VoiceIds : Agree(id) => Agree(id)'
    BY <2>1, <2>5 DEF Agree, Kept
  <2>7. RestingAgree'
    BY <2>1, <2>4, <2>6 DEF FileInv, RestingAgree
  <2>8. ASSUME NEW r \in Requests, request[r] # None, HandClause(r)
        PROVE  HandClause(r)'
    BY <2>1, <2>6, <2>8 DEF HandClause, TypeOK, Working
  <2>9. InHand'
    BY <2>1, <2>2, <2>3, <2>8 DEF FileInv, InHand, Disturbed
  <2> QED
    BY <2>7, <2>9 DEF FileInv
<1>5. CASE Crash
  <2>1. /\ side' = side /\ ~ up' /\ purging' = {}
        /\ \A id \in VoiceIds : records'[id] = None
        /\ \A r \in Requests : request'[r] = None
    BY <1>5 DEF Crash, disk
  <2> QED
    BY <2>1 DEF FileInv, RestingAgree, Resting, InHand, Kept
<1>6. CASE Load
  <2>1. /\ side' = side /\ request' = request /\ ~ up
        /\ \A id \in VoiceIds : records'[id] = IF Valid(side[id]) THEN side[id] ELSE None
    BY <1>6 DEF Load, disk
  <2>2. \A r \in Requests : request'[r] = None
    BY <2>1 DEF PairInv, Quiet
  <2>3. ASSUME NEW id \in VoiceIds
        PROVE  Agree(id)'
    <3>1. Valid(side[id]) => side[id] # None
      BY MarksAssumption DEF Valid
    <3>2. Valid(side'[id]) <=> Valid(side[id])
      BY <2>1
    <3> QED
      BY <2>1, <3>1, <3>2 DEF Agree, Kept, Lost
  <2> QED
    BY <2>1, <2>2, <2>3 DEF FileInv, RestingAgree, InHand, Kept
<1>7. ASSUME NEW id \in VoiceIds, Purge(id) \/ PurgeFails(id)
      PROVE  FileInv'
  <2>1. /\ request' = request /\ ~ up /\ up' = (purging' = {})
        /\ id \in purging /\ purging \in SUBSET VoiceIds
        /\ records' = [records EXCEPT ![id] = None]
        /\ purging' = purging \/ purging' = purging \ {id}
        /\ side' = side \/ side' = [side EXCEPT ![id] = None]
        /\ clock' = clock
    BY <1>7 DEF Purge, PurgeFails, TypeOK, disk
  <2>2. \A r \in Requests : request[r] = None /\ request'[r] = None
    BY <2>1 DEF PairInv, Quiet
  <2>3. /\ records'[id] = None /\ side'[id] \in {side[id], None}
        /\ \A v \in VoiceIds \ {id} : records'[v] = records[v] /\ side'[v] = side[v]
    BY <2>1 DEF TypeOK
  <2>4. ASSUME NEW v \in VoiceIds \ purging'
        PROVE  Agree(v)'
    <3>1. CASE v = id
      <4>1. Valid(side[id]) => Expired(side[id])
        BY <2>1 DEF PairInv, PurgedExpired
      <4>2. ~ Valid(None)
        BY MarksAssumption DEF Valid
      <4>3. Lost(side[id])'
        BY <2>1, <2>3, <4>1, <4>2 DEF Lost, Expired
      <4> QED
        BY <2>3, <3>1, <4>3 DEF Agree, Kept
    <3>2. CASE v # id
      <4>1. v \notin purging /\ Resting(v)
        BY <2>1, <2>2, <2>4, <3>2 DEF Resting
      <4>2. Agree(v)
        BY <4>1 DEF FileInv, RestingAgree
      <4> QED
        BY <2>1, <2>3, <3>2, <4>2 DEF Agree, Kept, Lost, Expired
    <3> QED
      BY <3>1, <3>2
  <2> QED
    BY <2>2, <2>4 DEF FileInv, RestingAgree, InHand
<1> QED
  BY <1>2, <1>3, <1>4, <1>5, <1>6, <1>7 DEF Next, Step

LEMMA InitFile == Init => FileInv
  BY MarksAssumption DEF Init, FileInv, RestingAgree, InHand, Agree, Kept, Lost, Valid

(* Voices persist across gateway restarts (voices.ts), for any number of   *)
(* voices, handlers, updates, kills and refused removals: at rest, a start *)
(* would find of a voice what the index holds of it, unless its undo       *)
(* window has closed or an update has left it without a transcript, and    *)
(* then nothing of it.                                                     *)
THEOREM RestartsFindTheIndex == Spec => []RestartChangesNothing
<1>1. Init => TypeOK /\ PairInv /\ MeetInv /\ FileInv
  BY InitTypes, InitPair, InitMeet, InitFile
<1>2. TypeOK /\ PairInv /\ MeetInv /\ FileInv /\ [Next]_vars
        => (TypeOK /\ PairInv /\ MeetInv /\ FileInv)'
  BY TypeStep, PairStep, MeetStep, FileStep
<1>3. TypeOK /\ PairInv /\ FileInv => RestartChangesNothing
  <2> SUFFICES ASSUME TypeOK, PairInv, FileInv, up, NEW id \in VoiceIds \ disturbed,
                      Handling(id) = {}
               PROVE  Found(id) = IF Kept(id) /\ records[id].said /\ ~ Expired(records[id])
                                  THEN records[id] ELSE None
    BY DEF RestartChangesNothing
  <2>1. Agree(id)
    BY DEF FileInv, RestingAgree, Resting, Disturbed, Handling, PairInv, Settled
  <2>2. Kept(id) => records[id] \in Voice
    BY DEF TypeOK, Kept
  <2>3. CASE Kept(id)
    BY <2>1, <2>2, <2>3 DEF Agree, Valid, Found
  <2>4. CASE ~ Kept(id)
    BY <2>1, <2>4 DEF Agree, Lost, Found
  <2> QED
    BY <2>3, <2>4
<1> QED
  BY <1>1, <1>2, <1>3, PTL DEF Spec

-----------------------------------------------------------------------------
(* The life of a voice. What is under way, written or indexed of it says     *)
(* where in its life it is, on voices where handlers met as on any other.    *)
Making(r) == request[r] # None /\ request[r].op = "create"
Expected(id) == \E r \in Requests : Making(r) /\ request[r].id = id

Made ==
    \A r \in Requests : Making(r) =>
        /\ ~ Kept(request[r].id) /\ request[r].voice.deleted = None
        /\ Valid(side[request[r].id]) =>
              request[r].pc = "written" /\ side[request[r].id].deleted = None
        /\ \A s \in Requests : request[s] # None /\ request[s].id = request[r].id => s = r
Meant == \A r \in Requests : request[r] # None /\ request[r].op # "create" => Kept(request[r].id)
Unheard == up => \A id \in VoiceIds : ~ Kept(id) /\ ~ Expected(id) => Found(id) = None
Loaded ==
    ~ up /\ purging # {} => \A id \in VoiceIds \ purging : ~ Kept(id) => Found(id) = None

LifeInv == Made /\ Meant /\ Unheard /\ Loaded

Stage(v) == IF v.deleted = None THEN "live" ELSE "deleted"
Turn(id) == Life(id)' = Life(id) \/ <<Life(id), Life(id)'>> \in Store!Course

Absent(id) == IF id \notin used \/ Expected(id) THEN "unborn" ELSE "purged"

(* the index has been read *)
Serving == up \/ purging # {}

LEMMA LifeOf ==
    ASSUME NEW id \in VoiceIds
    PROVE  /\ Serving => Life(id) = IF Kept(id) /\ id \notin purging THEN Stage(records[id])
                                    ELSE Absent(id)
           /\ ~ Serving => Life(id) = IF Found(id) # None THEN Stage(Found(id)) ELSE Absent(id)
<1>1. (\E r \in Handling(id) : request[r].op = "create") <=> Expected(id)
  BY DEF Handling, Expected, Making
<1> QED
  BY <1>1 DEF Life, Known, Kept, Stage, Absent, Serving

LEMMA LifeAfter ==
    ASSUME NEW id \in VoiceIds
    PROVE  /\ Serving' => Life(id)' = IF Kept(id)' /\ id \notin purging' THEN Stage(records'[id])
                                      ELSE Absent(id)'
           /\ ~ Serving' => Life(id)' = IF Found(id)' # None THEN Stage(Found(id)')
                                        ELSE Absent(id)'
<1>1. (\E r \in Handling(id) : request[r].op = "create")' <=> Expected(id)'
  BY DEF Handling, Expected, Making
<1> QED
  BY <1>1 DEF Life, Known, Kept, Stage, Absent, Serving

(* A handler at work on its own voice: accepted, moving on, or leaving.      *)
LEMMA LifeAccept ==
    ASSUME TypeOK, PairInv, LifeInv, NEW r \in Requests, NEW op, NEW voice, NEW id \in VoiceIds,
           Accept(r, op, id, voice), Aim(op, id, voice)
    PROVE  LifeInv' /\ \A v \in VoiceIds : Turn(v)
<1>1. /\ up /\ up' /\ request[r] = None /\ request'[r] # None
      /\ request'[r].op = op /\ request'[r].id = id /\ request'[r].voice = voice
      /\ records' = records /\ side' = side /\ purging' = purging /\ clock' = clock
      /\ purging = {}
      /\ \A s \in Requests \ {r} : request'[s] = request[s]
  BY AcceptFrame DEF PairInv, Settled
<1>2. IF op = "create" THEN id \notin used /\ used' = used \cup {id} /\ voice.deleted = None
                       ELSE Kept(id) /\ used' = used
  BY DEF Aim
<1>3. /\ \A v \in VoiceIds : Kept(v) \/ Valid(side[v]) => v \in used
      /\ \A s \in Requests : request[s] # None => request[s].id \in used
  BY DEF PairInv, IdsUsed
<1>4. ASSUME NEW v \in VoiceIds
      PROVE  Expected(v)' <=> Expected(v) \/ (op = "create" /\ v = id)
  BY <1>1 DEF Expected, Making
<1>5. Made'
  <2> SUFFICES ASSUME NEW s \in Requests, Making(s)'
               PROVE  /\ ~ Kept(request'[s].id) /\ request'[s].voice.deleted = None
                      /\ ~ Valid(side[request'[s].id]) \/ (request'[s].pc = "written" /\ side[request'[s].id].deleted = None)
                      /\ \A q \in Requests : request'[q] # None /\ request'[q].id = request'[s].id => q = s
    BY <1>1 DEF Made, Kept
  <2>1. CASE s = r
    <3>1. op = "create" /\ ~ Kept(id) /\ ~ Valid(side[id])
      BY <1>1, <1>2, <1>3, <2>1 DEF Making
    <3> QED BY <1>1, <1>2, <1>3, <2>1, <3>1
  <2>2. CASE s # r
    <3>1. request'[s] = request[s] /\ Making(s)
      BY <1>1, <2>2 DEF Making
    <3>2. request[s].id # id
      BY <1>2, <1>3, <3>1 DEF LifeInv, Made, Making
    <3> QED BY <1>1, <3>1, <3>2 DEF LifeInv, Made
  <2> QED BY <2>1, <2>2
<1>6. Meant' /\ Unheard' /\ Loaded'
  BY <1>1, <1>2, <1>4 DEF LifeInv, Meant, Unheard, Loaded, Kept, Found, Expired
<1>7. ASSUME NEW v \in VoiceIds PROVE Turn(v)
  <2>1. Life(v) = IF Kept(v) THEN Stage(records[v]) ELSE Absent(v)
    BY <1>1, LifeOf DEF Serving
  <2>2. Life(v)' = IF Kept(v) THEN Stage(records[v]) ELSE Absent(v)'
    BY <1>1, LifeAfter DEF Kept, Serving
  <2>3. v \notin used' \/ Expected(v)' <=> v \notin used \/ Expected(v)
    BY <1>2, <1>4
  <2> QED BY <2>1, <2>2, <2>3 DEF Turn, Absent
<1> QED
  BY <1>5, <1>6, <1>7 DEF LifeInv

LEMMA LifeGoto ==
    ASSUME TypeOK, PairInv, LifeInv, NEW r \in Requests,
           WavOpened(r) \/ WavWritten(r) \/ SideOpened(r) \/ SideWritten(r)
    PROVE  LifeInv' /\ \A v \in VoiceIds : Turn(v)
<1>1. /\ up /\ up' /\ request[r] # None /\ records' = records /\ used' = used
      /\ clock' = clock /\ purging = {} /\ purging' = {}
      /\ \E pc \in {"wavOpen", "side", "sideOpen", "written"} : Goto(r, pc)
  BY DEF WavOpened, WavWritten, SideOpened, SideWritten, At, Goto, PairInv, Settled
<1>2. /\ request'[r].id = request[r].id /\ request'[r].voice = request[r].voice
      /\ request'[r].op = request[r].op /\ request'[r] # None
      /\ request[r].id \in VoiceIds
      /\ \A s \in Requests \ {r} : request'[s] = request[s]
  BY <1>1, GotoFrame
<1>3. \A v \in VoiceIds : Expected(v)' <=> Expected(v)
  BY <1>1, <1>2 DEF Expected, Making
<1>4. \A v \in VoiceIds \ {request[r].id} : side'[v] = side[v]
  BY DEF WavOpened, WavWritten, SideOpened, SideWritten, TypeOK
<1>5. ASSUME Making(r)
      PROVE  Valid(side'[request[r].id]) =>
                request'[r].pc = "written" /\ side'[request[r].id].deleted = None
  <2>1. /\ request[r].voice.deleted = None /\ ~ Valid(Torn)
        /\ Valid(side[request[r].id]) => request[r].pc = "written"
    BY <1>5, MarksAssumption DEF LifeInv, Made, Valid
  <2>2. CASE WavOpened(r) \/ WavWritten(r)
    BY <2>1, <2>2 DEF WavOpened, WavWritten, At
  <2>3. CASE SideOpened(r)
    <3>1. side'[request[r].id] = Torn
      BY <1>2, <2>3 DEF SideOpened, TypeOK
    <3> QED BY <2>1, <3>1
  <2>4. CASE SideWritten(r)
    <3>1. side'[request[r].id] \in {Torn, request[r].voice}
      BY <1>2, <2>4 DEF SideWritten, TypeOK
    <3>2. request'[r].pc = "written"
      BY <1>1, <2>4, GotoFrame DEF SideWritten
    <3> QED BY <2>1, <3>1, <3>2
  <2> QED BY <2>2, <2>3, <2>4
<1>6. Made'
  <2> SUFFICES ASSUME NEW s \in Requests, Making(s)'
               PROVE  /\ ~ Kept(request'[s].id) /\ request'[s].voice.deleted = None
                      /\ Valid(side'[request'[s].id]) =>
                            request'[s].pc = "written" /\ side'[request'[s].id].deleted = None
                      /\ \A q \in Requests : request'[q] # None /\ request'[q].id = request'[s].id => q = s
    BY <1>1 DEF Made, Kept
  <2>1. Making(s) /\ request'[s].id = request[s].id /\ request'[s].voice = request[s].voice
    BY <1>1, <1>2 DEF Making
  <2>2. /\ ~ Kept(request[s].id) /\ request[s].voice.deleted = None
        /\ Valid(side[request[s].id]) => request[s].pc = "written" /\ side[request[s].id].deleted = None
        /\ \A q \in Requests : request[q] # None /\ request[q].id = request[s].id => q = s
    BY <2>1 DEF LifeInv, Made
  <2>3. \A q \in Requests : request'[q] # None /\ request'[q].id = request'[s].id => q = s
    BY <1>1, <1>2, <2>1, <2>2
  <2>4. s # r => /\ request'[s] = request[s] /\ request[s].id \in VoiceIds
                 /\ request[s].id # request[r].id
    BY <1>1, <1>2, <2>1, <2>2 DEF TypeOK, Working, Making
  <2> QED BY <1>2, <1>4, <1>5, <2>1, <2>2, <2>3, <2>4
<1>7. Meant' /\ Loaded'
  BY <1>1, <1>2 DEF LifeInv, Meant, Loaded, Kept
<1>8. Unheard'
  <2> SUFFICES ASSUME NEW v \in VoiceIds, ~ Kept(v), ~ Expected(v)
               PROVE  Found(v)' = None
    BY <1>1, <1>3 DEF Unheard, Kept
  <2>1. v # request[r].id
    BY <1>1 DEF LifeInv, Meant, Expected, Making
  <2> QED BY <1>1, <1>4, <2>1 DEF LifeInv, Unheard, Found, Expired
<1>9. ASSUME NEW v \in VoiceIds PROVE Turn(v)
  <2>1. Life(v) = IF Kept(v) THEN Stage(records[v]) ELSE Absent(v)
    BY <1>1, LifeOf DEF Serving
  <2>2. Life(v)' = IF Kept(v) THEN Stage(records[v]) ELSE Absent(v)
    BY <1>1, <1>3, LifeAfter DEF Kept, Absent, Serving
  <2> QED BY <2>1, <2>2 DEF Turn
<1> QED
  BY <1>6, <1>7, <1>8, <1>9 DEF LifeInv

LEMMA LifeLeave ==
    ASSUME TypeOK, PairInv, LifeInv, NEW r \in Requests, WriteFails(r) \/ Stored(r)
    PROVE  LifeInv' /\ \A v \in VoiceIds : Turn(v)
<1>1. /\ up /\ up' /\ request[r] # None /\ used' = used /\ side' = side
      /\ clock' = clock /\ purging = {} /\ purging' = {}
      /\ request[r].id \in VoiceIds /\ request[r].voice \in Voice
      /\ WriteFails(r) => request[r].pc # "written" /\ records' = records
      /\ Stored(r) => records' = [records EXCEPT ![request[r].id] = request[r].voice]
  BY DEF WriteFails, Stored, At, TypeOK, Working, disk, PairInv, Settled
<1>2. request'[r] = None /\ \A s \in Requests \ {r} : request'[s] = request[s]
  BY LeaveFrame DEF WriteFails, Stored
<1>3. /\ \A v \in VoiceIds \ {request[r].id} : records'[v] = records[v]
      /\ \A v \in VoiceIds : Kept(v) => records'[v] # None
      /\ Stored(r) => records'[request[r].id] = request[r].voice /\ request[r].voice # None
  BY <1>1, MarksAssumption DEF TypeOK, Kept
<1>4. \A v \in VoiceIds : Expected(v)' => Expected(v)
  BY <1>2 DEF Expected, Making
<1>5. \A v \in VoiceIds \ {request[r].id} : Expected(v) => Expected(v)'
  BY <1>2 DEF Expected, Making
<1>6. Made'
  <2> SUFFICES ASSUME NEW s \in Requests, Making(s)'
               PROVE  /\ records'[request'[s].id] = None /\ request'[s].voice.deleted = None
                      /\ Valid(side[request'[s].id]) =>
                            request'[s].pc = "written" /\ side[request'[s].id].deleted = None
                      /\ \A q \in Requests : request'[q] # None /\ request'[q].id = request'[s].id => q = s
    BY <1>1 DEF Made, Kept
  <2>1. s # r /\ Making(s) /\ request'[s] = request[s]
    BY <1>2 DEF Making
  <2>2. request[s].id # request[r].id /\ request[s].id \in VoiceIds
    BY <1>1, <2>1 DEF LifeInv, Made, Making, TypeOK, Working
  <2> QED BY <1>2, <1>3, <2>1, <2>2 DEF LifeInv, Made, Kept
<1>7. Meant' /\ Loaded'
  BY <1>1, <1>2, <1>3 DEF LifeInv, Meant, Loaded, Kept, TypeOK, Working
<1>8. Unheard'
  <2> SUFFICES ASSUME NEW v \in VoiceIds, ~ Kept(v)', ~ Expected(v)'
               PROVE  Found(v) = None
    BY <1>1 DEF Unheard, Found, Expired
  <2>1. CASE Making(r) /\ request[r].id = v
    BY <1>1, <1>3, <2>1 DEF LifeInv, Made, Kept, Found
  <2>2. CASE ~ (Making(r) /\ request[r].id = v)
    <3>1. ~ Expected(v)
      BY <1>2, <2>2 DEF Expected, Making
    <3> QED BY <1>1, <1>3, <3>1 DEF LifeInv, Unheard, Kept
  <2> QED BY <2>1, <2>2
<1>9. ASSUME NEW v \in VoiceIds PROVE Turn(v)
  <2>1. Life(v) = IF Kept(v) THEN Stage(records[v]) ELSE Absent(v)
    BY <1>1, LifeOf DEF Serving
  <2>2. Life(v)' = IF Kept(v)' THEN Stage(records'[v]) ELSE Absent(v)'
    BY <1>1, LifeAfter DEF Serving
  <2>3. CASE v # request[r].id
    <3>1. (Expected(v)' <=> Expected(v)) /\ records'[v] = records[v] /\ (Kept(v)' <=> Kept(v))
      BY <1>3, <1>4, <1>5, <2>3 DEF Kept
    <3> QED BY <1>1, <2>1, <2>2, <3>1 DEF Turn, Absent
  <2>4. CASE v = request[r].id /\ WriteFails(r)
    <3>1. records'[v] = records[v] /\ (Kept(v)' <=> Kept(v))
      BY <1>1, <2>4 DEF Kept
    <3> QED BY <1>1, <1>4, <2>1, <2>2, <3>1 DEF Turn, Absent, Store!Course
  <2>5. CASE v = request[r].id /\ Stored(r)
    <3>1. Life(v)' = Stage(request[r].voice)
      BY <1>3, <2>2, <2>5 DEF Kept
    <3>2. CASE Making(r)
      <4>1. Life(v) = "unborn" /\ request[r].voice.deleted = None
        BY <1>1, <2>1, <2>5, <3>2 DEF LifeInv, Made, Expected, Absent
      <4> QED BY <3>1, <4>1 DEF Turn, Store!Course, Stage
    <3>3. CASE ~ Making(r)
      <4>1. Life(v) = Stage(records[v])
        BY <1>1, <2>1, <2>5, <3>3 DEF LifeInv, Meant, Making
      <4> QED BY <3>1, <4>1 DEF Turn, Store!Course, Stage
    <3> QED BY <3>2, <3>3
  <2> QED BY <2>3, <2>4, <2>5
<1> QED
  BY <1>6, <1>7, <1>8, <1>9 DEF LifeInv

(* The gateway's own steps. A kill leaves to a voice what its sidecar says,  *)
(* if it says anything.                                                      *)
LEMMA LifeCrash ==
    ASSUME TypeOK, PairInv, LifeInv, Crash
    PROVE  LifeInv' /\ \A v \in VoiceIds : Turn(v)
<1>1. /\ ~ up' /\ purging' = {} /\ side' = side /\ used' = used /\ clock' = clock
      /\ \A r \in Requests : request'[r] = None
  BY DEF Crash, disk
<1>2. /\ \A v \in VoiceIds : Kept(v) \/ Found(v) # None => v \in used
      /\ \A s \in Requests : request[s] # None => request[s].id \in used
      /\ ~ up => \A r \in Requests : request[r] = None
  BY DEF PairInv, IdsUsed, Quiet, Found
<1>3. \A v \in VoiceIds : ~ Expected(v)'
  BY <1>1 DEF Expected, Making
<1>4. LifeInv'
  BY <1>1 DEF LifeInv, Made, Meant, Unheard, Loaded, Making
<1>5. ASSUME NEW v \in VoiceIds PROVE Turn(v)
  <2>1. Life(v)' = IF Found(v) # None THEN Stage(Found(v))
                   ELSE IF v \notin used THEN "unborn" ELSE "purged"
    <3>1. Found(v)' = Found(v)
      BY <1>1 DEF Found, Expired
    <3> QED BY <1>1, <1>3, <3>1, LifeAfter DEF Absent, Serving
  <2>2. CASE ~ Serving
    <3>1. Life(v) = IF Found(v) # None THEN Stage(Found(v)) ELSE Absent(v)
      BY <2>2, LifeOf
    <3>2. ~ Expected(v)
      BY <1>2, <2>2 DEF Expected, Making, Serving
    <3> QED BY <2>1, <3>1, <3>2 DEF Turn, Absent
  <2>3. CASE Serving /\ Kept(v) /\ v \notin purging
    <3>1. Life(v) = Stage(records[v]) /\ v \in used
      BY <1>2, <2>3, LifeOf
    <3> QED BY <2>1, <3>1 DEF Turn, Store!Course, Stage
  <2>4. CASE Serving /\ ~ (Kept(v) /\ v \notin purging) /\ Expected(v)
    <3>1. Life(v) = "unborn"
      BY <2>4, LifeOf DEF Absent
    <3>2. PICK r \in Requests : Making(r) /\ request[r].id = v
      BY <2>4 DEF Expected
    <3>3. v \in used /\ (Found(v) # None => Found(v).deleted = None)
      BY <1>2, <3>2 DEF LifeInv, Made, Making, Found
    <3> QED BY <2>1, <3>1, <3>3 DEF Turn, Store!Course, Stage
  <2>5. CASE Serving /\ ~ (Kept(v) /\ v \notin purging) /\ ~ Expected(v)
    <3>1. Life(v) = (IF v \notin used THEN "unborn" ELSE "purged")
      BY <2>5, LifeOf DEF Absent
    <3>2. Found(v) = None
      BY <2>5 DEF LifeInv, Unheard, Loaded, PairInv, PurgedExpired, Settled, Found, Serving
    <3> QED BY <2>1, <3>1, <3>2 DEF Turn
  <2> QED BY <2>2, <2>3, <2>4, <2>5
<1> QED
  BY <1>4, <1>5

LEMMA LifeLoad ==
    ASSUME TypeOK, PairInv, LifeInv, Load
    PROVE  LifeInv' /\ \A v \in VoiceIds : Turn(v)
<1>1. /\ ~ up /\ purging = {} /\ up' = (purging' = {})
      /\ side' = side /\ used' = used /\ request' = request /\ clock' = clock
      /\ purging' = {v \in VoiceIds : Valid(side[v]) /\ Expired(side[v])}
      /\ \A v \in VoiceIds : records'[v] = IF Valid(side[v]) THEN side[v] ELSE None
  BY DEF Load, disk
<1>2. \A r \in Requests : request[r] = None
  BY <1>1 DEF PairInv, Quiet
<1>3. \A v \in VoiceIds : ~ Expected(v) /\ ~ Expected(v)'
  BY <1>1, <1>2 DEF Expected, Making
<1>4. \A v \in VoiceIds : Valid(side[v]) => side[v] # None
  BY MarksAssumption DEF Valid
<1>5. \A v \in VoiceIds : Found(v)' = Found(v)
  BY <1>1 DEF Found, Expired
<1>6. \A v \in VoiceIds : ~ Kept(v)' => Found(v)' = None
  BY <1>1, <1>4, <1>5 DEF Kept, Found
<1>7. LifeInv'
  BY <1>1, <1>2, <1>6 DEF LifeInv, Made, Meant, Unheard, Loaded, Making
<1>8. ASSUME NEW v \in VoiceIds PROVE Turn(v)
  <2>1. Life(v) = IF Found(v) # None THEN Stage(Found(v)) ELSE Absent(v)
    BY <1>1, LifeOf DEF Serving
  <2>2. Life(v)' = IF Kept(v)' /\ v \notin purging' THEN Stage(records'[v]) ELSE Absent(v)'
    BY <1>1, LifeAfter DEF Serving
  <2>3. Absent(v)' = Absent(v)
    BY <1>1, <1>3 DEF Absent
  <2>4. CASE Valid(side[v]) /\ ~ Expired(side[v])
    <3>1. Found(v) = side[v] /\ Found(v) # None
      BY <1>4, <2>4 DEF Found
    <3>2. Kept(v)' /\ v \notin purging' /\ records'[v] = side[v]
      BY <1>1, <1>4, <2>4 DEF Kept
    <3> QED BY <2>1, <2>2, <3>1, <3>2 DEF Turn
  <2>5. CASE ~ (Valid(side[v]) /\ ~ Expired(side[v]))
    <3>1. Found(v) = None
      BY <2>5 DEF Found
    <3>2. ~ (Kept(v)' /\ v \notin purging')
      BY <1>1, <2>5 DEF Kept
    <3> QED BY <2>1, <2>2, <2>3, <3>1, <3>2 DEF Turn
  <2> QED BY <2>4, <2>5
<1> QED
  BY <1>7, <1>8

LEMMA LifePurge ==
    ASSUME TypeOK, PairInv, LifeInv, NEW id \in VoiceIds, Purge(id) \/ PurgeFails(id)
    PROVE  LifeInv' /\ \A v \in VoiceIds : Turn(v)
<1>1. /\ used' = used /\ request' = request /\ clock' = clock
      /\ ~ up /\ up' = (purging' = {})
      /\ id \in purging /\ purging' \in {purging, purging \ {id}} /\ purging \subseteq VoiceIds
      /\ \A v \in VoiceIds \ {id} : side'[v] = side[v] /\ records'[v] = records[v]
      /\ records'[id] = None /\ side'[id] \in {side[id], None}
  BY DEF Purge, PurgeFails, TypeOK, disk
<1>2. \A r \in Requests : request[r] = None
  BY <1>1 DEF PairInv, Quiet
<1>3. \A v \in VoiceIds : ~ Expected(v) /\ ~ Expected(v)'
  BY <1>1, <1>2 DEF Expected, Making
<1>4. Found(id)' = None
  <2>1. ~ Valid(None) /\ (Valid(side[id]) => Expired(side[id]))
    BY <1>1, MarksAssumption DEF Valid, PairInv, PurgedExpired
  <2> QED BY <1>1, <2>1 DEF Found, Expired
<1>5. \A v \in VoiceIds \ purging' : ~ Kept(v)' => Found(v)' = None
  <2> SUFFICES ASSUME NEW v \in VoiceIds \ purging', ~ Kept(v)', v # id PROVE Found(v)' = None
    BY <1>4
  <2>1. v \notin purging /\ ~ Kept(v) /\ Found(v)' = Found(v)
    BY <1>1 DEF Kept, Found, Expired
  <2> QED BY <1>1, <2>1 DEF LifeInv, Loaded
<1>6. LifeInv'
  BY <1>1, <1>2, <1>5 DEF LifeInv, Made, Meant, Unheard, Loaded, Making
<1>7. ASSUME NEW v \in VoiceIds PROVE Turn(v)
  <2>1. Life(v) = IF Kept(v) /\ v \notin purging THEN Stage(records[v]) ELSE Absent(v)
    BY <1>1, LifeOf DEF Serving
  <2>2. Life(v)' = IF Kept(v)' /\ v \notin purging' THEN Stage(records'[v]) ELSE Absent(v)'
    BY <1>1, LifeAfter DEF Serving
  <2>3. Absent(v)' = Absent(v)
    BY <1>1, <1>3 DEF Absent
  <2>4. CASE v # id
    <3>1. /\ records'[v] = records[v] /\ (Kept(v)' <=> Kept(v))
          /\ (v \in purging' <=> v \in purging)
      BY <1>1, <2>4 DEF Kept
    <3> QED BY <2>1, <2>2, <2>3, <3>1 DEF Turn
  <2>5. CASE v = id
    <3>1. ~ Kept(v)' /\ v \in purging
      BY <1>1, <2>5 DEF Kept
    <3> QED BY <2>1, <2>2, <2>3, <3>1 DEF Turn
  <2> QED BY <2>4, <2>5
<1> QED
  BY <1>6, <1>7

(* Time only ever closes the window of a voice that is deleted.              *)
LEMMA LifeTick ==
    ASSUME TypeOK, PairInv, LifeInv, Tick
    PROVE  LifeInv' /\ \A v \in VoiceIds : Turn(v)
<1>1. /\ side' = side /\ records' = records /\ used' = used /\ request' = request
      /\ up' = up /\ purging' = purging /\ clock' = clock + 1
  BY DEF Tick, disk
<1>2. \A v \in VoiceIds : Expected(v)' <=> Expected(v)
  BY <1>1 DEF Expected, Making
<1>3. ASSUME NEW v \in VoiceIds
      PROVE  /\ Found(v)' = Found(v) \/ (Found(v)' = None /\ Found(v) # None)
             /\ Found(v)' # Found(v) => Found(v).deleted # None
  <2>1. Valid(side[v]) /\ Expired(side[v]) => Expired(side[v])'
    BY <1>1, LaterExpired DEF Valid
  <2>2. Valid(side[v]) => side[v] # None
    BY MarksAssumption DEF Valid
  <2>3. Expired(side[v])' => side[v].deleted # None
    BY <1>1 DEF Expired
  <2> QED BY <1>1, <2>1, <2>2, <2>3 DEF Found
<1>4. \A v \in VoiceIds : Found(v) = None => Found(v)' = None
  BY <1>3
<1>5. LifeInv'
  BY <1>1, <1>2, <1>4 DEF LifeInv, Made, Meant, Unheard, Loaded, Making, Kept
<1>6. ASSUME NEW v \in VoiceIds PROVE Turn(v)
  <2>1. Absent(v)' = Absent(v)
    BY <1>1, <1>2 DEF Absent
  <2>2. CASE Serving
    <3>1. Serving' /\ (Kept(v)' <=> Kept(v))
      BY <1>1, <2>2 DEF Serving, Kept
    <3> QED BY <1>1, <2>1, <2>2, <3>1, LifeOf, LifeAfter DEF Turn
  <2>3. CASE ~ Serving
    <3>1. /\ Life(v) = IF Found(v) # None THEN Stage(Found(v)) ELSE Absent(v)
          /\ Life(v)' = IF Found(v)' # None THEN Stage(Found(v)') ELSE Absent(v)'
      BY <1>1, <2>3, LifeOf, LifeAfter DEF Serving
    <3>2. Found(v) # None => Absent(v) = "purged"
      BY <2>3 DEF Absent, Found, PairInv, IdsUsed, Quiet, Serving, Expected, Making
    <3>3. CASE Found(v)' = Found(v)
      BY <2>1, <3>1, <3>3 DEF Turn
    <3>4. CASE Found(v)' # Found(v)
      <4>1. Life(v) = "deleted" /\ Life(v)' = "purged"
        BY <1>3, <2>1, <3>1, <3>2, <3>4 DEF Stage
      <4> QED BY <4>1 DEF Turn, Store!Course
    <3> QED BY <3>3, <3>4
  <2> QED BY <2>2, <2>3
<1> QED
  BY <1>5, <1>6

LEMMA LifeStill ==
    ASSUME LifeInv, UNCHANGED vars
    PROVE  LifeInv' /\ \A v \in VoiceIds : Turn(v)
<1>1. LifeInv'
  BY DEF vars, LifeInv, Made, Meant, Unheard, Loaded, Making, Expected, Kept, Found, Expired
<1>2. \A v \in VoiceIds : Life(v)' = Life(v)
  BY DEF vars, Life, Known, Found, Expired, Handling
<1> QED
  BY <1>1, <1>2 DEF Turn

LEMMA LifeStep ==
    ASSUME TypeOK, PairInv, LifeInv, [Next]_vars
    PROVE  LifeInv' /\ \A v \in VoiceIds : Turn(v)
<1>1. ASSUME NEW r \in Requests, Handler(r) PROVE LifeInv' /\ \A v \in VoiceIds : Turn(v)
  BY <1>1, HandlerShape, LifeAccept, LifeGoto, LifeLeave
<1> QED
  BY <1>1, LifeTick, LifeStill, LifeCrash, LifeLoad, LifePurge DEF Next, Step

LEMMA InitLife == Init => LifeInv /\ Store!LifeInit
<1> SUFFICES ASSUME Init PROVE LifeInv /\ Store!LifeInit
  OBVIOUS
<1>1. /\ up /\ used = {} /\ \A r \in Requests : request[r] = None
      /\ \A v \in VoiceIds : ~ Kept(v) /\ ~ Valid(side[v])
  BY MarksAssumption DEF Init, Kept, Valid
<1>2. LifeInv
  BY <1>1 DEF LifeInv, Made, Meant, Unheard, Loaded, Making, Found
<1>3. \A v \in VoiceIds : Life(v) = "unborn"
  BY <1>1, LifeOf DEF Absent, Serving
<1> QED
  BY <1>2, <1>3 DEF Store!LifeInit

(* The files, the index and the handlers of the store implement the life of  *)
(* a voice that everything else takes them for (voices.ts): whatever meets,  *)
(* fails, is refused by the disk or is killed at any instant, in the middle  *)
(* of the rewrite of a sidecar too, a voice begins in the list and not among *)
(* the deleted, and what is once gone never comes back, though the disk      *)
(* refused to remove its files. A voice that was not deleted may be lost:    *)
(* the life allows it what a kill or an emptied transcript does to it.       *)
THEOREM StoreImplementsLife == Spec => Store!LifeSpec
<1> DEFINE lives == [id \in VoiceIds |-> Life(id)]
<1> DEFINE I == TypeOK /\ PairInv /\ LifeInv
<1>1. Init => I /\ Store!LifeInit
  BY InitTypes, InitPair, InitLife
<1>2. I /\ [Next]_vars => I' /\ [Store!LifeNext]_lives
  <2> SUFFICES ASSUME I, [Next]_vars
               PROVE  I' /\ Store!LifeNext
    OBVIOUS
  <2>1. LifeInv' /\ \A v \in VoiceIds : Turn(v)
    BY LifeStep
  <2>2. TypeOK' /\ PairInv'
    BY TypeStep, PairStep
  <2>3. \A v \in VoiceIds : Life(v)' \in {"unborn", "live", "deleted", "purged"}
    BY LifeAfter DEF Stage, Absent
  <2>4. Store!LifeNext
    BY <2>1, <2>3 DEF Store!LifeNext, Turn
  <2> QED BY <2>1, <2>2, <2>4
<1> QED
  BY <1>1, <1>2, PTL DEF Spec, Store!LifeSpec

-----------------------------------------------------------------------------
(* The library as a browser shows it.                                        *)

CallSet == [op : {"none", "delete", "restore", "list"},
            at : {"none", "sent", "done", "missing", "failed"},
            voice : Voices \cup {NoVoice}, seen : SUBSET Voices, touched : SUBSET Voices]

(* what a call in flight is about, and how far it may be *)
Formed(k) ==
    /\ k.op = "none" => k.at = "none"
    /\ k.op = "list" => k.voice = NoVoice /\ k.at \in {"sent", "done", "failed"}
    /\ k.op \in {"delete", "restore"} =>
          k.voice \in Voices /\ k.at \in {"sent", "done", "missing", "failed"}
    /\ k.op = "delete" => k.voice \in k.seen

IsLive(v) == held[v] = "live"
About(c, v) == Open(c) /\ call[c].voice = v

(* what the answer to a refresh says of the voices nothing happened to *)
Current(c) ==
    call[c].op = "list" =>
        \A v \in Voices \ call[c].touched :
            /\ ~ Busy(v)
            /\ call[c].at = "done" => (v \in call[c].seen <=> IsLive(v))

(* a voice nothing blurred: one call is about it, which says how the list    *)
(* and the gateway differ, or none is and they agree                         *)
Clear(v) ==
    v \notin blurred =>
        /\ ~ Busy(v) => (v \in list <=> IsLive(v))
        /\ \A c \in Calls : About(c, v) =>
              /\ \A d \in Calls : About(d, v) => d = c
              /\ call[c].op = "delete" =>
                    v \notin list /\ (call[c].at \in {"sent", "failed"} <=> IsLive(v))
              /\ call[c].op = "restore" =>
                    v \in list /\ (call[c].at = "done" <=> IsLive(v))

(* the voice of the strip can be had back, or its delete will take the strip *)
(* away                                                                      *)
Restorable ==
    undo # NoVoice =>
        \/ held[undo] \in {"deleted", "live"}
        \/ \E c \in Calls : /\ call[c].op = "delete" /\ call[c].voice = undo
                            /\ call[c].at \in {"sent", "missing", "failed"}

Remembered == chosen # NoVoice => pick.voice = chosen

ShownInv ==
    /\ LibraryTypeOK
    /\ \A c \in Calls : Formed(call[c]) /\ Current(c)
    /\ \A v \in Voices : Clear(v)
    /\ Restorable /\ Remembered

LEMMA LibraryTypes ==
    /\ LibraryTypeOK <=>
          /\ held \in [Voices -> {"unborn", "live", "deleted", "purged"}]
          /\ list \subseteq Voices /\ blurred \subseteq Voices
          /\ undo \in Voices \cup {NoVoice} /\ selected \in Voices \cup {NoVoice}
          /\ chosen \in Voices \cup {NoVoice}
          /\ pick \in {Described} \cup {Saved(v) : v \in Voices \cup {NoVoice}}
          /\ call \in [Calls -> CallSet]
          /\ others \in Nat
    /\ NoVoice \notin Voices
  BY LibraryAssumption DEF LibraryTypeOK, CallSet, Voices

LEMMA NoCallFields ==
    /\ NoCall \in CallSet /\ Formed(NoCall)
    /\ NoCall.op = "none" /\ NoCall.at = "none" /\ NoCall.voice = NoVoice
    /\ NoCall.seen = {} /\ NoCall.touched = {}
  BY DEF NoCall, CallSet, Formed

LEMMA TouchFields ==
    ASSUME NEW calls \in [Calls -> CallSet], NEW vs \in SUBSET Voices
    PROVE  /\ Touch(calls, vs) \in [Calls -> CallSet]
           /\ \A d \in Calls :
                 /\ Touch(calls, vs)[d].op = calls[d].op /\ Touch(calls, vs)[d].at = calls[d].at
                 /\ Touch(calls, vs)[d].voice = calls[d].voice /\ Touch(calls, vs)[d].seen = calls[d].seen
                 /\ calls[d].touched \subseteq Touch(calls, vs)[d].touched
                 /\ calls[d].op = "list" => vs \subseteq Touch(calls, vs)[d].touched
<1>1. PICK after : after = Touch(calls, vs)
  OBVIOUS
<1>2. after = [c \in Calls |-> IF calls[c].op = "list"
                               THEN [calls[c] EXCEPT !.touched = calls[c].touched \cup vs] ELSE calls[c]]
  BY <1>1 DEF Touch
<1>3. ASSUME NEW d \in Calls
      PROVE  /\ after[d] \in CallSet
             /\ after[d].op = calls[d].op /\ after[d].at = calls[d].at
             /\ after[d].voice = calls[d].voice /\ after[d].seen = calls[d].seen
             /\ calls[d].touched \subseteq after[d].touched
             /\ calls[d].op = "list" => vs \subseteq after[d].touched
  <2>1. PICK w : w = [calls[d] EXCEPT !.touched = calls[d].touched \cup vs]
    OBVIOUS
  <2>2. after[d] = IF calls[d].op = "list" THEN w ELSE calls[d]
    BY <1>2, <2>1
  <2>3. calls[d] \in CallSet /\ calls[d].touched \cup vs \in SUBSET Voices
    BY DEF CallSet
  <2>4. /\ w \in CallSet /\ w.op = calls[d].op /\ w.at = calls[d].at /\ w.voice = calls[d].voice
        /\ w.seen = calls[d].seen /\ w.touched = calls[d].touched \cup vs
    BY <2>1, <2>3 DEF CallSet
  <2> QED BY <2>2, <2>3, <2>4
<1>4. after \in [Calls -> CallSet]
  BY <1>2, <1>3
<1> QED
  BY <1>1, <1>3, <1>4

-----------------------------------------------------------------------------
(* A call that goes on as it was; it may be told of one more change.         *)
Same(d) ==
    /\ call'[d].op = call[d].op /\ call'[d].at = call[d].at
    /\ call'[d].voice = call[d].voice /\ call'[d].seen = call[d].seen
    /\ call[d].touched \subseteq call'[d].touched

LEMMA FormedFrame ==
    ASSUME NEW d \in Calls, Formed(call[d]), Same(d)
    PROVE  Formed(call'[d])
  BY DEF Formed, Same

LEMMA CurrentFrame ==
    ASSUME NEW d \in Calls, Current(d), Same(d),
           call[d].op = "list" =>
              \A w \in Voices \ call'[d].touched : (Busy(w)' => Busy(w)) /\ (IsLive(w)' <=> IsLive(w))
    PROVE  Current(d)'
  BY DEF Current, Same

LEMMA ClearFrame ==
    ASSUME NEW v \in Voices, Clear(v), v \notin blurred' => v \notin blurred,
           IsLive(v)' <=> IsLive(v), v \in list' <=> v \in list,
           \A d \in Calls : Same(d) \/ (~ About(d, v) /\ ~ About(d, v)')
    PROVE  Clear(v)'
<1> SUFFICES ASSUME v \notin blurred' PROVE Clear(v)'
  BY DEF Clear
<1>1. \A d \in Calls : About(d, v)' <=> About(d, v)
  BY DEF About, Same, Open
<1>2. Busy(v)' <=> Busy(v)
  BY <1>1 DEF Busy, About
<1>3. ASSUME NEW d \in Calls, About(d, v)'
      PROVE  call'[d].op = call[d].op /\ call'[d].at = call[d].at
  BY <1>1, <1>3 DEF Same
<1> QED
  BY <1>1, <1>2, <1>3 DEF Clear

-----------------------------------------------------------------------------
(* A call that is made, and one that is over.                                *)
LEMMA SendFields ==
    ASSUME LibraryTypeOK, NEW c \in Calls, NEW op \in {"delete", "restore"}, NEW v \in Voices,
           NEW seen \in SUBSET Voices, Send(c, op, v, seen)
    PROVE  /\ call' \in [Calls -> CallSet] /\ ~ Open(c)
           /\ call'[c].op = op /\ call'[c].at = "sent" /\ call'[c].voice = v /\ call'[c].seen = seen
           /\ \A d \in Calls \ {c} : Same(d) /\ (call[d].op = "list" => v \in call'[d].touched)
           /\ blurred \subseteq blurred' /\ blurred' \subseteq blurred \cup {v}
           /\ v \notin blurred' => ~ Busy(v) /\ (op = "restore" => v \notin list)
<1>1. PICK begun : begun = [NoCall EXCEPT !.op = op, !.at = "sent", !.voice = v, !.seen = seen]
  OBVIOUS
<1>2. /\ begun \in CallSet /\ begun.op = op /\ begun.at = "sent" /\ begun.voice = v
      /\ begun.seen = seen
  BY <1>1 DEF NoCall, CallSet
<1>3. PICK mid : mid = [call EXCEPT ![c] = begun]
  OBVIOUS
<1>4. call \in [Calls -> CallSet] /\ mid \in [Calls -> CallSet] /\ mid[c] = begun
      /\ \A d \in Calls \ {c} : mid[d] = call[d]
  BY <1>2, <1>3, LibraryTypes
<1>5. call' = Touch(mid, {v}) /\ ~ Open(c)
  BY <1>1, <1>3 DEF Send
<1>6. /\ call' \in [Calls -> CallSet]
      /\ \A d \in Calls :
            /\ call'[d].op = mid[d].op /\ call'[d].at = mid[d].at
            /\ call'[d].voice = mid[d].voice /\ call'[d].seen = mid[d].seen
            /\ mid[d].touched \subseteq call'[d].touched
            /\ mid[d].op = "list" => v \in call'[d].touched
  BY <1>4, <1>5, TouchFields
<1>7. blurred' = IF Busy(v) \/ (op = "restore" /\ v \in list) THEN blurred \cup {v} ELSE blurred
  BY DEF Send
<1>8. \A d \in Calls \ {c} : Same(d) /\ (call[d].op = "list" => v \in call'[d].touched)
  BY <1>4, <1>6 DEF Same
<1>9. call'[c].op = op /\ call'[c].at = "sent" /\ call'[c].voice = v /\ call'[c].seen = seen
  BY <1>2, <1>4, <1>6
<1>10. /\ blurred \subseteq blurred' /\ blurred' \subseteq blurred \cup {v}
       /\ v \notin blurred' => ~ Busy(v) /\ (op = "restore" => v \notin list)
  BY <1>7
<1> QED
  BY <1>5, <1>6, <1>8, <1>9, <1>10

LEMMA CloseFields ==
    ASSUME LibraryTypeOK, NEW c \in Calls, NEW vs \in SUBSET Voices,
           \/ call' = [call EXCEPT ![c] = NoCall]
           \/ call' = Touch([call EXCEPT ![c] = NoCall], vs)
    PROVE  /\ call' \in [Calls -> CallSet] /\ call'[c].op = "none" /\ call'[c].at = "none"
           /\ \A d \in Calls \ {c} : Same(d)
           /\ \A v : Busy(v)' => Busy(v)
<1>1. PICK none : none = NoCall
  OBVIOUS
<1>2. PICK mid : mid = [call EXCEPT ![c] = none]
  OBVIOUS
<1>3. call \in [Calls -> CallSet] /\ mid \in [Calls -> CallSet] /\ mid[c] = none
      /\ \A d \in Calls \ {c} : mid[d] = call[d]
  BY <1>1, <1>2, LibraryTypes, NoCallFields
<1>4. /\ call' \in [Calls -> CallSet]
      /\ \A d \in Calls :
            /\ call'[d].op = mid[d].op /\ call'[d].at = mid[d].at
            /\ call'[d].voice = mid[d].voice /\ call'[d].seen = mid[d].seen
            /\ mid[d].touched \subseteq call'[d].touched
  <2>1. CASE call' = [call EXCEPT ![c] = NoCall]
    BY <1>1, <1>2, <1>3, <2>1
  <2>2. CASE call' = Touch([call EXCEPT ![c] = NoCall], vs)
    <3>1. call' = Touch(mid, vs)
      BY <1>1, <1>2, <2>2
    <3> QED BY <1>3, <3>1, TouchFields
  <2> QED BY <2>1, <2>2
<1>5. none.op = "none" /\ none.at = "none"
  BY <1>1, NoCallFields
<1>6. \A d \in Calls \ {c} : Same(d)
  BY <1>3, <1>4 DEF Same
<1>7. \A v : Busy(v)' => Busy(v)
  BY <1>3, <1>4, <1>5 DEF Busy, Open
<1> QED
  BY <1>3, <1>4, <1>5, <1>6, <1>7

-----------------------------------------------------------------------------
(* What one call adds to what is known of its voice and of the others.       *)
CallsInv == \A c \in Calls : Formed(call[c]) /\ Current(c)
ClearInv == \A v \in Voices : Clear(v)

LEMMA PressStep ==
    ASSUME LibraryTypeOK, CallsInv, ClearInv, NEW c \in Calls,
           NEW op \in {"delete", "restore"}, NEW v \in Voices, NEW seen \in SUBSET Voices,
           Send(c, op, v, seen), held' = held,
           \/ op = "delete" /\ v \in list /\ seen = list /\ list' = list \ {v}
           \/ op = "restore" /\ list' = list \cup {v}
    PROVE  CallsInv' /\ ClearInv'
<1>1. /\ call' \in [Calls -> CallSet] /\ ~ Open(c)
      /\ call'[c].op = op /\ call'[c].at = "sent" /\ call'[c].voice = v /\ call'[c].seen = seen
      /\ \A d \in Calls \ {c} : Same(d) /\ (call[d].op = "list" => v \in call'[d].touched)
      /\ blurred \subseteq blurred' /\ blurred' \subseteq blurred \cup {v}
      /\ v \notin blurred' => ~ Busy(v) /\ (op = "restore" => v \notin list)
  BY SendFields
<1>2. \A w \in Voices \ {v} : Busy(w)' => Busy(w)
  BY <1>1 DEF Busy, Open, Same
<1>3. ASSUME NEW d \in Calls PROVE Formed(call'[d]) /\ Current(d)'
  <2>1. CASE d = c
    BY <1>1, <2>1 DEF Formed, Current
  <2>2. CASE d # c
    <3>1. Formed(call'[d])
      BY <1>1, <2>2, FormedFrame DEF CallsInv
    <3>2. \A w : IsLive(w)' <=> IsLive(w)
      BY DEF IsLive
    <3>3. call[d].op = "list" => \A w \in Voices \ call'[d].touched : Busy(w)' => Busy(w)
      BY <1>1, <1>2, <2>2
    <3>4. Current(d) /\ Same(d)
      BY <1>1, <2>2 DEF CallsInv
    <3>5. Current(d)'
      BY <3>2, <3>3, <3>4, CurrentFrame
    <3> QED BY <3>1, <3>5
  <2> QED BY <2>1, <2>2
<1>4. ASSUME NEW w \in Voices, w # v PROVE Clear(w)'
  <2>1. \A d \in Calls : Same(d) \/ (~ About(d, w) /\ ~ About(d, w)')
    BY <1>1, <1>4 DEF About
  <2>2. w \in list' <=> w \in list
    BY <1>4
  <2> QED BY <1>1, <1>4, <2>1, <2>2, ClearFrame DEF ClearInv, IsLive
<1>5. Clear(v)'
  <2> SUFFICES ASSUME v \notin blurred' PROVE Clear(v)'
    BY DEF Clear
  <2>1. v \notin blurred /\ ~ Busy(v) /\ (op = "restore" => v \notin list)
    BY <1>1
  <2>2. \A d \in Calls : About(d, v)' <=> d = c
    BY <1>1, <2>1 DEF About, Open, Busy, Same
  <2>3. v \in list <=> IsLive(v)
    BY <2>1 DEF ClearInv, Clear
  <2>4. IsLive(v)' <=> IsLive(v)
    BY DEF IsLive
  <2>5. Busy(v)'
    BY <1>1 DEF Busy, Open
  <2>6. /\ op = "delete" => v \notin list' /\ IsLive(v)'
        /\ op = "restore" => v \in list' /\ ~ IsLive(v)'
    BY <2>1, <2>3, <2>4
  <2> QED BY <1>1, <2>2, <2>5, <2>6 DEF Clear
<1> QED
  BY <1>3, <1>4, <1>5 DEF CallsInv, ClearInv

LEMMA RefreshStep ==
    ASSUME LibraryTypeOK, CallsInv, ClearInv, NEW c \in Calls, Refresh(c)
    PROVE  CallsInv' /\ ClearInv' /\ call' \in [Calls -> CallSet]
<1>0. PICK busy : busy = {v \in Voices : Busy(v)}
  OBVIOUS
<1>1. PICK new : new = [NoCall EXCEPT !.op = "list", !.at = "sent", !.touched = busy]
  OBVIOUS
<1>2. /\ new \in CallSet /\ new.op = "list" /\ new.at = "sent" /\ new.voice = NoVoice
      /\ new.touched = busy
  <2>1. busy \in SUBSET Voices
    BY <1>0
  <2> QED BY <1>1, <2>1 DEF NoCall, CallSet
<1>3. /\ call' = [call EXCEPT ![c] = new] /\ ~ Open(c)
      /\ UNCHANGED <<held, list, blurred>>
  BY <1>0, <1>1 DEF Refresh
<1>4. /\ call \in [Calls -> CallSet] /\ call' \in [Calls -> CallSet] /\ call'[c] = new
      /\ \A d \in Calls \ {c} : call'[d] = call[d]
  BY <1>2, <1>3, LibraryTypes
<1>5. \A d \in Calls \ {c} : Same(d)
  BY <1>4 DEF Same
<1>6. \A v \in Voices : Busy(v)' => Busy(v)
  BY <1>2, <1>4, LibraryTypes DEF Busy, Open
<1>7. \A v : IsLive(v)' <=> IsLive(v)
  BY <1>3 DEF IsLive
<1>8. ASSUME NEW d \in Calls PROVE Formed(call'[d]) /\ Current(d)'
  <2>1. CASE d = c
    <3>1. Formed(call'[d])
      BY <1>2, <1>4, <2>1 DEF Formed
    <3>2. Current(d)'
      BY <1>0, <1>2, <1>4, <1>6, <2>1 DEF Current
    <3> QED BY <3>1, <3>2
  <2>2. CASE d # c
    BY <1>5, <1>6, <1>7, <2>2, FormedFrame, CurrentFrame DEF CallsInv
  <2> QED BY <2>1, <2>2
<1>9. ASSUME NEW v \in Voices PROVE Clear(v)'
  <2>1. ~ About(c, v) /\ ~ About(c, v)'
    BY <1>2, <1>3, <1>4, LibraryTypes DEF About
  <2> QED BY <1>3, <1>5, <1>7, <2>1, ClearFrame DEF ClearInv
<1> QED
  BY <1>4, <1>8, <1>9 DEF CallsInv, ClearInv

(* Nobody hears of what a purge, another viewer or the strip change but the  *)
(* voices they name.                                                         *)
LEMMA ElsewhereStep ==
    ASSUME LibraryTypeOK, CallsInv, ClearInv, NEW v \in Voices,
           \/ PurgeDeleted(v)
           \/ Elsewhere(v, "live") \/ Elsewhere(v, "deleted")
    PROVE  CallsInv' /\ ClearInv' /\ call' \in [Calls -> CallSet]
<1>1. /\ call \in [Calls -> CallSet] /\ {v} \in SUBSET Voices
      /\ held \in [Voices -> {"unborn", "live", "deleted", "purged"}]
  BY LibraryTypes
<1>2. /\ call' = call \/ call' = Touch(call, {v})
      /\ list' = list
      /\ blurred' \in {blurred, blurred \cup {v}}
  BY DEF PurgeDeleted, Elsewhere
<1>3. /\ call' \in [Calls -> CallSet] /\ \A d \in Calls : Same(d)
      /\ call' = Touch(call, {v}) => \A d \in Calls : call[d].op = "list" => v \in call'[d].touched
  BY <1>1, <1>2, TouchFields DEF Same
<1>4. \A w \in Voices : w # v => (IsLive(w)' <=> IsLive(w))
  BY <1>1 DEF PurgeDeleted, Elsewhere, IsLive
<1>5. \A w : Busy(w)' => Busy(w)
  BY <1>3 DEF Busy, Open, Same
<1>6. (IsLive(v)' <=> IsLive(v)) \/ (call' = Touch(call, {v}) /\ v \in blurred')
  BY <1>1 DEF PurgeDeleted, Elsewhere, IsLive
<1>7. ASSUME NEW d \in Calls PROVE Formed(call'[d]) /\ Current(d)'
  <2>1. call[d].op = "list" => \A w \in Voices \ call'[d].touched : IsLive(w)' <=> IsLive(w)
    BY <1>3, <1>4, <1>6
  <2> QED BY <1>3, <1>5, <2>1, FormedFrame, CurrentFrame DEF CallsInv
<1>8. ASSUME NEW w \in Voices PROVE Clear(w)'
  <2>1. CASE w \in blurred'
    BY <2>1 DEF Clear
  <2>2. CASE w \notin blurred'
    <3>1. w \notin blurred /\ (IsLive(w)' <=> IsLive(w)) /\ list' = list
      BY <1>2, <1>4, <1>6, <2>2 DEF PurgeDeleted, Elsewhere
    <3> QED BY <1>3, <3>1, ClearFrame DEF ClearInv
  <2> QED BY <2>1, <2>2
<1> QED
  BY <1>3, <1>7, <1>8 DEF CallsInv, ClearInv

LEMMA HandleStep ==
    ASSUME LibraryTypeOK, CallsInv, ClearInv, NEW c \in Calls, Handle(c)
    PROVE  CallsInv' /\ ClearInv' /\ call' \in [Calls -> CallSet]
           /\ held' \in [Voices -> {"unborn", "live", "deleted", "purged"}]
<1>0. /\ call \in [Calls -> CallSet] /\ held \in [Voices -> {"unborn", "live", "deleted", "purged"}]
      /\ NoVoice \notin Voices /\ call[c].at = "sent" /\ UNCHANGED <<list, blurred>>
  BY LibraryTypes DEF Handle
<1>1. PICK v, gone, after :
        /\ v = call[c].voice /\ gone = (v # NoVoice /\ held[v] = "purged")
        /\ after = IF call[c].op = "delete" THEN "deleted" ELSE "live"
  OBVIOUS
<1>2. PICK new : new = [call[c] EXCEPT !.at = IF gone THEN "missing" ELSE "done",
                                       !.seen = IF v = NoVoice THEN Live ELSE call[c].seen]
  OBVIOUS
<1>3. /\ held' = IF v = NoVoice \/ gone THEN held ELSE [held EXCEPT ![v] = after]
      /\ call' = [call EXCEPT ![c] = new]
  BY <1>0, <1>1, <1>2 DEF Handle
<1>4. /\ new \in CallSet /\ new.op = call[c].op /\ new.voice = v /\ new.touched = call[c].touched
      /\ new.at = (IF gone THEN "missing" ELSE "done")
      /\ new.seen = (IF v = NoVoice THEN Live ELSE call[c].seen)
  <2>1. Live \in SUBSET Voices /\ call[c] \in CallSet
    BY <1>0 DEF Live
  <2> QED BY <1>1, <1>2, <2>1 DEF CallSet
<1>5. /\ call' \in [Calls -> CallSet] /\ call'[c] = new
      /\ \A d \in Calls \ {c} : call'[d] = call[d]
  BY <1>0, <1>3, <1>4
<1>6. \A d \in Calls \ {c} : Same(d)
  BY <1>5 DEF Same
<1>7. /\ \A d \in Calls : call'[d].op = call[d].op /\ call'[d].voice = call[d].voice
      /\ \A w : (Busy(w)' <=> Busy(w)) /\ \A d \in Calls : About(d, w)' <=> About(d, w)
  BY <1>1, <1>4, <1>5 DEF Busy, Open, About
<1>8. Formed(call[c]) /\ Current(c)
  BY DEF CallsInv
<1>9. CASE call[c].op = "list"
  <2>1. v = NoVoice /\ ~ gone /\ held' = held
    BY <1>1, <1>3, <1>8, <1>9 DEF Formed
  <2>2. \A w : IsLive(w)' <=> IsLive(w)
    BY <2>1 DEF IsLive
  <2>3. Formed(new)
    BY <1>4, <1>9, <2>1 DEF Formed
  <2>4. \A w \in Voices : w \in Live <=> IsLive(w)
    BY DEF Live, IsLive
  <2>5. Current(c)'
    BY <1>4, <1>5, <1>7, <1>8, <2>1, <2>2, <2>4 DEF Current
  <2>6. \A d \in Calls : Formed(call'[d]) /\ Current(d)'
    BY <1>5, <1>6, <1>7, <2>2, <2>3, <2>5, FormedFrame, CurrentFrame DEF CallsInv
  <2>7. ASSUME NEW w \in Voices PROVE Clear(w)'
    <3>1. ~ About(c, w) /\ ~ About(c, w)'
      <4>1. call[c].voice # w /\ call'[c].voice # w
        BY <1>0, <1>1, <1>4, <1>5, <2>1
      <4> QED BY <4>1 DEF About
    <3>2. IsLive(w)' <=> IsLive(w)
      BY <2>2
    <3>3. \A d \in Calls : Same(d) \/ (~ About(d, w) /\ ~ About(d, w)')
      BY <1>6, <3>1
    <3>4. Clear(w) /\ blurred' = blurred /\ list' = list
      BY <1>0 DEF ClearInv
    <3> QED BY <3>2, <3>3, <3>4, ClearFrame
  <2> QED BY <1>5, <2>1, <2>6, <2>7, <1>0 DEF CallsInv, ClearInv
<1>10. CASE call[c].op # "list"
  <2>1. v \in Voices /\ call[c].op \in {"delete", "restore"} /\ About(c, v) /\ Busy(v)
    <3>1. call[c].op \in {"none", "delete", "restore"}
      BY <1>0, <1>10 DEF CallSet
    <3> QED BY <1>0, <1>1, <1>8, <3>1 DEF Formed, About, Open, Busy
  <2>2. /\ \A w \in Voices \ {v} : IsLive(w)' <=> IsLive(w)
        /\ gone <=> held[v] = "purged"
        /\ ~ gone => held'[v] = after
        /\ gone => held'[v] = "purged"
        /\ held' \in [Voices -> {"unborn", "live", "deleted", "purged"}]
    <3>1. after \in {"deleted", "live"}
      BY <1>1
    <3> QED BY <1>0, <1>1, <1>3, <2>1, <3>1 DEF IsLive
  <2>3. Formed(new) /\ Current(c)'
    BY <1>1, <1>4, <1>5, <1>8, <1>10, <2>1, <1>0 DEF Formed, Current
  <2>4. ASSUME NEW d \in Calls, d # c PROVE Formed(call'[d]) /\ Current(d)'
    <3>1. call[d].op = "list" => \A w \in Voices \ call'[d].touched : IsLive(w)' <=> IsLive(w)
      BY <1>5, <2>1, <2>2, <2>4 DEF CallsInv, Current
    <3> QED BY <1>6, <1>7, <2>4, <3>1, FormedFrame, CurrentFrame DEF CallsInv
  <2>5. ASSUME NEW w \in Voices, w # v PROVE Clear(w)'
    <3>1. ~ About(c, w) /\ ~ About(c, w)'
      BY <1>1, <1>7, <2>5 DEF About
    <3> QED BY <1>0, <1>6, <2>2, <2>5, <3>1, ClearFrame DEF ClearInv
  <2>6. Clear(v)'
    <3> SUFFICES ASSUME v \notin blurred' PROVE Clear(v)'
      BY DEF Clear
    <3>1. /\ \A d \in Calls : About(d, v) => d = c
          /\ call[c].op = "delete" => v \notin list /\ IsLive(v)
          /\ call[c].op = "restore" => v \in list /\ ~ IsLive(v)
      BY <1>0, <2>1 DEF ClearInv, Clear
    <3>2. call[c].op = "delete" => new.at = "done" /\ ~ IsLive(v)'
      BY <1>1, <1>4, <2>2, <3>1 DEF IsLive
    <3>3. call[c].op = "restore" => (new.at = "done" <=> IsLive(v)')
      BY <1>1, <1>4, <2>2, <3>1 DEF IsLive
    <3>4. Busy(v)' /\ \A d \in Calls : About(d, v)' => d = c
      BY <1>7, <2>1, <3>1
    <3> QED BY <1>0, <1>4, <1>5, <3>1, <3>2, <3>3, <3>4 DEF Clear
  <2> QED BY <1>5, <2>2, <2>3, <2>4, <2>5, <2>6 DEF CallsInv, ClearInv
<1> QED
  BY <1>9, <1>10

LEMMA FailStep ==
    ASSUME LibraryTypeOK, CallsInv, ClearInv, NEW c \in Calls, Fail(c)
    PROVE  CallsInv' /\ ClearInv' /\ call' \in [Calls -> CallSet]
<1>1. PICK new : new = [call[c] EXCEPT !.at = "failed"]
  OBVIOUS
<1>2. /\ call \in [Calls -> CallSet] /\ call[c] \in CallSet /\ call[c].at \in {"sent", "done"}
      /\ call' = [call EXCEPT ![c] = new] /\ UNCHANGED <<held, list>>
      /\ blurred' = IF call[c].at = "done" /\ call[c].voice # NoVoice
                    THEN blurred \cup {call[c].voice} ELSE blurred
  BY <1>1, LibraryTypes DEF Fail
<1>3. /\ new \in CallSet /\ new.op = call[c].op /\ new.voice = call[c].voice /\ new.at = "failed"
      /\ new.seen = call[c].seen /\ new.touched = call[c].touched
  BY <1>1, <1>2 DEF CallSet
<1>4. /\ call' \in [Calls -> CallSet] /\ call'[c] = new
      /\ \A d \in Calls \ {c} : call'[d] = call[d]
  BY <1>2, <1>3
<1>5. \A d \in Calls \ {c} : Same(d)
  BY <1>4 DEF Same
<1>6. \A w : /\ (Busy(w)' <=> Busy(w)) /\ (IsLive(w)' <=> IsLive(w))
             /\ \A d \in Calls : About(d, w)' <=> About(d, w)
  BY <1>2, <1>3, <1>4 DEF Busy, Open, About, IsLive
<1>7. Formed(call[c]) /\ Current(c)
  BY DEF CallsInv
<1>8. Formed(new)
  BY <1>2, <1>3, <1>7 DEF Formed
<1>9. Current(c)'
  BY <1>3, <1>4, <1>6, <1>7 DEF Current
<1>10. \A d \in Calls : Formed(call'[d]) /\ Current(d)'
  BY <1>4, <1>5, <1>6, <1>8, <1>9, FormedFrame, CurrentFrame DEF CallsInv
<1>11. ASSUME NEW w \in Voices PROVE Clear(w)'
  <2>1. CASE ~ About(c, w)
    BY <1>2, <1>5, <1>6, <2>1, ClearFrame DEF ClearInv
  <2>2. CASE About(c, w) /\ w \notin blurred'
    <3>1. w \notin blurred /\ call[c].at = "sent"
      BY <1>2, <2>2, LibraryTypes DEF About
    <3>2. /\ \A d \in Calls : About(d, w) => d = c
          /\ call[c].op = "delete" => w \notin list /\ IsLive(w)
          /\ call[c].op = "restore" => w \in list /\ ~ IsLive(w)
      BY <2>2, <3>1 DEF ClearInv, Clear
    <3>3. Busy(w)'
      BY <1>6, <2>2 DEF Busy, About
    <3> QED BY <1>2, <1>3, <1>4, <1>6, <3>2, <3>3 DEF Clear
  <2>3. CASE w \in blurred'
    BY <2>3 DEF Clear
  <2> QED BY <2>1, <2>2, <2>3
<1> QED
  BY <1>4, <1>10, <1>11 DEF CallsInv, ClearInv

(* The list as it is answered shows what the gateway holds of every voice    *)
(* nothing happened to since it was asked for.                               *)
LEMMA TakeListStep ==
    ASSUME LibraryTypeOK, CallsInv, ClearInv, NEW c \in Calls, TakeList(c)
    PROVE  CallsInv' /\ ClearInv' /\ call' \in [Calls -> CallSet]
<1>1. /\ call' \in [Calls -> CallSet] /\ call'[c].op = "none" /\ call'[c].at = "none"
      /\ \A d \in Calls \ {c} : Same(d)
      /\ \A v : Busy(v)' => Busy(v)
  BY CloseFields DEF TakeList
<1>2. /\ call[c].op = "list" /\ held' = held /\ call'[c] = NoCall
      /\ call[c].at = "done" => list' = call[c].seen /\ blurred' = call[c].touched
      /\ call[c].at # "done" => UNCHANGED <<list, blurred>>
  BY LibraryTypes DEF TakeList
<1>3. \A w : IsLive(w)' <=> IsLive(w)
  BY <1>2 DEF IsLive
<1>4. ASSUME NEW d \in Calls PROVE Formed(call'[d]) /\ Current(d)'
  <2>1. CASE d = c
    BY <1>2, <2>1, NoCallFields DEF Current
  <2>2. CASE d # c
    BY <1>1, <1>3, <2>2, FormedFrame, CurrentFrame DEF CallsInv
  <2> QED BY <2>1, <2>2
<1>5. ASSUME NEW w \in Voices PROVE Clear(w)'
  <2>1. CASE call[c].at = "done"
    <3> SUFFICES ASSUME w \notin blurred' PROVE Clear(w)'
      BY DEF Clear
    <3>1. ~ Busy(w) /\ (w \in list' <=> IsLive(w)')
      BY <1>2, <1>3, <2>1 DEF CallsInv, Current
    <3>2. ~ Busy(w)' /\ \A d \in Calls : ~ About(d, w)'
      BY <1>1, <3>1 DEF Busy, About
    <3> QED BY <3>1, <3>2 DEF Clear
  <2>2. CASE call[c].at # "done"
    <3>1. ~ About(c, w) /\ ~ About(c, w)'
      <4>1. call[c].voice = NoVoice /\ NoVoice \notin Voices
        BY <1>2, LibraryTypes DEF CallsInv, Formed
      <4> QED BY <1>1, <4>1 DEF About, Open
    <3> QED BY <1>1, <1>2, <1>3, <2>2, <3>1, ClearFrame DEF ClearInv
  <2> QED BY <2>1, <2>2
<1> QED
  BY <1>1, <1>4, <1>5 DEF CallsInv, ClearInv

(* The answer to a delete or a restore leaves its voice as the gateway has   *)
(* it; what a failed delete puts back may blur others.                       *)
LEMMA SettleStep ==
    ASSUME LibraryTypeOK, CallsInv, ClearInv, NEW c \in Calls, TakeDelete(c) \/ TakeRestore(c)
    PROVE  CallsInv' /\ ClearInv' /\ call' \in [Calls -> CallSet]
<1>0. PICK v : v = call[c].voice
  OBVIOUS
<1>1. /\ call[c].op \in {"delete", "restore"} /\ call[c].at \in {"done", "missing", "failed"}
      /\ Formed(call[c]) /\ v \in Voices /\ About(c, v)
  BY <1>0 DEF TakeDelete, TakeRestore, CallsInv, Formed, About, Open
<1>2. /\ call' \in [Calls -> CallSet] /\ call'[c].op = "none" /\ call'[c].at = "none"
      /\ \A d \in Calls \ {c} : Same(d)
      /\ \A w : Busy(w)' => Busy(w)
  BY <1>0, <1>1, CloseFields DEF TakeDelete, TakeRestore
<1>3. held' = held /\ \A w : IsLive(w)' <=> IsLive(w)
  BY DEF TakeDelete, TakeRestore, IsLive
<1>4. ASSUME NEW d \in Calls PROVE Formed(call'[d]) /\ Current(d)'
  <2>1. CASE d = c
    BY <1>2, <2>1 DEF Formed, Current
  <2>2. CASE d # c
    BY <1>2, <1>3, <2>2, FormedFrame, CurrentFrame DEF CallsInv
  <2> QED BY <2>1, <2>2
<1>5. ASSUME NEW w \in Voices, w # v PROVE Clear(w)'
  <2>1. ~ About(c, w) /\ ~ About(c, w)'
    BY <1>0, <1>2, <1>5 DEF About, Open
  <2>2. w \notin blurred' => w \notin blurred /\ (w \in list' <=> w \in list)
    <3>1. CASE TakeDelete(c) /\ call[c].at = "failed"
      BY <1>0, <1>5, <3>1 DEF TakeDelete, Difference
    <3>2. CASE TakeDelete(c) /\ call[c].at # "failed"
      BY <3>2 DEF TakeDelete
    <3>3. CASE TakeRestore(c)
      BY <1>0, <1>5, <3>3 DEF TakeRestore
    <3> QED BY <3>1, <3>2, <3>3
  <2>3. CASE w \in blurred'
    BY <2>3 DEF Clear
  <2>4. CASE w \notin blurred'
    BY <1>2, <1>3, <2>1, <2>2, <2>4, ClearFrame DEF ClearInv
  <2> QED BY <2>3, <2>4
<1>6. Clear(v)'
  <2> SUFFICES ASSUME v \notin blurred' PROVE Clear(v)'
    BY DEF Clear
  <2>1. v \notin blurred
    BY DEF TakeDelete, TakeRestore
  <2>2. /\ \A d \in Calls : About(d, v) => d = c
        /\ call[c].op = "delete" => v \notin list /\ (call[c].at = "failed" <=> IsLive(v))
        /\ call[c].op = "restore" => v \in list /\ (call[c].at = "done" <=> IsLive(v))
    BY <1>1, <2>1 DEF ClearInv, Clear
  <2>3. \A d \in Calls : ~ About(d, v)'
    BY <1>2, <2>2 DEF About, Open, Same
  <2>4. v \in list' <=> IsLive(v)'
    <3>1. CASE TakeDelete(c) /\ call[c].at = "failed"
      BY <1>0, <1>1, <1>3, <2>2, <3>1 DEF TakeDelete, Formed
    <3>2. CASE TakeDelete(c) /\ call[c].at # "failed"
      BY <1>3, <2>2, <3>2 DEF TakeDelete
    <3>3. CASE TakeRestore(c)
      BY <1>0, <1>3, <2>2, <3>3 DEF TakeRestore
    <3> QED BY <3>1, <3>2, <3>3
  <2>5. ~ Busy(v)'
    BY <2>3 DEF Busy, About
  <2> QED BY <2>3, <2>4, <2>5 DEF Clear
<1> QED
  BY <1>2, <1>4, <1>5, <1>6 DEF CallsInv, ClearInv

-----------------------------------------------------------------------------
(* The draft of Speak and the strip.                                         *)

LEMMA MaxOf ==
    ASSUME NEW S \in SUBSET Voices, S # {}
    PROVE  Max(S) \in S
<1>1. MaxVoices \in Nat
  BY LibraryAssumption
<1>2. PICK T : T = {MaxVoices + 1 - x : x \in S}
  OBVIOUS
<1>3. T \in SUBSET (1..MaxVoices) /\ T # {}
  <2>1. \A x \in S : MaxVoices + 1 - x \in 1..MaxVoices
    BY <1>1 DEF Voices
  <2> QED BY <1>2, <2>1
<1>4. PICK n \in T : \A m \in T : n <= m
  BY <1>1, <1>3, LeastOf
<1>5. PICK x \in S : n = MaxVoices + 1 - x
  BY <1>2, <1>4
<1>6. \A y \in S : x >= y
  <2>1. TAKE y \in S
  <2>2. n <= MaxVoices + 1 - y
    BY <1>2, <1>4
  <2>3. x \in Nat /\ y \in Nat
    BY <1>1 DEF Voices
  <2> QED BY <1>1, <1>5, <2>2, <2>3
<1> QED
  BY <1>6, Zenon DEF Max

LEMMA ResolvedType ==
    ASSUME LibraryTypeOK, NEW source \in {Described} \cup {Saved(v) : v \in Voices \cup {NoVoice}}
    PROVE  Resolved(source, list, selected) \in {Described} \cup {Saved(v) : v \in Voices \cup {NoVoice}}
<1>1. list \subseteq Voices /\ (list # {} => Max(list) \in Voices)
  BY MaxOf, LibraryTypes
<1>2. Fallback(list, selected) \in {Saved(v) : v \in Voices \cup {NoVoice}}
  BY <1>1 DEF Fallback
<1> QED
  BY <1>2 DEF Resolved

LEMMA RememberedStep ==
    ASSUME LibraryTypeOK, Remembered, LibraryNext
    PROVE  Remembered'
<1>1. CASE UNCHANGED <<pick, chosen>>
  BY <1>1 DEF Remembered
<1>2. CASE TypeInSpeak
  BY <1>2 DEF TypeInSpeak, Effective, Resolved, Remembered
<1>3. ASSUME NEW v \in Voices, LoadVariation(v) \/ \E s \in BOOLEAN : Choose(v, s) PROVE Remembered'
  BY <1>3 DEF LoadVariation, Choose, Saved, Remembered
<1>4. ASSUME NEW c \in Calls,
             \/ Refresh(c) \/ Undo(c) \/ Handle(c) \/ Fail(c)
             \/ TakeList(c) \/ TakeDelete(c) \/ TakeRestore(c)
             \/ \E v \in Voices : Delete(c, v)
      PROVE  UNCHANGED <<pick, chosen>>
  BY <1>4 DEF Refresh, Undo, Handle, Fail, TakeList, TakeDelete, TakeRestore, Delete
<1>5. ASSUME NEW v \in Voices, PurgeDeleted(v) \/ \E b \in {"live", "deleted"} : Elsewhere(v, b)
      PROVE  UNCHANGED <<pick, chosen>>
  BY <1>5 DEF PurgeDeleted, Elsewhere
<1>6. UndoCloses => UNCHANGED <<pick, chosen>>
  BY DEF UndoCloses
<1> QED
  BY <1>1, <1>2, <1>3, <1>4, <1>5, <1>6 DEF LibraryNext

(* The delete that will take the strip away.                                 *)
Withdraws(c) ==
    /\ call[c].op = "delete" /\ call[c].voice = undo
    /\ call[c].at \in {"sent", "missing", "failed"}

LEMMA StripFrame ==
    ASSUME Restorable, undo' \in {undo, NoVoice},
           undo # NoVoice /\ held[undo] \in {"deleted", "live"} => held'[undo] \in {"deleted", "live"},
           undo' = undo => \A c \in Calls : Withdraws(c) =>
              Withdraws(c)' \/ held'[undo] \in {"deleted", "live"}
    PROVE  Restorable'
<1> SUFFICES ASSUME undo' # NoVoice PROVE Restorable'
  BY DEF Restorable
<1>1. undo' = undo
  OBVIOUS
<1>2. CASE held[undo] \in {"deleted", "live"}
  BY <1>1, <1>2 DEF Restorable
<1>3. ASSUME NEW c \in Calls, Withdraws(c) PROVE Restorable'
  <2>1. CASE Withdraws(c)'
    BY <2>1 DEF Withdraws, Restorable
  <2>2. CASE held'[undo] \in {"deleted", "live"}
    BY <1>1, <2>2 DEF Restorable
  <2> QED BY <1>1, <1>3, <2>1, <2>2
<1> QED
  BY <1>1, <1>2, <1>3 DEF Restorable, Withdraws

LEMMA WithdrawsSame ==
    ASSUME NEW c \in Calls, Withdraws(c), Same(c), undo' = undo
    PROVE  Withdraws(c)'
  BY DEF Withdraws, Same

LEMMA StripStep ==
    ASSUME LibraryTypeOK, CallsInv, Restorable, LibraryNext
    PROVE  Restorable'
<1>0. /\ call \in [Calls -> CallSet] /\ held \in [Voices -> {"unborn", "live", "deleted", "purged"}]
      /\ list \subseteq Voices /\ undo \in Voices \cup {NoVoice} /\ NoVoice \notin Voices
  BY LibraryTypes
<1>1. ASSUME NEW c \in Calls, Refresh(c) PROVE Restorable'
  <2>1. ~ Open(c) /\ UNCHANGED <<held, undo>> /\ \A d \in Calls \ {c} : Same(d)
    BY <1>0, <1>1 DEF Refresh, Same
  <2>2. ~ Withdraws(c)
    BY <2>1 DEF Withdraws, Open
  <2> QED BY <2>1, <2>2, WithdrawsSame, StripFrame
<1>2. ASSUME NEW c \in Calls, NEW v \in Voices, Delete(c, v) PROVE Restorable'
  <2>1. call'[c].op = "delete" /\ call'[c].at = "sent" /\ call'[c].voice = v /\ undo' = v
    BY <1>0, <1>2, SendFields DEF Delete
  <2> QED BY <2>1 DEF Restorable
<1>3. ASSUME NEW c \in Calls, Undo(c) PROVE Restorable'
  BY <1>3 DEF Undo, Restorable
<1>4. CASE UndoCloses
  BY <1>4 DEF UndoCloses, Restorable
<1>5. ASSUME NEW c \in Calls, Handle(c) PROVE Restorable'
  <2>1. UNCHANGED undo
    BY <1>5 DEF Handle
  <2>2. undo # NoVoice /\ held[undo] \in {"deleted", "live"} => held'[undo] \in {"deleted", "live"}
    BY <1>0, <1>5 DEF Handle
  <2>3. \A d \in Calls \ {c} : Same(d)
    BY <1>0, <1>5 DEF Handle, Same
  <2>4. undo # NoVoice /\ Withdraws(c) => Withdraws(c)' \/ held'[undo] \in {"deleted", "live"}
    <3> SUFFICES ASSUME undo # NoVoice, Withdraws(c), held'[undo] \notin {"deleted", "live"}
                 PROVE  Withdraws(c)'
      OBVIOUS
    <3>1. /\ call[c].op = "delete" /\ call[c].voice = undo /\ undo \in Voices
      BY <1>0 DEF Withdraws
    <3>2. held[undo] = "purged"
      BY <1>0, <1>5, <3>1 DEF Handle
    <3>3. PICK seen : seen = IF call[c].voice = NoVoice THEN Live ELSE call[c].seen
      OBVIOUS
    <3>4. PICK new : new = [call[c] EXCEPT !.at = "missing", !.seen = seen]
      OBVIOUS
    <3>5. call' = [call EXCEPT ![c] = new]
      BY <1>0, <1>5, <3>1, <3>2, <3>3, <3>4 DEF Handle
    <3>6. call[c] \in CallSet
      BY <1>0
    <3>7. new.at = "missing" /\ new.op = "delete" /\ new.voice = undo
      BY <3>1, <3>4, <3>6 DEF CallSet
    <3> QED BY <1>0, <2>1, <3>5, <3>7 DEF Withdraws
  <2>5. CASE undo = NoVoice
    BY <2>1, <2>5 DEF Restorable
  <2>6. CASE undo # NoVoice
    <3>1. \A d \in Calls : Withdraws(d) => Withdraws(d)' \/ held'[undo] \in {"deleted", "live"}
      BY <2>1, <2>3, <2>4, <2>6, WithdrawsSame
    <3> QED BY <2>1, <2>2, <3>1, StripFrame
  <2> QED BY <2>5, <2>6
<1>6. ASSUME NEW c \in Calls, Fail(c) PROVE Restorable'
  <2>1. UNCHANGED <<held, undo>>
    BY <1>6 DEF Fail
  <2>2. \A d \in Calls \ {c} : Same(d)
    BY <1>0, <1>6 DEF Fail, Same
  <2>3. call'[c].op = call[c].op /\ call'[c].voice = call[c].voice /\ call'[c].at = "failed"
    BY <1>0, <1>6 DEF Fail, CallSet
  <2>4. Withdraws(c) => Withdraws(c)'
    BY <2>1, <2>3 DEF Withdraws
  <2> QED BY <2>1, <2>2, <2>4, WithdrawsSame, StripFrame
<1>7. ASSUME NEW c \in Calls, TakeList(c) \/ TakeRestore(c) PROVE Restorable'
  <2>1. UNCHANGED <<held, undo>> /\ call[c].op # "delete"
    BY <1>7 DEF TakeList, TakeRestore
  <2>2. \A d \in Calls \ {c} : Same(d)
    BY <1>7, CloseFields DEF TakeList, TakeRestore
  <2>3. ~ Withdraws(c)
    BY <2>1 DEF Withdraws
  <2> QED BY <2>1, <2>2, <2>3, WithdrawsSame, StripFrame
<1>8. ASSUME NEW c \in Calls, TakeDelete(c) PROVE Restorable'
  <2>1. held' = held /\ undo' = (IF call[c].at = "done" THEN undo ELSE NoVoice)
    BY <1>8 DEF TakeDelete
  <2>2. {call[c].voice} \in SUBSET Voices
    BY <1>8 DEF TakeDelete, CallsInv, Formed
  <2>3. \A d \in Calls \ {c} : Same(d)
    BY <1>8, <2>2, CloseFields DEF TakeDelete
  <2>4. undo' = undo => undo' = NoVoice \/ ~ Withdraws(c)
    BY <2>1 DEF Withdraws
  <2>5. CASE undo' = NoVoice
    BY <2>5 DEF Restorable
  <2>6. CASE undo' # NoVoice
    <3>1. undo' = undo /\ ~ Withdraws(c)
      BY <2>1, <2>4, <2>6
    <3> QED BY <2>1, <2>3, <3>1, WithdrawsSame, StripFrame
  <2> QED BY <2>5, <2>6
<1>9. ASSUME NEW v \in Voices, PurgeDeleted(v) \/ Elsewhere(v, "live") \/ Elsewhere(v, "deleted")
      PROVE  Restorable'
  <2>1. undo' = undo
    BY <1>9 DEF PurgeDeleted, Elsewhere
  <2>2. undo # NoVoice /\ held[undo] \in {"deleted", "live"} => held'[undo] \in {"deleted", "live"}
    BY <1>0, <1>9 DEF PurgeDeleted, Elsewhere
  <2>3. call' = call \/ call' = Touch(call, {v})
    BY <1>9 DEF PurgeDeleted, Elsewhere
  <2>4. \A d \in Calls : Same(d)
    BY <1>0, <2>3, TouchFields DEF Same
  <2> QED BY <2>1, <2>2, <2>4, WithdrawsSame, StripFrame
<1>10. CASE TypeInSpeak \/ \E v \in Voices : LoadVariation(v) \/ \E s \in BOOLEAN : Choose(v, s)
  <2>1. UNCHANGED <<held, undo, call>>
    BY <1>10 DEF TypeInSpeak, LoadVariation, Choose
  <2> QED BY <2>1 DEF Restorable
<1> QED
  BY <1>1, <1>2, <1>3, <1>4, <1>5, <1>6, <1>7, <1>8, <1>9, <1>10 DEF LibraryNext

-----------------------------------------------------------------------------
(* What is shown and drafted keeps its type.                                 *)
Rest ==
    /\ list \subseteq Voices /\ blurred \subseteq Voices /\ others \in Nat
    /\ {undo, selected, chosen} \subseteq Voices \cup {NoVoice}
    /\ pick \in {Described} \cup {Saved(v) : v \in Voices \cup {NoVoice}}

LEMMA RestStep ==
    ASSUME LibraryTypeOK, CallsInv, LibraryNext
    PROVE  Rest'
<1>0. Rest /\ call \in [Calls -> CallSet] /\ NoVoice \notin Voices
  BY LibraryTypes DEF Rest
<1>1. ASSUME NEW c \in Calls, Refresh(c) \/ Handle(c) PROVE Rest'
  BY <1>0, <1>1 DEF Refresh, Handle, Rest
<1>2. ASSUME NEW c \in Calls, Fail(c) PROVE Rest'
  <2>1. blurred' \subseteq Voices
    <3>1. call[c].voice \in Voices \cup {NoVoice}
      BY <1>0 DEF CallSet
    <3> QED BY <1>0, <1>2, <3>1 DEF Fail, Rest
  <2> QED BY <1>0, <1>2, <2>1 DEF Fail, Rest
<1>3. ASSUME NEW c \in Calls, NEW v \in Voices, Delete(c, v) PROVE Rest'
  <2>1. blurred' \subseteq blurred \cup {v}
    BY <1>0, <1>3, SendFields DEF Delete, Rest
  <2> QED BY <1>0, <1>3, <2>1 DEF Delete, Rest
<1>4. ASSUME NEW c \in Calls, Undo(c) PROVE Rest'
  <2>1. undo \in Voices
    BY <1>0, <1>4 DEF Undo, Rest
  <2>2. blurred' \subseteq blurred \cup {undo}
    BY <1>0, <1>4, <2>1, SendFields DEF Undo, Rest
  <2> QED BY <1>0, <1>4, <2>1, <2>2 DEF Undo, Rest
<1>5. ASSUME NEW c \in Calls, TakeList(c) \/ TakeDelete(c) \/ TakeRestore(c) PROVE Rest'
  <2>1. call[c].seen \subseteq Voices /\ call[c].touched \subseteq Voices
    BY <1>0 DEF CallSet
  <2>2. list' \subseteq Voices /\ blurred' \subseteq Voices
    <3>1. CASE TakeList(c)
      BY <1>0, <2>1, <3>1 DEF TakeList, Rest
    <3>2. CASE TakeDelete(c)
      BY <1>0, <2>1, <3>2 DEF TakeDelete, Difference, Rest
    <3>3. CASE TakeRestore(c)
      BY <1>0, <3>3 DEF TakeRestore, Rest
    <3> QED BY <1>5, <3>1, <3>2, <3>3
  <2>3. UNCHANGED <<pick, selected, chosen, others>> /\ undo' \in {undo, NoVoice}
    BY <1>5 DEF TakeList, TakeDelete, TakeRestore
  <2> QED BY <1>0, <2>2, <2>3 DEF Rest
<1>6. ASSUME NEW v \in Voices, PurgeDeleted(v) \/ Elsewhere(v, "live") \/ Elsewhere(v, "deleted")
      PROVE  Rest'
  BY <1>0, <1>6 DEF PurgeDeleted, Elsewhere, Rest
<1>7. CASE UndoCloses
  BY <1>0, <1>7 DEF UndoCloses, Rest
<1>8. CASE TypeInSpeak
  <2>1. pick' \in {Described} \cup {Saved(v) : v \in Voices \cup {NoVoice}}
    BY <1>0, <1>8, ResolvedType DEF TypeInSpeak, Effective, Rest
  <2> QED BY <1>0, <1>8, <2>1 DEF TypeInSpeak, Rest
<1>9. ASSUME NEW v \in Voices, LoadVariation(v) PROVE Rest'
  <2>1. Resolved(Described, list, selected) \in {Described} \cup {Saved(w) : w \in Voices \cup {NoVoice}}
    BY ResolvedType
  <2> QED BY <1>0, <1>9, <2>1 DEF LoadVariation, Rest
<1>10. ASSUME NEW v \in Voices, NEW s \in BOOLEAN, Choose(v, s) PROVE Rest'
  BY <1>0, <1>10 DEF Choose, Rest
<1> QED
  BY <1>1, <1>2, <1>3, <1>4, <1>5, <1>6, <1>7, <1>8, <1>9, <1>10 DEF LibraryNext

LEMMA HeldStill ==
    ASSUME LibraryTypeOK, CallsInv, ClearInv, UNCHANGED <<held, list, call, blurred>>
    PROVE  CallsInv' /\ ClearInv' /\ call' \in [Calls -> CallSet]
<1>1. \A d \in Calls : Same(d)
  BY DEF Same
<1>2. \A w : (Busy(w)' <=> Busy(w)) /\ (IsLive(w)' <=> IsLive(w))
  BY DEF Busy, Open, IsLive
<1>3. \A d \in Calls : Formed(call'[d]) /\ Current(d)'
  BY <1>1, <1>2, FormedFrame, CurrentFrame DEF CallsInv
<1>4. \A w \in Voices : Clear(w)'
  BY <1>1, <1>2, ClearFrame DEF ClearInv
<1> QED
  BY <1>3, <1>4, LibraryTypes DEF CallsInv, ClearInv

LEMMA ShownStep ==
    ASSUME ShownInv, LibraryNext
    PROVE  ShownInv'
<1>0. LibraryTypeOK /\ CallsInv /\ ClearInv /\ Restorable /\ Remembered
  BY DEF ShownInv, CallsInv, ClearInv
<1>1. /\ list \subseteq Voices /\ undo \in Voices \cup {NoVoice}
      /\ held \in [Voices -> {"unborn", "live", "deleted", "purged"}]
  BY <1>0, LibraryTypes
<1> DEFINE Goal == /\ CallsInv' /\ ClearInv' /\ call' \in [Calls -> CallSet]
                   /\ held' \in [Voices -> {"unborn", "live", "deleted", "purged"}]
<1>2. ASSUME NEW c \in Calls, Refresh(c) \/ Handle(c) \/ Fail(c) PROVE Goal
  <2>1. Refresh(c) \/ Fail(c) => held' = held
    BY DEF Refresh, Fail
  <2> QED BY <1>0, <1>1, <1>2, <2>1, RefreshStep, HandleStep, FailStep
<1>3. ASSUME NEW c \in Calls, NEW v \in Voices, Delete(c, v) PROVE Goal
  <2>1. Send(c, "delete", v, list) /\ v \in list /\ list' = list \ {v} /\ held' = held
    BY <1>3 DEF Delete
  <2>2. call' \in [Calls -> CallSet]
    BY <1>0, <1>1, <2>1, SendFields
  <2> QED BY <1>0, <1>1, <2>1, <2>2, PressStep
<1>4. ASSUME NEW c \in Calls, Undo(c) PROVE Goal
  <2>1. Send(c, "restore", undo, {}) /\ list' = list \cup {undo} /\ held' = held /\ undo \in Voices
    BY <1>1, <1>4 DEF Undo
  <2>2. call' \in [Calls -> CallSet]
    BY <1>0, <2>1, SendFields
  <2> QED BY <1>0, <1>1, <2>1, <2>2, PressStep
<1>5. ASSUME NEW c \in Calls, TakeList(c) \/ TakeDelete(c) \/ TakeRestore(c) PROVE Goal
  <2>1. held' = held
    BY <1>5 DEF TakeList, TakeDelete, TakeRestore
  <2> QED BY <1>0, <1>1, <1>5, <2>1, TakeListStep, SettleStep
<1>6. ASSUME NEW v \in Voices, PurgeDeleted(v) \/ Elsewhere(v, "live") \/ Elsewhere(v, "deleted") PROVE Goal
  <2>1. held' \in [Voices -> {"unborn", "live", "deleted", "purged"}]
    BY <1>1, <1>6 DEF PurgeDeleted, Elsewhere
  <2> QED BY <1>0, <1>6, <2>1, ElsewhereStep
<1>7. ASSUME \/ UndoCloses \/ TypeInSpeak
             \/ \E v \in Voices : LoadVariation(v) \/ \E s \in BOOLEAN : Choose(v, s)
      PROVE  Goal
  <2>1. UNCHANGED <<held, list, call, blurred>>
    BY <1>7 DEF UndoCloses, TypeInSpeak, LoadVariation, Choose
  <2>2. CallsInv' /\ ClearInv' /\ call' \in [Calls -> CallSet]
    BY <1>0, <2>1, HeldStill
  <2>3. held' = held
    BY <2>1
  <2> QED BY <1>1, <2>2, <2>3
<1>8. Goal
  <2> HIDE DEF Goal
  <2>1. \A v \in Voices, b \in {"live", "deleted"} : Elsewhere(v, b) => Goal
    BY <1>6
  <2>2. ASSUME NEW c \in Calls,
               \/ Refresh(c) \/ Undo(c) \/ Handle(c) \/ Fail(c)
               \/ TakeList(c) \/ TakeDelete(c) \/ TakeRestore(c)
               \/ \E v \in Voices : Delete(c, v)
        PROVE  Goal
    BY <1>2, <1>3, <1>4, <1>5, <2>2
  <2>3. ASSUME NEW v \in Voices, PurgeDeleted(v) \/ \E b \in {"live", "deleted"} : Elsewhere(v, b)
        PROVE  Goal
    BY <1>6, <2>1, <2>3
  <2> QED BY <1>7, <2>2, <2>3 DEF LibraryNext
<1>9. LibraryTypeOK'
  <2>1. Rest'
    BY <1>0, RestStep
  <2> QED BY <1>8, <2>1 DEF Rest, LibraryTypeOK, CallSet
<1>10. Restorable' /\ Remembered'
  BY <1>0, StripStep, RememberedStep
<1> QED
  BY <1>8, <1>9, <1>10 DEF ShownInv, CallsInv, ClearInv

LEMMA ShownStill == ShownInv /\ UNCHANGED library => ShownInv'
<1> SUFFICES ASSUME ShownInv, UNCHANGED library PROVE ShownInv'
  OBVIOUS
<1>1. UNCHANGED <<held, list, undo, call, pick, selected, chosen, others, blurred>>
  BY DEF library
<1>2. LibraryTypeOK' /\ Restorable' /\ Remembered'
  BY <1>1 DEF ShownInv, LibraryTypeOK, Restorable, Remembered
<1>3. CallsInv' /\ ClearInv'
  BY <1>1, HeldStill DEF ShownInv, CallsInv, ClearInv
<1> QED
  BY <1>2, <1>3 DEF ShownInv, CallsInv, ClearInv

LEMMA InitShown == LibraryInit => ShownInv
<1> SUFFICES ASSUME LibraryInit PROVE ShownInv
  OBVIOUS
<1>0. PICK none : none = NoCall
  OBVIOUS
<1>1. /\ call = [c \in Calls |-> none] /\ list = {} /\ undo = NoVoice /\ pick = Described
      /\ selected = NoVoice /\ chosen = NoVoice /\ others = 0 /\ blurred = Voices
  BY <1>0 DEF LibraryInit
<1>2. held \in [Voices -> {"unborn", "live", "deleted", "purged"}]
  BY DEF LibraryInit
<1>3. none \in CallSet /\ Formed(none) /\ none.op = "none"
  BY <1>0, NoCallFields
<1>4. LibraryTypeOK
  BY <1>1, <1>2, <1>3, LibraryTypes
<1>5. \A c \in Calls : Formed(call[c]) /\ Current(c)
  BY <1>1, <1>3 DEF Current
<1>6. (\A v \in Voices : Clear(v)) /\ Restorable /\ Remembered
  BY <1>1 DEF Clear, Restorable, Remembered
<1> QED
  BY <1>4, <1>5, <1>6 DEF ShownInv

(* deleteVoice, undoDelete and refreshVoices with their answers in any       *)
(* order: what every call in flight is about, what the answer to a refresh   *)
(* says of the voices nothing happened to, and how the list and the gateway  *)
(* differ on a voice with a call about it.                                   *)
THEOREM ShownInvariant == LibrarySpec => []ShownInv
<1>1. LibraryInit => ShownInv
  BY InitShown
<1>2. ShownInv /\ [LibraryNext]_library => ShownInv'
  BY ShownStep, ShownStill
<1> QED
  BY <1>1, <1>2, PTL DEF LibrarySpec

(* The voices shown are the ones the gateway holds once every call has been  *)
(* answered, but for those that were blurred by name (App.tsx deleteVoice,   *)
(* undoDelete, refreshVoices), for any number of voices and of calls.        *)
THEOREM ListShowsTheStore == LibrarySpec => []ListIsStored
<1>1. ShownInv => ListIsStored
  <2> SUFFICES ASSUME ShownInv PROVE ListIsStored
    OBVIOUS
  <2>1. LibraryTypeOK /\ \A v \in Voices : Clear(v)
    BY DEF ShownInv
  <2>2. AtRest => \A v : ~ Busy(v)
    BY DEF AtRest, Busy
  <2> QED BY <2>1, <2>2 DEF ListIsStored, Clear, IsLive
<1> QED
  BY <1>1, ShownInvariant, PTL

(* The undo strip (its timer and the delete that failed take it away) names  *)
(* a voice that voices.ts restore can bring back.                            *)
THEOREM StripCanRestore == LibrarySpec => []UndoIsHonest
<1>1. ShownInv => UndoIsHonest
  <2> SUFFICES ASSUME ShownInv, undo # NoVoice, ~ Busy(undo)
               PROVE  held[undo] \in {"deleted", "live"}
    BY DEF UndoIsHonest
  <2>1. \A c \in Calls : ~ (call[c].op = "delete" /\ call[c].voice = undo)
    BY DEF Busy, Open
  <2> QED BY <2>1 DEF ShownInv, Restorable
<1> QED
  BY <1>1, ShownInvariant, PTL

(* resolveAvailableSpeakVoiceSource and resolveVoiceSpec: a voice chosen by  *)
(* hand is sent as it was chosen or blocks Generate, whatever happens to it. *)
THEOREM ChosenOrNothing == LibrarySpec => []NeverSubstituted
<1>1. ShownInv => NeverSubstituted
  BY DEF ShownInv, Remembered, NeverSubstituted, Sendable, Effective, Resolved
<1> QED
  BY <1>1, ShownInvariant, PTL

(* Only a voice that was made is ever listed, asked about or offered back.   *)
Born(v) == v \in Voices /\ held[v] # "unborn"
OfBorn(k) == (k.voice # NoVoice => Born(k.voice)) /\ \A v \in k.seen : Born(v)
BornInv ==
    /\ \A v \in list : Born(v)
    /\ undo # NoVoice => Born(undo)
    /\ \A c \in Calls : OfBorn(call[c])

Aging(v) == held'[v] = held[v] \/ <<held[v], held'[v]>> \in Gateway!Course

(* A call that is new, goes on or ends asks about what is listed or offered. *)
LEMMA BornCalls ==
    ASSUME ShownInv, BornInv, LibraryNext, ~ \E c \in Calls : Handle(c)
    PROVE  \A d \in Calls : OfBorn(call'[d])
<1>0. /\ LibraryTypeOK /\ call \in [Calls -> CallSet] /\ list \subseteq Voices
      /\ undo \in Voices \cup {NoVoice} /\ \A d \in Calls : OfBorn(call[d]) /\ Formed(call[d])
  BY LibraryTypes DEF ShownInv, BornInv
<1>1. OfBorn(NoCall)
  BY NoCallFields DEF OfBorn
<1>2. ASSUME NEW c \in Calls, NEW v \in Voices, Delete(c, v) PROVE \A d \in Calls : OfBorn(call'[d])
  <2>1. Send(c, "delete", v, list) /\ v \in list
    BY <1>2 DEF Delete
  <2>2. /\ call'[c].voice = v /\ call'[c].seen = list
        /\ \A d \in Calls \ {c} : Same(d)
    BY <1>0, <2>1, SendFields
  <2> QED BY <1>0, <2>1, <2>2 DEF OfBorn, Same, BornInv
<1>3. ASSUME NEW c \in Calls, Undo(c) PROVE \A d \in Calls : OfBorn(call'[d])
  <2>1. Send(c, "restore", undo, {}) /\ undo \in Voices /\ undo # NoVoice
    BY <1>0, <1>3 DEF Undo
  <2>2. /\ call'[c].voice = undo /\ call'[c].seen = {}
        /\ \A d \in Calls \ {c} : Same(d)
    BY <1>0, <2>1, SendFields
  <2> QED BY <1>0, <2>1, <2>2 DEF OfBorn, Same, BornInv
<1>4. ASSUME NEW c \in Calls, Refresh(c) \/ Fail(c) \/ TakeList(c) \/ TakeDelete(c) \/ TakeRestore(c)
      PROVE  \A d \in Calls : OfBorn(call'[d])
  <2>1. call[c] \in CallSet
    BY <1>0
  <2>2. CASE Refresh(c)
    <3>1. PICK new : /\ new = [NoCall EXCEPT !.op = "list", !.at = "sent",
                                             !.touched = {v \in Voices : Busy(v)}]
                     /\ call' = [call EXCEPT ![c] = new]
      BY <2>2 DEF Refresh
    <3>2. new.voice = NoVoice /\ new.seen = {}
      BY <3>1 DEF NoCall
    <3> QED BY <1>0, <3>1, <3>2 DEF OfBorn
  <2>3. CASE Fail(c)
    <3>1. PICK new : new = [call[c] EXCEPT !.at = "failed"] /\ call' = [call EXCEPT ![c] = new]
      BY <2>3 DEF Fail
    <3>2. new.voice = call[c].voice /\ new.seen = call[c].seen
      BY <2>1, <3>1 DEF CallSet
    <3> QED BY <1>0, <3>1, <3>2 DEF OfBorn
  <2>4. CASE TakeList(c) \/ TakeRestore(c)
    <3>1. call' = [call EXCEPT ![c] = NoCall]
      BY <2>4 DEF TakeList, TakeRestore
    <3> QED BY <1>0, <1>1, <3>1
  <2>5. CASE TakeDelete(c)
    <3>1. PICK mid : mid = [call EXCEPT ![c] = NoCall]
      OBVIOUS
    <3>2. mid \in [Calls -> CallSet] /\ \A d \in Calls : OfBorn(mid[d])
      BY <1>0, <1>1, <3>1, NoCallFields
    <3>3. call' = Touch(mid, {call[c].voice})
      BY <2>5, <3>1 DEF TakeDelete
    <3>4. \A d \in Calls : call'[d].voice = mid[d].voice /\ call'[d].seen = mid[d].seen
      <4>1. call[c].voice \in Voices
        BY <1>0, <2>5 DEF TakeDelete, Formed
      <4> QED BY <3>2, <3>3, <4>1, TouchFields
    <3> QED BY <3>2, <3>4 DEF OfBorn
  <2> QED BY <1>4, <2>2, <2>3, <2>4, <2>5
<1>5. ASSUME NEW v \in Voices, PurgeDeleted(v) \/ LoadVariation(v) \/ \E s \in BOOLEAN : Choose(v, s)
      PROVE  \A d \in Calls : OfBorn(call'[d])
  BY <1>0, <1>5 DEF PurgeDeleted, LoadVariation, Choose
<1>6. ASSUME NEW v \in Voices, NEW b \in {"live", "deleted"}, Elsewhere(v, b)
      PROVE  \A d \in Calls : OfBorn(call'[d])
  <2>1. call' = Touch(call, {v})
    BY <1>6 DEF Elsewhere
  <2>2. \A d \in Calls : call'[d].voice = call[d].voice /\ call'[d].seen = call[d].seen
    BY <1>0, <2>1, TouchFields
  <2> QED BY <1>0, <2>2 DEF OfBorn
<1>7. CASE UndoCloses \/ TypeInSpeak
  BY <1>0, <1>7 DEF UndoCloses, TypeInSpeak
<1> QED
  BY <1>2, <1>3, <1>4, <1>5, <1>6, <1>7 DEF LibraryNext

LEMMA BornStep ==
    ASSUME ShownInv, BornInv, LibraryNext
    PROVE  BornInv' /\ \A v \in Voices : Aging(v)
<1>0. /\ LibraryTypeOK /\ call \in [Calls -> CallSet] /\ NoVoice \notin Voices
      /\ held \in [Voices -> {"unborn", "live", "deleted", "purged"}]
      /\ list \subseteq Voices /\ undo \in Voices \cup {NoVoice}
      /\ \A d \in Calls : OfBorn(call[d]) /\ Formed(call[d])
  BY LibraryTypes DEF ShownInv, BornInv
<1>1. ASSUME NEW c \in Calls, Handle(c)
      PROVE  /\ \A v \in Voices : Aging(v)
             /\ list' = list /\ undo' = undo
             /\ \A d \in Calls : OfBorn(call'[d])
  <2>1. PICK v, gone, after, new :
          /\ v = call[c].voice /\ gone = (v # NoVoice /\ held[v] = "purged")
          /\ after = IF call[c].op = "delete" THEN "deleted" ELSE "live"
          /\ new = [call[c] EXCEPT !.at = IF gone THEN "missing" ELSE "done",
                                   !.seen = IF v = NoVoice THEN Live ELSE call[c].seen]
    OBVIOUS
  <2>2. /\ held' = IF v = NoVoice \/ gone THEN held ELSE [held EXCEPT ![v] = after]
        /\ call' = [call EXCEPT ![c] = new] /\ list' = list /\ undo' = undo
    BY <1>1, <2>1 DEF Handle
  <2>3. new.voice = v /\ new.seen = (IF v = NoVoice THEN Live ELSE call[c].seen)
    <3>1. call[c] \in CallSet
      BY <1>0
    <3> QED BY <2>1, <3>1 DEF CallSet
  <2>4. v # NoVoice => v \in Voices /\ held[v] # "unborn"
    BY <1>0, <2>1 DEF OfBorn, Born
  <2>5. OfBorn(new)
    <3>1. \A w \in Live : Born(w)
      BY DEF Live, Born
    <3>2. OfBorn(call[c])
      BY <1>0
    <3> QED BY <2>1, <2>3, <3>1, <3>2 DEF OfBorn
  <2>6. \A d \in Calls : OfBorn(call'[d])
    BY <1>0, <2>2, <2>5
  <2>7. \A w \in Voices : Aging(w)
    <3>1. v # NoVoice /\ ~ gone => held[v] \in {"live", "deleted"} /\ after \in {"live", "deleted"}
      BY <1>0, <2>1, <2>4
    <3> QED BY <1>0, <2>2, <3>1 DEF Aging, Gateway!Course
  <2> QED BY <2>2, <2>6, <2>7
<1>2. ASSUME ~ \E c \in Calls : Handle(c)
      PROVE  /\ \A v \in Voices : Aging(v)
             /\ \A v \in list' : Born(v)
             /\ undo' # NoVoice => Born(undo')
             /\ \A d \in Calls : OfBorn(call'[d])
  <2>1. \A d \in Calls : OfBorn(call'[d])
    BY <1>0, <1>2, BornCalls
  <2>2. ASSUME NEW c \in Calls, TakeList(c) \/ TakeDelete(c) \/ TakeRestore(c)
        PROVE  /\ held' = held /\ undo' \in {undo, NoVoice}
               /\ \A v \in list' : v \in list \/ v \in call[c].seen
    BY <2>2 DEF TakeList, TakeDelete, TakeRestore
  <2>3. ASSUME NEW c \in Calls, Refresh(c) \/ Undo(c) \/ Fail(c) \/ \E v \in Voices : Delete(c, v)
        PROVE  /\ held' = held /\ undo' \in {undo, NoVoice} \cup list
               /\ \A v \in list' : v \in list \/ (v = undo /\ v # NoVoice)
    BY <2>3 DEF Refresh, Undo, Fail, Delete
  <2>4. ASSUME NEW v \in Voices, PurgeDeleted(v) \/ \E b \in {"live", "deleted"} : Elsewhere(v, b)
        PROVE  (\A w \in Voices : Aging(w)) /\ list' = list /\ undo' = undo
    BY <1>0, <2>4 DEF PurgeDeleted, Elsewhere, Aging, Gateway!Course
  <2>5. ASSUME \/ UndoCloses \/ TypeInSpeak
               \/ \E v \in Voices : LoadVariation(v) \/ \E s \in BOOLEAN : Choose(v, s)
        PROVE  held' = held /\ list' = list /\ undo' \in {undo, NoVoice}
    BY <2>5 DEF UndoCloses, TypeInSpeak, LoadVariation, Choose
  <2>6. /\ \A v \in list : Born(v)
        /\ undo # NoVoice => Born(undo)
        /\ \A c \in Calls : \A v \in call[c].seen : Born(v)
    BY <1>0 DEF BornInv, OfBorn
  <2>7. held' = held => \A v \in Voices : Aging(v)
    BY DEF Aging
  <2>8. \/ \E c \in Calls : TakeList(c) \/ TakeDelete(c) \/ TakeRestore(c)
        \/ \E c \in Calls : Refresh(c) \/ Undo(c) \/ Fail(c) \/ \E v \in Voices : Delete(c, v)
        \/ \E v \in Voices : PurgeDeleted(v) \/ \E b \in {"live", "deleted"} : Elsewhere(v, b)
        \/ UndoCloses \/ TypeInSpeak
        \/ \E v \in Voices : LoadVariation(v) \/ \E s \in BOOLEAN : Choose(v, s)
    BY <1>2 DEF LibraryNext
  <2>9. /\ \A v \in Voices : Aging(v)
        /\ \A v \in list' : Born(v)
        /\ undo' # NoVoice => Born(undo')
    BY <2>2, <2>3, <2>4, <2>5, <2>6, <2>7, <2>8
  <2> QED BY <2>1, <2>9
<1>3. /\ \A v \in Voices : Aging(v)
      /\ \A v \in list' : Born(v)
      /\ undo' # NoVoice => Born(undo')
      /\ \A d \in Calls : OfBorn(call'[d])
  BY <1>1, <1>2 DEF BornInv
<1>4. \A v : Born(v) => v \in Voices /\ held'[v] # "unborn"
  BY <1>3 DEF Born, Aging, Gateway!Course
<1>5. BornInv'
  BY <1>3, <1>4 DEF BornInv, OfBorn, Born
<1> QED
  BY <1>3, <1>5

(* What one browser counts on of the gateway (App.tsx, voices.ts) is the     *)
(* life of a voice and no more: it is the same specification that the store  *)
(* implements.                                                               *)
THEOREM LibraryCountsOnLife == LibrarySpec => Gateway!LifeSpec
<1>1. LibraryInit => ShownInv /\ BornInv /\ Gateway!LifeInit
  <2> SUFFICES ASSUME LibraryInit PROVE BornInv /\ Gateway!LifeInit
    BY InitShown
  <2>1. list = {} /\ undo = NoVoice /\ \A c \in Calls : call[c] = NoCall
    BY DEF LibraryInit
  <2>2. BornInv
    BY <2>1, NoCallFields DEF BornInv, OfBorn
  <2>3. Gateway!LifeInit
    BY DEF LibraryInit, Gateway!LifeInit
  <2> QED BY <2>2, <2>3
<1>2. ShownInv /\ BornInv /\ [LibraryNext]_library => (ShownInv /\ BornInv)' /\ [Gateway!LifeNext]_held
  <2> SUFFICES ASSUME ShownInv, BornInv, [LibraryNext]_library
               PROVE  (ShownInv /\ BornInv)' /\ [Gateway!LifeNext]_held
    OBVIOUS
  <2>1. ShownInv'
    BY ShownStep, ShownStill
  <2>2. CASE UNCHANGED library
    BY <2>1, <2>2 DEF library, BornInv, OfBorn, Born
  <2>3. CASE LibraryNext
    <3>1. BornInv' /\ \A v \in Voices : Aging(v)
      BY <2>3, BornStep
    <3>2. held' \in [Voices -> {"unborn", "live", "deleted", "purged"}]
      BY <2>1 DEF ShownInv, LibraryTypeOK
    <3> QED BY <2>1, <3>1, <3>2 DEF Aging, Gateway!LifeNext
  <2> QED BY <2>2, <2>3
<1> QED
  BY <1>1, <1>2, PTL DEF LibrarySpec, Gateway!LifeSpec
=============================================================================
