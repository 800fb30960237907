---------------------------- MODULE ReferenceStore ----------------------------
(* The gateway's store of staged reference recordings                        *)
(* (src/gateway/src/references.ts, and its routes in index.ts).              *)
(*                                                                           *)
(* A reference is a pair of files, a WAV and its JSON sidecar, and an entry  *)
(* of an index in memory. Requests interleave at their awaits: one action is *)
(* what a request does between two of them. The process can be killed at any *)
(* point, and load rebuilds the index from the disk.                         *)
EXTENDS Naturals, FiniteSets

CONSTANTS Tasks,        \* requests the gateway can be serving at once
          MaxIds,       \* recordings staged in one behaviour
          MaxAge,       \* the age at which a recording expires
          MaxClock,     \* bound on the clock
          MaxKills,     \* bound on the kills of the gateway
          MaxFaulty     \* bound on the recordings the file system refuses, once

ASSUME StoreAssumption == /\ Tasks # {}
                          /\ {MaxIds, MaxAge, MaxClock, MaxKills, MaxFaulty} \subseteq Nat

Ids == 1..MaxIds        \* randomUUID: never used twice, here in order of intake
NoRef == 0
Parts == {"wav", "side"}

VARIABLES
    records,    \* #records: the ids indexed in memory
    disk,       \* disk[id][part]: "none", "torn" (being written) or "whole"
    born,       \* createdAt, in the record and in the sidecar
    fresh,      \* the next id
    clock,
    task,       \* task[t]: where the request is, and what it holds
    phase,      \* "down", "loading" or "up"
    kills,
    faulty      \* ghost: ids whose files could once not be read or unlinked

storeVars == <<records, disk, born, fresh, clock, task, phase, kills, faulty>>

Idle == [pc |-> "idle", id |-> NoRef, evict |-> {}, victim |-> NoRef, rm |-> {},
         then |-> "idle"]

Gone(id) == \A part \in Parts : disk[id][part] = "none"
WholePair(id) == \A part \in Parts : disk[id][part] = "whole"
OldEnough(id) == clock - born[id] >= MaxAge
Expired == {id \in records : OldEnough(id)}

StoreTypeOK ==
    /\ records \subseteq Ids
    /\ disk \in [Ids -> [Parts -> {"none", "torn", "whole"}]]
    /\ born \in [Ids -> 0..MaxClock]
    /\ fresh \in 1..(MaxIds + 1)
    /\ clock \in 0..MaxClock
    /\ task \in [Tasks -> [pc : {"idle", "evict", "remove", "wav", "side", "stat",
                                 "cut", "intake", "check", "staged", "refused"},
                           id : Ids \cup {NoRef}, evict : SUBSET Ids,
                           victim : Ids \cup {NoRef}, rm : SUBSET Parts,
                           then : {"idle", "wav", "staged", "refused", "check",
                                   "up"}]]
    /\ phase \in {"down", "loading", "up"}
    /\ kills \in 0..MaxKills
    /\ faulty \subseteq Ids

StoreInit ==
    /\ records = {}
    /\ disk = [id \in Ids |-> [part \in Parts |-> "none"]]
    /\ born = [id \in Ids |-> 0]
    /\ fresh = 1
    /\ clock = 0
    /\ task = [t \in Tasks |-> Idle]
    /\ phase = "up"
    /\ kills = 0
    /\ faulty = {}

At(t, pc) == task[t].pc = pc /\ phase = "up"
Become(t, new) == task' = [task EXCEPT ![t] = new]

(* The file system refuses to read or to unlink a file of these recordings.  *)
Refused(ids) ==
    /\ ids \cap faulty = {}
    /\ faulty' = faulty \cup ids
    /\ Cardinality(faulty') <= MaxFaulty

(* evictExpired: the list is made once, then each record is dropped and its  *)
(* files unlinked before the next.                                           *)
Evicting(t, next) == [Idle EXCEPT !.pc = "evict", !.id = task[t].id,
                                  !.evict = Expired, !.then = next]

EvictNext(t) ==
    /\ task[t].pc = "evict" /\ phase # "down"
    /\ task[t].rm = {}
    /\ \E id \in task[t].evict :
          /\ records' = records \ {id}
          /\ task' = [task EXCEPT ![t].evict = @ \ {id}, ![t].rm = Parts,
                                  ![t].victim = id]
    /\ UNCHANGED <<disk, born, fresh, clock, phase, kills, faulty>>

\* mutant: only the WAV is unlinked
RemovingWav(id, next) == [Idle EXCEPT !.pc = "remove", !.id = id, !.victim = id,
                                      !.rm = {"wav"}, !.then = next]

(* Both files of the pair are unlinked in parallel (#removeFiles).           *)
Removing(id, next) == [Idle EXCEPT !.pc = "remove", !.id = id, !.victim = id,
                                   !.rm = Parts, !.then = next]

Unlink(t) ==
    /\ phase # "down"
    /\ \E part \in task[t].rm :
          /\ disk' = [disk EXCEPT ![task[t].victim][part] = "none"]
          /\ task' = [task EXCEPT ![t].rm = @ \ {part}]
    /\ UNCHANGED <<records, born, fresh, clock, phase, kills, faulty>>

(* The files that cannot be unlinked stay, and nobody hears of it.           *)
UnlinkFails(t) ==
    /\ phase # "down" /\ task[t].rm # {}
    /\ ~ Gone(task[t].victim) /\ Refused({task[t].victim})
    /\ \E left \in SUBSET task[t].rm :
          left # {} /\ task' = [task EXCEPT ![t].rm = @ \ left]
    /\ UNCHANGED <<records, disk, born, fresh, clock, phase, kills>>

Removed(t) ==
    /\ At(t, "remove") /\ task[t].rm = {}
    /\ Become(t, IF task[t].then = "refused" THEN [Idle EXCEPT !.pc = "refused"] ELSE Idle)
    /\ UNCHANGED <<records, disk, born, fresh, clock, phase, kills, faulty>>

-----------------------------------------------------------------------------
(* POST /api/reference: the upload is normalised and transcribed; either may *)
(* take long, and the first may fail. (The id is create's; it is fixed here. *)
(* The bound on ids then holds back no request half-way.)                    *)
Intake(t) ==
    /\ At(t, "idle")
    /\ fresh <= MaxIds
    /\ fresh' = fresh + 1
    /\ Become(t, [Idle EXCEPT !.pc = "intake", !.id = fresh])
    /\ UNCHANGED <<records, disk, born, clock, phase, kills, faulty>>

IntakeFails(t) ==
    /\ At(t, "intake")
    /\ Become(t, [Idle EXCEPT !.pc = "refused"])
    /\ UNCHANGED <<records, disk, born, fresh, clock, phase, kills, faulty>>

(* create: expired material is evicted, the WAV is written, then the sidecar *)
(* that names its length, and only then is the pair indexed.                 *)
Create(t) ==
    /\ At(t, "intake")
    /\ Become(t, Evicting(t, "wav"))
    /\ UNCHANGED <<records, disk, born, fresh, clock, phase, kills, faulty>>

OpenWav(t) ==
    /\ At(t, "evict") /\ task[t].evict = {} /\ task[t].rm = {}
    /\ task[t].then = "wav"
    /\ born' = [born EXCEPT ![task[t].id] = clock]
    /\ disk' = [disk EXCEPT ![task[t].id].wav = "torn"]
    /\ Become(t, [Idle EXCEPT !.pc = "wav", !.id = task[t].id])
    /\ UNCHANGED <<records, fresh, clock, phase, kills, faulty>>

WriteWav(t) ==
    /\ At(t, "wav")
    /\ disk' = [disk EXCEPT ![task[t].id] = [wav |-> "whole", side |-> "torn"]]
    /\ Become(t, [task[t] EXCEPT !.pc = "side"])
    /\ UNCHANGED <<records, born, fresh, clock, phase, kills, faulty>>

WriteFails(t) ==
    /\ At(t, "wav") \/ At(t, "side")
    /\ Become(t, Removing(task[t].id, "refused"))
    /\ UNCHANGED <<records, disk, born, fresh, clock, phase, kills, faulty>>

WriteSide(t) ==
    LET id == task[t].id
        with == records \cup {id}
    IN /\ At(t, "side")
       /\ disk' = [disk EXCEPT ![id].side = "whole"]
       /\ records' = with
       /\ Become(t, [Idle EXCEPT !.pc = "evict", !.id = id, !.then = "staged",
                                 !.evict = {x \in with : OldEnough(x)}])
       /\ UNCHANGED <<born, fresh, clock, phase, kills, faulty>>

(* The id answered is the one created, whatever was evicted after it.        *)
Created(t) ==
    /\ At(t, "evict") /\ task[t].evict = {} /\ task[t].rm = {}
    /\ task[t].then = "staged"
    /\ Become(t, [Idle EXCEPT !.pc = "staged", !.id = task[t].id])
    /\ UNCHANGED <<records, disk, born, fresh, clock, phase, kills, faulty>>

-----------------------------------------------------------------------------
(* window, for an interval that passes its checks (the others answer         *)
(* "validation" and change nothing: see ReferenceWindow): the record is      *)
(* looked up before the size of the WAV is awaited, the file is read later.  *)
(* Without ffmpeg the request is refused before it begins.                   *)
Window(t, id) ==
    /\ At(t, "idle") /\ id \in records
    /\ Become(t, [Idle EXCEPT !.pc = "stat", !.id = id])
    /\ UNCHANGED <<records, disk, born, fresh, clock, phase, kills, faulty>>

(* A stat that fails counts as a WAV of another size (catch(() => -1)): the  *)
(* record is dropped, and its files are unlinked.                            *)
Stat(t) ==
    LET id == task[t].id
        whole == disk[id].wav = "whole"
    IN /\ At(t, "stat")
       /\ \/ /\ whole /\ Become(t, [task[t] EXCEPT !.pc = "cut"])
             /\ UNCHANGED <<records, faulty>>
          \/ /\ records' = records \ {id} /\ Become(t, Removing(id, "idle"))
             /\ Refused(IF whole THEN {id} ELSE {})
       /\ UNCHANGED <<disk, born, fresh, clock, phase, kills>>

(* ffmpeg reads the file, succeeds or fails, and the request is answered or  *)
(* refused: in either case the record stays.                                 *)
Cut(t) ==
    /\ At(t, "cut")
    /\ Become(t, Idle)
    /\ UNCHANGED <<records, disk, born, fresh, clock, phase, kills, faulty>>

(* remove: the record goes at once, then the files, indexed or not.          *)
StartRemove(t, id) ==
    /\ At(t, "idle")
    /\ Become(t, Removing(id, "idle"))
    /\ records' = records \ {id}

Answer(t) ==
    /\ task[t].pc \in {"staged", "refused"}
    /\ phase = "up"
    /\ Become(t, Idle)
    /\ UNCHANGED <<records, disk, born, fresh, clock, phase, kills, faulty>>

-----------------------------------------------------------------------------
(* The process is killed; everything in memory is lost.                      *)
Kill ==
    /\ phase # "down" /\ kills < MaxKills
    /\ phase' = "down" /\ kills' = kills + 1
    /\ records' = {}
    /\ task' = [t \in Tasks |-> Idle]
    /\ UNCHANGED <<disk, born, fresh, clock, faulty>>

(* load runs in one task before the server listens: it lists the directory   *)
(* (one that cannot be read is taken as empty), checks each id, removes what *)
(* is not a whole pair or cannot be read, then publishes the rest and evicts *)
(* what expired.                                                             *)
Loader == CHOOSE t \in Tasks : TRUE

StartLoad ==
    LET there == {id \in Ids : ~Gone(id)} IN
    /\ phase = "down"
    /\ phase' = "loading"
    /\ \E listed \in {there, {}} :
          /\ Become(Loader, [Idle EXCEPT !.pc = "check", !.then = "check",
                                         !.evict = listed])
          /\ Refused(there \ listed)
    /\ UNCHANGED <<records, disk, born, fresh, clock, kills>>

\* Kept by load: a valid sidecar and a WAV of the size it declares.
Usable(id) == WholePair(id)

LoadOne ==
    /\ phase = "loading" /\ task[Loader].pc = "check" /\ task[Loader].rm = {}
    /\ \E id \in task[Loader].evict :
          /\ Refused(IF Usable(id) THEN {id} ELSE {})
          /\ task' = [task EXCEPT ![Loader].evict = @ \ {id}, ![Loader].victim = id,
                                  ![Loader].rm = Parts]
    /\ UNCHANGED <<records, disk, born, fresh, clock, phase, kills>>

Publish ==
    LET kept == task[Loader].evict IN
    /\ phase = "loading" /\ task[Loader].pc = "check" /\ task[Loader].rm = {}
    /\ \A id \in kept : Usable(id)
    /\ records' = kept
    /\ Become(Loader, [Idle EXCEPT !.pc = "evict", !.then = "up",
                                   !.evict = {id \in kept : OldEnough(id)}])
    /\ UNCHANGED <<disk, born, fresh, clock, phase, kills, faulty>>

Listen ==
    /\ phase = "loading" /\ task[Loader].pc = "evict"
    /\ task[Loader].evict = {} /\ task[Loader].rm = {}
    /\ phase' = "up"
    /\ Become(Loader, Idle)
    /\ UNCHANGED <<records, disk, born, fresh, clock, kills, faulty>>

(* Only ages count: the clock waits while there is nothing to age.           *)
Tick ==
    /\ clock < MaxClock /\ \E id \in Ids : ~ Gone(id)
    /\ clock' = clock + 1
    /\ UNCHANGED <<records, disk, born, fresh, task, phase, kills, faulty>>

Progress(t) ==
    \/ EvictNext(t) \/ Unlink(t) \/ UnlinkFails(t) \/ Removed(t)
    \/ IntakeFails(t) \/ Create(t) \/ OpenWav(t) \/ WriteWav(t) \/ WriteSide(t) \/ WriteFails(t) \/ Created(t)
    \/ Stat(t) \/ Cut(t)

Boot == StartLoad \/ LoadOne \/ Publish \/ Listen

(* Working material is transient: an indexed pair is whole, and once every   *)
(* request has been answered the directory holds the indexed pairs and       *)
(* nothing else, through failed writes, removals and kills (create's failure *)
(* path, #removeFiles and load's two passes) - but for the recordings of     *)
(* which the file system refused to read or to unlink a file: #removeFiles   *)
(* swallows its errors, and load takes a directory it cannot list as empty.  *)
NothingLeftBehind ==
    /\ StoreTypeOK
    /\ phase = "up" => \A id \in records : WholePair(id)
    /\ phase = "up" /\ (\A t \in Tasks : task[t].pc = "idle") =>
          \A id \in Ids : ~ Gone(id) => id \in records \cup faulty
=============================================================================
