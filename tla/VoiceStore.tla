----------------------------- MODULE VoiceStore -----------------------------
(***************************************************************************)
(* The voice library (voices.ts, voices-index.ts): a recording and a       *)
(* sidecar on disk per voice, and an index in memory.                      *)
(*                                                                         *)
(* A handler decides everything before its first await: it reads the index *)
(* and the clock, composes the record it will store, writes files, and     *)
(* only then puts that record into the index.  Several handlers may be in  *)
(* that window at once, for one voice or for several.  The process may be  *)
(* killed in it; load() takes every sidecar that parses and purges the     *)
(* voices deleted longer ago than the undo window.                         *)
(*                                                                         *)
(* A name is what was typed and the suffix that made it unique.  The       *)
(* transcript of a voice is kept as whether it says anything: a sidecar    *)
(* without one is refused at load.                                         *)
(***************************************************************************)
EXTENDS Naturals, FiniteSets

CONSTANTS
    VoiceIds,    \* ids randomUUID may return, each once
    Names,       \* names as typed
    Said,        \* whether the transcript a client sends with an update says anything
    Window,      \* UNDO_WINDOW_MS, in ticks
    MaxTime,     \* bound on the clock
    Requests,    \* handlers open at once
    DiskFails,   \* whether a write or a removal may fail (TRUE or FALSE)
    MaxCrashes,  \* bound on restarts
    None,        \* no file, no record, not deleted
    Torn         \* a file that is not whole

ASSUME VoiceStoreAssumption ==
    /\ IsFiniteSet(VoiceIds) /\ IsFiniteSet(Requests)
    /\ Said \subseteq BOOLEAN
    /\ Window \in Nat /\ MaxTime \in Nat /\ MaxCrashes \in Nat
    /\ DiskFails \in BOOLEAN
    /\ None # Torn /\ None # "whole" /\ Torn # "whole"

VARIABLES
    wav,       \* recordings
    side,      \* sidecars
    records,   \* the index
    used,      \* ids handed out
    request,   \* what every handler is doing
    clock,
    up,        \* the gateway is listening
    purging,   \* ids load() has still to purge
    crashes,
    disturbed  \* ghost: ids on which two handlers met or a write failed, since the start

vars == <<wav, side, records, used, request, clock, up, purging, crashes, disturbed>>
disk == <<wav, side>>

Suffix   == 1..(Cardinality(VoiceIds) + 1)
Name     == Names \X Suffix
Time     == 0..MaxTime
Voice    == [name : Name, said : BOOLEAN, deleted : Time \cup {None}]

(* a handler and the record it is going to store *)
Working == [op : {"create", "update", "remove", "restore"},
            pc : {"wav", "wavOpen", "side", "sideOpen", "written"},
            id : VoiceIds, voice : Voice]

(* what stands for nothing, or for half a file, is no voice *)
ASSUME MarksAssumption ==
    /\ None \notin Voice /\ None \notin Time /\ None \notin Working
    /\ Torn \notin Voice

Kept(id)    == records[id] # None
Visible(id) == Kept(id) /\ records[id].deleted = None
Expired(v)  == v.deleted # None /\ clock >= v.deleted + Window
-----------------------------------------------------------------------------
(* the first suffix that is free: "Ada", "Ada 2", "Ada 3" *)
Disambiguate(desired, others) ==
    CHOOSE name \in {desired} \X Suffix :
        /\ name \notin others
        /\ \A n \in Suffix : n < name[2] => <<desired, n>> \in others

TakenBut(id) == {records[v].name : v \in {u \in VoiceIds \ {id} : Visible(u)}}

(* validateVoice: what load() accepts; it never looks at the recording *)
Valid(s) == s \in Voice /\ s.said
-----------------------------------------------------------------------------
Init ==
    /\ wav = [id \in VoiceIds |-> None]
    /\ side = [id \in VoiceIds |-> None]
    /\ records = [id \in VoiceIds |-> None]
    /\ used = {}
    /\ request = [r \in Requests |-> None]
    /\ clock = 0
    /\ up = TRUE
    /\ purging = {}
    /\ crashes = 0
    /\ disturbed = {}

Accept(r, op, id, voice) ==
    /\ up /\ request[r] = None
    /\ request' = [request EXCEPT ![r] =
                     [op |-> op, pc |-> IF op = "create" THEN "wav" ELSE "side",
                      id |-> id, voice |-> voice]]
    /\ UNCHANGED <<disk, records, clock, up, purging, crashes>>

Fresh(id, typed) ==
    [name |-> Disambiguate(typed, TakenBut(id)), said |-> TRUE, deleted |-> None]

(* mutant: no recording is written *)
CreateUnrecorded(r, id, typed) ==
    /\ id \notin used
    /\ used' = used \cup {id}
    /\ Accept(r, "update", id, Fresh(id, typed))

(* POST /api/voices, from an upload or from a clip; a missing transcript   *)
(* is refused before anything is written                                   *)
Create(r, id, typed) ==
    /\ id \notin used
    /\ used' = used \cup {id}
    /\ Accept(r, "create", id, Fresh(id, typed))

(* PATCH: a new name or a new transcript *)
Rename(r, id, typed) ==
    /\ Visible(id)
    /\ Accept(r, "update", id, [records[id] EXCEPT !.name = Disambiguate(typed, TakenBut(id))])
    /\ UNCHANGED used

(* mutant: the record is built anew, whatever its state *)
TranscribeRebuilt(r, id, said) ==
    /\ Kept(id)
    /\ Accept(r, "update", id, [records[id] EXCEPT !.said = said, !.deleted = None])
    /\ UNCHANGED used

Transcribe(r, id, said) ==
    /\ Visible(id)
    /\ Accept(r, "update", id, [records[id] EXCEPT !.said = said])
    /\ UNCHANGED used

(* DELETE *)
RemoveVoice(r, id) ==
    /\ Kept(id)
    /\ Accept(r, "remove", id, [records[id] EXCEPT !.deleted = clock])
    /\ UNCHANGED used

(* PATCH with restore: whatever the clock says *)
Restore(r, id) ==
    /\ Kept(id)
    /\ Accept(r, "restore", id, [records[id] EXCEPT !.deleted = None])
    /\ UNCHANGED used
-----------------------------------------------------------------------------
At(r, pc) == up /\ request[r] # None /\ request[r].pc = pc

Goto(r, pc) ==
    /\ request' = [request EXCEPT ![r] = [request[r] EXCEPT !.pc = pc]]
    /\ UNCHANGED <<records, used, clock, up, purging, crashes>>

WavOpened(r) ==
    /\ At(r, "wav") /\ Goto(r, "wavOpen")
    /\ wav' = [wav EXCEPT ![request[r].id] = Torn]
    /\ UNCHANGED side

WavWritten(r) ==
    /\ At(r, "wavOpen") /\ Goto(r, "side")
    /\ wav' = [wav EXCEPT ![request[r].id] = "whole"]
    /\ UNCHANGED side

(* writeFile empties the sidecar before it fills it *)
SideOpened(r) ==
    /\ At(r, "side") /\ Goto(r, "sideOpen")
    /\ side' = [side EXCEPT ![request[r].id] = Torn]
    /\ UNCHANGED wav

(* Over what another handler has written since, a shorter record leaves    *)
(* the tail of a longer one behind, and the file no longer parses.         *)
SideWritten(r) ==
    LET id == request[r].id
    IN  /\ At(r, "sideOpen") /\ Goto(r, "written")
        /\ \/ side' = [side EXCEPT ![id] = request[r].voice]
           \/ /\ side[id] \notin {Torn, request[r].voice}
              /\ side' = [side EXCEPT ![id] = Torn]
        /\ UNCHANGED wav

(* the disk is full: the handler throws, and the file is left as it is *)
WriteFails(r) ==
    /\ DiskFails
    /\ At(r, "wavOpen") \/ At(r, "sideOpen")
    /\ request' = [request EXCEPT ![r] = None]
    /\ UNCHANGED <<disk, records, used, clock, up, purging, crashes>>

(* mutant: what is deleted leaves the index at once                        *)
StoredForgotten(r) ==
    /\ At(r, "written")
    /\ records' = [records EXCEPT ![request[r].id] =
                     IF request[r].op = "remove" THEN None ELSE request[r].voice]
    /\ request' = [request EXCEPT ![r] = None]
    /\ UNCHANGED <<disk, used, clock, up, purging, crashes>>

(* back on the event loop: the record composed at the start is indexed     *)
Stored(r) ==
    /\ At(r, "written")
    /\ records' = [records EXCEPT ![request[r].id] = request[r].voice]
    /\ request' = [request EXCEPT ![r] = None]
    /\ UNCHANGED <<disk, used, clock, up, purging, crashes>>
-----------------------------------------------------------------------------
Tick ==
    /\ clock < MaxTime
    /\ clock' = clock + 1
    /\ UNCHANGED <<disk, records, used, request, up, purging, crashes>>

Crash ==
    /\ crashes < MaxCrashes
    /\ crashes' = crashes + 1
    /\ records' = [id \in VoiceIds |-> None]
    /\ request' = [r \in Requests |-> None]
    /\ up' = FALSE
    /\ purging' = {}
    /\ UNCHANGED <<disk, used, clock>>

(* load(): every sidecar that parses, and the list of those to purge       *)
Load ==
    /\ ~ up /\ purging = {}
    /\ records' = [id \in VoiceIds |-> IF Valid(side[id]) THEN side[id] ELSE None]
    /\ purging' = {id \in VoiceIds : Valid(side[id]) /\ Expired(side[id])}
    /\ up' = (purging' = {})
    /\ UNCHANGED <<disk, used, request, clock, crashes>>

(* #purge: the two files go in either order, and a kill may come between   *)
Purge(id) ==
    /\ ~ up /\ id \in purging
    /\ records' = [records EXCEPT ![id] = None]
    /\ \/ wav' = [wav EXCEPT ![id] = None] /\ UNCHANGED side
       \/ side' = [side EXCEPT ![id] = None] /\ UNCHANGED wav
    /\ purging' = IF wav'[id] = None /\ side'[id] = None THEN purging \ {id} ELSE purging
    /\ up' = (purging' = {})
    /\ UNCHANGED <<used, request, clock, crashes>>

(* A removal the disk refuses is swallowed: what is left stays where it is *)
(* and the voice is out of the index all the same.                         *)
PurgeFails(id) ==
    /\ DiskFails
    /\ ~ up /\ id \in purging
    /\ records' = [records EXCEPT ![id] = None]
    /\ purging' = purging \ {id}
    /\ up' = (purging' = {})
    /\ UNCHANGED <<disk, used, request, clock, crashes>>
-----------------------------------------------------------------------------
Handler(r) ==
    \/ \E id \in VoiceIds, typed \in Names : Create(r, id, typed) \/ Rename(r, id, typed)
    \/ \E id \in VoiceIds, said \in Said : Transcribe(r, id, said)
    \/ \E id \in VoiceIds : RemoveVoice(r, id) \/ Restore(r, id)
    \/ WavOpened(r) \/ WavWritten(r) \/ SideOpened(r) \/ SideWritten(r)
    \/ WriteFails(r) \/ Stored(r)

Step ==
    \/ \E r \in Requests : Handler(r)
    \/ Tick \/ Crash \/ Load
    \/ \E id \in VoiceIds : Purge(id) \/ PurgeFails(id)

Handling(id) == {r \in Requests : request[r] # None /\ request[r].id = id}

Disturb ==
    disturbed' =
        IF ~ up THEN {}
        ELSE disturbed \cup {id \in VoiceIds :
               \/ Cardinality(Handling(id)') > 1
               \/ \E r \in Handling(id) : WriteFails(r)}

Next == Step /\ Disturb

Spec == Init /\ [][Next]_vars

(* What a restart finds of a voice and keeps.                              *)
Found(id) == IF Valid(side[id]) /\ ~ Expired(side[id]) THEN side[id] ELSE None

(* What is known of a voice: what the index holds, or load() will find.    *)
Known(id) ==
    IF up \/ purging # {} THEN IF id \in purging THEN None ELSE records[id]
    ELSE Found(id)

Life(id) ==
    IF Known(id) # None
    THEN IF Known(id).deleted = None THEN "live" ELSE "deleted"
    ELSE IF id \notin used \/ \E r \in Handling(id) : request[r].op = "create"
         THEN "unborn" ELSE "purged"

Store == INSTANCE VoiceLife WITH Ids <- VoiceIds, life <- [id \in VoiceIds |-> Life(id)]
-----------------------------------------------------------------------------
(* Every variable has its type. *)
TypeOK ==
    /\ wav \in [VoiceIds -> {None, Torn, "whole"}]
    /\ side \in [VoiceIds -> Voice \cup {None, Torn}]
    /\ records \in [VoiceIds -> Voice \cup {None}]
    /\ used \in SUBSET VoiceIds
    /\ request \in [Requests -> Working \cup {None}]
    /\ clock \in Time
    /\ up \in BOOLEAN
    /\ purging \in SUBSET VoiceIds
    /\ crashes \in 0..MaxCrashes
    /\ disturbed \in SUBSET VoiceIds

(* Audio and transcript always together: while the gateway serves, every   *)
(* voice it keeps has its recording, whatever was interrupted before: the  *)
(* sidecar is written after the recording and never outlives it into a     *)
(* running gateway.                                                        *)
PairTogether == up => \A id \in VoiceIds : Kept(id) => wav[id] = "whole"

(* Voices persist across gateway restarts, but for one that has no         *)
(* transcript: at rest, a restart finds and keeps every voice the index    *)
(* holds, as the index holds it, and no other; nothing purged or half      *)
(* created comes back, though the disk refused to remove it.  Lost is a    *)
(* voice whose undo window has closed, as it should be, and one whose      *)
(* transcript an update has emptied: load() refuses its sidecar            *)
(* (voices.ts update, voices-index.ts validateVoice).  (Unless two         *)
(* handlers met on that voice or a write failed.)                          *)
RestartChangesNothing ==
    up => \A id \in VoiceIds \ disturbed :
            Handling(id) = {} =>
                Found(id) = IF Kept(id) /\ records[id].said /\ ~ Expired(records[id])
                            THEN records[id] ELSE None

(* The same for the voices in the list, with the gateway killed at any     *)
(* instant.                                                                *)
VoicesSurviveKill == up => \A id \in VoiceIds : Visible(id) => Valid(side[id])

(* disambiguateName: no two voices in the list go by one name. *)
NamesUnique ==
    \A v, w \in VoiceIds : Visible(v) /\ Visible(w) /\ v # w => records[v].name # records[w].name

(* Only a restore brings a deleted voice back, unless two handlers met on  *)
(* it.                                                                     *)
DeletedUntilRestored ==
    [][\A id \in VoiceIds \ disturbed :
         Kept(id) /\ ~ Visible(id) /\ Visible(id)' =>
            \E r \in Handling(id) : request[r].op = "restore"]_vars

(* A deleted voice can be had back inside its undo window and not after.   *)
RestoreOnlyInWindow ==
    [][\A r \in Requests, id \in VoiceIds : Restore(r, id) => ~ Expired(records[id])]_vars
=============================================================================
