------------------------------ MODULE ClipCache ------------------------------
(***************************************************************************)
(* The clip cache (cache.ts, cache-index.ts): clips on disk, an index in   *)
(* memory, and every operation between them several awaits long.           *)
(*                                                                         *)
(* A clip is a payload file and a sidecar.  A write tees the payload,      *)
(* closes it, writes the sidecar, and only then indexes the clip and       *)
(* evicts the oldest ones over the limit.  The process may be killed       *)
(* between any two steps; load() rebuilds the index from the sidecars      *)
(* whose payload has the declared length.                                  *)
(*                                                                         *)
(* A payload is the set of chunk positions it holds; its length is its     *)
(* last position.  Writes under one id are of the same length (the id of a *)
(* cue is a hash of everything its audio depends on).  A write slot is     *)
(* used once: the slots bound how many clips are made, and the order in    *)
(* which they finish stands for the clock.                                 *)
(***************************************************************************)
EXTENDS Naturals, Sequences, FiniteSets, FiniteSetsExt, SequencesExt

CONSTANTS
    Tees,        \* ids of clips teed from /api/speech: fresh, used once
    Cues,        \* ids of script cues: written again after an eviction
    Length,      \* [Ids -> chunks]: the length of the speech
    MaxBytes,    \* cacheMaxBytes, in chunks
    Transports,  \* how POST /api/speech may be configured to answer
    Writers,     \* slots for beginWrite
    Removers,    \* slots for DELETE /api/clips/:id
    Readers,     \* GET /api/clips/:id and the exports
    Boot,        \* the eviction load() ends with
    MaxCrashes,  \* bound on restarts
    MaxRefused,  \* bound on the ids of which the disk refuses something unseen
    None,        \* no file, no record
    Torn         \* a sidecar that does not parse

Ids == Tees \cup Cues
Tasks == Writers \cup Removers \cup {Boot}

ASSUME ClipCacheAssumption ==
    /\ Tees \cap Cues = {}
    /\ Ids # {} /\ IsFiniteSet(Ids)
    /\ IsFiniteSet(Writers) /\ IsFiniteSet(Removers) /\ IsFiniteSet(Readers)
    /\ Writers \cap Removers = {} /\ Tasks \cap Readers = {}
    /\ Boot \notin Writers \cup Removers
    /\ Length \in [Ids -> Nat \ {0}]
    /\ MaxBytes \in Nat
    /\ Transports \subseteq {"streaming", "buffered"}
    /\ MaxCrashes \in Nat /\ MaxRefused \in Nat

VARIABLES
    pcm,        \* payload files
    side,       \* sidecar files
    records,    \* the index
    inflight,   \* #inflight and #resolvers: whose promise is filed under an id
    task,       \* what every operation is doing
    read,       \* what every read is doing
    waiting,    \* the promises a whenIdle() call awaits, or None
    up,         \* the gateway is listening
    crashes,
    contested,  \* ghost: ids on which two operations have overlapped
    refused     \* ghost: ids of which the disk has refused something unseen

vars == <<pcm, side, records, inflight, task, read, waiting, up, crashes, contested, refused>>
disk == <<pcm, side>>
idle == <<inflight, waiting>>

Pos(id) == 1..Length[id]
Chunks  == UNION {Pos(id) : id \in Ids}
Record  == [bytes : Chunks, stamp : Nat]
FileNames == {"pcm", "side"}

(* what stands for nothing, or for half a sidecar, is neither *)
ASSUME MarksAssumption ==
    /\ \A payload \in SUBSET Chunks : payload # None
    /\ None \notin Record /\ None \notin Writers /\ None # Torn /\ Torn \notin Record

(* "linked": the write stream's file is still the one under its name.      *)
(* "rm": the files of "target" still to be unlinked.  "doomed": the rest   *)
(* of an eviction.                                                         *)
TaskRec == [pc : {"new", "open", "write", "sidecar", "torn", "written",
                  "remove", "evict", "leaked", "over"},
            id : Ids, target : Ids, linked : BOOLEAN, flushed : Nat, failed : BOOLEAN,
            stamp : Nat, rm : SUBSET FileNames, doomed : Seq(Ids)]

Size(id) == IF pcm[id] \in {None, {}} THEN 0 ELSE Max(pcm[id])
-----------------------------------------------------------------------------
(* cache-index.ts: oldest first, until the rest fits *)

Indexed(recs) == {id \in Ids : recs[id] # None}

BytesFrom(recs, stamp) ==
    MapThenSumSet(LAMBDA id : recs[id].bytes,
                  {id \in Indexed(recs) : recs[id].stamp >= stamp})

OldestFirst(recs, ids) ==
    CHOOSE s \in SetToSeqs(ids) :
        \A i, j \in DOMAIN s : i < j => recs[s[i]].stamp <= recs[s[j]].stamp

(* mutant: the newest clip is not counted *)
SelectForEvictionLate(recs) ==
    OldestFirst(recs, {id \in Indexed(recs) : BytesFrom(recs, recs[id].stamp + 1) > MaxBytes})

SelectForEviction(recs) ==
    OldestFirst(recs, {id \in Indexed(recs) : BytesFrom(recs, recs[id].stamp) > MaxBytes})

(* #readRecord: what load() would make of an id now *)
Loadable(id) == side[id] \in Record /\ pcm[id] # None /\ Size(id) = side[id].bytes
-----------------------------------------------------------------------------
NewTask(id) == [pc |-> "new", id |-> id, target |-> id, linked |-> FALSE, flushed |-> 0,
                failed |-> FALSE, stamp |-> 0, rm |-> {}, doomed |-> <<>>]

Init ==
    /\ pcm = [id \in Ids |-> None]
    /\ side = [id \in Ids |-> None]
    /\ records = [id \in Ids |-> None]
    /\ inflight = [id \in Ids |-> None]
    /\ task = [t \in Tasks |-> NewTask(CHOOSE id \in Ids : TRUE)]
    /\ read = [r \in Readers |-> None]
    /\ waiting = None
    /\ up = TRUE
    /\ crashes = 0
    /\ contested = {} /\ refused = {}

(* The disk refuses something of id, and nobody is told. *)
Refuses(id) ==
    /\ Cardinality(refused \cup {id}) <= MaxRefused
    /\ refused' = refused \cup {id}

(* #settle resolves the promise filed under the id, whoever filed it, and  *)
(* forgets it.                                                             *)
Settle(id) ==
    /\ inflight' = [inflight EXCEPT ![id] = None]
    /\ waiting' = IF waiting = None THEN None ELSE waiting \ {inflight[id]}

(* The operation is over; a write settles last of all. *)
Over(t) ==
    /\ task' = [task EXCEPT ![t] = [NewTask(task[t].id) EXCEPT !.pc = "over"]]
    /\ IF t \in Writers THEN Settle(task[t].id) ELSE UNCHANGED idle

(* mutant: the files are left behind *)
RemoveFilesNot(t, pc, id, rest) ==
    task' = [task EXCEPT ![t] = [@ EXCEPT !.pc = pc, !.target = id, !.doomed = rest]]

RemoveFiles(t, pc, id, rest) ==
    task' = [task EXCEPT ![t] = [@ EXCEPT !.pc = pc, !.target = id, !.rm = FileNames,
                                          !.doomed = rest]]

(* mutant: the write is settled as soon as it is indexed *)
EvictNextSettled(t, recs, doomed) ==
    IF doomed = <<>>
    THEN records' = recs /\ Over(t)
    ELSE /\ records' = [recs EXCEPT ![Head(doomed)] = None]
         /\ RemoveFiles(t, "evict", Head(doomed), Tail(doomed))
         /\ IF t \in Writers THEN Settle(task[t].id) ELSE UNCHANGED idle

(* evict(): drop the next doomed clip from the index, then unlink it.      *)
EvictNext(t, recs, doomed) ==
    IF doomed = <<>>
    THEN records' = recs /\ Over(t)
    ELSE /\ records' = [recs EXCEPT ![Head(doomed)] = None]
         /\ RemoveFiles(t, "evict", Head(doomed), Tail(doomed))
         /\ UNCHANGED idle
-----------------------------------------------------------------------------
(* beginWrite, and the life of the writer it returns *)

Begin(w, id) ==
    /\ up /\ task[w].pc = "new"
    /\ id \in Tees => \A v \in Writers : task[v].pc # "new" => task[v].id # id
    /\ inflight' = [inflight EXCEPT ![id] = w]
    /\ task' = [task EXCEPT ![w] = [NewTask(id) EXCEPT !.pc = "open"]]
    /\ UNCHANGED <<disk, records, read, waiting, up, crashes, refused>>

(* createWriteStream creates the file or empties the one that is there *)
Opened(w) ==
    /\ up /\ task[w].pc = "open"
    /\ pcm' = [pcm EXCEPT ![task[w].id] = {}]
    /\ task' = [task EXCEPT ![w] = [@ EXCEPT !.pc = "write", !.linked = TRUE]]
    /\ UNCHANGED <<side, records, idle, read, up, crashes, refused>>

(* one more chunk of the body is on the disk *)
Flush(w) ==
    LET id == task[w].id
        n  == task[w].flushed + 1
    IN  /\ up /\ task[w].pc = "write" /\ ~ task[w].failed
        /\ n \in Pos(id)
        /\ pcm' = IF task[w].linked THEN [pcm EXCEPT ![id] = @ \cup {n}] ELSE pcm
        /\ task' = [task EXCEPT ![w] = [@ EXCEPT !.flushed = n]]
        /\ UNCHANGED <<side, records, idle, read, up, crashes, refused>>

(* the stream's 'error' event: nothing more is written *)
DiskFails(w) ==
    /\ up /\ task[w].pc \in {"open", "write"} /\ ~ task[w].failed
    /\ task' = [task EXCEPT ![w] = [@ EXCEPT !.pc = "write", !.failed = TRUE]]
    /\ UNCHANGED <<disk, records, idle, read, up, crashes, refused>>

(* the clock: later than every record made so far, those left on the disk  *)
(* included                                                                *)
Stamps == {0} \cup {task[v].stamp : v \in Writers}
              \cup {records[i].stamp : i \in Indexed(records)}
              \cup {side[i].stamp : i \in {id \in Ids : side[id] \in Record}}

(* finalize: the payload is closed, whole; its record is made now *)
BodyEnds(w) ==
    /\ up /\ task[w].pc = "write" /\ ~ task[w].failed
    /\ task[w].flushed = Length[task[w].id]
    /\ task' = [task EXCEPT ![w] =
                  [@ EXCEPT !.pc = "sidecar",
                            !.stamp = 1 + Max(Stamps)]]
    /\ UNCHANGED <<disk, records, idle, read, up, crashes, refused>>

(* finalize: the last writes fail, and end() has called back before the    *)
(* stream's 'error' event: the record says what was written, not what is   *)
(* on the disk                                                             *)
EndsUnseen(w) ==
    /\ up /\ task[w].pc = "write" /\ ~ task[w].failed
    /\ task[w].flushed < Length[task[w].id]
    /\ Refuses(task[w].id)
    /\ task' = [task EXCEPT ![w] =
                  [@ EXCEPT !.pc = "sidecar", !.flushed = Length[task[w].id],
                            !.stamp = 1 + Max(Stamps)]]
    /\ UNCHANGED <<disk, records, idle, read, up, crashes>>

(* finalize without a payload worth keeping, or abort: the partial file    *)
(* goes.  A cue is put whole, so its body never breaks.                    *)
Abandon(w) ==
    /\ up
    /\ \/ task[w].pc = "write" /\ (task[w].failed \/ task[w].flushed = 0)
       \/ task[w].pc = "write" /\ task[w].id \in Tees /\ "streaming" \in Transports
       \/ task[w].pc = "torn"    \* the sidecar write failed
       \/ task[w].pc = "sidecar"
    /\ RemoveFiles(w, "remove", task[w].id, <<>>)
    /\ UNCHANGED <<disk, records, idle, read, up, crashes, refused>>

(* The body of a buffered reply breaks: the handler throws out of its loop *)
(* and nobody tells the writer.                                            *)
BufferedBreaks(w) ==
    /\ up /\ "buffered" \in Transports /\ task[w].id \in Tees
    /\ task[w].pc \in {"open", "write"}
    /\ task' = [task EXCEPT ![w] = [@ EXCEPT !.pc = "leaked"]]
    /\ UNCHANGED <<disk, records, idle, read, up, crashes, refused>>

(* writeFile opens, and thereby empties, the sidecar; then it is complete  *)
SidecarOpened(w) ==
    /\ up /\ task[w].pc = "sidecar"
    /\ side' = [side EXCEPT ![task[w].id] = Torn]
    /\ task' = [task EXCEPT ![w] = [@ EXCEPT !.pc = "torn"]]
    /\ UNCHANGED <<pcm, records, idle, read, up, crashes, refused>>

MadeRecord(w) == [bytes |-> task[w].flushed, stamp |-> task[w].stamp]

SidecarWritten(w) ==
    /\ up /\ task[w].pc = "torn"
    /\ side' = IF side[task[w].id] = None THEN side
               ELSE [side EXCEPT ![task[w].id] = MadeRecord(w)]
    /\ task' = [task EXCEPT ![w] = [@ EXCEPT !.pc = "written"]]
    /\ UNCHANGED <<pcm, records, idle, read, up, crashes, refused>>

(* back on the event loop: index the clip and make room for it *)
Stored(w) ==
    LET recs == [records EXCEPT ![task[w].id] = MadeRecord(w)]
    IN  /\ up /\ task[w].pc = "written"
        /\ EvictNext(w, recs, SelectForEviction(recs))
        /\ UNCHANGED <<disk, read, up, crashes, refused>>
-----------------------------------------------------------------------------
(* #removeFiles: two independent unlinks.  A stream whose file is unlinked *)
(* goes on writing to a file without a name.                               *)
UnlinkPcm(t) ==
    /\ "pcm" \in task[t].rm
    /\ pcm' = [pcm EXCEPT ![task[t].target] = None]
    /\ task' = [s \in Tasks |->
                  IF s = t THEN [task[s] EXCEPT !.rm = @ \ {"pcm"}]
                  ELSE IF s \in Writers /\ task[s].id = task[t].target
                  THEN [task[s] EXCEPT !.linked = FALSE] ELSE task[s]]
    /\ UNCHANGED <<side, records, idle, read, up, crashes, refused>>

UnlinkSide(t) ==
    /\ "side" \in task[t].rm
    /\ side' = [side EXCEPT ![task[t].target] = None]
    /\ task' = [task EXCEPT ![t] = [task[t] EXCEPT !.rm = @ \ {"side"}]]
    /\ UNCHANGED <<pcm, records, idle, read, up, crashes, refused>>

(* rm's error is swallowed: the file stays where it is *)
UnlinkFails(t) ==
    /\ Refuses(task[t].target)
    /\ \E file \in task[t].rm : task' = [task EXCEPT ![t] = [task[t] EXCEPT !.rm = @ \ {file}]]
    /\ UNCHANGED <<disk, records, idle, read, up, crashes>>

Removed(t) ==
    /\ task[t].pc = "remove" /\ task[t].rm = {}
    /\ Over(t)
    /\ UNCHANGED <<disk, records, read, up, crashes, refused>>

Evicted(t) ==
    /\ task[t].pc = "evict" /\ task[t].rm = {}
    /\ EvictNext(t, records, task[t].doomed)
    /\ up' = (up \/ (t = Boot /\ task[t].doomed = <<>>))
    /\ UNCHANGED <<disk, read, crashes, refused>>

(* DELETE /api/clips/:id, for any id a client may know *)
RemoveClip(d, id) ==
    /\ up /\ task[d].pc = "new"
    /\ records[id] # None \/ \E w \in Writers : task[w].id = id /\ task[w].pc \notin {"new", "over"}
    /\ records' = [records EXCEPT ![id] = None]
    /\ RemoveFiles(d, "remove", id, <<>>)
    /\ UNCHANGED <<disk, idle, read, up, crashes, refused>>
-----------------------------------------------------------------------------
(* readPcm: the record is looked up, then the file is read *)
ReadStart(r, id) ==
    /\ up /\ read[r] = None /\ records[id] # None
    /\ read' = [read EXCEPT ![r] = [id |-> id, bytes |-> records[id].bytes]]
    /\ UNCHANGED <<disk, records, idle, task, up, crashes, refused>>

ReadDone(r) ==
    /\ up /\ read[r] # None
    /\ records' = IF pcm[read[r].id] # None /\ Size(read[r].id) = read[r].bytes
                  THEN records ELSE [records EXCEPT ![read[r].id] = None]
    /\ read' = [read EXCEPT ![r] = None]
    /\ UNCHANGED <<disk, idle, task, up, crashes, refused>>

(* whatever the error is, the clip leaves the index and its files stay *)
ReadFails(r) ==
    /\ up /\ read[r] # None
    /\ Refuses(read[r].id)
    /\ records' = [records EXCEPT ![read[r].id] = None]
    /\ read' = [read EXCEPT ![r] = None]
    /\ UNCHANGED <<disk, idle, task, up, crashes>>

(* whenIdle: wait for the promises filed now, and look again *)
WhenIdle ==
    /\ up
    /\ \/ waiting = None /\ Indexed(inflight) # {}
       \/ waiting = {}
    /\ waiting' = IF Indexed(inflight) = {} THEN None
                  ELSE {inflight[id] : id \in Indexed(inflight)}
    /\ UNCHANGED <<disk, records, inflight, task, read, up, crashes, refused>>
-----------------------------------------------------------------------------
Crash ==
    /\ crashes < MaxCrashes
    /\ crashes' = crashes + 1
    /\ up' = FALSE
    /\ records' = [id \in Ids |-> None]
    /\ inflight' = [id \in Ids |-> None]
    /\ waiting' = None
    /\ read' = [r \in Readers |-> None]
    /\ task' = [t \in Tasks |->
                  IF task[t].pc = "new" \/ t = Boot THEN NewTask(task[t].id)
                  ELSE [NewTask(task[t].id) EXCEPT !.pc = "over"]]
    /\ UNCHANGED <<disk, refused>>

(* load(), before the gateway listens *)
Load ==
    LET recs == [id \in Ids |-> IF Loadable(id) THEN side[id] ELSE None]
        doomed == SelectForEviction(recs)
    IN  /\ ~ up /\ task[Boot].pc = "new"
        /\ EvictNext(Boot, recs, doomed)
        /\ up' = (doomed = <<>>)
        /\ UNCHANGED <<disk, read, crashes, refused>>
-----------------------------------------------------------------------------
TaskStep(t) ==
    \/ UnlinkPcm(t) \/ UnlinkSide(t) \/ UnlinkFails(t) \/ Removed(t) \/ Evicted(t)
    \/ t \in Writers /\ ( \/ Opened(t) \/ Flush(t) \/ DiskFails(t) \/ BodyEnds(t)
                          \/ EndsUnseen(t) \/ Abandon(t) \/ BufferedBreaks(t) \/ SidecarOpened(t)
                          \/ SidecarWritten(t) \/ Stored(t) )

Step ==
    \/ \E w \in Writers, id \in Ids : Begin(w, id)
    \/ \E d \in Removers, id \in Ids : RemoveClip(d, id)
    \/ \E t \in Tasks : TaskStep(t)
    \/ \E r \in Readers : ReadDone(r) \/ ReadFails(r) \/ \E id \in Ids : ReadStart(r, id)
    \/ WhenIdle \/ Crash \/ Load

(* the operations that have an id's files in hand *)
Writing(w) == task[w].pc \in {"open", "write", "sidecar", "torn", "written", "remove", "evict"}

Touching(id) ==
    {w \in Writers : task[w].id = id /\ task[w].pc \in {"open", "write", "sidecar", "torn", "written"}}
    \cup {t \in Tasks : task[t].target = id /\ task[t].pc \in {"remove", "evict"}}
    \cup {r \in Readers : read[r] # None /\ read[r].id = id}

(* ghost: two operations on one id, a write to an id whose last write is   *)
(* still evicting others, or a write to an id that is indexed              *)
WritesOf(id) == {w \in Writers : task[w].id = id /\ Writing(w)}

Contest ==
    contested' =
        contested \cup {id \in Ids :
            \/ Cardinality(Touching(id)') > 1 \/ Cardinality(WritesOf(id)') > 1
            \/ records[id] # None /\ WritesOf(id)' \ WritesOf(id) # {}}

Next == Step /\ Contest

(* the clips of which less is said *)
Excused == contested \cup refused

Spec == Init /\ [][Next]_vars

(* File operations complete, a body ends or breaks (the HTTP client gives  *)
(* up on a silent one), and whenIdle looks again as soon as it can.        *)
FairSpec ==
    /\ Spec
    /\ \A t \in Tasks : WF_vars(TaskStep(t) /\ Contest)
    /\ WF_vars(WhenIdle /\ Contest) /\ WF_vars(Load /\ Contest)

(* What is known of a clip: what the index holds, or load() will find. One *)
(* that is not known but could be loaded has still to be unlinked.         *)
Known(id) == IF up \/ task[Boot].pc # "new" THEN records[id] # None ELSE Loadable(id)

Begun(id)  == \E w \in Writers : task[w].pc # "new" /\ task[w].id = id
Making(id) == \E w \in Writers : /\ task[w].id = id
                                 /\ task[w].pc \in {"open", "write", "sidecar", "torn", "written"}

Life(id) ==
    IF id \in Excused THEN "disputed"
    ELSE IF Known(id) THEN "kept"
    ELSE IF Making(id) THEN "none"
    ELSE IF Loadable(id) THEN "leaving"
    ELSE IF id \in Tees /\ Begun(id) THEN "gone" ELSE "none"

Clips == INSTANCE ClipLife WITH Once <- Tees, Again <- Cues,
                                life <- [id \in Ids |-> Life(id)], kills <- crashes
-----------------------------------------------------------------------------
(* Every variable has its type. *)
TypeOK ==
    /\ pcm \in [Ids -> {None} \cup SUBSET Chunks]
    /\ \A id \in Ids : side[id] \in Record \cup {None, Torn}
    /\ \A id \in Ids : records[id] \in Record \cup {None}
    /\ inflight \in [Ids -> Writers \cup {None}]
    /\ task \in [Tasks -> TaskRec]
    /\ \A r \in Readers : read[r] = None \/ read[r].id \in Ids
    /\ waiting = None \/ waiting \subseteq Writers
    /\ up \in BOOLEAN
    /\ crashes \in 0..MaxCrashes
    /\ contested \subseteq Ids /\ refused \subseteq Ids

(* A clip in the index has its whole payload and its own sidecar on disk,  *)
(* so that a kill at any instant loses no finished clip: the index is      *)
(* written after the sidecar and forgotten before the files go.  And a     *)
(* restart changes nothing: the clips load() would index are the clips     *)
(* that are indexed, so that nothing deleted, evicted or half written      *)
(* comes back.  (Unless two operations met on that id, or the disk refused *)
(* what the code does not look at: an unlink, whose clip a restart finds   *)
(* again; a read, whose clip is dropped with its files in place; the last  *)
(* writes of a payload, which is indexed short.)                           *)
IndexedOnDisk ==
    \A id \in Ids \ Excused :
        /\ records[id] # None => side[id] = records[id] /\ pcm[id] = 1..records[id].bytes
        /\ up /\ Touching(id) = {} => (Loadable(id) <=> records[id] # None)

(* Whatever evictions, writes and deletions overlapped, once none is left  *)
(* under way the cache is within its limit.                                *)
BudgetAtRest ==
    up /\ (\A t \in Tasks : task[t].pc \in {"new", "leaked", "over"})
        => BytesFrom(records, 0) <= MaxBytes

(* whenIdle: resolve once every in-flight tee has finished writing.  Each  *)
(* write under way has its promise on file (unless two operations met on   *)
(* its id: there is one slot for both).                                    *)
EveryWriteAwaited ==
    \A w \in Writers : Writing(w) /\ task[w].id \notin contested => inflight[task[w].id] = w

(* A whenIdle call is answered. *)
WhenIdleReturns == waiting # None ~> waiting = None
=============================================================================
