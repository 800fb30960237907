--------------------------- MODULE ClipCacheProofs ---------------------------
(* The clip cache (cache.ts) for any number of ids, writes, DELETEs, reads *)
(* and kills.  The invariant has two halves.  Ground holds of every clip:  *)
(* what the place an operation is at says of it, that nothing else is      *)
(* under way while load() runs, and that the id of a tee is drawn once.    *)
(* ClipInv holds of a clip nobody contested and the disk refused nothing   *)
(* of: what is on disk, clause by clause for the operation that has it in  *)
(* hand, and for nobody.  The steps that are not about a clip pass it by   *)
(* (Elsewhere); of those that are, one operation makes them and no other   *)
(* has the clip (SoleStep).                                                *)
(* The limit is about the clips together: a sum over the index, of which   *)
(* it is shown that fewer clips hold no more, and what evictions under way *)
(* have still to drop (LimitInv).  At the end: seen from outside the files *)
(* a clip lives as ClipLife says, where a kill is a step of the promise.   *)
EXTENDS ClipCache, FiniteSetTheorems, TLAPS

WritePcs  == {"open", "write", "sidecar", "torn", "written"}
RemovePcs == {"remove", "evict"}
Pcs == {"new", "leaked", "over"} \cup WritePcs \cup RemovePcs

TasksOver(T, D) ==
    [pc : Pcs, id : Ids, target : T, linked : BOOLEAN, flushed : Nat, failed : BOOLEAN,
     stamp : Nat, rm : SUBSET FileNames, doomed : D]
IsTask(x) == \E T, D : x \in TasksOver(T, D)

(* The types the argument needs; what is doomed is left untyped.           *)
Shapes ==
    /\ pcm \in [Ids -> {None} \cup SUBSET Chunks]
    /\ side \in [Ids -> Record \cup {None, Torn}]
    /\ records \in [Ids -> Record \cup {None}]
    /\ inflight = [id \in Ids |-> inflight[id]]
    /\ task = [t \in Tasks |-> task[t]]
    /\ \A t \in Tasks : IsTask(task[t])
    /\ read = [r \in Readers |-> read[r]]
    /\ \A r \in Readers : read[r] # None => read[r].id \in Ids
    /\ up \in BOOLEAN

(* What the place an operation is at says, whoever else is at work.        *)
TaskFlow(t) ==
    /\ task[t].pc \notin RemovePcs => task[t].rm = {}
    /\ task[t].pc \in {"sidecar", "torn", "written"} => task[t].flushed = Length[task[t].id]
    /\ task[t].pc = "open" => ~ task[t].failed /\ ~ task[t].linked /\ task[t].flushed = 0
    /\ t \notin Writers => task[t].pc \in {"new", "over"} \cup RemovePcs
    /\ task[t].pc = "write" /\ task[t].linked => pcm[task[t].id] # None
Flow == \A t \in Tasks : TaskFlow(t)

(* Before the gateway listens there is only what load() does.              *)
Phase ==
    /\ up => task[Boot].pc \in {"new", "over"}
    /\ ~ up => /\ \A t \in Tasks \ {Boot} : task[t].pc \in {"new", "over"}
               /\ \A r \in Readers : read[r] = None
               /\ task[Boot].pc = "new" => \A id \in Ids : records[id] = None

(* The id of a tee is drawn once, and its sidecar is late.                 *)
Late == {"torn", "written", "over"} \cup RemovePcs
TeesOnce ==
    /\ \A v, w \in Writers :
         task[v].pc # "new" /\ task[w].pc # "new" /\ task[v].id = task[w].id
            => task[v].id \in Cues \/ v = w
    /\ \A id \in Tees : side[id] # None =>
         \E w \in Writers : task[w].id = id /\ task[w].pc \in Late

Ground == Shapes /\ Flow /\ Phase /\ TeesOnce

(* Without contest there is one operation at a time, and one write.        *)
Alone ==
    \A id \in Ids \ contested :
        /\ \A x, y \in Touching(id) : x = y
        /\ \A v, w \in WritesOf(id) : v = w

(* For a clip nobody contested, of which the disk refused nothing unseen:  *)
Whole(id) == records[id] # None => side[id] = records[id] /\ pcm[id] = 1..records[id].bytes
Unbroken(id) == pcm[id] = None \/ \E n \in 0..Length[id] : pcm[id] = 1..n
RemoveClause(t, id) ==
    task[t].pc \in RemovePcs /\ task[t].target = id =>
        /\ records[id] = None
        /\ "pcm" \notin task[t].rm => pcm[id] = None
        /\ "side" \notin task[t].rm => side[id] = None
WriteClause(w, id) ==
    task[w].pc \in WritePcs /\ task[w].id = id =>
        /\ records[id] = None
        /\ task[w].pc = "write" /\ ~ task[w].failed =>
              task[w].linked /\ pcm[id] = 1..task[w].flushed
        /\ task[w].pc \in {"sidecar", "torn", "written"} => pcm[id] = 1..task[w].flushed
        /\ task[w].pc = "torn" => side[id] = Torn
        /\ task[w].pc = "written" => side[id] = MadeRecord(w)
BeingRemoved(id) == \A t \in Tasks : RemoveClause(t, id)
BeingWritten(id) == \A w \in Writers : WriteClause(w, id)
BeingRead(id) ==
    \A r \in Readers : read[r] # None /\ read[r].id = id =>
        records[id] # None /\ read[r].bytes = records[id].bytes
AtRest(id) ==
    (up \/ task[Boot].pc # "new") /\ Touching(id) = {} => (Loadable(id) <=> records[id] # None)

ClipInv(id) ==
    /\ Whole(id) /\ Unbroken(id) /\ BeingRemoved(id) /\ BeingWritten(id) /\ BeingRead(id)
    /\ AtRest(id)

CacheInv == Ground /\ Alone /\ \A id \in Ids \ Excused : ClipInv(id)
-----------------------------------------------------------------------------
(* Numbers.                                                                *)

(* A finite set of naturals has a greatest element.                        *)
LEMMA MaxOfFinite ==
    ASSUME NEW S \in SUBSET Nat, S # {}, IsFiniteSet(S)
    PROVE  Max(S) \in S /\ \A m \in S : Max(S) >= m
<1> DEFINE above(n) == {m \in S : m > n}
<1> DEFINE B == {above(n) : n \in S}
<1>1. B \subseteq SUBSET S /\ B # {}
  OBVIOUS
<1>2. IsWellFoundedOn(StrictSubsetOrdering(S), SUBSET S)
  BY FS_StrictSubsetOrderingWellFounded, FS_FiniteSubsetsOfFinite
<1>3. PICK b \in B : \A c \in B : <<c, b>> \notin StrictSubsetOrdering(S)
  <2> HIDE DEF B
  <2> QED
    BY <1>1, <1>2, WFMin, Zenon
<1>4. PICK n \in S : b = above(n)
  OBVIOUS
<1>5. ASSUME NEW m \in S, m > n
      PROVE  FALSE
  <2>1. m \in above(n) /\ m \notin above(m)
    BY <1>5
  <2>2. above(m) \subseteq above(n)
    <3> SUFFICES ASSUME NEW k \in S, k > m
                 PROVE  k > n
      OBVIOUS
    <3>1. k \in Nat /\ m \in Nat /\ n \in Nat
      OBVIOUS
    <3> QED
      BY <1>5, <3>1
  <2>3. above(m) \in B /\ above(m) # above(n) /\ above(n) \subseteq S
    BY <2>1
  <2>4. <<above(m), above(n)>> \in StrictSubsetOrdering(S)
    <3> HIDE DEF above
    <3> QED
      BY <2>2, <2>3 DEF StrictSubsetOrdering
  <2> QED
    BY <1>3, <1>4, <2>3, <2>4
<1>6. \A m \in S : n >= m
  BY <1>5
<1> QED
  BY <1>6 DEF Max

(* The greatest of the first n numbers.                                    *)
LEMMA MaxOfInterval ==
    ASSUME NEW n \in Nat, n # 0
    PROVE  Max(1..n) = n
<1>1. 1..n \in SUBSET Nat /\ n \in 1..n /\ IsFiniteSet(1..n)
  BY FS_Interval
<1>2. Max(1..n) \in 1..n /\ Max(1..n) >= n
  BY <1>1, MaxOfFinite
<1> QED
  BY <1>2

(* Every clip has a length, and every position in it is a chunk.           *)
LEMMA ChunksAreNumbers ==
    /\ \A id \in Ids : Length[id] \in Nat /\ Length[id] # 0 /\ Pos(id) \subseteq Chunks
    /\ Chunks \subseteq Nat \ {0}
    /\ \A n \in Chunks : 1..n \subseteq Chunks
<1>1. \A id \in Ids : Length[id] \in Nat /\ Length[id] # 0
  BY ClipCacheAssumption
<1>2. ASSUME NEW n \in Chunks
      PROVE  n \in Nat \ {0} /\ 1..n \subseteq Chunks
  <2>1. PICK id \in Ids : n \in 1..Length[id]
    BY DEF Chunks, Pos
  <2>2. 1..n \subseteq Pos(id)
    BY <1>1, <2>1 DEF Pos
  <2> QED
    BY <1>1, <2>1, <2>2 DEF Chunks
<1> QED
  BY <1>1, <1>2 DEF Chunks

(* The length of a payload without a gap is the number of its chunks.      *)
LEMMA SizeOfWhole ==
    ASSUME NEW id \in Ids, NEW n \in Nat, n = 0 \/ n \in Chunks, pcm[id] = 1..n
    PROVE  Size(id) = n /\ pcm[id] # None
<1>1. CASE n = 0
  <2>1. pcm[id] = {} /\ {} \in SUBSET Chunks
    BY <1>1
  <2> QED
    BY <1>1, <2>1, MarksAssumption DEF Size
<1>2. CASE n # 0
  <2>1. 1..n \in SUBSET Chunks /\ 1 \in 1..n
    BY <1>2, ChunksAreNumbers
  <2>2. pcm[id] # None /\ pcm[id] # {}
    BY <2>1, MarksAssumption
  <2> QED
    BY <1>2, <2>2, MaxOfInterval DEF Size
<1> QED
  BY <1>1, <1>2

(* The fields of a task that the argument speaks of.                       *)
LEMMA TaskFields ==
    ASSUME NEW x, IsTask(x)
    PROVE  /\ x.pc \in Pcs /\ x.id \in Ids /\ x.flushed \in Nat /\ x.stamp \in Nat
           /\ x.rm \subseteq FileNames /\ x.linked \in BOOLEAN /\ x.failed \in BOOLEAN
  BY DEF IsTask, TasksOver

(* The clock has a reading: the records and the writes made so far are     *)
(* finitely many.                                                          *)
LEMMA StampsAreNumbers ==
    ASSUME Shapes
    PROVE  Max(Stamps) \in Nat
<1> DEFINE T == {task[v].stamp : v \in Writers}
           R == {records[i].stamp : i \in Indexed(records)}
           parsed == {id \in Ids : side[id] \in Record}
           D == {side[i].stamp : i \in parsed}
<1>1. T \subseteq Nat
  BY TaskFields DEF Shapes, Tasks
<1>2. R \subseteq Nat
  BY DEF Shapes, Indexed, Record
<1>3. D \subseteq Nat
  BY DEF Record
<1>4. IsFiniteSet(T)
  <2>1. [v \in Writers |-> task[v].stamp] \in Surjection(Writers, T)
    BY DEF Surjection
  <2> QED
    BY <2>1, FS_Surjection, ClipCacheAssumption DEF ExistsSurjection
<1>5. IsFiniteSet(R)
  <2>1. IsFiniteSet(Indexed(records))
    BY FS_Subset, ClipCacheAssumption DEF Indexed
  <2>2. [i \in Indexed(records) |-> records[i].stamp] \in Surjection(Indexed(records), R)
    BY DEF Surjection
  <2> QED
    BY <2>1, <2>2, FS_Surjection DEF ExistsSurjection
<1>6. IsFiniteSet(D)
  <2>1. IsFiniteSet(parsed)
    BY FS_Subset, ClipCacheAssumption
  <2> HIDE DEF parsed
  <2>2. [i \in parsed |-> side[i].stamp] \in Surjection(parsed, D)
    BY DEF Surjection
  <2> QED
    BY <2>1, <2>2, FS_Surjection DEF ExistsSurjection
<1>7. IsFiniteSet({0} \cup T \cup R \cup D)
  BY <1>4, <1>5, <1>6, FS_Singleton, FS_Union
<1>8. Stamps = {0} \cup T \cup R \cup D
  BY DEF Stamps
<1> HIDE DEF T, R, D
<1>9. Stamps \in SUBSET Nat /\ Stamps # {} /\ IsFiniteSet(Stamps)
  BY <1>1, <1>2, <1>3, <1>7, <1>8
<1> QED
  BY <1>9, MaxOfFinite

-----------------------------------------------------------------------------
(* What the steps are made of.                                             *)

(* Task t changes, and of the others at most whether their file is linked. *)
Only(t) ==
    /\ task' = [s \in Tasks |-> task'[s]]
    /\ IsTask(task'[t])
    /\ \A s \in Tasks \ {t} : task'[s] = task[s]

(* One change of one task.                                                 *)
LEMMA TaskExcept ==
    ASSUME Shapes, NEW t \in Tasks, NEW new, IsTask(new), task' = [task EXCEPT ![t] = new]
    PROVE  task'[t] = new /\ Only(t)
<1>1. task = [s \in Tasks |-> task[s]]
  BY DEF Shapes
<1>2. /\ task'[t] = new
      /\ \A s \in Tasks \ {t} : task'[s] = task[s]
      /\ task' = [s \in Tasks |-> task'[s]]
  BY <1>1
<1> QED
  BY <1>2 DEF Only

TaskAt(id, pc) == [NewTask(id) EXCEPT !.pc = pc]

(* A task that has just begun, or has just ended.                          *)
LEMMA NewTaskType ==
    ASSUME NEW id \in Ids, NEW pc \in Pcs, NEW new, new = TaskAt(id, pc)
    PROVE  /\ IsTask(new) /\ new.pc = pc /\ new.id = id /\ new.rm = {} /\ new.flushed = 0
           /\ new.stamp = 0 /\ ~ new.failed /\ ~ new.linked /\ new.target = id
<1>1. NewTask(id) \in TasksOver({id}, {<<>>})
  BY DEF NewTask, TasksOver, Pcs
<1>2. new \in TasksOver({id}, {<<>>})
  BY <1>1 DEF TasksOver, TaskAt
<1>3. /\ new.pc = pc /\ new.id = id /\ new.rm = {} /\ new.flushed = 0
      /\ new.stamp = 0 /\ ~ new.failed /\ ~ new.linked /\ new.target = id
  BY DEF NewTask, TaskAt
<1> QED
  BY <1>2, <1>3 DEF IsTask

(* A task that has not begun.                                              *)
LEMMA FreshTask ==
    ASSUME NEW id \in Ids, NEW new, new = NewTask(id)
    PROVE  IsTask(new) /\ new.pc = "new" /\ new.id = id /\ new.rm = {}
<1>1. new \in TasksOver({id}, {<<>>})
  BY DEF NewTask, TasksOver, Pcs
<1> QED
  BY <1>1 DEF NewTask, IsTask

(* The end of an operation.                                                *)
LEMMA OverFrame ==
    ASSUME Shapes, NEW t \in Tasks, Over(t)
    PROVE  /\ Only(t)
           /\ task'[t].pc = "over" /\ task'[t].id = task[t].id /\ task'[t].rm = {}
           /\ ~ task'[t].linked
           /\ inflight' = [id \in Ids |-> inflight'[id]]
<1>1. task[t].id \in Ids
  BY TaskFields DEF Shapes
<1>2. task' = [task EXCEPT ![t] = TaskAt(task[t].id, "over")]
  BY DEF Over, TaskAt
<1>3. "over" \in Pcs
  BY DEF Pcs
<1>4. PICK new : new = TaskAt(task[t].id, "over")
  OBVIOUS
<1>5. /\ IsTask(new) /\ new.pc = "over" /\ new.id = task[t].id /\ new.rm = {} /\ ~ new.linked
  BY <1>1, <1>3, <1>4, NewTaskType
<1>6. task'[t] = new /\ Only(t)
  BY <1>2, <1>4, <1>5, TaskExcept
<1>7. inflight' = [id \in Ids |-> inflight'[id]]
  <2>1. inflight = [id \in Ids |-> inflight[id]]
    BY DEF Shapes
  <2>2. inflight' = inflight \/ inflight' = [inflight EXCEPT ![task[t].id] = None]
    BY DEF Over, Settle, idle
  <2> QED
    BY <2>1, <2>2
<1> QED
  BY <1>5, <1>6, <1>7

(* An operation takes two files in hand to unlink them.                    *)
LEMMA RemoveFrame ==
    ASSUME Shapes, NEW t \in Tasks, NEW pc \in RemovePcs, NEW id, NEW rest,
           RemoveFiles(t, pc, id, rest)
    PROVE  /\ Only(t)
           /\ task'[t].pc = pc /\ task'[t].id = task[t].id /\ task'[t].target = id
           /\ task'[t].rm = FileNames
<1> DEFINE new == [task[t] EXCEPT !.pc = pc, !.target = id, !.rm = FileNames, !.doomed = rest]
<1>1. IsTask(task[t])
  BY DEF Shapes
<1>2. /\ new.pc = pc /\ new.id = task[t].id /\ new.target = id /\ new.rm = FileNames
      /\ IsTask(new)
  <2>1. PICK T, D : task[t] \in TasksOver(T, D)
    BY <1>1 DEF IsTask
  <2>2. task[t] \in TasksOver(T \cup {id}, D \cup {rest}) /\ pc \in Pcs
    BY <2>1 DEF TasksOver, Pcs
  <2>3. new \in TasksOver(T \cup {id}, D \cup {rest})
    BY <2>2 DEF TasksOver
  <2>4. new.pc = pc /\ new.id = task[t].id /\ new.target = id /\ new.rm = FileNames
    BY <2>2 DEF TasksOver
  <2> QED
    BY <2>3, <2>4 DEF IsTask
<1>3. task' = [task EXCEPT ![t] = new]
  BY DEF RemoveFiles
<1> HIDE DEF new
<1>4. task'[t] = new /\ Only(t)
  BY <1>2, <1>3, TaskExcept
<1> QED
  BY <1>2, <1>4

(* evict(): the operation is over, or takes the next clip in hand.         *)
LEMMA EvictFrame ==
    ASSUME Shapes, NEW t \in Tasks, NEW recs \in [Ids -> Record \cup {None}], NEW doomed,
           EvictNext(t, recs, doomed)
    PROVE  /\ Only(t)
           /\ records' \in [Ids -> Record \cup {None}]
           /\ inflight' = [id \in Ids |-> inflight'[id]]
           /\ task'[t].id = task[t].id
           /\ \/ /\ doomed = <<>> /\ records' = recs
                 /\ task'[t].pc = "over" /\ task'[t].rm = {} /\ ~ task'[t].linked
              \/ /\ doomed # <<>> /\ task'[t].pc = "evict" /\ task'[t].rm = FileNames
                 /\ task'[t].target \in Ids => records'[task'[t].target] = None
                 /\ \A v \in Ids : v # task'[t].target => records'[v] = recs[v]
<1>1. CASE doomed = <<>>
  <2>1. Over(t) /\ records' = recs
    BY <1>1 DEF EvictNext
  <2> QED
    BY <1>1, <2>1, OverFrame
<1>2. CASE doomed # <<>>
  <2>1. /\ records' = [recs EXCEPT ![Head(doomed)] = None]
        /\ RemoveFiles(t, "evict", Head(doomed), Tail(doomed))
        /\ inflight' = inflight
    BY <1>2 DEF EvictNext, idle
  <2>2. /\ Only(t) /\ task'[t].pc = "evict" /\ task'[t].id = task[t].id
        /\ task'[t].target = Head(doomed) /\ task'[t].rm = FileNames
    BY <2>1, RemoveFrame DEF RemovePcs
  <2>3. /\ Head(doomed) \in Ids => records'[Head(doomed)] = None
        /\ \A v \in Ids : v # Head(doomed) => records'[v] = recs[v]
        /\ records' \in [Ids -> Record \cup {None}]
    BY <2>1
  <2>4. inflight' = [id \in Ids |-> inflight'[id]]
    BY <2>1 DEF Shapes
  <2> QED
    BY <1>2, <2>2, <2>3, <2>4
<1> QED
  BY <1>1, <1>2

(* The steps of a writer.                                                  *)
LEMMA OpenedFrame ==
    ASSUME Shapes, NEW w \in Writers, Opened(w)
    PROVE  /\ Only(w)
           /\ task'[w].pc = "write" /\ task'[w].linked /\ task'[w].id = task[w].id
           /\ task'[w].rm = task[w].rm /\ task'[w].flushed = task[w].flushed
           /\ task'[w].failed = task[w].failed
<1> DEFINE new == [task[w] EXCEPT !.pc = "write", !.linked = TRUE]
<1>1. task' = [task EXCEPT ![w] = new]
  BY DEF Opened
<1>2. IsTask(task[w]) /\ w \in Tasks
  BY DEF Shapes, Tasks
<1>3. PICK T, D : task[w] \in TasksOver(T, D)
  BY <1>2 DEF IsTask
<1>4. new \in TasksOver(T, D)
  BY <1>3 DEF TasksOver, Pcs, WritePcs
<1>5. /\ new.pc = "write" /\ new.linked /\ new.id = task[w].id
      /\ new.rm = task[w].rm /\ new.flushed = task[w].flushed
      /\ new.failed = task[w].failed
  BY <1>3 DEF TasksOver
<1> HIDE DEF new
<1>6. IsTask(new)
  BY <1>4 DEF IsTask
<1>7. task'[w] = new /\ Only(w)
  BY <1>1, <1>2, <1>6, TaskExcept
<1> QED
  BY <1>5, <1>7

(* One more chunk.                                                         *)
LEMMA FlushFrame ==
    ASSUME Shapes, NEW w \in Writers, Flush(w)
    PROVE  /\ Only(w)
           /\ task'[w].flushed = task[w].flushed + 1 /\ task'[w].pc = task[w].pc
           /\ task'[w].id = task[w].id /\ task'[w].rm = task[w].rm
           /\ task'[w].linked = task[w].linked /\ task'[w].failed = task[w].failed
<1> DEFINE new == [task[w] EXCEPT !.flushed = task[w].flushed + 1]
<1>1. task' = [task EXCEPT ![w] = new]
  BY DEF Flush
<1>2. IsTask(task[w]) /\ w \in Tasks
  BY DEF Shapes, Tasks
<1>3. PICK T, D : task[w] \in TasksOver(T, D)
  BY <1>2 DEF IsTask
<1>4. new \in TasksOver(T, D)
  BY <1>3 DEF TasksOver, Pcs, WritePcs
<1>5. /\ new.flushed = task[w].flushed + 1 /\ new.pc = task[w].pc
      /\ new.id = task[w].id /\ new.rm = task[w].rm
      /\ new.linked = task[w].linked /\ new.failed = task[w].failed
  BY <1>3 DEF TasksOver
<1> HIDE DEF new
<1>6. IsTask(new)
  BY <1>4 DEF IsTask
<1>7. task'[w] = new /\ Only(w)
  BY <1>1, <1>2, <1>6, TaskExcept
<1> QED
  BY <1>5, <1>7

(* The stream errs.                                                        *)
LEMMA DiskFailsFrame ==
    ASSUME Shapes, NEW w \in Writers, DiskFails(w)
    PROVE  /\ Only(w)
           /\ task'[w].pc = "write" /\ task'[w].failed /\ task'[w].id = task[w].id
           /\ task'[w].rm = task[w].rm /\ task'[w].linked = task[w].linked
<1> DEFINE new == [task[w] EXCEPT !.pc = "write", !.failed = TRUE]
<1>1. task' = [task EXCEPT ![w] = new]
  BY DEF DiskFails
<1>2. IsTask(task[w]) /\ w \in Tasks
  BY DEF Shapes, Tasks
<1>3. PICK T, D : task[w] \in TasksOver(T, D)
  BY <1>2 DEF IsTask
<1>4. new \in TasksOver(T, D)
  BY <1>3 DEF TasksOver, Pcs, WritePcs
<1>5. /\ new.pc = "write" /\ new.failed /\ new.id = task[w].id
      /\ new.rm = task[w].rm /\ new.linked = task[w].linked
  BY <1>3 DEF TasksOver
<1> HIDE DEF new
<1>6. IsTask(new)
  BY <1>4 DEF IsTask
<1>7. task'[w] = new /\ Only(w)
  BY <1>1, <1>2, <1>6, TaskExcept
<1> QED
  BY <1>5, <1>7

(* The payload is closed, and its record made.                             *)
LEMMA BodyEndsFrame ==
    ASSUME Shapes, NEW w \in Writers, BodyEnds(w)
    PROVE  /\ Only(w)
           /\ task'[w].pc = "sidecar" /\ task'[w].id = task[w].id /\ task'[w].rm = task[w].rm
           /\ task'[w].flushed = task[w].flushed
<1> DEFINE new == [task[w] EXCEPT !.pc = "sidecar", !.stamp = 1 + Max(Stamps)]
<1>1. task' = [task EXCEPT ![w] = new]
  BY DEF BodyEnds
<1>2. IsTask(task[w]) /\ w \in Tasks
  BY DEF Shapes, Tasks
<1>3. PICK T, D : task[w] \in TasksOver(T, D)
  BY <1>2 DEF IsTask
<1>4. new \in TasksOver(T, D)
  <2>1. 1 + Max(Stamps) \in Nat
    BY StampsAreNumbers
  <2> QED
    BY <1>3, <2>1 DEF TasksOver, Pcs, WritePcs
<1>5. /\ new.pc = "sidecar" /\ new.id = task[w].id /\ new.rm = task[w].rm
      /\ new.flushed = task[w].flushed
  BY <1>3 DEF TasksOver
<1> HIDE DEF new
<1>6. IsTask(new)
  BY <1>4 DEF IsTask
<1>7. task'[w] = new /\ Only(w)
  BY <1>1, <1>2, <1>6, TaskExcept
<1> QED
  BY <1>5, <1>7

(* The payload is closed short, and nobody has seen it.                    *)
LEMMA EndsUnseenFrame ==
    ASSUME Shapes, NEW w \in Writers, EndsUnseen(w)
    PROVE  /\ Only(w)
           /\ task'[w].pc = "sidecar" /\ task'[w].id = task[w].id /\ task'[w].rm = task[w].rm
           /\ task'[w].flushed = Length[task[w].id]
<1> DEFINE new == [task[w] EXCEPT !.pc = "sidecar", !.flushed = Length[task[w].id],
                                  !.stamp = 1 + Max(Stamps)]
<1>1. task' = [task EXCEPT ![w] = new]
  BY DEF EndsUnseen
<1>2. IsTask(task[w]) /\ w \in Tasks
  BY DEF Shapes, Tasks
<1>3. PICK T, D : task[w] \in TasksOver(T, D)
  BY <1>2 DEF IsTask
<1>4. new \in TasksOver(T, D)
  <2>1. 1 + Max(Stamps) \in Nat
    BY StampsAreNumbers
  <2>2. Length[task[w].id] \in Nat
    BY <1>2, TaskFields, ChunksAreNumbers
  <2> QED
    BY <1>3, <2>1, <2>2 DEF TasksOver, Pcs, WritePcs
<1>5. /\ new.pc = "sidecar" /\ new.id = task[w].id /\ new.rm = task[w].rm
      /\ new.flushed = Length[task[w].id]
  BY <1>3 DEF TasksOver
<1> HIDE DEF new
<1>6. IsTask(new)
  BY <1>4 DEF IsTask
<1>7. task'[w] = new /\ Only(w)
  BY <1>1, <1>2, <1>6, TaskExcept
<1> QED
  BY <1>5, <1>7

(* The handler throws, and the writer is left.                             *)
LEMMA BufferedBreaksFrame ==
    ASSUME Shapes, NEW w \in Writers, BufferedBreaks(w)
    PROVE  /\ Only(w)
           /\ task'[w].pc = "leaked" /\ task'[w].id = task[w].id /\ task'[w].rm = task[w].rm
<1> DEFINE new == [task[w] EXCEPT !.pc = "leaked"]
<1>1. task' = [task EXCEPT ![w] = new]
  BY DEF BufferedBreaks
<1>2. IsTask(task[w]) /\ w \in Tasks
  BY DEF Shapes, Tasks
<1>3. PICK T, D : task[w] \in TasksOver(T, D)
  BY <1>2 DEF IsTask
<1>4. new \in TasksOver(T, D)
  BY <1>3 DEF TasksOver, Pcs, WritePcs
<1>5. /\ new.pc = "leaked" /\ new.id = task[w].id /\ new.rm = task[w].rm
  BY <1>3 DEF TasksOver
<1> HIDE DEF new
<1>6. IsTask(new)
  BY <1>4 DEF IsTask
<1>7. task'[w] = new /\ Only(w)
  BY <1>1, <1>2, <1>6, TaskExcept
<1> QED
  BY <1>5, <1>7

(* The sidecar is emptied.                                                 *)
LEMMA SidecarOpenedFrame ==
    ASSUME Shapes, NEW w \in Writers, SidecarOpened(w)
    PROVE  /\ Only(w)
           /\ task'[w].pc = "torn" /\ task'[w].id = task[w].id /\ task'[w].rm = task[w].rm
           /\ task'[w].flushed = task[w].flushed
<1> DEFINE new == [task[w] EXCEPT !.pc = "torn"]
<1>1. task' = [task EXCEPT ![w] = new]
  BY DEF SidecarOpened
<1>2. IsTask(task[w]) /\ w \in Tasks
  BY DEF Shapes, Tasks
<1>3. PICK T, D : task[w] \in TasksOver(T, D)
  BY <1>2 DEF IsTask
<1>4. new \in TasksOver(T, D)
  BY <1>3 DEF TasksOver, Pcs, WritePcs
<1>5. /\ new.pc = "torn" /\ new.id = task[w].id /\ new.rm = task[w].rm
      /\ new.flushed = task[w].flushed
  BY <1>3 DEF TasksOver
<1> HIDE DEF new
<1>6. IsTask(new)
  BY <1>4 DEF IsTask
<1>7. task'[w] = new /\ Only(w)
  BY <1>1, <1>2, <1>6, TaskExcept
<1> QED
  BY <1>5, <1>7

(* The sidecar is complete.                                                *)
LEMMA SidecarWrittenFrame ==
    ASSUME Shapes, NEW w \in Writers, SidecarWritten(w)
    PROVE  /\ Only(w)
           /\ task'[w].pc = "written" /\ task'[w].id = task[w].id /\ task'[w].rm = task[w].rm
           /\ task'[w].flushed = task[w].flushed /\ task'[w].stamp = task[w].stamp
<1> DEFINE new == [task[w] EXCEPT !.pc = "written"]
<1>1. task' = [task EXCEPT ![w] = new]
  BY DEF SidecarWritten
<1>2. IsTask(task[w]) /\ w \in Tasks
  BY DEF Shapes, Tasks
<1>3. PICK T, D : task[w] \in TasksOver(T, D)
  BY <1>2 DEF IsTask
<1>4. new \in TasksOver(T, D)
  BY <1>3 DEF TasksOver, Pcs, WritePcs
<1>5. /\ new.pc = "written" /\ new.id = task[w].id /\ new.rm = task[w].rm
      /\ new.flushed = task[w].flushed /\ new.stamp = task[w].stamp
  BY <1>3 DEF TasksOver
<1> HIDE DEF new
<1>6. IsTask(new)
  BY <1>4 DEF IsTask
<1>7. task'[w] = new /\ Only(w)
  BY <1>1, <1>2, <1>6, TaskExcept
<1> QED
  BY <1>5, <1>7

(* A slot begins to write.                                                 *)
LEMMA BeginFrame ==
    ASSUME Shapes, NEW w \in Writers, NEW id \in Ids, Begin(w, id)
    PROVE  /\ Only(w) /\ task[w].pc = "new"
           /\ task'[w].pc = "open" /\ task'[w].id = id /\ task'[w].rm = {}
           /\ task'[w].flushed = 0 /\ ~ task'[w].failed /\ ~ task'[w].linked
<1>1. task' = [task EXCEPT ![w] = TaskAt(id, "open")] /\ task[w].pc = "new"
  BY DEF Begin, TaskAt
<1>2. "open" \in Pcs /\ w \in Tasks
  BY DEF Pcs, WritePcs, Tasks
<1>3. PICK new : new = TaskAt(id, "open")
  OBVIOUS
<1>4. /\ IsTask(new) /\ new.pc = "open" /\ new.id = id /\ new.rm = {} /\ new.flushed = 0
      /\ ~ new.failed /\ ~ new.linked
  BY <1>2, <1>3, NewTaskType
<1>5. task'[w] = new /\ Only(w)
  BY <1>1, <1>2, <1>3, <1>4, TaskExcept
<1> QED
  BY <1>1, <1>4, <1>5

(* The two unlinks.                                                        *)
LEMMA UnlinkSideFrame ==
    ASSUME Shapes, NEW t \in Tasks, UnlinkSide(t)
    PROVE  /\ Only(t)
           /\ task'[t].pc = task[t].pc /\ task'[t].id = task[t].id
           /\ task'[t].target = task[t].target /\ task'[t].rm = task[t].rm \ {"side"}
           /\ task'[t].flushed = task[t].flushed /\ task'[t].failed = task[t].failed
           /\ task'[t].linked = task[t].linked
<1> DEFINE new == [task[t] EXCEPT !.rm = task[t].rm \ {"side"}]
<1>1. task' = [task EXCEPT ![t] = new]
  BY DEF UnlinkSide
<1>2. PICK T, D : task[t] \in TasksOver(T, D)
  BY DEF IsTask, Shapes
<1>3. new \in TasksOver(T, D)
  BY <1>2 DEF TasksOver
<1>4. /\ new.pc = task[t].pc /\ new.id = task[t].id /\ new.target = task[t].target
      /\ new.rm = task[t].rm \ {"side"} /\ new.flushed = task[t].flushed
      /\ new.failed = task[t].failed /\ new.linked = task[t].linked
  BY <1>2 DEF TasksOver
<1> HIDE DEF new
<1>5. task'[t] = new /\ Only(t)
  BY <1>1, <1>3, TaskExcept DEF IsTask
<1> QED
  BY <1>4, <1>5

(* An unlink that fails, unseen.                                           *)
LEMMA UnlinkFailsFrame ==
    ASSUME Shapes, NEW t \in Tasks, UnlinkFails(t)
    PROVE  /\ Only(t)
           /\ task'[t].pc = task[t].pc /\ task'[t].id = task[t].id
           /\ task'[t].target = task[t].target
           /\ task[t].rm # {} /\ task'[t].rm \subseteq task[t].rm
           /\ task'[t].doomed = task[t].doomed
<1>1. PICK file \in task[t].rm :
         task' = [task EXCEPT ![t] = [task[t] EXCEPT !.rm = @ \ {file}]]
  BY DEF UnlinkFails
<1> DEFINE new == [task[t] EXCEPT !.rm = task[t].rm \ {file}]
<1>2. task' = [task EXCEPT ![t] = new]
  BY <1>1
<1>3. PICK T, D : task[t] \in TasksOver(T, D)
  BY DEF IsTask, Shapes
<1>4. new \in TasksOver(T, D)
  BY <1>3 DEF TasksOver
<1>5. /\ new.pc = task[t].pc /\ new.id = task[t].id /\ new.target = task[t].target
      /\ new.rm = task[t].rm \ {file} /\ new.doomed = task[t].doomed
  BY <1>3 DEF TasksOver
<1> HIDE DEF new
<1>6. task'[t] = new /\ Only(t)
  BY <1>2, <1>4, TaskExcept DEF IsTask
<1> QED
  BY <1>1, <1>5, <1>6

(* What a task that is not unlinking keeps.                                *)
Kin(x, y) ==
    /\ y.pc = x.pc /\ y.id = x.id /\ y.target = x.target /\ y.rm = x.rm
    /\ y.flushed = x.flushed /\ y.failed = x.failed /\ y.stamp = x.stamp

(* Unlinking a payload takes the file from every write stream on it.       *)
LEMMA UnlinkPcmFrame ==
    ASSUME Shapes, NEW t \in Tasks, UnlinkPcm(t)
    PROVE  /\ task' = [s \in Tasks |-> task'[s]]
           /\ \A s \in Tasks : IsTask(task'[s])
           /\ task'[t].pc = task[t].pc /\ task'[t].id = task[t].id
           /\ task'[t].target = task[t].target /\ task'[t].rm = task[t].rm \ {"pcm"}
           /\ task'[t].flushed = task[t].flushed /\ task'[t].failed = task[t].failed
           /\ \A s \in Tasks \ {t} :
                 /\ Kin(task[s], task'[s])
                 /\ task[s].id # task[t].target => task'[s].linked = task[s].linked
                 /\ s \in Writers /\ task[s].id = task[t].target => ~ task'[s].linked
<1>1. \A s \in Tasks :
        task'[s] = IF s = t THEN [task[s] EXCEPT !.rm = task[s].rm \ {"pcm"}]
                   ELSE IF s \in Writers /\ task[s].id = task[t].target
                   THEN [task[s] EXCEPT !.linked = FALSE] ELSE task[s]
  BY DEF UnlinkPcm
<1>2. task' = [s \in Tasks |-> task'[s]]
  BY DEF UnlinkPcm
<1>3. ASSUME NEW s \in Tasks
      PROVE  /\ IsTask([task[s] EXCEPT !.rm = task[s].rm \ {"pcm"}])
             /\ IsTask([task[s] EXCEPT !.linked = FALSE])
             /\ Kin(task[s], [task[s] EXCEPT !.linked = FALSE])
             /\ ~ [task[s] EXCEPT !.linked = FALSE].linked
  <2>1. PICK T, D : task[s] \in TasksOver(T, D)
    BY DEF IsTask, Shapes
  <2>2. /\ [task[s] EXCEPT !.rm = task[s].rm \ {"pcm"}] \in TasksOver(T, D)
        /\ [task[s] EXCEPT !.linked = FALSE] \in TasksOver(T, D)
    BY <2>1 DEF TasksOver
  <2>3. Kin(task[s], [task[s] EXCEPT !.linked = FALSE])
    BY <2>1 DEF TasksOver, Kin
  <2>4. ~ [task[s] EXCEPT !.linked = FALSE].linked
    BY <2>1 DEF TasksOver
  <2> QED
    BY <2>2, <2>3, <2>4 DEF IsTask
<1>4. ASSUME NEW s \in Tasks \ {t}
      PROVE  /\ IsTask(task'[s])
             /\ Kin(task[s], task'[s])
             /\ task[s].id # task[t].target => task'[s].linked = task[s].linked
             /\ s \in Writers /\ task[s].id = task[t].target => ~ task'[s].linked
  <2>1. CASE s \in Writers /\ task[s].id = task[t].target
    <3>1. task'[s] = [task[s] EXCEPT !.linked = FALSE]
      BY <1>1, <2>1
    <3> QED
      BY <1>3, <2>1, <3>1
  <2>2. CASE ~ (s \in Writers /\ task[s].id = task[t].target)
    <3>1. task'[s] = task[s]
      BY <1>1, <2>2
    <3> QED
      BY <2>2, <3>1 DEF Shapes, Kin
  <2> QED
    BY <2>1, <2>2
<1>5. /\ IsTask(task'[t])
      /\ task'[t].pc = task[t].pc /\ task'[t].id = task[t].id
      /\ task'[t].target = task[t].target /\ task'[t].rm = task[t].rm \ {"pcm"}
      /\ task'[t].flushed = task[t].flushed /\ task'[t].failed = task[t].failed
  <2>1. task'[t] = [task[t] EXCEPT !.rm = task[t].rm \ {"pcm"}]
    BY <1>1
  <2>2. PICK T, D : task[t] \in TasksOver(T, D)
    BY DEF IsTask, Shapes
  <2> QED
    BY <1>3, <2>1, <2>2 DEF TasksOver
<1> QED
  BY <1>2, <1>4, <1>5

(* What is noted of a step.                                                *)
LEMMA Noted ==
    ASSUME Contest
    PROVE  /\ contested \subseteq contested' /\ Alone'
           /\ \A id \in Ids, w \in Writers :
                 records[id] # None /\ w \in WritesOf(id)' /\ w \notin WritesOf(id)
                    => id \in contested'
<1>1. ASSUME NEW S, IsFiniteSet(S), Cardinality(S) <= 1, NEW x \in S, NEW y \in S
      PROVE  x = y
  <2> SUFFICES ASSUME x # y PROVE FALSE
    OBVIOUS
  <2>1. IsFiniteSet({x}) /\ Cardinality({x}) = 1 /\ y \notin {x}
    BY FS_Singleton
  <2>2. Cardinality({x} \cup {y}) = 2
    BY <2>1, FS_AddElement
  <2>3. {x} \cup {y} \in SUBSET S
    OBVIOUS
  <2>4. Cardinality({x} \cup {y}) <= Cardinality(S) /\ Cardinality(S) \in Nat
    BY <1>1, <2>3, FS_Subset, FS_CardinalityType
  <2> QED
    BY <1>1, <2>2, <2>4
<1>2. contested' =
        contested \cup {id \in Ids :
            \/ Cardinality(Touching(id)') > 1 \/ Cardinality(WritesOf(id)') > 1
            \/ records[id] # None /\ WritesOf(id)' \ WritesOf(id) # {}}
  BY DEF Contest
<1>3. IsFiniteSet(Writers \cup Tasks \cup Readers) /\ IsFiniteSet(Writers)
  BY FS_Union, FS_Singleton, ClipCacheAssumption DEF Tasks
<1>4. ASSUME NEW id \in Ids \ contested'
      PROVE  /\ \A x, y \in Touching(id)' : x = y
             /\ \A v, w \in WritesOf(id)' : v = w
  <2>1. /\ Touching(id)' \in SUBSET (Writers \cup Tasks \cup Readers)
        /\ WritesOf(id)' \in SUBSET Writers
    BY DEF Touching, WritesOf
  <2>2. IsFiniteSet(Touching(id)') /\ IsFiniteSet(WritesOf(id)')
    BY <1>3, <2>1, FS_Subset
  <2>3. Cardinality(Touching(id)') \in Nat /\ Cardinality(WritesOf(id)') \in Nat
    BY <2>2, FS_CardinalityType
  <2>4. ~ (Cardinality(Touching(id)') > 1) /\ ~ (Cardinality(WritesOf(id)') > 1)
    BY <1>2
  <2>5. Cardinality(Touching(id)') <= 1 /\ Cardinality(WritesOf(id)') <= 1
    BY <2>3, <2>4
  <2> QED
    BY <1>1, <2>2, <2>5
<1> QED
  BY <1>2, <1>4 DEF Alone
-----------------------------------------------------------------------------
(* The ground: what holds of every clip, contested or not.                 *)

LEMMA GroundTask ==
    ASSUME Ground, NEW t \in Tasks, Only(t), TaskFlow(t)',
           task'[t].id = task[t].id, t \in Writers => task[t].pc # "new",
           t \in Writers /\ task[t].pc \in Late => task'[t].pc \in Late,
           pcm' \in [Ids -> {None} \cup SUBSET Chunks],
           side' \in [Ids -> Record \cup {None, Torn}],
           records' \in [Ids -> Record \cup {None}],
           inflight' = [id \in Ids |-> inflight'[id]], read' = read, up' \in BOOLEAN,
           \A id \in Ids : pcm[id] # None => pcm'[id] # None,
           \A id \in Tees : side'[id] # None =>
              side[id] # None \/ (t \in Writers /\ task[t].id = id /\ task'[t].pc \in Late)
    PROVE  Shapes' /\ Flow' /\ TeesOnce'
<1>1. Shapes'
  BY DEF Ground, Shapes, Only
<1>2. Flow'
  <2> SUFFICES ASSUME NEW s \in Tasks, s # t
               PROVE  TaskFlow(s)'
    BY DEF Flow
  <2>1. task'[s] = task[s] /\ TaskFlow(s) /\ task[s].id \in Ids
    BY TaskFields DEF Only, Ground, Flow, Shapes
  <2> QED
    BY <2>1 DEF TaskFlow
<1>3. \A w \in Writers : task'[w].id = task[w].id /\ (task'[w].pc # "new" => task[w].pc # "new")
                      /\ (task[w].pc \in Late => task'[w].pc \in Late)
  BY DEF Only, Tasks
<1>4. TeesOnce'
  <2>1. ASSUME NEW v \in Writers, NEW w \in Writers,
               task'[v].pc # "new", task'[w].pc # "new", task'[v].id = task'[w].id
        PROVE  task'[v].id \in Cues \/ v = w
    BY <1>3, <2>1 DEF Ground, TeesOnce
  <2>2. ASSUME NEW id \in Tees, side'[id] # None
        PROVE  \E w \in Writers : task'[w].id = id /\ task'[w].pc \in Late
    <3>1. CASE side[id] # None
      BY <1>3, <3>1 DEF Ground, TeesOnce
    <3>2. CASE side[id] = None
      BY <1>3, <2>2, <3>2
    <3> QED
      BY <3>1, <3>2
  <2> QED
    BY <2>1, <2>2 DEF TeesOnce
<1> QED
  BY <1>1, <1>2, <1>4

(* A step of a gateway that is up, and not of its start.                   *)
LEMMA PhaseUp ==
    ASSUME Phase, up, up', task'[Boot] = task[Boot]
    PROVE  Phase'
  BY DEF Phase

(* A write begins: the id of a tee is new.                                 *)
LEMMA GroundBegin ==
    ASSUME Ground, NEW w \in Writers, NEW id \in Ids, Begin(w, id)
    PROVE  Ground'
<1>1. /\ Only(w) /\ task[w].pc = "new"
      /\ task'[w].pc = "open" /\ task'[w].id = id /\ task'[w].rm = {}
      /\ task'[w].flushed = 0 /\ ~ task'[w].failed /\ ~ task'[w].linked /\ w \in Tasks
  BY BeginFrame DEF Ground, Tasks
<1>2. /\ pcm' = pcm /\ side' = side /\ records' = records /\ read' = read /\ up /\ up'
      /\ inflight' = [inflight EXCEPT ![id] = w]
      /\ id \in Tees => \A v \in Writers : task[v].pc # "new" => task[v].id # id
  BY DEF Begin, disk
<1>3. Shapes'
  BY <1>1, <1>2 DEF Ground, Shapes, Only
<1>4. TaskFlow(w)'
  BY <1>1 DEF TaskFlow, RemovePcs
<1>5. Flow'
  BY <1>1, <1>2, <1>4 DEF Ground, Flow, TaskFlow, Only
<1>6. Phase'
  <2>1. Boot # w /\ Boot \in Tasks
    BY ClipCacheAssumption DEF Tasks
  <2> QED
    BY <1>1, <1>2, <2>1, PhaseUp DEF Only, Ground
<1>7. TeesOnce'
  <2>1. \A v \in Writers \ {w} : task'[v] = task[v]
    BY <1>1 DEF Only, Tasks
  <2>2. ASSUME NEW i \in Tees, side'[i] # None
        PROVE  \E v \in Writers : task'[v].id = i /\ task'[v].pc \in Late
    <3>1. PICK v \in Writers : task[v].id = i /\ task[v].pc \in Late
      BY <1>2, <2>2 DEF Ground, TeesOnce
    <3>2. v # w
      BY <1>1, <3>1 DEF Late, RemovePcs
    <3> QED
      BY <2>1, <3>1, <3>2
  <2>3. ASSUME NEW u \in Writers, NEW v \in Writers, task'[u].pc # "new", task'[v].pc # "new",
               task'[u].id = task'[v].id
        PROVE  task'[u].id \in Cues \/ u = v
    <3>1. CASE u # w /\ v # w
      BY <2>1, <2>3, <3>1 DEF Ground, TeesOnce
    <3>2. CASE u = w /\ v # w
      BY <1>1, <1>2, <2>1, <2>3, <3>2 DEF Ids
    <3>3. CASE u # w /\ v = w
      BY <1>1, <1>2, <2>1, <2>3, <3>3 DEF Ids
    <3> QED
      BY <3>1, <3>2, <3>3
  <2> QED
    BY <2>2, <2>3 DEF TeesOnce
<1> QED
  BY <1>3, <1>5, <1>6, <1>7 DEF Ground
(* A payload that is closed is whole, and so its record is a record.       *)
LEMMA WrittenRecord ==
    ASSUME Shapes, NEW w \in Writers, TaskFlow(w), task[w].pc \in {"sidecar", "torn", "written"}
    PROVE  MadeRecord(w) \in Record
<1>1. IsTask(task[w])
  BY DEF Shapes, Tasks
<1>2. task[w].id \in Ids /\ task[w].stamp \in Nat /\ task[w].flushed = Length[task[w].id]
  BY <1>1, TaskFields DEF TaskFlow
<1>3. Length[task[w].id] \in Chunks
  BY <1>2, ChunksAreNumbers DEF Pos
<1> QED
  BY <1>2, <1>3 DEF MadeRecord, Record

(* The steps of a writer whose file operations are its own.                *)
LEMMA GroundWriter ==
    ASSUME Ground, NEW w \in Writers,
           \/ Opened(w) \/ Flush(w) \/ DiskFails(w) \/ BodyEnds(w) \/ EndsUnseen(w)
           \/ BufferedBreaks(w) \/ SidecarOpened(w) \/ SidecarWritten(w)
    PROVE  Ground'
<1>1. w \in Tasks /\ Boot \in Tasks /\ Boot # w /\ TaskFlow(w) /\ Shapes
  BY ClipCacheAssumption DEF Tasks, Ground, Flow
<1>2. task[w].id \in Ids /\ task[w].flushed \in Nat
  BY <1>1, TaskFields DEF Shapes
<1>3. {} # None /\ \A payload \in SUBSET Chunks : payload # None
  BY MarksAssumption
<1>4. ASSUME Only(w), TaskFlow(w)', up, up', records' = records, inflight' = inflight,
             read' = read,
             task'[w].id = task[w].id, task[w].pc # "new",
             task[w].pc \in Late => task'[w].pc \in Late,
             pcm' \in [Ids -> {None} \cup SUBSET Chunks],
             side' \in [Ids -> Record \cup {None, Torn}],
             \A id \in Ids : pcm[id] # None => pcm'[id] # None,
             \A id \in Tees : side'[id] # None =>
                side[id] # None \/ (task[w].id = id /\ task'[w].pc \in Late)
      PROVE  Ground'
  <2>1. records' \in [Ids -> Record \cup {None}] /\ up' \in BOOLEAN
        /\ inflight' = [id \in Ids |-> inflight'[id]]
    BY <1>1, <1>4 DEF Shapes
  <2>2. Shapes' /\ Flow' /\ TeesOnce'
    BY <1>1, <1>4, <2>1, GroundTask
  <2>3. Phase'
    BY <1>1, <1>4, PhaseUp DEF Only, Ground
  <2> QED
    BY <2>2, <2>3 DEF Ground
<1>5. CASE Opened(w)
  <2>1. /\ Only(w)
        /\ task'[w].pc = "write" /\ task'[w].linked /\ task'[w].id = task[w].id
        /\ task'[w].rm = task[w].rm
    BY <1>1, <1>5, OpenedFrame
  <2>2. /\ pcm' = [pcm EXCEPT ![task[w].id] = {}] /\ side' = side /\ records' = records
        /\ inflight' = inflight /\ read' = read /\ up /\ up' /\ task[w].pc = "open"
    BY <1>5 DEF Opened, idle
  <2>3. /\ pcm' \in [Ids -> {None} \cup SUBSET Chunks] /\ pcm'[task[w].id] = {}
        /\ \A id \in Ids : pcm[id] # None => pcm'[id] # None
    BY <1>1, <1>2, <1>3, <2>2 DEF Shapes
  <2>4. TaskFlow(w)'
    BY <1>1, <1>3, <2>1, <2>2, <2>3 DEF TaskFlow, RemovePcs
  <2>5. task[w].pc \notin Late
    BY <2>2 DEF Late, RemovePcs
  <2>6. side' \in [Ids -> Record \cup {None, Torn}]
    BY <1>1, <2>2 DEF Shapes
  <2> QED
    BY <1>4, <2>1, <2>2, <2>3, <2>4, <2>5, <2>6
<1>6. CASE Flush(w)
  <2>1. /\ Only(w) /\ task'[w].pc = task[w].pc
        /\ task'[w].id = task[w].id /\ task'[w].rm = task[w].rm
        /\ task'[w].linked = task[w].linked
    BY <1>1, <1>6, FlushFrame
  <2>2. /\ side' = side /\ records' = records
        /\ inflight' = inflight /\ read' = read /\ up /\ up' /\ task[w].pc = "write"
        /\ task[w].flushed + 1 \in Pos(task[w].id)
        /\ pcm' = IF task[w].linked
                  THEN [pcm EXCEPT ![task[w].id] = pcm[task[w].id] \cup {task[w].flushed + 1}]
                  ELSE pcm
    BY <1>6 DEF Flush, idle
  <2>3. /\ pcm' \in [Ids -> {None} \cup SUBSET Chunks]
        /\ \A id \in Ids : pcm[id] # None => pcm'[id] # None
    <3>1. CASE task[w].linked
      <4>1. pcm[task[w].id] \in SUBSET Chunks
        BY <1>1, <1>2, <2>2, <3>1 DEF TaskFlow, Shapes
      <4>2. pcm[task[w].id] \cup {task[w].flushed + 1} \in SUBSET Chunks
        BY <1>2, <2>2, <4>1, ChunksAreNumbers
      <4> QED
        BY <1>1, <1>2, <1>3, <2>2, <3>1, <4>2 DEF Shapes
    <3>2. CASE ~ task[w].linked
      BY <1>1, <2>2, <3>2 DEF Shapes
    <3> QED
      BY <3>1, <3>2
  <2>4. TaskFlow(w)'
    BY <1>1, <1>2, <2>1, <2>2, <2>3 DEF TaskFlow, RemovePcs
  <2>5. task[w].pc \notin Late
    BY <2>2 DEF Late, RemovePcs
  <2>6. side' \in [Ids -> Record \cup {None, Torn}]
    BY <1>1, <2>2 DEF Shapes
  <2> QED
    BY <1>4, <2>1, <2>2, <2>3, <2>4, <2>5, <2>6
<1>7. CASE DiskFails(w)
  <2>1. /\ Only(w)
        /\ task'[w].pc = "write" /\ task'[w].id = task[w].id
        /\ task'[w].rm = task[w].rm /\ task'[w].linked = task[w].linked
    BY <1>1, <1>7, DiskFailsFrame
  <2>2. /\ pcm' = pcm /\ side' = side /\ records' = records
        /\ inflight' = inflight /\ read' = read /\ up /\ up' /\ task[w].pc \in {"open", "write"}
    BY <1>7 DEF DiskFails, idle, disk
  <2>3. TaskFlow(w)'
    BY <1>1, <2>1, <2>2 DEF TaskFlow, RemovePcs
  <2>4. task[w].pc \notin Late /\ task[w].pc # "new"
    BY <2>2 DEF Late, RemovePcs
  <2>5. /\ pcm' \in [Ids -> {None} \cup SUBSET Chunks]
        /\ side' \in [Ids -> Record \cup {None, Torn}]
    BY <1>1, <2>2 DEF Shapes
  <2> QED
    BY <1>4, <2>1, <2>2, <2>3, <2>4, <2>5
<1>8. CASE BodyEnds(w)
  <2>1. /\ Only(w)
        /\ task'[w].pc = "sidecar" /\ task'[w].id = task[w].id
        /\ task'[w].rm = task[w].rm /\ task'[w].flushed = task[w].flushed
    BY <1>1, <1>8, BodyEndsFrame
  <2>2. /\ pcm' = pcm /\ side' = side /\ records' = records
        /\ inflight' = inflight /\ read' = read /\ up /\ up' /\ task[w].pc = "write"
        /\ task[w].flushed = Length[task[w].id]
    BY <1>8 DEF BodyEnds, idle, disk
  <2>3. TaskFlow(w)'
    BY <1>1, <2>1, <2>2 DEF TaskFlow, RemovePcs
  <2>4. task[w].pc \notin Late /\ task[w].pc # "new"
    BY <2>2 DEF Late, RemovePcs
  <2>5. /\ pcm' \in [Ids -> {None} \cup SUBSET Chunks]
        /\ side' \in [Ids -> Record \cup {None, Torn}]
    BY <1>1, <2>2 DEF Shapes
  <2> QED
    BY <1>4, <2>1, <2>2, <2>3, <2>4, <2>5
<1>9. CASE BufferedBreaks(w)
  <2>1. /\ Only(w)
        /\ task'[w].pc = "leaked" /\ task'[w].id = task[w].id
        /\ task'[w].rm = task[w].rm
    BY <1>1, <1>9, BufferedBreaksFrame
  <2>2. /\ pcm' = pcm /\ side' = side /\ records' = records
        /\ inflight' = inflight /\ read' = read /\ up /\ up' /\ task[w].pc \in {"open", "write"}
    BY <1>9 DEF BufferedBreaks, idle, disk
  <2>3. TaskFlow(w)'
    BY <1>1, <2>1, <2>2 DEF TaskFlow, RemovePcs
  <2>4. task[w].pc \notin Late /\ task[w].pc # "new"
    BY <2>2 DEF Late, RemovePcs
  <2>5. /\ pcm' \in [Ids -> {None} \cup SUBSET Chunks]
        /\ side' \in [Ids -> Record \cup {None, Torn}]
    BY <1>1, <2>2 DEF Shapes
  <2> QED
    BY <1>4, <2>1, <2>2, <2>3, <2>4, <2>5
<1>10. CASE SidecarOpened(w)
  <2>1. /\ Only(w)
        /\ task'[w].pc = "torn" /\ task'[w].id = task[w].id
        /\ task'[w].rm = task[w].rm /\ task'[w].flushed = task[w].flushed
    BY <1>1, <1>10, SidecarOpenedFrame
  <2>2. /\ pcm' = pcm /\ side' = [side EXCEPT ![task[w].id] = Torn] /\ records' = records
        /\ inflight' = inflight /\ read' = read /\ up /\ up' /\ task[w].pc = "sidecar"
    BY <1>10 DEF SidecarOpened, idle
  <2>3. TaskFlow(w)'
    BY <1>1, <2>1, <2>2 DEF TaskFlow, RemovePcs
  <2>4. task[w].pc # "new" /\ task'[w].pc \in Late
    BY <2>1, <2>2 DEF Late, RemovePcs
  <2>5. /\ pcm' \in [Ids -> {None} \cup SUBSET Chunks]
        /\ side' \in [Ids -> Record \cup {None, Torn}]
    BY <1>1, <1>2, <2>2 DEF Shapes
  <2>6. \A id \in Tees : side'[id] # None =>
           side[id] # None \/ (task[w].id = id /\ task'[w].pc \in Late)
    BY <1>1, <2>2, <2>4 DEF Shapes, Ids
  <2> QED
    BY <1>4, <2>1, <2>2, <2>3, <2>4, <2>5, <2>6
<1>11. CASE SidecarWritten(w)
  <2>1. /\ Only(w)
        /\ task'[w].pc = "written" /\ task'[w].id = task[w].id
        /\ task'[w].rm = task[w].rm /\ task'[w].flushed = task[w].flushed
    BY <1>1, <1>11, SidecarWrittenFrame
  <2>2. /\ pcm' = pcm /\ records' = records
        /\ side' = IF side[task[w].id] = None THEN side
                   ELSE [side EXCEPT ![task[w].id] = MadeRecord(w)]
        /\ inflight' = inflight /\ read' = read /\ up /\ up' /\ task[w].pc = "torn"
    BY <1>11 DEF SidecarWritten, idle
  <2>3. TaskFlow(w)'
    BY <1>1, <2>1, <2>2 DEF TaskFlow, RemovePcs
  <2>4. task[w].pc # "new" /\ task'[w].pc \in Late
    BY <2>1, <2>2 DEF Late, RemovePcs
  <2>5. MadeRecord(w) \in Record
    BY <1>1, <2>2, WrittenRecord
  <2>6. /\ pcm' \in [Ids -> {None} \cup SUBSET Chunks]
        /\ side' \in [Ids -> Record \cup {None, Torn}]
    BY <1>1, <1>2, <2>2, <2>5 DEF Shapes
  <2>7. \A id \in Tees : side'[id] # None =>
           side[id] # None \/ (task[w].id = id /\ task'[w].pc \in Late)
    BY <1>1, <2>2, <2>4 DEF Shapes, Ids
  <2> QED
    BY <1>4, <2>1, <2>2, <2>3, <2>4, <2>6, <2>7
<1>12. CASE EndsUnseen(w)
  <2>1. /\ Only(w)
        /\ task'[w].pc = "sidecar" /\ task'[w].id = task[w].id
        /\ task'[w].rm = task[w].rm /\ task'[w].flushed = Length[task[w].id]
    BY <1>1, <1>12, EndsUnseenFrame
  <2>2. /\ pcm' = pcm /\ side' = side /\ records' = records
        /\ inflight' = inflight /\ read' = read /\ up /\ up' /\ task[w].pc = "write"
    BY <1>12 DEF EndsUnseen, idle, disk
  <2>3. TaskFlow(w)'
    BY <1>1, <2>1, <2>2 DEF TaskFlow, RemovePcs
  <2>4. task[w].pc \notin Late /\ task[w].pc # "new"
    BY <2>2 DEF Late, RemovePcs
  <2>5. /\ pcm' \in [Ids -> {None} \cup SUBSET Chunks]
        /\ side' \in [Ids -> Record \cup {None, Torn}]
    BY <1>1, <2>2 DEF Shapes
  <2> QED
    BY <1>4, <2>1, <2>2, <2>3, <2>4, <2>5
<1> QED
  BY <1>5, <1>6, <1>7, <1>8, <1>9, <1>10, <1>11, <1>12

(* A step of an operation that is removing files.                          *)
LEMMA PhaseTask ==
    ASSUME Phase, NEW t \in Tasks, \A s \in Tasks \ {t} : task'[s].pc = task[s].pc,
           task[t].pc \in RemovePcs, task'[t].pc \in {"over"} \cup RemovePcs,
           read' = read, up \in BOOLEAN, up' \in BOOLEAN,
           up' = up \/ (t = Boot /\ task'[t].pc = "over")
    PROVE  Phase'
<1>1. Boot \in Tasks
  BY DEF Tasks
<1>2. CASE t = Boot
  <2>1. ~ up /\ task'[Boot].pc # "new"
    BY <1>2 DEF Phase, RemovePcs
  <2>2. up' => task'[Boot].pc = "over"
    BY <1>2, <2>1
  <2> QED
    BY <1>2, <2>1, <2>2 DEF Phase
<1>3. CASE t # Boot
  <2>1. up /\ up' = up
    BY <1>3 DEF Phase, RemovePcs
  <2> QED
    BY <1>1, <1>3, <2>1 DEF Phase
<1> QED
  BY <1>2, <1>3

(* The steps that remove files, and the end of the operation.              *)
LEMMA GroundRemoving ==
    ASSUME Ground, NEW t \in Tasks,
           UnlinkSide(t) \/ UnlinkFails(t) \/ Removed(t) \/ Evicted(t)
    PROVE  Ground'
<1>1. TaskFlow(t) /\ Shapes /\ Phase /\ task[t].id \in Ids
  BY TaskFields DEF Ground, Flow, Shapes
<1>2. ASSUME Only(t), task[t].pc \in RemovePcs, task'[t].pc \in {"over"} \cup RemovePcs,
             task'[t].pc = "over" => task'[t].rm = {},
             up' \in BOOLEAN, up' = up \/ (t = Boot /\ task'[t].pc = "over"),
             task'[t].id = task[t].id, pcm' = pcm, read' = read,
             side' \in [Ids -> Record \cup {None, Torn}],
             \A id \in Ids : side'[id] # None => side[id] # None,
             records' \in [Ids -> Record \cup {None}],
             inflight' = [id \in Ids |-> inflight'[id]]
      PROVE  Ground'
  <2>1. TaskFlow(t)'
    BY <1>2 DEF TaskFlow, RemovePcs
  <2>2. /\ task[t].pc # "new" /\ task[t].pc \in Late /\ task'[t].pc \in Late
        /\ pcm' \in [Ids -> {None} \cup SUBSET Chunks]
        /\ \A id \in Tees : side'[id] # None => side[id] # None
    BY <1>1, <1>2 DEF Late, RemovePcs, Shapes, Ids
  <2>3. Shapes' /\ Flow' /\ TeesOnce'
    BY <1>2, <2>1, <2>2, GroundTask
  <2>4. Phase'
    BY <1>1, <1>2, PhaseTask DEF Only, Shapes
  <2> QED
    BY <2>3, <2>4 DEF Ground
<1>3. CASE UnlinkSide(t)
  <2>1. /\ Only(t)
        /\ task'[t].pc = task[t].pc /\ task'[t].id = task[t].id
        /\ task'[t].rm = task[t].rm \ {"side"}
    BY <1>1, <1>3, UnlinkSideFrame
  <2>2. /\ "side" \in task[t].rm /\ side' = [side EXCEPT ![task[t].target] = None]
        /\ pcm' = pcm /\ records' = records /\ inflight' = inflight /\ read' = read /\ up' = up
    BY <1>3 DEF UnlinkSide, idle
  <2>3. task[t].pc \in RemovePcs
    BY <1>1, <2>2 DEF TaskFlow
  <2>4. /\ side' \in [Ids -> Record \cup {None, Torn}]
        /\ \A id \in Ids : side'[id] # None => side[id] # None
    BY <1>1, <2>2 DEF Shapes
  <2>5. /\ up' \in BOOLEAN /\ records' \in [Ids -> Record \cup {None}]
        /\ inflight' = [id \in Ids |-> inflight'[id]]
        /\ task[t].pc # "over"
    BY <1>1, <2>2, <2>3 DEF Shapes, RemovePcs
  <2> QED
    BY <1>2, <2>1, <2>2, <2>3, <2>4, <2>5
<1>4. CASE Removed(t)
  <2>1. /\ Over(t) /\ task[t].pc = "remove"
        /\ pcm' = pcm /\ side' = side /\ records' = records /\ read' = read /\ up' = up
    BY <1>4 DEF Removed, disk
  <2>2. /\ Only(t)
        /\ task'[t].pc = "over" /\ task'[t].id = task[t].id /\ task'[t].rm = {}
        /\ inflight' = [id \in Ids |-> inflight'[id]]
    BY <1>1, <2>1, OverFrame
  <2>3. /\ up' \in BOOLEAN /\ records' \in [Ids -> Record \cup {None}]
        /\ side' \in [Ids -> Record \cup {None, Torn}]
    BY <1>1, <2>1 DEF Shapes
  <2> QED
    BY <1>2, <2>1, <2>2, <2>3 DEF RemovePcs
<1>5. CASE Evicted(t)
  <2>1. /\ EvictNext(t, records, task[t].doomed) /\ task[t].pc = "evict"
        /\ pcm' = pcm /\ side' = side /\ read' = read
        /\ up' = (up \/ (t = Boot /\ task[t].doomed = <<>>))
    BY <1>5 DEF Evicted, disk
  <2>2. /\ Only(t)
        /\ records' \in [Ids -> Record \cup {None}]
        /\ inflight' = [id \in Ids |-> inflight'[id]]
        /\ task'[t].id = task[t].id
        /\ \/ task[t].doomed = <<>> /\ task'[t].pc = "over" /\ task'[t].rm = {}
           \/ task[t].doomed # <<>> /\ task'[t].pc = "evict"
    BY <1>1, <2>1, EvictFrame DEF Shapes
  <2>3. /\ up' \in BOOLEAN /\ side' \in [Ids -> Record \cup {None, Torn}]
        /\ up' = up \/ (t = Boot /\ task'[t].pc = "over")
    BY <1>1, <2>1, <2>2 DEF Shapes
  <2> QED
    BY <1>2, <2>1, <2>2, <2>3 DEF RemovePcs
<1>6. CASE UnlinkFails(t)
  <2>1. /\ Only(t)
        /\ task'[t].pc = task[t].pc /\ task'[t].id = task[t].id /\ task[t].rm # {}
    BY <1>1, <1>6, UnlinkFailsFrame
  <2>2. /\ side' = side /\ pcm' = pcm /\ records' = records /\ inflight' = inflight
        /\ read' = read /\ up' = up
    BY <1>6 DEF UnlinkFails, idle, disk
  <2>3. task[t].pc \in RemovePcs
    BY <1>1, <2>1 DEF TaskFlow
  <2>4. /\ up' \in BOOLEAN /\ records' \in [Ids -> Record \cup {None}]
        /\ side' \in [Ids -> Record \cup {None, Torn}]
        /\ inflight' = [id \in Ids |-> inflight'[id]]
        /\ task[t].pc # "over"
    BY <1>1, <2>2, <2>3 DEF Shapes, RemovePcs
  <2> QED
    BY <1>2, <2>1, <2>2, <2>3, <2>4
<1> QED
  BY <1>3, <1>4, <1>5, <1>6

(* Unlinking a payload leaves the write streams on it without a file.      *)
LEMMA GroundUnlinkPcm ==
    ASSUME Ground, NEW t \in Tasks, UnlinkPcm(t)
    PROVE  Ground'
<1>1. TaskFlow(t) /\ Shapes /\ Phase /\ TeesOnce
  BY DEF Ground, Flow
<1>2. /\ task' = [s \in Tasks |-> task'[s]]
      /\ \A s \in Tasks : IsTask(task'[s])
      /\ task'[t].pc = task[t].pc /\ task'[t].id = task[t].id
      /\ task'[t].rm = task[t].rm \ {"pcm"}
      /\ \A s \in Tasks \ {t} :
            /\ Kin(task[s], task'[s])
            /\ task[s].id # task[t].target => task'[s].linked = task[s].linked
            /\ s \in Writers /\ task[s].id = task[t].target => ~ task'[s].linked
  BY <1>1, UnlinkPcmFrame
<1>3. /\ "pcm" \in task[t].rm /\ pcm' = [pcm EXCEPT ![task[t].target] = None]
      /\ side' = side /\ records' = records /\ inflight' = inflight /\ read' = read /\ up' = up
  BY DEF UnlinkPcm, idle
<1>4. task[t].pc \in RemovePcs
  BY <1>1, <1>3 DEF TaskFlow
<1>5. Shapes'
  <2>1. pcm' \in [Ids -> {None} \cup SUBSET Chunks]
    BY <1>1, <1>3 DEF Shapes
  <2> QED
    BY <1>1, <1>2, <1>3, <2>1 DEF Shapes
<1>6. Flow'
  <2>1. TaskFlow(t)'
    BY <1>1, <1>2, <1>3, <1>4 DEF TaskFlow, RemovePcs
  <2>2. ASSUME NEW s \in Tasks \ {t}
        PROVE  TaskFlow(s)'
    <3>1. TaskFlow(s) /\ task[s].id \in Ids
      BY TaskFields DEF Ground, Flow, Shapes
    <3>2. /\ task'[s].pc = task[s].pc /\ task'[s].id = task[s].id /\ task'[s].rm = task[s].rm
          /\ task'[s].flushed = task[s].flushed /\ task'[s].failed = task[s].failed
      BY <1>2 DEF Kin
    <3>3. task[s].pc = "write" => s \in Writers
      BY <3>1 DEF TaskFlow, RemovePcs
    <3>4. task[s].pc \in {"write", "open"} /\ task'[s].linked
            => task[s].linked /\ task[s].id # task[t].target
      BY <1>2, <3>1, <3>3 DEF TaskFlow, RemovePcs
    <3>5. task[s].id # task[t].target => pcm'[task[s].id] = pcm[task[s].id]
      BY <1>1, <1>3, <3>1 DEF Shapes
    <3> QED
      BY <3>1, <3>2, <3>4, <3>5 DEF TaskFlow
  <2> QED
    BY <2>1, <2>2 DEF Flow
<1>7. Phase'
  <2>1. \A s \in Tasks \ {t} : task'[s].pc = task[s].pc
    BY <1>2 DEF Kin
  <2> QED
    BY <1>1, <1>2, <1>3, <1>4, <2>1, PhaseTask DEF Shapes
<1>8. TeesOnce'
  <2>1. \A w \in Writers : task'[w].pc = task[w].pc /\ task'[w].id = task[w].id
    BY <1>2 DEF Kin, Tasks
  <2> QED
    BY <1>1, <1>3, <2>1 DEF TeesOnce
<1> QED
  BY <1>5, <1>6, <1>7, <1>8 DEF Ground

(* A writer, or a DELETE, takes files in hand to remove them.              *)
LEMMA GroundTaken ==
    ASSUME Ground, NEW t \in Writers \cup Removers,
           \/ t \in Writers /\ (Abandon(t) \/ Stored(t))
           \/ t \in Removers /\ \E id \in Ids : RemoveClip(t, id)
    PROVE  Ground'
<1>1. /\ TaskFlow(t) /\ Shapes /\ Phase /\ task[t].id \in Ids
      /\ t \in Tasks /\ Boot \in Tasks /\ Boot # t
  BY TaskFields, ClipCacheAssumption DEF Ground, Flow, Shapes, Tasks
<1>2. ASSUME Only(t), up, up', t \in Writers => task[t].pc # "new",
             task'[t].pc \in {"over"} \cup RemovePcs,
             task'[t].pc = "over" => task'[t].rm = {},
             task'[t].id = task[t].id, pcm' = pcm, read' = read, side' = side,
             records' \in [Ids -> Record \cup {None}],
             inflight' = [id \in Ids |-> inflight'[id]]
      PROVE  Ground'
  <2>1. TaskFlow(t)'
    BY <1>2 DEF TaskFlow, RemovePcs
  <2>2. /\ task'[t].pc \in Late
        /\ pcm' \in [Ids -> {None} \cup SUBSET Chunks]
        /\ side' \in [Ids -> Record \cup {None, Torn}] /\ up' \in BOOLEAN
    BY <1>1, <1>2 DEF Late, RemovePcs, Shapes
  <2>3. Shapes' /\ Flow' /\ TeesOnce'
    BY <1>1, <1>2, <2>1, <2>2, GroundTask
  <2>4. Phase'
    BY <1>1, <1>2, PhaseUp DEF Only
  <2> QED
    BY <2>3, <2>4 DEF Ground
<1>3. CASE t \in Writers /\ Abandon(t)
  <2>1. /\ RemoveFiles(t, "remove", task[t].id, <<>>) /\ up /\ up' /\ task[t].pc # "new"
        /\ pcm' = pcm /\ side' = side /\ records' = records /\ read' = read
        /\ inflight' = inflight
    BY <1>3 DEF Abandon, disk, idle
  <2>2. /\ Only(t) /\ task'[t].pc = "remove" /\ task'[t].id = task[t].id
    BY <1>1, <2>1, RemoveFrame DEF RemovePcs
  <2>3. records' \in [Ids -> Record \cup {None}] /\ inflight' = [id \in Ids |-> inflight'[id]]
    BY <1>1, <2>1 DEF Shapes
  <2> QED
    BY <1>2, <2>1, <2>2, <2>3 DEF RemovePcs
<1>4. CASE t \in Writers /\ Stored(t)
  <2> DEFINE recs == [records EXCEPT ![task[t].id] = MadeRecord(t)]
  <2>1. /\ EvictNext(t, recs, SelectForEviction(recs)) /\ up /\ up' /\ task[t].pc = "written"
        /\ pcm' = pcm /\ side' = side /\ read' = read
    BY <1>4 DEF Stored, disk
  <2>2. MadeRecord(t) \in Record
    BY <1>1, <1>4, <2>1, WrittenRecord
  <2>3. recs \in [Ids -> Record \cup {None}]
    BY <1>1, <2>2 DEF Shapes
  <2> HIDE DEF recs
  <2>4. /\ Only(t)
        /\ records' \in [Ids -> Record \cup {None}]
        /\ inflight' = [id \in Ids |-> inflight'[id]]
        /\ task'[t].id = task[t].id
        /\ \/ task'[t].pc = "over" /\ task'[t].rm = {}
           \/ task'[t].pc = "evict"
    BY <1>1, <2>1, <2>3, EvictFrame
  <2> QED
    BY <1>2, <2>1, <2>4 DEF RemovePcs
<1>5. CASE t \in Removers /\ \E id \in Ids : RemoveClip(t, id)
  <2>1. PICK id \in Ids : RemoveClip(t, id)
    BY <1>5
  <2>2. /\ RemoveFiles(t, "remove", id, <<>>) /\ up /\ up'
        /\ pcm' = pcm /\ side' = side /\ records' = [records EXCEPT ![id] = None]
        /\ read' = read /\ inflight' = inflight
    BY <2>1 DEF RemoveClip, disk, idle
  <2>3. /\ Only(t) /\ task'[t].pc = "remove" /\ task'[t].id = task[t].id
    BY <1>1, <2>2, RemoveFrame DEF RemovePcs
  <2>4. records' \in [Ids -> Record \cup {None}] /\ inflight' = [i \in Ids |-> inflight'[i]]
    BY <1>1, <2>2 DEF Shapes
  <2>5. t \notin Writers
    BY <1>5, ClipCacheAssumption
  <2> QED
    BY <1>2, <2>2, <2>3, <2>4, <2>5 DEF RemovePcs
<1> QED
  BY <1>3, <1>4, <1>5

(* Reads and whenIdle leave the files and the operations alone.            *)
LEMMA GroundReading ==
    ASSUME Ground,
           \/ \E r \in Readers : ReadDone(r) \/ ReadFails(r) \/ \E id \in Ids : ReadStart(r, id)
           \/ WhenIdle
    PROVE  Ground'
<1>1. Shapes /\ Phase
  BY DEF Ground
<1>2. ASSUME up, up', task' = task, pcm' = pcm, side' = side, inflight' = inflight,
             records' \in [Ids -> Record \cup {None}],
             read' = [r \in Readers |-> read'[r]],
             \A r \in Readers : read'[r] # None => read'[r].id \in Ids
      PROVE  Ground'
  <2>1. Shapes'
    BY <1>1, <1>2 DEF Shapes
  <2>2. Flow'
    BY <1>2 DEF Ground, Flow, TaskFlow
  <2>3. TeesOnce'
    BY <1>2 DEF Ground, TeesOnce
  <2>4. Phase'
    BY <1>1, <1>2, PhaseUp
  <2> QED
    BY <2>1, <2>2, <2>3, <2>4 DEF Ground
<1>3. ASSUME NEW r \in Readers, ReadDone(r) \/ ReadFails(r)
      PROVE  Ground'
  <2>1. /\ up /\ up' /\ task' = task /\ pcm' = pcm /\ side' = side /\ inflight' = inflight
        /\ records' = records \/ records' = [records EXCEPT ![read[r].id] = None]
        /\ read' = [read EXCEPT ![r] = None]
    BY <1>3 DEF ReadDone, ReadFails, disk, idle
  <2>2. records' \in [Ids -> Record \cup {None}]
    BY <1>1, <2>1 DEF Shapes
  <2>3. /\ read' = [q \in Readers |-> read'[q]]
        /\ \A q \in Readers : read'[q] # None => read'[q].id \in Ids
    BY <1>1, <2>1 DEF Shapes
  <2> QED
    BY <1>2, <2>1, <2>2, <2>3
<1>4. ASSUME NEW r \in Readers, NEW id \in Ids, ReadStart(r, id)
      PROVE  Ground'
  <2>1. /\ up /\ up' /\ task' = task /\ pcm' = pcm /\ side' = side /\ inflight' = inflight
        /\ records' = records
        /\ read' = [read EXCEPT ![r] = [id |-> id, bytes |-> records[id].bytes]]
    BY <1>4 DEF ReadStart, disk, idle
  <2>2. records' \in [Ids -> Record \cup {None}]
    BY <1>1, <2>1 DEF Shapes
  <2>3. /\ read' = [q \in Readers |-> read'[q]]
        /\ \A q \in Readers : read'[q] # None => read'[q].id \in Ids
    BY <1>1, <2>1 DEF Shapes
  <2> QED
    BY <1>2, <2>1, <2>2, <2>3
<1>5. CASE WhenIdle
  <2>1. /\ up /\ up' /\ task' = task /\ pcm' = pcm /\ side' = side /\ inflight' = inflight
        /\ records' = records /\ read' = read
    BY <1>5 DEF WhenIdle, disk
  <2> QED
    BY <1>1, <1>2, <2>1 DEF Shapes
<1> QED
  BY <1>3, <1>4, <1>5

(* A kill.                                                                 *)
LEMMA GroundCrash ==
    ASSUME Ground, Crash
    PROVE  Ground'
<1>1. Shapes /\ Boot \in Tasks
  BY DEF Ground, Tasks
<1>2. /\ ~ up' /\ records' = [id \in Ids |-> None] /\ inflight' = [id \in Ids |-> None]
      /\ read' = [r \in Readers |-> None] /\ pcm' = pcm /\ side' = side
      /\ task' = [t \in Tasks |->
                    IF task[t].pc = "new" \/ t = Boot THEN NewTask(task[t].id)
                    ELSE [NewTask(task[t].id) EXCEPT !.pc = "over"]]
      /\ up' \in BOOLEAN
  BY DEF Crash, disk
<1>3. ASSUME NEW t \in Tasks
      PROVE  /\ IsTask(task'[t]) /\ task'[t].id = task[t].id /\ task'[t].rm = {}
             /\ task'[t].pc = IF task[t].pc = "new" \/ t = Boot THEN "new" ELSE "over"
  <2>1. task[t].id \in Ids
    BY <1>1, TaskFields DEF Shapes
  <2>2. CASE task[t].pc = "new" \/ t = Boot
    <3>1. PICK new : new = NewTask(task[t].id)
      OBVIOUS
    <3>2. task'[t] = new
      BY <1>2, <2>2, <3>1
    <3> QED
      BY <2>1, <2>2, <3>1, <3>2, FreshTask
  <2>3. CASE ~ (task[t].pc = "new" \/ t = Boot)
    <3>1. PICK new : new = TaskAt(task[t].id, "over")
      OBVIOUS
    <3>2. task'[t] = new
      BY <1>2, <2>3, <3>1 DEF TaskAt
    <3>3. IsTask(new) /\ new.pc = "over" /\ new.id = task[t].id /\ new.rm = {}
      BY <2>1, <3>1, NewTaskType DEF Pcs
    <3> QED
      BY <2>3, <3>2, <3>3
  <2> QED
    BY <2>2, <2>3
<1>4. Shapes'
  BY <1>1, <1>2, <1>3 DEF Shapes
<1>5. Flow'
  BY <1>3 DEF Flow, TaskFlow
<1>6. Phase'
  BY <1>1, <1>2, <1>3 DEF Phase
<1>7. TeesOnce'
  <2>1. ASSUME NEW w \in Writers
        PROVE  /\ task'[w].id = task[w].id /\ (task'[w].pc # "new" <=> task[w].pc # "new")
               /\ task'[w].pc # "new" => task'[w].pc \in Late
    BY <1>3, ClipCacheAssumption DEF Tasks, Late
  <2>2. ASSUME NEW id \in Tees, side'[id] # None
        PROVE  \E w \in Writers : task'[w].id = id /\ task'[w].pc \in Late
    <3>1. PICK w \in Writers : task[w].id = id /\ task[w].pc \in Late
      BY <1>2, <2>2 DEF Ground, TeesOnce
    <3>2. task[w].pc # "new"
      BY <3>1 DEF Late, RemovePcs
    <3> QED
      BY <2>1, <3>1, <3>2
  <2> QED
    BY <2>1, <2>2 DEF Ground, TeesOnce
<1> QED
  BY <1>4, <1>5, <1>6, <1>7 DEF Ground

(* What load() would index is a record.                                    *)
LoadedRecords == [id \in Ids |-> IF Loadable(id) THEN side[id] ELSE None]

(* load() indexes, and evicts before the gateway listens.                  *)
LEMMA GroundLoad ==
    ASSUME Ground, Load
    PROVE  Ground'
<1>1. Shapes /\ Boot \in Tasks /\ Boot \notin Writers
  BY ClipCacheAssumption DEF Ground, Tasks
<1>2. /\ EvictNext(Boot, LoadedRecords, SelectForEviction(LoadedRecords))
      /\ ~ up /\ task[Boot].pc = "new" /\ up' = (SelectForEviction(LoadedRecords) = <<>>)
      /\ pcm' = pcm /\ side' = side /\ read' = read
  BY DEF Load, LoadedRecords, disk
<1>3. LoadedRecords \in [Ids -> Record \cup {None}]
  BY DEF LoadedRecords, Loadable
<1>4. /\ Only(Boot)
      /\ records' \in [Ids -> Record \cup {None}]
      /\ inflight' = [id \in Ids |-> inflight'[id]]
      /\ task'[Boot].id = task[Boot].id
      /\ \/ up' /\ task'[Boot].pc = "over" /\ task'[Boot].rm = {}
         \/ ~ up' /\ task'[Boot].pc = "evict"
  BY <1>1, <1>2, <1>3, EvictFrame, ZenonT(60)
<1>5. /\ TaskFlow(Boot)' /\ up' \in BOOLEAN
      /\ pcm' \in [Ids -> {None} \cup SUBSET Chunks]
      /\ side' \in [Ids -> Record \cup {None, Torn}]
  BY <1>1, <1>2, <1>4 DEF TaskFlow, RemovePcs, Shapes
<1>6. Shapes' /\ Flow' /\ TeesOnce'
  BY <1>1, <1>2, <1>4, <1>5, GroundTask
<1>7. Phase'
  BY <1>2, <1>4 DEF Ground, Phase, Only
<1> QED
  BY <1>6, <1>7 DEF Ground

(* The ground holds always.                                                *)
LEMMA GroundStep ==
    ASSUME Ground, Step
    PROVE  Ground'
BY GroundBegin, GroundWriter, GroundRemoving, GroundUnlinkPcm, GroundTaken, GroundReading,
   GroundCrash, GroundLoad DEF Step, TaskStep
-----------------------------------------------------------------------------
(* One clip.                                                               *)

Sole(v) == \A x, y \in Touching(v) : x = y

(* Operation s has the files of clip v in hand.                            *)
Holds(s, v) ==
    \/ s \in Writers /\ task[s].id = v /\ task[s].pc \in WritePcs
    \/ task[s].pc \in RemovePcs /\ task[s].target = v
Reads(r, v) == read[r] # None /\ read[r].id = v

(* What the operation is to the clip does not change in the step.          *)
Unmoved(s, v) ==
    \/ ~ Holds(s, v) /\ ~ Holds(s, v)'
    \/ Kin(task[s], task'[s]) /\ (task[s].id = v => task'[s].linked = task[s].linked)

(* A step that passes the clip by.                                         *)
LEMMA Elsewhere ==
    ASSUME NEW v \in Ids, ClipInv(v),
           pcm'[v] = pcm[v], side'[v] = side[v], records'[v] = records[v],
           \A s \in Tasks : Unmoved(s, v),
           \A r \in Readers : read'[r] = read[r] \/ (~ Reads(r, v) /\ ~ Reads(r, v)'),
           up' \/ task'[Boot].pc # "new" => up \/ task[Boot].pc # "new"
    PROVE  ClipInv(v)'
<1>1. Whole(v)' /\ Unbroken(v)'
  BY DEF ClipInv, Whole, Unbroken
<1>2. ASSUME NEW t \in Tasks
      PROVE  RemoveClause(t, v)'
  <2>1. RemoveClause(t, v) /\ Unmoved(t, v)
    BY DEF ClipInv, BeingRemoved
  <2> QED
    BY <2>1 DEF RemoveClause, Unmoved, Holds, Kin
<1>3. ASSUME NEW w \in Writers
      PROVE  WriteClause(w, v)'
  <2>1. WriteClause(w, v) /\ Unmoved(w, v)
    BY DEF ClipInv, BeingWritten, Tasks
  <2>2. CASE ~ Holds(w, v)'
    BY <2>2 DEF WriteClause, Holds
  <2>3. CASE Kin(task[w], task'[w]) /\ (task[w].id = v => task'[w].linked = task[w].linked)
    BY <2>1, <2>3 DEF WriteClause, Kin, MadeRecord
  <2> QED
    BY <2>1, <2>2, <2>3 DEF Unmoved
<1>4. BeingRead(v)'
  BY DEF ClipInv, BeingRead, Reads
<1>5. AtRest(v)'
  <2>1. ASSUME Touching(v)' = {}
        PROVE  Touching(v) = {}
    <3>1. \A s \in Tasks : Holds(s, v) => Holds(s, v)'
      BY DEF Unmoved, Holds, Kin
    <3>2. \A s \in Tasks : Holds(s, v)' => s \in Touching(v)'
      BY DEF Holds, Touching, WritePcs, RemovePcs
    <3>3. \A r \in Readers : Reads(r, v) => r \in Touching(v)'
      BY DEF Reads, Touching
    <3>4. \A x \in Touching(v) :
             (x \in Tasks /\ Holds(x, v)) \/ (x \in Readers /\ Reads(x, v))
      BY DEF Holds, Reads, Touching, WritePcs, RemovePcs, Tasks
    <3> QED
      BY <2>1, <3>1, <3>2, <3>3, <3>4
  <2>2. Loadable(v)' <=> Loadable(v)
    BY DEF Loadable, Size
  <2> QED
    BY <2>1, <2>2 DEF ClipInv, AtRest
<1> QED
  BY <1>1, <1>2, <1>3, <1>4, <1>5 DEF ClipInv, BeingRemoved, BeingWritten

(* A step of the one operation that has the clip in hand.                  *)
LEMMA SoleStep ==
    ASSUME NEW v \in Ids, NEW t \in Tasks, Sole(v), Sole(v)',
           Holds(t, v) \/ Holds(t, v)',
           \A s \in Tasks \ {t} : Kin(task[s], task'[s]), read' = read,
           Whole(v)', Unbroken(v)', RemoveClause(t, v)', t \in Writers => WriteClause(t, v)',
           AtRest(v)'
    PROVE  ClipInv(v)'
<1>1. ASSUME NEW s \in Tasks
      PROVE  (Holds(s, v) => s \in Touching(v)) /\ (Holds(s, v)' => s \in Touching(v)')
  BY DEF Holds, Touching, WritePcs, RemovePcs
<1>2. ASSUME NEW s \in Tasks \ {t}
      PROVE  ~ Holds(s, v)'
  <2>1. Holds(s, v)' <=> Holds(s, v)
    BY DEF Holds, Kin
  <2> QED
    BY <1>1, <2>1 DEF Sole
<1>3. ASSUME NEW r \in Readers
      PROVE  ~ Reads(r, v)'
  <2>1. Reads(r, v) => r \in Touching(v) /\ r \in Touching(v)'
    BY DEF Reads, Touching
  <2>2. r # t
    BY ClipCacheAssumption
  <2>3. Reads(r, v)' <=> Reads(r, v)
    BY DEF Reads
  <2> QED
    BY <1>1, <2>1, <2>2, <2>3 DEF Sole
<1>4. BeingRemoved(v)'
  BY <1>2 DEF BeingRemoved, RemoveClause, Holds
<1>5. BeingWritten(v)'
  BY <1>2 DEF BeingWritten, WriteClause, Holds, Tasks
<1>6. BeingRead(v)'
  BY <1>3 DEF BeingRead, Reads
<1> QED
  BY <1>4, <1>5, <1>6 DEF ClipInv

(* Operation t alone moves, and is nothing to the clip.                    *)
LEMMA OthersClip ==
    ASSUME NEW v \in Ids, NEW t \in Tasks, ClipInv(v), Only(t),
           ~ Holds(t, v), ~ Holds(t, v)',
           pcm'[v] = pcm[v], side'[v] = side[v], records'[v] = records[v], read' = read,
           up' \/ task'[Boot].pc # "new" => up \/ task[Boot].pc # "new"
    PROVE  ClipInv(v)'
<1>1. \A s \in Tasks : Unmoved(s, v)
  BY DEF Only, Unmoved, Kin
<1> QED
  BY <1>1, Elsewhere

(* A write that goes on: the clip it is on, and every other.               *)
LEMMA ClipBegin ==
    ASSUME Ground, NEW w \in Writers, NEW id \in Ids, Begin(w, id), Contest,
           NEW v \in Ids \ contested', ClipInv(v), Sole(v), Sole(v)'
    PROVE  ClipInv(v)'
<1>1. /\ Only(w) /\ task[w].pc = "new" /\ task'[w].pc = "open" /\ task'[w].id = id
      /\ w \in Tasks
  BY BeginFrame DEF Ground, Tasks
<1>2. /\ pcm' = pcm /\ side' = side /\ records' = records /\ read' = read /\ up /\ up'
  BY DEF Begin, disk
<1>3. ~ Holds(w, v)
  BY <1>1 DEF Holds, WritePcs, RemovePcs
<1>4. CASE v # id
  <2>1. ~ Holds(w, v)'
    BY <1>1, <1>4 DEF Holds, RemovePcs
  <2> QED
    BY <1>1, <1>2, <1>3, <2>1, OthersClip
<1>5. CASE v = id
  <2>1. w \in WritesOf(v)' /\ w \notin WritesOf(v) /\ Holds(w, v)'
    BY <1>1, <1>5 DEF WritesOf, Writing, Holds, WritePcs
  <2>2. records[v] = None
    BY <2>1, Noted
  <2>3. Whole(v)' /\ Unbroken(v)' /\ RemoveClause(w, v)' /\ WriteClause(w, v)'
    BY <1>1, <1>2, <2>2 DEF ClipInv, Whole, Unbroken, RemoveClause, WriteClause, RemovePcs
  <2>4. AtRest(v)'
    <3>1. w \in Touching(v)'
      BY <1>1, <1>5 DEF Touching
    <3> QED
      BY <3>1 DEF AtRest
  <2>5. \A s \in Tasks \ {w} : Kin(task[s], task'[s])
    BY <1>1 DEF Only, Kin
  <2> QED
    BY <1>1, <1>2, <2>1, <2>3, <2>4, <2>5, SoleStep
<1> QED
  BY <1>4, <1>5

(* A write that goes on.                                                   *)
LEMMA ClipWriter ==
    ASSUME Ground, NEW w \in Writers, NEW v \in Ids, ClipInv(v), Sole(v), Sole(v)',
           \/ Opened(w) \/ Flush(w) \/ DiskFails(w) \/ BodyEnds(w) \/ Abandon(w)
           \/ BufferedBreaks(w) \/ SidecarOpened(w) \/ SidecarWritten(w)
    PROVE  ClipInv(v)'
<1>1. w \in Tasks /\ TaskFlow(w) /\ Shapes /\ IsTask(task[w]) /\ WriteClause(w, v)
  BY DEF Tasks, Ground, Flow, Shapes, ClipInv, BeingWritten
<1>2. task[w].id \in Ids /\ task[w].flushed \in Nat
  BY <1>1, TaskFields
<1>3. ASSUME Only(w), up, up', records' = records, read' = read,
             task[w].pc \in WritePcs, task'[w].id = task[w].id,
             \A i \in Ids \ {task[w].id} : pcm'[i] = pcm[i] /\ side'[i] = side[i],
             \/ task'[w].pc \in {"leaked"} \cup WritePcs
             \/ task'[w].pc \in RemovePcs /\ task'[w].target = task[w].id,
             v = task[w].id => Unbroken(v)' /\ RemoveClause(w, v)' /\ WriteClause(w, v)' /\ AtRest(v)'
      PROVE  ClipInv(v)'
  <2>1. CASE v # task[w].id
    <3>1. ~ Holds(w, v) /\ ~ Holds(w, v)'
      BY <1>3, <2>1 DEF Holds, WritePcs, RemovePcs
    <3> QED
      BY <1>1, <1>3, <2>1, <3>1, OthersClip
  <2>2. CASE v = task[w].id
    <3>1. Holds(w, v) /\ records[v] = None
      BY <1>1, <1>3, <2>2 DEF Holds, WriteClause
    <3>2. Whole(v)'
      BY <1>3, <3>1 DEF Whole
    <3>3. \A s \in Tasks \ {w} : Kin(task[s], task'[s])
      BY <1>3 DEF Only, Kin
    <3> QED
      BY <1>1, <1>3, <2>2, <3>1, <3>2, <3>3, SoleStep
  <2> QED
    BY <2>1, <2>2
<1>4. ASSUME v = task[w].id, task'[w].id = task[w].id, records' = records,
             \/ task'[w].pc \in WritePcs
             \/ task'[w].pc \in RemovePcs /\ task'[w].target = task[w].id
      PROVE  AtRest(v)'
  <2>1. w \in Touching(v)'
    BY <1>1, <1>4 DEF Touching, WritePcs, RemovePcs
  <2> QED
    BY <2>1 DEF AtRest
<1>5. CASE Opened(w)
  <2>1. /\ Only(w)
        /\ task'[w].pc = "write" /\ task'[w].linked /\ task'[w].id = task[w].id
        /\ task'[w].flushed = task[w].flushed
    BY <1>1, <1>5, OpenedFrame
  <2>2. /\ pcm' = [pcm EXCEPT ![task[w].id] = {}] /\ side' = side /\ records' = records
        /\ read' = read /\ up /\ up' /\ task[w].pc = "open"
    BY <1>5 DEF Opened
  <2>3. task[w].pc \in WritePcs /\ task'[w].pc \in WritePcs
    BY <2>1, <2>2 DEF WritePcs
  <2>4. \A i \in Ids \ {task[w].id} : pcm'[i] = pcm[i] /\ side'[i] = side[i]
    BY <1>1, <2>2 DEF Shapes
  <2>5. ASSUME v = task[w].id
        PROVE  Unbroken(v)' /\ RemoveClause(w, v)' /\ WriteClause(w, v)'
    <3>1. pcm'[v] = 1..0 /\ task[w].flushed = 0 /\ Length[v] \in Nat
      BY <1>1, <2>2, <2>5, ChunksAreNumbers DEF Shapes, TaskFlow
    <3>2. records[v] = None
      BY <1>1, <2>3, <2>5 DEF WriteClause
    <3>3. Unbroken(v)'
      BY <3>1 DEF Unbroken
    <3> QED
      BY <2>1, <2>2, <3>1, <3>2, <3>3 DEF RemoveClause, WriteClause, RemovePcs
  <2> QED
    BY <1>3, <1>4, <2>1, <2>2, <2>3, <2>4, <2>5
<1>6. CASE Flush(w)
  <2>1. /\ Only(w) /\ task'[w].pc = task[w].pc /\ task'[w].flushed = task[w].flushed + 1
        /\ task'[w].id = task[w].id
        /\ task'[w].linked = task[w].linked /\ task'[w].failed = task[w].failed
    BY <1>1, <1>6, FlushFrame
  <2>2. /\ side' = side /\ records' = records /\ read' = read /\ up /\ up'
        /\ task[w].pc = "write" /\ ~ task[w].failed
        /\ task[w].flushed + 1 \in Pos(task[w].id)
        /\ pcm' = IF task[w].linked
                  THEN [pcm EXCEPT ![task[w].id] = pcm[task[w].id] \cup {task[w].flushed + 1}]
                  ELSE pcm
    BY <1>6 DEF Flush
  <2>3. task[w].pc \in WritePcs /\ task'[w].pc \in WritePcs
    BY <2>1, <2>2 DEF WritePcs
  <2>4. \A i \in Ids \ {task[w].id} : pcm'[i] = pcm[i] /\ side'[i] = side[i]
    BY <1>1, <2>2 DEF Shapes
  <2>5. ASSUME v = task[w].id
        PROVE  Unbroken(v)' /\ RemoveClause(w, v)' /\ WriteClause(w, v)'
    <3>1. records[v] = None /\ task[w].linked /\ pcm[v] = 1..task[w].flushed
      BY <1>1, <2>2, <2>3, <2>5 DEF WriteClause
    <3>2. pcm'[v] = 1..(task[w].flushed + 1)
      <4>1. pcm'[v] = (1..task[w].flushed) \cup {task[w].flushed + 1}
        BY <1>1, <2>2, <2>5, <3>1 DEF Shapes
      <4> QED
        BY <1>2, <4>1
    <3>3. Unbroken(v)'
      <4>1. task[w].flushed + 1 \in 0..Length[v]
        BY <2>2, <2>5, ChunksAreNumbers DEF Pos
      <4> QED
        BY <3>2, <4>1 DEF Unbroken
    <3> QED
      BY <2>1, <2>2, <3>1, <3>2, <3>3 DEF RemoveClause, WriteClause, RemovePcs
  <2> QED
    BY <1>3, <1>4, <2>1, <2>2, <2>3, <2>4, <2>5
<1>7. CASE DiskFails(w)
  <2>1. /\ Only(w) /\ task'[w].pc = "write" /\ task'[w].failed /\ task'[w].id = task[w].id
    BY <1>1, <1>7, DiskFailsFrame
  <2>2. /\ pcm' = pcm /\ side' = side /\ records' = records /\ read' = read /\ up /\ up'
        /\ task[w].pc \in {"open", "write"}
    BY <1>7 DEF DiskFails, disk
  <2>3. task[w].pc \in WritePcs /\ task'[w].pc \in WritePcs
    BY <2>1, <2>2 DEF WritePcs
  <2>4. ASSUME v = task[w].id
        PROVE  Unbroken(v)' /\ RemoveClause(w, v)' /\ WriteClause(w, v)'
    <3>1. records[v] = None
      BY <1>1, <2>3, <2>4 DEF WriteClause
    <3> QED
      BY <2>1, <2>2, <3>1 DEF ClipInv, Unbroken, RemoveClause, WriteClause, RemovePcs
  <2> QED
    BY <1>3, <1>4, <2>1, <2>2, <2>3, <2>4
<1>8. CASE BodyEnds(w)
  <2>1. /\ Only(w) /\ task'[w].pc = "sidecar" /\ task'[w].id = task[w].id
        /\ task'[w].flushed = task[w].flushed
    BY <1>1, <1>8, BodyEndsFrame
  <2>2. /\ pcm' = pcm /\ side' = side /\ records' = records /\ read' = read /\ up /\ up'
        /\ task[w].pc = "write" /\ ~ task[w].failed
    BY <1>8 DEF BodyEnds, disk
  <2>3. task[w].pc \in WritePcs /\ task'[w].pc \in WritePcs
    BY <2>1, <2>2 DEF WritePcs
  <2>4. ASSUME v = task[w].id
        PROVE  Unbroken(v)' /\ RemoveClause(w, v)' /\ WriteClause(w, v)'
    <3>1. records[v] = None /\ pcm[v] = 1..task[w].flushed
      BY <1>1, <2>2, <2>3, <2>4 DEF WriteClause
    <3> QED
      BY <2>1, <2>2, <3>1 DEF ClipInv, Unbroken, RemoveClause, WriteClause, RemovePcs
  <2> QED
    BY <1>3, <1>4, <2>1, <2>2, <2>3, <2>4
<1>9. CASE Abandon(w)
  <2>1. /\ RemoveFiles(w, "remove", task[w].id, <<>>) /\ up /\ up'
        /\ task[w].pc \in {"write", "torn", "sidecar"}
        /\ pcm' = pcm /\ side' = side /\ records' = records /\ read' = read
    BY <1>9 DEF Abandon, disk
  <2>2. /\ Only(w) /\ task'[w].pc = "remove" /\ task'[w].id = task[w].id
        /\ task'[w].target = task[w].id /\ task'[w].rm = FileNames
    BY <1>1, <2>1, RemoveFrame DEF RemovePcs
  <2>3. task[w].pc \in WritePcs /\ task'[w].pc \in RemovePcs
    BY <2>1, <2>2 DEF WritePcs, RemovePcs
  <2>4. ASSUME v = task[w].id
        PROVE  Unbroken(v)' /\ RemoveClause(w, v)' /\ WriteClause(w, v)'
    <3>1. records[v] = None
      BY <1>1, <2>3, <2>4 DEF WriteClause
    <3> QED
      BY <2>1, <2>2, <3>1 DEF ClipInv, Unbroken, RemoveClause, WriteClause, WritePcs, FileNames
  <2> QED
    BY <1>3, <1>4, <2>1, <2>2, <2>3, <2>4
<1>10. CASE BufferedBreaks(w)
  <2>1. /\ Only(w) /\ task'[w].pc = "leaked" /\ task'[w].id = task[w].id
    BY <1>1, <1>10, BufferedBreaksFrame
  <2>2. /\ pcm' = pcm /\ side' = side /\ records' = records /\ read' = read /\ up /\ up'
        /\ task[w].pc \in {"open", "write"} /\ task[w].id \in Tees
    BY <1>10 DEF BufferedBreaks, disk
  <2>3. task[w].pc \in WritePcs
    BY <2>2 DEF WritePcs
  <2>4. ASSUME v = task[w].id
        PROVE  Unbroken(v)' /\ RemoveClause(w, v)' /\ WriteClause(w, v)' /\ AtRest(v)'
    <3>1. records[v] = None
      BY <1>1, <2>3, <2>4 DEF WriteClause
    <3>2. side[v] = None
      <4> SUFFICES ASSUME side[v] # None PROVE FALSE
        OBVIOUS
      <4>1. PICK u \in Writers : task[u].id = v /\ task[u].pc \in Late
        BY <2>2, <2>4 DEF Ground, TeesOnce
      <4>2. task[u].pc # "new" /\ task[w].pc # "new" /\ task[w].pc \notin Late
        BY <2>2, <4>1 DEF Late, RemovePcs
      <4>3. v \notin Cues
        BY <2>2, <2>4, ClipCacheAssumption
      <4> QED
        BY <2>4, <4>1, <4>2, <4>3 DEF Ground, TeesOnce
    <3>3. AtRest(v)'
      BY <2>2, <3>1, <3>2, MarksAssumption DEF AtRest, Loadable
    <3> QED
      BY <2>1, <2>2, <3>1, <3>3
        DEF ClipInv, Unbroken, RemoveClause, WriteClause, WritePcs, RemovePcs
  <2> QED
    BY <1>3, <2>1, <2>2, <2>3, <2>4
<1>11. CASE SidecarOpened(w)
  <2>1. /\ Only(w) /\ task'[w].pc = "torn" /\ task'[w].id = task[w].id
        /\ task'[w].flushed = task[w].flushed
    BY <1>1, <1>11, SidecarOpenedFrame
  <2>2. /\ pcm' = pcm /\ side' = [side EXCEPT ![task[w].id] = Torn] /\ records' = records
        /\ read' = read /\ up /\ up' /\ task[w].pc = "sidecar"
    BY <1>11 DEF SidecarOpened
  <2>3. task[w].pc \in WritePcs /\ task'[w].pc \in WritePcs
    BY <2>1, <2>2 DEF WritePcs
  <2>4. \A i \in Ids \ {task[w].id} : pcm'[i] = pcm[i] /\ side'[i] = side[i]
    BY <1>1, <2>2 DEF Shapes
  <2>5. ASSUME v = task[w].id
        PROVE  Unbroken(v)' /\ RemoveClause(w, v)' /\ WriteClause(w, v)'
    <3>1. records[v] = None /\ pcm[v] = 1..task[w].flushed
      BY <1>1, <2>2, <2>3, <2>5 DEF WriteClause
    <3>2. side'[v] = Torn
      BY <1>1, <2>2, <2>5 DEF Shapes
    <3> QED
      BY <2>1, <2>2, <3>1, <3>2 DEF ClipInv, Unbroken, RemoveClause, WriteClause, RemovePcs
  <2> QED
    BY <1>3, <1>4, <2>1, <2>2, <2>3, <2>4, <2>5
<1>12. CASE SidecarWritten(w)
  <2>1. /\ Only(w) /\ task'[w].pc = "written" /\ task'[w].id = task[w].id
        /\ task'[w].flushed = task[w].flushed /\ task'[w].stamp = task[w].stamp
    BY <1>1, <1>12, SidecarWrittenFrame
  <2>2. /\ pcm' = pcm /\ records' = records
        /\ side' = IF side[task[w].id] = None THEN side
                   ELSE [side EXCEPT ![task[w].id] = MadeRecord(w)]
        /\ read' = read /\ up /\ up' /\ task[w].pc = "torn"
    BY <1>12 DEF SidecarWritten
  <2>3. task[w].pc \in WritePcs /\ task'[w].pc \in WritePcs
    BY <2>1, <2>2 DEF WritePcs
  <2>4. \A i \in Ids \ {task[w].id} : pcm'[i] = pcm[i] /\ side'[i] = side[i]
    BY <1>1, <2>2 DEF Shapes
  <2>5. ASSUME v = task[w].id
        PROVE  Unbroken(v)' /\ RemoveClause(w, v)' /\ WriteClause(w, v)'
    <3>1. records[v] = None /\ pcm[v] = 1..task[w].flushed /\ side[v] = Torn
      BY <1>1, <2>2, <2>3, <2>5 DEF WriteClause
    <3>2. side'[v] = MadeRecord(w) /\ MadeRecord(w)' = MadeRecord(w)
      BY <1>1, <2>1, <2>2, <2>5, <3>1, MarksAssumption DEF Shapes, MadeRecord
    <3> QED
      BY <2>1, <2>2, <3>1, <3>2 DEF ClipInv, Unbroken, RemoveClause, WriteClause, RemovePcs
  <2> QED
    BY <1>3, <1>4, <2>1, <2>2, <2>3, <2>4, <2>5
<1> QED
  BY <1>5, <1>6, <1>7, <1>8, <1>9, <1>10, <1>11, <1>12

(* A clip whose payload has no gap and is as long as its sidecar says.     *)
LEMMA WholeIsLoadable ==
    ASSUME NEW v \in Ids, side[v] \in Record, pcm[v] = 1..side[v].bytes
    PROVE  Loadable(v)
<1>1. side[v].bytes \in Chunks /\ side[v].bytes \in Nat
  BY ChunksAreNumbers DEF Record
<1> QED
  BY <1>1, SizeOfWhole DEF Loadable

(* An operation takes the files of clip v in hand to remove them.          *)
LEMMA ClipTaken ==
    ASSUME NEW t \in Tasks, NEW v \in Ids, ClipInv(v), Sole(v), Sole(v)', Only(t),
           pcm' = pcm, records'[v] = None, read' = read,
           task'[t].pc \in RemovePcs, task'[t].target = v, task'[t].rm = FileNames
    PROVE  ClipInv(v)'
<1>1. Holds(t, v)' /\ t \in Touching(v)'
  BY DEF Holds, Touching, RemovePcs
<1>2. Whole(v)' /\ Unbroken(v)' /\ RemoveClause(t, v)' /\ WriteClause(t, v)' /\ AtRest(v)'
  BY <1>1 DEF ClipInv, Whole, Unbroken, RemoveClause, WriteClause, WritePcs, RemovePcs,
              FileNames, AtRest
<1>3. \A s \in Tasks \ {t} : Kin(task[s], task'[s])
  BY DEF Only, Kin
<1> QED
  BY <1>1, <1>2, <1>3, SoleStep

(* The clip is indexed, and a clip may be evicted for it.                  *)
LEMMA ClipStored ==
    ASSUME Ground, NEW w \in Writers, NEW v \in Ids, ClipInv(v), Sole(v), Sole(v)', Stored(w)
    PROVE  ClipInv(v)'
<1> DEFINE recs == [records EXCEPT ![task[w].id] = MadeRecord(w)]
<1>1. w \in Tasks /\ TaskFlow(w) /\ Shapes /\ IsTask(task[w]) /\ WriteClause(w, v)
  BY DEF Tasks, Ground, Flow, Shapes, ClipInv, BeingWritten
<1>2. task[w].id \in Ids /\ task[w].flushed \in Nat
  BY <1>1, TaskFields
<1>3. /\ EvictNext(w, recs, SelectForEviction(recs)) /\ up /\ up' /\ task[w].pc = "written"
      /\ pcm' = pcm /\ side' = side /\ read' = read
  BY DEF Stored, disk
<1>4. MadeRecord(w) \in Record
  BY <1>1, <1>3, WrittenRecord
<1>5. /\ recs \in [Ids -> Record \cup {None}] /\ recs[task[w].id] = MadeRecord(w)
      /\ \A i \in Ids : i # task[w].id => recs[i] = records[i]
  BY <1>1, <1>2, <1>4 DEF Shapes
<1> HIDE DEF recs
<1>6. /\ Only(w) /\ task'[w].id = task[w].id
      /\ \/ task'[w].pc = "over" /\ records' = recs
         \/ /\ task'[w].pc = "evict" /\ task'[w].rm = FileNames
            /\ task'[w].target \in Ids => records'[task'[w].target] = None
            /\ \A i \in Ids : i # task'[w].target => records'[i] = recs[i]
  BY <1>1, <1>3, <1>5, EvictFrame
<1>7. CASE Holds(w, v)' 
  <2>1. task'[w].pc = "evict" /\ task'[w].target = v /\ task'[w].rm = FileNames
        /\ records'[v] = None
    BY <1>6, <1>7 DEF Holds, WritePcs, RemovePcs
  <2> QED
    BY <1>1, <1>3, <1>6, <2>1, ClipTaken DEF RemovePcs
<1>8. CASE ~ Holds(w, v)'
  <2>1. records'[v] = recs[v]
    BY <1>6, <1>8 DEF Holds, RemovePcs
  <2>2. CASE v # task[w].id
    <3>1. ~ Holds(w, v)
      BY <1>3, <2>2 DEF Holds, RemovePcs
    <3> QED
      BY <1>1, <1>3, <1>5, <1>6, <1>8, <2>1, <2>2, <3>1, OthersClip
  <2>3. CASE v = task[w].id
    <3>1. Holds(w, v) /\ side[v] = MadeRecord(w) /\ pcm[v] = 1..task[w].flushed
      BY <1>1, <1>3, <2>3 DEF Holds, WriteClause, WritePcs
    <3>2. records'[v] = MadeRecord(w) /\ MadeRecord(w).bytes = task[w].flushed
          /\ records'[v] # None
      BY <1>4, <1>5, <2>1, <2>3, MarksAssumption DEF MadeRecord
    <3>3. Whole(v)' /\ Unbroken(v)' /\ RemoveClause(w, v)' /\ WriteClause(w, v)'
      BY <1>3, <1>6, <1>8, <3>1, <3>2
        DEF ClipInv, Whole, Unbroken, RemoveClause, WriteClause, Holds, WritePcs, RemovePcs
    <3>4. AtRest(v)'
      <4>1. Loadable(v)
        BY <1>4, <3>1, <3>2, WholeIsLoadable
      <4>2. Loadable(v)' <=> Loadable(v)
        BY <1>3 DEF Loadable, Size
      <4> QED
        BY <3>2, <4>1, <4>2 DEF AtRest
    <3>5. \A s \in Tasks \ {w} : Kin(task[s], task'[s])
      BY <1>6 DEF Only, Kin
    <3> QED
      BY <1>1, <1>3, <3>1, <3>3, <3>4, <3>5, SoleStep
  <2> QED
    BY <2>2, <2>3
<1> QED
  BY <1>7, <1>8

(* A DELETE takes a clip in hand.                                          *)
LEMMA ClipRemoved ==
    ASSUME Ground, NEW d \in Removers, NEW id \in Ids, RemoveClip(d, id),
           NEW v \in Ids, ClipInv(v), Sole(v), Sole(v)'
    PROVE  ClipInv(v)'
<1>1. d \in Tasks /\ d \notin Writers /\ Shapes
  BY ClipCacheAssumption DEF Tasks, Ground
<1>2. /\ RemoveFiles(d, "remove", id, <<>>) /\ up /\ up' /\ task[d].pc = "new"
      /\ pcm' = pcm /\ side' = side /\ records' = [records EXCEPT ![id] = None]
      /\ read' = read
  BY DEF RemoveClip, disk
<1>3. /\ Only(d) /\ task'[d].pc = "remove" /\ task'[d].target = id /\ task'[d].rm = FileNames
  BY <1>1, <1>2, RemoveFrame DEF RemovePcs
<1>4. CASE v = id
  <2>1. records'[v] = None
    BY <1>1, <1>2, <1>4 DEF Shapes
  <2> QED
    BY <1>1, <1>2, <1>3, <1>4, <2>1, ClipTaken DEF RemovePcs
<1>5. CASE v # id
  <2>1. ~ Holds(d, v) /\ ~ Holds(d, v)' /\ records'[v] = records[v]
    BY <1>1, <1>2, <1>3, <1>5 DEF Holds, RemovePcs, Shapes
  <2> QED
    BY <1>1, <1>2, <1>3, <2>1, OthersClip
<1> QED
  BY <1>4, <1>5

(* A file of the clip in hand is unlinked.                                 *)
LEMMA ClipUnlinked ==
    ASSUME Ground, NEW t \in Tasks, UnlinkPcm(t) \/ UnlinkSide(t),
           NEW v \in Ids, ClipInv(v), Sole(v), Sole(v)'
    PROVE  ClipInv(v)'
<1>1. TaskFlow(t) /\ Shapes /\ RemoveClause(t, v)
  BY DEF Ground, Flow, ClipInv, BeingRemoved
<1>2. /\ records' = records /\ read' = read /\ up' = up
      /\ task[t].rm # {}
  BY DEF UnlinkPcm, UnlinkSide
<1>3. task[t].pc \in RemovePcs /\ task[t].pc # "new"
  BY <1>1, <1>2 DEF TaskFlow, RemovePcs
<1>4. /\ task'[t].pc = task[t].pc /\ task'[t].target = task[t].target
      /\ \A s \in Tasks \ {t} :
            /\ Kin(task[s], task'[s])
            /\ task[s].id # task[t].target => task'[s].linked = task[s].linked
  <2>1. CASE UnlinkPcm(t)
    BY <1>1, <2>1, UnlinkPcmFrame
  <2>2. CASE UnlinkSide(t)
    <3>1. /\ Only(t) /\ task'[t].pc = task[t].pc /\ task'[t].target = task[t].target
      BY <1>1, <2>2, UnlinkSideFrame
    <3> QED
      BY <3>1 DEF Only, Kin
  <2> QED
    BY <2>1, <2>2
<1>5. CASE v # task[t].target
  <2>1. pcm'[v] = pcm[v] /\ side'[v] = side[v]
    BY <1>1, <1>5 DEF UnlinkPcm, UnlinkSide, Shapes
  <2>2. ASSUME NEW s \in Tasks
        PROVE  Unmoved(s, v)
    <3>1. CASE s = t
      BY <1>3, <1>4, <1>5, <3>1 DEF Unmoved, Holds, WritePcs, RemovePcs
    <3>2. CASE s # t
      BY <1>4, <1>5, <3>2 DEF Unmoved
    <3> QED
      BY <3>1, <3>2
  <2>3. task'[Boot].pc = task[Boot].pc
    BY <1>4 DEF Kin, Tasks
  <2> QED
    BY <1>2, <2>1, <2>2, <2>3, Elsewhere
<1>6. CASE v = task[t].target
  <2>1. Holds(t, v) /\ t \in Touching(v)'
    BY <1>3, <1>4, <1>6 DEF Holds, Touching, RemovePcs
  <2>2. /\ records[v] = None
        /\ "pcm" \notin task[t].rm => pcm[v] = None
        /\ "side" \notin task[t].rm => side[v] = None
    BY <1>1, <1>3, <1>6 DEF RemoveClause
  <2>3. Whole(v)' /\ AtRest(v)'
    BY <1>2, <2>1, <2>2 DEF Whole, AtRest
  <2>4. Unbroken(v)' /\ RemoveClause(t, v)'
    <3>1. CASE UnlinkPcm(t)
      <4>1. task'[t].rm = task[t].rm \ {"pcm"} /\ side' = side
        BY <1>1, <3>1, UnlinkPcmFrame DEF UnlinkPcm
      <4>2. pcm'[v] = None
        BY <1>1, <1>6, <3>1 DEF UnlinkPcm, Shapes
      <4> QED
        BY <1>2, <2>2, <4>1, <4>2 DEF Unbroken, RemoveClause
    <3>2. CASE UnlinkSide(t)
      <4>1. task'[t].rm = task[t].rm \ {"side"} /\ pcm' = pcm
        BY <1>1, <3>2, UnlinkSideFrame DEF UnlinkSide
      <4>2. side'[v] = None
        BY <1>1, <1>6, <3>2 DEF UnlinkSide, Shapes
      <4> QED
        BY <1>2, <2>2, <4>1, <4>2 DEF ClipInv, Unbroken, RemoveClause
    <3> QED
      BY <3>1, <3>2
  <2>5. WriteClause(t, v)'
    BY <1>3, <1>4 DEF WriteClause, WritePcs, RemovePcs
  <2> QED
    BY <1>2, <1>4, <2>1, <2>3, <2>4, <2>5, SoleStep
<1> QED
  BY <1>5, <1>6

(* The files of the clip in hand are gone: the operation is over, or turns *)
(* to the next clip.                                                       *)
LEMMA ClipGone ==
    ASSUME Ground, NEW t \in Tasks, Removed(t) \/ Evicted(t),
           NEW v \in Ids, ClipInv(v), Sole(v), Sole(v)'
    PROVE  ClipInv(v)'
<1>1. Shapes /\ RemoveClause(t, v)
  BY DEF Ground, ClipInv, BeingRemoved
<1>2. /\ task[t].pc \in RemovePcs /\ task[t].rm = {}
      /\ pcm' = pcm /\ side' = side /\ read' = read
      /\ up' => up \/ t = Boot
  <2>1. CASE Removed(t)
    BY <2>1 DEF Removed, disk, RemovePcs
  <2>2. CASE Evicted(t)
    <3>1. up' = (up \/ (t = Boot /\ task[t].doomed = <<>>))
      BY <2>2 DEF Evicted
    <3> QED
      BY <2>2, <3>1 DEF Evicted, disk, RemovePcs
  <2> QED
    BY <2>1, <2>2
<1>3. /\ Only(t)
      /\ \/ task'[t].pc = "over" /\ records' = records
         \/ /\ task'[t].pc = "evict" /\ task'[t].rm = FileNames
            /\ task'[t].target \in Ids => records'[task'[t].target] = None
            /\ \A i \in Ids : i # task'[t].target => records'[i] = records[i]
  <2>1. CASE Removed(t)
    BY <1>1, <2>1, OverFrame DEF Removed
  <2>2. CASE Evicted(t)
    BY <1>1, <2>2, EvictFrame DEF Evicted, Shapes
  <2> QED
    BY <2>1, <2>2
<1>4. up' \/ task'[Boot].pc # "new" => up \/ task[Boot].pc # "new"
  <2>1. task[t].pc # "new" /\ Boot \in Tasks
    BY <1>2 DEF RemovePcs, Tasks
  <2>2. t # Boot => task'[Boot] = task[Boot]
    BY <1>3, <2>1 DEF Only
  <2> QED
    BY <1>2, <2>1, <2>2
<1>5. CASE Holds(t, v)'
  <2>1. task'[t].pc = "evict" /\ task'[t].target = v /\ task'[t].rm = FileNames
        /\ records'[v] = None
    BY <1>3, <1>5 DEF Holds, WritePcs, RemovePcs
  <2> QED
    BY <1>2, <1>3, <2>1, ClipTaken DEF RemovePcs
<1>6. CASE ~ Holds(t, v)'
  <2>1. records'[v] = records[v]
    BY <1>3, <1>6 DEF Holds, RemovePcs
  <2>2. CASE ~ Holds(t, v)
    BY <1>2, <1>3, <1>4, <1>6, <2>1, <2>2, OthersClip
  <2>3. CASE Holds(t, v)
    <3>1. task[t].target = v
      BY <1>2, <2>3 DEF Holds, WritePcs, RemovePcs
    <3>2. records'[v] = None /\ pcm'[v] = None /\ side'[v] = None
      BY <1>1, <1>2, <2>1, <3>1 DEF RemoveClause
    <3>3. Whole(v)' /\ Unbroken(v)' /\ RemoveClause(t, v)' /\ AtRest(v)'
      BY <3>2, MarksAssumption DEF Whole, Unbroken, RemoveClause, AtRest, Loadable
    <3>4. t \in Writers => WriteClause(t, v)'
      BY <1>6 DEF WriteClause, Holds
    <3>5. \A s \in Tasks \ {t} : Kin(task[s], task'[s])
      BY <1>3 DEF Only, Kin
    <3> QED
      BY <1>2, <2>3, <3>3, <3>4, <3>5, SoleStep
  <2> QED
    BY <2>2, <2>3
<1> QED
  BY <1>5, <1>6

(* A read finds the clip it was started for.                               *)
LEMMA ClipReading ==
    ASSUME Ground, NEW v \in Ids, ClipInv(v),
           \/ \E r \in Readers : ReadDone(r) \/ \E id \in Ids : ReadStart(r, id)
           \/ WhenIdle
    PROVE  ClipInv(v)'
<1>1. Shapes
  BY DEF Ground
<1>2. \A s \in Tasks : task' = task => Unmoved(s, v)
  BY DEF Unmoved, Kin
<1>3. ASSUME NEW r \in Readers, NEW id \in Ids, ReadStart(r, id)
      PROVE  ClipInv(v)'
  <2>1. /\ up /\ up' /\ task' = task /\ pcm' = pcm /\ side' = side
        /\ records' = records /\ records[id] # None /\ read[r] = None
        /\ read' = [read EXCEPT ![r] = [id |-> id, bytes |-> records[id].bytes]]
    BY <1>3 DEF ReadStart, disk
  <2>2. /\ read'[r] = [id |-> id, bytes |-> records[id].bytes]
        /\ \A q \in Readers \ {r} : read'[q] = read[q]
    BY <1>1, <2>1 DEF Shapes
  <2>3. CASE v # id
    <3>1. ~ Reads(r, v) /\ ~ Reads(r, v)'
      BY <2>1, <2>2, <2>3 DEF Reads
    <3> QED
      BY <1>2, <2>1, <2>2, <3>1, Elsewhere
  <2>4. CASE v = id
    <3>1. Whole(v)' /\ Unbroken(v)' /\ BeingRemoved(v)'
      BY <2>1 DEF ClipInv, Whole, Unbroken, BeingRemoved, RemoveClause
    <3>2. BeingWritten(v)'
      BY <2>1 DEF ClipInv, BeingWritten, WriteClause, MadeRecord
    <3>3. BeingRead(v)'
      <4> SUFFICES ASSUME NEW q \in Readers, read'[q] # None, read'[q].id = v
                   PROVE  records'[v] # None /\ read'[q].bytes = records'[v].bytes
        BY DEF BeingRead
      <4>1. CASE q = r
        BY <2>1, <2>2, <2>4, <4>1
      <4>2. CASE q # r
        BY <2>1, <2>2, <4>2 DEF ClipInv, BeingRead
      <4> QED
        BY <4>1, <4>2
    <3>4. AtRest(v)'
      <4>1. side[v] = records[v] /\ pcm[v] = 1..records[v].bytes /\ records[v] \in Record
        BY <1>1, <2>1, <2>4 DEF ClipInv, Whole, Shapes
      <4>2. Loadable(v)
        BY <4>1, WholeIsLoadable
      <4> QED
        BY <2>1, <2>4, <4>2 DEF AtRest, Loadable, Size
    <3> QED
      BY <3>1, <3>2, <3>3, <3>4 DEF ClipInv
  <2> QED
    BY <2>3, <2>4
<1>4. ASSUME NEW r \in Readers, ReadDone(r)
      PROVE  ClipInv(v)'
  <2>1. /\ up /\ up' /\ task' = task /\ pcm' = pcm /\ side' = side /\ read[r] # None
        /\ records' = IF pcm[read[r].id] # None /\ Size(read[r].id) = read[r].bytes
                      THEN records ELSE [records EXCEPT ![read[r].id] = None]
        /\ read' = [read EXCEPT ![r] = None]
    BY <1>4 DEF ReadDone, disk
  <2>2. read'[r] = None /\ \A q \in Readers \ {r} : read'[q] = read[q]
    BY <1>1, <2>1 DEF Shapes
  <2>3. CASE ~ Reads(r, v)
    <3>1. records'[v] = records[v] /\ ~ Reads(r, v)'
      BY <1>1, <2>1, <2>2, <2>3 DEF Reads, Shapes
    <3> QED
      BY <1>2, <2>1, <2>2, <2>3, <3>1, Elsewhere
  <2>4. CASE Reads(r, v)
    <3>1. records[v] # None /\ read[r].bytes = records[v].bytes /\ read[r].id = v
      BY <2>4 DEF Reads, ClipInv, BeingRead
    <3>2. side[v] = records[v] /\ pcm[v] = 1..records[v].bytes /\ records[v] \in Record
      BY <1>1, <3>1 DEF ClipInv, Whole, Shapes
    <3>3. Loadable(v)
      BY <3>2, WholeIsLoadable
    <3>4. records' = records
      BY <2>1, <3>1, <3>2, <3>3 DEF Loadable
    <3>5. Whole(v)' /\ Unbroken(v)' /\ BeingRemoved(v)'
      BY <2>1, <3>4 DEF ClipInv, Whole, Unbroken, BeingRemoved, RemoveClause
    <3>6. BeingWritten(v)'
      BY <2>1, <3>4 DEF ClipInv, BeingWritten, WriteClause, MadeRecord
    <3>7. BeingRead(v)'
      BY <2>2, <3>4 DEF ClipInv, BeingRead
    <3>8. AtRest(v)'
      BY <2>1, <3>1, <3>3, <3>4 DEF AtRest, Loadable, Size
    <3> QED
      BY <3>5, <3>6, <3>7, <3>8 DEF ClipInv
  <2> QED
    BY <2>3, <2>4
<1>5. CASE WhenIdle
  <2>1. /\ up /\ up' /\ task' = task /\ pcm' = pcm /\ side' = side
        /\ records' = records /\ read' = read
    BY <1>5 DEF WhenIdle, disk
  <2> QED
    BY <1>2, <2>1, Elsewhere
<1> QED
  BY <1>3, <1>4, <1>5

(* A kill leaves the disk, and no operation.                               *)
LEMMA ClipCrash ==
    ASSUME Ground, Crash, NEW v \in Ids, ClipInv(v)
    PROVE  ClipInv(v)'
<1>1. /\ ~ up' /\ records' = [id \in Ids |-> None]
      /\ read' = [r \in Readers |-> None] /\ pcm' = pcm /\ side' = side
      /\ \A t \in Tasks :
            task'[t] = IF task[t].pc = "new" \/ t = Boot THEN NewTask(task[t].id)
                       ELSE [NewTask(task[t].id) EXCEPT !.pc = "over"]
  BY DEF Crash, disk
<1>2. ASSUME NEW t \in Tasks
      PROVE  /\ task'[t].pc \in {"new", "over"} /\ (t = Boot => task'[t].pc = "new")
             /\ ~ Holds(t, v)'
  <2>1. CASE task[t].pc = "new" \/ t = Boot
    <3>1. task'[t] = NewTask(task[t].id)
      BY <1>1, <2>1
    <3>2. task'[t].pc = "new"
      BY <3>1 DEF NewTask
    <3> QED
      BY <3>2 DEF Holds, WritePcs, RemovePcs
  <2>2. CASE ~ (task[t].pc = "new" \/ t = Boot)
    <3>1. task'[t] = [NewTask(task[t].id) EXCEPT !.pc = "over"]
      BY <1>1, <2>2
    <3>2. task'[t].pc = "over"
      BY <3>1 DEF NewTask
    <3> QED
      BY <2>2, <3>2 DEF Holds, WritePcs, RemovePcs
  <2> QED
    BY <2>1, <2>2
<1>3. Whole(v)' /\ Unbroken(v)' /\ BeingRead(v)'
  BY <1>1 DEF ClipInv, Whole, Unbroken, BeingRead
<1>4. BeingRemoved(v)' /\ BeingWritten(v)'
  BY <1>2 DEF BeingRemoved, RemoveClause, BeingWritten, WriteClause, Holds, Tasks
<1>5. AtRest(v)'
  <2>1. task'[Boot].pc = "new"
    BY <1>2 DEF Tasks
  <2> QED
    BY <1>1, <2>1 DEF AtRest
<1> QED
  BY <1>3, <1>4, <1>5 DEF ClipInv

(* load() indexes what is whole and nothing else.                          *)
LEMMA ClipLoad ==
    ASSUME Ground, Load, NEW v \in Ids, ClipInv(v), Sole(v), Sole(v)'
    PROVE  ClipInv(v)'
<1>1. Shapes /\ Boot \in Tasks /\ Boot \notin Writers /\ Phase
  BY ClipCacheAssumption DEF Ground, Tasks
<1>2. /\ EvictNext(Boot, LoadedRecords, SelectForEviction(LoadedRecords))
      /\ ~ up /\ task[Boot].pc = "new"
      /\ pcm' = pcm /\ side' = side /\ read' = read
  BY DEF Load, LoadedRecords, disk
<1>3. /\ LoadedRecords \in [Ids -> Record \cup {None}]
      /\ LoadedRecords[v] = IF Loadable(v) THEN side[v] ELSE None
  BY DEF LoadedRecords, Loadable
<1>4. /\ Only(Boot)
      /\ \/ task'[Boot].pc = "over" /\ records' = LoadedRecords
         \/ /\ task'[Boot].pc = "evict" /\ task'[Boot].rm = FileNames
            /\ task'[Boot].target \in Ids => records'[task'[Boot].target] = None
            /\ \A i \in Ids : i # task'[Boot].target => records'[i] = LoadedRecords[i]
  BY <1>1, <1>2, <1>3, EvictFrame
<1>5. CASE Holds(Boot, v)'
  <2>1. task'[Boot].pc = "evict" /\ task'[Boot].target = v /\ task'[Boot].rm = FileNames
        /\ records'[v] = None
    BY <1>1, <1>4, <1>5 DEF Holds, RemovePcs
  <2> QED
    BY <1>1, <1>2, <1>4, <2>1, ClipTaken DEF RemovePcs
<1>6. CASE ~ Holds(Boot, v)'
  <2>1. records'[v] = IF Loadable(v) THEN side[v] ELSE None
    BY <1>3, <1>4, <1>6 DEF Holds, RemovePcs
  <2>2. ASSUME NEW t \in Tasks
        PROVE  ~ Holds(t, v)'
    <3>1. CASE t = Boot
      BY <1>6, <3>1
    <3>2. CASE t # Boot
      BY <1>1, <1>2, <1>4, <3>2 DEF Phase, Only, Holds, WritePcs, RemovePcs
    <3> QED
      BY <3>1, <3>2
  <2>3. BeingRemoved(v)' /\ BeingWritten(v)'
    BY <2>2 DEF BeingRemoved, RemoveClause, BeingWritten, WriteClause, Holds, Tasks
  <2>4. BeingRead(v)' /\ Unbroken(v)'
    BY <1>1, <1>2 DEF Phase, BeingRead, ClipInv, Unbroken
  <2>5. AtRest(v)'
    <3>1. Loadable(v)' <=> Loadable(v)
      BY <1>2 DEF Loadable, Size
    <3>2. Loadable(v) => side[v] # None
      BY MarksAssumption DEF Loadable
    <3> QED
      BY <2>1, <3>1, <3>2 DEF AtRest
  <2>6. Whole(v)'
    <3> SUFFICES ASSUME Loadable(v)
                 PROVE  side[v] = records'[v] /\ pcm[v] = 1..side[v].bytes
      BY <1>2, <2>1 DEF Whole
    <3>1. side[v] \in Record /\ pcm[v] # None /\ Size(v) = side[v].bytes
      BY DEF Loadable
    <3>2. PICK n \in 0..Length[v] : pcm[v] = 1..n
      BY <3>1 DEF ClipInv, Unbroken
    <3>3. Length[v] \in Nat /\ Pos(v) \subseteq Chunks
      BY ChunksAreNumbers
    <3>4. n \in Nat /\ (n = 0 \/ n \in Chunks)
      BY <3>3 DEF Pos
    <3>5. Size(v) = n
      BY <3>2, <3>4, SizeOfWhole
    <3> QED
      BY <2>1, <3>1, <3>2, <3>5
  <2> QED
    BY <2>3, <2>4, <2>5, <2>6 DEF ClipInv
<1> QED
  BY <1>5, <1>6
(* What the disk refuses unseen is a matter of one clip: an end that is    *)
(* short, an unlink or a read that fails.                                  *)
LEMMA ClipRefused ==
    ASSUME Ground, NEW v \in Ids \ refused', ClipInv(v),
           \/ \E w \in Writers : EndsUnseen(w)
           \/ \E t \in Tasks : UnlinkFails(t)
           \/ \E r \in Readers : ReadFails(r)
    PROVE  ClipInv(v)'
<1>1. Shapes
  BY DEF Ground
<1>2. ASSUME NEW w \in Writers, EndsUnseen(w)
      PROVE  ClipInv(v)'
  <2>1. /\ Only(w) /\ task'[w].pc = "sidecar" /\ task'[w].id = task[w].id /\ w \in Tasks
    BY <1>1, <1>2, EndsUnseenFrame DEF Tasks
  <2>2. /\ task[w].pc = "write" /\ task[w].id # v /\ up /\ up'
        /\ pcm' = pcm /\ side' = side /\ records' = records /\ read' = read
    BY <1>2 DEF EndsUnseen, Refuses, disk
  <2>3. ~ Holds(w, v) /\ ~ Holds(w, v)'
    BY <2>1, <2>2 DEF Holds, RemovePcs
  <2> QED
    BY <2>1, <2>2, <2>3, OthersClip
<1>3. ASSUME NEW t \in Tasks, UnlinkFails(t)
      PROVE  ClipInv(v)'
  <2>1. /\ Only(t) /\ task'[t].pc = task[t].pc /\ task'[t].target = task[t].target
        /\ task[t].rm # {}
    BY <1>1, <1>3, UnlinkFailsFrame
  <2>2. /\ task[t].target # v /\ up' = up
        /\ pcm' = pcm /\ side' = side /\ records' = records /\ read' = read
    BY <1>3 DEF UnlinkFails, Refuses, disk
  <2>3. task[t].pc \in RemovePcs
    BY <2>1 DEF Ground, Flow, TaskFlow
  <2>4. ~ Holds(t, v) /\ ~ Holds(t, v)'
    BY <2>1, <2>2, <2>3 DEF Holds, WritePcs, RemovePcs
  <2>5. task'[Boot].pc = task[Boot].pc
    BY <2>1 DEF Only, Tasks
  <2> QED
    BY <2>1, <2>2, <2>4, <2>5, OthersClip
<1>4. ASSUME NEW r \in Readers, ReadFails(r)
      PROVE  ClipInv(v)'
  <2>1. /\ up /\ task' = task /\ pcm' = pcm /\ side' = side /\ read[r].id # v
        /\ records' = [records EXCEPT ![read[r].id] = None]
        /\ read' = [read EXCEPT ![r] = None]
    BY <1>4 DEF ReadFails, Refuses, disk
  <2>2. records'[v] = records[v] /\ read'[r] = None /\ \A q \in Readers \ {r} : read'[q] = read[q]
    BY <1>1, <2>1 DEF Shapes
  <2>3. ~ Reads(r, v) /\ ~ Reads(r, v)'
    BY <2>1, <2>2 DEF Reads
  <2>4. \A s \in Tasks : Unmoved(s, v)
    BY <2>1 DEF Unmoved, Kin
  <2> QED
    BY <2>1, <2>2, <2>3, <2>4, Elsewhere
<1> QED
  BY <1>2, <1>3, <1>4

(* What was refused stays noted.                                           *)
LEMMA RefusedStays ==
    ASSUME Step
    PROVE  refused \subseteq refused'
BY DEF Step, TaskStep, Begin, RemoveClip, ReadDone, ReadFails, ReadStart, WhenIdle, Crash, Load,
       UnlinkPcm, UnlinkSide, UnlinkFails, Removed, Evicted, Opened, Flush, DiskFails, BodyEnds,
       EndsUnseen, Abandon, BufferedBreaks, SidecarOpened, SidecarWritten, Stored, Refuses
-----------------------------------------------------------------------------
(* An empty cache.                                                         *)
LEMMA CacheInit ==
    ASSUME Init
    PROVE  CacheInv
<1>1. /\ pcm = [id \in Ids |-> None] /\ side = [id \in Ids |-> None]
      /\ records = [id \in Ids |-> None] /\ inflight = [id \in Ids |-> None]
      /\ task = [t \in Tasks |-> NewTask(CHOOSE id \in Ids : TRUE)]
      /\ read = [r \in Readers |-> None] /\ up /\ up \in BOOLEAN /\ contested = {}
  BY DEF Init
<1>2. (CHOOSE id \in Ids : TRUE) \in Ids
  BY ClipCacheAssumption
<1>3. ASSUME NEW t \in Tasks
      PROVE  IsTask(task[t]) /\ task[t].pc = "new" /\ task[t].rm = {}
  <2>1. PICK new : new = NewTask(CHOOSE id \in Ids : TRUE)
    OBVIOUS
  <2>2. IsTask(new) /\ new.pc = "new" /\ new.rm = {}
    BY <1>2, <2>1, FreshTask
  <2> QED
    BY <1>1, <2>1, <2>2
<1>4. Ground
  <2>1. Shapes
    BY <1>1, <1>3 DEF Shapes
  <2>2. Flow
    BY <1>3 DEF Flow, TaskFlow
  <2>3. Phase
    BY <1>1, <1>3 DEF Phase, Tasks
  <2>4. TeesOnce
    BY <1>1, <1>3 DEF TeesOnce, Tasks, Ids
  <2> QED
    BY <2>1, <2>2, <2>3, <2>4 DEF Ground
<1>5. ASSUME NEW id \in Ids
      PROVE  Touching(id) = {} /\ WritesOf(id) = {}
  BY <1>1, <1>3 DEF Touching, WritesOf, Writing, Tasks
<1>6. Alone
  BY <1>5 DEF Alone
<1>7. ASSUME NEW id \in Ids
      PROVE  ClipInv(id)
  <2>1. Whole(id) /\ Unbroken(id) /\ BeingRead(id)
    BY <1>1 DEF Whole, Unbroken, BeingRead
  <2>2. BeingRemoved(id) /\ BeingWritten(id)
    BY <1>3 DEF BeingRemoved, RemoveClause, BeingWritten, WriteClause, WritePcs, RemovePcs, Tasks
  <2>3. AtRest(id)
    BY <1>1, MarksAssumption DEF AtRest, Loadable
  <2> QED
    BY <2>1, <2>2, <2>3 DEF ClipInv
<1> QED
  BY <1>4, <1>6, <1>7 DEF CacheInv

(* Every step keeps the invariant: the ground, then each clip that is not  *)
(* excused after it.                                                       *)
LEMMA CacheStep ==
    ASSUME CacheInv, Next
    PROVE  CacheInv'
<1>1. Step /\ Contest /\ Ground
  BY DEF Next, CacheInv
<1>2. Ground' /\ Alone' /\ contested \subseteq contested' /\ refused \subseteq refused'
  BY <1>1, GroundStep, Noted, RefusedStays
<1>3. ASSUME NEW v \in Ids \ Excused'
      PROVE  ClipInv(v)'
  <2>1. /\ v \in Ids \ contested' /\ v \in Ids \ refused'
        /\ ClipInv(v) /\ Sole(v) /\ Sole(v)'
    BY <1>2 DEF CacheInv, Alone, Sole, Excused
  <2>2. ASSUME NEW w \in Writers, NEW id \in Ids, Begin(w, id)
        PROVE  ClipInv(v)'
    BY <1>1, <2>1, <2>2, ClipBegin
  <2>3. ASSUME NEW d \in Removers, NEW id \in Ids, RemoveClip(d, id)
        PROVE  ClipInv(v)'
    BY <1>1, <2>1, <2>3, ClipRemoved
  <2>4. ASSUME NEW t \in Tasks, TaskStep(t)
        PROVE  ClipInv(v)'
    BY <1>1, <2>1, <2>4, ClipUnlinked, ClipGone, ClipWriter, ClipStored, ClipRefused DEF TaskStep
  <2>5. CASE \E r \in Readers : ReadFails(r)
    BY <1>1, <2>1, <2>5, ClipRefused
  <2>6. CASE \/ \E r \in Readers : ReadDone(r) \/ \E id \in Ids : ReadStart(r, id)
             \/ WhenIdle
    BY <1>1, <2>1, <2>6, ClipReading
  <2>7. CASE Crash
    BY <1>1, <2>1, <2>7, ClipCrash
  <2>8. CASE Load
    BY <1>1, <2>1, <2>8, ClipLoad
  <2> QED
    BY <1>1, <2>2, <2>3, <2>4, <2>5, <2>6, <2>7, <2>8 DEF Step
<1> QED
  BY <1>2, <1>3 DEF CacheInv

(* So does a step that changes nothing.                                    *)
LEMMA CacheStutter ==
    ASSUME CacheInv, UNCHANGED vars
    PROVE  CacheInv'
<1>1. /\ pcm' = pcm /\ side' = side /\ records' = records /\ inflight' = inflight
      /\ task' = task /\ read' = read /\ up' = up /\ contested' = contested
      /\ Excused' = Excused
  BY DEF vars, Excused
<1>2. Ground'
  BY <1>1 DEF CacheInv, Ground, Shapes, Flow, TaskFlow, Phase, TeesOnce
<1>3. Alone'
  BY <1>1 DEF CacheInv, Alone, Touching, WritesOf, Writing
<1>4. ASSUME NEW v \in Ids \ Excused
      PROVE  ClipInv(v)'
  <2>1. \A s \in Tasks : Unmoved(s, v)
    BY <1>1 DEF Unmoved, Kin
  <2> QED
    BY <1>1, <2>1, Elsewhere DEF CacheInv
<1> QED
  BY <1>1, <1>2, <1>3, <1>4 DEF CacheInv

(* The invariant is inductive.                                             *)
THEOREM CacheInvariant == Spec => []CacheInv
<1>1. Init => CacheInv
  BY CacheInit
<1>2. CacheInv /\ [Next]_vars => CacheInv'
  BY CacheStep, CacheStutter
<1> QED
  BY <1>1, <1>2, PTL DEF Spec

(* A clip in the index has its whole payload and its own sidecar on disk,  *)
(* and a restart would index the clips that are indexed and no other       *)
(* (store, remove, evict and load of cache.ts), unless two operations met  *)
(* on that id, or the disk refused something of it and nobody looked.      *)
THEOREM IndexIsOnDisk == Spec => []IndexedOnDisk
<1>1. CacheInv => IndexedOnDisk
  <2> SUFFICES ASSUME CacheInv, NEW id \in Ids \ Excused
               PROVE  /\ records[id] # None =>
                            side[id] = records[id] /\ pcm[id] = 1..records[id].bytes
                      /\ up /\ Touching(id) = {} => (Loadable(id) <=> records[id] # None)
    BY DEF IndexedOnDisk
  <2>1. Whole(id) /\ AtRest(id)
    BY DEF CacheInv, ClipInv
  <2> QED
    BY <2>1 DEF Whole, AtRest
<1> QED
  BY <1>1, CacheInvariant, PTL
-----------------------------------------------------------------------------
(* Every write is awaited.                                                 *)

(* One operation moves on; its promise is settled only when it is over.    *)
LEMMA AwaitedTask ==
    ASSUME Shapes, EveryWriteAwaited, Alone, contested \subseteq contested', NEW t \in Tasks,
           \A s \in Tasks \ {t} : task'[s].pc = task[s].pc /\ task'[s].id = task[s].id,
           task'[t].id = task[t].id,
           t \in Writers /\ Writing(t)' => Writing(t),
           \/ inflight' = inflight
           \/ /\ t \in Writers /\ Writing(t) /\ ~ Writing(t)'
              /\ \A i \in Ids \ {task[t].id} : inflight'[i] = inflight[i]
    PROVE  EveryWriteAwaited'
<1> SUFFICES ASSUME NEW w \in Writers, Writing(w)', task'[w].id \notin contested'
             PROVE  inflight'[task'[w].id] = w
  BY DEF EveryWriteAwaited
<1>1. w \in Tasks /\ task'[w].id = task[w].id /\ task[w].id \in Ids
  BY TaskFields DEF Tasks, Shapes
<1>2. Writing(w)
  BY <1>1 DEF Writing
<1>3. inflight[task[w].id] = w
  BY <1>1, <1>2 DEF EveryWriteAwaited
<1>4. CASE inflight' = inflight
  BY <1>1, <1>3, <1>4
<1>5. CASE /\ t \in Writers /\ Writing(t) /\ ~ Writing(t)'
           /\ \A i \in Ids \ {task[t].id} : inflight'[i] = inflight[i]
  <2>1. task[t].id # task[w].id
    <3> SUFFICES ASSUME task[t].id = task[w].id PROVE FALSE
      OBVIOUS
    <3>1. t \in WritesOf(task[w].id) /\ w \in WritesOf(task[w].id)
      BY <1>2, <1>5 DEF WritesOf
    <3>2. t = w
      BY <1>1, <3>1 DEF Alone
    <3> QED
      BY <1>5, <3>2
  <2> QED
    BY <1>1, <1>3, <1>5, <2>1
<1> QED
  BY <1>4, <1>5

(* The end of an operation settles its own promise at most.                *)
LEMMA OverSettles ==
    ASSUME Shapes, NEW t \in Tasks, Over(t)
    PROVE  \/ inflight' = inflight
           \/ t \in Writers /\ \A i \in Ids \ {task[t].id} : inflight'[i] = inflight[i]
<1>1. CASE t \in Writers
  <2>1. inflight' = [inflight EXCEPT ![task[t].id] = None]
    BY <1>1 DEF Over, Settle
  <2> QED
    BY <1>1, <2>1 DEF Shapes
<1>2. CASE t \notin Writers
  BY <1>2 DEF Over, idle
<1> QED
  BY <1>1, <1>2

(* evict() settles a promise only when it has nothing left to do.          *)
LEMMA EvictSettles ==
    ASSUME Shapes, NEW t \in Tasks, NEW recs \in [Ids -> Record \cup {None}], NEW doomed,
           EvictNext(t, recs, doomed)
    PROVE  /\ Only(t) /\ task'[t].id = task[t].id
           /\ \/ inflight' = inflight
              \/ /\ t \in Writers /\ task'[t].pc = "over"
                 /\ \A i \in Ids \ {task[t].id} : inflight'[i] = inflight[i]
<1>1. Only(t) /\ task'[t].id = task[t].id
  BY EvictFrame
<1>2. CASE doomed = <<>>
  <2>1. Over(t)
    BY <1>2 DEF EvictNext
  <2>2. task'[t].pc = "over"
    BY <2>1, OverFrame
  <2> QED
    BY <1>1, <2>1, <2>2, OverSettles
<1>3. CASE doomed # <<>>
  BY <1>1, <1>3 DEF EvictNext, idle
<1> QED
  BY <1>2, <1>3

(* A step of one operation.                                                *)
LEMMA AwaitedTaskStep ==
    ASSUME Ground, EveryWriteAwaited, Alone, contested \subseteq contested',
           NEW t \in Tasks, TaskStep(t)
    PROVE  EveryWriteAwaited'
<1>1. Shapes /\ TaskFlow(t)
  BY DEF Ground, Flow
<1>2. ASSUME Only(t), task'[t].id = task[t].id, Writing(t), inflight' = inflight
      PROVE  EveryWriteAwaited'
  BY <1>1, <1>2, AwaitedTask DEF Only
<1>3. ASSUME Only(t), task'[t].id = task[t].id, Writing(t),
             \/ inflight' = inflight
             \/ /\ t \in Writers /\ task'[t].pc = "over"
                /\ \A i \in Ids \ {task[t].id} : inflight'[i] = inflight[i]
      PROVE  EveryWriteAwaited'
  <2>1. task'[t].pc = "over" => ~ Writing(t)'
    BY DEF Writing
  <2> QED
    BY <1>1, <1>3, <2>1, AwaitedTask DEF Only
<1>4. CASE UnlinkPcm(t)
  <2>1. task[t].rm # {} /\ inflight' = inflight
    BY <1>4 DEF UnlinkPcm, idle
  <2>2. Writing(t)
    BY <1>1, <2>1 DEF TaskFlow, Writing, RemovePcs
  <2>3. /\ \A s \in Tasks \ {t} : task'[s].pc = task[s].pc /\ task'[s].id = task[s].id
        /\ task'[t].id = task[t].id
    BY <1>1, <1>4, UnlinkPcmFrame DEF Kin
  <2> QED
    BY <1>1, <2>1, <2>2, <2>3, AwaitedTask
<1>5. CASE UnlinkSide(t)
  <2>1. task[t].rm # {} /\ inflight' = inflight
    BY <1>5 DEF UnlinkSide, idle
  <2>2. Writing(t)
    BY <1>1, <2>1 DEF TaskFlow, Writing, RemovePcs
  <2>3. Only(t) /\ task'[t].id = task[t].id
    BY <1>1, <1>5, UnlinkSideFrame
  <2> QED
    BY <1>2, <2>1, <2>2, <2>3
<1>6. CASE Removed(t)
  <2>1. Over(t) /\ Writing(t)
    BY <1>6 DEF Removed, Writing
  <2>2. Only(t) /\ task'[t].pc = "over" /\ task'[t].id = task[t].id
    BY <1>1, <2>1, OverFrame
  <2>3. \/ inflight' = inflight
        \/ t \in Writers /\ \A i \in Ids \ {task[t].id} : inflight'[i] = inflight[i]
    BY <1>1, <2>1, OverSettles
  <2> QED
    BY <1>3, <2>1, <2>2, <2>3
<1>7. CASE Evicted(t)
  <2>1. EvictNext(t, records, task[t].doomed) /\ Writing(t)
    BY <1>7 DEF Evicted, Writing
  <2>2. /\ Only(t) /\ task'[t].id = task[t].id
        /\ \/ inflight' = inflight
           \/ /\ t \in Writers /\ task'[t].pc = "over"
              /\ \A i \in Ids \ {task[t].id} : inflight'[i] = inflight[i]
    BY <1>1, <2>1, EvictSettles DEF Shapes
  <2> QED
    BY <1>3, <2>1, <2>2
<1>8. CASE t \in Writers /\ Stored(t)
  <2> DEFINE recs == [records EXCEPT ![task[t].id] = MadeRecord(t)]
  <2>1. /\ EvictNext(t, recs, SelectForEviction(recs)) /\ task[t].pc = "written" /\ Writing(t)
    BY <1>8 DEF Stored, Writing
  <2>2. MadeRecord(t) \in Record
    BY <1>1, <1>8, <2>1, WrittenRecord
  <2>3. recs \in [Ids -> Record \cup {None}]
    BY <1>1, <2>2 DEF Shapes
  <2> HIDE DEF recs
  <2>4. /\ Only(t) /\ task'[t].id = task[t].id
        /\ \/ inflight' = inflight
           \/ /\ t \in Writers /\ task'[t].pc = "over"
              /\ \A i \in Ids \ {task[t].id} : inflight'[i] = inflight[i]
    BY <1>1, <2>1, <2>3, EvictSettles
  <2> QED
    BY <1>3, <2>1, <2>4
<1>9. CASE t \in Writers /\ Abandon(t)
  <2>1. RemoveFiles(t, "remove", task[t].id, <<>>) /\ Writing(t) /\ inflight' = inflight
    BY <1>9 DEF Abandon, Writing, idle
  <2>2. Only(t) /\ task'[t].id = task[t].id
    BY <1>1, <2>1, RemoveFrame DEF RemovePcs
  <2> QED
    BY <1>2, <2>1, <2>2
<1>10. CASE /\ t \in Writers
            /\ \/ Opened(t) \/ Flush(t) \/ DiskFails(t) \/ BodyEnds(t) \/ EndsUnseen(t)
               \/ BufferedBreaks(t) \/ SidecarOpened(t) \/ SidecarWritten(t)
  <2>1. Writing(t) /\ inflight' = inflight
    BY <1>10 DEF Opened, Flush, DiskFails, BodyEnds, EndsUnseen, BufferedBreaks, SidecarOpened,
                 SidecarWritten, Writing, idle
  <2>2. Only(t) /\ task'[t].id = task[t].id
    BY <1>1, <1>10, OpenedFrame, FlushFrame, DiskFailsFrame, BodyEndsFrame, EndsUnseenFrame,
       BufferedBreaksFrame, SidecarOpenedFrame, SidecarWrittenFrame
  <2> QED
    BY <1>2, <2>1, <2>2
<1>11. CASE UnlinkFails(t)
  <2>1. Only(t) /\ task'[t].id = task[t].id /\ task[t].rm # {}
    BY <1>1, <1>11, UnlinkFailsFrame
  <2>2. Writing(t) /\ inflight' = inflight
    BY <1>1, <1>11, <2>1 DEF TaskFlow, Writing, RemovePcs, UnlinkFails, idle
  <2> QED
    BY <1>2, <2>1, <2>2
<1> QED
  BY <1>4, <1>5, <1>6, <1>7, <1>8, <1>9, <1>10, <1>11 DEF TaskStep

(* Any step.                                                               *)
LEMMA AwaitedStep ==
    ASSUME Ground, EveryWriteAwaited, Alone, Alone', contested \subseteq contested', Step
    PROVE  EveryWriteAwaited'
<1>1. Shapes
  BY DEF Ground
<1>2. ASSUME NEW w \in Writers, NEW id \in Ids, Begin(w, id)
      PROVE  EveryWriteAwaited'
  <2>1. /\ Only(w) /\ task'[w].pc = "open" /\ task'[w].id = id
        /\ inflight' = [inflight EXCEPT ![id] = w]
    BY <1>1, <1>2, BeginFrame DEF Begin
  <2>2. w \in WritesOf(id)'
    BY <2>1 DEF WritesOf, Writing
  <2> SUFFICES ASSUME NEW v \in Writers, Writing(v)', task'[v].id \notin contested'
               PROVE  inflight'[task'[v].id] = v
    BY DEF EveryWriteAwaited
  <2>3. CASE v = w
    BY <1>1, <2>1, <2>3 DEF Shapes
  <2>4. CASE v # w
    <3>1. task'[v] = task[v] /\ task[v].id \in Ids
      BY <1>1, <2>1, <2>4, TaskFields DEF Only, Tasks, Shapes
    <3>2. inflight[task[v].id] = v
      BY <3>1 DEF EveryWriteAwaited, Writing
    <3>3. task[v].id # id
      <4>1. task[v].id = id => v \in WritesOf(id)'
        BY <3>1 DEF WritesOf, Writing
      <4> QED
        BY <2>2, <2>4, <3>1, <4>1 DEF Alone
    <3> QED
      BY <1>1, <2>1, <3>1, <3>2, <3>3 DEF Shapes
  <2> QED
    BY <2>3, <2>4
<1>3. ASSUME NEW d \in Removers, NEW id \in Ids, RemoveClip(d, id)
      PROVE  EveryWriteAwaited'
  <2>1. d \in Tasks /\ d \notin Writers
    BY ClipCacheAssumption DEF Tasks
  <2>2. RemoveFiles(d, "remove", id, <<>>) /\ inflight' = inflight
    BY <1>3 DEF RemoveClip, idle
  <2>3. Only(d) /\ task'[d].id = task[d].id
    BY <1>1, <2>1, <2>2, RemoveFrame DEF RemovePcs
  <2> QED
    BY <1>1, <2>1, <2>2, <2>3, AwaitedTask DEF Only
<1>4. ASSUME NEW t \in Tasks, TaskStep(t)
      PROVE  EveryWriteAwaited'
  BY <1>4, AwaitedTaskStep
<1>5. CASE \/ \E r \in Readers : ReadDone(r) \/ ReadFails(r) \/ \E id \in Ids : ReadStart(r, id)
           \/ WhenIdle
  <2>1. task' = task /\ inflight' = inflight
    BY <1>5 DEF ReadDone, ReadFails, ReadStart, WhenIdle, idle
  <2> QED
    BY <2>1 DEF EveryWriteAwaited, Writing
<1>6. CASE Crash
  <2>1. ASSUME NEW w \in Writers
        PROVE  ~ Writing(w)'
    <3>1. \/ task'[w] = NewTask(task[w].id)
          \/ task'[w] = [NewTask(task[w].id) EXCEPT !.pc = "over"]
      BY <1>6 DEF Crash, Tasks
    <3>2. task'[w].pc \in {"new", "over"}
      BY <3>1 DEF NewTask
    <3> QED
      BY <3>2 DEF Writing
  <2> QED
    BY <2>1 DEF EveryWriteAwaited
<1>7. CASE Load
  <2>1. Boot \in Tasks /\ Boot \notin Writers
    BY ClipCacheAssumption DEF Tasks
  <2>2. EvictNext(Boot, LoadedRecords, SelectForEviction(LoadedRecords))
    BY <1>7 DEF Load, LoadedRecords
  <2>3. LoadedRecords \in [Ids -> Record \cup {None}]
    BY DEF LoadedRecords, Loadable
  <2>4. Only(Boot) /\ task'[Boot].id = task[Boot].id /\ inflight' = inflight
    BY <1>1, <2>1, <2>2, <2>3, EvictSettles
  <2> QED
    BY <1>1, <2>1, <2>4, AwaitedTask DEF Only
<1> QED
  BY <1>2, <1>3, <1>4, <1>5, <1>6, <1>7 DEF Step

(* Every write under way has its promise on file for whenIdle (#inflight   *)
(* of cache.ts), unless two operations met on its id.                      *)
THEOREM WritesAreAwaited == Spec => []EveryWriteAwaited
<1>1. Init => EveryWriteAwaited
  <2> SUFFICES ASSUME Init, NEW w \in Writers
               PROVE  ~ Writing(w)
    BY DEF EveryWriteAwaited
  <2>1. task[w].pc = "new"
    BY DEF Init, NewTask, Tasks
  <2> QED
    BY <2>1 DEF Writing
<1>2. CacheInv /\ EveryWriteAwaited /\ [Next]_vars => EveryWriteAwaited'
  <2>1. ASSUME CacheInv, EveryWriteAwaited, Next
        PROVE  EveryWriteAwaited'
    BY <2>1, AwaitedStep, Noted DEF CacheInv, Next
  <2>2. ASSUME EveryWriteAwaited, UNCHANGED vars
        PROVE  EveryWriteAwaited'
    BY <2>2 DEF EveryWriteAwaited, Writing, vars
  <2> QED
    BY <2>1, <2>2
<1> QED
  BY <1>1, <1>2, CacheInvariant, PTL DEF Spec
-----------------------------------------------------------------------------
(* How much a set of clips holds.                                          *)

Bytes(recs, S) == MapThenSumSet(LAMBDA id : recs[id].bytes, S)
One(s) == CHOOSE x \in s : TRUE
Added(f, recs, s) == IF s = {} THEN 0 ELSE recs[One(s)].bytes + f[s \ {One(s)}]
Adds(f, recs, S) == f = [s \in SUBSET S |-> Added(f, recs, s)]

(* MapThenSumSet adds clip by clip.                                         *)
LEMMA BytesIsSum ==
    ASSUME NEW recs, NEW S
    PROVE  Bytes(recs, S) = (CHOOSE f : Adds(f, recs, S))[S]
BY DEF Bytes, MapThenSumSet, MapThenFoldSet, Adds, Added, One

(* A sum is that of one clip and of what is left.                           *)
LEMMA AddsAt ==
    ASSUME NEW recs, NEW S, NEW f, Adds(f, recs, S), NEW s \in SUBSET S
    PROVE  f[s] = Added(f, recs, s)
<1> DEFINE g == [x \in SUBSET S |-> Added(f, recs, x)]
<1>1. f = g
  BY Zenon DEF Adds
<1>2. g[s] = Added(f, recs, s)
  OBVIOUS
<1> HIDE DEF g
<1> QED
  BY <1>1, <1>2

(* The clip added first is one of them.                                     *)
LEMMA OneOf ==
    ASSUME NEW s, s # {}
    PROVE  One(s) \in s
BY DEF One

(* Among the parts of a finite set that have something in common one has no *)
(* smaller: what is shown of a set from what holds of its proper parts.     *)
LEMMA SmallestPart ==
    ASSUME NEW S, IsFiniteSet(S), NEW B \in SUBSET (SUBSET S), B # {}
    PROVE  \E b \in B : \A c \in B : ~ (c \subseteq b /\ c # b)
<1>1. IsWellFoundedOn(StrictSubsetOrdering(S), SUBSET S)
  BY FS_StrictSubsetOrderingWellFounded, FS_FiniteSubsetsOfFinite
<1>2. PICK b \in B : \A c \in B : <<c, b>> \notin StrictSubsetOrdering(S)
  BY <1>1, WFMin, Zenon
<1> QED
  BY <1>2 DEF StrictSubsetOrdering

(* Two ways of adding up agree where both are defined.                     *)
LEMMA AddsOnce ==
    ASSUME NEW recs, NEW S, IsFiniteSet(S), NEW T, NEW f, NEW g,
           Adds(f, recs, S), Adds(g, recs, T)
    PROVE  \A s \in (SUBSET S) \cap (SUBSET T) : f[s] = g[s]
<1> DEFINE B == {s \in (SUBSET S) \cap (SUBSET T) : f[s] # g[s]}
<1> SUFFICES ASSUME B # {} PROVE FALSE
  OBVIOUS
<1>0. B \in SUBSET (SUBSET S) /\ B # {}
  OBVIOUS
<1>1. PICK b \in B : \A c \in B : ~ (c \subseteq b /\ c # b)
  <2> HIDE DEF B
  <2> QED
    BY <1>0, SmallestPart
<1>2. f[b] = Added(f, recs, b) /\ g[b] = Added(g, recs, b)
  <2>1. b \in SUBSET S /\ b \in SUBSET T
    OBVIOUS
  <2> QED
    BY <2>1, AddsAt
<1>3. CASE b # {}
  <2>1. b \ {One(b)} \in (SUBSET S) \cap (SUBSET T) /\ b \ {One(b)} # b
    BY <1>3, OneOf
  <2>2. f[b \ {One(b)}] = g[b \ {One(b)}]
    BY <1>1, <2>1
  <2> QED
    BY <1>2, <1>3, <2>2 DEF Added
<1> QED
  BY <1>2, <1>3 DEF Added

(* There is one for every finite set.                                      *)
LEMMA AddsExists ==
    ASSUME NEW recs, NEW S, IsFiniteSet(S)
    PROVE  \E f : Adds(f, recs, S)
<1> DEFINE B == {s \in SUBSET S : ~ \E f : Adds(f, recs, s)}
<1> SUFFICES ASSUME S \in B PROVE FALSE
  OBVIOUS
<1>0. B \in SUBSET (SUBSET S) /\ B # {}
  OBVIOUS
<1>1. PICK b \in B : \A c \in B : ~ (c \subseteq b /\ c # b)
  <2> HIDE DEF B
  <2> QED
    BY <1>0, SmallestPart
<1> DEFINE part(u) == CHOOSE f : Adds(f, recs, u)
           rest(s) == part(s \ {One(s)})[s \ {One(s)}]
           whole == [s \in SUBSET b |-> IF s = {} THEN 0 ELSE recs[One(s)].bytes + rest(s)]
<1>2. ASSUME NEW u \in SUBSET b, u # b
      PROVE  Adds(part(u), recs, u) /\ IsFiniteSet(u)
  BY <1>1, <1>2, FS_Subset
<1>3. ASSUME NEW u \in SUBSET b, u # b
      PROVE  whole[u] = part(u)[u]
  <2>1. part(u)[u] = Added(part(u), recs, u)
    <3>1. Adds(part(u), recs, u) /\ u \in SUBSET u
      BY <1>2, <1>3
    <3> HIDE DEF part
    <3> QED
      BY <3>1, AddsAt
  <2>2. CASE u # {}
    <3> DEFINE v == u \ {One(u)}
    <3>1. v \in SUBSET b /\ v # b /\ v \subseteq u
      BY <1>3, <2>2, OneOf
    <3>2. Adds(part(u), recs, u) /\ Adds(part(v), recs, v) /\ IsFiniteSet(u)
      BY <1>2, <1>3, <3>1
    <3>3. part(u)[v] = part(v)[v]
      <4>1. v \in (SUBSET u) \cap (SUBSET v)
        OBVIOUS
      <4> HIDE DEF part, v
      <4> QED
        BY <4>1, <3>2, AddsOnce
    <3> QED
      BY <2>1, <2>2, <3>3 DEF Added
  <2> QED
    BY <2>1, <2>2 DEF Added
<1>4. Adds(whole, recs, b)
  <2>1. ASSUME NEW s \in SUBSET b, s # {}
        PROVE  rest(s) = whole[s \ {One(s)}]
    <3>1. s \ {One(s)} \in SUBSET b /\ s \ {One(s)} # b
      BY <2>1, OneOf
    <3> HIDE DEF whole, part
    <3> QED
      BY <1>3, <3>1
  <2>2. ASSUME NEW s \in SUBSET b
        PROVE  whole[s] = Added(whole, recs, s)
    <3>1. whole[s] = IF s = {} THEN 0 ELSE recs[One(s)].bytes + rest(s)
      <4> HIDE DEF rest
      <4> QED
        OBVIOUS
    <3> HIDE DEF whole, rest
    <3> QED
      BY <2>1, <3>1 DEF Added
  <2>3. whole = [s \in SUBSET b |-> whole[s]]
    OBVIOUS
  <2> HIDE DEF whole
  <2> QED
    BY <2>2, <2>3 DEF Adds
<1> QED
  BY <1>1, <1>4

(* So the sum is that of one clip and of the rest.                         *)
LEMMA BytesStep ==
    ASSUME NEW recs, NEW S, IsFiniteSet(S)
    PROVE  Bytes(recs, S) =
             IF S = {} THEN 0 ELSE recs[One(S)].bytes + Bytes(recs, S \ {One(S)})
<1> DEFINE f == CHOOSE f : Adds(f, recs, S)
           R == S \ {One(S)}
           g == CHOOSE g : Adds(g, recs, R)
<1>1. IsFiniteSet(R) /\ R \subseteq S
  BY FS_Subset
<1>2. Adds(f, recs, S) /\ Adds(g, recs, R)
  BY <1>1, AddsExists
<1>3. Bytes(recs, S) = f[S] /\ Bytes(recs, R) = g[R]
  BY BytesIsSum, Zenon
<1> HIDE DEF f, g
<1>4. f[S] = Added(f, recs, S)
  BY <1>2, AddsAt
<1>5. f[R] = g[R]
  <2>1. R \in (SUBSET S) \cap (SUBSET R)
    BY <1>1
  <2> QED
    BY <2>1, <1>2, AddsOnce
<1> QED
  BY <1>3, <1>4, <1>5 DEF Added

Weighed(recs, S) == \A x \in S : recs[x].bytes \in Nat

(* The sum of sizes is a number.                                            *)
LEMMA BytesIsNumber ==
    ASSUME NEW recs, NEW S, IsFiniteSet(S), Weighed(recs, S)
    PROVE  Bytes(recs, S) \in Nat
<1> DEFINE B == {s \in SUBSET S : Bytes(recs, s) \notin Nat}
<1> SUFFICES ASSUME S \in B PROVE FALSE
  OBVIOUS
<1>0. B \in SUBSET (SUBSET S) /\ B # {}
  OBVIOUS
<1>1. PICK b \in B : \A c \in B : ~ (c \subseteq b /\ c # b)
  <2> HIDE DEF B
  <2> QED
    BY <1>0, SmallestPart
<1>2. Bytes(recs, b) = IF b = {} THEN 0 ELSE recs[One(b)].bytes + Bytes(recs, b \ {One(b)})
  <2>1. IsFiniteSet(b)
    BY FS_Subset
  <2> QED
    BY <2>1, BytesStep
<1>3. CASE b # {}
  <2>1. One(b) \in S /\ b \ {One(b)} \subseteq b /\ b \ {One(b)} # b
    BY <1>3, OneOf
  <2>2. recs[One(b)].bytes \in Nat /\ Bytes(recs, b \ {One(b)}) \in Nat
    BY <1>1, <2>1 DEF Weighed
  <2> QED
    BY <1>2, <1>3, <2>2
<1> QED
  BY <1>2, <1>3

(* Whichever clip is counted first.                                        *)
LEMMA BytesWithout ==
    ASSUME NEW recs, NEW S, IsFiniteSet(S), Weighed(recs, S), NEW x \in S
    PROVE  Bytes(recs, S) = recs[x].bytes + Bytes(recs, S \ {x})
<1> DEFINE Fails(s) == \E y \in s : Bytes(recs, s) # recs[y].bytes + Bytes(recs, s \ {y})
           B == {s \in SUBSET S : Fails(s)}
<1> SUFFICES ASSUME S \in B PROVE FALSE
  OBVIOUS
<1>0. B \in SUBSET (SUBSET S) /\ B # {}
  OBVIOUS
<1>1. PICK b \in B : \A c \in B : ~ (c \subseteq b /\ c # b)
  <2> HIDE DEF B
  <2> QED
    BY <1>0, SmallestPart
<1>2. PICK y \in b : Bytes(recs, b) # recs[y].bytes + Bytes(recs, b \ {y})
  OBVIOUS
<1> DEFINE z == One(b)
<1>3. z \in b /\ IsFiniteSet(b) /\ IsFiniteSet(b \ {y})
  BY OneOf, FS_Subset
<1>4. Bytes(recs, b) = recs[z].bytes + Bytes(recs, b \ {z})
  BY <1>3, BytesStep
<1>5. y # z
  BY <1>2, <1>4
<1> HIDE DEF z
<1> DEFINE R == (b \ {y}) \ {z}
<1>6. \A u \in SUBSET b : u # b => ~ Fails(u)
  <2> HIDE DEF Fails
  <2> QED
    BY <1>1
<1>7. Bytes(recs, b \ {y}) = recs[z].bytes + Bytes(recs, R)
  BY <1>3, <1>5, <1>6
<1>8. Bytes(recs, b \ {z}) = recs[y].bytes + Bytes(recs, (b \ {z}) \ {y})
  BY <1>3, <1>5, <1>6
<1>9. R = (b \ {z}) \ {y}
  OBVIOUS
<1>10. recs[y].bytes \in Nat /\ recs[z].bytes \in Nat /\ Bytes(recs, R) \in Nat
  <2>1. IsFiniteSet(R) /\ Weighed(recs, R)
    BY <1>3, FS_Subset DEF Weighed
  <2>2. Bytes(recs, R) \in Nat
    <3> HIDE DEF R
    <3> QED
      BY <2>1, BytesIsNumber
  <2> QED
    BY <1>3, <2>2 DEF Weighed
<1> HIDE DEF R
<1> QED
  BY <1>2, <1>4, <1>7, <1>8, <1>9, <1>10

(* Fewer clips hold no more.                                               *)
LEMMA BytesGrow ==
    ASSUME NEW recs, NEW S, IsFiniteSet(S), Weighed(recs, S), NEW R \in SUBSET S
    PROVE  Bytes(recs, R) <= Bytes(recs, S)
<1> DEFINE Fails(s) == \E r \in SUBSET s : ~ (Bytes(recs, r) <= Bytes(recs, s))
           B == {s \in SUBSET S : Fails(s)}
<1> SUFFICES ASSUME S \in B PROVE FALSE
  OBVIOUS
<1>0. B \in SUBSET (SUBSET S) /\ B # {}
  OBVIOUS
<1>1. PICK b \in B : \A c \in B : ~ (c \subseteq b /\ c # b)
  <2> HIDE DEF B
  <2> QED
    BY <1>0, SmallestPart
<1>2. PICK r \in SUBSET b : ~ (Bytes(recs, r) <= Bytes(recs, b))
  OBVIOUS
<1>3. IsFiniteSet(b) /\ Weighed(recs, b) /\ Bytes(recs, b) \in Nat
  <2>1. IsFiniteSet(b) /\ Weighed(recs, b)
    BY FS_Subset DEF Weighed
  <2> QED
    BY <2>1, BytesIsNumber
<1>4. PICK x \in b : x \notin r
  BY <1>2, <1>3
<1> DEFINE q == b \ {x}
<1>5. Bytes(recs, b) = recs[x].bytes + Bytes(recs, q)
  BY <1>3, BytesWithout
<1>6. IsFiniteSet(q) /\ Weighed(recs, q) /\ IsFiniteSet(r) /\ Weighed(recs, r)
  BY <1>3, FS_Subset DEF Weighed
<1>7. ~ Fails(q)
  <2> HIDE DEF Fails
  <2> QED
    BY <1>1
<1>8. r \in SUBSET q
  BY <1>4
<1>9. Bytes(recs, r) <= Bytes(recs, q)
  <2> HIDE DEF q
  <2> QED
    BY <1>7, <1>8
<1>10. recs[x].bytes \in Nat /\ Bytes(recs, q) \in Nat /\ Bytes(recs, r) \in Nat
  <2> HIDE DEF q
  <2> QED
    BY <1>3, <1>6, BytesIsNumber DEF Weighed
<1> HIDE DEF q
<1> QED
  BY <1>2, <1>5, <1>9, <1>10

(* The sum is that of the records in the set.                              *)
LEMMA BytesSame ==
    ASSUME NEW recs, NEW other, NEW S, IsFiniteSet(S), \A x \in S : other[x] = recs[x]
    PROVE  Bytes(other, S) = Bytes(recs, S)
<1> DEFINE B == {s \in SUBSET S : Bytes(other, s) # Bytes(recs, s)}
<1> SUFFICES ASSUME S \in B PROVE FALSE
  OBVIOUS
<1>0. B \in SUBSET (SUBSET S) /\ B # {}
  OBVIOUS
<1>1. PICK b \in B : \A c \in B : ~ (c \subseteq b /\ c # b)
  <2> HIDE DEF B
  <2> QED
    BY <1>0, SmallestPart
<1>2. IsFiniteSet(b)
  BY FS_Subset
<1>3. /\ Bytes(recs, b) = IF b = {} THEN 0 ELSE recs[One(b)].bytes + Bytes(recs, b \ {One(b)})
      /\ Bytes(other, b) = IF b = {} THEN 0 ELSE other[One(b)].bytes + Bytes(other, b \ {One(b)})
  BY <1>2, BytesStep
<1>4. CASE b # {}
  <2>1. One(b) \in b /\ b \ {One(b)} \subseteq b /\ b \ {One(b)} # b
    BY <1>4, OneOf
  <2>2. Bytes(other, b \ {One(b)}) = Bytes(recs, b \ {One(b)}) /\ other[One(b)] = recs[One(b)]
    BY <1>1, <2>1
  <2> QED
    BY <1>3, <1>4, <2>2
<1> QED
  BY <1>3, <1>4

-----------------------------------------------------------------------------
(* The oldest first.                                                       *)

Stamped(recs, S) == \A x \in S : recs[x].stamp \in Nat

(* Of finitely many clips one is the oldest.                                *)
LEMMA Oldest ==
    ASSUME NEW recs, NEW S, IsFiniteSet(S), S # {}, Stamped(recs, S)
    PROVE  \E m \in S : \A x \in S : recs[m].stamp <= recs[x].stamp
<1> DEFINE older(m) == {x \in S : recs[x].stamp < recs[m].stamp}
           B == {older(m) : m \in S}
<1>0. B \in SUBSET (SUBSET S) /\ B # {}
  OBVIOUS
<1>1. PICK b \in B : \A c \in B : ~ (c \subseteq b /\ c # b)
  <2> HIDE DEF B
  <2> QED
    BY <1>0, SmallestPart
<1>2. PICK m \in S : b = older(m)
  OBVIOUS
<1>3. ASSUME NEW x \in S, recs[x].stamp < recs[m].stamp
      PROVE  FALSE
  <2>1. older(x) \subseteq older(m)
    BY <1>3 DEF Stamped
  <2>2. x \in older(m) /\ x \notin older(x)
    BY <1>3 DEF Stamped
  <2>3. older(x) \in B
    OBVIOUS
  <2> HIDE DEF older, B
  <2> QED
    BY <1>1, <1>2, <2>1, <2>2, <2>3
<1> QED
  BY <1>3 DEF Stamped

InStampOrder(recs, s) == \A i, j \in DOMAIN s : i < j => recs[s[i]].stamp <= recs[s[j]].stamp

(* Any clips can be put in order.                                          *)
LEMMA OrderExists ==
    ASSUME NEW recs, NEW S, IsFiniteSet(S), Stamped(recs, S)
    PROVE  \E s \in SetToSeqs(S) : InStampOrder(recs, s)
<1> DEFINE B == {u \in SUBSET S : ~ \E s \in SetToSeqs(u) : InStampOrder(recs, s)}
<1> SUFFICES ASSUME S \in B PROVE FALSE
  OBVIOUS
<1>0. B \in SUBSET (SUBSET S) /\ B # {}
  OBVIOUS
<1>1. PICK b \in B : \A c \in B : ~ (c \subseteq b /\ c # b)
  <2> HIDE DEF B
  <2> QED
    BY <1>0, SmallestPart
<1>2. b \subseteq S /\ ~ \E s \in SetToSeqs(b) : InStampOrder(recs, s)
  OBVIOUS
<1>3. IsFiniteSet(b)
  BY <1>2, FS_Subset
<1>4. CASE b = {}
  <2>1. Cardinality(b) = 0
    BY <1>4, FS_EmptySet
  <2>2. <<>> \in SetToSeqs(b)
    BY <1>4, <2>1 DEF SetToSeqs
  <2> QED
    BY <1>2, <2>2 DEF InStampOrder
<1>5. CASE b # {}
  <2>1. PICK m \in b : \A x \in b : recs[m].stamp <= recs[x].stamp
    BY <1>2, <1>3, <1>5, Oldest DEF Stamped
  <2> DEFINE u == b \ {m}
             n == Cardinality(u)
  <2>2. IsFiniteSet(u) /\ n \in Nat /\ Cardinality(b) = n + 1
    <3>1. IsFiniteSet(u) /\ b = u \cup {m} /\ m \notin u
      BY <1>3, FS_Subset
    <3>2. Cardinality(u \cup {m}) = Cardinality(u) + 1
      <4> HIDE DEF u
      <4> QED
        BY <3>1, FS_AddElement
    <3> QED
      BY <3>1, <3>2, FS_CardinalityType
  <2>3. PICK s \in SetToSeqs(u) : InStampOrder(recs, s)
    <3>1. u \subseteq b /\ u # b
      BY <2>1
    <3>2. u \notin B
      <4> HIDE DEF B, u
      <4> QED
        BY <1>1, <3>1
    <3> QED
      BY <1>2, <3>1, <3>2
  <2> DEFINE t == [i \in 1..(n + 1) |-> IF i = 1 THEN m ELSE s[i - 1]]
  <2>4. s \in [1..n -> u] /\ \A i, j \in 1..n : i # j => s[i] # s[j]
    BY DEF SetToSeqs
  <2> HIDE DEF n
  <2>5. t \in [1..(n + 1) -> b] /\ \A i, j \in 1..(n + 1) : i # j => t[i] # t[j]
    BY <2>2, <2>4
  <2>6. t \in SetToSeqs(b)
    <3> HIDE DEF t
    <3> QED
      BY <2>2, <2>5 DEF SetToSeqs
  <2>7. InStampOrder(recs, t)
    <3> SUFFICES ASSUME NEW i \in 1..(n + 1), NEW j \in 1..(n + 1), i < j
                 PROVE  recs[t[i]].stamp <= recs[t[j]].stamp
      BY <2>5 DEF InStampOrder
    <3>1. CASE i = 1
      BY <2>1, <2>5, <3>1
    <3>2. CASE i # 1
      <4>1. i - 1 \in 1..n /\ j - 1 \in 1..n /\ i - 1 < j - 1
        BY <2>2, <3>2
      <4>2. recs[s[i - 1]].stamp <= recs[s[j - 1]].stamp
        BY <2>3, <2>4, <4>1 DEF InStampOrder
      <4>3. t[i] = s[i - 1] /\ t[j] = s[j - 1]
        BY <2>2, <3>2
      <4> QED
        BY <4>2, <4>3
    <3> QED
      BY <3>1, <3>2
  <2> QED
    BY <1>2, <2>6, <2>7
<1> QED
  BY <1>4, <1>5

(* The list holds each of the clips.                                       *)
LEMMA OldestFirstIsList ==
    ASSUME NEW recs, NEW S, IsFiniteSet(S), Stamped(recs, S)
    PROVE  OldestFirst(recs, S) \in Seq(S) /\ Range(OldestFirst(recs, S)) = S
<1> DEFINE s == OldestFirst(recs, S)
           n == Cardinality(S)
<1>1. s \in SetToSeqs(S)
  BY OrderExists DEF OldestFirst, InStampOrder
<1>2. n \in Nat
  BY FS_CardinalityType
<1> HIDE DEF s
<1>3. s \in [1..n -> S] /\ \A i, j \in 1..n : i # j => s[i] # s[j]
  BY <1>1 DEF SetToSeqs
<1> HIDE DEF n
<1>4. s \in Seq(S)
  BY <1>2, <1>3
<1>5. s \in Injection(1..n, S)
  BY <1>3 DEF Injection, IsInjective
<1>6. Cardinality(1..n) = n
  BY <1>2, FS_Interval
<1>7. s \in Surjection(1..n, S)
  BY <1>5, <1>6, FS_Injection DEF n
<1>8. Range(s) = S
  BY <1>3, <1>7 DEF Surjection, Range
<1> QED
  BY <1>4, <1>8 DEF s

(* What is kept is within the limit.                                       *)
LEMMA SelectionFits ==
    ASSUME NEW recs \in [Ids -> Record \cup {None}]
    PROVE  /\ SelectForEviction(recs) \in Seq(Ids)
           /\ Bytes(recs, Indexed(recs) \ Range(SelectForEviction(recs))) <= MaxBytes
<1> DEFINE S == Indexed(recs)
           E == {id \in S : BytesFrom(recs, recs[id].stamp) > MaxBytes}
<1>1. IsFiniteSet(S) /\ S \subseteq Ids
  BY FS_Subset, ClipCacheAssumption DEF Indexed
<1>2. \A id \in S : recs[id] \in Record
  BY DEF Indexed
<1>3. Weighed(recs, S) /\ Stamped(recs, S)
  BY <1>2, ChunksAreNumbers DEF Weighed, Stamped, Record
<1>4. IsFiniteSet(E) /\ E \subseteq S /\ Stamped(recs, E)
  BY <1>1, <1>3, FS_Subset DEF Stamped
<1>5. /\ SelectForEviction(recs) \in Seq(Ids)
      /\ Range(SelectForEviction(recs)) = E
  <2>1. SelectForEviction(recs) = OldestFirst(recs, E)
    BY DEF SelectForEviction
  <2> HIDE DEF E
  <2>2. SelectForEviction(recs) \in Seq(E) /\ Range(SelectForEviction(recs)) = E
    BY <1>4, <2>1, OldestFirstIsList
  <2> QED
    BY <1>1, <1>4, <2>2
<1> DEFINE K == S \ E
<1>6. CASE K = {}
  <2>1. Bytes(recs, {}) = 0
    BY FS_EmptySet, BytesStep
  <2>2. Indexed(recs) \ Range(SelectForEviction(recs)) = {}
    BY <1>5, <1>6
  <2>3. Bytes(recs, {}) <= MaxBytes
    BY <2>1, ClipCacheAssumption
  <2> QED
    BY ONLY <1>5, <1>1, <2>2, <2>3
<1>7. CASE K # {}
  <2>1. IsFiniteSet(K) /\ Stamped(recs, K)
    BY <1>1, <1>3, FS_Subset DEF Stamped
  <2>2. PICK m \in K : \A x \in K : recs[m].stamp <= recs[x].stamp
    <3> HIDE DEF K
    <3> QED
      BY <1>7, <2>1, Oldest
  <2> DEFINE F == {id \in S : recs[id].stamp >= recs[m].stamp}
  <2>3. Bytes(recs, F) = BytesFrom(recs, recs[m].stamp)
    BY DEF Bytes, BytesFrom
  <2>4. ~ (BytesFrom(recs, recs[m].stamp) > MaxBytes)
    BY <2>2
  <2>5. K \in SUBSET F
    BY <1>3, <2>2 DEF Stamped
  <2>6. IsFiniteSet(F) /\ Weighed(recs, F) /\ Weighed(recs, K)
    BY <1>1, <1>3, FS_Subset DEF Weighed
  <2> HIDE DEF F, K, E, S
  <2>7. Bytes(recs, K) <= Bytes(recs, F) /\ Bytes(recs, F) \in Nat /\ Bytes(recs, K) \in Nat
    BY <2>1, <2>5, <2>6, BytesGrow, BytesIsNumber
  <2>8. Bytes(recs, K) <= MaxBytes
    BY <2>3, <2>4, <2>7, ClipCacheAssumption
  <2> QED
    BY <1>5, <2>8 DEF K, S
<1> QED
  BY <1>5, <1>6, <1>7

-----------------------------------------------------------------------------
(* The limit.                                                              *)

(* What an eviction under way has still to drop.                           *)
Doomed == UNION {Range(task[t].doomed) : t \in Tasks}
DoomedFlow(t) ==
    task[t].doomed \in Seq(Ids) /\ (task[t].pc # "evict" => task[t].doomed = <<>>)

(* What is indexed fits, but for what some eviction will still drop.       *)
LimitInv ==
    /\ \A t \in Tasks : DoomedFlow(t)
    /\ Bytes(records, Indexed(records) \ Doomed) <= MaxBytes

(* Indexed clips are finitely many and have sizes.                          *)
LEMMA IndexWeighed ==
    ASSUME NEW recs \in [Ids -> Record \cup {None}], NEW S \in SUBSET Indexed(recs)
    PROVE  IsFiniteSet(S) /\ Weighed(recs, S) /\ Bytes(recs, S) \in Nat
<1>1. IsFiniteSet(S)
  BY FS_Subset, ClipCacheAssumption DEF Indexed
<1>2. Weighed(recs, S)
  <2> SUFFICES ASSUME NEW x \in S
               PROVE  recs[x].bytes \in Nat
    BY DEF Weighed
  <2>1. recs[x] \in Record
    BY DEF Indexed
  <2> QED
    BY <2>1, ChunksAreNumbers DEF Record
<1> QED
  BY <1>1, <1>2, BytesIsNumber

(* Fewer of the same records fit as well.                                  *)
LEMMA FewerFit ==
    ASSUME NEW recs \in [Ids -> Record \cup {None}], NEW S \in SUBSET Indexed(recs),
           Bytes(recs, S) <= MaxBytes, NEW other, NEW R \in SUBSET S,
           \A x \in R : other[x] = recs[x]
    PROVE  Bytes(other, R) <= MaxBytes
<1>1. IsFiniteSet(R) /\ Bytes(recs, R) \in Nat /\ Bytes(recs, S) \in Nat
  BY IndexWeighed
<1>2. Bytes(recs, R) <= Bytes(recs, S)
  BY IndexWeighed, BytesGrow
<1>3. Bytes(other, R) = Bytes(recs, R)
  BY <1>1, BytesSame
<1> QED
  BY <1>1, <1>2, <1>3, ClipCacheAssumption

(* A step that adds no record and drops from the index what it drops from  *)
(* an eviction.                                                            *)
LEMMA LimitKept ==
    ASSUME Shapes, LimitInv, \A s \in Tasks : DoomedFlow(s)',
           \A id \in Ids : records'[id] \in {records[id], None},
           \A s \in Tasks : \A id \in Range(task[s].doomed) :
               id \in Range(task'[s].doomed) \/ records'[id] = None
    PROVE  LimitInv'
<1> DEFINE S == Indexed(records) \ Doomed
           R == Indexed(records') \ Doomed'
<1>1. records \in [Ids -> Record \cup {None}] /\ S \in SUBSET Indexed(records)
  BY DEF Shapes
<1>2. R \in SUBSET S
  <2> SUFFICES ASSUME NEW id \in Ids, records'[id] # None, id \notin Doomed'
               PROVE  records[id] # None /\ id \notin Doomed
    BY DEF Indexed
  <2>1. \A s \in Tasks : id \notin Range(task'[s].doomed)
    BY DEF Doomed
  <2> QED
    BY <2>1 DEF Doomed
<1>3. \A x \in R : records'[x] = records[x]
  BY DEF Indexed
<1>4. Bytes(records, S) <= MaxBytes
  BY DEF LimitInv
<1> HIDE DEF S, R
<1>5. Bytes(records', R) <= MaxBytes
  BY <1>1, <1>2, <1>3, <1>4, FewerFit
<1> QED
  BY <1>5 DEF LimitInv, R

(* One operation is at another place, and no eviction with it.             *)
LEMMA LimitElsewhere ==
    ASSUME Shapes, LimitInv, NEW t \in Tasks,
           \A s \in Tasks \ {t} : task'[s].doomed = task[s].doomed /\ task'[s].pc = task[s].pc,
           task'[t].doomed = task[t].doomed, task'[t].pc = "evict" \/ task[t].pc # "evict",
           \A id \in Ids : records'[id] \in {records[id], None}
    PROVE  LimitInv'
<1>1. \A s \in Tasks : task'[s].doomed = task[s].doomed
  OBVIOUS
<1>2. \A s \in Tasks : DoomedFlow(s)'
  BY <1>1 DEF LimitInv, DoomedFlow
<1> QED
  BY <1>1, <1>2, LimitKept

(* What evict() does with its list, once the rest fits.                    *)
LEMMA LimitEvict ==
    ASSUME Shapes, LimitInv, NEW t \in Tasks, NEW recs \in [Ids -> Record \cup {None}],
           NEW doomed \in Seq(Ids), EvictNext(t, recs, doomed),
           Bytes(recs, Indexed(recs) \
               (Range(doomed) \cup UNION {Range(task[s].doomed) : s \in Tasks \ {t}})) <= MaxBytes
    PROVE  LimitInv'
<1> DEFINE others == UNION {Range(task[s].doomed) : s \in Tasks \ {t}}
           S == Indexed(recs) \ (Range(doomed) \cup others)
           R == Indexed(records') \ Doomed'
<1>1. Only(t)
  BY EvictFrame
<1>2. task[t].id \in Ids /\ task = [s \in Tasks |-> task[s]]
  BY TaskFields DEF Shapes
<1>3. \A s \in Tasks \ {t} : DoomedFlow(s)'
  BY <1>1 DEF Only, LimitInv, DoomedFlow
<1>4. /\ task'[t].doomed \in Seq(Ids) /\ (task'[t].pc # "evict" => task'[t].doomed = <<>>)
      /\ \A id \in Range(doomed) \cap Ids : id \in Range(task'[t].doomed) \/ records'[id] = None
      /\ \A id \in Ids : records'[id] \in {recs[id], None}
  <2>1. CASE doomed = <<>>
    <3>1. Over(t) /\ records' = recs
      BY <2>1 DEF EvictNext
    <3>2. task'[t] = [NewTask(task[t].id) EXCEPT !.pc = "over"]
      BY <1>2, <3>1 DEF Over
    <3>3. task'[t].doomed = <<>>
      BY <3>2 DEF NewTask
    <3>4. Range(doomed) = {}
      BY <2>1 DEF Range
    <3> QED
      BY <3>1, <3>3, <3>4
  <2>2. CASE doomed # <<>>
    <3>1. /\ records' = [recs EXCEPT ![Head(doomed)] = None]
          /\ RemoveFiles(t, "evict", Head(doomed), Tail(doomed))
      BY <2>2 DEF EvictNext
    <3>2. PICK T, D : task[t] \in TasksOver(T, D)
      BY DEF Shapes, IsTask
    <3>3. task'[t] = [task[t] EXCEPT !.pc = "evict", !.target = Head(doomed), !.rm = FileNames,
                                     !.doomed = Tail(doomed)]
      BY <1>2, <3>1 DEF RemoveFiles
    <3>4. task'[t].doomed = Tail(doomed) /\ task'[t].pc = "evict"
      BY <3>2, <3>3 DEF TasksOver
    <3>5. Tail(doomed) \in Seq(Ids) /\ Head(doomed) \in Ids
      BY <2>2
    <3>6. \A id \in Range(doomed) : id = Head(doomed) \/ id \in Range(Tail(doomed))
      <4> SUFFICES ASSUME NEW i \in 1..Len(doomed), i # 1
                   PROVE  doomed[i] \in Range(Tail(doomed))
        BY <2>2 DEF Range
      <4>1. i - 1 \in 1..Len(Tail(doomed)) /\ Tail(doomed)[i - 1] = doomed[i]
        BY <2>2
      <4>2. DOMAIN Tail(doomed) = 1..Len(Tail(doomed))
        BY <3>5
      <4> QED
        BY <4>1, <4>2 DEF Range
    <3> QED
      BY <3>1, <3>4, <3>5, <3>6
  <2> QED
    BY <2>1, <2>2
<1>5. R \in SUBSET S
  <2> SUFFICES ASSUME NEW id \in Ids, records'[id] # None, id \notin Doomed'
               PROVE  recs[id] # None /\ id \notin Range(doomed) /\ id \notin others
    BY DEF Indexed
  <2>1. \A s \in Tasks : id \notin Range(task'[s].doomed)
    BY DEF Doomed
  <2>2. id \notin others
    BY <1>1, <2>1 DEF Only
  <2>3. id \notin Range(doomed)
    BY <1>4, <2>1
  <2> QED
    BY <1>4, <2>2, <2>3
<1>6. \A x \in R : records'[x] = recs[x]
  BY <1>4 DEF Indexed
<1>7. S \in SUBSET Indexed(recs) /\ Bytes(recs, S) <= MaxBytes
  OBVIOUS
<1> HIDE DEF S, R, others
<1>8. Bytes(records', R) <= MaxBytes
  BY <1>5, <1>6, <1>7, FewerFit
<1>9. \A s \in Tasks : DoomedFlow(s)'
  BY <1>3, <1>4 DEF DoomedFlow
<1> QED
  BY <1>8, <1>9 DEF LimitInv, R

(* A step of one operation.                                                *)
LEMMA LimitTaskStep ==
    ASSUME Ground, LimitInv, NEW t \in Tasks, TaskStep(t)
    PROVE  LimitInv'
<1>1. Shapes /\ TaskFlow(t)
  BY DEF Ground, Flow
<1>2. PICK T, D : task[t] \in TasksOver(T, D)
  BY <1>1 DEF Shapes, IsTask
<1>3. task = [s \in Tasks |-> task[s]] /\ task[t].id \in Ids
  BY <1>1, TaskFields DEF Shapes
<1>4. DoomedFlow(t)
  BY DEF LimitInv
<1>5. CASE UnlinkPcm(t)
  <2>1. ASSUME NEW s \in Tasks
        PROVE  task'[s].doomed = task[s].doomed /\ task'[s].pc = task[s].pc
    <3>1. PICK A, B : task[s] \in TasksOver(A, B)
      BY <1>1 DEF Shapes, IsTask
    <3>2. task'[s] = IF s = t THEN [task[s] EXCEPT !.rm = task[s].rm \ {"pcm"}]
                     ELSE IF s \in Writers /\ task[s].id = task[t].target
                     THEN [task[s] EXCEPT !.linked = FALSE] ELSE task[s]
      BY <1>5 DEF UnlinkPcm
    <3> QED
      BY <3>1, <3>2 DEF TasksOver
  <2>2. records' = records
    BY <1>5 DEF UnlinkPcm
  <2>3. task'[t].pc = "evict" \/ task[t].pc # "evict"
    BY <2>1
  <2> QED
    BY <1>1, <2>1, <2>2, <2>3, LimitElsewhere DEF Shapes
<1>6. CASE UnlinkSide(t)
  <2>1. task' = [task EXCEPT ![t] = [task[t] EXCEPT !.rm = task[t].rm \ {"side"}]]
        /\ records' = records
    BY <1>6 DEF UnlinkSide
  <2>2. /\ \A s \in Tasks \ {t} : task'[s] = task[s]
        /\ task'[t].doomed = task[t].doomed /\ task'[t].pc = task[t].pc
    BY <1>2, <1>3, <2>1 DEF TasksOver
  <2> QED
    BY <1>1, <2>1, <2>2, LimitElsewhere DEF Shapes
<1>7. CASE Removed(t)
  <2>1. Over(t) /\ task[t].pc = "remove" /\ records' = records
    BY <1>7 DEF Removed
  <2>2. task' = [task EXCEPT ![t] = [NewTask(task[t].id) EXCEPT !.pc = "over"]]
    BY <2>1 DEF Over
  <2>3. task[t].doomed = <<>>
    BY <1>4, <2>1 DEF DoomedFlow
  <2>4. /\ \A s \in Tasks \ {t} : task'[s] = task[s]
        /\ task'[t].doomed = <<>>
    BY <1>3, <2>2 DEF NewTask
  <2> QED
    BY <1>1, <2>1, <2>3, <2>4, LimitElsewhere DEF Shapes
<1>8. CASE Evicted(t)
  <2>1. EvictNext(t, records, task[t].doomed)
    BY <1>8 DEF Evicted
  <2>2. Doomed = Range(task[t].doomed) \cup UNION {Range(task[s].doomed) : s \in Tasks \ {t}}
    BY DEF Doomed
  <2>3. records \in [Ids -> Record \cup {None}] /\ task[t].doomed \in Seq(Ids)
    BY <1>1, <1>4 DEF Shapes, DoomedFlow
  <2>4. Bytes(records, Indexed(records) \ Doomed) <= MaxBytes
    BY DEF LimitInv
  <2> QED
    BY <1>1, <2>1, <2>2, <2>3, <2>4, LimitEvict
<1>9. CASE t \in Writers /\ Stored(t)
  <2> DEFINE recs == [records EXCEPT ![task[t].id] = MadeRecord(t)]
             others == UNION {Range(task[s].doomed) : s \in Tasks \ {t}}
  <2>1. EvictNext(t, recs, SelectForEviction(recs)) /\ task[t].pc = "written"
    BY <1>9 DEF Stored
  <2>2. MadeRecord(t) \in Record
    BY <1>1, <1>9, <2>1, WrittenRecord
  <2>3. recs \in [Ids -> Record \cup {None}]
    BY <1>1, <2>2 DEF Shapes
  <2> HIDE DEF recs, others
  <2>4. /\ SelectForEviction(recs) \in Seq(Ids)
        /\ Bytes(recs, Indexed(recs) \ Range(SelectForEviction(recs))) <= MaxBytes
    BY <2>3, SelectionFits
  <2> DEFINE S == Indexed(recs) \ Range(SelectForEviction(recs))
             R == Indexed(recs) \ (Range(SelectForEviction(recs)) \cup others)
  <2>5. S \in SUBSET Indexed(recs) /\ R \in SUBSET S /\ Bytes(recs, S) <= MaxBytes
    BY <2>4
  <2>6. Bytes(recs, R) <= MaxBytes
    <3> HIDE DEF S, R
    <3> QED
      BY <2>3, <2>5, FewerFit
  <2> QED
    BY <1>1, <2>1, <2>3, <2>4, <2>6, LimitEvict DEF others
<1>10. CASE t \in Writers /\ Abandon(t)
  <2>1. RemoveFiles(t, "remove", task[t].id, <<>>) /\ task[t].pc # "evict" /\ records' = records
    BY <1>10 DEF Abandon
  <2>2. task' = [task EXCEPT ![t] = [task[t] EXCEPT !.pc = "remove", !.target = task[t].id,
                                                    !.rm = FileNames, !.doomed = <<>>]]
    BY <2>1 DEF RemoveFiles
  <2>3. task[t].doomed = <<>>
    BY <1>4, <2>1 DEF DoomedFlow
  <2>4. /\ \A s \in Tasks \ {t} : task'[s] = task[s]
        /\ task'[t].doomed = <<>>
    BY <1>2, <1>3, <2>2 DEF TasksOver
  <2> QED
    BY <1>1, <2>1, <2>3, <2>4, LimitElsewhere DEF Shapes
<1>11. ASSUME NEW new, task' = [task EXCEPT ![t] = new], new.doomed = task[t].doomed,
              task[t].pc # "evict", records' = records
       PROVE  LimitInv'
  <2>1. /\ \A s \in Tasks \ {t} : task'[s] = task[s]
        /\ task'[t].doomed = task[t].doomed
    BY <1>3, <1>11
  <2> QED
    BY <1>1, <1>11, <2>1, LimitElsewhere DEF Shapes
<1>12. CASE t \in Writers /\ (Opened(t) \/ DiskFails(t) \/ BufferedBreaks(t))
  <2>1. PICK new : /\ new \in {[task[t] EXCEPT !.pc = "write", !.linked = TRUE],
                               [task[t] EXCEPT !.pc = "write", !.failed = TRUE],
                               [task[t] EXCEPT !.pc = "leaked"]}
                   /\ task' = [task EXCEPT ![t] = new]
    BY <1>12 DEF Opened, DiskFails, BufferedBreaks
  <2>2. task[t].pc # "evict" /\ records' = records
    BY <1>12 DEF Opened, DiskFails, BufferedBreaks
  <2>3. new.doomed = task[t].doomed
    BY <1>2, <2>1 DEF TasksOver
  <2> QED
    BY <1>11, <2>1, <2>2, <2>3
<1>13. CASE /\ t \in Writers
            /\ \/ Flush(t) \/ BodyEnds(t) \/ EndsUnseen(t)
               \/ SidecarOpened(t) \/ SidecarWritten(t)
  <2>1. PICK new : /\ new \in {[task[t] EXCEPT !.flushed = task[t].flushed + 1],
                               [task[t] EXCEPT !.pc = "sidecar", !.stamp = 1 + Max(Stamps)],
                               [task[t] EXCEPT !.pc = "sidecar",
                                               !.flushed = Length[task[t].id],
                                               !.stamp = 1 + Max(Stamps)],
                               [task[t] EXCEPT !.pc = "torn"], [task[t] EXCEPT !.pc = "written"]}
                   /\ task' = [task EXCEPT ![t] = new]
    BY <1>13 DEF Flush, BodyEnds, EndsUnseen, SidecarOpened, SidecarWritten
  <2>2. task[t].pc # "evict" /\ records' = records
    BY <1>13 DEF Flush, BodyEnds, EndsUnseen, SidecarOpened, SidecarWritten
  <2>3. new.doomed = task[t].doomed
    BY <1>2, <2>1 DEF TasksOver
  <2> QED
    BY <1>11, <2>1, <2>2, <2>3
<1>14. CASE UnlinkFails(t)
  <2>1. Only(t) /\ task'[t].pc = task[t].pc /\ task'[t].doomed = task[t].doomed
    BY <1>1, <1>14, UnlinkFailsFrame
  <2>2. records' = records
    BY <1>14 DEF UnlinkFails
  <2>3. task'[t].pc = "evict" \/ task[t].pc # "evict"
    BY <2>1
  <2> QED
    BY <1>1, <2>1, <2>2, <2>3, LimitElsewhere DEF Only, Shapes
<1> QED
  BY <1>5, <1>6, <1>7, <1>8, <1>9, <1>10, <1>12, <1>13, <1>14 DEF TaskStep

(* Any step.                                                               *)
LEMMA LimitStep ==
    ASSUME Ground, LimitInv, Step
    PROVE  LimitInv'
<1>1. Shapes /\ Phase
  BY DEF Ground
<1>2. records \in [Ids -> Record \cup {None}] /\ task = [s \in Tasks |-> task[s]]
  BY <1>1 DEF Shapes
<1>3. ASSUME NEW w \in Writers, NEW id \in Ids, Begin(w, id)
      PROVE  LimitInv'
  <2>1. /\ task' = [task EXCEPT ![w] = [NewTask(id) EXCEPT !.pc = "open"]]
        /\ task[w].pc = "new" /\ records' = records /\ w \in Tasks
    BY <1>3 DEF Begin, Tasks
  <2>2. task[w].doomed = <<>>
    BY <2>1 DEF LimitInv, DoomedFlow
  <2>3. /\ \A s \in Tasks \ {w} : task'[s] = task[s]
        /\ task'[w].doomed = <<>>
    BY <1>2, <2>1 DEF NewTask
  <2> QED
    BY <1>1, <1>2, <2>1, <2>2, <2>3, LimitElsewhere
<1>4. ASSUME NEW d \in Removers, NEW id \in Ids, RemoveClip(d, id)
      PROVE  LimitInv'
  <2>1. /\ RemoveFiles(d, "remove", id, <<>>) /\ task[d].pc = "new" /\ d \in Tasks
        /\ records' = [records EXCEPT ![id] = None]
    BY <1>4 DEF RemoveClip, Tasks
  <2>2. task[d].doomed = <<>>
    BY <2>1 DEF LimitInv, DoomedFlow
  <2>3. PICK T, D : task[d] \in TasksOver(T, D)
    BY <1>1, <2>1 DEF Shapes, IsTask
  <2>4. task' = [task EXCEPT ![d] = [task[d] EXCEPT !.pc = "remove", !.target = id,
                                                    !.rm = FileNames, !.doomed = <<>>]]
    BY <2>1 DEF RemoveFiles
  <2>5. /\ \A s \in Tasks \ {d} : task'[s] = task[s]
        /\ task'[d].doomed = <<>>
    BY <1>2, <2>1, <2>3, <2>4 DEF TasksOver
  <2>6. \A v \in Ids : records'[v] \in {records[v], None}
    BY <1>2, <2>1
  <2> QED
    BY <1>1, <2>1, <2>2, <2>5, <2>6, LimitElsewhere
<1>5. ASSUME NEW t \in Tasks, TaskStep(t)
      PROVE  LimitInv'
  BY <1>5, LimitTaskStep
<1>6. CASE \/ \E r \in Readers : ReadDone(r) \/ ReadFails(r) \/ \E id \in Ids : ReadStart(r, id)
           \/ WhenIdle
  <2>1. task' = task
    BY <1>6 DEF ReadDone, ReadFails, ReadStart, WhenIdle
  <2>2. \A v \in Ids : records'[v] \in {records[v], None}
    BY <1>2, <1>6 DEF ReadDone, ReadFails, ReadStart, WhenIdle
  <2>3. \A s \in Tasks : DoomedFlow(s)'
    BY <2>1 DEF LimitInv, DoomedFlow
  <2> QED
    BY <1>1, <2>1, <2>2, <2>3, LimitKept
<1>7. CASE Crash
  <2>1. ASSUME NEW s \in Tasks
        PROVE  task'[s].doomed = <<>>
    <3>1. \/ task'[s] = NewTask(task[s].id)
          \/ task'[s] = [NewTask(task[s].id) EXCEPT !.pc = "over"]
      BY <1>7 DEF Crash
    <3> QED
      BY <3>1 DEF NewTask
  <2>2. \A v \in Ids : records'[v] = None
    BY <1>7 DEF Crash
  <2>3. \A s \in Tasks : DoomedFlow(s)'
    <3>1. <<>> \in Seq(Ids)
      OBVIOUS
    <3> QED
      BY <2>1, <3>1 DEF DoomedFlow
  <2>4. \A s \in Tasks : Range(task[s].doomed) \subseteq Ids
    BY DEF LimitInv, DoomedFlow, Range
  <2> QED
    BY <1>1, <2>2, <2>3, <2>4, LimitKept
<1>8. CASE Load
  <2> DEFINE sel == SelectForEviction(LoadedRecords)
             others == UNION {Range(task[s].doomed) : s \in Tasks \ {Boot}}
  <2>1. Boot \in Tasks
    BY DEF Tasks
  <2>2. EvictNext(Boot, LoadedRecords, sel)
    BY <1>8 DEF Load, LoadedRecords
  <2>3. LoadedRecords \in [Ids -> Record \cup {None}]
    BY DEF LoadedRecords, Loadable
  <2>4. sel \in Seq(Ids) /\ Bytes(LoadedRecords, Indexed(LoadedRecords) \ Range(sel)) <= MaxBytes
    BY <2>3, SelectionFits
  <2> HIDE DEF sel, others
  <2> DEFINE S == Indexed(LoadedRecords) \ Range(sel)
             R == Indexed(LoadedRecords) \ (Range(sel) \cup others)
  <2>5. S \in SUBSET Indexed(LoadedRecords) /\ R \in SUBSET S /\ Bytes(LoadedRecords, S) <= MaxBytes
    BY <2>4
  <2>6. Bytes(LoadedRecords, R) <= MaxBytes
    <3> HIDE DEF S, R
    <3> QED
      BY <2>3, <2>5, FewerFit
  <2> QED
    BY <1>1, <2>1, <2>2, <2>3, <2>4, <2>6, LimitEvict DEF others
<1> QED
  BY <1>3, <1>4, <1>5, <1>6, <1>7, <1>8 DEF Step

(* Once no write, DELETE or eviction is under way, the clips in the index  *)
(* fit the limit (selectForEviction of cache-index.ts, #evict and load of  *)
(* cache.ts), however they overlapped.                                     *)
THEOREM LimitAtRest == Spec => []BudgetAtRest
<1>1. Init => LimitInv
  <2> SUFFICES ASSUME Init PROVE LimitInv
    OBVIOUS
  <2>1. \A t \in Tasks : task[t].doomed = <<>>
    BY DEF Init, NewTask
  <2>2. Indexed(records) \ Doomed = {}
    BY DEF Init, Indexed
  <2>3. Bytes(records, {}) = 0
    BY FS_EmptySet, BytesStep
  <2>4. Bytes(records, Indexed(records) \ Doomed) <= MaxBytes
    BY <2>2, <2>3, ClipCacheAssumption
  <2>5. <<>> \in Seq(Ids)
    OBVIOUS
  <2>6. \A t \in Tasks : DoomedFlow(t)
    BY <2>1, <2>5 DEF DoomedFlow
  <2> QED
    BY <2>4, <2>6 DEF LimitInv
<1>2. CacheInv /\ LimitInv /\ [Next]_vars => LimitInv'
  <2>1. ASSUME CacheInv, LimitInv, Next
        PROVE  LimitInv'
    BY <2>1, LimitStep DEF CacheInv, Next
  <2>2. ASSUME LimitInv, UNCHANGED vars
        PROVE  LimitInv'
    <3>1. task' = task /\ records' = records
      BY <2>2 DEF vars
    <3> QED
      BY <2>2, <3>1 DEF LimitInv, DoomedFlow, Doomed
  <2> QED
    BY <2>1, <2>2
<1>3. CacheInv /\ LimitInv => BudgetAtRest
  <2> SUFFICES ASSUME CacheInv, LimitInv, \A t \in Tasks : task[t].pc \in {"new", "leaked", "over"}
               PROVE  BytesFrom(records, 0) <= MaxBytes
    BY DEF BudgetAtRest
  <2>1. Doomed = {}
    <3>1. \A t \in Tasks : task[t].doomed = <<>>
      BY DEF LimitInv, DoomedFlow
    <3>2. \A t \in Tasks : Range(task[t].doomed) = {}
      BY <3>1 DEF Range
    <3> QED
      BY <3>2 DEF Doomed
  <2>2. {id \in Indexed(records) : records[id].stamp >= 0} = Indexed(records) \ Doomed
    BY <2>1 DEF CacheInv, Ground, Shapes, Indexed, Record
  <2>3. BytesFrom(records, 0) = Bytes(records, {id \in Indexed(records) : records[id].stamp >= 0})
    BY DEF Bytes, BytesFrom
  <2> QED
    BY <2>2, <2>3 DEF LimitInv
<1> QED
  BY <1>1, <1>2, <1>3, CacheInvariant, PTL DEF Spec
-----------------------------------------------------------------------------
(* The life of a clip.                                                     *)

(* A gateway that serves, or whose load() has read the directory.          *)
Started == up \/ task[Boot].pc # "new"

(* No write begins and none is forgotten.                                  *)
Onward ==
    \A s \in Writers :
        /\ task'[s].id = task[s].id
        /\ task'[s].pc \in WritePcs => task[s].pc \in WritePcs
        /\ task[s].pc # "new" => task'[s].pc # "new"

(* What a step may do to clip v while nobody is killed.                    *)
Moved(v) ==
    /\ records'[v] # None /\ records[v] = None => Making(v)
    /\ records[v] # None /\ records'[v] = None => Loadable(v)' /\ ~ Making(v)'
    /\ Loadable(v)' => Loadable(v) \/ Making(v)
    /\ Making(v)' => Making(v) \/ v \in Cues \/ ~ Begun(v)
    /\ Begun(v) => Begun(v)'

(* The writes under way, and those that have begun.                        *)
LEMMA OnwardKeeps ==
    ASSUME Onward, NEW v \in Ids
    PROVE  (Making(v)' => Making(v)) /\ (Begun(v) => Begun(v)')
  BY DEF Onward, Making, Begun, WritePcs

LEMMA OnlyIsOnward ==
    ASSUME NEW t \in Tasks, Only(t), task'[t].id = task[t].id,
           t \in Writers => /\ task'[t].pc \in WritePcs => task[t].pc \in WritePcs
                            /\ task'[t].pc # "new"
    PROVE  Onward
  BY DEF Only, Onward, Tasks

LEMMA SameDisk ==
    ASSUME NEW v \in Ids, pcm'[v] = pcm[v], side'[v] = side[v]
    PROVE  Loadable(v)' <=> Loadable(v)
  BY DEF Loadable, Size

(* A clip in the index is whole on disk, and nobody is writing it.         *)
LEMMA IndexedIsWhole ==
    ASSUME CacheInv, NEW v \in Ids \ Excused, records[v] # None
    PROVE  Loadable(v) /\ ~ Making(v)
<1>1. Whole(v) /\ BeingWritten(v) /\ records[v] \in Record
  BY DEF CacheInv, ClipInv, Ground, Shapes
<1>2. side[v] \in Record /\ pcm[v] = 1..side[v].bytes
  BY <1>1 DEF Whole
<1>3. Loadable(v)
  BY <1>2, WholeIsLoadable
<1>4. ~ Making(v)
  BY <1>1 DEF BeingWritten, WriteClause, Making, WritePcs
<1> QED
  BY <1>3, <1>4

(* The sidecar of a tee was written by the one write its id was drawn for. *)
LEMMA TeeHasBegun ==
    ASSUME Ground, NEW v \in Tees, Loadable(v)
    PROVE  Begun(v)
<1>1. side[v] # None
  BY MarksAssumption DEF Loadable
<1>2. PICK w \in Writers : task[w].id = v /\ task[w].pc \in Late
  BY <1>1 DEF Ground, TeesOnce
<1> QED
  BY <1>2 DEF Begun, Late, RemovePcs

(* Nobody is killed, and the gateway is up or loads: the life of a clip    *)
(* goes on.                                                                *)
LEMMA LifeWorks ==
    ASSUME CacheInv, Excused \subseteq Excused', Started, Started', NEW v \in Ids, Moved(v)
    PROVE  Clips!Working(v, Life(v), Life(v)')
<1>1. CASE v \in Excused'
  <2>1. Life(v)' = "disputed"
    BY <1>1 DEF Life
  <2> QED BY <2>1 DEF Clips!Working
<1>2. CASE v \notin Excused'
  <2>1. v \notin Excused
    BY <1>2
  <2>2. Known(v) <=> records[v] # None
    BY DEF Known, Started
  <2>3. Known(v)' <=> records'[v] # None
    BY DEF Known, Started
  <2>4. Known(v) => Loadable(v) /\ ~ Making(v)
    BY <2>1, <2>2, IndexedIsWhole
  <2>5. v \in Tees /\ Loadable(v) => Begun(v)
    BY TeeHasBegun DEF CacheInv
  <2>6. Life(v) = IF Known(v) THEN "kept" ELSE IF Making(v) THEN "none"
                  ELSE IF Loadable(v) THEN "leaving"
                  ELSE IF v \in Tees /\ Begun(v) THEN "gone" ELSE "none"
    BY <2>1 DEF Life
  <2>7. Life(v)' = IF Known(v)' THEN "kept" ELSE IF Making(v)' THEN "none"
                   ELSE IF Loadable(v)' THEN "leaving"
                   ELSE IF v \in Tees /\ Begun(v)' THEN "gone" ELSE "none"
    BY <1>2 DEF Life
  <2>8. v \in Tees => v \notin Cues
    BY ClipCacheAssumption
  <2>9. CASE Known(v)
    <3>1. Life(v) = "kept"
      BY <2>6, <2>9
    <3>2. Life(v)' \in {"kept", "leaving"}
      BY <2>2, <2>3, <2>7, <2>9 DEF Moved
    <3> QED BY <3>1, <3>2 DEF Clips!Working
  <2>10. CASE ~ Known(v) /\ Making(v)
    <3>1. Life(v) = "none"
      BY <2>6, <2>10
    <3>2. Life(v)' \in {"none", "kept", "leaving"} \/ (v \in Tees /\ Life(v)' = "gone")
      BY <2>7
    <3> QED BY <3>1, <3>2 DEF Clips!Working, Clips!Gone
  <2>11. CASE ~ Known(v) /\ ~ Making(v) /\ Loadable(v)
    <3>1. Life(v) = "leaving"
      BY <2>6, <2>11
    <3>2. ~ Known(v)'
      BY <2>2, <2>3, <2>11 DEF Moved
    <3>3. CASE v \in Tees
      <4>1. ~ Making(v)' /\ Begun(v)'
        BY <2>5, <2>8, <2>11, <3>3 DEF Moved
      <4>2. Life(v)' \in {"leaving", "gone"}
        BY <2>7, <3>2, <3>3, <4>1
      <4> QED BY <3>1, <3>3, <4>2 DEF Clips!Working, Clips!Gone
    <3>4. CASE v \notin Tees
      <4>1. Life(v)' \in {"leaving", "none"}
        BY <2>7, <3>2, <3>4
      <4> QED BY <3>1, <3>4, <4>1 DEF Clips!Working, Clips!Gone
    <3> QED BY <3>3, <3>4
  <2>12. CASE ~ Known(v) /\ ~ Making(v) /\ ~ Loadable(v)
    <3>1. ~ Known(v)' /\ ~ Loadable(v)'
      BY <2>2, <2>3, <2>12 DEF Moved
    <3>2. CASE v \in Tees /\ Begun(v)
      <4>1. ~ Making(v)' /\ Begun(v)'
        BY <2>8, <2>12, <3>2 DEF Moved
      <4>2. Life(v) = "gone" /\ Life(v)' = "gone"
        BY <2>6, <2>7, <2>12, <3>1, <3>2, <4>1
      <4> QED BY <4>2 DEF Clips!Working
    <3>3. CASE ~ (v \in Tees /\ Begun(v))
      <4>1. Life(v) = "none"
        BY <2>6, <2>12, <3>3
      <4>2. Life(v)' = "none" \/ (v \in Tees /\ Life(v)' = "gone")
        BY <2>7, <3>1
      <4> QED BY <4>1, <4>2 DEF Clips!Working, Clips!Gone
    <3> QED BY <3>2, <3>3
  <2> QED BY <2>9, <2>10, <2>11, <2>12
<1> QED BY <1>1, <1>2

(* Nothing is promised again of a clip that was excused.                   *)
LEMMA DisputedStays ==
    ASSUME Excused \subseteq Excused', NEW v \in Excused
    PROVE  Clips!Working(v, Life(v), Life(v)')
<1>1. Life(v)' = "disputed"
  BY DEF Life
<1> QED BY <1>1 DEF Clips!Working

(* A step that leaves the files alone and forgets at most some records.    *)
LEMMA OnlyForgets ==
    ASSUME CacheInv, Onward, pcm' = pcm, side' = side, NEW v \in Ids \ Excused,
           records'[v] # None => records[v] # None \/ Making(v)
    PROVE  Moved(v)
<1>1. (Making(v)' => Making(v)) /\ (Begun(v) => Begun(v)')
  BY OnwardKeeps
<1>2. Loadable(v)' <=> Loadable(v)
  BY SameDisk
<1>3. records[v] # None => Loadable(v) /\ ~ Making(v)
  BY IndexedIsWhole
<1> QED
  BY <1>1, <1>2, <1>3 DEF Moved

(* A step on the files of one clip u, by its write or to remove them.      *)
LEMMA OnFiles ==
    ASSUME Onward, records' = records, NEW u, NEW v \in Ids,
           v # u => pcm'[v] = pcm[v] /\ side'[v] = side[v],
           v = u => Making(v) \/ ~ Loadable(v)'
    PROVE  Moved(v)
<1>1. (Making(v)' => Making(v)) /\ (Begun(v) => Begun(v)')
  BY OnwardKeeps
<1>2. v # u => (Loadable(v)' <=> Loadable(v))
  BY SameDisk
<1> QED
  BY <1>1, <1>2 DEF Moved

(* An operation that has begun: the gateway has, and stays so.             *)
LEMMA AtWork ==
    ASSUME Ground, NEW t \in Tasks, task[t].pc \in WritePcs \cup RemovePcs,
           up => up', Boot = t \/ task'[Boot].pc = task[Boot].pc,
           task'[t].pc # "new"
    PROVE  Started /\ Started'
<1>1. task[t].pc \notin {"new", "over"}
  BY DEF WritePcs, RemovePcs
<1>2. up \/ t = Boot
  BY <1>1 DEF Ground, Phase
<1> QED
  BY <1>1, <1>2 DEF Started

(* The steps of a writer until it is indexed.                              *)
LEMMA MovedByWriter ==
    ASSUME CacheInv, NEW v \in Ids \ Excused, NEW w \in Writers,
           \/ Opened(w) \/ Flush(w) \/ DiskFails(w) \/ BodyEnds(w) \/ EndsUnseen(w) \/ Abandon(w)
           \/ BufferedBreaks(w) \/ SidecarOpened(w) \/ SidecarWritten(w)
    PROVE  Started /\ Started' /\ Moved(v)
<1>1. Ground /\ Shapes /\ w \in Tasks /\ task[w].id \in Ids
  BY TaskFields DEF CacheInv, Ground, Tasks, Shapes
<1>2. /\ up /\ up' /\ task[w].pc \in WritePcs /\ records' = records
  BY DEF Opened, Flush, DiskFails, BodyEnds, EndsUnseen, Abandon, BufferedBreaks, SidecarOpened,
         SidecarWritten, WritePcs
<1>3. Only(w) /\ task'[w].id = task[w].id /\ task'[w].pc # "new"
  <2>1. CASE Opened(w) \/ Flush(w) \/ DiskFails(w) \/ BodyEnds(w) \/ EndsUnseen(w)
    BY <1>1, <1>2, <2>1, OpenedFrame, FlushFrame, DiskFailsFrame, BodyEndsFrame,
       EndsUnseenFrame DEF WritePcs
  <2>2. CASE BufferedBreaks(w) \/ SidecarOpened(w) \/ SidecarWritten(w)
    BY <1>1, <2>2, BufferedBreaksFrame, SidecarOpenedFrame, SidecarWrittenFrame
  <2>3. CASE Abandon(w)
    <3>1. RemoveFiles(w, "remove", task[w].id, <<>>) /\ "remove" \in RemovePcs
      BY <2>3 DEF Abandon, RemovePcs
    <3>2. Only(w) /\ task'[w].pc = "remove" /\ task'[w].id = task[w].id
      BY <1>1, <3>1, RemoveFrame
    <3> QED BY <3>2
  <2> QED BY <2>1, <2>2, <2>3
<1>4. Onward
  BY <1>1, <1>2, <1>3, OnlyIsOnward
<1>5. v = task[w].id => Making(v)
  BY <1>2 DEF Making, WritePcs
<1>6. v # task[w].id => pcm'[v] = pcm[v] /\ side'[v] = side[v]
  <2>1. /\ pcm = [id \in Ids |-> pcm[id]] /\ side = [id \in Ids |-> side[id]]
    BY <1>1 DEF Shapes
  <2>2. pcm' = pcm \/ (\E c : pcm' = [pcm EXCEPT ![task[w].id] = c])
    BY DEF Opened, Flush, DiskFails, BodyEnds, EndsUnseen, Abandon, BufferedBreaks,
           SidecarOpened, SidecarWritten, disk
  <2>3. side' = side \/ (\E c : side' = [side EXCEPT ![task[w].id] = c])
    BY DEF Opened, Flush, DiskFails, BodyEnds, EndsUnseen, Abandon, BufferedBreaks,
           SidecarOpened, SidecarWritten, disk
  <2> QED BY <2>1, <2>2, <2>3
<1>7. Moved(v)
  BY <1>2, <1>4, <1>5, <1>6, OnFiles
<1> QED
  BY <1>2, <1>7 DEF Started

(* A clip is indexed, and others make room for it.                         *)
LEMMA MovedByStored ==
    ASSUME CacheInv, NEW v \in Ids \ Excused, NEW w \in Writers, Stored(w)
    PROVE  Started /\ Started' /\ Moved(v)
<1>1. Ground /\ Shapes /\ w \in Tasks /\ task[w].id \in Ids
  BY TaskFields DEF CacheInv, Ground, Tasks, Shapes
<1> DEFINE recs == [records EXCEPT ![task[w].id] = MadeRecord(w)]
<1>2. /\ up /\ up' /\ task[w].pc = "written" /\ pcm' = pcm /\ side' = side
      /\ EvictNext(w, recs, SelectForEviction(recs))
  BY DEF Stored, disk
<1>3. MadeRecord(w) \in Record
  BY <1>1, <1>2, WrittenRecord DEF Ground, Flow
<1>4. recs \in [Ids -> Record \cup {None}]
  BY <1>1, <1>3 DEF Shapes
<1>5. v # task[w].id => recs[v] = records[v]
  BY <1>1 DEF Shapes
<1>6. PICK made : made = recs
  OBVIOUS
<1> HIDE DEF recs
<1>7. /\ Only(w) /\ task'[w].id = task[w].id /\ task'[w].pc \in {"over", "evict"}
      /\ records'[v] # None => records'[v] = made[v]
  BY <1>1, <1>2, <1>4, <1>6, EvictFrame
<1>8. Onward
  BY <1>1, <1>7, OnlyIsOnward DEF WritePcs
<1>9. v = task[w].id => Making(v)
  BY <1>2 DEF Making
<1>10. records'[v] # None => records[v] # None \/ Making(v)
  BY <1>5, <1>6, <1>7, <1>9
<1>11. Moved(v)
  BY <1>2, <1>8, <1>10, OnlyForgets
<1> QED
  BY <1>2, <1>11 DEF Started

(* The files of a clip go, and the next one is taken in hand.              *)
LEMMA MovedByRemoval ==
    ASSUME CacheInv, NEW v \in Ids \ Excused, NEW t \in Tasks,
           UnlinkPcm(t) \/ UnlinkSide(t) \/ UnlinkFails(t) \/ Removed(t) \/ Evicted(t)
    PROVE  Started /\ Started' /\ Moved(v)
<1>1. Ground /\ Shapes /\ TaskFlow(t) /\ IsTask(task[t])
  BY DEF CacheInv, Ground, Flow, Shapes
<1>2. task[t].pc \in RemovePcs
  BY <1>1 DEF TaskFlow, UnlinkPcm, UnlinkSide, UnlinkFails, Removed, Evicted, RemovePcs
<1>3. up => up'
  BY DEF UnlinkPcm, UnlinkSide, UnlinkFails, Removed, Evicted
<1>4. task[t].pc \notin WritePcs /\ task[t].pc # "new"
  BY <1>2 DEF RemovePcs, WritePcs
<1>5. CASE UnlinkPcm(t)
  <2>1. \A s \in Tasks : task'[s].pc = task[s].pc /\ task'[s].id = task[s].id
    BY <1>1, <1>5, UnlinkPcmFrame DEF Kin
  <2>2. Onward /\ task'[t].pc # "new" /\ (Boot \in Tasks => task'[Boot].pc = task[Boot].pc)
    BY <1>4, <2>1 DEF Onward, Tasks
  <2>3. records' = records /\ side' = side /\ pcm' = [pcm EXCEPT ![task[t].target] = None]
    BY <1>5 DEF UnlinkPcm
  <2>4. v # task[t].target => pcm'[v] = pcm[v] /\ side'[v] = side[v]
    BY <1>1, <2>3 DEF Shapes
  <2>5. v = task[t].target => ~ Loadable(v)'
    BY <1>1, <2>3 DEF Shapes, Loadable
  <2>6. Moved(v)
    BY <2>2, <2>3, <2>4, <2>5, OnFiles
  <2>7. Boot \in Tasks
    BY DEF Tasks
  <2> QED BY <1>1, <1>2, <1>3, <2>2, <2>6, <2>7, AtWork
<1>6. CASE UnlinkSide(t)
  <2>1. Only(t) /\ task'[t].pc = task[t].pc /\ task'[t].id = task[t].id
    BY <1>1, <1>6, UnlinkSideFrame
  <2>2. Onward /\ task'[t].pc # "new" /\ (Boot = t \/ task'[Boot].pc = task[Boot].pc)
    BY <1>4, <2>1, OnlyIsOnward DEF Only, Tasks
  <2>3. records' = records /\ pcm' = pcm /\ side' = [side EXCEPT ![task[t].target] = None]
    BY <1>6 DEF UnlinkSide
  <2>4. v # task[t].target => pcm'[v] = pcm[v] /\ side'[v] = side[v]
    BY <1>1, <2>3 DEF Shapes
  <2>5. v = task[t].target => ~ Loadable(v)'
    <3>1. v = task[t].target => side'[v] = None
      BY <1>1, <2>3 DEF Shapes
    <3> QED BY <3>1, MarksAssumption DEF Loadable
  <2>6. Moved(v)
    BY <2>2, <2>3, <2>4, <2>5, OnFiles
  <2> QED BY <1>1, <1>2, <1>3, <2>2, <2>6, AtWork
<1>7. CASE Removed(t)
  <2>1. Over(t) /\ pcm' = pcm /\ side' = side /\ records' = records
    BY <1>7 DEF Removed, disk
  <2>2. Only(t) /\ task'[t].pc = "over" /\ task'[t].id = task[t].id
    BY <1>1, <2>1, OverFrame
  <2>3. Onward /\ task'[t].pc # "new" /\ (Boot = t \/ task'[Boot].pc = task[Boot].pc)
    BY <2>2, OnlyIsOnward DEF Only, Tasks, WritePcs
  <2>4. Moved(v)
    BY <2>1, <2>3, OnlyForgets
  <2> QED BY <1>1, <1>2, <1>3, <2>3, <2>4, AtWork
<1>8. CASE Evicted(t)
  <2>1. EvictNext(t, records, task[t].doomed) /\ pcm' = pcm /\ side' = side
    BY <1>8 DEF Evicted, disk
  <2>2. records \in [Ids -> Record \cup {None}]
    BY <1>1 DEF Shapes
  <2>3. /\ Only(t) /\ task'[t].id = task[t].id /\ task'[t].pc \in {"over", "evict"}
        /\ records'[v] # None => records'[v] = records[v]
    BY <1>1, <2>1, <2>2, EvictFrame
  <2>4. Onward /\ task'[t].pc # "new" /\ (Boot = t \/ task'[Boot].pc = task[Boot].pc)
    BY <2>3, OnlyIsOnward DEF Only, Tasks, WritePcs
  <2>5. Moved(v)
    BY <2>1, <2>3, <2>4, OnlyForgets
  <2> QED BY <1>1, <1>2, <1>3, <2>4, <2>5, AtWork
<1>9. CASE UnlinkFails(t)
  <2>1. Only(t) /\ task'[t].pc = task[t].pc /\ task'[t].id = task[t].id
    BY <1>1, <1>9, UnlinkFailsFrame
  <2>2. Onward /\ task'[t].pc # "new" /\ (Boot = t \/ task'[Boot].pc = task[Boot].pc)
    BY <1>4, <2>1, OnlyIsOnward DEF Only, Tasks
  <2>3. records' = records /\ pcm' = pcm /\ side' = side
    BY <1>9 DEF UnlinkFails, disk
  <2>4. Moved(v)
    BY <2>2, <2>3, OnlyForgets
  <2> QED BY <1>1, <1>2, <1>3, <2>2, <2>4, AtWork
<1> QED
  BY <1>5, <1>6, <1>7, <1>8, <1>9

(* Requests come in, reads and waits go on.                                *)
LEMMA MovedByRequest ==
    ASSUME CacheInv, NEW v \in Ids \ Excused,
           \/ \E w \in Writers, id \in Ids : Begin(w, id)
           \/ \E d \in Removers, id \in Ids : RemoveClip(d, id)
           \/ \E r \in Readers : ReadDone(r) \/ ReadFails(r) \/ \E id \in Ids : ReadStart(r, id)
           \/ WhenIdle
    PROVE  Started /\ Started' /\ Moved(v)
<1>1. Ground /\ Shapes /\ records = [id \in Ids |-> records[id]]
  BY DEF CacheInv, Ground, Shapes
<1>2. up /\ up' /\ pcm' = pcm /\ side' = side
  BY DEF Begin, RemoveClip, ReadDone, ReadFails, ReadStart, WhenIdle, disk
<1>3. ASSUME NEW w \in Writers, NEW id \in Ids, Begin(w, id)
      PROVE  Moved(v)
  <2>1. Only(w) /\ task[w].pc = "new" /\ task'[w].pc = "open" /\ task'[w].id = id
    BY <1>1, <1>3, BeginFrame
  <2>2. records' = records /\ (id \in Tees => \A u \in Writers : task[u].pc # "new" => task[u].id # id)
    BY <1>3 DEF Begin
  <2>3. Making(v)' => Making(v) \/ v = id
    BY <2>1 DEF Only, Making, Tasks
  <2>4. Begun(v) => Begun(v)'
    BY <2>1 DEF Only, Begun, Tasks
  <2>5. v = id => v \in Cues \/ ~ Begun(v)
    BY <2>2 DEF Begun, Ids
  <2>6. Loadable(v)' <=> Loadable(v)
    BY <1>2, SameDisk
  <2> QED BY <2>2, <2>3, <2>4, <2>5, <2>6 DEF Moved
<1>4. ASSUME NEW d \in Removers, NEW id \in Ids, RemoveClip(d, id)
      PROVE  Moved(v)
  <2>1. RemoveFiles(d, "remove", id, <<>>) /\ records' = [records EXCEPT ![id] = None]
        /\ "remove" \in RemovePcs /\ d \in Tasks
    BY <1>4 DEF RemoveClip, RemovePcs, Tasks
  <2>2. Only(d) /\ task'[d].id = task[d].id
    BY <1>1, <2>1, RemoveFrame
  <2>3. Onward
    BY <2>1, <2>2, OnlyIsOnward, ClipCacheAssumption
  <2>4. records'[v] # None => records[v] # None
    BY <1>1, <2>1
  <2> QED BY <1>2, <2>3, <2>4, OnlyForgets
<1>5. ASSUME NEW r \in Readers,
             ReadDone(r) \/ ReadFails(r) \/ \E id \in Ids : ReadStart(r, id)
      PROVE  Moved(v)
  <2>1. task' = task /\ (records' = records \/ records' = [records EXCEPT ![read[r].id] = None])
    BY <1>5 DEF ReadDone, ReadFails, ReadStart
  <2>2. Onward
    BY <2>1 DEF Onward
  <2>3. records'[v] # None => records[v] # None
    BY <1>1, <2>1
  <2> QED BY <1>2, <2>2, <2>3, OnlyForgets
<1>6. ASSUME WhenIdle
      PROVE  Moved(v)
  <2>1. task' = task /\ records' = records /\ pcm' = pcm /\ side' = side
    BY <1>6 DEF WhenIdle, disk
  <2>2. Onward
    BY <2>1 DEF Onward
  <2>3. records'[v] # None => records[v] # None
    BY <2>1
  <2> HIDE DEF Onward, Moved
  <2> QED BY <2>1, <2>2, <2>3, OnlyForgets
<1> QED
  BY <1>2, <1>3, <1>4, <1>5, <1>6 DEF Started

(* load() indexes what is whole, and evicts.                               *)
LEMMA LifeLoads ==
    ASSUME CacheInv, Load, Excused \subseteq Excused', NEW v \in Ids
    PROVE  Clips!Working(v, Life(v), Life(v)')
<1>1. /\ Ground /\ Shapes /\ Phase /\ Boot \in Tasks /\ Boot \notin Writers
  BY ClipCacheAssumption DEF CacheInv, Ground, Tasks
<1>2. /\ EvictNext(Boot, LoadedRecords, SelectForEviction(LoadedRecords))
      /\ ~ up /\ task[Boot].pc = "new"
      /\ pcm' = pcm /\ side' = side
  BY DEF Load, LoadedRecords, disk
<1>3. /\ LoadedRecords \in [Ids -> Record \cup {None}]
      /\ ~ Loadable(v) => LoadedRecords[v] = None
  BY DEF LoadedRecords, Loadable
<1>4. /\ Only(Boot) /\ task'[Boot].pc \in {"over", "evict"} /\ task'[Boot].id = task[Boot].id
      /\ records'[v] # None => records'[v] = LoadedRecords[v]
  BY <1>1, <1>2, <1>3, EvictFrame
<1>5. Onward
  BY <1>1, <1>4, OnlyIsOnward
<1>6. ~ Making(v) /\ ~ Making(v)' /\ (Begun(v) <=> Begun(v)')
  <2>1. \A w \in Writers : task[w].pc \in {"new", "over"} /\ task'[w] = task[w]
    BY <1>1, <1>2, <1>4 DEF Phase, Only, Tasks
  <2> QED BY <2>1 DEF Making, Begun
<1>7. Known(v) <=> Loadable(v)
  BY <1>2 DEF Known
<1>8. Known(v)' <=> records'[v] # None
  BY <1>4 DEF Known
<1>9. Loadable(v)' <=> Loadable(v)
  BY <1>2, SameDisk
<1>10. CASE v \in Excused'
  <2>1. Life(v)' = "disputed"
    BY <1>10 DEF Life
  <2> QED BY <2>1 DEF Clips!Working
<1>11. CASE v \notin Excused' /\ Loadable(v)
  <2>1. Life(v) = "kept" /\ Life(v)' \in {"kept", "leaving"}
    BY <1>6, <1>7, <1>9, <1>11 DEF Life
  <2> QED BY <2>1 DEF Clips!Working
<1>12. CASE v \notin Excused' /\ ~ Loadable(v)
  <2>1. ~ Known(v)'
    BY <1>3, <1>4, <1>8, <1>12
  <2>2. Life(v)' = Life(v)
    BY <1>6, <1>7, <1>9, <1>12, <2>1 DEF Life
  <2> QED BY <2>2 DEF Clips!Working
<1> QED
  BY <1>10, <1>11, <1>12

(* A kill leaves the disk and nothing else.                                *)
LEMMA LifeKilled ==
    ASSUME CacheInv, Crash, Contest, NEW v \in Ids
    PROVE  Clips!Killed(v, Life(v), Life(v)')
<1>1. /\ ~ up' /\ pcm' = pcm /\ side' = side /\ read' = [r \in Readers |-> None]
      /\ \A t \in Tasks :
            task'[t] = IF task[t].pc = "new" \/ t = Boot THEN NewTask(task[t].id)
                       ELSE [NewTask(task[t].id) EXCEPT !.pc = "over"]
  BY DEF Crash, disk
<1>2. ASSUME NEW t \in Tasks
      PROVE  /\ task'[t].pc = IF task[t].pc = "new" \/ t = Boot THEN "new" ELSE "over"
             /\ task'[t].id = task[t].id
  <2>1. CASE task[t].pc = "new" \/ t = Boot
    <3>1. task'[t] = NewTask(task[t].id)
      BY <1>1, <2>1
    <3> QED BY <2>1, <3>1 DEF NewTask
  <2>2. CASE ~ (task[t].pc = "new" \/ t = Boot)
    <3>1. task'[t] = [NewTask(task[t].id) EXCEPT !.pc = "over"]
      BY <1>1, <2>2
    <3> QED BY <2>2, <3>1 DEF NewTask
  <2> QED BY <2>1, <2>2
<1>3. Boot \in Tasks /\ Boot \notin Writers /\ Writers \subseteq Tasks
  BY ClipCacheAssumption DEF Tasks
<1>4. \A w \in Writers : /\ task'[w].id = task[w].id /\ task'[w].pc \in {"new", "over"}
                         /\ task'[w].pc = "new" <=> task[w].pc = "new"
  BY <1>2, <1>3
<1>5. ~ Making(v)' /\ (Begun(v)' <=> Begun(v))
  BY <1>4 DEF Making, Begun
<1>6. Known(v)' <=> Loadable(v)'
  <2>1. task'[Boot].pc = "new"
    BY <1>2, <1>3
  <2> QED BY <1>1, <2>1 DEF Known
<1>7. Loadable(v)' <=> Loadable(v)
  BY <1>1, SameDisk
<1>8. v \in Excused' <=> v \in Excused
  <2>1. Touching(v)' = {}
    BY <1>1, <1>2, <1>4 DEF Touching
  <2>2. WritesOf(v)' = {}
    BY <1>4 DEF WritesOf, Writing
  <2>3. Cardinality({}) = 0
    BY FS_EmptySet
  <2>4. ~ (Cardinality(Touching(v)') > 1) /\ ~ (Cardinality(WritesOf(v)') > 1)
    BY <2>1, <2>2, <2>3
  <2>5. WritesOf(v)' \ WritesOf(v) = {}
    BY <2>2
  <2>6. v \in contested' <=> v \in contested
    BY <2>4, <2>5 DEF Contest
  <2>7. refused' = refused
    BY DEF Crash
  <2> QED BY <2>6, <2>7 DEF Excused
<1>9. v \in Tees /\ Loadable(v) => Begun(v)
  BY TeeHasBegun DEF CacheInv
<1>10. v \notin Excused /\ Known(v) => Loadable(v)
  BY IndexedIsWhole DEF Known
<1>11. CASE v \in Excused
  <2>1. Life(v) = "disputed" /\ Life(v)' = "disputed"
    BY <1>8, <1>11 DEF Life
  <2> QED BY <2>1 DEF Clips!Killed
<1>12. CASE v \notin Excused
  <2>1. Life(v) = IF Known(v) THEN "kept" ELSE IF Making(v) THEN "none"
                  ELSE IF Loadable(v) THEN "leaving"
                  ELSE IF v \in Tees /\ Begun(v) THEN "gone" ELSE "none"
    BY <1>12 DEF Life
  <2>2. Life(v)' = IF Loadable(v) THEN "kept"
                   ELSE IF v \in Tees /\ Begun(v) THEN "gone" ELSE "none"
    BY <1>5, <1>6, <1>7, <1>8, <1>12 DEF Life
  <2>3. CASE Loadable(v)
    <3>1. Life(v) \in {"kept", "none", "leaving"} /\ Life(v)' = "kept"
      BY <2>1, <2>2, <2>3
    <3> QED BY <3>1 DEF Clips!Killed
  <2>4. CASE ~ Loadable(v) /\ v \in Tees /\ Begun(v)
    <3>1. Life(v) \in {"none", "gone"} /\ Life(v)' = "gone"
      BY <1>10, <1>12, <2>1, <2>2, <2>4
    <3> QED BY <2>4, <3>1 DEF Clips!Killed, Clips!Gone
  <2>5. CASE ~ Loadable(v) /\ ~ (v \in Tees /\ Begun(v))
    <3>1. Life(v) = "none" /\ Life(v)' = "none"
      BY <1>10, <1>12, <2>1, <2>2, <2>5
    <3> QED BY <3>1 DEF Clips!Killed
  <2> QED BY <2>3, <2>4, <2>5
<1> QED
  BY <1>11, <1>12

(* Every step is one of a gateway at work, or a kill.                      *)
LEMMA LifeStep ==
    ASSUME CacheInv, Next
    PROVE  \/ crashes' = crashes /\ \A v \in Ids : Clips!Working(v, Life(v), Life(v)')
           \/ crashes' = crashes + 1 /\ \A v \in Ids : Clips!Killed(v, Life(v), Life(v)')
<1>1. Step /\ Contest /\ Excused \subseteq Excused'
  BY Noted, RefusedStays DEF Next, Excused
<1>2. CASE Crash
  <2>1. crashes' = crashes + 1
    BY <1>2 DEF Crash
  <2> QED BY <1>1, <1>2, <2>1, LifeKilled
<1>3. CASE Load
  <2>1. crashes' = crashes
    BY <1>3 DEF Load
  <2> QED BY <1>1, <1>3, <2>1, LifeLoads
<1>4. CASE \/ \E w \in Writers, id \in Ids : Begin(w, id)
           \/ \E d \in Removers, id \in Ids : RemoveClip(d, id)
           \/ \E r \in Readers : ReadDone(r) \/ ReadFails(r) \/ \E id \in Ids : ReadStart(r, id)
           \/ WhenIdle
  <2>1. crashes' = crashes
    BY <1>4 DEF Begin, RemoveClip, ReadDone, ReadFails, ReadStart, WhenIdle
  <2>2. ASSUME NEW v \in Ids
        PROVE  Clips!Working(v, Life(v), Life(v)')
    <3>1. CASE v \in Excused
      BY <1>1, <3>1, DisputedStays
    <3>2. CASE v \notin Excused
      BY <1>1, <1>4, <3>2, MovedByRequest, LifeWorks
    <3> QED BY <3>1, <3>2
  <2> QED BY <2>1, <2>2
<1>5. ASSUME NEW t \in Tasks, TaskStep(t)
      PROVE  crashes' = crashes /\ \A v \in Ids : Clips!Working(v, Life(v), Life(v)')
  <2>1. crashes' = crashes
    BY <1>5 DEF TaskStep, UnlinkPcm, UnlinkSide, UnlinkFails, Removed, Evicted, Opened, Flush,
           DiskFails, BodyEnds, EndsUnseen, Abandon, BufferedBreaks, SidecarOpened, SidecarWritten, Stored
  <2>2. ASSUME NEW v \in Ids
        PROVE  Clips!Working(v, Life(v), Life(v)')
    <3>1. CASE v \in Excused
      BY <1>1, <3>1, DisputedStays
    <3>2. CASE v \notin Excused
      <4>1. CASE UnlinkPcm(t) \/ UnlinkSide(t) \/ UnlinkFails(t) \/ Removed(t) \/ Evicted(t)
        BY <1>1, <3>2, <4>1, MovedByRemoval, LifeWorks
      <4>2. CASE t \in Writers /\ Stored(t)
        BY <1>1, <3>2, <4>2, MovedByStored, LifeWorks
      <4>3. CASE /\ t \in Writers
                 /\ \/ Opened(t) \/ Flush(t) \/ DiskFails(t) \/ BodyEnds(t) \/ EndsUnseen(t)
                    \/ Abandon(t) \/ BufferedBreaks(t) \/ SidecarOpened(t) \/ SidecarWritten(t)
        BY <1>1, <3>2, <4>3, MovedByWriter, LifeWorks
      <4> QED BY <1>5, <4>1, <4>2, <4>3 DEF TaskStep
    <3> QED BY <3>1, <3>2
  <2> QED BY <2>1, <2>2
<1> QED
  BY <1>1, <1>2, <1>3, <1>4, <1>5 DEF Step

LEMMA LifeStages ==
    ASSUME NEW v \in Ids
    PROVE  /\ Life(v) \in {"none", "kept", "leaving", "gone", "disputed"}
           /\ Life(v)' \in {"none", "kept", "leaving", "gone", "disputed"}
  BY DEF Life

(* The cache implements the life of a clip (cache.ts): whatever is written, *)
(* deleted, evicted and read at once, and wherever the gateway is killed, a *)
(* clip that is kept is kept through the kill, leaves only to be gone, and  *)
(* never comes back under an id that was drawn once; unless two operations  *)
(* met on its id, or the disk refused something of it unseen.               *)
THEOREM CacheImplementsLife == Spec => Clips!LifeSpec
<1> DEFINE lives == [id \in Ids |-> Life(id)]
<1>0. Ids = Tees \cup Cues
  BY DEF Ids
<1>1. Init => CacheInv /\ Clips!LifeInit
  <2> SUFFICES ASSUME Init PROVE Clips!LifeInit
    BY CacheInit
  <2>1. ASSUME NEW v \in Ids
        PROVE  Life(v) = "none"
    <3>1. /\ up /\ records[v] = None /\ side[v] = None /\ Excused = {}
          /\ task = [t \in Tasks |-> NewTask(CHOOSE id \in Ids : TRUE)]
      BY DEF Init, Excused
    <3>2. \A w \in Writers : task[w].pc = "new"
      BY <3>1 DEF NewTask, Tasks
    <3>3. ~ Known(v) /\ ~ Loadable(v) /\ ~ Begun(v)
      BY <3>1, <3>2, MarksAssumption DEF Known, Loadable, Begun
    <3> QED BY <3>1, <3>3 DEF Life
  <2>2. crashes = 0
    BY DEF Init
  <2> QED BY <1>0, <2>1, <2>2 DEF Clips!LifeInit
<1>2. CacheInv /\ [Next]_vars => CacheInv' /\ [Clips!LifeNext]_<<lives, crashes>>
  <2> SUFFICES ASSUME CacheInv, [Next]_vars
               PROVE  CacheInv' /\ [Clips!LifeNext]_<<lives, crashes>>
    OBVIOUS
  <2>1. CacheInv'
    BY CacheStep, CacheStutter
  <2>2. CASE Next
    <3>1. \/ crashes' = crashes /\ \A v \in Ids : Clips!Working(v, Life(v), Life(v)')
          \/ crashes' = crashes + 1 /\ \A v \in Ids : Clips!Killed(v, Life(v), Life(v)')
      BY <2>2, LifeStep
    <3>2. \A v \in Ids : Life(v)' \in Clips!Stages
      BY LifeStages DEF Clips!Stages
    <3>3. \A v \in Ids : lives[v] = Life(v) /\ lives'[v] = Life(v)'
      OBVIOUS
    <3>4. Clips!LifeNext
      BY <1>0, <3>1, <3>2, <3>3 DEF Clips!LifeNext
    <3> QED BY <2>1, <3>4
  <2>3. CASE UNCHANGED vars
    <3>1. \A v \in Ids : Life(v)' = Life(v)
      BY <2>3 DEF vars, Life, Excused, Known, Loadable, Size, Making, Begun
    <3>2. crashes' = crashes
      BY <2>3 DEF vars
    <3> QED BY <2>1, <3>1, <3>2
  <2> QED BY <2>2, <2>3
<1> QED
  BY <1>1, <1>2, PTL DEF Spec, Clips!LifeSpec
=============================================================================
