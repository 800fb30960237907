-------------------------- MODULE ScriptRunProofs --------------------------
(***************************************************************************)
(* Proofs about ScriptRun for any number of runs, edits, cues and texts.   *)
(***************************************************************************)
EXTENDS ScriptRun, SequenceTheorems, TLAPS

(* Re-deriving a cue keeps its text and override, and names what it says.  *)
LEMMA MaterializeFields ==
    ASSUME NEW d \in VoiceOrNone, NEW q \in CueRec
    PROVE  /\ Materialize(d, q) \in CueRec
           /\ Materialize(d, q).id = q.id
           /\ Materialize(d, q).text = q.text
           /\ Materialize(d, q).over = q.over
           /\ Materialize(d, q).state = q.state
           /\ Materialize(d, q).voice = EffectiveVoice(d, q)
           /\ Materialize(d, q).clip = ClipIdFor(Materialize(d, q))
<1>1. EffectiveVoice(d, q) \in VoiceOrNone
  BY DEF EffectiveVoice, CueRec
<1>. QED
  BY <1>1 DEF Materialize, ClipIdFor, CueRec, Key

(* The refresh only decides a state and whether the timing is known.       *)
LEMMA RefreshedFields ==
    ASSUME NEW q \in CueRec, dflt \in VoiceOrNone
    PROVE  /\ Refreshed(q) \in CueRec
           /\ Refreshed(q).id = q.id
           /\ Refreshed(q).text = q.text
           /\ Refreshed(q).over = q.over
           /\ Refreshed(q).voice = EffectiveVoice(dflt, q)
           /\ Refreshed(q).clip = ClipIdFor(Refreshed(q))
<1> DEFINE m == Materialize(dflt, q)
<1>1. /\ m \in CueRec /\ m.id = q.id /\ m.text = q.text /\ m.over = q.over
      /\ m.voice = EffectiveVoice(dflt, q)
      /\ m.clip = ClipIdFor(m)
  BY MaterializeFields
<1>2. \/ Refreshed(q) = [m EXCEPT !.state = "unrunnable"]
      \/ Refreshed(q) = [m EXCEPT !.state = "done", !.timed = TRUE]
      \/ \E s \in {"failed", "stale", "queued"} :
            Refreshed(q) = [m EXCEPT !.timed = FALSE, !.state = s]
  BY DEF Refreshed
<1> HIDE DEF m
<1>. QED
  BY <1>1, <1>2, ZenonT(60) DEF CueRec, CueState, ClipIdFor

LEMMA NoKeyType == NoKey \in Key /\ FirstText[1] \in Texts
<1>1. 1 \in 1..Size
  BY ScriptRunAssumption
<1>. QED
  BY <1>1, ScriptRunAssumption DEF NoKey, Key, VoiceOrNone

LEMMA ListedType == ASSUME TypeOK, NEW i \in 1..Len(list)
                    PROVE  list[i] \in Objs /\ Listed(list[i])
BY DEF TypeOK, Listed

LEMMA CurrentType == ASSUME TypeOK, NEW r \in Runs, run[r].todo # <<>>
                     PROVE  /\ Current(r) \in Objs
                            /\ Tail(run[r].todo) \in Seq(Objs)
                            /\ Len(Tail(run[r].todo)) + 1 = Len(run[r].todo)
<1>1. run[r].todo \in Seq(Objs)
  BY DEF TypeOK, RunRec
<1>. QED
  BY <1>1, HeadTailProperties DEF Current

(* Migration and refresh keep every input, and re-derive the clip id.      *)
SameInputs(old, new) ==
    /\ new.id = old.id /\ new.text = old.text
    /\ new.over = old.over /\ new.voice = old.voice
    /\ new.clip = old.clip \/ new.clip = ClipIdFor(new)

LEMMA MigratedFacts ==
    ASSUME TypeOK, ListedCuesCurrent
    PROVE  /\ Migrated \in [Objs -> CueRec]
           /\ \A o \in Objs : SameInputs(cue[o], Migrated[o])
<1>1. ASSUME NEW o \in Objs
      PROVE  Migrated[o] \in CueRec /\ SameInputs(cue[o], Migrated[o])
  <2>1. cue[o] \in CueRec /\ dflt \in VoiceOrNone
    BY DEF TypeOK
  <2>2. CASE Listed(o)
    <3>1. Migrated[o] = Materialize(dflt, cue[o])
      BY <2>2 DEF Migrated
    <3>2. cue[o].voice = EffectiveVoice(dflt, cue[o])
      BY <2>2 DEF Listed, ListedCuesCurrent
    <3>. QED
      BY <2>1, <3>1, <3>2, MaterializeFields DEF SameInputs
  <2>3. CASE ~ Listed(o)
    BY <2>1, <2>3 DEF Migrated, SameInputs
  <2>. QED
    BY <2>2, <2>3
<1>. QED
  BY <1>1 DEF Migrated

LEMMA RefreshedFacts ==
    ASSUME TypeOK, ListedCuesCurrent
    PROVE  /\ RefreshedCues \in [Objs -> CueRec]
           /\ \A o \in Objs : SameInputs(cue[o], RefreshedCues[o])
<1>1. ASSUME NEW o \in Objs
      PROVE  RefreshedCues[o] \in CueRec /\ SameInputs(cue[o], RefreshedCues[o])
  <2>1. cue[o] \in CueRec /\ dflt \in VoiceOrNone
    BY DEF TypeOK
  <2>2. CASE Listed(o)
    <3>1. RefreshedCues[o] = Refreshed(cue[o])
      BY <2>2 DEF RefreshedCues
    <3>2. cue[o].voice = EffectiveVoice(dflt, cue[o])
      BY <2>2 DEF Listed, ListedCuesCurrent
    <3>. QED
      BY <2>1, <3>1, <3>2, RefreshedFields DEF SameInputs
  <2>3. CASE ~ Listed(o)
    BY <2>1, <2>3 DEF RefreshedCues, SameInputs
  <2>. QED
    BY <2>2, <2>3
<1>. QED
  BY <1>1 DEF RefreshedCues

(* What is left of a run when it moves on to its next cue.                 *)
LEMMA NextCueFacts ==
    ASSUME TypeOK, NEW r \in Runs, run[r].todo # <<>>, NextCue(r)
    PROVE  /\ run' \in [Runs -> RunRec]
           /\ run'[r].pc = "visit"
           /\ \A s \in Runs \ {r} : run'[s] = run[s]
           /\ Len(run'[r].todo) + 1 = Len(run[r].todo)
<1>1. run \in [Runs -> RunRec] /\ run[r] \in RunRec
  BY DEF TypeOK
<1>2. run'[r] = [pc |-> "visit", todo |-> Tail(run[r].todo), refs |-> run[r].refs,
                 voice |-> NoVoice, spoken |-> FirstText[1], key |-> NoKey,
                 raced |-> FALSE]
  BY <1>1 DEF NextCue
<1>3. run' = [run EXCEPT ![r] = run'[r]]
  BY <1>1, <1>2 DEF NextCue
<1>4. Tail(run[r].todo) \in Seq(Objs) /\ Len(Tail(run[r].todo)) + 1 = Len(run[r].todo)
  BY CurrentType
<1>5. run'[r] \in RunRec
  BY <1>1, <1>2, <1>4, NoKeyType DEF RunRec, VoiceOrNone
<1>6. run' \in [Runs -> RunRec] /\ \A s \in Runs \ {r} : run'[s] = run[s]
  BY <1>1, <1>3, <1>5
<1>7. /\ run'[r].pc = "visit"
      /\ run'[r].todo = Tail(run[r].todo)
  BY <1>2
<1>. QED
  BY <1>4, <1>6, <1>7

-----------------------------------------------------------------------------
(* The two invariants of a run, as predicates of one run and its cue.      *)
InputsKept(q, u) ==
    u.pc \in InFlight /\ ~ u.raced =>
        /\ q.voice = u.voice
        /\ q.clip = ClipIdFor(q)
        /\ u.pc # "voice" => u.spoken = q.text

FiledRight(u) ==
    u.pc = "put" /\ ~ u.raced => u.key = [text |-> u.spoken, voice |-> u.voice]

RunOK(q, u) ==
    /\ u.pc \in InFlight => u.todo # <<>>
    /\ InputsKept(q, u)
    /\ FiledRight(u)

LEMMA IInvByRun ==
    IInv <=> /\ TypeOK /\ ListedCuesCurrent
             /\ \A r \in Runs : RunOK(cue[Head(run[r].todo)], run[r])
BY DEF IInv, AwaitingHasCue, UnracedInputsKept, UnracedClipIsRight, RunOK,
       InputsKept, FiledRight, Spoken, Current

LEMMA IInvByRunPrime ==
    IInv' <=> /\ TypeOK' /\ ListedCuesCurrent'
              /\ \A r \in Runs : RunOK(cue'[Head(run'[r].todo)], run'[r])
BY DEF IInv, AwaitingHasCue, UnracedInputsKept, UnracedClipIsRight, RunOK,
       InputsKept, FiledRight, Spoken, Current

(* A step that keeps the inputs of every cue keeps them under every run.   *)
HeapKept ==
    /\ cue' \in [Objs -> CueRec]
    /\ \A o \in Objs : SameInputs(cue[o], cue'[o])

LEMMA HeapKeptFacts ==
    ASSUME IInv, HeapKept, UNCHANGED <<list, dflt>>
    PROVE  /\ ListedCuesCurrent'
           /\ \A r \in Runs : RunOK(cue'[Head(run[r].todo)], run[r])
<1>1. TypeOK /\ ListedCuesCurrent
  BY DEF IInv
<1>2. ListedCuesCurrent'
  BY <1>1, ListedType DEF HeapKept, SameInputs, ListedCuesCurrent, EffectiveVoice
<1>3. ASSUME NEW r \in Runs
      PROVE  RunOK(cue'[Head(run[r].todo)], run[r])
  <2>1. RunOK(cue[Head(run[r].todo)], run[r])
    BY IInvByRun
  <2>2. CASE run[r].pc \in InFlight
    <3>1. Head(run[r].todo) \in Objs
      BY <1>1, <2>1, <2>2, CurrentType DEF RunOK, Current
    <3>2. SameInputs(cue[Head(run[r].todo)], cue'[Head(run[r].todo)])
      BY <3>1 DEF HeapKept
    <3>. QED
      BY <2>1, <3>2 DEF RunOK, InputsKept, SameInputs, ClipIdFor
  <2>3. CASE run[r].pc \notin InFlight
    BY <2>1, <2>3 DEF RunOK, InputsKept, FiledRight, InFlight
  <2>. QED
    BY <2>2, <2>3
<1>. QED
  BY <1>2, <1>3

(* A step of run r that keeps the inputs of every cue.                     *)
LEMMA RunMoves ==
    ASSUME IInv, HeapKept, TypeOK', UNCHANGED <<list, dflt>>, NEW r \in Runs,
           \A s \in Runs \ {r} : run'[s] = run[s],
           RunOK(cue'[Head(run'[r].todo)], run'[r])
    PROVE  IInv'
<1>1. \A s \in Runs : RunOK(cue'[Head(run'[s].todo)], run'[s])
  BY HeapKeptFacts
<1>. QED
  BY <1>1, HeapKeptFacts, IInvByRunPrime

LEMMA MovesOn ==
    ASSUME IInv, HeapKept, TypeOK', UNCHANGED <<list, dflt>>, NEW r \in Runs,
           run[r].todo # <<>>, NextCue(r)
    PROVE  IInv'
<1>1. TypeOK
  BY DEF IInv
<1>2. run'[r].pc = "visit" /\ \A s \in Runs \ {r} : run'[s] = run[s]
  BY <1>1, NextCueFacts
<1>3. RunOK(cue'[Head(run'[r].todo)], run'[r])
  BY <1>2 DEF RunOK, InputsKept, FiledRight, InFlight
<1>. QED
  BY <1>2, <1>3, RunMoves

(* A step that touches no run. *)
LEMMA RunsStay ==
    ASSUME IInv, HeapKept, TypeOK', UNCHANGED <<list, dflt, run>>
    PROVE  IInv'
BY HeapKeptFacts, IInvByRunPrime

LEMMA SameHeap ==
    ASSUME TypeOK, UNCHANGED cue
    PROVE  HeapKept
BY DEF TypeOK, HeapKept, SameInputs

(* The state of one cue changes, and perhaps its clip id is re-derived.    *)
LEMMA MarkHeap ==
    ASSUME TypeOK, NEW o \in Objs, NEW q \in CueRec, SameInputs(cue[o], q),
           cue' = [cue EXCEPT ![o] = q]
    PROVE  HeapKept
BY DEF TypeOK, HeapKept, SameInputs

LEMMA KeyedFacts ==
    ASSUME TypeOK, NEW o \in Objs, NEW s \in CueState, NEW t \in BOOLEAN
    PROVE  /\ [Keyed(o) EXCEPT !.state = s] \in CueRec
           /\ SameInputs(cue[o], [Keyed(o) EXCEPT !.state = s])
           /\ [Keyed(o) EXCEPT !.state = s, !.timed = t] \in CueRec
           /\ SameInputs(cue[o], [Keyed(o) EXCEPT !.state = s, !.timed = t])
           /\ [Keyed(o) EXCEPT !.state = s].clip = ClipIdFor(cue[o])
<1>1. cue[o] \in CueRec
  BY DEF TypeOK
<1>2. /\ Keyed(o) \in CueRec /\ SameInputs(cue[o], Keyed(o))
      /\ Keyed(o).clip = ClipIdFor(cue[o])
  BY <1>1 DEF Keyed, CueRec, Key, ClipIdFor, SameInputs
<1> DEFINE k == Keyed(o)
<1> HIDE DEF k
<1>3. /\ k \in CueRec /\ SameInputs(cue[o], k) /\ k.clip = ClipIdFor(cue[o])
  BY <1>2 DEF k
<1>4. /\ [k EXCEPT !.state = s] \in CueRec
      /\ SameInputs(cue[o], [k EXCEPT !.state = s])
      /\ [k EXCEPT !.state = s, !.timed = t] \in CueRec
      /\ SameInputs(cue[o], [k EXCEPT !.state = s, !.timed = t])
      /\ [k EXCEPT !.state = s].clip = ClipIdFor(cue[o])
  BY <1>3 DEF CueRec, SameInputs, ClipIdFor
<1>. QED
  BY <1>4 DEF k

-----------------------------------------------------------------------------
(* Only one run moves. *)
LEMMA SetRun ==
    ASSUME TypeOK, NEW r \in Runs, NEW u \in RunRec, run' = [run EXCEPT ![r] = u]
    PROVE  /\ run' \in [Runs -> RunRec]
           /\ run'[r] = u
           /\ \A s \in Runs \ {r} : run'[s] = run[s]
BY DEF TypeOK

LEMMA StartRunStep ==
    ASSUME IInv, NEW r \in Runs, StartRun(r)
    PROVE  IInv'
<1>1. TypeOK /\ ListedCuesCurrent
  BY DEF IInv
<1>2. HeapKept
  BY <1>1, MigratedFacts DEF StartRun, HeapKept
<1>3. /\ run' \in [Runs -> RunRec]
      /\ run'[r].pc = "visit"
      /\ \A s \in Runs \ {r} : run'[s] = run[s]
  <2> DEFINE u == [run[r] EXCEPT !.pc = "visit", !.todo = list, !.refs = VoiceReferences]
  <2>1. run[r] \in RunRec /\ list \in Seq(Objs)
        /\ VoiceReferences \in SUBSET Voices
    BY <1>1 DEF TypeOK, VoiceReferences
  <2>2. u \in RunRec /\ u.pc = "visit"
    BY <2>1 DEF RunRec
  <2>3. run' = [run EXCEPT ![r] = u]
    BY DEF StartRun
  <2>. QED
    BY <1>1, <2>2, <2>3, SetRun
<1>4. TypeOK' /\ UNCHANGED <<list, dflt>>
  BY <1>1, <1>2, <1>3 DEF StartRun, TypeOK, HeapKept, script
<1>5. RunOK(cue'[Head(run'[r].todo)], run'[r])
  BY <1>3 DEF RunOK, InputsKept, FiledRight, InFlight
<1>. QED
  BY <1>2, <1>3, <1>4, <1>5, RunMoves

LEMMA VisitUnrunnableStep ==
    ASSUME IInv, NEW r \in Runs, VisitUnrunnable(r)
    PROVE  IInv'
<1>1. TypeOK /\ run[r].todo # <<>> /\ Current(r) \in Objs
  BY CurrentType DEF IInv, VisitUnrunnable, Visiting, Generates
<1>2. HeapKept
  <2>1. cue' = [cue EXCEPT ![Current(r)] = [Keyed(Current(r)) EXCEPT !.state = "unrunnable"]]
    BY DEF VisitUnrunnable
  <2>. QED
    BY <1>1, <2>1, KeyedFacts, MarkHeap, ZenonT(60) DEF CueState
<1>3. NextCue(r) /\ UNCHANGED <<exists, list, dflt, clips, library, edit, holder>>
  BY DEF VisitUnrunnable, script
<1>4. TypeOK'
  BY <1>1, <1>2, <1>3, NextCueFacts DEF TypeOK, HeapKept
<1>. QED
  BY <1>1, <1>2, <1>3, <1>4, MovesOn

LEMMA VisitCachedStep ==
    ASSUME IInv, NEW r \in Runs, VisitCached(r)
    PROVE  IInv'
<1>1. TypeOK /\ run[r].todo # <<>> /\ Current(r) \in Objs
  BY CurrentType DEF IInv, VisitCached, Visiting, Generates
<1>2. HeapKept
  <2>1. cue' = [cue EXCEPT ![Current(r)] = [Keyed(Current(r)) EXCEPT !.state = "done", !.timed = TRUE]]
    BY DEF VisitCached
  <2>. QED
    BY <1>1, <2>1, KeyedFacts, MarkHeap, ZenonT(60) DEF CueState
<1>3. NextCue(r) /\ UNCHANGED <<exists, list, dflt, clips, library, edit, holder>>
  BY DEF VisitCached, script
<1>4. TypeOK'
  BY <1>1, <1>2, <1>3, NextCueFacts DEF TypeOK, HeapKept
<1>. QED
  BY <1>1, <1>2, <1>3, <1>4, MovesOn

LEMMA VisitVoiceGoneStep ==
    ASSUME IInv, NEW r \in Runs, VisitVoiceGone(r)
    PROVE  IInv'
<1>1. TypeOK /\ run[r].todo # <<>> /\ Current(r) \in Objs
  BY CurrentType DEF IInv, VisitVoiceGone, Visiting, Generates
<1>2. HeapKept
  <2>1. cue' = [cue EXCEPT ![Current(r)] = [Keyed(Current(r)) EXCEPT !.state = "failed"]]
    BY DEF VisitVoiceGone
  <2>. QED
    BY <1>1, <2>1, KeyedFacts, MarkHeap, ZenonT(60) DEF CueState
<1>3. NextCue(r) /\ UNCHANGED <<exists, list, dflt, clips, library, edit, holder>>
  BY DEF VisitVoiceGone, script
<1>4. TypeOK'
  BY <1>1, <1>2, <1>3, NextCueFacts DEF TypeOK, HeapKept
<1>. QED
  BY <1>1, <1>2, <1>3, <1>4, MovesOn

(* FailCue with the lock in any state is the end of every way a cue fails. *)
LEMMA FailCueStep ==
    ASSUME IInv, NEW r \in Runs, run[r].todo # <<>>, FailCue(r),
           UNCHANGED <<exists, list, dflt, clips, library, edit>>,
           holder' \in Runs \cup {Console, Abandoned, NoOne}
    PROVE  IInv'
<1>1. TypeOK /\ Current(r) \in Objs
  BY CurrentType DEF IInv
<1>2. HeapKept
  <2>1. cue[Current(r)] \in CueRec
    BY <1>1 DEF TypeOK
  <2>2. cue' = [cue EXCEPT ![Current(r)] = [cue[Current(r)] EXCEPT !.state = "failed"]]
    BY DEF FailCue
  <2>3. /\ [cue[Current(r)] EXCEPT !.state = "failed"] \in CueRec
        /\ SameInputs(cue[Current(r)], [cue[Current(r)] EXCEPT !.state = "failed"])
    BY <2>1 DEF CueRec, CueState, SameInputs
  <2>. QED
    BY <1>1, <2>2, <2>3, MarkHeap
<1>3. NextCue(r)
  BY DEF FailCue
<1>4. TypeOK'
  BY <1>1, <1>2, <1>3, NextCueFacts DEF TypeOK, HeapKept
<1>. QED
  BY <1>1, <1>2, <1>3, <1>4, MovesOn

LEMMA InFlightHasCue ==
    ASSUME IInv, NEW r \in Runs, run[r].pc \in InFlight
    PROVE  run[r].todo # <<>> /\ Current(r) \in Objs
BY CurrentType DEF IInv, AwaitingHasCue

LEMMA FailuresStep ==
    ASSUME IInv, NEW r \in Runs,
           \/ VoiceFails(r) \/ RefusedBusy(r) \/ Unavailable(r)
           \/ TimedOut(r) \/ BodyFails(r)
    PROVE  IInv'
<1>1. run[r].todo # <<>>
  BY InFlightHasCue
     DEF VoiceFails, RefusedBusy, Unavailable, TimedOut, BodyFails, InFlight
<1>2. /\ FailCue(r)
      /\ UNCHANGED <<exists, list, dflt, clips, library, edit>>
  BY DEF VoiceFails, RefusedBusy, Unavailable, TimedOut, BodyFails, script
<1>3. holder' \in {holder, Abandoned, NoOne} /\ TypeOK
  BY DEF VoiceFails, RefusedBusy, Unavailable, TimedOut, BodyFails, IInv
<1>. QED
  BY <1>1, <1>2, <1>3, FailCueStep DEF TypeOK

LEMMA VisitGenerateStep ==
    ASSUME IInv, NEW r \in Runs, VisitGenerate(r)
    PROVE  IInv'
<1> DEFINE o == Current(r)
<1> DEFINE v == EffectiveVoice(dflt, cue[o])
<1> DEFINE q == [Keyed(o) EXCEPT !.state = "generating"]
<1>1. TypeOK /\ run[r].todo # <<>> /\ o \in Objs /\ Head(run[r].todo) = o
  BY CurrentType DEF IInv, VisitGenerate, Visiting, Generates, Current
<1>2. /\ cue' = [cue EXCEPT ![o] = q]
      /\ q \in CueRec /\ SameInputs(cue[o], q) /\ q.clip = ClipIdFor(cue[o])
  BY <1>1, KeyedFacts, ZenonT(60) DEF VisitGenerate, CueState
<1>3. HeapKept
  BY <1>1, <1>2, MarkHeap
<1> DEFINE u == [run[r] EXCEPT !.pc = IF v = NoVoice THEN "speech" ELSE "voice",
                               !.voice = v, !.spoken = cue[o].text,
                               !.raced = v # cue[o].voice]
<1>4. /\ run' = [run EXCEPT ![r] = u]
      /\ UNCHANGED <<exists, list, dflt, clips, library, edit, holder>>
  BY DEF VisitGenerate, script
<1>5. cue[o] \in CueRec /\ v \in VoiceOrNone
  BY <1>1 DEF TypeOK, EffectiveVoice, CueRec
<1>6. /\ run' \in [Runs -> RunRec]
      /\ \A s \in Runs \ {r} : run'[s] = run[s]
      /\ run'[r].pc \in {"speech", "voice"} /\ run'[r].todo = run[r].todo
      /\ run'[r].voice = v /\ run'[r].spoken = cue[o].text
      /\ run'[r].raced = (v # cue[o].voice)
  <2>1. run[r] \in RunRec /\ cue[o].text \in Texts /\ (v # cue[o].voice) \in BOOLEAN
    BY <1>1, <1>5 DEF TypeOK, CueRec
  <2>2. /\ u \in RunRec /\ u.pc \in {"speech", "voice"} /\ u.todo = run[r].todo
        /\ u.voice = v /\ u.spoken = cue[o].text /\ u.raced = (v # cue[o].voice)
    <3> HIDE DEF v, q, o
    <3>. QED
      BY <2>1, <1>5 DEF RunRec, u
  <2> HIDE DEF u
  <2>. QED
    BY <1>1, <1>4, <2>2, SetRun
<1>7. TypeOK'
  BY <1>1, <1>3, <1>4, <1>6 DEF TypeOK, HeapKept
<1>8. cue'[o] = q
  BY <1>1, <1>2 DEF TypeOK
<1>9. RunOK(cue'[Head(run'[r].todo)], run'[r])
  <2> HIDE DEF v, q, o
  <2>. QED
    BY <1>1, <1>2, <1>5, <1>6, <1>8, ZenonT(60)
       DEF RunOK, InputsKept, FiledRight, InFlight, SameInputs, ClipIdFor
<1>. QED
  BY <1>3, <1>4, <1>6, <1>7, <1>9, RunMoves

(* A step of one run that leaves the heap alone. *)
LEMMA RunAlone ==
    ASSUME IInv, NEW r \in Runs, NEW u \in RunRec, run' = [run EXCEPT ![r] = u],
           UNCHANGED <<exists, list, dflt, cue, clips, library, edit>>,
           holder' \in Runs \cup {Console, Abandoned, NoOne},
           RunOK(cue[Head(u.todo)], u)
    PROVE  IInv'
<1>1. TypeOK
  BY DEF IInv
<1>2. HeapKept
  BY <1>1, SameHeap
<1>3. /\ run' \in [Runs -> RunRec] /\ run'[r] = u
      /\ \A s \in Runs \ {r} : run'[s] = run[s]
  BY <1>1, SetRun
<1>4. TypeOK'
  BY <1>1, <1>3 DEF TypeOK
<1>. QED
  BY <1>2, <1>3, <1>4, RunMoves

LEMMA RunInv == ASSUME IInv, NEW r \in Runs
                PROVE  run[r] \in RunRec /\ RunOK(cue[Head(run[r].todo)], run[r])
BY IInvByRun DEF TypeOK

LEMMA VoiceReadyStep ==
    ASSUME IInv, NEW r \in Runs, VoiceReady(r)
    PROVE  IInv'
<1> DEFINE u == [run[r] EXCEPT !.pc = "speech", !.spoken = cue[Current(r)].text]
<1>1. run[r] \in RunRec /\ RunOK(cue[Head(run[r].todo)], run[r]) /\ run[r].pc = "voice"
  BY RunInv DEF VoiceReady
<1>2. Current(r) \in Objs /\ Current(r) = Head(run[r].todo)
  BY <1>1, InFlightHasCue DEF InFlight, Current
<1>3. cue[Current(r)].text \in Texts
  BY <1>2 DEF IInv, TypeOK, CueRec
<1>4. u \in RunRec
  BY <1>1, <1>3 DEF RunRec
<1>5. RunOK(cue[Head(u.todo)], u)
  BY <1>1, <1>2 DEF RunRec, RunOK, InputsKept, FiledRight, InFlight
<1>6. /\ run' = [run EXCEPT ![r] = u]
      /\ UNCHANGED <<exists, list, dflt, cue, clips, library, edit, holder>>
  BY DEF VoiceReady, script
<1>7. holder' \in Runs \cup {Console, Abandoned, NoOne}
  BY <1>6 DEF IInv, TypeOK
<1>. QED
  BY <1>4, <1>5, <1>6, <1>7, RunAlone

LEMMA AcceptedStep ==
    ASSUME IInv, NEW r \in Runs, Accepted(r)
    PROVE  IInv'
<1> DEFINE u == [run[r] EXCEPT !.pc = "body"]
<1>1. run[r] \in RunRec /\ RunOK(cue[Head(run[r].todo)], run[r]) /\ run[r].pc = "speech"
  BY RunInv DEF Accepted
<1>2. u \in RunRec
  BY <1>1 DEF RunRec
<1>3. RunOK(cue[Head(u.todo)], u)
  BY <1>1 DEF RunRec, RunOK, InputsKept, FiledRight, InFlight
<1>4. /\ run' = [run EXCEPT ![r] = u]
      /\ UNCHANGED <<exists, list, dflt, cue, clips, library, edit>>
      /\ holder' = r
  BY DEF Accepted, script
<1>. QED
  BY <1>2, <1>3, <1>4, RunAlone

(* The clip id read here is the one the unraced cue has kept all along.    *)
LEMMA BodyDoneStep ==
    ASSUME IInv, NEW r \in Runs, BodyDone(r)
    PROVE  IInv'
<1> DEFINE u == [run[r] EXCEPT !.pc = "put", !.key = cue[Current(r)].clip]
<1>1. run[r] \in RunRec /\ RunOK(cue[Head(run[r].todo)], run[r]) /\ run[r].pc = "body"
  BY RunInv DEF BodyDone
<1>2. Current(r) \in Objs /\ Current(r) = Head(run[r].todo)
  BY <1>1, InFlightHasCue DEF InFlight, Current
<1>3. cue[Current(r)].clip \in Key
  BY <1>2 DEF IInv, TypeOK, CueRec
<1>4. u \in RunRec
  BY <1>1, <1>3 DEF RunRec
<1>5. RunOK(cue[Head(u.todo)], u)
  BY <1>1, <1>2 DEF RunRec, RunOK, InputsKept, FiledRight, InFlight, ClipIdFor
<1>6. /\ run' = [run EXCEPT ![r] = u]
      /\ UNCHANGED <<exists, list, dflt, cue, clips, library, edit>>
      /\ holder' = NoOne
  BY DEF BodyDone, script
<1>. QED
  BY <1>4, <1>5, <1>6, RunAlone

LEMMA PutDoneStep ==
    ASSUME IInv, NEW r \in Runs, PutDone(r)
    PROVE  IInv'
<1>1. TypeOK /\ run[r].todo # <<>> /\ Current(r) \in Objs
  BY InFlightHasCue DEF IInv, PutDone, InFlight
<1>2. HeapKept
  <2> DEFINE q == [cue[Current(r)] EXCEPT !.state = "done", !.timed = TRUE]
  <2>1. cue[Current(r)] \in CueRec
    BY <1>1 DEF TypeOK
  <2>2. cue' = [cue EXCEPT ![Current(r)] = q]
    BY DEF PutDone
  <2>3. q \in CueRec /\ SameInputs(cue[Current(r)], q)
    BY <2>1 DEF CueRec, CueState, SameInputs
  <2> HIDE DEF q
  <2>. QED
    BY <1>1, <2>2, <2>3, MarkHeap
<1>3. NextCue(r) /\ UNCHANGED <<exists, list, dflt, library, edit, holder>>
  BY DEF PutDone, script
<1>4. clips' \in [Key -> Content]
  <2>1. CASE UNCHANGED clips
    BY <1>1, <2>1 DEF TypeOK
  <2>2. CASE \E evicted \in SUBSET {k \in Key \ {run[r].key} : Cached(k)} : Store(r, evicted)
    BY <1>1, <2>2 DEF Store, TypeOK, Content
  <2>. QED
    BY <2>1, <2>2 DEF PutDone
<1>5. TypeOK'
  BY <1>1, <1>2, <1>3, <1>4, NextCueFacts DEF TypeOK, HeapKept
<1>. QED
  BY <1>1, <1>2, <1>3, <1>5, MovesOn

LEMMA FinishRunStep ==
    ASSUME IInv, NEW r \in Runs, FinishRun(r)
    PROVE  IInv'
<1> DEFINE u == [run[r] EXCEPT !.pc = "save"]
<1>1. TypeOK /\ ListedCuesCurrent /\ run[r] \in RunRec
  BY RunInv DEF IInv
<1>2. HeapKept
  BY <1>1, MigratedFacts DEF FinishRun, HeapKept
<1>3. u \in RunRec /\ u.pc = "save"
  BY <1>1 DEF RunRec
<1>4. run' = [run EXCEPT ![r] = u]
  BY DEF FinishRun
<1>5. run' \in [Runs -> RunRec] /\ run'[r].pc = "save"
      /\ \A s \in Runs \ {r} : run'[s] = run[s]
  <2> HIDE DEF u
  <2>. QED
    BY <1>1, <1>3, <1>4, SetRun
<1>6. TypeOK' /\ UNCHANGED <<list, dflt>>
  BY <1>1, <1>2, <1>5 DEF FinishRun, TypeOK, HeapKept
<1>7. RunOK(cue'[Head(run'[r].todo)], run'[r])
  BY <1>5 DEF RunOK, InputsKept, FiledRight, InFlight
<1>. QED
  BY <1>2, <1>5, <1>6, <1>7, RunMoves

LEMMA SaveDoneStep ==
    ASSUME IInv, NEW r \in Runs, SaveDone(r)
    PROVE  IInv'
<1> DEFINE u == [run[r] EXCEPT !.pc = "idle", !.refs = {}]
<1>1. run[r] \in RunRec
  BY RunInv
<1>2. u \in RunRec /\ u.pc = "idle"
  BY <1>1 DEF RunRec
<1>3. RunOK(cue[Head(u.todo)], u)
  BY <1>2 DEF RunOK, InputsKept, FiledRight, InFlight
<1>4. /\ run' = [run EXCEPT ![r] = u]
      /\ UNCHANGED <<exists, list, dflt, cue, clips, library, edit, holder>>
  BY DEF SaveDone, script
<1>5. holder' \in Runs \cup {Console, Abandoned, NoOne}
  BY <1>4 DEF IInv, TypeOK
<1>. QED
  BY <1>2, <1>3, <1>4, <1>5, RunAlone

-----------------------------------------------------------------------------
(* An edit may change what some cues say, if it races the runs on them.    *)
SameSpeech(old, new) ==
    old.clip = ClipIdFor(old) =>
        new.clip = ClipIdFor(new) /\ new.text = old.text /\ new.voice = old.voice

LEMMA RacedByFacts ==
    ASSUME TypeOK, NEW changed, run' = RacedBy(changed)
    PROVE  /\ run' \in [Runs -> RunRec]
           /\ \A r \in Runs :
                \/ run'[r] = run[r] /\ (run[r].pc \in InFlight => Current(r) \notin changed)
                \/ run'[r] = [run[r] EXCEPT !.raced = TRUE]
<1>1. ASSUME NEW r \in Runs
      PROVE  run[r] \in RunRec /\ [run[r] EXCEPT !.raced = TRUE] \in RunRec
  BY ZenonT(60) DEF TypeOK, RunRec
<1>. QED
  BY <1>1 DEF RacedBy

LEMMA EditMoves ==
    ASSUME IInv, TypeOK', ListedCuesCurrent', NEW changed, run' = RacedBy(changed),
           \A r \in Runs : run[r].pc \in InFlight =>
              \/ Current(r) \in changed
              \/ SameSpeech(cue[Current(r)], cue'[Current(r)])
    PROVE  IInv'
<1>1. ASSUME NEW r \in Runs
      PROVE  RunOK(cue'[Head(run'[r].todo)], run'[r])
  <2>1. run[r] \in RunRec /\ RunOK(cue[Head(run[r].todo)], run[r])
    BY RunInv
  <2>2. CASE run'[r] = run[r] /\ (run[r].pc \in InFlight => Current(r) \notin changed)
    BY <2>1, <2>2 DEF RunOK, InputsKept, FiledRight, SameSpeech, InFlight, Current
  <2>3. CASE run'[r] = [run[r] EXCEPT !.raced = TRUE]
    BY <2>1, <2>3 DEF RunOK, InputsKept, FiledRight, RunRec
  <2>. QED
    BY <2>2, <2>3, RacedByFacts DEF IInv
<1>. QED
  BY <1>1, IInvByRunPrime
LEMMA PatchCueStep ==
    ASSUME IInv, NEW e \in Edits, NEW id \in CueIds, NEW text \in Texts,
           NEW over \in VoiceOrNone, PatchCue(e, id, text, over)
    PROVE  IInv'
<1>1. TypeOK /\ ListedCuesCurrent
  BY DEF IInv
<1>2. PICK i \in First(id) :
        LET o   == list[i]
            old == Materialize(dflt, cue[o])
            new == Materialize(dflt, [old EXCEPT !.text = text, !.over = over])
        IN  /\ cue' = [Migrated EXCEPT ![o] = Patched(old, new)]
            /\ run' = RacedBy(IF new.clip # cue[o].clip THEN {o} ELSE {})
  BY ZenonT(60) DEF PatchCue
<1> DEFINE o == list[i]
<1> DEFINE old == Materialize(dflt, cue[o])
<1> DEFINE mid == [old EXCEPT !.text = text, !.over = over]
<1> DEFINE new == Materialize(dflt, mid)
<1> DEFINE q == Patched(old, new)
<1> DEFINE changed == IF new.clip # cue[o].clip THEN {o} ELSE {}
<1>3. cue' = [Migrated EXCEPT ![o] = q] /\ run' = RacedBy(changed)
  BY <1>2
<1>4. i \in 1..Len(list) /\ o \in Objs /\ Listed(o)
  BY <1>1, ListedType DEF First
<1>5. cue[o] \in CueRec /\ dflt \in VoiceOrNone
  BY <1>1, <1>4 DEF TypeOK
<1>6. old \in CueRec
  BY <1>5, MaterializeFields
<1>7. mid \in CueRec
  <2> HIDE DEF old
  <2>. QED
    BY <1>6 DEF CueRec
<1>8. /\ new \in CueRec /\ new.voice = EffectiveVoice(dflt, new)
      /\ new.clip = ClipIdFor(new)
  <2>1. /\ new \in CueRec /\ new.voice = EffectiveVoice(dflt, mid)
        /\ new.clip = ClipIdFor(new) /\ new.over = mid.over
    BY <1>5, <1>7, MaterializeFields
  <2>. QED
    BY <2>1 DEF EffectiveVoice
<1>9. /\ q \in CueRec /\ q.voice = new.voice /\ q.clip = new.clip
      /\ q.text = new.text /\ q.over = new.over
  <2> HIDE DEF old, new
  <2>. QED
    BY <1>8 DEF Patched, CueRec, CueState
<1> HIDE DEF o, old, new, q
<1>10. /\ Migrated \in [Objs -> CueRec]
       /\ \A p \in Objs : SameInputs(cue[p], Migrated[p])
  BY <1>1, MigratedFacts
<1>11. /\ cue' \in [Objs -> CueRec] /\ cue'[o] = q
       /\ \A p \in Objs \ {o} : SameInputs(cue[p], cue'[p])
  BY <1>3, <1>4, <1>9, <1>10
<1>12. UNCHANGED <<exists, list, dflt, clips, library, holder>>
       /\ edit' = [edit EXCEPT ![e] = "cue"]
  BY DEF PatchCue, script
<1>13. TypeOK'
  BY <1>1, <1>3, <1>11, <1>12, RacedByFacts DEF TypeOK
<1>14. ListedCuesCurrent'
  BY <1>1, <1>8, <1>9, <1>11, <1>12, ListedType
     DEF ListedCuesCurrent, SameInputs, EffectiveVoice
<1>15. ASSUME NEW r \in Runs, run[r].pc \in InFlight
       PROVE  \/ Current(r) \in changed
              \/ SameSpeech(cue[Current(r)], cue'[Current(r)])
  <2>1. Current(r) \in Objs
    BY <1>15, InFlightHasCue
  <2>2. CASE Current(r) # o
    BY <1>11, <2>1, <2>2 DEF SameInputs, SameSpeech, ClipIdFor
  <2>3. CASE Current(r) = o /\ new.clip = cue[o].clip
    BY <1>8, <1>9, <1>11, <2>3 DEF SameSpeech, ClipIdFor
  <2>. QED
    BY <2>2, <2>3
<1>. QED
  BY <1>3, <1>13, <1>14, <1>15, EditMoves

LEMMA PatchCueRefusedStep ==
    ASSUME IInv, NEW e \in Edits, NEW id \in CueIds, NEW text \in Texts,
           PatchCueRefused(e, id, text)
    PROVE  IInv'
<1>1. TypeOK /\ ListedCuesCurrent
  BY DEF IInv
<1>2. PICK i \in First(id) :
        /\ cue' = [Migrated EXCEPT ![list[i]] = [Migrated[list[i]] EXCEPT !.text = text]]
        /\ run' = RacedBy(IF text # cue[list[i]].text THEN {list[i]} ELSE {})
  BY DEF PatchCueRefused
<1> DEFINE o == list[i]
<1> DEFINE q == [Migrated[o] EXCEPT !.text = text]
<1> DEFINE changed == IF text # cue[o].text THEN {o} ELSE {}
<1>3. cue' = [Migrated EXCEPT ![o] = q] /\ run' = RacedBy(changed)
  BY <1>2
<1>4. i \in 1..Len(list) /\ o \in Objs /\ Listed(o)
  BY <1>1, ListedType DEF First
<1>5. /\ Migrated \in [Objs -> CueRec]
      /\ \A p \in Objs : SameInputs(cue[p], Migrated[p])
  BY <1>1, MigratedFacts
<1> HIDE DEF o
<1>6. /\ q \in CueRec /\ q.voice = cue[o].voice /\ q.over = cue[o].over /\ q.text = text
      /\ q.clip = Migrated[o].clip
  BY <1>4, <1>5 DEF CueRec, SameInputs
<1> HIDE DEF q
<1>7. /\ cue' \in [Objs -> CueRec] /\ cue'[o] = q
      /\ \A p \in Objs \ {o} : SameInputs(cue[p], cue'[p])
  BY <1>3, <1>4, <1>5, <1>6
<1>8. UNCHANGED <<exists, list, dflt, clips, library, edit, holder>>
  BY DEF PatchCueRefused, script
<1>9. TypeOK'
  BY <1>1, <1>3, <1>7, <1>8, RacedByFacts DEF TypeOK
<1>10. ListedCuesCurrent'
  BY <1>1, <1>6, <1>7, <1>8, ListedType DEF ListedCuesCurrent, SameInputs, EffectiveVoice
<1>11. ASSUME NEW r \in Runs, run[r].pc \in InFlight
       PROVE  \/ Current(r) \in changed
              \/ SameSpeech(cue[Current(r)], cue'[Current(r)])
  <2>1. Current(r) \in Objs
    BY <1>11, InFlightHasCue
  <2>2. CASE Current(r) # o
    BY <1>7, <2>1, <2>2 DEF SameInputs, SameSpeech, ClipIdFor
  <2>3. CASE Current(r) = o /\ text = cue[o].text
    <3>1. SameInputs(cue[o], Migrated[o]) /\ Migrated[o].text = text
      BY <1>4, <1>5, <2>3 DEF SameInputs
    <3>. QED
      BY <1>6, <1>7, <2>3, <3>1 DEF SameInputs, SameSpeech, ClipIdFor
  <2>. QED
    BY <2>2, <2>3
<1>. QED
  BY <1>3, <1>9, <1>10, <1>11, EditMoves

LEMMA PatchDefaultsStep ==
    ASSUME IInv, NEW e \in Edits, NEW v \in VoiceOrNone, PatchDefaults(e, v)
    PROVE  IInv'
<1> DEFINE changed == {o \in Objs : Listed(o) /\ EffectiveVoice(v, cue[o]) # EffectiveVoice(dflt, cue[o])}
<1>1. TypeOK /\ ListedCuesCurrent
  BY DEF IInv
<1>2. ASSUME NEW o \in Objs
      PROVE  /\ cue'[o] \in CueRec
             /\ Listed(o) => cue'[o].voice = EffectiveVoice(v, cue'[o])
             /\ o \notin changed => SameSpeech(cue[o], cue'[o])
  <2>1. cue[o] \in CueRec /\ dflt \in VoiceOrNone
    BY <1>1 DEF TypeOK
  <2>2. CASE Listed(o)
    <3> DEFINE old == Materialize(dflt, cue[o])
    <3> DEFINE new == Materialize(v, old)
    <3>1. cue'[o] = IF new.clip # old.clip
                    THEN [new EXCEPT !.state = "stale", !.timed = FALSE] ELSE new
      BY <2>2, ZenonT(60) DEF PatchDefaults
    <3>2. old \in CueRec /\ old.text = cue[o].text /\ old.over = cue[o].over
      BY <2>1, MaterializeFields
    <3>3. /\ new \in CueRec /\ new.text = old.text /\ new.over = old.over
          /\ new.voice = EffectiveVoice(v, old) /\ new.clip = ClipIdFor(new)
      BY <3>2, MaterializeFields
    <3>4. cue[o].voice = EffectiveVoice(dflt, cue[o])
      BY <1>1, <2>2 DEF Listed, ListedCuesCurrent
    <3> HIDE DEF old, new
    <3>5. /\ cue'[o] \in CueRec /\ cue'[o].text = cue[o].text /\ cue'[o].over = cue[o].over
          /\ cue'[o].voice = new.voice /\ cue'[o].clip = new.clip
      BY <3>1, <3>2, <3>3 DEF CueRec, CueState
    <3>. QED
      BY <2>2, <3>2, <3>3, <3>4, <3>5 DEF EffectiveVoice, SameSpeech, ClipIdFor
  <2>3. CASE ~ Listed(o)
    BY <2>1, <2>3, ZenonT(60) DEF PatchDefaults, SameSpeech
  <2>. QED
    BY <2>2, <2>3
<1>3. cue' \in [Objs -> CueRec]
  <2>1. \E f : cue' = [o \in Objs |-> f[o]]
    <3>1. cue' = [o \in Objs |-> cue'[o]]
      BY ZenonT(60) DEF PatchDefaults
    <3>. QED
      BY <3>1
  <2>. QED
    BY <1>2, <2>1
<1>4. /\ run' = RacedBy(changed) /\ dflt' = v
      /\ UNCHANGED <<exists, list, clips, library, holder>>
      /\ edit' = [edit EXCEPT ![e] = "defaults"]
  BY ZenonT(60) DEF PatchDefaults
<1>5. TypeOK'
  <2> HIDE DEF changed
  <2>. QED
    BY <1>1, <1>3, <1>4, RacedByFacts DEF TypeOK
<1>6. ListedCuesCurrent'
  BY <1>1, <1>2, <1>4, ListedType DEF ListedCuesCurrent
<1>7. ASSUME NEW r \in Runs, run[r].pc \in InFlight
      PROVE  \/ Current(r) \in changed
             \/ SameSpeech(cue[Current(r)], cue'[Current(r)])
  BY <1>2, <1>7, InFlightHasCue
<1>. QED
  BY <1>4, <1>5, <1>6, <1>7, EditMoves
(* A PUT gives the list new objects; one a run still walks is never reused. *)
LEMMA ReplaceStep ==
    ASSUME IInv, NEW e \in Edits, Replace(e)
    PROVE  IInv'
<1>1. TypeOK /\ ListedCuesCurrent
  BY DEF IInv
<1>a. PICK n \in 0..MaxObjs :
        \E keep \in [1..n -> 1..Len(list)], said \in [1..n -> Texts], fresh \in [1..n -> Free] :
          ReplaceCues(e, keep, said, fresh)
  BY DEF Replace
<1>2. PICK keep \in [1..n -> 1..Len(list)], said \in [1..n -> Texts], fresh \in [1..n -> Free] :
        ReplaceCues(e, keep, said, fresh)
  BY <1>a
<1>3. DOMAIN fresh = 1..n /\ fresh \in Seq(Objs) /\ Len(fresh) = n /\ n \in Nat
  BY <1>1, ScriptRunAssumption DEF Free, TypeOK
<1>4. ASSUME NEW o \in Objs
      PROVE  /\ cue'[o] \in CueRec
             /\ (\E i \in 1..n : fresh[i] = o) => cue'[o].voice = EffectiveVoice(dflt, cue'[o])
             /\ Queued(o) => SameInputs(cue[o], cue'[o])
  <2>1. cue[o] \in CueRec /\ dflt \in VoiceOrNone
    BY <1>1 DEF TypeOK
  <2>2. CASE \E i \in 1..n : fresh[i] = o
    <3> DEFINE i == CHOOSE i \in DOMAIN fresh : fresh[i] = o
    <3>1. i \in 1..n /\ fresh[i] = o
      BY <1>3, <2>2
    <3> DEFINE copy == [cue[list[keep[i]]] EXCEPT !.text = said[i]]
    <3>2. cue'[o] = Materialize(dflt, copy)
      BY <1>2, <1>3, <2>2, SMTT(30) DEF ReplaceCues
    <3> HIDE DEF i
    <3>3. copy \in CueRec
      <4>1. keep[i] \in 1..Len(list) /\ said[i] \in Texts
        BY <3>1
      <4>2. cue[list[keep[i]]] \in CueRec
        BY <1>1, <4>1, ListedType DEF TypeOK
      <4>. QED
        BY <4>1, <4>2 DEF CueRec
    <3> HIDE DEF copy
    <3>4. cue'[o] \in CueRec /\ cue'[o].voice = EffectiveVoice(dflt, cue'[o])
      BY <2>1, <3>2, <3>3, MaterializeFields DEF EffectiveVoice
    <3>5. ~ Queued(o)
      BY <3>1 DEF Free
    <3>. QED
      BY <3>4, <3>5
  <2>3. CASE ~ \E i \in 1..n : fresh[i] = o
    <3>1. cue'[o] = IF Listed(o) /\ Queued(o) THEN Materialize(dflt, cue[o])
                    ELSE IF Queued(o) THEN cue[o] ELSE Imported(1, NoVoice)
      BY <1>2, <1>3, <2>3 DEF ReplaceCues
    <3>2. Imported(1, NoVoice) \in CueRec
      <4>1. 1 \in 1..Size
        BY ScriptRunAssumption
      <4>. QED
        BY <4>1, ScriptRunAssumption DEF Imported, CueIds, CueRec, CueState, Key, VoiceOrNone
    <3>3. Listed(o) => cue[o].voice = EffectiveVoice(dflt, cue[o])
      BY <1>1 DEF Listed, ListedCuesCurrent
    <3>4. /\ Materialize(dflt, cue[o]) \in CueRec
          /\ Listed(o) => SameInputs(cue[o], Materialize(dflt, cue[o]))
      BY <2>1, <3>3, MaterializeFields DEF SameInputs
    <3>. QED
      BY <2>1, <2>3, <3>1, <3>2, <3>4 DEF SameInputs
  <2>. QED
    BY <2>2, <2>3
<1>5. cue' \in [Objs -> CueRec]
  <2>1. cue' = [o \in Objs |-> cue'[o]]
    BY <1>2 DEF ReplaceCues
  <2>. QED
    BY <1>4, <2>1
<1>6. /\ list' = fresh /\ UNCHANGED <<exists, dflt, clips, library, run, holder>>
      /\ edit' = [edit EXCEPT ![e] = "cue"]
  BY <1>2 DEF ReplaceCues
<1>7. TypeOK'
  BY <1>1, <1>3, <1>5, <1>6 DEF TypeOK
<1>8. ListedCuesCurrent'
  <2>1. ASSUME NEW i \in 1..n
        PROVE  fresh[i] \in Objs /\ cue'[fresh[i]].voice = EffectiveVoice(dflt, cue'[fresh[i]])
    BY <1>4 DEF Free
  <2>. QED
    BY <1>3, <1>6, <2>1 DEF ListedCuesCurrent
<1>9. run' = RacedBy({})
  BY <1>1, <1>6 DEF RacedBy, TypeOK
<1>10. ASSUME NEW r \in Runs, run[r].pc \in InFlight
       PROVE  SameSpeech(cue[Current(r)], cue'[Current(r)])
  <2>1. Current(r) \in Objs /\ run[r].todo # <<>> /\ run[r].todo \in Seq(Objs)
    BY <1>1, <1>10, InFlightHasCue DEF TypeOK, RunRec
  <2>2. 1 \in 1..Len(run[r].todo) /\ run[r].todo[1] = Current(r)
    BY <2>1 DEF Current
  <2>3. Queued(Current(r))
    BY <2>2 DEF Queued
  <2>. QED
    BY <1>4, <2>1, <2>3 DEF SameInputs, SameSpeech, ClipIdFor
<1>. QED
  BY <1>7, <1>8, <1>9, <1>10, EditMoves

LEMMA RefreshStep ==
    ASSUME IInv, cue' = cue \/ cue' = RefreshedCues,
           UNCHANGED <<script, clips, library, run, holder>>,
           edit' \in [Edits -> {"idle", "cue", "defaults"}]
    PROVE  IInv'
<1>1. TypeOK /\ ListedCuesCurrent
  BY DEF IInv
<1>2. HeapKept
  <2>1. CASE cue' = cue
    BY <1>1, <2>1, SameHeap
  <2>2. CASE cue' = RefreshedCues
    BY <1>1, <2>2, RefreshedFacts DEF HeapKept
  <2>. QED
    BY <2>1, <2>2
<1>3. TypeOK' /\ UNCHANGED <<list, dflt, run>>
  BY <1>1, <1>2 DEF TypeOK, HeapKept, script
<1>. QED
  BY <1>2, <1>3, RunsStay

LEMMA EditDoneStep ==
    ASSUME IInv, NEW e \in Edits, EditDone(e)
    PROVE  IInv'
<1>1. cue' = cue \/ cue' = RefreshedCues
  BY DEF EditDone
<1>2. edit' \in [Edits -> {"idle", "cue", "defaults"}]
  BY DEF EditDone, IInv, TypeOK
<1>3. UNCHANGED <<script, clips, library, run, holder>>
  BY DEF EditDone
<1>. QED
  BY <1>1, <1>2, <1>3, RefreshStep

(* The rest of the gateway touches no cue and no run, but for a refresh.   *)
LEMMA EnvironmentStep ==
    ASSUME IInv, Environment
    PROVE  IInv'
<1>1. TypeOK
  BY DEF IInv
<1>2. ASSUME UNCHANGED <<list, dflt, cue, run, edit>>,
             exists' \in BOOLEAN, clips' \in [Key -> Content],
             library' \in SUBSET Voices,
             holder' \in Runs \cup {Console, Abandoned, NoOne}
      PROVE  IInv'
  <2>1. HeapKept
    BY <1>1, <1>2, SameHeap
  <2>2. TypeOK'
    BY <1>1, <1>2 DEF TypeOK
  <2>. QED
    BY <1>2, <2>1, <2>2, RunsStay
<1>3. CASE GetScript
  <2>1. edit' \in [Edits -> {"idle", "cue", "defaults"}]
    BY <1>1, <1>3 DEF GetScript, TypeOK
  <2>. QED
    BY <1>3, <2>1, RefreshStep DEF GetScript
<1>4. CASE RemoveScript
  BY <1>1, <1>2, <1>4 DEF RemoveScript, TypeOK
<1>5. ASSUME NEW k \in Key, DropClip(k)
      PROVE  IInv'
  BY <1>1, <1>2, <1>5 DEF DropClip, TypeOK, Content, script
<1>6. ASSUME NEW v \in Voices, DeleteVoice(v) \/ RestoreVoice(v)
      PROVE  IInv'
  BY <1>1, <1>2, <1>6 DEF DeleteVoice, RestoreVoice, TypeOK, script
<1>7. CASE ConsoleAccepted \/ VendorFinishes
  BY <1>1, <1>2, <1>7 DEF ConsoleAccepted, VendorFinishes, TypeOK, script
<1>. QED
  BY <1>3, <1>4, <1>5, <1>6, <1>7 DEF Environment

LEMMA RunStepStep ==
    ASSUME IInv, NEW r \in Runs, RunStep(r)
    PROVE  IInv'
BY VisitUnrunnableStep, VisitCachedStep, VisitGenerateStep, VisitVoiceGoneStep,
   VoiceReadyStep, AcceptedStep, FailuresStep, BodyDoneStep, PutDoneStep,
   FinishRunStep, SaveDoneStep
   DEF RunStep

LEMMA InitOK == Init => IInv
<1> SUFFICES ASSUME Init PROVE IInv
  OBVIOUS
<1>1. Size \in Nat /\ 1..Size \subseteq Objs /\ list \in Seq(Objs) /\ Len(list) = Size
  BY ScriptRunAssumption DEF Init, Objs
<1>2. ASSUME NEW o \in Objs
      PROVE  cue[o] \in CueRec /\ (o <= Size => cue[o].voice = dflt /\ cue[o].over = NoVoice)
  <2>1. 1 \in 1..Size /\ dflt \in VoiceOrNone /\ NoVoice \in VoiceOrNone
    BY ScriptRunAssumption DEF Init, VoiceOrNone
  <2>2. ASSUME NEW i \in 1..Size, NEW d \in VoiceOrNone
        PROVE  Imported(i, d) \in CueRec
    BY <2>1, <2>2, ScriptRunAssumption DEF Imported, CueIds, CueRec, CueState, Key
  <2>3. o <= Size => o \in 1..Size
    BY <1>1 DEF Objs
  <2>. QED
    BY <2>1, <2>2, <2>3 DEF Init, Imported
<1>3. run \in [Runs -> RunRec]
  <2>1. <<>> \in Seq(Objs)
    OBVIOUS
  <2>. QED
    BY <2>1, NoKeyType DEF Init, RunRec, VoiceOrNone
<1>4. clips \in [Key -> Content] /\ library \in SUBSET Voices
  BY DEF Init, Content
<1>5. TypeOK
  BY <1>1, <1>2, <1>3, <1>4 DEF Init, TypeOK
<1>6. ListedCuesCurrent
  BY <1>1, <1>2 DEF Init, ListedCuesCurrent, EffectiveVoice
<1>7. \A r \in Runs : RunOK(cue[Head(run[r].todo)], run[r])
  BY DEF Init, RunOK, InputsKept, FiledRight, InFlight
<1>. QED
  BY <1>5, <1>6, <1>7, IInvByRun

LEMMA NextOK == IInv /\ [Next]_vars => IInv'
<1> SUFFICES ASSUME IInv, [Next]_vars PROVE IInv'
  OBVIOUS
<1>1. ASSUME NEW r \in Runs, StartRun(r) \/ RunStep(r)
      PROVE  IInv'
  BY <1>1, StartRunStep, RunStepStep
<1>2. CASE EditStep
  BY <1>2, PatchCueStep, PatchCueRefusedStep, PatchDefaultsStep, ReplaceStep DEF EditStep
<1>3. ASSUME NEW e \in Edits, EditDone(e)
      PROVE  IInv'
  BY <1>3, EditDoneStep
<1>4. CASE Environment
  BY <1>4, EnvironmentStep
<1>5. CASE UNCHANGED vars
  <2>1. HeapKept /\ TypeOK'
    BY <1>5, SameHeap DEF vars, IInv, TypeOK
  <2>. QED
    BY <1>5, <2>1, RunsStay DEF vars
<1>. QED
  BY <1>1, <1>2, <1>3, <1>4, <1>5 DEF Next

(* The strengthening of the three invariants below is inductive.           *)
THEOREM InductiveInvariant == Spec => []IInv
<1>. QED
  BY InitOK, NextOK, PTL DEF Spec

(* Every step of every handler keeps every variable in its type.           *)
THEOREM TypeCorrect == Spec => []TypeOK
<1>1. IInv => TypeOK
  BY DEF IInv
<1>. QED
  BY <1>1, InductiveInvariant, PTL

(* For any number of runs, editors, cues, texts and voices: audio is filed *)
(* under the clip id that names it unless an edit of that cue raced the    *)
(* request (synthesizeCue, index.ts).                                      *)
THEOREM UnracedAudioIsFiledRight == Spec => []UnracedClipIsRight
<1>1. IInv => UnracedClipIsRight
  BY DEF IInv
<1>. QED
  BY <1>1, InductiveInvariant, PTL

(* What a cue inherits is current after any edit (ScriptStore, script.ts). *)
THEOREM InheritedSettingsCurrent == Spec => []ListedCuesCurrent
<1>1. IInv => ListedCuesCurrent
  BY DEF IInv
<1>. QED
  BY <1>1, InductiveInvariant, PTL
-----------------------------------------------------------------------------
(* Who will unmark a cue shown as generating: a run that has it in flight, *)
(* or an edit of the cue list whose refresh is still to come.  An edit of  *)
(* the defaults is no such witness: it re-derives nothing when the script  *)
(* has been removed meanwhile.                                             *)
Attended(o) ==
    \/ \E r \in Runs : run[r].pc \in InFlight /\ Current(r) = o
    \/ \E e \in Edits : edit[e] = "cue"

AttendedInv ==
    \A i \in 1..Len(list) : cue[list[i]].state = "generating" => Attended(list[i])

(* A step keeps it cue by cue.                                             *)
LEMMA CueByCue ==
    ASSUME TypeOK, AttendedInv, list' = list,
           \A o \in Objs : Listed(o) /\ cue'[o].state = "generating" =>
                \/ cue[o].state = "generating" /\ (Attended(o) => Attended(o)')
                \/ Attended(o)'
    PROVE  AttendedInv'
<1>1. ASSUME NEW i \in 1..Len(list), cue'[list[i]].state = "generating"
      PROVE  Attended(list[i])'
  <2>1. list[i] \in Objs /\ Listed(list[i])
    BY ListedType
  <2>2. PICK o : o = list[i]
    OBVIOUS
  <2>3. o \in Objs /\ Listed(o) /\ cue'[o].state = "generating"
        /\ (cue[o].state = "generating" => Attended(o))
    BY <1>1, <2>1, <2>2 DEF AttendedInv
  <2>4. Attended(o)'
    BY <2>3
  <2>. QED
    BY <2>2, <2>4 DEF Attended
<1>. QED
  BY <1>1 DEF AttendedInv

(* A step of run r is a step of no other run and of no edit.               *)
LEMMA OthersStillAttend ==
    ASSUME NEW r \in Runs, NEW o, UNCHANGED edit,
           \A s \in Runs \ {r} : run'[s] = run[s], Attended(o),
           run[r].pc \in InFlight /\ Current(r) = o =>
                run'[r].pc \in InFlight /\ run'[r].todo = run[r].todo
    PROVE  Attended(o)'
BY DEF Attended, Current

LEMMA RunnerAttends ==
    ASSUME NEW r \in Runs, NEW o, run'[r].pc \in InFlight, Head(run'[r].todo) = o
    PROVE  Attended(o)'
BY DEF Attended, Current

(* A run leaves a cue it has marked with a state of its outcome.           *)
LEMMA CueLeft ==
    ASSUME IInv, AttendedInv, NEW r \in Runs, run[r].todo # <<>>, NextCue(r),
           NEW q, q.state # "generating",
           cue' = [cue EXCEPT ![Current(r)] = q], UNCHANGED <<list, edit>>
    PROVE  AttendedInv'
<1>1. TypeOK /\ cue \in [Objs -> CueRec]
  BY DEF IInv, TypeOK
<1>2. \A s \in Runs \ {r} : run'[s] = run[s]
  BY <1>1, NextCueFacts
<1>3. ASSUME NEW o \in Objs, cue'[o].state = "generating"
      PROVE  cue[o].state = "generating" /\ (Attended(o) => Attended(o)')
  <2>1. o # Current(r) /\ cue'[o] = cue[o]
    BY <1>1, <1>3
  <2>. QED
    BY <1>2, <1>3, <2>1, OthersStillAttend
<1>. QED
  BY <1>1, <1>3, CueByCue

(* A run goes on, or stands between two cues, and marks nothing.           *)
LEMMA CueKept ==
    ASSUME IInv, AttendedInv, NEW r \in Runs, NEW u \in RunRec,
           run' = [run EXCEPT ![r] = u],
           run[r].pc \in InFlight => u.pc \in InFlight /\ u.todo = run[r].todo,
           \A o \in Objs : cue'[o].state = cue[o].state, UNCHANGED <<list, edit>>
    PROVE  AttendedInv'
<1>1. TypeOK
  BY DEF IInv
<1>2. run'[r] = u /\ \A s \in Runs \ {r} : run'[s] = run[s]
  BY <1>1, SetRun
<1>3. ASSUME NEW o \in Objs, Attended(o)
      PROVE  Attended(o)'
  BY <1>2, <1>3, OthersStillAttend
<1>. QED
  BY <1>1, <1>3, CueByCue

LEMMA MigratedStates ==
    ASSUME TypeOK
    PROVE  \A o \in Objs : Migrated[o].state = cue[o].state
BY MaterializeFields DEF TypeOK, Migrated

LEMMA KeyedState ==
    ASSUME TypeOK, NEW o \in Objs, NEW s \in CueState, NEW t \in BOOLEAN
    PROVE  /\ [Keyed(o) EXCEPT !.state = s].state = s
           /\ [Keyed(o) EXCEPT !.state = s, !.timed = t].state = s
<1>1. [cue[o] EXCEPT !.clip = ClipIdFor(cue[o])] \in CueRec
  BY DEF TypeOK, CueRec, Key, ClipIdFor
<1> DEFINE k == Keyed(o)
<1>2. k \in CueRec
  BY <1>1 DEF Keyed
<1> HIDE DEF k
<1>3. /\ [k EXCEPT !.state = s].state = s
      /\ [k EXCEPT !.state = s, !.timed = t].state = s
  BY <1>2 DEF CueRec
<1>. QED
  BY <1>3 DEF k

LEMMA RunStepAttends ==
    ASSUME IInv, AttendedInv, NEW r \in Runs, StartRun(r) \/ RunStep(r)
    PROVE  AttendedInv'
<1>1. TypeOK /\ run[r] \in RunRec /\ run[r].todo \in Seq(Objs) /\ list \in Seq(Objs)
  BY RunInv DEF IInv, TypeOK, RunRec
<1>2. CASE StartRun(r)
  <2> DEFINE u == [run[r] EXCEPT !.pc = "visit", !.todo = list, !.refs = VoiceReferences]
  <2>1. VoiceReferences \in SUBSET Voices
    BY <1>1 DEF TypeOK, VoiceReferences
  <2>2. u \in RunRec
    BY <1>1, <2>1 DEF RunRec
  <2>3. run' = [run EXCEPT ![r] = u] /\ run[r].pc \notin InFlight
        /\ cue' = Migrated /\ UNCHANGED <<list, edit>>
    BY <1>2 DEF StartRun, InFlight, script
  <2> HIDE DEF u
  <2>. QED
    BY <1>1, <2>2, <2>3, MigratedStates, CueKept
<1>3. CASE VisitUnrunnable(r) \/ VisitCached(r) \/ VisitVoiceGone(r)
  <2> DEFINE o == Current(r)
  <2>1. run[r].todo # <<>> /\ o \in Objs /\ NextCue(r) /\ UNCHANGED <<list, edit>>
    BY <1>1, <1>3, CurrentType
       DEF VisitUnrunnable, VisitCached, VisitVoiceGone, Visiting, Generates, script
  <2>2. \/ cue' = [cue EXCEPT ![o] = [Keyed(o) EXCEPT !.state = "unrunnable"]]
        \/ cue' = [cue EXCEPT ![o] = [Keyed(o) EXCEPT !.state = "done", !.timed = TRUE]]
        \/ cue' = [cue EXCEPT ![o] = [Keyed(o) EXCEPT !.state = "failed"]]
    BY <1>3 DEF VisitUnrunnable, VisitCached, VisitVoiceGone
  <2>3. PICK q : cue' = [cue EXCEPT ![o] = q] /\ q.state # "generating"
    BY <1>1, <2>1, <2>2, KeyedState DEF CueState
  <2>. QED
    BY <2>1, <2>3, CueLeft
<1>4. CASE \/ VoiceFails(r) \/ RefusedBusy(r) \/ Unavailable(r) \/ TimedOut(r)
           \/ BodyFails(r) \/ PutDone(r)
  <2> DEFINE o == Current(r)
  <2>1. run[r].todo # <<>> /\ o \in Objs
    BY <1>4, InFlightHasCue
       DEF VoiceFails, RefusedBusy, Unavailable, TimedOut, BodyFails, PutDone, InFlight
  <2>2. NextCue(r) /\ UNCHANGED <<list, edit>>
    BY <1>4
       DEF VoiceFails, RefusedBusy, Unavailable, TimedOut, BodyFails, PutDone, FailCue, script
  <2>3. \/ cue' = [cue EXCEPT ![o] = [cue[o] EXCEPT !.state = "failed"]]
        \/ cue' = [cue EXCEPT ![o] = [cue[o] EXCEPT !.state = "done", !.timed = TRUE]]
    BY <1>4
       DEF VoiceFails, RefusedBusy, Unavailable, TimedOut, BodyFails, PutDone, FailCue
  <2>4. cue[o] \in CueRec
    BY <1>1, <2>1 DEF TypeOK
  <2> HIDE DEF o
  <2>5. /\ [cue[o] EXCEPT !.state = "failed"].state # "generating"
        /\ [cue[o] EXCEPT !.state = "done", !.timed = TRUE].state # "generating"
    BY <2>4 DEF CueRec
  <2>6. PICK q : cue' = [cue EXCEPT ![o] = q] /\ q.state # "generating"
    BY <2>3, <2>5
  <2>. QED
    BY <2>1, <2>2, <2>6, CueLeft DEF o
<1>5. CASE VisitGenerate(r)
  <2> DEFINE o == Current(r)
  <2> DEFINE v == EffectiveVoice(dflt, cue[o])
  <2> DEFINE u == [run[r] EXCEPT !.pc = IF v = NoVoice THEN "speech" ELSE "voice",
                                 !.voice = v, !.spoken = cue[o].text,
                                 !.raced = v # cue[o].voice]
  <2>1. /\ run' = [run EXCEPT ![r] = u] /\ UNCHANGED <<list, edit>>
        /\ cue' = [cue EXCEPT ![o] = [Keyed(o) EXCEPT !.state = "generating"]]
        /\ run[r].todo # <<>> /\ run[r].pc = "visit"
    BY <1>5 DEF VisitGenerate, Generates, Visiting, script
  <2>2. o \in Objs /\ cue[o] \in CueRec
    BY <1>1, <2>1, CurrentType DEF TypeOK
  <2>3. v \in VoiceOrNone /\ cue[o].text \in Texts /\ (v # cue[o].voice) \in BOOLEAN
    BY <1>1, <2>2 DEF TypeOK, EffectiveVoice, CueRec
  <2> HIDE DEF v
  <2>4. u \in RunRec /\ u.pc \in InFlight /\ u.todo = run[r].todo
    BY <1>1, <2>3 DEF RunRec, InFlight
  <2> HIDE DEF u
  <2>5. run'[r] = u /\ \A s \in Runs \ {r} : run'[s] = run[s]
    BY <1>1, <2>1, <2>4, SetRun
  <2>6. run'[r].pc \in InFlight /\ Head(run'[r].todo) = o
    BY <2>4, <2>5 DEF Current
  <2>7. ASSUME NEW p \in Objs, cue'[p].state = "generating"
        PROVE  \/ cue[p].state = "generating" /\ (Attended(p) => Attended(p)')
               \/ Attended(p)'
    <3>1. CASE p = o
      <4>1. Attended(p)'
        BY <2>6, <3>1, RunnerAttends
      <4>. QED
        BY <4>1
    <3>2. CASE p # o
      <4>1. cue'[p] = cue[p]
        BY <1>1, <2>1, <3>2 DEF TypeOK
      <4>2. Attended(p) => Attended(p)'
        BY <2>1, <2>5, OthersStillAttend DEF InFlight
      <4>. QED
        BY <2>7, <4>1, <4>2
    <3>. QED
      BY <3>1, <3>2
  <2>. QED
    BY <1>1, <2>1, <2>7, CueByCue
<1>6. CASE VoiceReady(r)
  <2> DEFINE u == [run[r] EXCEPT !.pc = "speech", !.spoken = cue[Current(r)].text]
  <2>1. cue[Current(r)].text \in Texts
    BY <1>1, <1>6, InFlightHasCue DEF VoiceReady, InFlight, TypeOK, CueRec
  <2>2. u \in RunRec /\ u.pc \in InFlight /\ u.todo = run[r].todo
    BY <1>1, <2>1 DEF RunRec, InFlight
  <2>3. run' = [run EXCEPT ![r] = u] /\ UNCHANGED <<list, cue, edit>>
    BY <1>6 DEF VoiceReady, script
  <2>. QED
    BY <2>2, <2>3, CueKept
<1>7. CASE Accepted(r)
  <2> DEFINE u == [run[r] EXCEPT !.pc = "body"]
  <2>1. u \in RunRec /\ u.pc \in InFlight /\ u.todo = run[r].todo
    BY <1>1 DEF RunRec, InFlight
  <2>2. run' = [run EXCEPT ![r] = u] /\ UNCHANGED <<list, cue, edit>>
    BY <1>7 DEF Accepted, script
  <2>. QED
    BY <2>1, <2>2, CueKept
<1>8. CASE BodyDone(r)
  <2> DEFINE u == [run[r] EXCEPT !.pc = "put", !.key = cue[Current(r)].clip]
  <2>1. cue[Current(r)].clip \in Key
    BY <1>1, <1>8, InFlightHasCue DEF BodyDone, InFlight, TypeOK, CueRec
  <2>2. u \in RunRec /\ u.pc \in InFlight /\ u.todo = run[r].todo
    BY <1>1, <2>1 DEF RunRec, InFlight
  <2>3. run' = [run EXCEPT ![r] = u] /\ UNCHANGED <<list, cue, edit>>
    BY <1>8 DEF BodyDone, script
  <2>. QED
    BY <2>2, <2>3, CueKept
<1>9. CASE FinishRun(r)
  <2> DEFINE u == [run[r] EXCEPT !.pc = "save"]
  <2>1. u \in RunRec
    BY <1>1 DEF RunRec
  <2>2. run' = [run EXCEPT ![r] = u] /\ run[r].pc \notin InFlight
        /\ cue' = Migrated /\ UNCHANGED <<list, edit>>
    BY <1>9 DEF FinishRun, InFlight
  <2>. QED
    BY <1>1, <2>1, <2>2, MigratedStates, CueKept
<1>10. CASE SaveDone(r)
  <2> DEFINE u == [run[r] EXCEPT !.pc = "idle", !.refs = {}]
  <2>1. u \in RunRec
    BY <1>1 DEF RunRec
  <2>2. run' = [run EXCEPT ![r] = u] /\ run[r].pc \notin InFlight
        /\ UNCHANGED <<list, cue, edit>>
    BY <1>10 DEF SaveDone, InFlight, script
  <2>. QED
    BY <2>1, <2>2, CueKept
<1>. QED
  BY <1>2, <1>3, <1>4, <1>5, <1>6, <1>7, <1>8, <1>9, <1>10 DEF RunStep

(* A refresh leaves no row generating: it was in the middle of nothing the *)
(* refresh can see, so it is queued again.                                 *)
LEMMA RefreshedState ==
    ASSUME NEW q \in CueRec, dflt \in VoiceOrNone
    PROVE  Refreshed(q).state # "generating"
<1> DEFINE m == Materialize(dflt, q)
<1>1. m \in CueRec
  BY MaterializeFields
<1>2. \/ Refreshed(q) = [m EXCEPT !.state = "unrunnable"]
      \/ Refreshed(q) = [m EXCEPT !.state = "done", !.timed = TRUE]
      \/ \E s \in {"failed", "stale", "queued"} :
            Refreshed(q) = [m EXCEPT !.timed = FALSE, !.state = s]
  BY DEF Refreshed
<1> HIDE DEF m
<1>. QED
  BY <1>1, <1>2 DEF CueRec

LEMMA RefreshAttends ==
    ASSUME TypeOK, cue' = RefreshedCues, list' = list
    PROVE  AttendedInv'
<1>1. ASSUME NEW i \in 1..Len(list)
      PROVE  cue'[list[i]].state # "generating"
  <2>1. list[i] \in Objs /\ Listed(list[i])
    BY ListedType
  <2>2. cue'[list[i]] = Refreshed(cue[list[i]])
    BY <2>1 DEF RefreshedCues
  <2>. QED
    BY <2>1, <2>2, RefreshedState DEF TypeOK
<1>. QED
  BY <1>1 DEF AttendedInv

(* Racing a run leaves it where it is.                                     *)
LEMMA RacedStillAttend ==
    ASSUME TypeOK, NEW changed, run' = RacedBy(changed), NEW o, Attended(o),
           \A e \in Edits : edit[e] = "cue" => edit'[e] = "cue"
    PROVE  Attended(o)'
<1>1. ASSUME NEW r \in Runs
      PROVE  run'[r].pc = run[r].pc /\ run'[r].todo = run[r].todo
  <2>1. run[r] \in RunRec
    BY DEF TypeOK
  <2>2. /\ [run[r] EXCEPT !.raced = TRUE].pc = run[r].pc
        /\ [run[r] EXCEPT !.raced = TRUE].todo = run[r].todo
    BY <2>1 DEF RunRec
  <2>. QED
    BY <2>2, RacedByFacts
<1>. QED
  BY <1>1 DEF Attended, Current

LEMMA DefaultsAttend ==
    ASSUME IInv, AttendedInv, NEW e \in Edits, NEW v \in VoiceOrNone, PatchDefaults(e, v)
    PROVE  AttendedInv'
<1> DEFINE changed == {o \in Objs : Listed(o) /\ EffectiveVoice(v, cue[o]) # EffectiveVoice(dflt, cue[o])}
<1> DEFINE C(o) == LET old == Materialize(dflt, cue[o])
                       new == Materialize(v, old)
                   IN  IF new.clip # old.clip
                       THEN [new EXCEPT !.state = "stale", !.timed = FALSE]
                       ELSE new
<1> DEFINE D(o) == IF Listed(o) THEN C(o) ELSE cue[o]
<1>0. cue' = [o \in Objs |-> D(o)]
  BY Zenon DEF PatchDefaults
<1>1. TypeOK
  BY DEF IInv
<1>2. /\ run' = RacedBy(changed) /\ dflt' = v
      /\ UNCHANGED <<exists, list, clips, library, holder>>
      /\ edit' = [edit EXCEPT ![e] = "defaults"]
  BY Zenon DEF PatchDefaults
<1>3. edit[e] = "idle"
  BY Zenon DEF PatchDefaults
<1> HIDE DEF changed
<1>4. \A d \in Edits : edit[d] = "cue" => edit'[d] = "cue"
  BY <1>1, <1>2, <1>3 DEF TypeOK
<1>5. ASSUME NEW o \in Objs
      PROVE  Listed(o) /\ cue'[o].state = "generating" => cue[o].state = "generating"
  <2>1. cue[o] \in CueRec /\ dflt \in VoiceOrNone
    BY <1>1 DEF TypeOK
  <2>2. CASE Listed(o)
    <3> DEFINE old == Materialize(dflt, cue[o])
    <3> DEFINE new == Materialize(v, old)
    <3>1. cue'[o] = IF new.clip # old.clip
                    THEN [new EXCEPT !.state = "stale", !.timed = FALSE] ELSE new
      <4> HIDE DEF C
      <4>1. D(o) = C(o)
        BY <2>2
      <4> HIDE DEF D
      <4>2. cue'[o] = C(o)
        BY <1>0, <4>1
      <4>. QED
        BY <4>2, Zenon DEF C
    <3>2. old \in CueRec /\ old.state = cue[o].state
      BY <2>1, MaterializeFields
    <3>3. new \in CueRec /\ new.state = old.state
      BY <3>2, MaterializeFields
    <3> HIDE DEF old, new
    <3>4. [new EXCEPT !.state = "stale", !.timed = FALSE].state = "stale"
      BY <3>3 DEF CueRec
    <3>. QED
      BY <3>1, <3>2, <3>3, <3>4
  <2>. QED
    BY <2>2
<1>6. ASSUME NEW o \in Objs, Attended(o)
      PROVE  Attended(o)'
  BY <1>1, <1>2, <1>4, <1>6, RacedStillAttend
<1>. QED
  BY <1>1, <1>2, <1>5, <1>6, CueByCue

LEMMA EditAttends ==
    ASSUME IInv, AttendedInv, EditStep
    PROVE  AttendedInv'
<1>1. TypeOK
  BY DEF IInv
<1>2. ASSUME NEW e \in Edits, edit' = [edit EXCEPT ![e] = "cue"]
      PROVE  AttendedInv'
  <2>1. edit'[e] = "cue"
    BY <1>1, <1>2 DEF TypeOK
  <2>. QED
    BY <2>1 DEF AttendedInv, Attended
<1>3. ASSUME NEW e \in Edits, NEW id \in CueIds, NEW t \in Texts, PatchCueRefused(e, id, t)
      PROVE  AttendedInv'
  <2>1. PICK i \in First(id) :
          /\ cue' = [Migrated EXCEPT ![list[i]] = [Migrated[list[i]] EXCEPT !.text = t]]
          /\ run' = RacedBy(IF t # cue[list[i]].text THEN {list[i]} ELSE {})
    BY <1>3 DEF PatchCueRefused
  <2> DEFINE o == list[i]
  <2> DEFINE changed == IF t # cue[o].text THEN {o} ELSE {}
  <2>2. /\ cue' = [Migrated EXCEPT ![o] = [Migrated[o] EXCEPT !.text = t]]
        /\ run' = RacedBy(changed) /\ UNCHANGED <<list, edit>>
    BY <1>3, <2>1 DEF PatchCueRefused, script
  <2>3. o \in Objs
    BY <1>1, <2>1, ListedType DEF First
  <2>4. Migrated \in [Objs -> CueRec]
    BY <1>1, MigratedFacts DEF IInv
  <2> HIDE DEF o, changed
  <2>5. [Migrated[o] EXCEPT !.text = t].state = Migrated[o].state
    BY <2>3, <2>4 DEF CueRec
  <2>6. \A p \in Objs : cue'[p].state = cue[p].state
    BY <1>1, <2>2, <2>3, <2>4, <2>5, MigratedStates
  <2>7. ASSUME NEW p \in Objs, Attended(p)
        PROVE  Attended(p)'
    BY <1>1, <2>2, <2>7, RacedStillAttend
  <2>. QED
    BY <1>1, <2>2, <2>6, <2>7, CueByCue
<1>4. ASSUME NEW e \in Edits, NEW v \in VoiceOrNone, PatchDefaults(e, v)
      PROVE  AttendedInv'
  BY <1>4, DefaultsAttend
<1>5. ASSUME NEW e \in Edits, NEW id \in CueIds, NEW t \in Texts,
             NEW v \in VoiceOrNone, PatchCue(e, id, t, v)
      PROVE  AttendedInv'
  BY <1>2, <1>5 DEF PatchCue
<1>6. ASSUME NEW e \in Edits, Replace(e)
      PROVE  AttendedInv'
  BY <1>2, <1>6 DEF Replace, ReplaceCues
<1>. QED
  BY <1>3, <1>4, <1>5, <1>6 DEF EditStep

LEMMA OtherStepAttends ==
    ASSUME IInv, AttendedInv, \/ EditStep \/ Environment \/ UNCHANGED vars
                              \/ \E e \in Edits : EditDone(e)
    PROVE  AttendedInv'
<1>1. TypeOK
  BY DEF IInv
<1>2. CASE UNCHANGED <<list, cue, run, edit>>
  BY <1>2 DEF AttendedInv, Attended, Current
<1>3. CASE Environment
  BY <1>1, <1>2, <1>3, RefreshAttends
     DEF Environment, GetScript, RemoveScript, DropClip, DeleteVoice, RestoreVoice,
         ConsoleAccepted, VendorFinishes, script
<1>4. ASSUME NEW e \in Edits, EditDone(e)
      PROVE  AttendedInv'
  <2>1. list' = list
    BY <1>4 DEF EditDone, script
  <2>2. CASE cue' = RefreshedCues
    BY <1>1, <2>1, <2>2, RefreshAttends
  <2>3. CASE cue' # RefreshedCues
    <3>1. cue' = cue /\ edit[e] = "defaults" /\ UNCHANGED run
      BY <1>4, <2>3 DEF EditDone
    <3>2. \A d \in Edits : edit[d] = "cue" => edit'[d] = "cue"
      BY <1>1, <1>4, <3>1 DEF EditDone, TypeOK
    <3>3. ASSUME NEW o \in Objs, Attended(o)
          PROVE  Attended(o)'
      BY <3>1, <3>2, <3>3 DEF Attended, Current
    <3>. QED
      BY <1>1, <2>1, <3>1, <3>3, CueByCue
  <2>. QED
    BY <2>2, <2>3
<1>. QED
  BY <1>2, <1>3, <1>4, EditAttends DEF vars

(* However runs, edits, removals and refreshes of a script interleave, no  *)
(* row is left spinning: every way out of synthesizeCue unmarks it, and a  *)
(* copy of a spinning row that a client PUT back is refreshed by that PUT  *)
(* (runScript, cue-queue.ts; ScriptStore, script.ts).                      *)
THEOREM NothingLeftSpinning == Spec => []GeneratingHasRunner
<1>1. Init => AttendedInv
  <2> SUFFICES ASSUME Init PROVE AttendedInv
    OBVIOUS
  <2>1. TypeOK
    BY InitOK DEF IInv
  <2>2. \A o \in Objs : cue[o].state = "queued"
    BY DEF Init, Imported
  <2>. QED
    BY <2>1, <2>2, ListedType DEF AttendedInv
<1>2. IInv /\ AttendedInv /\ [Next]_vars => AttendedInv'
  BY RunStepAttends, OtherStepAttends DEF Next
<1>3. AttendedInv => GeneratingHasRunner
  BY DEF AttendedInv, Attended, GeneratingHasRunner
<1>. QED
  BY <1>1, <1>2, <1>3, InductiveInvariant, PTL DEF Spec
=============================================================================
