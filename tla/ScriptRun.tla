------------------------------ MODULE ScriptRun ------------------------------
(***************************************************************************)
(* One script being edited and run by several browser sessions at once.    *)
(*                                                                         *)
(* The gateway is a single Node process: a handler runs without            *)
(* interruption from one await to the next, and anything may run while it  *)
(* is parked on one.  POST /scripts/:id/run walks the cue objects of the   *)
(* record (cue-queue.ts runScript) and voices each one through             *)
(* synthesizeCue (index.ts), which parks on the voice file, on the vendor  *)
(* and on the clip cache.  Meanwhile PATCH and PUT mutate those same cue   *)
(* objects in place (script.ts ScriptStore), every read refreshes them,    *)
(* clips are evicted, voices are deleted, and other traffic takes the      *)
(* vendor's process-wide lock.                                             *)
(*                                                                         *)
(* Delivery settings (instruction, cfg, seed) behave like the voice: one   *)
(* value inherited from the script or overridden on the cue.  The model    *)
(* keeps the voice, which is also the setting that can disappear.  A clip  *)
(* id is the pair it hashes.  The script is a WebVTT import, so the        *)
(* plain-text reflow never applies to it.                                  *)
(***************************************************************************)
EXTENDS Naturals, Sequences, FiniteSets

CONSTANTS
    Texts,      \* what a cue may say
    Overlong,   \* the texts past the capacity ceiling in every mode
    Voices,     \* library voices
    NoVoice,    \* voiceId null: the Design mode
    Size,       \* number of cues in the imported script
    MaxObjs,    \* bound on live cue objects (Size of them are imported)
    MaxClips,   \* clips the cache has room for
    Runs,       \* POST /run requests that may be open at once
    Edits,      \* PATCH and PUT requests that may be open at once
    Console,    \* the Speak request of another visitor
    Abandoned,  \* an upstream request whose gateway side has given up
    NoOne,      \* the vendor is idle
    FirstText   \* [1..Size -> Texts]: what the imported cues say

ASSUME ScriptRunAssumption ==
    /\ Overlong \subseteq Texts
    /\ NoVoice \notin Voices
    /\ Size \in Nat \ {0}
    /\ MaxObjs \in Nat
    /\ MaxClips \in Nat \ {0}
    /\ Size <= MaxObjs
    /\ Console \notin Runs /\ Abandoned \notin Runs /\ NoOne \notin Runs
    /\ Console # Abandoned /\ Console # NoOne /\ Abandoned # NoOne
    /\ FirstText \in [1..Size -> Texts]

CueIds == 1..Size                      \* ids of the imported cues
Objs   == 1..MaxObjs                   \* cue objects on the heap
VoiceOrNone == Voices \cup {NoVoice}
Key    == [text : Texts, voice : VoiceOrNone]
CueState == {"queued", "generating", "done", "stale", "failed", "unrunnable"}

NoKey  == [text |-> FirstText[1], voice |-> NoVoice]  \* a local out of scope

VARIABLES
    exists,   \* the script is in ScriptStore's index
    list,     \* record.cues: a sequence of cue objects
    dflt,     \* record.defaults.voiceId
    cue,      \* the heap of cue objects
    clips,    \* the clip cache, by clip id
    library,  \* visible voices
    run,      \* the open run requests
    edit,     \* the open edit requests
    holder    \* who holds the vendor's process-wide lock

vars == <<exists, list, dflt, cue, clips, library, run, edit, holder>>
script == <<exists, list, dflt>>

CueRec == [id : CueIds, text : Texts, over : VoiceOrNone, voice : VoiceOrNone,
           clip : Key, state : CueState, timed : BOOLEAN]

(* "raced" is a ghost: the inputs of the cue in flight changed after the   *)
(* run read them.  The counters of the summary decide nothing and are left *)
(* out.                                                                    *)
RunRec == [pc : {"idle", "visit", "voice", "speech", "body", "put", "save"},
           todo : Seq(Objs), refs : SUBSET Voices,
           voice : VoiceOrNone, spoken : Texts, key : Key, raced : BOOLEAN]

(* What the clip stored under an id holds: the speech that id names, or    *)
(* the speech of some other text or voice.                                 *)
Content == {"none", "right", "wrong"}

InFlight == {"voice", "speech", "body", "put"}
-----------------------------------------------------------------------------
(* script.ts: the derived fields of a cue *)

(* mutant: the voice is left out of the clip id *)
ClipIdForText(q) == [text |-> q.text, voice |-> NoVoice]

ClipIdFor(q) == [text |-> q.text, voice |-> q.voice]

EffectiveVoice(d, q) == IF q.over # NoVoice THEN q.over ELSE d

(* mutant: only the clip id is derived again *)
MaterializeClip(d, q) == [q EXCEPT !.clip = ClipIdFor(q)]

Materialize(d, q) ==
    LET m == [q EXCEPT !.voice = EffectiveVoice(d, q)]
    IN  [m EXCEPT !.clip = ClipIdFor(m)]

VoiceReferences == library

Unrunnable(q, refs) == q.voice \notin refs \cup {NoVoice} \/ q.text \in Overlong

Cached(k) == clips[k] # "none"

(* refreshScript on one cue; an unrunnable cue keeps its stale timing *)
Refreshed(q) ==
    LET m == Materialize(dflt, q)
    IN  IF Unrunnable(m, VoiceReferences) THEN [m EXCEPT !.state = "unrunnable"]
        ELSE IF Cached(m.clip)    THEN [m EXCEPT !.state = "done", !.timed = TRUE]
        ELSE [m EXCEPT !.timed = FALSE,
                       !.state = CASE m.state = "failed" -> "failed"
                                   [] m.state = "done"   -> "stale"
                                   [] OTHER              -> "queued"]

Listed(o) == \E i \in 1..Len(list) : list[i] = o

(* require(): every read of the record re-derives its cues *)
Migrated == [o \in Objs |-> IF Listed(o) THEN Materialize(dflt, cue[o]) ELSE cue[o]]

RefreshedCues == [o \in Objs |-> IF Listed(o) THEN Refreshed(cue[o]) ELSE cue[o]]

(* The event loop runs one handler from await to await: while a run is     *)
(* between two cues, nothing else moves.                                   *)
Quiet == \A r \in Runs : run[r].pc # "visit"

Current(r) == Head(run[r].todo)

(* Ghost: an edit that changes what a cue object should say, or the        *)
(* default it inherits, races every run that has the object in flight.     *)
RacedBy(changed) ==
    [r \in Runs |->
        IF run[r].pc \in InFlight /\ Current(r) \in changed
        THEN [run[r] EXCEPT !.raced = TRUE] ELSE run[r]]
-----------------------------------------------------------------------------
(* the i-th cue as importFile makes it *)
Imported(i, d) ==
    [id |-> i, text |-> FirstText[i], over |-> NoVoice, voice |-> d,
     clip |-> [text |-> FirstText[i], voice |-> d],
     state |-> "queued", timed |-> FALSE]

(* importFile has stored the record; nothing is open *)
Init ==
    /\ exists = TRUE
    /\ list = [i \in 1..Size |-> i]
    /\ dflt \in VoiceOrNone
    /\ library = Voices
    /\ cue = [o \in Objs |-> IF o <= Size THEN Imported(o, dflt) ELSE Imported(1, NoVoice)]
    /\ clips = [k \in Key |-> "none"]
    /\ run = [r \in Runs |->
                [pc |-> "idle", todo |-> <<>>, refs |-> {}, voice |-> NoVoice,
                 spoken |-> FirstText[1], key |-> NoKey,
                 raced |-> FALSE]]
    /\ edit = [e \in Edits |-> "idle"]
    /\ holder = NoOne
-----------------------------------------------------------------------------
(* POST /scripts/:id/run *)

StartRun(r) ==
    /\ Quiet /\ exists /\ run[r].pc = "idle"
    /\ cue' = Migrated
    /\ run' = [run EXCEPT ![r] =
                  [run[r] EXCEPT !.pc = "visit", !.todo = list, !.refs = VoiceReferences]]
    /\ UNCHANGED <<script, clips, library, edit, holder>>

(* On to the next cue; the locals of this one go out of scope.             *)
NextCue(r) ==
    run' = [run EXCEPT ![r] =
              [pc |-> "visit", todo |-> Tail(run[r].todo), refs |-> run[r].refs,
               voice |-> NoVoice, spoken |-> FirstText[1], key |-> NoKey,
               raced |-> FALSE]]

(* The loop body up to the first await, in its three outcomes.             *)
Keyed(o) == [cue[o] EXCEPT !.clip = ClipIdFor(cue[o])]

Visiting(r) == run[r].pc = "visit" /\ run[r].todo # <<>>

VisitUnrunnable(r) ==
    /\ Visiting(r)
    /\ LET o == Current(r)
       IN  /\ Unrunnable(Keyed(o), run[r].refs)
           /\ cue' = [cue EXCEPT ![o] = [Keyed(o) EXCEPT !.state = "unrunnable"]]
    /\ NextCue(r)
    /\ UNCHANGED <<script, clips, library, edit, holder>>

VisitCached(r) ==
    /\ Visiting(r)
    /\ LET o == Current(r)
       IN  /\ ~ Unrunnable(Keyed(o), run[r].refs)
           /\ Cached(Keyed(o).clip)
           /\ cue' = [cue EXCEPT ![o] = [Keyed(o) EXCEPT !.state = "done", !.timed = TRUE]]
    /\ NextCue(r)
    /\ UNCHANGED <<script, clips, library, edit, holder>>

Generates(r) ==
    /\ Visiting(r)
    /\ ~ Unrunnable(Keyed(Current(r)), run[r].refs)
    /\ ~ Cached(Keyed(Current(r)).clip)

(* synthesizeCue takes the effective settings, and voices.read looks the   *)
(* voice up, before the first await.  A cue object that a PUT has detached *)
(* from the record is no longer materialized, so its key and the settings  *)
(* may disagree from the start.                                            *)
VisitGenerate(r) ==
    /\ Generates(r)
    /\ LET o == Current(r)
           v == EffectiveVoice(dflt, cue[o])
       IN  /\ v \in library \cup {NoVoice}
           /\ cue' = [cue EXCEPT ![o] = [Keyed(o) EXCEPT !.state = "generating"]]
           /\ run' = [run EXCEPT ![r] =
                         [run[r] EXCEPT !.pc = IF v = NoVoice THEN "speech" ELSE "voice",
                                        !.voice = v, !.spoken = cue[o].text,
                                        !.raced = v # cue[o].voice]]
    /\ UNCHANGED <<script, clips, library, edit, holder>>

(* mutants: the row is not marked; the row is tried again *)
FailCueUnmarked(r) == NextCue(r) /\ UNCHANGED cue

FailCueAgain(r) ==
    /\ cue' = [cue EXCEPT ![Current(r)].state = "failed"]
    /\ run' = [run EXCEPT ![r].pc = "visit"]

(* The catch of runScript: mark the row, go on with the next one. *)
FailCue(r) ==
    /\ cue' = [cue EXCEPT ![Current(r)] = [cue[Current(r)] EXCEPT !.state = "failed"]]
    /\ NextCue(r)

(* the voice was deleted after the run listed the library *)
VisitVoiceGone(r) ==
    /\ Generates(r)
    /\ LET o == Current(r)
       IN  /\ EffectiveVoice(dflt, cue[o]) \notin library \cup {NoVoice}
           /\ cue' = [cue EXCEPT ![o] = [Keyed(o) EXCEPT !.state = "failed"]]
    /\ NextCue(r)
    /\ UNCHANGED <<script, clips, library, edit, holder>>

(* voices.read resolves, and only now is the text to speak taken *)
VoiceReady(r) ==
    /\ Quiet /\ run[r].pc = "voice"
    /\ cue[Current(r)].text \notin Overlong
    /\ run' = [run EXCEPT ![r] = [run[r] EXCEPT !.pc = "speech",
                                             !.spoken = cue[Current(r)].text]]
    /\ UNCHANGED <<script, cue, clips, library, edit, holder>>

(* the recording is unreadable, or the text now breaches the ceiling *)
VoiceFails(r) ==
    /\ Quiet /\ run[r].pc = "voice"
    /\ FailCue(r)
    /\ UNCHANGED <<script, clips, library, edit, holder>>

(* The request reaches the vendor: its lock is free, or it answers 409. *)
Accepted(r) ==
    /\ Quiet /\ run[r].pc = "speech"
    /\ holder = NoOne
    /\ holder' = r
    /\ run' = [run EXCEPT ![r] = [run[r] EXCEPT !.pc = "body"]]
    /\ UNCHANGED <<script, cue, clips, library, edit>>

RefusedBusy(r) ==
    /\ Quiet /\ run[r].pc = "speech"
    /\ holder # NoOne
    /\ FailCue(r)
    /\ UNCHANGED <<script, clips, library, edit, holder>>

(* unreachable, scaled to zero past the timeout, or not authorised *)
Unavailable(r) ==
    /\ Quiet /\ run[r].pc = "speech"
    /\ FailCue(r)
    /\ UNCHANGED <<script, clips, library, edit, holder>>

(* The request timeout fires before the headers arrive: the gateway moves  *)
(* on while the vendor is still at work.                                   *)
TimedOut(r) ==
    /\ Quiet /\ run[r].pc = "body"
    /\ holder' = Abandoned
    /\ FailCue(r)
    /\ UNCHANGED <<script, clips, library, edit>>

(* the stream breaks, is empty, or has no usable format *)
BodyFails(r) ==
    /\ Quiet /\ run[r].pc = "body"
    /\ holder' = NoOne
    /\ FailCue(r)
    /\ UNCHANGED <<script, clips, library, edit>>

(* The whole body is here; the clip id is read off the cue only now. *)
BodyDone(r) ==
    /\ Quiet /\ run[r].pc = "body"
    /\ holder' = NoOne
    /\ run' = [run EXCEPT ![r] = [run[r] EXCEPT !.pc = "put", !.key = cue[Current(r)].clip]]
    /\ UNCHANGED <<script, cue, clips, library, edit>>

Spoken(r) == [text |-> run[r].spoken, voice |-> run[r].voice]

(* The clip is stored and the cache evicts others to stay under its limit. *)
Store(r, evicted) ==
    clips' = [k \in Key |->
                IF k = run[r].key
                THEN IF k = Spoken(r) THEN "right" ELSE "wrong"
                ELSE IF k \in evicted THEN "none" ELSE clips[k]]

(* cache.put resolves.  synthesizeCue ignores whether the clip was really  *)
(* stored, so the cue is done either way.                                  *)
PutDone(r) ==
    /\ Quiet /\ run[r].pc = "put"
    /\ \/ UNCHANGED clips
       \/ \E evicted \in SUBSET {k \in Key \ {run[r].key} : Cached(k)} :
            /\ Store(r, evicted)
            /\ Cardinality({k \in Key : clips'[k] # "none"}) <= MaxClips
    /\ cue' = [cue EXCEPT ![Current(r)] = [cue[Current(r)] EXCEPT !.state = "done",
                                                             !.timed = TRUE]]
    /\ NextCue(r)
    /\ UNCHANGED <<script, library, edit, holder>>

(* scripts.save indexes the record again, whatever became of it meanwhile *)
FinishRun(r) ==
    /\ run[r].pc = "visit" /\ run[r].todo = <<>>
    /\ cue' = Migrated
    /\ exists' = TRUE
    /\ run' = [run EXCEPT ![r] = [run[r] EXCEPT !.pc = "save"]]
    /\ UNCHANGED <<list, dflt, clips, library, edit, holder>>

SaveDone(r) ==
    /\ Quiet /\ run[r].pc = "save"
    /\ run' = [run EXCEPT ![r] = [run[r] EXCEPT !.pc = "idle", !.refs = {}]]
    /\ UNCHANGED <<script, cue, clips, library, edit, holder>>
-----------------------------------------------------------------------------
(* Edits: a synchronous change, then the write of the script file, then a  *)
(* refresh of the record for the reply.                                    *)

Patched(old, q) ==
    IF q.clip # old.clip THEN [q EXCEPT !.state = "stale", !.timed = FALSE]
    ELSE IF old.state = "failed" THEN [q EXCEPT !.state = "queued"] ELSE q

(* patchCue finds the first listed cue with the id *)
First(id) == {i \in 1..Len(list) :
                /\ cue[list[i]].id = id
                /\ \A j \in 1..(i - 1) : cue[list[j]].id # id}

PatchCue(e, id, text, over) ==
    /\ Quiet /\ exists /\ edit[e] = "idle"
    /\ \E i \in First(id) :
         LET o   == list[i]
             old == Materialize(dflt, cue[o])
             new == Materialize(dflt, [old EXCEPT !.text = text, !.over = over])
         IN  /\ cue' = [Migrated EXCEPT ![o] = Patched(old, new)]
             /\ run' = RacedBy(IF new.clip # cue[o].clip THEN {o} ELSE {})
    /\ edit' = [edit EXCEPT ![e] = "cue"]
    /\ UNCHANGED <<script, clips, library, holder>>

(* A patch whose cfg or seed is refused has already assigned the text: the *)
(* throw leaves the new words under the old clip id.                       *)
PatchCueRefused(e, id, text) ==
    /\ Quiet /\ exists /\ edit[e] = "idle"
    /\ \E i \in First(id) :
         /\ cue' = [Migrated EXCEPT ![list[i]] = [Migrated[list[i]] EXCEPT !.text = text]]
         /\ run' = RacedBy(IF text # cue[list[i]].text THEN {list[i]} ELSE {})
    /\ UNCHANGED <<script, clips, library, edit, holder>>

PatchDefaults(e, v) ==
    /\ Quiet /\ exists /\ edit[e] = "idle"
    /\ dflt' = v
    /\ cue' = [o \in Objs |->
                 IF Listed(o)
                 THEN LET old == Materialize(dflt, cue[o])
                          new == Materialize(v, old)
                      IN  IF new.clip # old.clip
                          THEN [new EXCEPT !.state = "stale", !.timed = FALSE]
                          ELSE new
                 ELSE cue[o]]
    /\ run' = RacedBy({o \in Objs : Listed(o) /\ EffectiveVoice(v, cue[o]) # EffectiveVoice(dflt, cue[o])})
    /\ edit' = [edit EXCEPT ![e] = "defaults"]
    /\ UNCHANGED <<exists, list, clips, library, holder>>

(* An object reachable neither from the record nor from a run is free. *)
Queued(o) == \E r \in Runs : \E i \in 1..Len(run[r].todo) : run[r].todo[i] = o

Free == {o \in Objs : ~ Listed(o) /\ ~ Queued(o)}

(* PUT cues: the client returns its own list, made of copies of cues it    *)
(* once read: reordered, dropped, repeated, or saying something else.      *)
(* Every copy is a new object.                                             *)
ReplaceCues(e, keep, said, fresh) ==
    /\ Quiet /\ exists /\ edit[e] = "idle"
    /\ \A i \in DOMAIN fresh :
          Cardinality({o \in Free : o < fresh[i]}) = i - 1
    /\ list' = fresh
    /\ cue' = [o \in Objs |->
                 IF \E i \in DOMAIN fresh : fresh[i] = o
                 THEN LET i == CHOOSE i \in DOMAIN fresh : fresh[i] = o
                      IN  Materialize(dflt, [cue[list[keep[i]]] EXCEPT !.text = said[i]])
                 ELSE IF Listed(o) /\ Queued(o) THEN Materialize(dflt, cue[o])
                 ELSE IF Queued(o) THEN cue[o] ELSE Imported(1, NoVoice)]
    /\ edit' = [edit EXCEPT ![e] = "cue"]
    /\ UNCHANGED <<exists, dflt, clips, library, run, holder>>

(* the file is written; PATCH defaults looks the script up once more *)
EditDone(e) ==
    /\ Quiet /\ edit[e] # "idle"
    /\ cue' = IF edit[e] = "defaults" /\ ~ exists THEN cue ELSE RefreshedCues
    /\ edit' = [edit EXCEPT ![e] = "idle"]
    /\ UNCHANGED <<script, clips, library, run, holder>>

(* GET /scripts/:id and both exports *)
GetScript ==
    /\ Quiet /\ exists
    /\ cue' = RefreshedCues
    /\ UNCHANGED <<script, clips, library, run, edit, holder>>

RemoveScript ==
    /\ Quiet /\ exists
    /\ exists' = FALSE
    /\ UNCHANGED <<list, dflt, cue, clips, library, run, edit, holder>>
-----------------------------------------------------------------------------
(* The rest of the gateway, and the vendor *)

DropClip(k) ==
    /\ Quiet /\ Cached(k)
    /\ clips' = [clips EXCEPT ![k] = "none"]
    /\ UNCHANGED <<script, cue, library, run, edit, holder>>

DeleteVoice(v) ==
    /\ Quiet /\ v \in library
    /\ library' = library \ {v}
    /\ UNCHANGED <<script, cue, clips, run, edit, holder>>

RestoreVoice(v) ==
    /\ Quiet /\ v \in Voices \ library
    /\ library' = library \cup {v}
    /\ UNCHANGED <<script, cue, clips, run, edit, holder>>

ConsoleAccepted ==
    /\ Quiet /\ holder = NoOne
    /\ holder' = Console
    /\ UNCHANGED <<script, cue, clips, library, run, edit>>

VendorFinishes ==
    /\ Quiet /\ holder \in {Console, Abandoned}
    /\ holder' = NoOne
    /\ UNCHANGED <<script, cue, clips, library, run, edit>>
-----------------------------------------------------------------------------
RunStep(r) ==
    \/ VisitUnrunnable(r) \/ VisitCached(r) \/ VisitGenerate(r)
    \/ VisitVoiceGone(r)
    \/ VoiceReady(r) \/ VoiceFails(r)
    \/ Accepted(r) \/ RefusedBusy(r) \/ Unavailable(r)
    \/ TimedOut(r) \/ BodyFails(r) \/ BodyDone(r)
    \/ PutDone(r) \/ FinishRun(r) \/ SaveDone(r)

Replace(e) ==
    \E n \in 0..MaxObjs :
      \E keep \in [1..n -> 1..Len(list)], said \in [1..n -> Texts], fresh \in [1..n -> Free] :
        ReplaceCues(e, keep, said, fresh)

EditStep ==
    \/ \E e \in Edits, id \in CueIds, t \in Texts, v \in VoiceOrNone : PatchCue(e, id, t, v)
    \/ \E e \in Edits, id \in CueIds, t \in Texts : PatchCueRefused(e, id, t)
    \/ \E e \in Edits, v \in VoiceOrNone : PatchDefaults(e, v)
    \/ \E e \in Edits : Replace(e)

Environment ==
    \/ GetScript \/ RemoveScript
    \/ \E k \in Key : DropClip(k)
    \/ \E v \in Voices : DeleteVoice(v) \/ RestoreVoice(v)
    \/ ConsoleAccepted \/ VendorFinishes

Next ==
    \/ \E r \in Runs : StartRun(r) \/ RunStep(r)
    \/ EditStep
    \/ \E e \in Edits : EditDone(e)
    \/ Environment

Spec == Init /\ [][Next]_vars

(* Every await of a run settles (files by the OS, the vendor by the        *)
(* request timeout) and Node takes settled continuations in order, so a    *)
(* run's next step is not postponed for ever by other handlers.            *)
FairSpec == Spec /\ \A r \in Runs : SF_vars(RunStep(r))

-----------------------------------------------------------------------------
(* Every variable has its type. *)
TypeOK ==
    /\ exists \in BOOLEAN
    /\ list \in Seq(Objs)
    /\ dflt \in VoiceOrNone
    /\ cue \in [Objs -> CueRec]
    /\ clips \in [Key -> Content]
    /\ library \in SUBSET Voices
    /\ run \in [Runs -> RunRec]
    /\ edit \in [Edits -> {"idle", "cue", "defaults"}]
    /\ holder \in Runs \cup {Console, Abandoned, NoOne}

(* Audio is filed under the clip id that names it, unless an edit changed  *)
(* the cue between the moment the run read it and the moment it stored the *)
(* result (synthesizeCue reads the text after one await, the clip id after *)
(* three).  Voice deletions, evictions, other runs, reloads and PUTs of    *)
(* the list never misfile a clip.                                          *)
UnracedClipIsRight ==
    \A r \in Runs : run[r].pc = "put" /\ ~ run[r].raced => run[r].key = Spoken(r)

(* What a cue inherits is never out of date in the record: after any edit  *)
(* of the defaults, of a cue or of the list, and whatever a run is doing,  *)
(* every listed cue carries the voice its override or the script names.    *)
ListedCuesCurrent ==
    \A i \in 1..Len(list) :
        cue[list[i]].voice = EffectiveVoice(dflt, cue[list[i]])

(* Why it is so: until an edit races it, the cue in flight keeps the text  *)
(* and voice the request was made of, and its clip id names them.          *)
AwaitingHasCue == \A r \in Runs : run[r].pc \in InFlight => run[r].todo # <<>>

UnracedInputsKept ==
    \A r \in Runs : run[r].pc \in InFlight /\ ~ run[r].raced =>
        /\ cue[Current(r)].voice = run[r].voice
        /\ cue[Current(r)].clip = ClipIdFor(cue[Current(r)])
        /\ run[r].pc # "voice" => run[r].spoken = cue[Current(r)].text

IInv == TypeOK /\ ListedCuesCurrent /\ AwaitingHasCue /\ UnracedInputsKept /\ UnracedClipIsRight

(* Nothing is left spinning: a cue shown as generating is in flight in     *)
(* some run, or is a copy a client PUT back whose refresh is still to      *)
(* come (runScript marks the row on every way out of synthesizeCue).       *)
GeneratingHasRunner ==
    \A i \in 1..Len(list) :
        cue[list[i]].state = "generating" =>
            \/ \E r \in Runs : run[r].pc \in InFlight /\ Current(r) = list[i]
            \/ \E e \in Edits : edit[e] # "idle"

(* A run that has been started always reaches its summary, whatever fails  *)
(* on the way (the catch of runScript goes on to the next cue).            *)
RunFinishes == \A r \in Runs : run[r].pc # "idle" ~> run[r].pc = "idle"

(* cue-queue.ts: running cues one at a time makes a 409 impossible.  A     *)
(* request that is about to reach the vendor never meets one of another    *)
(* script run.                                                             *)
RunsNeverContend ==
    \A r \in Runs : run[r].pc = "speech" => holder \notin Runs

(* script.ts: editing any input changes the clip id, and the new id is not *)
(* in the cache.  So a cached clip is always the speech its id names.      *)
CacheIsHonest == \A k \in Key : clips[k] # "wrong"

(* exportVtt: refuses when a cue has no generated audio to time.  The      *)
(* reply GET /export.vtt would send now, against the audio there is now.   *)
ExportVttAccepts == \A i \in 1..Len(list) : RefreshedCues[list[i]].timed

ExportWavAccepts ==
    \A i \in 1..Len(list) : Cached(RefreshedCues[list[i]].clip)

VttTimesRealAudio == exists /\ ExportVttAccepts => ExportWavAccepts

(* patchCue: only the edited cue's clip id changes. *)
PatchTouchesOneCue ==
    [][\A e \in Edits, id \in CueIds, t \in Texts, v \in VoiceOrNone :
         PatchCue(e, id, t, v) =>
            \A i \in 1..Len(list) :
               cue[list[i]].id # id => cue'[list[i]].clip = cue[list[i]].clip]_vars
=============================================================================
