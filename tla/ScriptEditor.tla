----------------------------- MODULE ScriptEditor -----------------------------
(* The script editor of the interface (ui/src/App.tsx, ui/src/state/script.ts)*)
(* over the gateway's script routes (gateway/src/index.ts, script.ts).       *)
(*                                                                           *)
(* Every edit is applied to the document on the screen at once and sent; the *)
(* whole document that answers it replaces the one on the screen, if no      *)
(* newer edit of the same cue was made. A run reports each cue on a stream.  *)
(* The calls travel on connections of their own: the gateway may take them,  *)
(* and the interface their answers, in any order, and each may be lost.      *)
(*                                                                           *)
(* As in ScriptRun, the voice stands for every delivery setting and a clip   *)
(* id is the pair it hashes. The scripts are WebVTT imports, which are never *)
(* reflowed; voices are not deleted and clips not evicted here (ScriptRun    *)
(* has both).                                                                *)
EXTENDS Naturals, Sequences, FiniteSets, SequencesExt

CONSTANTS
    Scripts,    \* documents
    First,      \* the one that exists before the session
    Size,       \* cues of a document
    Texts,      \* what a cue may say
    Blank,      \* what an imported cue says
    Voices,     \* voices a default or an override may name
    NoVoice,    \* no override; as a default, a described voice
    MaxCalls,   \* bound on the calls made in all
    MaxRuns,    \* bound on the runs started in all
    NoDoc       \* no document on the screen

ASSUME ScriptEditorAssumption ==
    /\ First \in Scripts /\ NoDoc \notin Scripts
    /\ Size \in Nat \ {0} /\ Blank \in Texts /\ NoVoice \notin Voices
    /\ MaxCalls \in Nat /\ MaxRuns \in Nat

Cues == 1..Size
VoiceOrNone == Voices \cup {NoVoice}
Clip == Texts \X VoiceOrNone
CueState == {"queued", "generating", "done", "stale", "failed"}

VARIABLES
    exists,     \* gateway: scripts in the store
    store,      \* gateway: the records
    voiced,     \* gateway: clip ids the cache holds
    job,        \* gateway: the cues a run has yet to visit, and the one in hand
    doc,        \* screen: the open document
    last,       \* screen: lastScriptId
    running,    \* screen: the Run button's flag, as the run's number
    edited,     \* screen: cues whose revision moved since the run started
    frames,     \* progress frames on their way, oldest first
    calls,      \* the calls in flight, oldest first
    sent, runs, \* counts of the calls and runs made
    raced       \* ghost: what happened out of order

gateway == <<exists, store, voiced, job>>
screen  == <<doc, last, running, edited>>
vars == <<gateway, screen, frames, calls, sent, runs, raced>>

-----------------------------------------------------------------------------
(* "answers": an answer or a frame passed the answer to an earlier call;     *)
(* "mixed": a call was made with one on its way about something else;        *)
(* "defaults": the defaults were changed during a run; "spoilt": the gateway *)
(* took a call before an earlier one, a call failed, or mixed answers raced. *)
RacedBy(races) ==
    LET all == raced \cup races
    IN IF "spoilt" \in all \/ {"answers", "mixed"} \subseteq all THEN {"spoilt"} ELSE all

Race(name, happens) == raced' = RacedBy(IF happens THEN {name} ELSE {})

-----------------------------------------------------------------------------
Effective(d, over) == IF over # NoVoice THEN over ELSE d
ClipOf(d, q) == <<q.text, Effective(d, q.over)>>

(* refreshScript: what a read of the record answers, and leaves in it.       *)
RefreshedCue(d, q) ==
    [q EXCEPT !.state = IF ClipOf(d, q) \in voiced THEN "done"
                        ELSE CASE @ = "failed" -> "failed"
                               [] @ = "done"   -> "stale"
                               [] OTHER        -> "queued"]

Refreshed(s) ==
    [store[s] EXCEPT !.cues = [c \in Cues |-> RefreshedCue(store[s].dflt, @[c])]]

(* A document as it is sent: the record and the clip id of every cue.        *)
Document(s, record) ==
    [id |-> s, dflt |-> record.dflt,
     cues |-> [c \in Cues |-> [text |-> record.cues[c].text,
                               over |-> record.cues[c].over,
                               state |-> record.cues[c].state,
                               clip |-> ClipOf(record.dflt, record.cues[c])]]]

Nothing == [id |-> NoDoc, dflt |-> NoVoice, cues |-> <<>>]
Imported == [dflt |-> NoVoice,
             cues |-> [c \in Cues |-> [text |-> Blank, over |-> NoVoice,
                                       state |-> "queued"]]]

Idle == [script |-> NoDoc, todo |-> <<>>, busy |-> FALSE]

\* The first document has been opened, as it is when it was the last one open.
Init ==
    /\ exists = {First} /\ store = [s \in Scripts |-> Imported] /\ voiced = {}
    /\ job = [r \in 1..MaxRuns |-> Idle]
    /\ doc = Document(First, Imported) /\ last = First /\ running = 0 /\ edited = {}
    /\ frames = <<>> /\ calls = <<>> /\ sent = 0 /\ runs = 0
    /\ raced = {}

-----------------------------------------------------------------------------
(* A change carried by an edit: a cue's text, its override, or the default.  *)
Change == [what : {"text"}, value : Texts] \cup [what : {"over"}, value : VoiceOrNone]

Patched(q, change) ==
    IF change.what = "text" THEN [q EXCEPT !.text = change.value]
                            ELSE [q EXCEPT !.over = change.value]

NoChange == [what |-> "over", value |-> NoVoice]

(* A call as it is made. "newest" is what comparing its revision with the    *)
(* latest one of its cue, or of the defaults, comes to.                      *)
Call(kind, s, c, change) ==
    [kind |-> kind, script |-> s, cue |-> c, change |-> change,
     newest |-> TRUE, at |-> "sent", reply |-> Nothing]

Superseded(kind, c, s) ==
    [i \in DOMAIN calls |->
        IF calls[i].kind = kind /\ calls[i].cue = c /\ (kind = "cue" => calls[i].script = s)
        THEN [calls[i] EXCEPT !.newest = FALSE] ELSE calls[i]]

Topic(call) == <<call.kind, call.script, call.cue>>

Races(call, others) ==
    {r \in {"mixed", "defaults"} :
        IF r = "defaults" THEN call.kind = "defaults" /\ running # 0
        ELSE \E i \in DOMAIN others : /\ others[i].kind # "run"
                                      /\ Topic(others[i]) # Topic(call)}

Send(call, others) ==
    /\ sent < MaxCalls /\ sent' = sent + 1
    /\ calls' = Append(others, call)
    /\ raced' = RacedBy(Races(call, others))

Open(s) ==
    /\ s \in exists
    /\ Send(Call("open", s, 0, NoChange), calls)
    /\ UNCHANGED <<gateway, screen, frames, runs>>

Import(s) ==
    /\ s \notin exists /\ \A i \in DOMAIN calls : calls[i].kind # "import"
    /\ Send(Call("import", s, 0, NoChange), calls)
    /\ UNCHANGED <<gateway, screen, frames, runs>>

(* editScriptCue: applyCuePatch makes the row stale whatever the edit is.    *)
EditCue(c, change) ==
    /\ doc.id # NoDoc /\ Patched(doc.cues[c], change) # doc.cues[c]
    /\ Send(Call("cue", doc.id, c, change), Superseded("cue", c, doc.id))
    /\ doc' = [doc EXCEPT !.cues[c] = [Patched(@, change) EXCEPT !.state = "stale"]]
    /\ edited' = edited \cup {<<doc.id, c>>}
    /\ UNCHANGED <<gateway, last, running, frames, runs>>

(* updateScriptDefaults: applyScriptDefaults makes stale the rows whose      *)
(* effective settings change. The clip ids stay those of the last document.  *)
EditDefaults(v) ==
    /\ doc.id # NoDoc /\ v # doc.dflt
    /\ Send(Call("defaults", doc.id, 0, [what |-> "over", value |-> v]),
            Superseded("defaults", 0, doc.id))
    /\ doc' = [doc EXCEPT !.dflt = v,
                          !.cues = [c \in Cues |->
                             IF Effective(v, @[c].over) = Effective(doc.dflt, @[c].over)
                             THEN @[c] ELSE [@[c] EXCEPT !.state = "stale"]]]
    /\ UNCHANGED <<gateway, last, running, edited, frames, runs>>

(* runCurrentScript, up to its request. The button is disabled in a run.     *)
Run ==
    /\ doc.id # NoDoc /\ running = 0 /\ runs < MaxRuns
    /\ runs' = runs + 1 /\ running' = runs + 1 /\ edited' = {}
    /\ LET call == Call("run", doc.id, runs + 1, NoChange)
       IN calls' = Append(calls, call) /\ raced' = RacedBy(Races(call, calls))
    /\ UNCHANGED <<gateway, doc, last, frames, sent>>

-----------------------------------------------------------------------------
(* The gateway. A handler that writes the record parks on the write, and     *)
(* answers with the record as it is when the write ends.                     *)
Passing(i, here) ==
    \E j \in 1..(i - 1) : calls[j].at \in (IF calls[j].kind = "run" THEN {"sent"} ELSE here)

(* patchCue and patchDefaults: a cue whose clip id moves becomes stale, and  *)
(* an edit gives a failed cue another chance.                                *)
EditedCue(d, q, change) ==
    LET p == Patched(q, change)
    IN [p EXCEPT !.state = CASE ClipOf(d, p) # ClipOf(d, q) -> "stale"
                             [] q.state = "failed" -> "queued"
                             [] OTHER -> @]

Inheriting(d, was, q) ==
    [q EXCEPT !.state = IF ClipOf(d, q) # ClipOf(was, q) THEN "stale" ELSE @]

Applied(call) ==
    LET old == store[call.script]
    IN CASE call.kind = "cue" ->
              [old EXCEPT !.cues[call.cue] = EditedCue(old.dflt, @, call.change)]
         [] call.kind = "defaults" ->
              [dflt |-> call.change.value,
               cues |-> [c \in Cues |->
                           Inheriting(call.change.value, old.dflt, old.cues[c])]]
         [] OTHER -> old

Handle(i) ==
    /\ calls[i].at = "sent" /\ calls[i].kind \in {"cue", "defaults", "import"}
    /\ store' = [store EXCEPT ![calls[i].script] = Applied(calls[i])]
    /\ exists' = exists \cup {calls[i].script}
    /\ calls' = [calls EXCEPT ![i].at = "held"]
    /\ Race("spoilt", Passing(i, {"sent"}))
    /\ UNCHANGED <<voiced, job, screen, frames, sent, runs>>

Answer(i) ==
    /\ calls[i].at = IF calls[i].kind \in {"open", "final"} THEN "sent" ELSE "held"
    /\ calls[i].kind # "run"
    /\ LET s == calls[i].script
           record == IF calls[i].kind = "import" THEN store[s] ELSE Refreshed(s)
       IN /\ store' = [store EXCEPT ![s] = record]
          /\ calls' = [calls EXCEPT ![i].at = "answered", ![i].reply = Document(s, record)]
    /\ raced' = RacedBy((IF Passing(i, {"sent"}) THEN {"spoilt"} ELSE {})
                       \cup (IF Passing(i, {"held"}) THEN {"answers"} ELSE {}))
    /\ UNCHANGED <<exists, voiced, job, screen, frames, sent, runs>>

(* POST run: the cue list as it is now is walked; the stream is open.        *)
StartRun(i) ==
    /\ calls[i].at = "sent" /\ calls[i].kind = "run"
    /\ job' = [job EXCEPT ![calls[i].cue] =
                 [script |-> calls[i].script, todo |-> [k \in Cues |-> k],
                  busy |-> FALSE]]
    /\ calls' = [calls EXCEPT ![i].at = "held"]
    /\ Race("spoilt", Passing(i, {"sent"}))
    /\ UNCHANGED <<exists, store, voiced, screen, frames, sent, runs>>


Emit(r, c, state) ==
    frames' = IF running = r THEN Append(frames, [cue |-> c, state |-> state]) ELSE frames

(* runScript, cue by cue: it parks while a clip is being made, and the clip  *)
(* is filed under the id the cue then has (ScriptRun: UnracedClipIsRight).   *)
Walking(r) == job[r].script # NoDoc /\ job[r].todo # <<>>
InHand(r) == Head(job[r].todo)
ClipInHand(r) ==
    ClipOf(store[job[r].script].dflt, store[job[r].script].cues[InHand(r)])

Mark(r, state, next) ==
    /\ store' = [store EXCEPT ![job[r].script].cues[InHand(r)].state = state]
    /\ job' = [job EXCEPT ![r] = next]
    /\ Emit(r, InHand(r), state)
    /\ UNCHANGED <<exists, screen, calls, sent, runs, raced>>

Advanced(r) == [job[r] EXCEPT !.todo = Tail(@), !.busy = FALSE]

Serve(r) ==
    /\ Walking(r) /\ ~ job[r].busy /\ ClipInHand(r) \in voiced
    /\ Mark(r, "done", Advanced(r))
    /\ UNCHANGED voiced

Generate(r) ==
    /\ Walking(r) /\ ~ job[r].busy /\ ClipInHand(r) \notin voiced
    /\ Mark(r, "generating", [job[r] EXCEPT !.busy = TRUE])
    /\ UNCHANGED voiced

Generated(r) ==
    /\ Walking(r) /\ job[r].busy
    /\ Mark(r, "done", Advanced(r))
    /\ voiced' = voiced \cup {ClipInHand(r)}

\* A bound: one cue at a time stands failed.
GenerationFails(r) ==
    /\ Walking(r) /\ job[r].busy
    /\ \A c \in Cues : store[job[r].script].cues[c].state # "failed"
    /\ Mark(r, "failed", Advanced(r))
    /\ UNCHANGED voiced

EndOfStream == 0

RunEnds(r) ==
    /\ job[r].script # NoDoc /\ job[r].todo = <<>>
    /\ job' = [job EXCEPT ![r] = Idle]
    /\ Emit(r, EndOfStream, "done")
    /\ UNCHANGED <<exists, store, voiced, screen, calls, sent, runs, raced>>

-----------------------------------------------------------------------------
(* The answers, as the interface takes them.                                 *)
Without(i) == RemoveAt(calls, i)
Taken(i, kinds) ==
    /\ calls[i].at = "answered" /\ calls[i].kind \in kinds
    /\ calls' = Without(i)
    /\ Race("answers", Passing(i, {"sent", "held", "answered"}))

TakeDocument(i) ==
    /\ Taken(i, {"open", "import"})
    /\ doc' = calls[i].reply /\ last' = calls[i].script
    /\ UNCHANGED <<gateway, running, edited, frames, sent, runs>>

\* mutant: the answer to an edit is shown though a newer edit was made
TakeEditAnyway(i) ==
    /\ Taken(i, {"cue", "defaults"})
    /\ doc' = calls[i].reply
    /\ UNCHANGED <<gateway, last, running, edited, frames, sent, runs>>

TakeEdit(i) ==
    /\ Taken(i, {"cue", "defaults"})
    /\ doc' = IF calls[i].newest THEN calls[i].reply ELSE doc
    /\ UNCHANGED <<gateway, last, running, edited, frames, sent, runs>>

(* The refresh at the end of a run, whichever document is open by then.      *)
TakeFinal(i) ==
    /\ Taken(i, {"final"})
    /\ doc' = calls[i].reply /\ running' = 0
    /\ UNCHANGED <<gateway, last, edited, frames, sent, runs>>

(* A call fails before or after the gateway has acted on it, at most one in  *)
(* a behaviour (a bound). An open that fails empties the screen; an edit     *)
(* that fails is not undone.                                                 *)
LoseCall(i) ==
    /\ calls[i].kind # "run" /\ "spoilt" \notin raced
    /\ calls' = Without(i) /\ Race("spoilt", TRUE)
    /\ IF calls[i].kind = "open" THEN doc' = Nothing /\ last' = NoDoc
                                 ELSE UNCHANGED <<doc, last>>
    /\ running' = IF calls[i].kind = "final" THEN 0 ELSE running
    /\ UNCHANGED <<gateway, edited, frames, sent, runs>>

RunCall(i) == calls[i].kind = "run" /\ calls[i].cue = running

\* mutant: a frame is applied to the row whatever was typed into it since
TakeFrameAnyway(i) ==
    /\ RunCall(i) /\ frames # <<>> /\ Head(frames).cue # EndOfStream
    /\ frames' = Tail(frames)
    /\ doc' = IF doc.id = calls[i].script
              THEN [doc EXCEPT !.cues[Head(frames).cue].state = Head(frames).state] ELSE doc
    /\ Race("answers", i # 1)
    /\ UNCHANGED <<gateway, last, running, edited, calls, sent, runs>>

(* applyRunProgress, and the check before it that the cue was not edited     *)
(* since the run began.                                                      *)
TakeFrame(i) ==
    /\ RunCall(i) /\ frames # <<>> /\ Head(frames).cue # EndOfStream
    /\ frames' = Tail(frames)
    /\ LET c == Head(frames).cue
       IN doc' = IF doc.id = calls[i].script /\ <<doc.id, c>> \notin edited
                 THEN [doc EXCEPT !.cues[c].state = Head(frames).state] ELSE doc
    /\ Race("answers", i # 1)
    /\ UNCHANGED <<gateway, last, running, edited, calls, sent, runs>>

(* The stream ends and the document is asked for.                            *)
TakeEnd(i) ==
    /\ RunCall(i) /\ frames # <<>> /\ Head(frames).cue = EndOfStream
    /\ frames' = <<>>
    /\ LET call == Call("final", calls[i].script, 0, NoChange)
       IN /\ calls' = Append(Without(i), call)
          /\ raced' = RacedBy((IF i # 1 THEN {"answers"} ELSE {})
                             \cup Races(call, Without(i)))
    /\ UNCHANGED <<gateway, screen, sent, runs>>

(* The stream breaks: the gateway goes on voicing, with nobody listening.    *)
LoseStream(i) ==
    /\ RunCall(i) /\ "spoilt" \notin raced
    /\ calls' = Without(i) /\ frames' = <<>> /\ Race("spoilt", TRUE)
    /\ running' = 0
    /\ UNCHANGED <<gateway, doc, last, edited, sent, runs>>

-----------------------------------------------------------------------------
Operator ==
    \/ \E s \in Scripts : Open(s) \/ Import(s)
    \/ \E c \in Cues, change \in Change : EditCue(c, change)
    \/ \E v \in VoiceOrNone : EditDefaults(v)
    \/ Run

Gateway ==
    \/ \E i \in DOMAIN calls : Handle(i) \/ Answer(i) \/ StartRun(i)
    \/ \E r \in 1..MaxRuns : Serve(r) \/ Generate(r) \/ Generated(r)
                             \/ GenerationFails(r) \/ RunEnds(r)

Interface ==
    \E i \in DOMAIN calls : TakeDocument(i) \/ TakeEdit(i) \/ TakeFinal(i)
                            \/ TakeFrame(i) \/ TakeEnd(i)

Network == \E i \in DOMAIN calls : LoseCall(i) \/ LoseStream(i)

Next == Operator \/ Gateway \/ Interface \/ Network

Spec == Init /\ [][Next]_vars

-----------------------------------------------------------------------------
TypeOK ==
    /\ exists \subseteq Scripts /\ voiced \subseteq Clip
    /\ \A s \in Scripts, c \in Cues :
          store[s].cues[c] \in [text : Texts, over : VoiceOrNone, state : CueState]
    /\ doc.id \in Scripts \cup {NoDoc} /\ last \in Scripts \cup {NoDoc}
    /\ \A c \in DOMAIN doc.cues :
          doc.cues[c] \in [text : Texts, over : VoiceOrNone, state : CueState, clip : Clip]
    /\ running \in 0..MaxRuns /\ edited \subseteq Scripts \X Cues

(* Once every answer is in and no run is open, the document on the screen is *)
(* the one the gateway keeps, row for row: the optimistic edits, the frames  *)
(* and the answers that replace the document leave nothing behind. Answers   *)
(* may arrive in any order while only one cue is being edited (the revision  *)
(* of editScriptCue); with several calls of different kinds on their way     *)
(* they have to arrive in order, and the gateway has to take the calls in    *)
(* order, and none may fail.                                                 *)
ScreenIsStored ==
    /\ calls = <<>> /\ running = 0 /\ doc.id # NoDoc
    /\ "spoilt" \notin raced
    => \/ doc = Document(doc.id, Refreshed(doc.id))
       \/ doc = Document(doc.id, Imported)     \* the answer to an import is not refreshed

(* A row shown done can be played and says what it shows: its clip is in the *)
(* cache, under the id of the row's own text and voice. Answers in order,    *)
(* and defaults left alone during a run.                                     *)
DoneRowPlays ==
    /\ TypeOK
    /\ raced \subseteq {"mixed"} =>
          \A c \in DOMAIN doc.cues :
              doc.cues[c].state = "done" =>
                  /\ doc.cues[c].clip \in voiced
                  /\ doc.cues[c].clip = ClipOf(doc.dflt, doc.cues[c])

-----------------------------------------------------------------------------
(* What the code does not keep.                                              *)

(* ScreenIsStored without its condition on the order: a cue's answer that    *)
(* arrives after that of a later edit of another cue takes it off the screen.*)
SettledIsStored ==
    calls = <<>> /\ running = 0 /\ doc.id # NoDoc
    => doc = Document(doc.id, Refreshed(doc.id)) \/ doc = Document(doc.id, Imported)

(* The document on the screen is the one last opened: the answer to an edit, *)
(* and the refresh that ends a run, put their own document back.             *)
OpenedIsShown == calls = <<>> /\ running = 0 => doc.id = last
=============================================================================
