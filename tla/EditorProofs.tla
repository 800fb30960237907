---------------------------- MODULE EditorProofs ----------------------------
(* ScriptEditor, for any number of scripts, cues, texts, voices, calls and *)
(* runs: what the screen and the replies on their way owe the record.      *)
(*                                                                         *)
(* Settled (one run at a time, its frames heard by its own call, calls and *)
(* stages in order) and Fresh (a script on its way in is as imported) say  *)
(* where the session stands. With the answers in order the last of them    *)
(* brings the screen into step (LastSyncs); while one thing is edited the  *)
(* newest of its edits does, in any order (Unmixed). Row by row, with the  *)
(* answers in order, a row that does not say what the record says has a    *)
(* newest edit still under way that will replace it (RowsFit), and a frame *)
(* that says done is about a clip in the cache (FramesFit).                *)
EXTENDS ScriptEditor, TLAPS

Kinds == {"open", "import", "cue", "defaults", "run", "final"}
Row == [text : Texts, over : VoiceOrNone, state : CueState, clip : Clip]
CueRecord == [text : Texts, over : VoiceOrNone, state : CueState]
Record == [dflt : VoiceOrNone, cues : [Cues -> CueRecord]]
Doc == [id : Scripts, dflt : VoiceOrNone, cues : [Cues -> Row]]
AnyCall == [kind : Kinds, script : Scripts, cue : Nat, change : Change, newest : BOOLEAN,
            at : {"sent", "held", "answered"}, reply : Doc \cup {Nothing}]

JobState == [script : Scripts \cup {NoDoc}, todo : Seq(Cues), busy : BOOLEAN]
Frame == [cue : {EndOfStream} \cup Cues, state : CueState]

WellMade(call) ==
    /\ call.kind = "cue" => call.cue \in Cues
    /\ call.kind = "run" => call.cue \in 1..MaxRuns
    /\ call.kind = "defaults" => call.change.what = "over"
    /\ call.at = "answered" =>
          call.kind # "run" /\ call.reply \in Doc /\ call.reply.id = call.script

Types ==
    /\ exists \subseteq Scripts /\ voiced \subseteq Clip
    /\ store \in [Scripts -> Record]
    /\ job \in [1..MaxRuns -> JobState]
    /\ doc \in Doc \cup {Nothing} /\ last \in Scripts \cup {NoDoc}
    /\ running \in 0..MaxRuns /\ runs \in 0..MaxRuns
    /\ edited \subseteq Scripts \X Cues
    /\ frames \in Seq(Frame)
    /\ calls \in Seq(AnyCall) /\ \A i \in DOMAIN calls : WellMade(calls[i])

-----------------------------------------------------------------------------
(* The calls in flight, after a step.                                      *)
Alike(a, b) == a.kind = b.kind /\ a.script = b.script /\ a.cue = b.cue /\ a.change = b.change

(* The gateway moved call i on; the others are as they were.               *)
Moved(i, stage) ==
    /\ i \in DOMAIN calls /\ DOMAIN calls' = DOMAIN calls
    /\ calls'[i].at = stage /\ Alike(calls'[i], calls[i])
    /\ calls'[i].newest = calls[i].newest
    /\ \A j \in DOMAIN calls : j # i => calls'[j] = calls[j]

(* A call was made, the last; it may have superseded others.               *)
Supersedes(new, call) ==
    /\ new.kind \in {"cue", "defaults"} /\ call.kind = new.kind /\ call.cue = new.cue
    /\ new.kind = "cue" => call.script = new.script

Added(new) ==
    /\ DOMAIN calls' = 1..(Len(calls) + 1) /\ calls'[Len(calls) + 1] = new
    /\ \A j \in DOMAIN calls : /\ Alike(calls'[j], calls[j]) /\ calls'[j].at = calls[j].at
                               /\ calls'[j].reply = calls[j].reply
                               /\ calls'[j].newest <=> calls[j].newest /\ ~ Supersedes(new, calls[j])

(* Where a call was, before call i was taken off the list.                 *)
Was(i, j) == IF j < i THEN j ELSE j + 1
Is(i, k) == IF k < i THEN k ELSE k - 1

Dropped(i, others) ==
    /\ i \in DOMAIN calls /\ others \in Seq(AnyCall)
    /\ DOMAIN others = 1..(Len(calls) - 1) /\ Len(others) = Len(calls) - 1
    /\ \A j \in DOMAIN others : /\ Was(i, j) \in DOMAIN calls \ {i}
                                /\ others[j] = calls[Was(i, j)]
    /\ \A k \in DOMAIN calls \ {i} : /\ Is(i, k) \in DOMAIN others
                                     /\ Was(i, Is(i, k)) = k /\ others[Is(i, k)] = calls[k]

(* What a call in flight is.                                               *)
LEMMA CallsAre ==
    ASSUME Types
    PROVE  /\ Len(calls) \in Nat /\ DOMAIN calls = 1..Len(calls)
           /\ \A i \in DOMAIN calls : calls[i] \in AnyCall
BY DEF Types

LEMMA MoveCall ==
    ASSUME Types, NEW i \in DOMAIN calls, NEW new \in AnyCall, NEW stage,
           Alike(new, calls[i]), new.newest = calls[i].newest, new.at = stage,
           calls' = [calls EXCEPT ![i] = new]
    PROVE  Moved(i, stage) /\ calls' \in Seq(AnyCall) /\ calls'[i] = new
<1>1. calls \in Seq(AnyCall)
  BY DEF Types
<1>2. /\ calls' \in Seq(AnyCall) /\ DOMAIN calls' = DOMAIN calls /\ calls'[i] = new
      /\ \A j \in DOMAIN calls : j # i => calls'[j] = calls[j]
  BY <1>1
<1> QED
  BY <1>2 DEF Moved

LEMMA HeldStep ==
    ASSUME Types, NEW i \in DOMAIN calls, calls' = [calls EXCEPT ![i].at = "held"]
    PROVE  Moved(i, "held") /\ calls' \in Seq(AnyCall) /\ calls'[i].reply = calls[i].reply
<1> DEFINE new == [calls[i] EXCEPT !.at = "held"]
<1>1. calls[i] \in AnyCall
  BY CallsAre
<1>2. /\ new \in AnyCall /\ Alike(new, calls[i]) /\ new.at = "held" /\ new.newest = calls[i].newest
      /\ new.reply = calls[i].reply
  BY <1>1 DEF AnyCall, Alike
<1>3. calls' = [calls EXCEPT ![i] = new]
  OBVIOUS
<1> HIDE DEF new
<1> QED
  BY <1>2, <1>3, MoveCall

LEMMA AppendRead ==
    ASSUME Types, NEW new \in AnyCall, new.kind \notin {"cue", "defaults"},
           calls' = Append(calls, new)
    PROVE  Added(new) /\ calls' \in Seq(AnyCall)
<1>1. \A j \in DOMAIN calls : Alike(calls[j], calls[j]) /\ ~ Supersedes(new, calls[j])
  BY DEF Alike, Supersedes
<1>2. calls \in Seq(AnyCall)
  BY DEF Types
<1> QED
  BY <1>1, <1>2 DEF Added

LEMMA AppendEdit ==
    ASSUME Types, NEW new \in AnyCall, new.kind \in {"cue", "defaults"},
           calls' = Append(Superseded(new.kind, new.cue, new.script), new)
    PROVE  Added(new) /\ calls' \in Seq(AnyCall)
<1> USE CallsAre
<1> DEFINE others == Superseded(new.kind, new.cue, new.script)
<1> DEFINE old(j) == [calls[j] EXCEPT !.newest = FALSE]
<1>1. \A j \in DOMAIN calls :
         /\ old(j) \in AnyCall /\ Alike(old(j), calls[j]) /\ old(j).at = calls[j].at
         /\ old(j).reply = calls[j].reply /\ old(j).newest = FALSE
  BY DEF AnyCall, Alike
<1>2. \A j \in DOMAIN calls : Alike(calls[j], calls[j])
  BY DEF Alike
<1> HIDE DEF old
<1>3. others = [j \in DOMAIN calls |-> IF Supersedes(new, calls[j]) THEN old(j) ELSE calls[j]]
  BY DEF Superseded, Supersedes, old
<1>4. others \in Seq(AnyCall) /\ DOMAIN others = DOMAIN calls /\ Len(others) = Len(calls)
  BY <1>1, <1>3
<1>5. \A j \in DOMAIN calls :
          /\ Alike(others[j], calls[j]) /\ others[j].at = calls[j].at
          /\ others[j].reply = calls[j].reply
          /\ others[j].newest <=> calls[j].newest /\ ~ Supersedes(new, calls[j])
  BY <1>1, <1>2, <1>3
<1> HIDE DEF others
<1>6. /\ calls' \in Seq(AnyCall) /\ DOMAIN calls' = 1..(Len(calls) + 1)
      /\ calls'[Len(calls) + 1] = new /\ \A j \in DOMAIN calls : calls'[j] = others[j]
  BY <1>4 DEF others
<1> QED
  BY <1>5, <1>6 DEF Added

(* What taking a call off the list leaves of it.                           *)
LEMMA DropStep ==
    ASSUME Types, NEW i \in DOMAIN calls
    PROVE  Dropped(i, Without(i))
<1> DEFINE n == Len(calls)
<1> DEFINE front == SubSeq(calls, 1, i - 1)
<1> DEFINE back == SubSeq(calls, i + 1, n)
<1>1. n \in Nat /\ i \in 1..n /\ calls \in Seq(AnyCall)
  BY DEF Types
<1>2. front \in Seq(AnyCall) /\ Len(front) = i - 1 /\ \A j \in 1..(i - 1) : front[j] = calls[j]
  BY <1>1
<1>3. back \in Seq(AnyCall) /\ Len(back) = n - i /\ \A j \in 1..(n - i) : back[j] = calls[j + i]
  BY <1>1
<1>4. Without(i) = front \o back
  BY DEF Without, RemoveAt
<1> HIDE DEF front, back
<1>5. Without(i) \in Seq(AnyCall) /\ Len(Without(i)) = n - 1
  BY <1>1, <1>2, <1>3, <1>4
<1>6. \A j \in 1..(n - 1) : Without(i)[j] = calls[Was(i, j)]
  <2> TAKE j \in 1..(n - 1)
  <2>1. CASE j < i
    BY <1>1, <1>2, <1>3, <1>4, <2>1 DEF Was
  <2>2. CASE j >= i
    <3>1. j \in Nat /\ i \in Nat /\ n \in Nat /\ j >= i /\ j <= n - 1
      BY <1>1, <2>2
    <3>2. /\ j \in 1..(Len(front) + Len(back)) /\ j > Len(front)
          /\ j - Len(front) = j - i + 1
      BY <1>2, <1>3, <3>1
    <3>3. (front \o back)[j] = back[j - Len(front)]
      BY <1>2, <1>3, <3>2, SMTT(30)
    <3>4. j - i + 1 \in 1..(n - i) /\ j - i + 1 + i = j + 1
      BY <3>1
    <3>5. \A m \in 1..(n - i) : m + i = j + 1 => back[m] = calls[j + 1]
      BY <1>3
    <3>6. Was(i, j) = j + 1
      BY <3>1 DEF Was
    <3> QED
      BY <1>4, <3>2, <3>3, <3>4, <3>5, <3>6
  <2> QED
    BY <1>1, <2>1, <2>2
<1>7. \A j \in 1..(n - 1) : Was(i, j) \in DOMAIN calls \ {i}
  BY <1>1 DEF Was
<1>8. \A k \in DOMAIN calls \ {i} : Is(i, k) \in 1..(n - 1) /\ Was(i, Is(i, k)) = k
  BY <1>1 DEF Was, Is
<1>9. \A k \in DOMAIN calls \ {i} : Without(i)[Is(i, k)] = calls[k]
  BY <1>6, <1>8
<1>10. DOMAIN Without(i) = 1..(n - 1)
  BY <1>1, <1>5
<1> HIDE DEF n
<1> QED
  BY <1>1, <1>5, <1>6, <1>7, <1>8, <1>9, <1>10 DEF Dropped, n

(* Order is kept.                                                          *)
LEMMA WasKeepsOrder ==
    ASSUME NEW i \in Nat, NEW j \in Nat, NEW k \in Nat
    PROVE  (j < k) <=> (Was(i, j) < Was(i, k))
BY DEF Was

-----------------------------------------------------------------------------
(* What a record and a document are.                                       *)
LEMMA ClipTyped ==
    ASSUME NEW d \in VoiceOrNone, NEW q, q.text \in Texts, q.over \in VoiceOrNone
    PROVE  ClipOf(d, q) \in Clip
BY DEF ClipOf, Effective, Clip

LEMMA RefreshedIs ==
    ASSUME Types, NEW s \in Scripts
    PROVE  /\ Refreshed(s) \in Record /\ Refreshed(s).dflt = store[s].dflt
           /\ \A c \in Cues :
                /\ Refreshed(s).cues[c].text = store[s].cues[c].text
                /\ Refreshed(s).cues[c].over = store[s].cues[c].over
                /\ ClipOf(Refreshed(s).dflt, Refreshed(s).cues[c])
                     = ClipOf(store[s].dflt, store[s].cues[c])
                /\ Refreshed(s).cues[c] = RefreshedCue(store[s].dflt, store[s].cues[c])
                /\ Refreshed(s).cues[c].state = "done" =>
                     ClipOf(store[s].dflt, store[s].cues[c]) \in voiced
<1>1. store[s] \in Record /\ \A c \in Cues : store[s].cues[c] \in CueRecord
  BY DEF Types, Record
<1> DEFINE new == [c \in Cues |-> RefreshedCue(store[s].dflt, store[s].cues[c])]
<1>2. Refreshed(s) = [store[s] EXCEPT !.cues = new]
  BY DEF Refreshed
<1>3. \A c \in Cues :
         /\ RefreshedCue(store[s].dflt, store[s].cues[c]) \in CueRecord
         /\ RefreshedCue(store[s].dflt, store[s].cues[c]).text = store[s].cues[c].text
         /\ RefreshedCue(store[s].dflt, store[s].cues[c]).over = store[s].cues[c].over
         /\ RefreshedCue(store[s].dflt, store[s].cues[c]).state = "done" =>
                     ClipOf(store[s].dflt, store[s].cues[c]) \in voiced
  BY <1>1 DEF RefreshedCue, CueRecord, CueState
<1>4. /\ new \in [Cues -> CueRecord]
      /\ \A c \in Cues : new[c] = RefreshedCue(store[s].dflt, store[s].cues[c])
  BY <1>3
<1> HIDE DEF new
<1>5. /\ Refreshed(s) \in Record /\ Refreshed(s).dflt = store[s].dflt
      /\ Refreshed(s).cues = new
  BY <1>1, <1>2, <1>4 DEF Record
<1>6. \A c \in Cues : /\ Refreshed(s).cues[c].text = store[s].cues[c].text
                      /\ Refreshed(s).cues[c].over = store[s].cues[c].over
  BY <1>3, <1>4, <1>5
<1>7. \A c \in Cues : ClipOf(Refreshed(s).dflt, Refreshed(s).cues[c])
                        = ClipOf(store[s].dflt, store[s].cues[c])
  BY <1>5, <1>6 DEF ClipOf
<1> QED
  BY <1>3, <1>4, <1>5, <1>6, <1>7

LEMMA DocumentIs ==
    ASSUME NEW s \in Scripts, NEW record \in Record
    PROVE  /\ Document(s, record) \in Doc /\ Document(s, record).id = s
           /\ Document(s, record).dflt = record.dflt
           /\ DOMAIN Document(s, record).cues = Cues
           /\ \A c \in Cues :
                /\ Document(s, record).cues[c].text = record.cues[c].text
                /\ Document(s, record).cues[c].over = record.cues[c].over
                /\ Document(s, record).cues[c].state = record.cues[c].state
                /\ Document(s, record).cues[c].clip = ClipOf(record.dflt, record.cues[c])
<1> DEFINE row(c) == [text |-> record.cues[c].text, over |-> record.cues[c].over,
                      state |-> record.cues[c].state, clip |-> ClipOf(record.dflt, record.cues[c])]
<1>1. record.dflt \in VoiceOrNone /\ \A c \in Cues : record.cues[c] \in CueRecord
  BY DEF Record
<1>2. \A c \in Cues : ClipOf(record.dflt, record.cues[c]) \in Clip
  BY <1>1, ClipTyped DEF CueRecord
<1>3. \A c \in Cues : /\ row(c) \in Row /\ row(c).text = record.cues[c].text
                      /\ row(c).over = record.cues[c].over
                      /\ row(c).state = record.cues[c].state
                      /\ row(c).clip = ClipOf(record.dflt, record.cues[c])
  BY <1>1, <1>2 DEF Row, CueRecord
<1>4. Document(s, record) = [id |-> s, dflt |-> record.dflt, cues |-> [c \in Cues |-> row(c)]]
  BY DEF Document
<1> HIDE DEF row
<1> QED
  BY <1>1, <1>3, <1>4 DEF Doc

LEMMA ImportedIs == Imported \in Record /\ \A c \in Cues : Imported.cues[c].state = "queued"
<1>1. /\ Imported.dflt = NoVoice
      /\ Imported.cues = [c \in Cues |-> [text |-> Blank, over |-> NoVoice, state |-> "queued"]]
  BY DEF Imported
<1> QED
  BY ScriptEditorAssumption DEF Imported, Record, CueRecord, CueState, VoiceOrNone

LEMMA ChangeIs ==
    ASSUME NEW change \in Change
    PROVE  /\ change.what \in {"text", "over"}
           /\ change.what = "text" => change.value \in Texts
           /\ change.what = "over" => change.value \in VoiceOrNone
BY DEF Change

(* patchCue and patchDefaults leave a record.                              *)
LEMMA AppliedIs ==
    ASSUME Types, NEW call \in AnyCall, WellMade(call)
    PROVE  Applied(call) \in Record
<1> DEFINE old == store[call.script]
<1>0. call.kind \in Kinds /\ call.script \in Scripts /\ call.change \in Change
  BY DEF AnyCall
<1>1. old \in Record /\ old.dflt \in VoiceOrNone /\ old.cues \in [Cues -> CueRecord]
  BY <1>0 DEF Types, Record
<1>2. CASE call.kind = "cue"
  <2>1. call.cue \in Cues
    BY <1>2 DEF WellMade
  <2>2. Applied(call) = [old EXCEPT !.cues[call.cue] = EditedCue(old.dflt, @, call.change)]
    BY <1>2 DEF Applied
  <2>3. old.cues[call.cue] \in CueRecord
    BY <1>1, <2>1
  <2>4. EditedCue(old.dflt, old.cues[call.cue], call.change) \in CueRecord
    <3> DEFINE p == Patched(old.cues[call.cue], call.change)
    <3>1. p \in CueRecord
      BY <1>0, <2>3, ChangeIs DEF Patched, CueRecord
    <3> HIDE DEF p
    <3>2. EditedCue(old.dflt, old.cues[call.cue], call.change)
            = [p EXCEPT !.state = CASE ClipOf(old.dflt, p) # ClipOf(old.dflt, old.cues[call.cue]) -> "stale"
                             [] old.cues[call.cue].state = "failed" -> "queued"
                             [] OTHER -> @]
      BY DEF EditedCue, p
    <3> QED
      BY <3>1, <3>2 DEF CueRecord, CueState
  <2> HIDE DEF old
  <2> QED
    BY <1>1, <2>1, <2>2, <2>4 DEF Record
<1>3. CASE call.kind = "defaults"
  <2>1. call.change.value \in VoiceOrNone
    BY <1>0, <1>3, ChangeIs DEF WellMade
  <2>2. Applied(call) = [dflt |-> call.change.value,
               cues |-> [c \in Cues |-> Inheriting(call.change.value, old.dflt, old.cues[c])]]
    BY <1>3 DEF Applied
  <2>3. \A c \in Cues : Inheriting(call.change.value, old.dflt, old.cues[c]) \in CueRecord
    BY <1>1 DEF Inheriting, CueRecord, CueState
  <2> HIDE DEF old
  <2> QED
    BY <1>1, <2>1, <2>2, <2>3 DEF Record
<1>4. CASE call.kind \notin {"cue", "defaults"}
  BY <1>1, <1>4 DEF Applied
<1> QED
  BY <1>2, <1>3, <1>4

LEMMA NoChangeIs == NoChange \in Change
BY DEF NoChange, Change, VoiceOrNone

LEMMA CuesAre == Cues \subseteq Nat /\ 0 \notin Cues /\ 1 \in Cues
BY ScriptEditorAssumption DEF Cues

(* How the calls are typed after a step.                                   *)
LEMMA MovedTyped ==
    ASSUME Types, NEW i, NEW stage \in {"held", "answered"}, Moved(i, stage),
           stage = "answered" =>
              calls[i].kind # "run" /\ calls'[i].reply \in Doc /\ calls'[i].reply.id = calls[i].script
    PROVE  \A j \in DOMAIN calls' : WellMade(calls'[j])
<1>1. i \in DOMAIN calls /\ WellMade(calls[i]) /\ \A j \in DOMAIN calls : WellMade(calls[j])
  BY DEF Moved, Types
<1>2. WellMade(calls'[i])
  BY <1>1 DEF Moved, WellMade, Alike
<1> QED
  BY <1>1, <1>2 DEF Moved

LEMMA AddedTyped ==
    ASSUME Types, NEW new, WellMade(new), Added(new)
    PROVE  \A j \in DOMAIN calls' : WellMade(calls'[j])
<1>1. \A j \in DOMAIN calls' : j \in DOMAIN calls \/ j = Len(calls) + 1
  BY CallsAre DEF Added
<1>2. \A j \in DOMAIN calls : WellMade(calls[j])
  BY DEF Types
<1>3. \A j \in DOMAIN calls : WellMade(calls'[j])
  BY <1>2 DEF Added, WellMade, Alike
<1> QED
  BY <1>1, <1>3 DEF Added

LEMMA DroppedTyped ==
    ASSUME Types, NEW i, NEW others, Dropped(i, others)
    PROVE  \A j \in DOMAIN others : WellMade(others[j])
BY DEF Types, Dropped

(* Send, and the calls that are made.                                      *)
LEMMA EditCueCall ==
    ASSUME Types, NEW c \in Cues, NEW change \in Change, EditCue(c, change)
    PROVE  /\ doc \in Doc /\ doc.cues[c] \in Row
           /\ Added(Call("cue", doc.id, c, change)) /\ calls' \in Seq(AnyCall)
           /\ WellMade(Call("cue", doc.id, c, change))
<1>1. doc \in Doc /\ doc.id \in Scripts /\ doc.cues[c] \in Row
  BY DEF EditCue, Types, Nothing, Doc
<1> DEFINE new == Call("cue", doc.id, c, change)
<1>2. /\ new \in AnyCall /\ new.kind = "cue" /\ new.script = doc.id /\ new.cue = c
      /\ new.at = "sent"
  BY <1>1, CuesAre DEF Call, AnyCall, Kinds
<1>3. calls' = Append(Superseded("cue", c, doc.id), new)
  BY DEF EditCue, Send
<1> HIDE DEF new
<1>4. Added(new) /\ calls' \in Seq(AnyCall)
  BY <1>2, <1>3, AppendEdit
<1>5. WellMade(new)
  BY <1>2 DEF WellMade
<1> QED
  BY <1>1, <1>4, <1>5 DEF new

LEMMA EditDefaultsCall ==
    ASSUME Types, NEW v \in VoiceOrNone, EditDefaults(v)
    PROVE  LET new == Call("defaults", doc.id, 0, [what |-> "over", value |-> v])
           IN doc \in Doc /\ Added(new) /\ calls' \in Seq(AnyCall) /\ WellMade(new)
<1>1. doc \in Doc /\ doc.id \in Scripts
  BY DEF EditDefaults, Types, Nothing, Doc
<1> DEFINE change == [what |-> "over", value |-> v]
<1> DEFINE new == Call("defaults", doc.id, 0, change)
<1>2. change \in Change /\ change.what = "over"
  BY DEF Change
<1>3. /\ new \in AnyCall /\ new.kind = "defaults" /\ new.script = doc.id /\ new.cue = 0
      /\ new.at = "sent" /\ new.change = change
  BY <1>1, <1>2 DEF Call, AnyCall, Kinds
<1>4. calls' = Append(Superseded("defaults", 0, doc.id), new)
  BY DEF EditDefaults, Send
<1> HIDE DEF new
<1>5. Added(new) /\ calls' \in Seq(AnyCall)
  BY <1>3, <1>4, AppendEdit
<1>6. WellMade(new)
  BY <1>2, <1>3 DEF WellMade
<1> QED
  BY <1>1, <1>5, <1>6 DEF new

LEMMA ReadCall ==
    ASSUME Types, NEW kind \in {"open", "import"}, NEW s \in Scripts,
           Send(Call(kind, s, 0, NoChange), calls)
    PROVE  LET new == Call(kind, s, 0, NoChange)
           IN Added(new) /\ calls' \in Seq(AnyCall) /\ WellMade(new)
<1> DEFINE new == Call(kind, s, 0, NoChange)
<1>1. new \in AnyCall /\ new.kind = kind /\ new.at = "sent"
  BY NoChangeIs DEF Call, AnyCall, Kinds
<1>2. calls' = Append(calls, new)
  BY DEF Send
<1> HIDE DEF new
<1>3. Added(new) /\ calls' \in Seq(AnyCall)
  BY <1>1, <1>2, AppendRead
<1>4. WellMade(new)
  BY <1>1 DEF WellMade
<1> QED
  BY <1>3, <1>4 DEF new

LEMMA RunCallMade ==
    ASSUME Types, Run
    PROVE  LET new == Call("run", doc.id, runs + 1, NoChange)
           IN /\ doc \in Doc /\ Added(new) /\ calls' \in Seq(AnyCall) /\ WellMade(new)
              /\ runs + 1 \in 1..MaxRuns
<1>1. doc \in Doc /\ doc.id \in Scripts
  BY DEF Run, Types, Nothing, Doc
<1>2. runs + 1 \in 1..MaxRuns
  BY ScriptEditorAssumption DEF Run, Types
<1> DEFINE new == Call("run", doc.id, runs + 1, NoChange)
<1>3. /\ new \in AnyCall /\ new.kind = "run" /\ new.cue = runs + 1 /\ new.at = "sent"
  BY <1>1, <1>2, NoChangeIs DEF Call, AnyCall, Kinds
<1>4. calls' = Append(calls, new)
  BY DEF Run
<1> HIDE DEF new
<1>5. Added(new) /\ calls' \in Seq(AnyCall)
  BY <1>3, <1>4, AppendRead
<1>6. WellMade(new)
  BY <1>2, <1>3 DEF WellMade
<1> QED
  BY <1>1, <1>2, <1>5, <1>6 DEF new

LEMMA HandleCall ==
    ASSUME Types, NEW i \in DOMAIN calls, Handle(i)
    PROVE  Moved(i, "held") /\ calls' \in Seq(AnyCall)
BY HeldStep DEF Handle

LEMMA StartRunCall ==
    ASSUME Types, NEW i \in DOMAIN calls, StartRun(i)
    PROVE  Moved(i, "held") /\ calls' \in Seq(AnyCall)
BY HeldStep DEF StartRun

(* The answer is the record as it is, read again but for an import.        *)
Said(i) == IF calls[i].kind = "import" THEN store[calls[i].script] ELSE Refreshed(calls[i].script)

LEMMA AnswerCall ==
    ASSUME Types, NEW i \in DOMAIN calls, Answer(i)
    PROVE  /\ calls[i].script \in Scripts /\ Said(i) \in Record
           /\ Moved(i, "answered") /\ calls' \in Seq(AnyCall)
           /\ calls'[i].reply = Document(calls[i].script, Said(i))
           /\ Document(calls[i].script, Said(i)) \in Doc
           /\ store' = [store EXCEPT ![calls[i].script] = Said(i)]
<1>1. calls[i].script \in Scripts
  BY CallsAre DEF AnyCall
<1>2. Said(i) \in Record
  BY <1>1, RefreshedIs DEF Said, Types
<1>3. Document(calls[i].script, Said(i)) \in Doc
  BY <1>1, <1>2, DocumentIs
<1>4. /\ calls' = [calls EXCEPT ![i].at = "answered", ![i].reply = Document(calls[i].script, Said(i))]
      /\ store' = [store EXCEPT ![calls[i].script] = Said(i)]
  BY DEF Answer, Said
<1> DEFINE answer == Document(calls[i].script, Said(i))
<1>5. answer \in Doc /\ calls' = [calls EXCEPT ![i].at = "answered", ![i].reply = answer]
  BY <1>3, <1>4
<1> HIDE DEF answer
<1>6. Moved(i, "answered") /\ calls' \in Seq(AnyCall) /\ calls'[i].reply = answer
  <2> DEFINE new == [[calls[i] EXCEPT !.at = "answered"] EXCEPT !.reply = answer]
  <2>1. calls[i] \in AnyCall
    BY CallsAre
  <2>2. /\ new \in AnyCall /\ Alike(new, calls[i]) /\ new.at = "answered"
        /\ new.newest = calls[i].newest /\ new.reply = answer
    BY <1>5, <2>1 DEF AnyCall, Alike
  <2>3. calls' = [calls EXCEPT ![i] = new]
    BY <1>5
  <2> HIDE DEF new
  <2>4. Moved(i, "answered") /\ calls' \in Seq(AnyCall) /\ calls'[i] = new
    BY <2>2, <2>3, MoveCall
  <2> QED
    BY <2>2, <2>4
<1> QED
  BY <1>1, <1>2, <1>3, <1>4, <1>6 DEF answer

-----------------------------------------------------------------------------
(* Types, action by action.                                                *)
LEMMA DroppedTypes ==
    ASSUME Types, NEW i \in DOMAIN calls, calls' = Without(i)
    PROVE  /\ Dropped(i, calls') /\ calls' \in Seq(AnyCall)
           /\ \A j \in DOMAIN calls' : WellMade(calls'[j])
<1>1. Dropped(i, calls')
  BY DropStep
<1> QED
  BY <1>1, DroppedTyped DEF Dropped

(* TakeEnd: the run's call gives way to the refresh.                       *)
FinalCall(i) == Call("final", calls[i].script, 0, NoChange)

LEMMA EndCalls ==
    ASSUME Types, NEW i \in DOMAIN calls, calls' = Append(Without(i), FinalCall(i))
    PROVE  /\ Dropped(i, Without(i)) /\ calls' \in Seq(AnyCall)
           /\ \A j \in DOMAIN calls' : WellMade(calls'[j])
           /\ DOMAIN calls' = 1..Len(calls) /\ calls'[Len(calls)] = FinalCall(i)
           /\ \A j \in 1..(Len(calls) - 1) : calls'[j] = Without(i)[j]
           /\ FinalCall(i).kind = "final" /\ FinalCall(i).at = "sent"
           /\ FinalCall(i).script = calls[i].script /\ FinalCall(i).newest = TRUE
           /\ FinalCall(i).cue = 0
<1> DEFINE others == Without(i)
<1> DEFINE new == FinalCall(i)
<1>1. Dropped(i, others) /\ others \in Seq(AnyCall) /\ Len(others) = Len(calls) - 1
  BY DropStep DEF Dropped
<1>2. /\ new \in AnyCall /\ new.kind = "final" /\ new.at = "sent" /\ new.newest = TRUE
      /\ new.script = calls[i].script /\ new.cue = 0
  BY CallsAre, NoChangeIs DEF Call, FinalCall, AnyCall, Kinds
<1>3. Len(calls) \in Nat /\ calls' = Append(others, new)
  BY CallsAre
<1> HIDE DEF others, new
<1>4. /\ calls' \in Seq(AnyCall) /\ DOMAIN calls' = 1..Len(calls) /\ calls'[Len(calls)] = new
      /\ \A j \in 1..(Len(calls) - 1) : calls'[j] = others[j]
  BY <1>1, <1>2, <1>3
<1>5. \A j \in DOMAIN others : WellMade(others[j])
  BY <1>1, DroppedTyped
<1>6. WellMade(new)
  BY <1>2 DEF WellMade
<1>7. \A j \in DOMAIN calls' : WellMade(calls'[j])
  BY <1>1, <1>3, <1>4, <1>5, <1>6
<1> QED
  BY <1>1, <1>2, <1>4, <1>7 DEF others, new

LEMMA RowEdited ==
    ASSUME NEW row \in Row, NEW change \in Change
    PROVE  [Patched(row, change) EXCEPT !.state = "stale"] \in Row
BY ChangeIs DEF Row, Patched, CueState

(* What Mark leaves of the gateway.                                        *)
LEMMA MarkTypes ==
    ASSUME Types, NEW r \in 1..MaxRuns, Walking(r), NEW state \in CueState, NEW next,
           next \in {[job[r] EXCEPT !.busy = TRUE], Advanced(r)}, Mark(r, state, next)
    PROVE  /\ store' \in [Scripts -> Record]
           /\ job' \in [1..MaxRuns -> JobState]
           /\ frames' \in Seq(Frame)
           /\ job[r].script \in Scripts /\ InHand(r) \in Cues
           /\ UNCHANGED <<exists, screen, calls, runs>>
<1>1. job[r] \in JobState
  BY DEF Types
<1>2. job[r].script \in Scripts /\ InHand(r) \in Cues /\ Tail(job[r].todo) \in Seq(Cues)
  BY <1>1 DEF JobState, Walking, InHand
<1>3. next \in JobState
  <2>1. [job[r] EXCEPT !.busy = TRUE] \in JobState
    BY <1>1 DEF JobState
  <2> DEFINE rest == Tail(job[r].todo)
  <2>2. Advanced(r) = [[job[r] EXCEPT !.todo = rest] EXCEPT !.busy = FALSE]
    BY DEF Advanced
  <2>3. rest \in Seq(Cues)
    BY <1>2
  <2> HIDE DEF rest
  <2>4. [job[r] EXCEPT !.todo = rest] \in JobState
    BY <1>1, <2>3 DEF JobState
  <2>5. Advanced(r) \in JobState
    BY <2>2, <2>4 DEF JobState
  <2> QED
    BY <2>1, <2>5
<1>4. store' \in [Scripts -> Record]
  <2> DEFINE s == job[r].script
  <2> DEFINE q == [store[s].cues[InHand(r)] EXCEPT !.state = state]
  <2> DEFINE cues == [store[s].cues EXCEPT ![InHand(r)] = q]
  <2> DEFINE record == [store[s] EXCEPT !.cues = cues]
  <2>1. store[s] \in Record /\ store[s].cues \in [Cues -> CueRecord]
    BY <1>2 DEF Types, Record
  <2>2. q \in CueRecord
    BY <1>2, <2>1 DEF CueRecord
  <2>3. cues \in [Cues -> CueRecord]
    <3> HIDE DEF q
    <3> QED
      BY <2>1, <2>2
  <2>4. record \in Record
    <3> HIDE DEF cues
    <3> QED
      BY <2>1, <2>3 DEF Record
  <2>5. store' = [store EXCEPT ![s] = record]
    BY DEF Mark
  <2> HIDE DEF record
  <2> QED
    BY <1>2, <2>4, <2>5 DEF Types
<1>5. job' \in [1..MaxRuns -> JobState]
  BY <1>3 DEF Mark, Types
<1>6. frames' \in Seq(Frame)
  <2> DEFINE frame == [cue |-> InHand(r), state |-> state]
  <2>1. frame \in Frame /\ frames \in Seq(Frame)
    BY <1>2 DEF Types, Frame
  <2>2. frames' = IF running = r THEN Append(frames, frame) ELSE frames
    BY DEF Mark, Emit
  <2> HIDE DEF frame
  <2> QED
    BY <2>1, <2>2
<1> QED
  BY <1>2, <1>4, <1>5, <1>6 DEF Mark

(* The first document is open and nothing is on its way.                   *)
LEMMA TypesInit == Init => Types
<1> SUFFICES ASSUME Init PROVE Types
  OBVIOUS
<1> USE ScriptEditorAssumption
<1>1. store \in [Scripts -> Record] /\ voiced \subseteq Clip /\ exists \subseteq Scripts
  BY ImportedIs DEF Init
<1>2. Idle \in JobState
  BY DEF Idle, JobState
<1>3. job \in [1..MaxRuns -> JobState]
  BY <1>2 DEF Init
<1>4. doc \in Doc /\ last \in Scripts
  BY ImportedIs, DocumentIs DEF Init
<1>5. running \in 0..MaxRuns /\ runs \in 0..MaxRuns /\ edited \subseteq Scripts \X Cues
  BY DEF Init
<1>6. /\ frames \in Seq(Frame)
      /\ calls \in Seq(AnyCall) /\ \A i \in DOMAIN calls : WellMade(calls[i])
  BY DEF Init
<1> QED
  BY <1>1, <1>3, <1>4, <1>5, <1>6 DEF Types

LEMMA OperatorTypes == ASSUME Types, Operator PROVE Types'
<1> USE DEF gateway, screen
<1>1. ASSUME NEW s \in Scripts, Open(s) PROVE Types'
  <2>1. Send(Call("open", s, 0, NoChange), calls)
    BY <1>1 DEF Open
  <2>2. calls' \in Seq(AnyCall) /\ \A j \in DOMAIN calls' : WellMade(calls'[j])
    BY <2>1, ReadCall, AddedTyped
  <2> QED
    BY <1>1, <2>2 DEF Open, Types
<1>2. ASSUME NEW s \in Scripts, Import(s) PROVE Types'
  <2>1. Send(Call("import", s, 0, NoChange), calls)
    BY <1>2 DEF Import
  <2>2. calls' \in Seq(AnyCall) /\ \A j \in DOMAIN calls' : WellMade(calls'[j])
    BY <2>1, ReadCall, AddedTyped
  <2> QED
    BY <1>2, <2>2 DEF Import, Types
<1>3. ASSUME NEW c \in Cues, NEW change \in Change, EditCue(c, change) PROVE Types'
  <2>1. /\ doc \in Doc /\ doc.cues[c] \in Row
        /\ calls' \in Seq(AnyCall) /\ \A j \in DOMAIN calls' : WellMade(calls'[j])
    BY <1>3, EditCueCall, AddedTyped
  <2> DEFINE row == [Patched(doc.cues[c], change) EXCEPT !.state = "stale"]
  <2> DEFINE cues == [doc.cues EXCEPT ![c] = row]
  <2>2. row \in Row
    BY <2>1, RowEdited
  <2>3. cues \in [Cues -> Row]
    <3> HIDE DEF row
    <3> QED
      BY <2>1, <2>2 DEF Doc
  <2>4. doc' = [doc EXCEPT !.cues = cues]
    BY <1>3 DEF EditCue
  <2>5. doc' \in Doc
    <3> HIDE DEF cues
    <3> QED
      BY <2>1, <2>3, <2>4 DEF Doc
  <2>6. edited' \subseteq Scripts \X Cues
    BY <1>3, <2>1 DEF EditCue, Types, Doc
  <2> QED
    BY <1>3, <2>1, <2>5, <2>6 DEF EditCue, Types
<1>4. ASSUME NEW v \in VoiceOrNone, EditDefaults(v) PROVE Types'
  <2>1. /\ doc \in Doc
        /\ calls' \in Seq(AnyCall) /\ \A j \in DOMAIN calls' : WellMade(calls'[j])
    BY <1>4, EditDefaultsCall, AddedTyped
  <2> DEFINE cues == [c \in Cues |->
                        IF Effective(v, doc.cues[c].over) = Effective(doc.dflt, doc.cues[c].over)
                        THEN doc.cues[c] ELSE [doc.cues[c] EXCEPT !.state = "stale"]]
  <2>2. doc.cues \in [Cues -> Row]
    BY <2>1 DEF Doc
  <2>3. cues \in [Cues -> Row]
    BY <2>2 DEF Row, CueState
  <2>4. doc' = [[doc EXCEPT !.dflt = v] EXCEPT !.cues = cues]
    BY <1>4 DEF EditDefaults
  <2>5. doc' \in Doc
    <3> HIDE DEF cues
    <3> QED
      BY <2>1, <2>3, <2>4 DEF Doc
  <2> QED
    BY <1>4, <2>1, <2>5 DEF EditDefaults, Types
<1>5. ASSUME Run PROVE Types'
  <2>1. /\ calls' \in Seq(AnyCall) /\ \A j \in DOMAIN calls' : WellMade(calls'[j])
        /\ runs + 1 \in 1..MaxRuns
    BY <1>5, RunCallMade, AddedTyped
  <2> QED
    BY <1>5, <2>1 DEF Run, Types
<1> QED
  BY <1>1, <1>2, <1>3, <1>4, <1>5 DEF Operator

LEMMA GatewayTypes == ASSUME Types, Gateway PROVE Types'
<1> USE DEF gateway, screen
<1>1. ASSUME NEW i \in DOMAIN calls, Handle(i) PROVE Types'
  <2>1. calls' \in Seq(AnyCall) /\ \A j \in DOMAIN calls' : WellMade(calls'[j])
    BY <1>1, HandleCall, MovedTyped
  <2>2. calls[i] \in AnyCall /\ calls[i].script \in Scripts /\ Applied(calls[i]) \in Record
    BY AppliedIs, CallsAre DEF Types, AnyCall
  <2>3. store' \in [Scripts -> Record] /\ exists' \subseteq Scripts
    BY <1>1, <2>2 DEF Handle, Types
  <2> QED
    BY <1>1, <2>1, <2>3 DEF Handle, Types
<1>2. ASSUME NEW i \in DOMAIN calls, Answer(i) PROVE Types'
  <2>1. /\ Moved(i, "answered") /\ calls' \in Seq(AnyCall) /\ calls'[i].reply \in Doc
        /\ calls'[i].reply.id = calls[i].script
        /\ Said(i) \in Record /\ store' = [store EXCEPT ![calls[i].script] = Said(i)]
    BY <1>2, AnswerCall, DocumentIs
  <2>2. \A j \in DOMAIN calls' : WellMade(calls'[j])
    <3>1. calls[i].kind # "run"
      BY <1>2, Zenon DEF Answer
    <3> QED
      BY <2>1, <3>1, MovedTyped
  <2>3. store' \in [Scripts -> Record]
    BY <2>1 DEF Types
  <2> QED
    BY <1>2, <2>1, <2>2, <2>3 DEF Answer, Types
<1>3. ASSUME NEW i \in DOMAIN calls, StartRun(i) PROVE Types'
  <2>1. calls' \in Seq(AnyCall) /\ \A j \in DOMAIN calls' : WellMade(calls'[j])
    BY <1>3, StartRunCall, MovedTyped
  <2> DEFINE todo == [k \in Cues |-> k]
  <2> DEFINE started == [script |-> calls[i].script, todo |-> todo, busy |-> FALSE]
  <2>2. todo \in Seq(Cues)
    BY ScriptEditorAssumption DEF Cues
  <2>3. started \in JobState
    <3> HIDE DEF todo
    <3> QED
      BY <2>2, CallsAre DEF AnyCall, JobState
  <2>4. job' = [job EXCEPT ![calls[i].cue] = started]
    BY <1>3 DEF StartRun
  <2> HIDE DEF started
  <2>5. job' \in [1..MaxRuns -> JobState]
    BY <2>3, <2>4 DEF Types
  <2> QED
    BY <1>3, <2>1, <2>5 DEF StartRun, Types
<1>4. ASSUME NEW r \in 1..MaxRuns, Serve(r) PROVE Types'
  <2>1. Walking(r) /\ Mark(r, "done", Advanced(r))
    BY <1>4 DEF Serve
  <2> QED
    BY <1>4, <2>1, MarkTypes DEF Serve, Types, CueState
<1>5. ASSUME NEW r \in 1..MaxRuns, Generate(r) PROVE Types'
  <2>1. Walking(r) /\ Mark(r, "generating", [job[r] EXCEPT !.busy = TRUE])
    BY <1>5 DEF Generate
  <2> QED
    BY <1>5, <2>1, MarkTypes DEF Generate, Types, CueState
<1>6. ASSUME NEW r \in 1..MaxRuns, Generated(r) PROVE Types'
  <2>1. Walking(r) /\ Mark(r, "done", Advanced(r)) /\ voiced' = voiced \cup {ClipInHand(r)}
    BY <1>6 DEF Generated
  <2>2. job[r].script \in Scripts /\ InHand(r) \in Cues
    BY <2>1, MarkTypes DEF CueState
  <2>3. ClipInHand(r) \in Clip
    BY <2>2, ClipTyped DEF ClipInHand, Types, Record, CueRecord
  <2> QED
    BY <2>1, <2>3, MarkTypes DEF Types, CueState
<1>7. ASSUME NEW r \in 1..MaxRuns, GenerationFails(r) PROVE Types'
  <2>1. Walking(r) /\ Mark(r, "failed", Advanced(r))
    BY <1>7 DEF GenerationFails
  <2> QED
    BY <1>7, <2>1, MarkTypes DEF GenerationFails, Types, CueState
<1>8. ASSUME NEW r \in 1..MaxRuns, RunEnds(r) PROVE Types'
  <2>1. Idle \in JobState
    BY DEF Idle, JobState
  <2>2. job' \in [1..MaxRuns -> JobState]
    BY <1>8, <2>1 DEF RunEnds, Types
  <2> DEFINE frame == [cue |-> EndOfStream, state |-> "done"]
  <2>3. frame \in Frame /\ frames \in Seq(Frame)
    BY DEF Types, Frame, CueState
  <2>4. frames' = IF running = r THEN Append(frames, frame) ELSE frames
    BY <1>8 DEF RunEnds, Emit
  <2> HIDE DEF frame
  <2>5. frames' \in Seq(Frame)
    BY <2>3, <2>4
  <2> QED
    BY <1>8, <2>2, <2>5 DEF RunEnds, Types
<1> QED
  BY <1>1, <1>2, <1>3, <1>4, <1>5, <1>6, <1>7, <1>8 DEF Gateway

LEMMA TakenTypes ==
    ASSUME Types, NEW i \in DOMAIN calls, calls[i].at = "answered"
    PROVE  /\ calls[i].reply \in Doc /\ calls[i].script \in Scripts
           /\ calls[i].reply.id = calls[i].script
           /\ calls[i].kind # "run"
BY CallsAre DEF Types, WellMade, AnyCall

LEMMA InterfaceTypes == ASSUME Types, Interface \/ Network PROVE Types'
<1> USE DEF gateway, screen
<1>1. ASSUME NEW i \in DOMAIN calls, TakeDocument(i) PROVE Types'
  BY <1>1, DroppedTypes, TakenTypes DEF TakeDocument, Taken, Types
<1>2. ASSUME NEW i \in DOMAIN calls, TakeEdit(i) PROVE Types'
  BY <1>2, DroppedTypes, TakenTypes DEF TakeEdit, Taken, Types
<1>3. ASSUME NEW i \in DOMAIN calls, TakeFinal(i) PROVE Types'
  BY <1>3, DroppedTypes, TakenTypes, ScriptEditorAssumption DEF TakeFinal, Taken, Types
<1>4. ASSUME NEW i \in DOMAIN calls, TakeFrame(i) PROVE Types'
  <2>1. Head(frames) \in Frame /\ Tail(frames) \in Seq(Frame) /\ Head(frames).cue # EndOfStream
    BY <1>4 DEF TakeFrame, Types
  <2>2. Head(frames).cue \in Cues /\ Head(frames).state \in CueState
    BY <2>1 DEF Frame
  <2>3. doc' \in Doc \cup {Nothing}
    <3>1. CASE doc' = doc
      BY <3>1 DEF Types
    <3>2. CASE doc' # doc
      <4> DEFINE c == Head(frames).cue
      <4>1. doc.id = calls[i].script /\ doc' = [doc EXCEPT !.cues[c].state = Head(frames).state]
        BY <1>4, <3>2 DEF TakeFrame
      <4>2. doc \in Doc
        <5>1. calls[i].script \in Scripts /\ NoDoc \notin Scripts
          BY CallsAre, ScriptEditorAssumption DEF AnyCall
        <5>2. doc = Nothing => doc.id = NoDoc
          BY DEF Nothing
        <5> QED
          BY <4>1, <5>1, <5>2 DEF Types
      <4> DEFINE row == [doc.cues[c] EXCEPT !.state = Head(frames).state]
      <4> DEFINE cues == [doc.cues EXCEPT ![c] = row]
      <4>3. row \in Row
        BY <2>2, <4>2 DEF Doc, Row
      <4>4. cues \in [Cues -> Row]
        <5> HIDE DEF row
        <5> QED
          BY <4>2, <4>3 DEF Doc
      <4>5. doc' = [doc EXCEPT !.cues = cues]
        BY <4>1
      <4> HIDE DEF cues
      <4> QED
        BY <4>2, <4>4, <4>5 DEF Doc
    <3> QED
      BY <3>1, <3>2
  <2> QED
    BY <1>4, <2>1, <2>3 DEF TakeFrame, Types
<1>5. ASSUME NEW i \in DOMAIN calls, TakeEnd(i) PROVE Types'
  <2>1. calls' = Append(Without(i), FinalCall(i))
    BY <1>5 DEF TakeEnd, FinalCall
  <2>2. calls' \in Seq(AnyCall) /\ \A j \in DOMAIN calls' : WellMade(calls'[j])
    BY <2>1, EndCalls
  <2> QED
    BY <1>5, <2>2 DEF TakeEnd, Types
<1>6. ASSUME NEW i \in DOMAIN calls, LoseCall(i) PROVE Types'
  <2>1. calls' \in Seq(AnyCall) /\ \A j \in DOMAIN calls' : WellMade(calls'[j])
    BY <1>6, DroppedTypes DEF LoseCall
  <2>2. running' \in 0..MaxRuns /\ last' \in Scripts \cup {NoDoc} /\ doc' \in Doc \cup {Nothing}
    BY <1>6, ScriptEditorAssumption DEF LoseCall, Types
  <2> QED
    BY <1>6, <2>1, <2>2 DEF LoseCall, Types
<1>7. ASSUME NEW i \in DOMAIN calls, LoseStream(i) PROVE Types'
  BY <1>7, DroppedTypes, ScriptEditorAssumption DEF LoseStream, Types
<1> QED
  BY <1>1, <1>2, <1>3, <1>4, <1>5, <1>6, <1>7 DEF Interface, Network

(* Every step keeps the types.                                             *)
LEMMA TypesNext == ASSUME Types, [Next]_vars PROVE Types'
<1>1. CASE UNCHANGED vars
  BY <1>1 DEF vars, gateway, screen, Types
<1> QED
  BY <1>1, OperatorTypes, GatewayTypes, InterfaceTypes DEF Next

-----------------------------------------------------------------------------
(* What the gateway's steps leave of a cue.                                *)
SameInputs(s, c) ==
    /\ store'[s].dflt = store[s].dflt
    /\ store'[s].cues[c].text = store[s].cues[c].text
    /\ store'[s].cues[c].over = store[s].cues[c].over

Stored(s, c) == ClipOf(store[s].dflt, store[s].cues[c])

LEMMA SameInputsSameClip ==
    ASSUME NEW s, NEW c, SameInputs(s, c)
    PROVE  Stored(s, c)' = Stored(s, c)
BY DEF SameInputs, Stored, ClipOf

(* A cue's edit is of that cue; of the others it leaves everything.        *)
LEMMA AppliedCue ==
    ASSUME Types, NEW call \in AnyCall, WellMade(call), call.kind = "cue"
    PROVE  LET old == store[call.script]
               new == Applied(call)
           IN /\ new.dflt = old.dflt
              /\ \A c \in Cues \ {call.cue} : new.cues[c] = old.cues[c]
              /\ new.cues[call.cue].state = "done" =>
                    /\ old.cues[call.cue].state = "done"
                    /\ ClipOf(new.dflt, new.cues[call.cue]) = ClipOf(old.dflt, old.cues[call.cue])
<1> DEFINE old == store[call.script]
<1> DEFINE q == old.cues[call.cue]
<1> DEFINE p == Patched(q, call.change)
<1>1. call.cue \in Cues /\ call.script \in Scripts /\ call.change \in Change
  BY DEF WellMade, AnyCall
<1>2. old \in Record /\ old.cues \in [Cues -> CueRecord] /\ q \in CueRecord
  BY <1>1 DEF Types, Record
<1>3. p \in CueRecord /\ p.state = q.state
  BY <1>1, <1>2, ChangeIs DEF Patched, CueRecord
<1>4. Applied(call) = [old EXCEPT !.cues[call.cue] = EditedCue(old.dflt, @, call.change)]
  BY DEF Applied
<1> DEFINE edit == EditedCue(old.dflt, q, call.change)
<1>5. edit = [p EXCEPT !.state = CASE ClipOf(old.dflt, p) # ClipOf(old.dflt, q) -> "stale"
                             [] q.state = "failed" -> "queued"
                             [] OTHER -> @]
  BY DEF EditedCue
<1> HIDE DEF p, edit
<1>6. /\ edit.text = p.text /\ edit.over = p.over
      /\ edit.state = "done" => q.state = "done" /\ ClipOf(old.dflt, p) = ClipOf(old.dflt, q)
  BY <1>3, <1>5 DEF CueRecord
<1>7. ClipOf(old.dflt, edit) = ClipOf(old.dflt, p)
  BY <1>6 DEF ClipOf
<1> HIDE DEF q, old
<1>8. Applied(call) = [old EXCEPT !.cues = [old.cues EXCEPT ![call.cue] = edit]]
  BY <1>4 DEF edit, q
<1>9. /\ Applied(call).dflt = old.dflt
      /\ Applied(call).cues[call.cue] = edit
      /\ \A c \in Cues \ {call.cue} : Applied(call).cues[c] = old.cues[c]
  BY <1>1, <1>2, <1>8 DEF Record
<1> QED
  BY <1>6, <1>7, <1>9 DEF q, old

(* An edit of the defaults leaves what the cues say and override.          *)
LEMMA AppliedDefaults ==
    ASSUME Types, NEW call \in AnyCall, call.kind = "defaults"
    PROVE  LET old == store[call.script]
               new == Applied(call)
           IN \A c \in Cues :
                 /\ new.cues[c].text = old.cues[c].text /\ new.cues[c].over = old.cues[c].over
                 /\ new.cues[c].state = "done" =>
                       /\ old.cues[c].state = "done"
                       /\ ClipOf(new.dflt, new.cues[c]) = ClipOf(old.dflt, old.cues[c])
<1> DEFINE old == store[call.script]
<1> DEFINE v == call.change.value
<1> DEFINE cue(c) == Inheriting(v, old.dflt, old.cues[c])
<1>1. old \in Record /\ old.cues \in [Cues -> CueRecord]
  BY DEF Types, Record, AnyCall
<1>2. \A c \in Cues :
         /\ cue(c).text = old.cues[c].text /\ cue(c).over = old.cues[c].over
         /\ cue(c).state = "done" =>
               old.cues[c].state = "done" /\ ClipOf(v, old.cues[c]) = ClipOf(old.dflt, old.cues[c])
  BY <1>1 DEF Inheriting, CueRecord
<1>3. \A c \in Cues : ClipOf(v, cue(c)) = ClipOf(v, old.cues[c])
  <2> HIDE DEF cue
  <2> QED
    BY <1>2 DEF ClipOf
<1>4. Applied(call) = [dflt |-> v, cues |-> [c \in Cues |-> cue(c)]]
  BY DEF Applied
<1> HIDE DEF cue
<1>5. Applied(call).dflt = v /\ \A c \in Cues : Applied(call).cues[c] = cue(c)
  BY <1>4
<1> QED
  BY <1>2, <1>3, <1>5

LEMMA HandleStore ==
    ASSUME Types, NEW i \in DOMAIN calls, Handle(i)
    PROVE  /\ calls[i].script \in Scripts /\ store' \in [Scripts -> Record]
           /\ calls[i].kind \in {"cue", "defaults", "import"} /\ calls[i].at = "sent"
           /\ calls[i] \in AnyCall /\ WellMade(calls[i])
           /\ store'[calls[i].script] = Applied(calls[i])
           /\ \A s \in Scripts : s # calls[i].script => store'[s] = store[s]
           /\ calls[i].kind = "import" => store' = store
           /\ UNCHANGED voiced
<1>1. calls[i].script \in Scripts /\ calls[i] \in AnyCall /\ WellMade(calls[i])
  BY CallsAre DEF AnyCall, Types
<1>2. Applied(calls[i]) \in Record
  BY <1>1, AppliedIs
<1>3. /\ store' = [store EXCEPT ![calls[i].script] = Applied(calls[i])]
      /\ calls[i].kind \in {"cue", "defaults", "import"} /\ calls[i].at = "sent"
      /\ UNCHANGED voiced
  BY DEF Handle
<1>4. calls[i].kind = "import" => Applied(calls[i]) = store[calls[i].script]
  BY DEF Applied
<1> QED
  BY <1>1, <1>2, <1>3, <1>4 DEF Types

LEMMA HandleInputs ==
    ASSUME Types, NEW i \in DOMAIN calls, Handle(i), NEW s \in Scripts, NEW c \in Cues,
           ~ (s = calls[i].script /\ calls[i].kind = "defaults"),
           ~ (s = calls[i].script /\ calls[i].kind = "cue" /\ c = calls[i].cue)
    PROVE  SameInputs(s, c)
BY HandleStore, AppliedCue DEF SameInputs

LEMMA AnswerStore ==
    ASSUME Types, NEW i \in DOMAIN calls, Answer(i)
    PROVE  /\ store' \in [Scripts -> Record]
           /\ store'[calls[i].script] = Said(i)
           /\ \A s \in Scripts : s # calls[i].script => store'[s] = store[s]
           /\ UNCHANGED voiced
           /\ \A s \in Scripts, c \in Cues : SameInputs(s, c)
<1>1. /\ calls[i].script \in Scripts /\ Said(i) \in Record
      /\ store' = [store EXCEPT ![calls[i].script] = Said(i)]
  BY AnswerCall
<1>2. \A c \in Cues : /\ Said(i).dflt = store[calls[i].script].dflt
                      /\ Said(i).cues[c].text = store[calls[i].script].cues[c].text
                      /\ Said(i).cues[c].over = store[calls[i].script].cues[c].over
  BY <1>1, RefreshedIs DEF Said
<1>3. /\ store' \in [Scripts -> Record] /\ store'[calls[i].script] = Said(i)
      /\ \A s \in Scripts : s # calls[i].script => store'[s] = store[s]
  BY <1>1 DEF Types
<1>4. UNCHANGED voiced
  BY DEF Answer
<1> QED
  BY <1>2, <1>3, <1>4 DEF SameInputs

LEMMA MarkStore ==
    ASSUME Types, NEW r \in 1..MaxRuns, Walking(r), NEW state \in CueState, NEW next,
           Mark(r, state, next)
    PROVE  /\ job[r].script \in Scripts /\ InHand(r) \in Cues
           /\ \A s \in Scripts, c \in Cues : SameInputs(s, c)
           /\ \A s \in Scripts, c \in Cues :
                 \/ store'[s].cues[c] = store[s].cues[c]
                 \/ s = job[r].script /\ c = InHand(r) /\ store'[s].cues[c].state = state
<1> DEFINE h == job[r].script
<1> DEFINE n == InHand(r)
<1> DEFINE q == [store[h].cues[n] EXCEPT !.state = state]
<1> DEFINE cues == [store[h].cues EXCEPT ![n] = q]
<1>1. job[r] \in JobState
  BY DEF Types
<1>2. h \in Scripts /\ n \in Cues
  BY <1>1 DEF JobState, Walking, InHand
<1>3. /\ store[h] \in Record /\ store[h].cues \in [Cues -> CueRecord]
      /\ store[h].cues[n] \in CueRecord
  BY <1>2 DEF Types, Record
<1>4. q.text = store[h].cues[n].text /\ q.over = store[h].cues[n].over /\ q.state = state
  BY <1>3 DEF CueRecord
<1>5. store' = [store EXCEPT ![h] = [store[h] EXCEPT !.cues = cues]]
  BY DEF Mark
<1> HIDE DEF q
<1>6. cues[n] = q /\ \A c \in Cues : c # n => cues[c] = store[h].cues[c]
  BY <1>2, <1>3
<1> HIDE DEF cues
<1>7. store'[h].cues = cues /\ store'[h].dflt = store[h].dflt
      /\ \A s \in Scripts : s # h => store'[s] = store[s]
  BY <1>2, <1>3, <1>5 DEF Types, Record
<1> HIDE DEF h, n
<1>8. \A s \in Scripts, c \in Cues : SameInputs(s, c)
  BY <1>2, <1>4, <1>6, <1>7 DEF SameInputs
<1>9. \A s \in Scripts, c \in Cues :
                 \/ store'[s].cues[c] = store[s].cues[c]
                 \/ s = h /\ c = n /\ store'[s].cues[c].state = state
  BY <1>2, <1>4, <1>6, <1>7
<1> QED
  BY <1>2, <1>8, <1>9 DEF h, n

-----------------------------------------------------------------------------
(* A cue that is done has its clip in the cache (runScript,                *)
(* refreshScript, patchCue).                                               *)
DoneIsVoiced == \A s \in Scripts, c \in Cues :
    store[s].cues[c].state = "done" => Stored(s, c) \in voiced

(* A clip id moves only with the text or the voice, and the state with it. *)
LEMMA DoneNext == ASSUME Types, DoneIsVoiced, [Next]_vars PROVE DoneIsVoiced'
<1> SUFFICES ASSUME NEW s \in Scripts, NEW c \in Cues, store'[s].cues[c].state = "done"
             PROVE  Stored(s, c)' \in voiced'
  BY DEF DoneIsVoiced
<1>0. store[s].cues[c].state = "done" => Stored(s, c) \in voiced
  BY DEF DoneIsVoiced
<1>1. CASE store' = store /\ voiced' = voiced
  BY <1>0, <1>1 DEF Stored
<1>2. ASSUME NEW i \in DOMAIN calls, Handle(i) PROVE Stored(s, c)' \in voiced'
  <2>1. UNCHANGED voiced
    BY <1>2, HandleStore
  <2>2. CASE s = calls[i].script /\ calls[i].kind = "cue" /\ c = calls[i].cue
    BY <1>0, <1>2, <2>1, <2>2, HandleStore, AppliedCue DEF Stored
  <2>3. CASE s = calls[i].script /\ calls[i].kind = "defaults"
    BY <1>0, <1>2, <2>1, <2>3, HandleStore, AppliedDefaults DEF Stored
  <2>4. CASE s # calls[i].script \/ calls[i].kind = "import"
    BY <1>0, <1>2, <2>1, <2>4, HandleStore DEF Stored
  <2>5. CASE s = calls[i].script /\ calls[i].kind = "cue" /\ c # calls[i].cue
    BY <1>0, <1>2, <2>1, <2>5, HandleStore, AppliedCue DEF Stored
  <2> QED
    BY <1>2, <2>2, <2>3, <2>4, <2>5, HandleStore
<1>3. ASSUME NEW i \in DOMAIN calls, Answer(i) PROVE Stored(s, c)' \in voiced'
  <2>1. /\ Stored(s, c)' = Stored(s, c) /\ voiced' = voiced
    BY <1>3, AnswerStore, SameInputsSameClip
  <2>2. CASE s # calls[i].script \/ calls[i].kind = "import"
    BY <1>0, <1>3, <2>1, <2>2, AnswerStore DEF Said
  <2>3. CASE s = calls[i].script /\ calls[i].kind # "import"
    <3>1. store'[s] = Refreshed(s)
      BY <1>3, <2>3, AnswerStore DEF Said
    <3> QED
      BY <2>1, <3>1, RefreshedIs DEF Stored
  <2> QED
    BY <2>2, <2>3
<1>4. ASSUME NEW r \in 1..MaxRuns, Walking(r), NEW state \in CueState, NEW next,
             Mark(r, state, next), voiced \subseteq voiced',
             state = "done" => Stored(job[r].script, InHand(r)) \in voiced'
      PROVE  Stored(s, c)' \in voiced'
  <2>1. Stored(s, c)' = Stored(s, c)
    BY <1>4, MarkStore, SameInputsSameClip
  <2>2. \/ store'[s].cues[c] = store[s].cues[c]
        \/ s = job[r].script /\ c = InHand(r) /\ store'[s].cues[c].state = state
    BY <1>4, MarkStore
  <2> QED
    BY <1>0, <1>4, <2>1, <2>2
<1>5. ASSUME NEW r \in 1..MaxRuns, Serve(r) \/ Generated(r) PROVE Stored(s, c)' \in voiced'
  <2>1. /\ Walking(r) /\ Mark(r, "done", Advanced(r)) /\ voiced \subseteq voiced'
        /\ ClipInHand(r) \in voiced'
    BY <1>5 DEF Serve, Generated
  <2> QED
    BY <1>4, <2>1 DEF ClipInHand, Stored, CueState
<1>6. ASSUME NEW r \in 1..MaxRuns, Generate(r) PROVE Stored(s, c)' \in voiced'
  <2>1. Walking(r) /\ Mark(r, "generating", [job[r] EXCEPT !.busy = TRUE]) /\ voiced' = voiced
    BY <1>6 DEF Generate
  <2> QED
    BY <1>4, <2>1 DEF CueState
<1>7. ASSUME NEW r \in 1..MaxRuns, GenerationFails(r) PROVE Stored(s, c)' \in voiced'
  <2>1. Walking(r) /\ Mark(r, "failed", Advanced(r)) /\ voiced' = voiced
    BY <1>7 DEF GenerationFails
  <2> QED
    BY <1>4, <2>1 DEF CueState
<1>8. ASSUME Operator PROVE store' = store /\ voiced' = voiced
  BY <1>8, Zenon DEF Operator, gateway, Open, Import, EditCue, EditDefaults, Run
<1>9. ASSUME Interface PROVE store' = store /\ voiced' = voiced
  BY <1>9, Zenon DEF Interface, gateway, TakeDocument, TakeEdit, TakeFinal, TakeFrame, TakeEnd
<1>10. ASSUME Network PROVE store' = store /\ voiced' = voiced
  BY <1>10, Zenon DEF Network, gateway, LoseCall, LoseStream
<1>11. ASSUME \/ UNCHANGED vars
              \/ \E i \in DOMAIN calls : StartRun(i)
              \/ \E r \in 1..MaxRuns : RunEnds(r)
       PROVE  store' = store /\ voiced' = voiced
  BY <1>11, Zenon DEF vars, gateway, StartRun, RunEnds
<1> QED
  BY <1>1, <1>2, <1>3, <1>5, <1>6, <1>7, <1>8, <1>9, <1>10, <1>11 DEF Next, Gateway

-----------------------------------------------------------------------------
(* What happened out of order, when a step leaves the session unspoilt.    *)
LEMMA RacedIs ==
    ASSUME NEW races, raced' = RacedBy(races), "spoilt" \notin raced'
    PROVE  /\ "spoilt" \notin raced /\ "spoilt" \notin races
           /\ raced' = raced \cup races
           /\ ~ ("answers" \in raced' /\ "mixed" \in raced')
<1> DEFINE all == raced \cup races
<1>1. raced' = IF "spoilt" \in all \/ {"answers", "mixed"} \subseteq all THEN {"spoilt"} ELSE all
  BY DEF RacedBy
<1>2. ~ ("spoilt" \in all \/ {"answers", "mixed"} \subseteq all)
  BY <1>1
<1>3. raced' = all
  BY <1>1, <1>2
<1> QED
  BY <1>2, <1>3

LEMMA RaceIs ==
    ASSUME NEW name, NEW happens \in BOOLEAN, Race(name, happens), "spoilt" \notin raced'
    PROVE  /\ "spoilt" \notin raced
           /\ raced \subseteq raced' /\ raced' \subseteq raced \cup {name}
           /\ happens => name \in raced'
           /\ ~ happens => raced' = raced
           /\ ~ ("answers" \in raced' /\ "mixed" \in raced')
<1> DEFINE races == IF happens THEN {name} ELSE {}
<1>1. raced' = RacedBy(races)
  BY DEF Race
<1> HIDE DEF races
<1>2. /\ "spoilt" \notin raced /\ raced' = raced \cup races
      /\ ~ ("answers" \in raced' /\ "mixed" \in raced')
  BY <1>1, RacedIs
<1> QED
  BY <1>2 DEF races

Sent(i) == calls[i].at = "sent"
Answered(i) == calls[i].at = "answered"
IsEdit(i) == calls[i].kind \in {"cue", "defaults"}
IsRun(i) == calls[i].kind = "run"
IsLast(i) == calls[i].kind \in {"run", "final"}
NoRun == \A i \in DOMAIN calls : ~ IsRun(i)
Active(r) == job[r].script # NoDoc

LEMMA PassingIs ==
    ASSUME Types, NEW i \in DOMAIN calls
    PROVE  /\ ~ Passing(i, {"sent"}) => \A j \in DOMAIN calls : j < i => ~ Sent(j)
           /\ ~ Passing(i, {"held"}) =>
                \A j \in DOMAIN calls : j < i /\ ~ IsRun(j) => calls[j].at # "held"
           /\ ~ Passing(i, {"sent", "held", "answered"}) =>
                \A j \in DOMAIN calls : j < i => IsRun(j)
           /\ Passing(i, {"sent"}) \in BOOLEAN /\ Passing(i, {"held"}) \in BOOLEAN
           /\ Passing(i, {"sent", "held", "answered"}) \in BOOLEAN
<1>1. \A j \in DOMAIN calls : calls[j].at \in {"sent", "held", "answered"}
  BY CallsAre DEF AnyCall
<1>2. \A j \in DOMAIN calls : j < i => j \in 1..(i - 1)
  BY CallsAre
<1> QED
  BY <1>1, <1>2 DEF Passing, Sent, IsRun

(* What each step of the gateway and each answer taken says of the order.  *)
LEMMA HandleRace ==
    ASSUME Types, NEW i \in DOMAIN calls, Handle(i) \/ StartRun(i), "spoilt" \notin raced'
    PROVE  raced' = raced /\ \A j \in DOMAIN calls : j < i => ~ Sent(j)
<1>1. Race("spoilt", Passing(i, {"sent"}))
  BY DEF Handle, StartRun
<1>2. /\ Passing(i, {"sent"}) => "spoilt" \in raced'
      /\ ~ Passing(i, {"sent"}) => raced' = raced
  BY <1>1, PassingIs, RaceIs
<1> QED
  BY <1>2, PassingIs

LEMMA AnswerRace ==
    ASSUME Types, NEW i \in DOMAIN calls, Answer(i), "spoilt" \notin raced'
    PROVE  /\ "spoilt" \notin raced /\ raced \subseteq raced' /\ raced' \subseteq raced \cup {"answers"}
           /\ ~ ("answers" \in raced' /\ "mixed" \in raced')
           /\ \A j \in DOMAIN calls : j < i => ~ Sent(j)
           /\ "answers" \notin raced' =>
                \A j \in DOMAIN calls : j < i /\ ~ IsRun(j) => calls[j].at # "held"
<1> DEFINE races == (IF Passing(i, {"sent"}) THEN {"spoilt"} ELSE {})
                       \cup (IF Passing(i, {"held"}) THEN {"answers"} ELSE {})
<1>1. raced' = RacedBy(races)
  BY DEF Answer
<1> HIDE DEF races
<1>2. /\ "spoilt" \notin raced /\ "spoilt" \notin races /\ raced' = raced \cup races
      /\ ~ ("answers" \in raced' /\ "mixed" \in raced')
  BY <1>1, RacedIs
<1>3. /\ Passing(i, {"sent"}) => "spoilt" \in races
      /\ Passing(i, {"held"}) => "answers" \in races
      /\ races \subseteq {"spoilt", "answers"}
  BY DEF races
<1>4. ~ Passing(i, {"sent"}) /\ ("answers" \notin raced' => ~ Passing(i, {"held"}))
  BY <1>2, <1>3
<1> QED
  BY <1>2, <1>3, <1>4, PassingIs

Taking(i) == TakeDocument(i) \/ TakeEdit(i) \/ TakeFinal(i)

LEMMA TakenRace ==
    ASSUME Types, NEW i \in DOMAIN calls, Taking(i), "spoilt" \notin raced'
    PROVE  /\ "spoilt" \notin raced /\ raced \subseteq raced' /\ raced' \subseteq raced \cup {"answers"}
           /\ "answers" \notin raced' => \A j \in DOMAIN calls : j < i => IsRun(j)
<1>1. Race("answers", Passing(i, {"sent", "held", "answered"}))
  BY DEF Taking, TakeDocument, TakeEdit, TakeFinal, Taken
<1>2. /\ "spoilt" \notin raced /\ raced \subseteq raced' /\ raced' \subseteq raced \cup {"answers"}
      /\ Passing(i, {"sent", "held", "answered"}) => "answers" \in raced'
  BY <1>1, PassingIs, RaceIs
<1> QED
  BY <1>2, PassingIs

LEMMA MixedIs ==
    ASSUME NEW new, NEW others, raced' = RacedBy(Races(new, others)), "spoilt" \notin raced'
    PROVE  /\ "spoilt" \notin raced /\ raced \subseteq raced'
           /\ raced' \subseteq raced \cup {"mixed", "defaults"}
           /\ "mixed" \notin raced' =>
                \A i \in DOMAIN others : others[i].kind # "run" => Topic(others[i]) = Topic(new)
           /\ "defaults" \notin raced' => new.kind # "defaults" \/ running = 0
<1> DEFINE races == Races(new, others)
<1>1. /\ races \subseteq {"mixed", "defaults"}
      /\ "mixed" \notin races =>
                \A i \in DOMAIN others : others[i].kind # "run" => Topic(others[i]) = Topic(new)
      /\ "defaults" \notin races => new.kind # "defaults" \/ running = 0
  BY DEF Races
<1> HIDE DEF races
<1>2. "spoilt" \notin raced /\ raced' = raced \cup races
  BY RacedIs DEF races
<1> QED
  BY <1>1, <1>2

(* The calls the operator makes.                                           *)
Made(new) ==
    \/ \E s \in Scripts : Open(s) /\ new = Call("open", s, 0, NoChange)
    \/ \E s \in Scripts : Import(s) /\ new = Call("import", s, 0, NoChange)
    \/ \E c \in Cues, change \in Change :
          EditCue(c, change) /\ new = Call("cue", doc.id, c, change)
    \/ \E v \in VoiceOrNone :
          EditDefaults(v) /\ new = Call("defaults", doc.id, 0, [what |-> "over", value |-> v])
    \/ Run /\ new = Call("run", doc.id, runs + 1, NoChange)

LEMMA OperatorMakes == ASSUME Operator PROVE \E new : Made(new)
BY Zenon DEF Operator, Made

LEMMA SupersededTopics ==
    ASSUME NEW kind, NEW c, NEW s
    PROVE  /\ DOMAIN Superseded(kind, c, s) = DOMAIN calls
           /\ \A i \in DOMAIN calls : /\ Superseded(kind, c, s)[i].kind = calls[i].kind
                                     /\ Topic(Superseded(kind, c, s)[i]) = Topic(calls[i])
BY DEF Superseded, Topic

LEMMA MadeRace ==
    ASSUME NEW new, Made(new), "spoilt" \notin raced'
    PROVE  /\ "spoilt" \notin raced /\ raced \subseteq raced'
           /\ raced' \subseteq raced \cup {"mixed", "defaults"}
           /\ "mixed" \notin raced' =>
                \A i \in DOMAIN calls : ~ IsRun(i) => Topic(calls[i]) = Topic(new)
           /\ "defaults" \notin raced' => new.kind # "defaults" \/ running = 0
<1>1. \/ raced' = RacedBy(Races(new, calls))
      \/ \E kind, c, s : raced' = RacedBy(Races(new, Superseded(kind, c, s)))
  BY Zenon DEF Made, Open, Import, EditCue, EditDefaults, Run, Send
<1>2. CASE raced' = RacedBy(Races(new, calls))
  BY <1>2, MixedIs DEF IsRun
<1>3. ASSUME NEW kind, NEW c, NEW s, raced' = RacedBy(Races(new, Superseded(kind, c, s)))
      PROVE  /\ "spoilt" \notin raced /\ raced \subseteq raced'
             /\ raced' \subseteq raced \cup {"mixed", "defaults"}
             /\ "mixed" \notin raced' =>
                  \A i \in DOMAIN calls : ~ IsRun(i) => Topic(calls[i]) = Topic(new)
             /\ "defaults" \notin raced' => new.kind # "defaults" \/ running = 0
  <2> DEFINE others == Superseded(kind, c, s)
  <2>1. /\ DOMAIN others = DOMAIN calls
        /\ \A i \in DOMAIN calls : others[i].kind = calls[i].kind /\ Topic(others[i]) = Topic(calls[i])
    BY SupersededTopics
  <2> HIDE DEF others
  <2>2. /\ "spoilt" \notin raced /\ raced \subseteq raced'
        /\ raced' \subseteq raced \cup {"mixed", "defaults"}
        /\ "mixed" \notin raced' =>
             \A i \in DOMAIN others : others[i].kind # "run" => Topic(others[i]) = Topic(new)
        /\ "defaults" \notin raced' => new.kind # "defaults" \/ running = 0
    BY <1>3, MixedIs DEF others
  <2> QED
    BY <2>1, <2>2 DEF IsRun
<1> QED
  BY <1>1, <1>2, <1>3

MadeFacts(new) ==
    /\ Added(new) /\ new.at = "sent" /\ new.newest = TRUE
    /\ new.kind \in {"open", "import", "cue", "defaults", "run"}
    /\ UNCHANGED <<store, voiced, job, exists, frames>> /\ doc'.id = doc.id
    /\ new.kind = "run" => running = 0 /\ running' = new.cue /\ new.cue # 0
    /\ new.kind # "run" => running' = running
    /\ new.kind \in {"cue", "defaults", "run"} => new.script = doc.id /\ doc \in Doc
    /\ new.kind = "open" => new.script \in exists
    /\ new.kind = "import" =>
          new.script \notin exists /\ \A i \in DOMAIN calls : calls[i].kind # "import"

LEMMA MadeIs == ASSUME Types, NEW new, Made(new) PROVE MadeFacts(new)
<1> USE DEF gateway, screen
<1>1. ASSUME NEW s \in Scripts, Open(s), new = Call("open", s, 0, NoChange) PROVE MadeFacts(new)
  <2>1. Added(new)
    BY <1>1, ReadCall DEF Open
  <2>2. /\ new.at = "sent" /\ new.newest = TRUE /\ new.kind = "open" /\ new.script = s
    BY <1>1 DEF Call
  <2> QED
    BY <1>1, <2>1, <2>2 DEF Open, MadeFacts
<1>2. ASSUME NEW s \in Scripts, Import(s), new = Call("import", s, 0, NoChange) PROVE MadeFacts(new)
  <2>1. Added(new)
    BY <1>2, ReadCall DEF Import
  <2>2. /\ new.at = "sent" /\ new.newest = TRUE /\ new.kind = "import" /\ new.script = s
    BY <1>2 DEF Call
  <2> QED
    BY <1>2, <2>1, <2>2 DEF Import, MadeFacts
<1>3. ASSUME NEW c \in Cues, NEW change \in Change, EditCue(c, change),
             new = Call("cue", doc.id, c, change)
      PROVE MadeFacts(new)
  <2>1. Added(new) /\ doc \in Doc
    BY <1>3, EditCueCall
  <2>2. /\ new.at = "sent" /\ new.newest = TRUE /\ new.kind = "cue" /\ new.script = doc.id
    BY <1>3 DEF Call
  <2>3. doc'.id = doc.id
    BY <1>3, <2>1 DEF EditCue, Doc
  <2> QED
    BY <1>3, <2>1, <2>2, <2>3 DEF EditCue, MadeFacts
<1>4. ASSUME NEW v \in VoiceOrNone, EditDefaults(v),
             new = Call("defaults", doc.id, 0, [what |-> "over", value |-> v])
      PROVE MadeFacts(new)
  <2>1. Added(new) /\ doc \in Doc
    BY <1>4, EditDefaultsCall
  <2>2. /\ new.at = "sent" /\ new.newest = TRUE /\ new.kind = "defaults" /\ new.script = doc.id
    BY <1>4 DEF Call
  <2>3. doc'.id = doc.id
    BY <1>4, <2>1 DEF EditDefaults, Doc
  <2> QED
    BY <1>4, <2>1, <2>2, <2>3 DEF EditDefaults, MadeFacts
<1>5. ASSUME Run, new = Call("run", doc.id, runs + 1, NoChange) PROVE MadeFacts(new)
  <2>1. Added(new) /\ doc \in Doc /\ runs + 1 \in 1..MaxRuns
    BY <1>5, RunCallMade
  <2>2. /\ new.at = "sent" /\ new.newest = TRUE /\ new.kind = "run" /\ new.script = doc.id
        /\ new.cue = runs + 1
    BY <1>5 DEF Call
  <2>3. runs + 1 # 0
    BY <2>1
  <2> QED
    BY <1>5, <2>1, <2>2, <2>3 DEF Run, MadeFacts
<1> QED
  BY <1>1, <1>2, <1>3, <1>4, <1>5 DEF Made

-----------------------------------------------------------------------------
(* One run at a time, and the gateway's walk has its listener.             *)
OneRun ==
    /\ \A i, j \in DOMAIN calls : IsLast(i) /\ IsLast(j) => i = j
    /\ \A i \in DOMAIN calls : /\ IsLast(i) => running # 0
                               /\ IsRun(i) => calls[i].cue = running

Hears(i, r) ==
    IsRun(i) /\ calls[i].at = "held" /\ calls[i].cue = r /\ calls[i].script = job[r].script

HeardRun ==
    /\ \A r \in 1..MaxRuns : Active(r) => \E i \in DOMAIN calls : Hears(i, r)
    /\ frames # <<>> => \E i \in DOMAIN calls : IsRun(i) /\ calls[i].at = "held"
    /\ \A k \in DOMAIN frames :
          frames[k].cue = EndOfStream => \A r \in 1..MaxRuns : ~ Active(r)

InOrder == \A i, j \in DOMAIN calls : i < j /\ ~ Sent(j) => ~ Sent(i)

Settled == doc.id \in Scripts /\ OneRun /\ HeardRun /\ InOrder

(* A cue's step in a run, whichever it is.                                 *)
VoicedStep(r, state) ==
    /\ Active(r) /\ InHand(r) \in Cues /\ state \in CueState
    /\ \A p \in 1..MaxRuns : job'[p].script = job[p].script
    /\ UNCHANGED <<exists, doc, last, running, edited, calls, runs, raced>>
    /\ frames' = IF running = r THEN Append(frames, [cue |-> InHand(r), state |-> state])
                                ELSE frames
    /\ voiced \subseteq voiced'
    /\ state = "done" => Stored(job[r].script, InHand(r)) \in voiced'
    /\ \A s \in Scripts, c \in Cues : SameInputs(s, c)
    /\ \A s \in Scripts : s # job[r].script => store'[s] = store[s]

LEMMA MarkIsVoicedStep ==
    ASSUME Types, NEW r \in 1..MaxRuns, Walking(r), NEW state \in CueState, NEW next,
           next \in {[job[r] EXCEPT !.busy = TRUE], Advanced(r)}, Mark(r, state, next),
           voiced \subseteq voiced',
           state = "done" => ClipInHand(r) \in voiced'
    PROVE  VoicedStep(r, state)
<1>1. job[r] \in JobState /\ next.script = job[r].script
  BY DEF Types, JobState, Advanced
<1>2. job' = [job EXCEPT ![r] = next]
  BY DEF Mark
<1>3. \A p \in 1..MaxRuns : job'[p].script = job[p].script
  BY <1>1, <1>2 DEF Types
<1>4. store' = [store EXCEPT ![job[r].script].cues[InHand(r)].state = state]
  BY DEF Mark
<1>5. \A s \in Scripts : s # job[r].script => store'[s] = store[s]
  BY <1>4 DEF Types
<1>6. InHand(r) \in Cues /\ \A s \in Scripts, c \in Cues : SameInputs(s, c)
  BY MarkStore
<1>7. Active(r) /\ (state = "done" => Stored(job[r].script, InHand(r)) \in voiced')
  BY DEF Walking, Active, ClipInHand, Stored
<1>8. UNCHANGED <<exists, doc, last, running, edited, calls, runs, raced>>
  BY DEF Mark, screen
<1>9. frames' = IF running = r THEN Append(frames, [cue |-> InHand(r), state |-> state])
                                ELSE frames
  BY DEF Mark, Emit
<1> QED
  BY <1>3, <1>5, <1>6, <1>7, <1>8, <1>9 DEF VoicedStep

LEMMA RunIsVoicedStep ==
    ASSUME Types, NEW r \in 1..MaxRuns,
           Serve(r) \/ Generate(r) \/ Generated(r) \/ GenerationFails(r)
    PROVE  \E state : VoicedStep(r, state)
<1>1. CASE Serve(r)
  BY <1>1, MarkIsVoicedStep DEF Serve, CueState
<1>2. CASE Generate(r)
  BY <1>2, MarkIsVoicedStep DEF Generate, CueState
<1>3. CASE Generated(r)
  BY <1>3, MarkIsVoicedStep DEF Generated, CueState
<1>4. CASE GenerationFails(r)
  BY <1>4, MarkIsVoicedStep DEF GenerationFails, CueState
<1> QED
  BY <1>1, <1>2, <1>3, <1>4

LEMMA SettledVoiced ==
    ASSUME Types, Settled, NEW r \in 1..MaxRuns, NEW state, VoicedStep(r, state)
    PROVE  Settled'
<1> USE DEF Settled
<1>1. /\ Active(r) /\ InHand(r) \in Cues /\ state \in CueState
      /\ \A p \in 1..MaxRuns : job'[p].script = job[p].script
      /\ UNCHANGED <<doc, running, calls>>
      /\ frames' = IF running = r THEN Append(frames, [cue |-> InHand(r), state |-> state])
                                  ELSE frames
  BY DEF VoicedStep
<1>2. OneRun' /\ InOrder' /\ doc'.id \in Scripts
  BY <1>1 DEF OneRun, InOrder, IsLast, IsRun, Sent
<1>3. \A p \in 1..MaxRuns : (Active(p)' <=> Active(p))
                            /\ \A i \in DOMAIN calls : Hears(i, p)' <=> Hears(i, p)
  BY <1>1 DEF Active, Hears, IsRun
<1>4. \E i \in DOMAIN calls : IsRun(i) /\ calls[i].at = "held"
  BY <1>1 DEF HeardRun, Hears
<1>5. \A k \in DOMAIN frames' : frames'[k].cue # EndOfStream
  <2>1. \A k \in DOMAIN frames : frames[k].cue # EndOfStream
    BY <1>1 DEF HeardRun
  <2> DEFINE frame == [cue |-> InHand(r), state |-> state]
  <2>2. frame.cue # EndOfStream /\ frames \in Seq(Frame) /\ frame \in Frame
    BY <1>1, CuesAre DEF Types, EndOfStream, Frame
  <2>3. frames' = IF running = r THEN Append(frames, frame) ELSE frames
    BY <1>1
  <2> HIDE DEF frame
  <2> QED
    BY <2>1, <2>2, <2>3
<1>6. HeardRun'
  BY <1>1, <1>3, <1>4, <1>5 DEF HeardRun, IsRun
<1> QED
  BY <1>2, <1>6

LEMMA SettledEnds ==
    ASSUME Types, Settled, NEW r \in 1..MaxRuns, RunEnds(r)
    PROVE  Settled'
<1> USE DEF Settled
<1>1. /\ Active(r) /\ job' = [job EXCEPT ![r] = Idle]
      /\ UNCHANGED <<doc, running, calls>>
  BY DEF RunEnds, screen, Active
<1>2. OneRun' /\ InOrder' /\ doc'.id \in Scripts
  BY <1>1 DEF OneRun, InOrder, IsLast, IsRun, Sent
<1>3. PICK i \in DOMAIN calls : Hears(i, r)
  BY <1>1 DEF HeardRun
<1>4. \A p \in 1..MaxRuns : p # r => ~ Active(p)
  BY <1>3 DEF HeardRun, OneRun, Hears
<1>5. \A p \in 1..MaxRuns : ~ Active(p)'
  BY <1>1, <1>4 DEF Active, Idle, Types
<1>6. HeardRun'
  BY <1>1, <1>3, <1>5 DEF HeardRun, Hears, IsRun
<1> QED
  BY <1>2, <1>6

LEMMA SettledFrame ==
    ASSUME Types, Settled, NEW i \in DOMAIN calls, TakeFrame(i)
    PROVE  Settled'
<1> USE DEF Settled
<1>1. /\ frames # <<>> /\ frames' = Tail(frames) /\ UNCHANGED <<job, running, calls>>
  BY DEF TakeFrame, gateway
<1>2. doc'.id = doc.id
  <2>1. doc \in Doc
    BY ScriptEditorAssumption DEF Types, Nothing
  <2> QED
    BY <2>1 DEF TakeFrame, Doc
<1>3. OneRun' /\ InOrder'
  BY <1>1 DEF OneRun, InOrder, IsLast, IsRun, Sent
<1>4. \A k \in DOMAIN frames' : k + 1 \in DOMAIN frames /\ frames'[k] = frames[k + 1]
  BY <1>1 DEF Types
<1>5. HeardRun'
  BY <1>1, <1>4 DEF HeardRun, Hears, IsRun, Active
<1> QED
  BY <1>2, <1>3, <1>5

LEMMA SettledMade ==
    ASSUME Types, Settled, NEW new, MadeFacts(new)
    PROVE  Settled'
<1> USE DEF Settled
<1>0. PICK n : n = Len(calls) + 1
  OBVIOUS
<1>1. /\ n \notin DOMAIN calls /\ n \in Nat /\ DOMAIN calls \subseteq Nat
      /\ DOMAIN calls' = DOMAIN calls \cup {n} /\ calls'[n] = new
      /\ \A j \in DOMAIN calls : j < n /\ Alike(calls'[j], calls[j]) /\ calls'[j].at = calls[j].at
  BY <1>0, CallsAre DEF MadeFacts, Added
<1>2. \A j \in DOMAIN calls : /\ IsLast(j)' <=> IsLast(j)
                              /\ IsRun(j)' <=> IsRun(j)
                              /\ Sent(j)' <=> Sent(j)
                              /\ calls'[j].cue = calls[j].cue /\ calls'[j].script = calls[j].script
  BY <1>1 DEF IsLast, IsRun, Sent, Alike
<1>3. OneRun'
  <2>1. CASE new.kind # "run"
    <3>1. ~ IsLast(n)' /\ ~ IsRun(n)' /\ running' = running
      BY <1>1, <2>1 DEF MadeFacts, IsLast, IsRun
    <3> QED
      BY <1>1, <1>2, <3>1 DEF OneRun
  <2>2. CASE new.kind = "run"
    <3>1. /\ \A j \in DOMAIN calls : ~ IsLast(j) /\ ~ IsRun(j)
          /\ running' = new.cue /\ running' # 0
      BY <2>2 DEF MadeFacts, OneRun, IsLast, IsRun
    <3> QED
      BY <1>1, <1>2, <3>1 DEF OneRun
  <2> QED
    BY <2>1, <2>2
<1>4. HeardRun'
  <2>1. UNCHANGED <<job, frames>>
    BY DEF MadeFacts
  <2>2. \A j \in DOMAIN calls, r \in 1..MaxRuns : Hears(j, r)' <=> Hears(j, r)
    BY <1>1, <1>2, <2>1 DEF Hears
  <2> QED
    BY <1>1, <1>2, <2>1, <2>2 DEF HeardRun, Active
<1>5. InOrder'
  <2>1. Sent(n)'
    BY <1>1 DEF Sent, MadeFacts
  <2> QED
    BY <1>1, <1>2, <2>1 DEF InOrder
<1>6. doc'.id = doc.id
  BY DEF MadeFacts
<1> QED
  BY <1>3, <1>4, <1>5, <1>6

(* The gateway moves a call on that no unsent one precedes.                *)
LEMMA SettledMoved ==
    ASSUME Types, Settled, NEW i \in DOMAIN calls, NEW stage \in {"held", "answered"},
           Moved(i, stage), ~ IsRun(i), \A j \in DOMAIN calls : j < i => ~ Sent(j),
           UNCHANGED <<job, doc, running, frames>>
    PROVE  Settled'
<1> USE DEF Settled
<1>1. \A j \in DOMAIN calls : /\ IsLast(j)' <=> IsLast(j)
                              /\ IsRun(j)' <=> IsRun(j)
                              /\ Sent(j)' <=> (Sent(j) /\ j # i)
                              /\ calls'[j].cue = calls[j].cue
                              /\ IsRun(j) => calls'[j] = calls[j]
  BY DEF IsLast, IsRun, Sent, Moved, Alike
<1>2. DOMAIN calls' = DOMAIN calls /\ DOMAIN calls \subseteq Nat
  BY CallsAre DEF Moved
<1>3. OneRun'
  BY <1>1, <1>2 DEF OneRun
<1>4. InOrder'
  BY <1>1, <1>2 DEF InOrder
<1>5. HeardRun'
  <2>1. \A j \in DOMAIN calls, r \in 1..MaxRuns : Hears(j, r) => Hears(j, r)'
    BY <1>1 DEF Hears
  <2> QED
    BY <1>1, <1>2, <2>1 DEF HeardRun, Active
<1> QED
  BY <1>3, <1>4, <1>5

LEMMA SettledStarted ==
    ASSUME Types, Settled, NEW i \in DOMAIN calls, StartRun(i), "spoilt" \notin raced'
    PROVE  Settled'
<1> USE DEF Settled
<1>0. Moved(i, "held") /\ \A j \in DOMAIN calls : j < i => ~ Sent(j)
  BY StartRunCall, HandleRace
<1>1. \A j \in DOMAIN calls : /\ IsLast(j)' <=> IsLast(j)
                              /\ IsRun(j)' <=> IsRun(j)
                              /\ Sent(j)' <=> (Sent(j) /\ j # i)
                              /\ calls'[j].cue = calls[j].cue
                              /\ calls'[j].script = calls[j].script
  BY <1>0 DEF IsLast, IsRun, Sent, Moved, Alike
<1>2. DOMAIN calls' = DOMAIN calls /\ DOMAIN calls \subseteq Nat
  BY <1>0, CallsAre DEF Moved
<1>3. IsRun(i) /\ Sent(i) /\ UNCHANGED <<running, frames, doc>> /\ calls[i].cue \in 1..MaxRuns
  BY DEF StartRun, IsRun, Sent, screen, Types, WellMade
<1>4. OneRun' /\ InOrder'
  BY <1>0, <1>1, <1>2, <1>3 DEF OneRun, InOrder
<1>5. /\ \A r \in 1..MaxRuns : ~ Active(r)
      /\ frames = <<>>
  BY <1>3 DEF HeardRun, OneRun, Hears, IsLast, IsRun, Sent
<1>6. \A r \in 1..MaxRuns : Active(r)' => r = calls[i].cue /\ job'[r].script = calls[i].script
  BY <1>3, <1>5 DEF StartRun, Active, Types
<1>7. \A r \in 1..MaxRuns : Active(r)' => Hears(i, r)'
  BY <1>0, <1>1, <1>3, <1>6 DEF Hears, Moved
<1>8. HeardRun'
  BY <1>2, <1>3, <1>5, <1>7 DEF HeardRun
<1> QED
  BY <1>3, <1>4, <1>8

LEMMA SettledTaken ==
    ASSUME Types, Types', Settled, NEW i \in DOMAIN calls, Taking(i)
    PROVE  Settled'
<1> USE DEF Settled
<1>1. /\ Dropped(i, calls') /\ ~ IsRun(i) /\ Answered(i)
      /\ calls[i].reply \in Doc
      /\ UNCHANGED <<job, frames>>
  BY DropStep, TakenTypes DEF Taking, TakeDocument, TakeEdit, TakeFinal, Taken, IsRun, Answered, gateway
<1>2. doc'.id \in Scripts
  BY <1>1 DEF Taking, TakeDocument, TakeEdit, TakeFinal, Doc
<1>3. /\ i \in Nat /\ DOMAIN calls \subseteq Nat /\ DOMAIN calls' \subseteq Nat
      /\ \A j \in DOMAIN calls' : Was(i, j) \in DOMAIN calls \ {i} /\ calls'[j] = calls[Was(i, j)]
      /\ \A k \in DOMAIN calls \ {i} : Is(i, k) \in DOMAIN calls' /\ calls'[Is(i, k)] = calls[k]
  BY <1>1, CallsAre DEF Dropped
<1>4. \A j \in DOMAIN calls' : /\ IsLast(j)' <=> IsLast(Was(i, j))
                               /\ IsRun(j)' <=> IsRun(Was(i, j))
                               /\ Sent(j)' <=> Sent(Was(i, j))
  BY <1>3 DEF IsLast, IsRun, Sent
<1>5. \A j, k \in DOMAIN calls' : (j < k <=> Was(i, j) < Was(i, k)) /\ (Was(i, j) = Was(i, k) => j = k)
  BY <1>3 DEF Was
<1>6. InOrder'
  BY <1>3, <1>4, <1>5 DEF InOrder
<1>7. OneRun'
  <2>1. CASE TakeFinal(i)
    <3>1. IsLast(i)
      BY <2>1 DEF TakeFinal, Taken, IsLast
    <3>2. \A j \in DOMAIN calls' : ~ IsLast(j)' /\ ~ IsRun(j)'
      BY <1>3, <1>4, <3>1 DEF OneRun, IsLast, IsRun
    <3> QED
      BY <3>2 DEF OneRun
  <2>2. CASE ~ TakeFinal(i)
    <3>1. running' = running
      BY <2>2 DEF Taking, TakeDocument, TakeEdit
    <3> QED
      BY <1>3, <1>4, <1>5, <3>1 DEF OneRun
  <2> QED
    BY <2>1, <2>2
<1>8. HeardRun'
  <2>1. \A k \in DOMAIN calls : IsRun(k) =>
           /\ Is(i, k) \in DOMAIN calls' /\ calls'[Is(i, k)] = calls[k]
           /\ IsRun(Is(i, k))'
    BY <1>1, <1>3 DEF IsRun
  <2>2. \A k \in DOMAIN calls, r \in 1..MaxRuns : Hears(k, r) => Hears(Is(i, k), r)'
    BY <1>1, <2>1 DEF Hears
  <2>3. /\ \A r \in 1..MaxRuns : Active(r)' => \E k \in DOMAIN calls' : Hears(k, r)'
    BY <1>1, <2>1, <2>2 DEF HeardRun, Active, Hears
  <2>4. frames' # <<>> => \E k \in DOMAIN calls' : IsRun(k)' /\ calls'[k].at = "held"
    BY <1>1, <2>1 DEF HeardRun
  <2> QED
    BY <1>1, <2>3, <2>4 DEF HeardRun, Active
<1> QED
  BY <1>2, <1>6, <1>7, <1>8

(* The end of a run's stream: the refresh takes the place of its call.     *)
LEMMA EndIs ==
    ASSUME Types, Settled, NEW i \in DOMAIN calls, TakeEnd(i)
    PROVE  /\ IsRun(i) /\ calls[i].at = "held"
           /\ \A r \in 1..MaxRuns : ~ Active(r)
           /\ \E n \in Nat \ {0} :
                /\ DOMAIN calls' = 1..n /\ DOMAIN calls = 1..n
                /\ calls'[n] = FinalCall(i)
                /\ calls'[n].kind = "final" /\ calls'[n].at = "sent" /\ calls'[n].newest = TRUE
                /\ calls'[n].script = calls[i].script
                /\ \A j \in 1..(n - 1) : /\ Was(i, j) \in DOMAIN calls \ {i}
                                         /\ calls'[j] = calls[Was(i, j)]
                                         /\ ~ IsLast(j)'
<1>1. calls' = Append(Without(i), FinalCall(i)) /\ IsRun(i) /\ frames # <<>>
      /\ Head(frames).cue = EndOfStream
  BY DEF TakeEnd, FinalCall, RunCall, IsRun
<1>2. 1 \in DOMAIN frames /\ frames[1].cue = EndOfStream
  BY <1>1 DEF Types
<1>3. \A r \in 1..MaxRuns : ~ Active(r)
  BY <1>2 DEF Settled, HeardRun
<1>4. calls[i].at = "held"
  BY <1>1 DEF Settled, HeardRun, OneRun, IsLast, IsRun
<1>5. PICK n : n = Len(calls)
  OBVIOUS
<1>6. n \in Nat \ {0} /\ DOMAIN calls = 1..n
  BY <1>5, CallsAre
<1>7. /\ Dropped(i, Without(i)) /\ DOMAIN calls' = 1..n /\ calls'[n] = FinalCall(i)
      /\ \A j \in 1..(n - 1) : calls'[j] = Without(i)[j]
      /\ FinalCall(i).kind = "final" /\ FinalCall(i).at = "sent"
      /\ FinalCall(i).script = calls[i].script /\ FinalCall(i).newest = TRUE
  BY <1>1, <1>5, EndCalls
<1>8. \A j \in 1..(n - 1) : Was(i, j) \in DOMAIN calls \ {i} /\ calls'[j] = calls[Was(i, j)]
  BY <1>5, <1>7 DEF Dropped
<1>9. \A j \in 1..(n - 1) : ~ IsLast(j)'
  BY <1>1, <1>8 DEF Settled, OneRun, IsLast, IsRun
<1> QED
  BY <1>1, <1>3, <1>4, <1>6, <1>7, <1>8, <1>9

LEMMA SettledEnd ==
    ASSUME Types, Settled, NEW i \in DOMAIN calls, TakeEnd(i)
    PROVE  Settled'
<1> USE DEF Settled
<1>1. PICK n \in Nat \ {0} :
                /\ DOMAIN calls' = 1..n /\ DOMAIN calls = 1..n
                /\ calls'[n] = FinalCall(i)
                /\ calls'[n].kind = "final" /\ calls'[n].at = "sent" /\ calls'[n].newest = TRUE
                /\ calls'[n].script = calls[i].script
                /\ \A j \in 1..(n - 1) : /\ Was(i, j) \in DOMAIN calls \ {i}
                                         /\ calls'[j] = calls[Was(i, j)]
                                         /\ ~ IsLast(j)'
  BY EndIs
<1>2. UNCHANGED <<doc, running, job>> /\ frames' = <<>> /\ IsRun(i)
  BY EndIs DEF TakeEnd, gateway, screen
<1>3. OneRun'
  <2>1. running # 0
    BY <1>2 DEF OneRun, IsLast, IsRun
  <2>2. \A j \in DOMAIN calls' : (IsLast(j)' => j = n) /\ ~ IsRun(j)'
    BY <1>1 DEF IsRun, IsLast
  <2> QED
    BY <1>1, <1>2, <2>1, <2>2 DEF OneRun
<1>4. HeardRun'
  BY <1>2, EndIs DEF HeardRun, Active
<1>5. InOrder'
  <2>1. \A j, k \in 1..(n - 1) : j < k => Was(i, j) < Was(i, k)
    BY <1>1 DEF Was
  <2>2. \A j, k \in 1..(n - 1) : j < k /\ ~ Sent(k)' => ~ Sent(j)'
    BY <1>1, <2>1 DEF InOrder, Sent
  <2>3. Sent(n)' /\ \A j \in DOMAIN calls' : j # n => j \in 1..(n - 1)
    BY <1>1 DEF Sent
  <2> QED
    BY <1>1, <2>2, <2>3 DEF InOrder
<1> QED
  BY <1>2, <1>3, <1>4, <1>5

(* A lost call or stream spoils the session.                               *)
LEMMA LossSpoils ==
    ASSUME NEW i, LoseCall(i) \/ LoseStream(i)
    PROVE  "spoilt" \in raced'
BY DEF LoseCall, LoseStream, Race, RacedBy

(* The steps of the specification, once they are told apart.               *)
LEMMA StepIs ==
    ASSUME Types, [Next]_vars, "spoilt" \notin raced'
    PROVE  \/ UNCHANGED vars
           \/ \E new : MadeFacts(new) /\ Made(new)
           \/ \E i \in DOMAIN calls : \/ Handle(i) \/ Answer(i) \/ StartRun(i)
                                      \/ Taking(i) \/ TakeFrame(i) \/ TakeEnd(i)
           \/ \E r \in 1..MaxRuns : (\E state : VoicedStep(r, state)) \/ RunEnds(r)
<1>1. CASE Operator
  BY <1>1, OperatorMakes, MadeIs
<1>2. CASE Gateway
  BY <1>2, RunIsVoicedStep DEF Gateway
<1>3. CASE Interface
  BY <1>3 DEF Interface, Taking
<1>4. CASE Network
  BY <1>4, LossSpoils DEF Network
<1> QED
  BY <1>1, <1>2, <1>3, <1>4 DEF Next

LEMMA AnswerIs ==
    ASSUME NEW i, Answer(i)
    PROVE  /\ UNCHANGED <<job, doc, running, frames, exists>> /\ ~ IsRun(i)
           /\ calls[i].kind \in {"open", "final"} => Sent(i)
           /\ calls[i].kind \notin {"open", "final"} => calls[i].at = "held"
<1>1. UNCHANGED <<exists, voiced, job, screen, frames, sent, runs>> /\ calls[i].kind # "run"
  BY Zenon DEF Answer
<1>2. calls[i].at = IF calls[i].kind \in {"open", "final"} THEN "sent" ELSE "held"
  BY Zenon DEF Answer
<1> QED
  BY <1>1, <1>2 DEF IsRun, Sent, screen

(* Every step that does not spoil the session leaves it settled.           *)
LEMMA SettledNext ==
    ASSUME Types, Types', Settled, [Next]_vars, "spoilt" \notin raced'
    PROVE  Settled'
<1>1. CASE UNCHANGED vars
  BY <1>1 DEF vars, gateway, screen, Settled, OneRun, HeardRun, InOrder,
     IsLast, IsRun, Sent, Hears, Active
<1>2. ASSUME NEW i \in DOMAIN calls, Handle(i) PROVE Settled'
  <2>1. /\ Moved(i, "held") /\ ~ IsRun(i) /\ \A j \in DOMAIN calls : j < i => ~ Sent(j)
        /\ UNCHANGED <<job, doc, running, frames>>
    BY <1>2, HandleCall, HandleRace DEF Handle, IsRun, screen
  <2> QED
    BY <2>1, SettledMoved
<1>3. ASSUME NEW i \in DOMAIN calls, Answer(i) PROVE Settled'
  <2>1. /\ Moved(i, "answered") /\ ~ IsRun(i) /\ \A j \in DOMAIN calls : j < i => ~ Sent(j)
        /\ UNCHANGED <<job, doc, running, frames>>
    BY <1>3, AnswerCall, AnswerRace, AnswerIs
  <2> QED
    BY <2>1, SettledMoved
<1> QED
  BY <1>1, <1>2, <1>3, StepIs, SettledVoiced, SettledEnds, SettledFrame, SettledMade,
     SettledStarted, SettledTaken, SettledEnd

-----------------------------------------------------------------------------
(* A script the gateway does not have yet is one nobody has seen; while an *)
(* import is on its way its script stays as imported, and its answer is.   *)
OneTopic ==
    \A i, j \in DOMAIN calls : ~ IsRun(i) /\ ~ IsRun(j) => Topic(calls[i]) = Topic(calls[j])

Unseen ==
    \A s \in Scripts \ exists :
        /\ store[s] = Imported /\ doc.id # s
        /\ \A j \in DOMAIN calls : calls[j].script = s => calls[j].kind = "import" /\ Sent(j)

Importing(i) == calls[i].kind = "import" /\ ~ Answered(i)
Imports ==
    \A i \in DOMAIN calls : Importing(i) =>
        /\ store[calls[i].script] = Imported /\ doc.id # calls[i].script
        /\ \A j \in DOMAIN calls : j # i /\ calls[j].script = calls[i].script =>
              i < j /\ calls[j].kind = "open" /\ Sent(j)
Delivered ==
    \A i \in DOMAIN calls : calls[i].kind = "import" /\ Answered(i) =>
        calls[i].reply = Document(calls[i].script, Imported)

Fresh == Unseen /\ Imports /\ Delivered

(* A step that leaves the calls and the records of such scripts alone.     *)
LEMMA FreshKept ==
    ASSUME Types, Fresh, calls' = calls, doc'.id = doc.id, exists' = exists,
           \A s \in Scripts : store'[s] = store[s]
                                \/ \E i \in DOMAIN calls : IsRun(i) /\ calls[i].script = s
    PROVE  Fresh'
<1>1. \A s \in Scripts \ exists : store'[s] = store[s]
  BY DEF Fresh, Unseen, IsRun
<1>2. Unseen'
  BY <1>1 DEF Fresh, Unseen, Sent
<1>3. \A i \in DOMAIN calls : calls[i].script \in Scripts /\ (Importing(i)' <=> Importing(i))
  BY CallsAre DEF AnyCall, Importing, Answered
<1>4. \A i \in DOMAIN calls : Importing(i) => store'[calls[i].script] = store[calls[i].script]
  BY <1>3 DEF Fresh, Imports, IsRun, Importing
<1>5. Imports'
  BY <1>3, <1>4 DEF Fresh, Imports, Sent
<1>6. Delivered'
  BY DEF Fresh, Delivered, Answered
<1> QED
  BY <1>2, <1>5, <1>6 DEF Fresh

LEMMA FreshMade ==
    ASSUME Types, Fresh, NEW new, MadeFacts(new), new.script \in Scripts
    PROVE  Fresh'
<1>0. PICK n : n = Len(calls) + 1
  OBVIOUS
<1>1. /\ n \notin DOMAIN calls /\ n \in Nat /\ DOMAIN calls \subseteq Nat
      /\ DOMAIN calls' = DOMAIN calls \cup {n} /\ calls'[n] = new
      /\ \A j \in DOMAIN calls : /\ j < n /\ Alike(calls'[j], calls[j]) /\ calls'[j].at = calls[j].at
                                 /\ calls'[j].reply = calls[j].reply
  BY <1>0, CallsAre DEF MadeFacts, Added
<1>2. /\ UNCHANGED <<store, exists>> /\ doc'.id = doc.id /\ new.at = "sent"
      /\ new.kind \in {"open", "import", "cue", "defaults", "run"}
      /\ new.kind \in {"cue", "defaults", "run"} => new.script = doc.id
      /\ new.kind = "open" => new.script \in exists
      /\ new.kind = "import" =>
            new.script \notin exists /\ \A i \in DOMAIN calls : calls[i].kind # "import"
  BY DEF MadeFacts
<1>3. \A j \in DOMAIN calls : /\ calls'[j].kind = calls[j].kind /\ calls'[j].script = calls[j].script
                              /\ Sent(j)' <=> Sent(j)
                              /\ Answered(j)' <=> Answered(j)
                              /\ Importing(j)' <=> Importing(j)
  BY <1>1 DEF Sent, Answered, Importing, Alike
<1>4. Sent(n)' /\ ~ Answered(n)'
  BY <1>1, <1>2 DEF Sent, Answered
<1>5. Unseen'
  BY <1>1, <1>2, <1>3, <1>4 DEF Fresh, Unseen
<1>6. Delivered'
  BY <1>1, <1>3, <1>4 DEF Fresh, Delivered, Alike
<1>7. Imports'
  <2> SUFFICES ASSUME NEW i \in DOMAIN calls', Importing(i)'
               PROVE  /\ store[calls'[i].script] = Imported /\ doc.id # calls'[i].script
                      /\ \A j \in DOMAIN calls' : j # i /\ calls'[j].script = calls'[i].script =>
                            i < j /\ calls'[j].kind = "open" /\ Sent(j)'
    BY <1>2 DEF Imports
  <2>1. CASE i = n
    <3>1. new.kind = "import" /\ new.script \notin exists
      BY <1>1, <1>2, <2>1 DEF Importing
    <3>2. \A j \in DOMAIN calls : calls[j].script # new.script
      BY <1>2, <3>1 DEF Fresh, Unseen
    <3> QED
      BY <1>1, <1>3, <2>1, <3>1, <3>2 DEF Fresh, Unseen
  <2>2. CASE i \in DOMAIN calls
    <3>1. Importing(i) /\ calls[i].kind = "import"
      BY <1>3, <2>2 DEF Importing
    <3>2. doc.id # calls[i].script
      BY <2>2, <3>1 DEF Fresh, Imports
    <3>3. new.script = calls[i].script => new.kind = "open"
      BY <1>2, <2>2, <3>1, <3>2
    <3> QED
      BY <1>1, <1>3, <1>4, <2>2, <3>1, <3>3 DEF Fresh, Imports
  <2> QED
    BY <1>1, <2>1, <2>2
<1> QED
  BY <1>5, <1>6, <1>7 DEF Fresh

LEMMA FreshHandled ==
    ASSUME Types, Fresh, NEW i \in DOMAIN calls, Handle(i)
    PROVE  Fresh'
<1>1. /\ Moved(i, "held") /\ UNCHANGED doc /\ exists' = exists \cup {calls[i].script}
      /\ Sent(i) /\ calls[i].kind \in {"cue", "defaults", "import"} /\ calls[i].script \in Scripts
      /\ \A s \in Scripts : s # calls[i].script => store'[s] = store[s]
      /\ calls[i].kind = "import" => store' = store
  BY HandleCall, HandleStore DEF Handle, screen, Sent
<1>2. DOMAIN calls' = DOMAIN calls /\ \A j \in DOMAIN calls :
        /\ calls'[j].kind = calls[j].kind /\ calls'[j].script = calls[j].script
        /\ Sent(j)' <=> (Sent(j) /\ j # i)
        /\ Answered(j)' <=> Answered(j)
        /\ Importing(j)' <=> Importing(j)
        /\ j # i => calls'[j] = calls[j]
        /\ calls[j].script \in Scripts
  BY <1>1, CallsAre DEF Moved, Alike, Sent, Answered, Importing, AnyCall
<1>3. Unseen'
  BY <1>1, <1>2 DEF Fresh, Unseen
<1>4. Delivered'
  BY <1>1, <1>2 DEF Fresh, Delivered, Sent, Answered
<1>5. Imports'
  <2> SUFFICES ASSUME NEW k \in DOMAIN calls, Importing(k)
               PROVE  /\ store'[calls[k].script] = Imported
                      /\ \A j \in DOMAIN calls : j # k /\ calls[j].script = calls[k].script =>
                            k < j /\ calls[j].kind = "open" /\ Sent(j) /\ j # i
    BY <1>1, <1>2 DEF Fresh, Imports
  <2>1. \A j \in DOMAIN calls : j # k /\ calls[j].script = calls[k].script =>
                            k < j /\ calls[j].kind = "open" /\ Sent(j)
    BY DEF Fresh, Imports
  <2>2. k # i => calls[i].script # calls[k].script
    BY <1>1, <2>1
  <2>3. store[calls[k].script] = Imported /\ (k = i => calls[i].kind = "import")
    BY DEF Fresh, Imports, Importing
  <2> QED
    BY <1>1, <1>2, <2>1, <2>2, <2>3
<1> QED
  BY <1>3, <1>4, <1>5 DEF Fresh

(* An answer passes no import: mixed calls are answered in order.          *)
LEMMA FreshAnswered ==
    ASSUME Types, Fresh, Settled, NEW i \in DOMAIN calls, Answer(i), "spoilt" \notin raced',
           "mixed" \notin raced => OneTopic
    PROVE  Fresh'
<1>1. /\ Moved(i, "answered") /\ UNCHANGED <<doc, exists>>
      /\ calls[i].kind \in {"open", "final"} => Sent(i)
      /\ calls[i].kind \notin {"open", "final"} => calls[i].at = "held"
      /\ calls[i].script \in Scripts /\ ~ IsRun(i)
      /\ \A s \in Scripts : s # calls[i].script => store'[s] = store[s]
      /\ calls'[i].reply = Document(calls[i].script, Said(i))
      /\ store'[calls[i].script] = Said(i)
  BY AnswerCall, AnswerStore, AnswerIs
<1>2. DOMAIN calls' = DOMAIN calls /\ \A j \in DOMAIN calls :
        /\ calls'[j].kind = calls[j].kind /\ calls'[j].script = calls[j].script
        /\ Sent(j)' <=> (Sent(j) /\ j # i)
        /\ Answered(j)' <=> (Answered(j) \/ j = i)
        /\ Importing(j)' <=> (Importing(j) /\ j # i)
        /\ j # i => calls'[j] = calls[j]
        /\ calls[j].script \in Scripts
  BY <1>1, CallsAre DEF Moved, Alike, Sent, Answered, Importing, AnyCall
<1>3. calls[i].script \in exists
  <2>1. calls[i].kind = "import" => ~ Sent(i)
    BY <1>1 DEF Sent
  <2> QED
    BY <1>1, <2>1 DEF Fresh, Unseen
<1>4. Unseen'
  BY <1>1, <1>2, <1>3 DEF Fresh, Unseen
<1>5. \A k \in DOMAIN calls : Importing(k) /\ k # i => calls[i].script # calls[k].script
  <2> SUFFICES ASSUME NEW k \in DOMAIN calls, Importing(k), k # i, calls[i].script = calls[k].script
               PROVE  FALSE
    OBVIOUS
  <2>1. k < i /\ calls[i].kind = "open" /\ calls[k].kind = "import"
    BY DEF Fresh, Imports, Importing
  <2>2. ~ IsRun(k) /\ ~ Sent(k) /\ ~ Answered(k) /\ calls[k].at = "held"
    <3>1. ~ Sent(k) /\ ~ Answered(k)
      BY <2>1, AnswerRace DEF Importing
    <3> QED
      BY <2>1, <3>1, CallsAre DEF IsRun, Sent, Answered, AnyCall
  <2>3. "answers" \in raced' /\ "mixed" \notin raced' /\ raced \subseteq raced'
    BY <2>1, <2>2, AnswerRace
  <2>4. OneTopic
    BY <2>3
  <2>5. Topic(calls[i]) = Topic(calls[k])
    BY <1>1, <2>2, <2>4 DEF OneTopic
  <2> QED
    BY <2>1, <2>5 DEF Topic
<1>6. Imports'
  BY <1>1, <1>2, <1>5 DEF Fresh, Imports
<1>7. Delivered'
  <2>1. calls[i].kind = "import" => Importing(i)
    BY <1>1 DEF Importing, Answered
  <2>2. calls[i].kind = "import" => Said(i) = Imported
    BY <2>1 DEF Said, Fresh, Imports
  <2> QED
    BY <1>1, <1>2, <2>2 DEF Fresh, Delivered
<1> QED
  BY <1>4, <1>6, <1>7 DEF Fresh

LEMMA FreshStarted ==
    ASSUME Types, Fresh, NEW i \in DOMAIN calls, StartRun(i)
    PROVE  Fresh'
<1>1. Moved(i, "held") /\ UNCHANGED <<doc, exists, store>> /\ calls[i].kind = "run"
  BY StartRunCall DEF StartRun, screen
<1>2. DOMAIN calls' = DOMAIN calls /\ \A j \in DOMAIN calls :
        /\ calls'[j].kind = calls[j].kind /\ calls'[j].script = calls[j].script
        /\ j # i => calls'[j] = calls[j]
  BY <1>1 DEF Moved, Alike
<1>3. \A j \in DOMAIN calls : (Importing(j)' <=> Importing(j))
  BY <1>1, <1>2 DEF Importing, Answered
<1> QED
  BY <1>1, <1>2, <1>3 DEF Fresh, Unseen, Imports, Delivered, Sent, Answered

LEMMA FreshTaken ==
    ASSUME Types, Fresh, NEW i \in DOMAIN calls, Taking(i)
    PROVE  Fresh'
<1>1. /\ Dropped(i, calls') /\ Answered(i) /\ UNCHANGED <<store, exists>>
      /\ doc'.id \in {doc.id, calls[i].script}
  BY DropStep, TakenTypes DEF Taking, TakeDocument, TakeEdit, TakeFinal, Taken, Answered, gateway
<1>2. /\ i \in Nat /\ DOMAIN calls' \subseteq Nat
      /\ \A j \in DOMAIN calls' : Was(i, j) \in DOMAIN calls \ {i} /\ calls'[j] = calls[Was(i, j)]
  BY <1>1, CallsAre DEF Dropped
<1>3. \A j \in DOMAIN calls' : /\ Sent(j)' <=> Sent(Was(i, j))
                               /\ Answered(j)' <=> Answered(Was(i, j))
                               /\ Importing(j)' <=> Importing(Was(i, j))
  BY <1>2 DEF Sent, Answered, Importing
<1>4. \A j, k \in DOMAIN calls' : (j < k <=> Was(i, j) < Was(i, k)) /\ (Was(i, j) = Was(i, k) => j = k)
  BY <1>2 DEF Was
<1>5. ~ Sent(i) /\ ~ Importing(i)
  BY <1>1 DEF Sent, Answered, Importing
<1>6. Unseen'
  BY <1>1, <1>2, <1>3, <1>5 DEF Fresh, Unseen
<1>7. Imports'
  BY <1>1, <1>2, <1>3, <1>4, <1>5 DEF Fresh, Imports
<1>8. Delivered'
  BY <1>1, <1>2, <1>3 DEF Fresh, Delivered
<1> QED
  BY <1>6, <1>7, <1>8 DEF Fresh

LEMMA FreshEnd ==
    ASSUME Types, Fresh, Settled, NEW i \in DOMAIN calls, TakeEnd(i)
    PROVE  Fresh'
<1>1. PICK n \in Nat \ {0} :
                /\ DOMAIN calls' = 1..n /\ DOMAIN calls = 1..n
                /\ calls'[n] = FinalCall(i)
                /\ calls'[n].kind = "final" /\ calls'[n].at = "sent" /\ calls'[n].newest = TRUE
                /\ calls'[n].script = calls[i].script
                /\ \A j \in 1..(n - 1) : /\ Was(i, j) \in DOMAIN calls \ {i}
                                         /\ calls'[j] = calls[Was(i, j)]
                                         /\ ~ IsLast(j)'
  BY EndIs
<1>2. UNCHANGED <<doc, store, exists>> /\ calls[i].kind = "run"
  BY EndIs DEF TakeEnd, gateway, screen, IsRun
<1>3. \A j \in DOMAIN calls' : j # n => j \in 1..(n - 1)
  BY <1>1
<1>4. \A j \in 1..(n - 1) : /\ Sent(j)' <=> Sent(Was(i, j))
                            /\ Answered(j)' <=> Answered(Was(i, j))
                            /\ Importing(j)' <=> Importing(Was(i, j))
  BY <1>1 DEF Sent, Answered, Importing
<1>5. ~ Importing(n)' /\ ~ Answered(n)'
  BY <1>1 DEF Importing, Answered
<1>6. \A j, k \in 1..(n - 1) : (j < k <=> Was(i, j) < Was(i, k)) /\ (Was(i, j) = Was(i, k) => j = k)
  BY <1>1 DEF Was
<1>7. calls[i].script \in exists
  BY <1>2, CallsAre DEF Fresh, Unseen, AnyCall
<1>8. \A k \in DOMAIN calls : Importing(k) => calls[i].script # calls[k].script
  BY <1>2 DEF Fresh, Imports, Importing
<1>9. Unseen'
  BY <1>1, <1>2, <1>3, <1>4, <1>7 DEF Fresh, Unseen
<1>10. Imports'
  <2> SUFFICES ASSUME NEW k \in DOMAIN calls', Importing(k)'
               PROVE  /\ store'[calls'[k].script] = Imported
                      /\ doc'.id # calls'[k].script
                      /\ \A j \in DOMAIN calls' :
                            j # k /\ calls'[j].script = calls'[k].script
                            => k < j /\ calls'[j].kind = "open" /\ Sent(j)'
    BY DEF Imports
  <2>1. k \in 1..(n - 1)
    BY <1>3, <1>5
  <2>2. PICK l \in DOMAIN calls \ {i} : l = Was(i, k) /\ calls'[k] = calls[l] /\ Importing(l)
    BY <1>1, <1>4, <2>1
  <2>3. /\ store[calls[l].script] = Imported /\ doc.id # calls[l].script
        /\ \A j \in DOMAIN calls : j # l /\ calls[j].script = calls[l].script
                                   => l < j /\ calls[j].kind = "open" /\ Sent(j)
    BY <2>2 DEF Fresh, Imports
  <2>4. ASSUME NEW j \in DOMAIN calls', j # k, calls'[j].script = calls'[k].script
        PROVE  k < j /\ calls'[j].kind = "open" /\ Sent(j)'
    <3>1. j # n
      BY <1>1, <1>8, <2>2, <2>4
    <3>2. j \in 1..(n - 1)
      BY <1>3, <3>1
    <3>3. PICK m \in DOMAIN calls \ {i} : m = Was(i, j) /\ calls'[j] = calls[m]
      BY <1>1, <3>2
    <3>4. m # l
      BY <1>6, <2>1, <2>2, <2>4, <3>2, <3>3
    <3>5. l < m /\ calls[m].kind = "open" /\ Sent(m)
      BY <2>2, <2>3, <2>4, <3>3, <3>4
    <3> QED
      BY <1>4, <1>6, <2>1, <2>2, <3>2, <3>3, <3>5
  <2> QED
    BY <1>2, <2>2, <2>3, <2>4
<1>11. Delivered'
  BY <1>1, <1>2, <1>3, <1>4, <1>5 DEF Fresh, Delivered
<1> QED
  BY <1>9, <1>10, <1>11 DEF Fresh

-----------------------------------------------------------------------------
(* The documents that say what the gateway keeps: what a read of a script  *)
(* would answer, or the answer to its import.                              *)
InSync == {Document(s, Refreshed(s)) : s \in Scripts} \cup {Document(s, Imported) : s \in Scripts}

(* With the answers in order, the last call of all is the last to be taken, *)
(* and what it answers is in step with the gateway.                        *)
LastSyncs ==
    NoRun => /\ DOMAIN calls = {} => doc \in InSync
             /\ \A l \in DOMAIN calls : (\A j \in DOMAIN calls : j <= l) =>
                   calls[l].newest /\ (Answered(l) => calls[l].reply \in InSync)

(* With one thing edited at a time, the answers of the newest edit, and of *)
(* every other kind of call, are in step; when only superseded edits are   *)
(* left, so is the screen.                                                 *)
NewestIsLast ==
    \A i, j \in DOMAIN calls : IsEdit(i) /\ ~ IsRun(j) /\ i < j => ~ calls[i].newest

Stale(i) == IsEdit(i) /\ ~ calls[i].newest
AllSync ==
    NoRun => /\ \A i \in DOMAIN calls : Answered(i) /\ ~ Stale(i) => calls[i].reply \in InSync
             /\ (\A i \in DOMAIN calls : Stale(i)) =>
                   doc \in InSync /\ \A i \in DOMAIN calls : ~ Sent(i)

Unmixed == OneTopic /\ NewestIsLast /\ AllSync

LEMMA SameStoreSameSync ==
    ASSUME store' = store, voiced' = voiced
    PROVE  InSync' = InSync
BY DEF InSync, Refreshed, RefreshedCue

(* What is read twice is read the same: a cue that is done has its clip.   *)
LEMMA AnswerSync ==
    ASSUME Types, DoneIsVoiced, NEW i \in DOMAIN calls, Answer(i), Delivered'
    PROVE  InSync' = InSync /\ calls'[i].reply \in InSync
<1> DEFINE h == calls[i].script
<1>1. /\ h \in Scripts /\ voiced' = voiced /\ store'[h] = Said(i)
      /\ \A s \in Scripts : s # h => store'[s] = store[s]
      /\ calls'[i].reply = Document(h, Said(i))
      /\ Moved(i, "answered")
  BY AnswerCall, AnswerStore
<1>2. ASSUME NEW s \in Scripts, store'[s] = store[s] PROVE Refreshed(s)' = Refreshed(s)
  BY <1>1, <1>2 DEF Refreshed, RefreshedCue
<1>3. ASSUME NEW s \in Scripts, store'[s] = Refreshed(s) PROVE Refreshed(s)' = Refreshed(s)
  <2> DEFINE d == store[s].dflt
  <2> DEFINE one(c) == RefreshedCue(d, store[s].cues[c])
  <2> DEFINE two(c) == RefreshedCue(Refreshed(s).dflt, Refreshed(s).cues[c])
  <2>1. /\ store[s] \in Record /\ \A c \in Cues : store[s].cues[c] \in CueRecord
    BY DEF Types, Record
  <2>2. /\ Refreshed(s) \in Record /\ Refreshed(s).dflt = d
        /\ \A c \in Cues : Refreshed(s).cues[c] = one(c) /\ Refreshed(s).cues[c] \in CueRecord
                           /\ ClipOf(d, one(c)) = ClipOf(d, store[s].cues[c])
    BY RefreshedIs DEF Record
  <2>3. Refreshed(s)' = [Refreshed(s) EXCEPT !.cues = [c \in Cues |-> two(c)]]
    BY <1>1, <1>3 DEF Refreshed, RefreshedCue
  <2>4. \A c \in Cues : two(c) = Refreshed(s).cues[c]
    <3> TAKE c \in Cues
    <3> DEFINE q == store[s].cues[c]
    <3> DEFINE p == one(c)
    <3>1. q \in CueRecord /\ p \in CueRecord /\ ClipOf(d, p) = ClipOf(d, q)
      BY <2>1, <2>2
    <3>2. q.state = "done" => ClipOf(d, q) \in voiced
      BY DEF DoneIsVoiced, Stored
    <3>3. p = [q EXCEPT !.state = IF ClipOf(d, q) \in voiced THEN "done"
                        ELSE CASE @ = "failed" -> "failed"
                               [] @ = "done"   -> "stale"
                               [] OTHER        -> "queued"]
      BY DEF RefreshedCue
    <3>4. two(c) = [p EXCEPT !.state = IF ClipOf(d, p) \in voiced THEN "done"
                        ELSE CASE @ = "failed" -> "failed"
                               [] @ = "done"   -> "stale"
                               [] OTHER        -> "queued"]
      BY <2>2 DEF RefreshedCue
    <3> HIDE DEF p, q
    <3>5. /\ ClipOf(d, p) \in voiced => p.state = "done"
          /\ ClipOf(d, p) \notin voiced => p.state \in {"failed", "queued"}
      BY <3>1, <3>2, <3>3 DEF CueRecord
    <3>6. two(c) = [p EXCEPT !.state = p.state]
      BY <3>1, <3>4, <3>5 DEF CueRecord
    <3>7. two(c) = p
      BY <3>1, <3>6 DEF CueRecord
    <3> QED
      BY <2>2, <3>7 DEF p
  <2>5. [c \in Cues |-> two(c)] = Refreshed(s).cues
    <3> HIDE DEF two
    <3> QED
      BY <2>2, <2>4 DEF Record
  <2> HIDE DEF two
  <2>6. Refreshed(s)' = [Refreshed(s) EXCEPT !.cues = Refreshed(s).cues]
    BY <2>3, <2>5
  <2> QED
    BY <2>2, <2>6 DEF Record
<1>4. \A s \in Scripts : Refreshed(s)' = Refreshed(s)
  BY <1>1, <1>2, <1>3 DEF Said
<1>5. InSync' = InSync
  BY <1>4 DEF InSync
<1>6. calls'[i].reply \in InSync
  <2>1. CASE calls[i].kind # "import"
    BY <1>1, <2>1 DEF Said, InSync
  <2>2. CASE calls[i].kind = "import"
    <3>1. calls'[i].reply = Document(h, Imported)
      BY <1>1, <2>2 DEF Delivered, Answered, Moved, Alike
    <3> QED
      BY <1>1, <3>1 DEF InSync
  <2> QED
    BY <2>1, <2>2
<1> QED
  BY <1>5, <1>6

(* The answers in order.                                                   *)
LEMMA LastMade == ASSUME Types, NEW new, MadeFacts(new) PROVE LastSyncs'
<1>0. PICK n : n = Len(calls) + 1
  OBVIOUS
<1>1. /\ n \in Nat /\ \A j \in DOMAIN calls : j \in Nat /\ j < n
      /\ DOMAIN calls' = DOMAIN calls \cup {n} /\ calls'[n].at = "sent" /\ calls'[n].newest = TRUE
  BY <1>0, CallsAre DEF MadeFacts, Added
<1>2. ~ Answered(n)'
  BY <1>1 DEF Answered
<1>3. \A l \in DOMAIN calls' : (\A j \in DOMAIN calls' : j <= l) => l = n
  BY <1>1
<1> QED
  BY <1>1, <1>2, <1>3 DEF LastSyncs

LEMMA LastEnd == ASSUME Types, Settled, NEW i \in DOMAIN calls, TakeEnd(i) PROVE LastSyncs'
<1>1. PICK n \in Nat \ {0} : /\ DOMAIN calls' = 1..n
                             /\ calls'[n].at = "sent" /\ calls'[n].newest = TRUE
  BY EndIs
<1>2. ~ Answered(n)' /\ n \in DOMAIN calls'
  BY <1>1 DEF Answered
<1>3. \A l \in DOMAIN calls' : (\A j \in DOMAIN calls' : j <= l) => l = n
  <2> TAKE l \in DOMAIN calls'
  <2>1. n \in DOMAIN calls' /\ l \in Nat /\ l <= n
    BY <1>1
  <2> QED
    BY <2>1
<1> QED
  BY <1>1, <1>2, <1>3 DEF LastSyncs

LEMMA LastHandled ==
    ASSUME Types, Settled, LastSyncs, NEW i \in DOMAIN calls, Handle(i)
    PROVE  LastSyncs'
<1>1. Moved(i, "held") /\ Sent(i) /\ DOMAIN calls \subseteq Nat
  BY HandleCall, HandleStore, CallsAre DEF Sent
<1>2. DOMAIN calls' = DOMAIN calls /\ \A j \in DOMAIN calls :
        /\ IsRun(j)' <=> IsRun(j)
        /\ Answered(j)' => Answered(j) /\ j # i
        /\ calls'[j].newest = calls[j].newest
  BY <1>1 DEF Moved, Alike, IsRun, Answered
<1>3. \A l \in DOMAIN calls : (\A j \in DOMAIN calls : j <= l) => ~ Answered(l)'
  <2> SUFFICES ASSUME NEW l \in DOMAIN calls, \A j \in DOMAIN calls : j <= l, Answered(l)'
               PROVE  FALSE
    OBVIOUS
  <2>1. Answered(l) /\ l # i /\ i < l
    BY <1>1, <1>2
  <2>2. ~ Sent(l)
    BY <2>1 DEF Answered, Sent
  <2> QED
    BY <1>1, <2>1, <2>2 DEF Settled, InOrder
<1> QED
  BY <1>1, <1>2, <1>3 DEF LastSyncs, NoRun

(* A read answers with the record as it stands.                            *)
LEMMA LastAnswered ==
    ASSUME Types, DoneIsVoiced, LastSyncs, NEW i \in DOMAIN calls, Answer(i), Delivered'
    PROVE  LastSyncs'
<1>1. Moved(i, "answered") /\ InSync' = InSync /\ calls'[i].reply \in InSync /\ doc' = doc
  BY AnswerCall, AnswerSync, AnswerIs
<1>2. DOMAIN calls' = DOMAIN calls /\ \A j \in DOMAIN calls :
        /\ IsRun(j)' <=> IsRun(j)
        /\ Answered(j)' /\ j # i => Answered(j) /\ calls'[j].reply = calls[j].reply
        /\ calls'[j].newest = calls[j].newest
  BY <1>1 DEF Moved, Alike, IsRun, Answered
<1> QED
  BY <1>1, <1>2 DEF LastSyncs, NoRun

LEMMA LastStarted ==
    ASSUME Types, NEW i \in DOMAIN calls, StartRun(i)
    PROVE  LastSyncs'
<1>1. Moved(i, "held") /\ calls[i].kind = "run"
  BY StartRunCall DEF StartRun
<1> QED
  BY <1>1 DEF LastSyncs, NoRun, IsRun, Moved, Alike

(* A run is on: nothing is claimed.                                        *)
LEMMA RunIsOn ==
    ASSUME Types, Settled,
           \/ \E r \in 1..MaxRuns : Active(r)
           \/ \E i \in DOMAIN calls : TakeFrame(i)
           \/ UNCHANGED vars,
           calls' = calls
    PROVE  ~ NoRun' \/ UNCHANGED vars
<1>1. CASE \E r \in 1..MaxRuns : Active(r)
  BY <1>1 DEF Settled, HeardRun, Hears, NoRun, IsRun
<1>2. CASE \E i \in DOMAIN calls : TakeFrame(i)
  BY <1>2 DEF TakeFrame, RunCall, NoRun, IsRun
<1> QED
  BY <1>1, <1>2

LEMMA TakenIs ==
    ASSUME Types, NEW i \in DOMAIN calls, Taking(i)
    PROVE  /\ Dropped(i, calls') /\ Answered(i) /\ ~ IsRun(i)
           /\ InSync' = InSync
           /\ doc' = IF Stale(i) THEN doc ELSE calls[i].reply
           /\ IsEdit(i) <=> TakeEdit(i)
           /\ calls[i].newest \in BOOLEAN
<1>1. calls[i].newest \in BOOLEAN
  BY CallsAre DEF AnyCall
<1>2. /\ Dropped(i, calls') /\ Answered(i) /\ ~ IsRun(i) /\ UNCHANGED <<store, voiced>>
  BY DropStep DEF Taking, TakeDocument, TakeEdit, TakeFinal, Taken, Answered, IsRun, gateway
<1>3. doc' = IF Stale(i) THEN doc ELSE calls[i].reply
  BY <1>1 DEF Taking, TakeDocument, TakeEdit, TakeFinal, Taken, Stale, IsEdit
<1>4. IsEdit(i) <=> TakeEdit(i)
  BY DEF Taking, TakeDocument, TakeEdit, TakeFinal, Taken, IsEdit
<1> QED
  BY <1>1, <1>2, <1>3, <1>4, SameStoreSameSync

LEMMA LeftAre ==
    ASSUME Types, NEW i, Dropped(i, calls')
    PROVE  /\ i \in Nat /\ DOMAIN calls \subseteq Nat /\ DOMAIN calls' \subseteq Nat
           /\ \A j \in DOMAIN calls' :
                 /\ Was(i, j) \in DOMAIN calls \ {i} /\ calls'[j] = calls[Was(i, j)]
                 /\ IsRun(j)' <=> IsRun(Was(i, j))
                 /\ IsEdit(j)' <=> IsEdit(Was(i, j))
                 /\ Stale(j)' <=> Stale(Was(i, j))
                 /\ Answered(j)' <=> Answered(Was(i, j))
                 /\ Sent(j)' <=> Sent(Was(i, j))
           /\ \A k \in DOMAIN calls \ {i} : Is(i, k) \in DOMAIN calls' /\ Was(i, Is(i, k)) = k
           /\ \A j, k \in DOMAIN calls' : /\ (j < k <=> Was(i, j) < Was(i, k))
                                           /\ (Was(i, j) = Was(i, k) => j = k)
<1>1. /\ i \in Nat /\ DOMAIN calls \subseteq Nat /\ DOMAIN calls' \subseteq Nat
      /\ \A j \in DOMAIN calls' : Was(i, j) \in DOMAIN calls \ {i} /\ calls'[j] = calls[Was(i, j)]
      /\ \A k \in DOMAIN calls \ {i} : Is(i, k) \in DOMAIN calls' /\ Was(i, Is(i, k)) = k
  BY CallsAre DEF Dropped
<1>2. \A j \in DOMAIN calls' :
                 /\ IsRun(j)' <=> IsRun(Was(i, j))
                 /\ IsEdit(j)' <=> IsEdit(Was(i, j))
                 /\ Stale(j)' <=> Stale(Was(i, j))
                 /\ Answered(j)' <=> Answered(Was(i, j))
                 /\ Sent(j)' <=> Sent(Was(i, j))
  BY <1>1 DEF IsRun, IsEdit, Stale, Answered, Sent
<1>3. \A j, k \in DOMAIN calls' : (j < k <=> Was(i, j) < Was(i, k)) /\ (Was(i, j) = Was(i, k) => j = k)
  BY <1>1 DEF Was
<1> QED
  BY <1>1, <1>2, <1>3

(* Answers taken in order: the last one brings the screen into step.       *)
LEMMA LastTaken ==
    ASSUME Types, LastSyncs, NEW i \in DOMAIN calls, Taking(i),
           \A j \in DOMAIN calls : j < i => IsRun(j)
    PROVE  LastSyncs'
<1> SUFFICES ASSUME NoRun'
             PROVE  /\ DOMAIN calls' = {} => doc' \in InSync
                    /\ \A l \in DOMAIN calls' : (\A j \in DOMAIN calls' : j <= l) =>
                          calls'[l].newest /\ (Answered(l)' => calls'[l].reply \in InSync)
  BY TakenIs DEF LastSyncs
<1> USE LeftAre, TakenIs
<1>1. NoRun
  BY DEF NoRun
<1>2. \A k \in DOMAIN calls : i <= k
  BY <1>1 DEF NoRun
<1>3. CASE DOMAIN calls' = {}
  <2>1. \A k \in DOMAIN calls : k <= i
    BY <1>3
  <2>2. calls[i].newest /\ calls[i].reply \in InSync
    BY <1>1, <2>1 DEF LastSyncs
  <2> QED
    BY <1>3, <2>2 DEF Stale
<1>4. ASSUME NEW l \in DOMAIN calls', \A j \in DOMAIN calls' : j <= l
      PROVE  calls'[l].newest /\ (Answered(l)' => calls'[l].reply \in InSync)
  <2>1. Was(i, l) \in DOMAIN calls /\ i <= Was(i, l)
    BY <1>2
  <2>2. \A k \in DOMAIN calls : k <= Was(i, l)
    BY <1>4, <2>1 DEF Was, Is
  <2> QED
    BY <1>1, <2>1, <2>2 DEF LastSyncs
<1> QED
  BY <1>3, <1>4

(* One thing edited at a time.                                             *)
LEMMA UnmixedMade ==
    ASSUME Types, Unmixed, NEW new, MadeFacts(new), Made(new),
           "spoilt" \notin raced', "mixed" \notin raced'
    PROVE  Unmixed'
<1>0. PICK n : n = Len(calls) + 1
  OBVIOUS
<1>1. /\ n \in Nat /\ \A j \in DOMAIN calls : j \in Nat /\ j < n
      /\ DOMAIN calls' = DOMAIN calls \cup {n} /\ calls'[n] = new
      /\ \A j \in DOMAIN calls : /\ Alike(calls'[j], calls[j]) /\ calls'[j].at = calls[j].at
                                 /\ calls'[j].reply = calls[j].reply
                                 /\ calls'[j].newest <=> calls[j].newest /\ ~ Supersedes(new, calls[j])
  BY <1>0, CallsAre DEF MadeFacts, Added
<1>2. \A j \in DOMAIN calls : /\ IsRun(j)' <=> IsRun(j)
                              /\ IsEdit(j)' <=> IsEdit(j)
                              /\ Answered(j)' <=> Answered(j)
                              /\ Sent(j)' <=> Sent(j)
                              /\ Stale(j) => Stale(j)'
                              /\ Topic(calls'[j]) = Topic(calls[j])
  BY <1>1 DEF IsRun, IsEdit, Answered, Sent, Stale, Topic, Alike
<1>3. /\ new.newest = TRUE /\ new.at = "sent" /\ IsRun(n)' <=> new.kind = "run"
      /\ ~ Answered(n)' /\ ~ Stale(n)'
  BY <1>1 DEF MadeFacts, Answered, Stale, IsRun
<1>4. new.kind # "run" => \A j \in DOMAIN calls : ~ IsRun(j) => Topic(calls[j]) = Topic(new)
  BY MadeRace
<1>5. OneTopic'
  BY <1>1, <1>2, <1>3, <1>4 DEF Unmixed, OneTopic
<1>6. NewestIsLast'
  <2> SUFFICES ASSUME NEW i \in DOMAIN calls', NEW j \in DOMAIN calls', IsEdit(i)', ~ IsRun(j)', i < j
               PROVE  ~ calls'[i].newest
    BY DEF NewestIsLast
  <2>1. i \in DOMAIN calls /\ IsEdit(i) /\ ~ IsRun(i)
    BY <1>1, <1>2 DEF IsEdit, IsRun
  <2>2. CASE j = n
    <3>1. Topic(calls[i]) = Topic(new)
      BY <1>3, <1>4, <2>1, <2>2
    <3>2. Supersedes(new, calls[i])
      BY <2>1, <3>1 DEF Topic, Supersedes, IsEdit
    <3> QED
      BY <1>1, <2>1, <3>2
  <2>3. CASE j \in DOMAIN calls
    BY <1>1, <1>2, <2>1, <2>3 DEF Unmixed, NewestIsLast
  <2> QED
    BY <1>1, <2>2, <2>3
<1>7. AllSync'
  <2>1. InSync' = InSync
    BY SameStoreSameSync DEF MadeFacts
  <2> QED
    BY <1>1, <1>2, <1>3, <2>1 DEF Unmixed, AllSync, NoRun
<1> QED
  BY <1>5, <1>6, <1>7 DEF Unmixed

(* The gateway moves a call on.                                            *)
LEMMA UnmixedMoved ==
    ASSUME Types, Unmixed, NEW i, NEW stage, Moved(i, stage)
    PROVE  /\ OneTopic' /\ NewestIsLast' /\ DOMAIN calls' = DOMAIN calls
           /\ NoRun' <=> NoRun
           /\ \A j \in DOMAIN calls : /\ IsRun(j)' <=> IsRun(j)
                                      /\ IsEdit(j)' <=> IsEdit(j)
                                      /\ Stale(j)' <=> Stale(j)
                                      /\ j # i => calls'[j] = calls[j]
<1>1. DOMAIN calls' = DOMAIN calls /\ \A j \in DOMAIN calls :
         /\ IsRun(j)' <=> IsRun(j)
         /\ IsEdit(j)' <=> IsEdit(j)
         /\ Topic(calls'[j]) = Topic(calls[j])
         /\ calls'[j].newest = calls[j].newest
         /\ j # i => calls'[j] = calls[j]
  BY DEF Moved, Alike, IsRun, IsEdit, Topic
<1>2. \A j \in DOMAIN calls : Stale(j)' <=> Stale(j)
  BY <1>1 DEF Stale
<1>3. OneTopic' /\ NewestIsLast' /\ (NoRun' <=> NoRun)
  BY <1>1 DEF Unmixed, OneTopic, NewestIsLast, NoRun
<1> QED
  BY <1>1, <1>2, <1>3

LEMMA UnmixedHandled ==
    ASSUME Types, Settled, Unmixed, NEW i \in DOMAIN calls, Handle(i)
    PROVE  Unmixed'
<1>1. /\ Moved(i, "held") /\ Sent(i) /\ doc' = doc
      /\ calls[i].kind \in {"cue", "defaults", "import"}
      /\ calls[i].kind = "import" => InSync' = InSync
  BY HandleCall, HandleStore, SameStoreSameSync DEF Sent, Handle, screen
<1>2. /\ OneTopic' /\ NewestIsLast' /\ DOMAIN calls' = DOMAIN calls
      /\ NoRun' <=> NoRun
      /\ \A j \in DOMAIN calls : /\ IsRun(j)' <=> IsRun(j)
                                 /\ IsEdit(j)' <=> IsEdit(j)
                                 /\ Stale(j)' <=> Stale(j)
                                 /\ j # i => calls'[j] = calls[j]
  BY <1>1, UnmixedMoved
<1>3. ~ Answered(i)'
  BY <1>1 DEF Moved, Answered
<1>4. ASSUME NoRun, NEW j \in DOMAIN calls, Answered(j)', ~ Stale(j)
      PROVE  calls'[j].reply \in InSync'
  <2>1. j # i /\ Answered(j) /\ ~ Sent(j) /\ calls'[j].reply = calls[j].reply
    BY <1>2, <1>3, <1>4 DEF Answered, Sent
  <2>2. calls[j].reply \in InSync
    BY <1>4, <2>1 DEF Unmixed, AllSync
  <2>3. CASE IsEdit(i)
    <3>1. Topic(calls[i]) = Topic(calls[j])
      BY <1>4 DEF Unmixed, OneTopic, NoRun
    <3>2. IsEdit(j) /\ calls[j].newest
      BY <1>4, <2>3, <3>1 DEF Topic, IsEdit, Stale
    <3>3. ~ (j < i)
      BY <1>4, <3>2 DEF Unmixed, NewestIsLast, NoRun
    <3>4. i < j
      BY <2>1, <3>3, CallsAre
    <3> QED
      BY <1>1, <2>1, <3>4 DEF Settled, InOrder
  <2>4. CASE ~ IsEdit(i)
    BY <1>1, <2>1, <2>2, <2>4 DEF IsEdit
  <2> QED
    BY <2>3, <2>4
<1>5. AllSync'
  BY <1>1, <1>2, <1>4 DEF Unmixed, AllSync
<1> QED
  BY <1>2, <1>5 DEF Unmixed

LEMMA UnmixedAnswered ==
    ASSUME Types, DoneIsVoiced, Unmixed, NEW i \in DOMAIN calls, Answer(i), Delivered'
    PROVE  Unmixed'
<1>1. Moved(i, "answered") /\ InSync' = InSync /\ calls'[i].reply \in InSync /\ doc' = doc
  BY AnswerCall, AnswerSync, AnswerIs
<1>2. /\ OneTopic' /\ NewestIsLast' /\ DOMAIN calls' = DOMAIN calls
      /\ NoRun' <=> NoRun
      /\ \A j \in DOMAIN calls : /\ IsRun(j)' <=> IsRun(j)
                                 /\ IsEdit(j)' <=> IsEdit(j)
                                 /\ Stale(j)' <=> Stale(j)
                                 /\ j # i => calls'[j] = calls[j]
  BY <1>1, UnmixedMoved
<1>3. \A j \in DOMAIN calls : /\ Answered(j)' /\ j # i => Answered(j)
                              /\ ~ Sent(j) => ~ Sent(j)'
  BY <1>1, <1>2 DEF Answered, Sent, Moved
<1>4. AllSync'
  BY <1>1, <1>2, <1>3 DEF Unmixed, AllSync
<1> QED
  BY <1>2, <1>4 DEF Unmixed

LEMMA UnmixedStarted ==
    ASSUME Types, Unmixed, NEW i \in DOMAIN calls, StartRun(i)
    PROVE  Unmixed'
<1>1. Moved(i, "held") /\ IsRun(i)
  BY StartRunCall DEF StartRun, IsRun
<1>2. OneTopic' /\ NewestIsLast' /\ ~ NoRun'
  BY <1>1, UnmixedMoved DEF NoRun
<1> QED
  BY <1>2 DEF Unmixed, AllSync

LEMMA UnmixedTaken ==
    ASSUME Types, Settled, Unmixed, NEW i \in DOMAIN calls, Taking(i)
    PROVE  Unmixed'
<1> USE LeftAre, TakenIs
<1>1. OneTopic'
  BY DEF Unmixed, OneTopic
<1>2. NewestIsLast'
  BY DEF Unmixed, NewestIsLast
<1>3. ASSUME NoRun' PROVE NoRun
  BY <1>3 DEF NoRun
<1>4. ASSUME NoRun' PROVE \A j \in DOMAIN calls' : Answered(j)' /\ ~ Stale(j)' => calls'[j].reply \in InSync'
  BY <1>3, <1>4 DEF Unmixed, AllSync
<1>5. ASSUME NoRun', \A j \in DOMAIN calls' : Stale(j)'
      PROVE  doc' \in InSync' /\ \A j \in DOMAIN calls' : ~ Sent(j)'
  <2>1. \A k \in DOMAIN calls \ {i} : Stale(k)
    BY <1>5
  <2>2. CASE Stale(i)
    BY <1>3, <1>5, <2>1, <2>2 DEF Unmixed, AllSync
  <2>3. CASE ~ Stale(i)
    <3>1. doc' \in InSync'
      BY <1>3, <1>5, <2>3 DEF Unmixed, AllSync
    <3>2. ASSUME NEW k \in DOMAIN calls \ {i} PROVE ~ Sent(k)
      <4>1. IsEdit(k) /\ ~ IsRun(k)
        BY <2>1 DEF Stale, IsEdit, IsRun
      <4>2. Topic(calls[i]) = Topic(calls[k])
        BY <4>1 DEF Unmixed, OneTopic
      <4>3. IsEdit(i) /\ calls[i].newest
        BY <2>3, <4>1, <4>2 DEF Topic, IsEdit, Stale
      <4>4. k < i
        BY <4>1, <4>3 DEF Unmixed, NewestIsLast
      <4>5. ~ Sent(i)
        BY DEF Sent, Answered
      <4> QED
        BY <4>4, <4>5 DEF Settled, InOrder
    <3> QED
      BY <3>1, <3>2
  <2> QED
    BY <2>2, <2>3
<1>6. AllSync'
  BY <1>4, <1>5 DEF AllSync
<1> QED
  BY <1>1, <1>2, <1>6 DEF Unmixed

(* What the end of a run says of the order.                                *)
LEMMA EndRace ==
    ASSUME NEW i, TakeEnd(i), "spoilt" \notin raced'
    PROVE  /\ "spoilt" \notin raced /\ raced \subseteq raced'
           /\ raced' \subseteq raced \cup {"answers", "mixed"}
           /\ "answers" \notin raced' => i = 1
           /\ "mixed" \notin raced' => \A j \in DOMAIN Without(i) :
                 Without(i)[j].kind # "run" => Topic(Without(i)[j]) = Topic(FinalCall(i))
<1> DEFINE mixed == Races(FinalCall(i), Without(i))
<1> DEFINE races == (IF i # 1 THEN {"answers"} ELSE {}) \cup mixed
<1>1. raced' = RacedBy(races)
  BY DEF TakeEnd, FinalCall
<1>2. /\ mixed \subseteq {"mixed"}
      /\ "mixed" \notin mixed => \A j \in DOMAIN Without(i) :
                 Without(i)[j].kind # "run" => Topic(Without(i)[j]) = Topic(FinalCall(i))
  BY DEF Races, FinalCall, Call
<1> HIDE DEF mixed
<1>3. races \subseteq {"answers", "mixed"} /\ mixed \subseteq races /\ (i # 1 => "answers" \in races)
  BY <1>2
<1> HIDE DEF races
<1>4. "spoilt" \notin raced /\ raced' = raced \cup races
  BY <1>1, RacedIs
<1> QED
  BY <1>2, <1>3, <1>4

LEMMA UnmixedEnd ==
    ASSUME Types, Settled, NEW i \in DOMAIN calls, TakeEnd(i),
           "spoilt" \notin raced', "mixed" \notin raced'
    PROVE  Unmixed'
<1>1. PICK n \in Nat \ {0} :
                /\ DOMAIN calls' = 1..n /\ DOMAIN calls = 1..n
                /\ calls'[n] = FinalCall(i)
                /\ calls'[n].kind = "final" /\ calls'[n].at = "sent" /\ calls'[n].newest = TRUE
                /\ calls'[n].script = calls[i].script
                /\ \A j \in 1..(n - 1) : /\ Was(i, j) \in DOMAIN calls \ {i}
                                         /\ calls'[j] = calls[Was(i, j)]
                                         /\ ~ IsLast(j)'
  BY EndIs
<1>2. IsRun(i)
  BY EndIs
<1>3. \A j \in 1..(n - 1) : FALSE
  <2> SUFFICES ASSUME NEW j \in 1..(n - 1) PROVE FALSE
    OBVIOUS
  <2>1. calls'[j].kind \notin {"run", "final"}
    BY <1>1 DEF IsLast
  <2>2. Dropped(i, Without(i)) /\ Len(calls) = n
    BY <1>1, DropStep, CallsAre
  <2>3. j \in DOMAIN Without(i) /\ Without(i)[j] = calls'[j]
    BY <1>1, <2>2 DEF Dropped
  <2>4. Topic(calls'[j]) = Topic(FinalCall(i))
    BY <2>1, <2>3, EndRace
  <2> QED
    BY <1>1, <2>1, <2>4 DEF Topic
<1>4. n = 1 /\ \A j \in DOMAIN calls' : j = 1
  BY <1>1, <1>3
<1>5. ~ Answered(1)' /\ ~ IsEdit(1)' /\ ~ Stale(1)'
  BY <1>1, <1>4 DEF Answered, IsEdit, Stale
<1>6. OneTopic' /\ NewestIsLast'
  BY <1>4, <1>5 DEF OneTopic, NewestIsLast
<1>7. AllSync'
  BY <1>1, <1>4, <1>5 DEF AllSync
<1> QED
  BY <1>6, <1>7 DEF Unmixed

-----------------------------------------------------------------------------
(* All of it together.                                                     *)
Apart == ~ ({"answers", "mixed"} \subseteq raced)

Screen ==
    /\ Settled /\ Fresh
    /\ "answers" \notin raced => LastSyncs
    /\ "mixed" \notin raced => Unmixed

ScreenInv == "spoilt" \notin raced => Screen

(* The ghost only grows by what a step says, or turns to "spoilt".         *)
LEMMA RaceSteps == ASSUME [Next]_vars PROVE raced' = raced \/ \E races : raced' = RacedBy(races)
<1>1. CASE UNCHANGED vars
  BY <1>1 DEF vars
<1>2. CASE Operator
  BY <1>2, Zenon DEF Operator, Open, Import, EditCue, EditDefaults, Run, Send
<1>3. ASSUME NEW i, Handle(i) \/ Answer(i) \/ StartRun(i)
      PROVE  \E races : raced' = RacedBy(races)
  BY <1>3, Zenon DEF Handle, Answer, StartRun, Race
<1>4. ASSUME NEW r, Serve(r) \/ Generate(r) \/ Generated(r) \/ GenerationFails(r) \/ RunEnds(r)
      PROVE  raced' = raced
  BY <1>4, Zenon DEF Serve, Generate, Generated, GenerationFails, RunEnds, Mark
<1>5. CASE Interface
  BY <1>5, Zenon DEF Interface, TakeDocument, TakeEdit, TakeFinal, TakeFrame, TakeEnd, Taken, Race
<1>6. CASE Network
  BY <1>6, Zenon DEF Network, LoseCall, LoseStream, Race
<1> QED
  BY <1>1, <1>2, <1>3, <1>4, <1>5, <1>6 DEF Next, Gateway

LEMMA ApartNext == ASSUME Apart, [Next]_vars PROVE Apart'
<1>1. CASE raced' = raced
  BY <1>1 DEF Apart
<1>2. ASSUME NEW races, raced' = RacedBy(races) PROVE Apart'
  <2> DEFINE all == raced \cup races
  <2>1. raced' = IF "spoilt" \in all \/ {"answers", "mixed"} \subseteq all THEN {"spoilt"} ELSE all
    BY <1>2 DEF RacedBy
  <2> HIDE DEF all
  <2> QED
    BY <2>1 DEF Apart
<1> QED
  BY <1>1, <1>2, RaceSteps

LEMMA ScreenInit == ASSUME Init PROVE Settled /\ Fresh /\ LastSyncs /\ Unmixed /\ Apart
<1>1. /\ store = [s \in Scripts |-> Imported] /\ exists = {First} /\ doc = Document(First, Imported)
      /\ job = [r \in 1..MaxRuns |-> Idle] /\ frames = <<>> /\ calls = <<>> /\ raced = {}
  BY DEF Init
<1>2. doc.id = First /\ First \in Scripts /\ DOMAIN calls = {} /\ DOMAIN frames = {}
  BY <1>1, ScriptEditorAssumption DEF Document
<1>3. Settled
  BY <1>1, <1>2 DEF Settled, OneRun, HeardRun, InOrder, Active, Idle
<1>4. Fresh
  BY <1>1, <1>2 DEF Fresh, Unseen, Imports, Delivered
<1>5. doc \in InSync
  BY <1>1, <1>2 DEF InSync
<1>6. LastSyncs /\ Unmixed
  BY <1>2, <1>5 DEF LastSyncs, Unmixed, OneTopic, NewestIsLast, AllSync
<1> QED
  BY <1>1, <1>3, <1>4, <1>6 DEF Apart

LEMMA MadeScript == ASSUME Types, NEW new, Made(new) PROVE new.script \in Scripts
<1>1. CASE \E s \in Scripts : new = Call("open", s, 0, NoChange) \/ new = Call("import", s, 0, NoChange)
  BY <1>1 DEF Call
<1>2. CASE new.kind \in {"cue", "defaults", "run"}
  BY <1>2, MadeIs DEF MadeFacts, Doc
<1>3. \/ \E s \in Scripts : new = Call("open", s, 0, NoChange) \/ new = Call("import", s, 0, NoChange)
      \/ new.kind \in {"cue", "defaults", "run"}
  BY DEF Made, Call
<1> QED
  BY <1>1, <1>2, <1>3

LEMMA FreshNext ==
    ASSUME Types, Settled, Fresh, [Next]_vars, "spoilt" \notin raced',
           "mixed" \notin raced => OneTopic
    PROVE  Fresh'
<1>1. CASE UNCHANGED vars
  BY <1>1, FreshKept DEF vars, gateway, screen
<1>2. ASSUME NEW new, MadeFacts(new), Made(new) PROVE Fresh'
  BY <1>2, MadeScript, FreshMade
<1>3. ASSUME NEW i \in DOMAIN calls,
             Handle(i) \/ Answer(i) \/ StartRun(i) \/ Taking(i) \/ TakeEnd(i)
      PROVE  Fresh'
  BY <1>3, FreshHandled, FreshAnswered, FreshStarted, FreshTaken, FreshEnd
<1>4. ASSUME NEW i \in DOMAIN calls, TakeFrame(i) PROVE Fresh'
  <2>1. calls' = calls /\ exists' = exists /\ store' = store
    BY <1>4 DEF TakeFrame, gateway
  <2>2. doc'.id = doc.id
    <3>1. doc \in Doc
      BY ScriptEditorAssumption DEF Types, Nothing, Settled
    <3> QED
      BY <1>4, <3>1 DEF TakeFrame, Doc
  <2> QED
    BY <2>1, <2>2, FreshKept
<1>5. ASSUME NEW r \in 1..MaxRuns, NEW state, VoicedStep(r, state) PROVE Fresh'
  <2>1. \E i \in DOMAIN calls : IsRun(i) /\ calls[i].script = job[r].script
    BY <1>5 DEF VoicedStep, Settled, HeardRun, Hears
  <2>2. /\ calls' = calls /\ doc' = doc /\ exists' = exists
        /\ \A s \in Scripts : s # job[r].script => store'[s] = store[s]
    BY <1>5 DEF VoicedStep
  <2> QED
    BY <2>1, <2>2, FreshKept
<1>6. ASSUME NEW r \in 1..MaxRuns, RunEnds(r) PROVE Fresh'
  BY <1>6, FreshKept DEF RunEnds, screen
<1> QED
  BY <1>1, <1>2, <1>3, <1>4, <1>5, <1>6, StepIs

(* The run is on and the calls stay: of their answers nothing is claimed.  *)
LEMMA SyncUnclaimed ==
    ASSUME calls' = calls, ~ NoRun'
    PROVE  LastSyncs' /\ (Unmixed => Unmixed')
BY DEF LastSyncs, Unmixed, OneTopic, NewestIsLast, AllSync, IsRun, IsEdit

(* Every step that does not spoil the session keeps the screen in step.    *)
LEMMA ScreenNext ==
    ASSUME Types, Types', DoneIsVoiced, Screen, [Next]_vars, "spoilt" \notin raced'
    PROVE  Screen'
<1> USE DEF Screen
<1>1. Settled' /\ Fresh'
  BY SettledNext, FreshNext DEF Unmixed
<1>2. Delivered'
  BY <1>1 DEF Fresh
<1> DEFINE Goal == ("answers" \notin raced' => LastSyncs') /\ ("mixed" \notin raced' => Unmixed')
<1>3. CASE UNCHANGED vars
  <2>1. calls' = calls /\ doc' = doc /\ raced' = raced /\ store' = store /\ voiced' = voiced
    BY <1>3 DEF vars, gateway, screen
  <2>2. InSync' = InSync
    BY <2>1, SameStoreSameSync
  <2>3. (LastSyncs => LastSyncs') /\ (Unmixed => Unmixed')
    BY <2>1, <2>2 DEF LastSyncs, Unmixed, OneTopic, NewestIsLast, AllSync, NoRun, IsRun, IsEdit, Stale,
                      Answered, Sent
  <2>4. ("answers" \notin raced => LastSyncs) /\ ("mixed" \notin raced => Unmixed)
    OBVIOUS
  <2>5. ("answers" \notin raced => LastSyncs') /\ ("mixed" \notin raced => Unmixed')
    BY <2>3, <2>4
  <2>6. raced \subseteq raced'
    BY <2>1
  <2> QED
    BY <1>1, <2>5, <2>6
<1>4. ASSUME NEW new, MadeFacts(new), Made(new) PROVE Goal
  <2>1. raced \subseteq raced'
    BY <1>4, MadeRace
  <2> QED
    BY <1>4, <2>1, LastMade, UnmixedMade
<1>5. ASSUME NEW i \in DOMAIN calls, Handle(i) PROVE Goal
  <2>1. raced' = raced
    BY <1>5, HandleRace
  <2> QED
    BY <1>5, <2>1, LastHandled, UnmixedHandled
<1>6. ASSUME NEW i \in DOMAIN calls, Answer(i) PROVE Goal
  <2>1. raced \subseteq raced'
    BY <1>6, AnswerRace
  <2> QED
    BY <1>2, <1>6, <2>1, LastAnswered, UnmixedAnswered
<1>7. ASSUME NEW i \in DOMAIN calls, StartRun(i) PROVE Goal
  <2>1. raced' = raced
    BY <1>7, HandleRace
  <2> QED
    BY <1>7, <2>1, LastStarted, UnmixedStarted
<1>8. ASSUME NEW i \in DOMAIN calls, Taking(i) PROVE Goal
  <2>1. raced \subseteq raced' /\ ("answers" \notin raced' => \A j \in DOMAIN calls : j < i => IsRun(j))
    BY <1>8, TakenRace
  <2> QED
    BY <1>8, <2>1, LastTaken, UnmixedTaken
<1>9. ASSUME NEW i \in DOMAIN calls, TakeEnd(i) PROVE Goal
  BY <1>9, LastEnd, UnmixedEnd
<1>10. ASSUME calls' = calls, raced \subseteq raced', ~ NoRun' PROVE Goal
  BY <1>10, SyncUnclaimed
<1>11. ASSUME NEW i \in DOMAIN calls, TakeFrame(i) PROVE Goal
  <2>1. calls' = calls /\ Race("answers", i # 1)
    BY <1>11 DEF TakeFrame
  <2>2. raced \subseteq raced'
    BY <2>1, RaceIs
  <2>3. ~ NoRun'
    BY <1>11, <2>1 DEF TakeFrame, RunCall, NoRun, IsRun
  <2> QED
    BY <1>10, <2>1, <2>2, <2>3
<1>12. ASSUME NEW r \in 1..MaxRuns, NEW state, VoicedStep(r, state) \/ RunEnds(r) PROVE Goal
  <2>1. calls' = calls /\ raced' = raced /\ Active(r)
    BY <1>12 DEF VoicedStep, RunEnds, Active
  <2>2. ~ NoRun'
    BY <2>1 DEF Settled, HeardRun, Hears, NoRun, IsRun
  <2> QED
    BY <1>10, <2>1, <2>2
<1> QED
  BY <1>1, <1>3, <1>4, <1>5, <1>6, <1>7, <1>8, <1>9, <1>11, <1>12, StepIs

LEMMA UnspoiltNext == ASSUME [Next]_vars, "spoilt" \notin raced' PROVE "spoilt" \notin raced
<1>1. CASE raced' = raced
  BY <1>1
<1>2. ASSUME NEW races, raced' = RacedBy(races) PROVE "spoilt" \notin raced
  BY <1>2, RacedIs
<1> QED
  BY <1>1, <1>2, RaceSteps

LEMMA ScreenInvNext ==
    ASSUME Types, DoneIsVoiced, ScreenInv, [Next]_vars
    PROVE  ScreenInv'
BY TypesNext, UnspoiltNext, ScreenNext DEF ScreenInv

(* With no call on its way the screen is in step.                          *)
LEMMA ScreenShown == ASSUME Types, Apart, ScreenInv PROVE ScreenIsStored
<1> SUFFICES ASSUME calls = <<>>, "spoilt" \notin raced
             PROVE  doc = Document(doc.id, Refreshed(doc.id)) \/ doc = Document(doc.id, Imported)
  BY DEF ScreenIsStored
<1>1. DOMAIN calls = {} /\ NoRun
  BY DEF NoRun
<1>2. doc \in InSync
  BY <1>1 DEF ScreenInv, Screen, Apart, LastSyncs, Unmixed, AllSync
<1>3. \A s, record : Document(s, record).id = s
  BY DEF Document
<1> QED
  BY <1>2, <1>3 DEF InSync

-----------------------------------------------------------------------------
(* The rows of a document that say done and can be played as they stand.   *)
Playable ==
    {d \in Doc : \A c \in Cues : d.cues[c].state = "done" =>
        d.cues[c].clip \in voiced /\ d.cues[c].clip = ClipOf(d.dflt, d.cues[c])}

(* The documents whose row of a cue says what the gateway keeps of it.     *)
Fitting(c) ==
    {d \in Doc : /\ d.dflt = store[d.id].dflt
                 /\ d.cues[c].text = store[d.id].cues[c].text
                 /\ d.cues[c].over = store[d.id].cues[c].over
                 /\ d.cues[c].clip = Stored(d.id, c)}

(* The calls whose answer will replace a row that does not fit: the newest *)
(* edit of the cue, or of the defaults. During a run it either precedes    *)
(* the run or has the frames of the cue passed over.                       *)
BeforeRun(j) == \A k \in DOMAIN calls : IsRun(k) => j < k

Fixes(j, s, c) ==
    /\ calls[j].newest
    /\ \/ calls[j].kind = "defaults"
       \/ calls[j].kind = "cue" /\ calls[j].script = s /\ calls[j].cue = c
    /\ BeforeRun(j) \/ <<s, c>> \in edited

Fixers == [s \in Scripts |-> [c \in Cues |-> {j \in DOMAIN calls : Fixes(j, s, c)}]]

LaterEdits ==
    \A j \in DOMAIN calls : ~ BeforeRun(j) =>
        /\ calls[j].kind = "cue" => <<calls[j].script, calls[j].cue>> \in edited
        /\ calls[j].kind # "defaults"

Replaces(j, i) ==
    /\ calls[j].newest /\ calls[j].kind = calls[i].kind
    /\ calls[i].kind = "cue" => calls[j].script = calls[i].script /\ calls[j].cue = calls[i].cue
Replaced == \A i \in DOMAIN calls : Stale(i) => \E j \in DOMAIN calls : i < j /\ Replaces(j, i)

PlayableAll == doc \in Playable /\ \A i \in DOMAIN calls : Answered(i) => calls[i].reply \in Playable

RowsFit ==
    /\ \A c \in Cues : doc \in Fitting(c) \/ Fixers[doc.id][c] # {}
    /\ \A i \in DOMAIN calls, c \in Cues : Answered(i) =>
          calls[i].reply \in Fitting(c) \/ \E j \in Fixers[calls[i].script][c] : i < j

FramesFit ==
    \A k \in DOMAIN calls, f \in DOMAIN frames :
        IsRun(k) /\ frames[f].state = "done" /\ frames[f].cue \in Cues
        /\ <<calls[k].script, frames[f].cue>> \notin edited =>
           Stored(calls[k].script, frames[f].cue) \in voiced

Rows == PlayableAll /\ LaterEdits /\ Replaced /\ RowsFit /\ FramesFit
RowInv == raced \subseteq {"mixed"} => Rows

LEMMA PlayableGrows ==
    ASSUME voiced \subseteq voiced'
    PROVE  Playable \subseteq Playable'
BY DEF Playable

(* Marking a cue leaves the documents that fit it as they are.             *)
LEMMA FitsKept ==
    ASSUME NEW s \in Scripts, NEW c \in Cues, SameInputs(s, c)
    PROVE  \A d \in Doc : d.id = s => (d \in Fitting(c) <=> d \in Fitting(c)')
<1>1. Stored(s, c)' = Stored(s, c)
  BY SameInputsSameClip
<1> QED
  BY <1>1 DEF Fitting, SameInputs

LEMMA AllFitKept ==
    ASSUME NEW c \in Cues, \A s \in Scripts : SameInputs(s, c)
    PROVE  Fitting(c)' = Fitting(c)
<1>1. \A d \in Doc : d.id \in Scripts
  BY DEF Doc
<1>2. \A d \in Doc : d \in Fitting(c) <=> d \in Fitting(c)'
  BY <1>1, FitsKept
<1>3. \A d \in Fitting(c) \cup Fitting(c)' : d \in Doc
  BY DEF Fitting
<1> QED
  BY <1>2, <1>3

LEMMA SameStoreSameInputs ==
    ASSUME store' = store
    PROVE  \A s \in Scripts, c \in Cues : SameInputs(s, c)
BY DEF SameInputs

LEMMA FixersAre ==
    ASSUME NEW s \in Scripts, NEW c \in Cues, NEW j
    PROVE  /\ j \in Fixers[s][c] <=> j \in DOMAIN calls /\ Fixes(j, s, c)
           /\ j \in Fixers'[s][c] <=> j \in DOMAIN calls' /\ Fixes(j, s, c)'
BY DEF Fixers

(* The steps of the run, which leave the calls alone.                      *)
LEMMA RunFixers ==
    ASSUME calls' = calls, edited' = edited
    PROVE  /\ Fixers' = Fixers
           /\ (LaterEdits => LaterEdits') /\ (Replaced => Replaced')
BY DEF Fixers, Fixes, BeforeRun, IsRun, LaterEdits, Replaced, Replaces, Stale, IsEdit

LEMMA MovedFixers ==
    ASSUME Types, NEW i, NEW stage, Moved(i, stage), edited' = edited
    PROVE  /\ Fixers' = Fixers /\ (LaterEdits => LaterEdits') /\ (Replaced => Replaced')
<1>1. /\ DOMAIN calls' = DOMAIN calls
      /\ \A j \in DOMAIN calls : /\ IsRun(j)' <=> IsRun(j)
                                 /\ calls'[j].kind = calls[j].kind
                                 /\ calls'[j].script = calls[j].script
                                 /\ calls'[j].cue = calls[j].cue
                                 /\ calls'[j].newest = calls[j].newest
                                 /\ Stale(j)' <=> Stale(j)
  BY DEF Moved, Alike, IsRun, Stale, IsEdit
<1>2. \A j \in DOMAIN calls : BeforeRun(j)' <=> BeforeRun(j)
  BY <1>1 DEF BeforeRun
<1>3. \A j \in DOMAIN calls, s \in Scripts, c \in Cues : Fixes(j, s, c)' <=> Fixes(j, s, c)
  BY <1>1, <1>2 DEF Fixes
<1>4. Fixers' = Fixers
  BY <1>1, <1>3 DEF Fixers
<1>5. (LaterEdits => LaterEdits') /\ (Replaced => Replaced')
  BY <1>1, <1>2 DEF LaterEdits, Replaced, Replaces
<1> QED
  BY <1>4, <1>5

(* An answer taken in order takes no row's newest edit but its own.        *)
LEMMA TakenFixers ==
    ASSUME Types, NEW i \in DOMAIN calls, Taking(i), \A j \in DOMAIN calls : j < i => IsRun(j)
    PROVE  /\ \A s \in Scripts, c \in Cues, j \in DOMAIN calls \ {i} :
                j \in Fixers[s][c] => Is(i, j) \in Fixers'[s][c]
           /\ (LaterEdits => LaterEdits') /\ (Replaced => Replaced')
<1> USE LeftAre, TakenIs
<1>0. edited' = edited
  BY DEF Taking, TakeDocument, TakeEdit, TakeFinal
<1>1. \A j \in DOMAIN calls' : BeforeRun(j)' <=> BeforeRun(Was(i, j))
  <2>1. \A j, k \in DOMAIN calls' : IsRun(k)' <=> IsRun(Was(i, k))
    OBVIOUS
  <2> QED
    BY <2>1 DEF BeforeRun
<1>2. ASSUME NEW s \in Scripts, NEW c \in Cues, NEW j \in DOMAIN calls \ {i}, j \in Fixers[s][c]
      PROVE  Is(i, j) \in Fixers'[s][c]
  <2>1. /\ Fixes(j, s, c) /\ Is(i, j) \in DOMAIN calls' /\ Was(i, Is(i, j)) = j
        /\ calls'[Is(i, j)] = calls[j]
    BY <1>2, FixersAre
  <2>2. PICK k : k = Is(i, j)
    OBVIOUS
  <2>3. Fixes(k, s, c)'
    BY <1>0, <1>1, <2>1, <2>2 DEF Fixes
  <2> QED
    BY <2>1, <2>2, <2>3, FixersAre
<1>3. LaterEdits => LaterEdits'
  BY <1>0, <1>1 DEF LaterEdits
<1>4. ASSUME Replaced PROVE Replaced'
  <2> SUFFICES ASSUME NEW k \in DOMAIN calls', Stale(k)'
               PROVE  \E j \in DOMAIN calls' : k < j /\ Replaces(j, k)'
    BY DEF Replaced
  <2>1. PICK j \in DOMAIN calls : Was(i, k) < j /\ Replaces(j, Was(i, k))
    BY <1>4 DEF Replaced
  <2>2. j # i
    <3>1. ~ IsRun(Was(i, k))
      BY DEF Stale, IsEdit, IsRun
    <3> QED
      BY <2>1, <3>1
  <2>3. PICK l : l = Is(i, j)
    OBVIOUS
  <2>4. l \in DOMAIN calls' /\ Was(i, l) = j /\ k < l
    BY <2>1, <2>2, <2>3
  <2>5. Replaces(l, k)'
    BY <2>1, <2>4 DEF Replaces
  <2> QED
    BY <2>4, <2>5
<1> QED
  BY <1>2, <1>3, <1>4

(* A call is made.                                                         *)
LEMMA EditedIs ==
    ASSUME Types, NEW new, Made(new)
    PROVE  /\ new.kind # "run" => edited \subseteq edited'
           /\ new.kind = "cue" => <<new.script, new.cue>> \in edited' /\ new.cue \in Cues
           /\ new.kind \notin {"cue", "defaults"} => doc' = doc
<1>1. ASSUME NEW s \in Scripts, Open(s) \/ Import(s) PROVE edited' = edited /\ doc' = doc
  BY <1>1 DEF Open, Import, screen
<1>2. ASSUME NEW c \in Cues, NEW change \in Change, EditCue(c, change),
             new = Call("cue", doc.id, c, change)
      PROVE  /\ edited \subseteq edited' /\ new.kind = "cue"
             /\ <<new.script, new.cue>> \in edited' /\ new.cue \in Cues
  BY <1>2 DEF EditCue, Call
<1>3. ASSUME NEW v \in VoiceOrNone, EditDefaults(v),
             new = Call("defaults", doc.id, 0, [what |-> "over", value |-> v])
      PROVE  edited' = edited /\ new.kind = "defaults"
  BY <1>3 DEF EditDefaults, Call
<1>4. ASSUME Run, new = Call("run", doc.id, runs + 1, NoChange) PROVE new.kind = "run" /\ doc' = doc
  BY <1>4 DEF Run, Call
<1>5. ASSUME NEW s, new = Call("open", s, 0, NoChange) \/ new = Call("import", s, 0, NoChange)
      PROVE  new.kind \in {"open", "import"}
  BY <1>5 DEF Call
<1> QED
  BY <1>1, <1>2, <1>3, <1>4, <1>5 DEF Made

LEMMA MadeFixers ==
    ASSUME Types, Settled, NEW new, MadeFacts(new), Made(new), "spoilt" \notin raced',
           "defaults" \notin raced', NEW n, n = Len(calls) + 1
    PROVE  /\ n \in DOMAIN calls'
           /\ \A s \in Scripts, c \in Cues : \A j \in Fixers[s][c] :
                 j \in Fixers'[s][c] \/ n \in Fixers'[s][c]
           /\ new.kind = "defaults" => \A s \in Scripts, c \in Cues : n \in Fixers'[s][c]
           /\ new.kind = "cue" => new.script \in Scripts /\ n \in Fixers'[new.script][new.cue]
           /\ (LaterEdits => LaterEdits') /\ (Replaced => Replaced')
<1>1. /\ n \in Nat /\ \A j \in DOMAIN calls : j \in Nat /\ j < n
      /\ DOMAIN calls' = DOMAIN calls \cup {n} /\ calls'[n] = new
      /\ \A j \in DOMAIN calls : /\ calls'[j].kind = calls[j].kind
                                 /\ calls'[j].script = calls[j].script
                                 /\ calls'[j].cue = calls[j].cue
                                 /\ calls'[j].newest <=> calls[j].newest /\ ~ Supersedes(new, calls[j])
                                 /\ IsRun(j)' <=> IsRun(j)
                                 /\ IsEdit(j)' <=> IsEdit(j)
  BY CallsAre DEF MadeFacts, Added, Alike, IsRun, IsEdit
<1>2. /\ new.newest = TRUE
      /\ new.kind = "run" => \A j \in DOMAIN calls : ~ IsRun(j)
      /\ new.kind = "defaults" => \A j \in DOMAIN calls : ~ IsRun(j)
      /\ IsRun(n)' <=> new.kind = "run"
  <2>1. new.kind = "run" \/ new.kind = "defaults" => running = 0
    BY MadeRace DEF MadeFacts
  <2>2. running = 0 => \A j \in DOMAIN calls : ~ IsRun(j)
    BY DEF Settled, OneRun, IsLast, IsRun
  <2> QED
    BY <1>1, <2>1, <2>2 DEF MadeFacts, IsRun
<1>3. \A j \in DOMAIN calls : BeforeRun(j)' <=> BeforeRun(j)
  <2>1. CASE new.kind = "run"
    BY <1>1, <1>2, <2>1 DEF BeforeRun
  <2>2. CASE new.kind # "run"
    BY <1>1, <1>2, <2>2 DEF BeforeRun
  <2> QED
    BY <2>1, <2>2
<1>4. new.kind = "defaults" => BeforeRun(n)'
  BY <1>1, <1>2 DEF BeforeRun
<1>5. new.kind = "run" => \A j \in DOMAIN calls : BeforeRun(j)'
  BY <1>1, <1>2 DEF BeforeRun
<1>6. new.kind = "defaults" => \A s \in Scripts, c \in Cues : n \in Fixers'[s][c]
  <2> SUFFICES ASSUME new.kind = "defaults", NEW s \in Scripts, NEW c \in Cues
               PROVE  n \in Fixers'[s][c]
    OBVIOUS
  <2>1. Fixes(n, s, c)'
    BY <1>1, <1>2, <1>4 DEF Fixes
  <2> QED
    BY <1>1, <2>1, FixersAre
<1>7. new.kind = "cue" => new.script \in Scripts /\ n \in Fixers'[new.script][new.cue]
  <2> SUFFICES ASSUME new.kind = "cue" PROVE new.script \in Scripts /\ n \in Fixers'[new.script][new.cue]
    OBVIOUS
  <2>1. PICK s : s = new.script
    OBVIOUS
  <2>2. PICK c : c = new.cue
    OBVIOUS
  <2>3. s \in Scripts /\ c \in Cues /\ <<s, c>> \in edited'
    BY <2>1, <2>2, MadeScript, EditedIs
  <2>4. Fixes(n, s, c)'
    BY <1>1, <1>2, <2>1, <2>2, <2>3 DEF Fixes
  <2> QED
    BY <1>1, <2>1, <2>2, <2>3, <2>4, FixersAre
<1>8. ASSUME NEW s \in Scripts, NEW c \in Cues, NEW j \in Fixers[s][c]
      PROVE  j \in Fixers'[s][c] \/ n \in Fixers'[s][c]
  <2>1. j \in DOMAIN calls /\ Fixes(j, s, c)
    BY FixersAre
  <2>2. CASE Supersedes(new, calls[j])
    <3>1. \/ new.kind = "defaults"
          \/ new.kind = "cue" /\ new.script = s /\ new.cue = c
      BY <2>1, <2>2 DEF Supersedes, Fixes
    <3> QED
      BY <1>6, <1>7, <3>1
  <2>3. CASE ~ Supersedes(new, calls[j])
    <3>1. BeforeRun(j)' \/ <<s, c>> \in edited'
      BY <1>3, <1>5, <2>1, EditedIs DEF Fixes
    <3>2. Fixes(j, s, c)'
      BY <1>1, <2>1, <2>3, <3>1 DEF Fixes
    <3> QED
      BY <1>1, <2>1, <3>2, FixersAre
  <2> QED
    BY <2>2, <2>3
<1>9. ASSUME LaterEdits PROVE LaterEdits'
  <2> SUFFICES ASSUME NEW j \in DOMAIN calls', ~ BeforeRun(j)'
               PROVE  /\ calls'[j].kind = "cue" => <<calls'[j].script, calls'[j].cue>> \in edited'
                      /\ calls'[j].kind # "defaults"
    BY DEF LaterEdits
  <2>1. CASE j = n
    BY <1>1, <1>4, <2>1, EditedIs
  <2>2. CASE j \in DOMAIN calls
    <3>1. ~ BeforeRun(j) /\ new.kind # "run"
      BY <1>3, <1>5, <2>2
    <3> QED
      BY <1>1, <1>9, <2>2, <3>1, EditedIs DEF LaterEdits
  <2> QED
    BY <1>1, <2>1, <2>2
<1>10. ASSUME Replaced PROVE Replaced'
  <2> SUFFICES ASSUME NEW i \in DOMAIN calls', Stale(i)'
               PROVE  \E j \in DOMAIN calls' : i < j /\ Replaces(j, i)'
    BY DEF Replaced
  <2>1. i \in DOMAIN calls /\ IsEdit(i) /\ ~ calls'[i].newest
    BY <1>1, <1>2 DEF Stale
  <2>2. CASE Supersedes(new, calls[i])
    <3>1. Replaces(n, i)'
      BY <1>1, <1>2, <2>1, <2>2 DEF Replaces, Supersedes
    <3> QED
      BY <1>1, <2>1, <3>1
  <2>3. CASE ~ Supersedes(new, calls[i])
    <3>1. Stale(i)
      BY <1>1, <2>1, <2>3 DEF Stale
    <3>2. PICK j \in DOMAIN calls : i < j /\ Replaces(j, i)
      BY <1>10, <2>1, <3>1 DEF Replaced
    <3>3. CASE Supersedes(new, calls[j])
      <4>1. Replaces(n, i)'
        BY <1>1, <1>2, <2>1, <3>2, <3>3 DEF Replaces, Supersedes
      <4> QED
        BY <1>1, <2>1, <4>1
    <3>4. CASE ~ Supersedes(new, calls[j])
      <4>1. Replaces(j, i)'
        BY <1>1, <2>1, <3>2, <3>4 DEF Replaces
      <4> QED
        BY <1>1, <3>2, <4>1
    <3> QED
      BY <3>3, <3>4
  <2> QED
    BY <2>2, <2>3
<1> QED
  BY <1>1, <1>6, <1>7, <1>8, <1>9, <1>10

(* What an edit leaves of the document on the screen.                      *)
LEMMA MadeDoc ==
    ASSUME Types, Types', Settled, NEW new, MadeFacts(new), Made(new)
    PROVE  /\ doc \in Doc /\ doc' \in Doc /\ doc'.id = doc.id
           /\ doc \in Playable => doc' \in Playable'
           /\ new.kind # "defaults" => \A c \in Cues : doc \in Fitting(c) =>
                 doc' \in Fitting(c)' \/ (new.kind = "cue" /\ c = new.cue)
<1>1. doc \in Doc /\ doc' \in Doc /\ doc'.id = doc.id
  <2>1. Nothing.id = NoDoc
    BY DEF Nothing
  <2> QED
    BY <2>1, ScriptEditorAssumption DEF Settled, Types, MadeFacts
<1>2. voiced' = voiced /\ store' = store
  BY DEF MadeFacts
<1>3. /\ Playable' = Playable /\ \A c \in Cues : Fitting(c)' = Fitting(c)
  <2>1. \A s \in Scripts, c \in Cues : SameInputs(s, c)
    BY <1>2, SameStoreSameInputs
  <2> QED
    BY <1>2, <2>1, AllFitKept DEF Playable
<1>4. CASE doc' = doc
  BY <1>1, <1>3, <1>4
<1>5. ASSUME NEW x \in Cues, NEW change \in Change, EditCue(x, change),
             new = Call("cue", doc.id, x, change)
      PROVE  /\ doc \in Playable => doc' \in Playable'
             /\ \A c \in Cues : doc \in Fitting(c) => doc' \in Fitting(c)' \/ c = x
             /\ new.kind = "cue" /\ new.cue = x
  <2> DEFINE row == [Patched(doc.cues[x], change) EXCEPT !.state = "stale"]
  <2> DEFINE cues == [doc.cues EXCEPT ![x] = row]
  <2>1. row \in Row /\ row.state = "stale"
    <3>1. doc.cues[x] \in Row
      BY <1>1 DEF Doc
    <3> QED
      BY <3>1, RowEdited, ChangeIs DEF Row, Patched
  <2>2. doc' = [doc EXCEPT !.cues = cues]
    BY <1>5 DEF EditCue
  <2> HIDE DEF row
  <2>3. cues[x] = row /\ \A c \in Cues : c # x => cues[c] = doc.cues[c]
    BY <1>1 DEF Doc
  <2> HIDE DEF cues
  <2>4. /\ doc'.dflt = doc.dflt /\ doc'.cues[x].state = "stale"
        /\ \A c \in Cues : c # x => doc'.cues[c] = doc.cues[c]
    BY <1>1, <2>1, <2>2, <2>3 DEF Doc
  <2>5. doc \in Playable => doc' \in Playable
    <3>1. \A c \in Cues : doc'.cues[c].state = "done" =>
             doc'.cues[c] = doc.cues[c] /\ doc'.dflt = doc.dflt
      BY <2>4
    <3> QED
      BY <1>1, <3>1 DEF Playable
  <2>6. \A c \in Cues : doc \in Fitting(c) => doc' \in Fitting(c) \/ c = x
    BY <1>1, <2>4 DEF Fitting
  <2> QED
    BY <1>3, <1>5, <2>5, <2>6 DEF Call
<1>6. ASSUME NEW v \in VoiceOrNone, EditDefaults(v),
             new = Call("defaults", doc.id, 0, [what |-> "over", value |-> v]),
             doc \in Playable
      PROVE  doc' \in Playable' /\ new.kind = "defaults"
  <2> DEFINE same(c) == Effective(v, doc.cues[c].over) = Effective(doc.dflt, doc.cues[c].over)
  <2> DEFINE row(c) == IF same(c) THEN doc.cues[c] ELSE [doc.cues[c] EXCEPT !.state = "stale"]
  <2> DEFINE cues == [c \in Cues |-> row(c)]
  <2>1. doc' = [[doc EXCEPT !.dflt = v] EXCEPT !.cues = cues]
    BY <1>6 DEF EditDefaults
  <2>2. \A c \in Cues : row(c).state = "done" => row(c) = doc.cues[c] /\ same(c)
    BY <1>1 DEF Doc, Row
  <2> HIDE DEF row
  <2>3. \A c \in Cues : cues[c] = row(c)
    OBVIOUS
  <2> HIDE DEF cues
  <2>4. doc'.dflt = v /\ \A c \in Cues : doc'.cues[c] = row(c)
    BY <1>1, <2>1, <2>3 DEF Doc
  <2>5. \A c \in Cues : doc'.cues[c].state = "done" =>
           /\ doc'.cues[c] = doc.cues[c]
           /\ ClipOf(doc'.dflt, doc'.cues[c]) = ClipOf(doc.dflt, doc.cues[c])
    BY <2>2, <2>4 DEF ClipOf
  <2>6. doc' \in Playable
    BY <1>1, <1>6, <2>5 DEF Playable
  <2> QED
    BY <1>3, <1>6, <2>6 DEF Call
<1>7. new.kind = "defaults" => \E v \in VoiceOrNone :
          EditDefaults(v) /\ new = Call("defaults", doc.id, 0, [what |-> "over", value |-> v])
  BY DEF Made, Call
<1>8. new.kind = "cue" => \E c \in Cues, change \in Change :
          EditCue(c, change) /\ new = Call("cue", doc.id, c, change)
  BY DEF Made, Call
<1>9. new.kind \notin {"cue", "defaults"} => doc' = doc
  BY EditedIs
<1> QED
  BY <1>1, <1>4, <1>5, <1>6, <1>7, <1>8, <1>9

(* Rows, action by action.                                                 *)
LEMMA RowsMade ==
    ASSUME Types, Types', Settled, Rows, NEW new, MadeFacts(new), Made(new), "spoilt" \notin raced',
           "defaults" \notin raced'
    PROVE  Rows'
<1> USE DEF Rows
<1>0. PICK n : n = Len(calls) + 1
  OBVIOUS
<1>1. /\ n \in Nat /\ \A j \in DOMAIN calls : j \in Nat /\ j < n
      /\ DOMAIN calls' = DOMAIN calls \cup {n} /\ calls'[n] = new
      /\ \A j \in DOMAIN calls : /\ calls'[j].script = calls[j].script
                                 /\ calls'[j].reply = calls[j].reply
                                 /\ IsRun(j)' <=> IsRun(j)
                                 /\ Answered(j)' <=> Answered(j)
                                 /\ calls[j].script \in Scripts
  BY <1>0, CallsAre DEF MadeFacts, Added, Alike, IsRun, Answered, AnyCall
<1>2. ~ Answered(n)' /\ UNCHANGED <<store, voiced, frames>> /\ (IsRun(n)' <=> new.kind = "run")
  BY <1>1 DEF MadeFacts, Answered, IsRun
<1>3. /\ Playable' = Playable /\ \A c \in Cues : Fitting(c)' = Fitting(c)
  <2>1. \A s \in Scripts, c \in Cues : SameInputs(s, c)
    BY <1>2, SameStoreSameInputs
  <2> QED
    BY <1>2, <2>1, AllFitKept DEF Playable
<1>4. PlayableAll'
  BY <1>1, <1>2, <1>3, MadeDoc DEF PlayableAll
<1>5. LaterEdits' /\ Replaced'
  BY <1>0, MadeFixers
<1>6. /\ doc.id \in Scripts /\ doc'.id = doc.id
      /\ \A s \in Scripts, c \in Cues : \A j \in Fixers[s][c] :
                 j \in Fixers'[s][c] \/ n \in Fixers'[s][c]
      /\ new.kind = "defaults" => \A c \in Cues : n \in Fixers'[doc.id][c]
      /\ new.kind = "cue" => n \in Fixers'[doc.id][new.cue]
  BY <1>0, MadeFixers DEF Settled, MadeFacts
<1>7. RowsFit'
  <2>1. ASSUME NEW c \in Cues PROVE doc' \in Fitting(c)' \/ Fixers'[doc'.id][c] # {}
    <3>1. CASE Fixers[doc.id][c] # {}
      BY <1>6, <3>1
    <3>2. CASE doc \in Fitting(c)
      BY <1>6, <3>2, MadeDoc DEF MadeFacts
    <3> QED
      BY <3>1, <3>2 DEF RowsFit
  <2>2. ASSUME NEW i \in DOMAIN calls', NEW c \in Cues, Answered(i)'
        PROVE  calls'[i].reply \in Fitting(c)' \/ \E j \in Fixers'[calls'[i].script][c] : i < j
    <3>1. i \in DOMAIN calls /\ Answered(i)
      BY <1>1, <1>2, <2>2
    <3>2. calls[i].reply \in Fitting(c) \/ \E j \in Fixers[calls[i].script][c] : i < j
      BY <3>1 DEF RowsFit
    <3> QED
      BY <1>1, <1>3, <1>6, <3>1, <3>2
  <2> QED
    BY <2>1, <2>2 DEF RowsFit
<1>8. FramesFit'
  <2>1. \A s, c : Stored(s, c)' = Stored(s, c)
    BY <1>2 DEF Stored
  <2>2. CASE new.kind = "run"
    <3>1. \A j \in DOMAIN calls : ~ IsRun(j)
      BY <2>2 DEF MadeFacts, Settled, OneRun, IsLast, IsRun
    <3>2. frames' = <<>>
      BY <1>2, <3>1 DEF Settled, HeardRun
    <3> QED
      BY <3>2 DEF FramesFit
  <2>3. CASE new.kind # "run"
    <3>1. edited \subseteq edited'
      BY <2>3, EditedIs
    <3> QED
      BY <1>1, <1>2, <2>1, <2>3, <3>1 DEF FramesFit
  <2> QED
    BY <2>2, <2>3
<1> QED
  BY <1>4, <1>5, <1>7, <1>8

(* What a handled edit leaves out of step is replaced by it or by a later  *)
(* one; no frame is on its way about it.                                   *)
LEMMA HandledFixers ==
    ASSUME Types, Settled, Rows, NEW i \in DOMAIN calls, Handle(i),
           NEW s \in Scripts, NEW c \in Cues, ~ SameInputs(s, c)
    PROVE  /\ s = calls[i].script
           /\ \E j \in Fixers[s][c] : i <= j
           /\ ~ BeforeRun(i) => <<s, c>> \in edited
<1>1. /\ s = calls[i].script
      /\ calls[i].kind = "defaults" \/ (calls[i].kind = "cue" /\ c = calls[i].cue)
  BY HandleInputs, HandleStore DEF SameInputs
<1>2. i \in Nat /\ \A j \in DOMAIN calls : j \in Nat
  BY CallsAre
<1>3. ~ BeforeRun(i) => <<s, c>> \in edited
  BY <1>1 DEF Rows, LaterEdits
<1>4. PICK j \in DOMAIN calls : i <= j /\ Replaces(j, i)
  <2>1. CASE Stale(i)
    BY <1>2, <2>1 DEF Rows, Replaced
  <2>2. CASE ~ Stale(i)
    <3>1. calls[i].newest
      BY <1>1, <2>2 DEF Stale, IsEdit
    <3> QED
      BY <1>2, <3>1 DEF Replaces
  <2> QED
    BY <2>1, <2>2
<1>5. ~ BeforeRun(j) => <<s, c>> \in edited
  BY <1>1, <1>4 DEF Rows, LaterEdits, Replaces
<1>6. Fixes(j, s, c)
  BY <1>1, <1>4, <1>5 DEF Replaces, Fixes
<1> QED
  BY <1>1, <1>3, <1>4, <1>6, FixersAre

(* The gateway applies an edit: the rows that no longer fit are its own.   *)
LEMMA RowsHandled ==
    ASSUME Types, Types', Settled, Rows, NEW i \in DOMAIN calls, Handle(i)
    PROVE  Rows'
<1> USE DEF Rows
<1>1. /\ Moved(i, "held") /\ Sent(i)
      /\ UNCHANGED <<doc, edited, voiced, frames>>
  BY HandleCall DEF Handle, screen, Sent
<1>2. /\ DOMAIN calls' = DOMAIN calls /\ DOMAIN calls \subseteq Nat
      /\ \A j \in DOMAIN calls : /\ IsRun(j)' <=> IsRun(j)
                                 /\ calls'[j].script = calls[j].script
                                 /\ calls[j].script \in Scripts
                                 /\ Answered(j)' => /\ Answered(j) /\ calls'[j].reply = calls[j].reply
                                                    /\ ~ Sent(j) /\ calls[j].reply \in Doc
                                                    /\ calls[j].reply.id = calls[j].script
  BY <1>1, CallsAre, TakenTypes DEF Moved, Alike, IsRun, Answered, Sent, AnyCall
<1>3. Fixers' = Fixers /\ LaterEdits' /\ Replaced'
  BY <1>1, MovedFixers
<1>4. Playable' = Playable
  BY <1>1 DEF Playable
<1>5. PlayableAll'
  BY <1>1, <1>2, <1>4 DEF PlayableAll
<1>6. RowsFit'
  <2>1. ASSUME NEW c \in Cues PROVE doc' \in Fitting(c)' \/ Fixers'[doc'.id][c] # {}
    <3>1. CASE SameInputs(doc.id, c)
      <4>1. doc \in Doc /\ doc.id \in Scripts
        BY ScriptEditorAssumption DEF Settled, Types, Nothing
      <4>2. doc \in Fitting(c) => doc \in Fitting(c)'
        BY <3>1, <4>1, FitsKept
      <4> QED
        BY <1>1, <1>3, <4>2 DEF RowsFit
    <3>2. CASE ~ SameInputs(doc.id, c)
      BY <1>1, <1>3, <3>2, HandledFixers DEF Settled
    <3> QED
      BY <3>1, <3>2
  <2>2. ASSUME NEW k \in DOMAIN calls, NEW c \in Cues, Answered(k)'
        PROVE  calls'[k].reply \in Fitting(c)' \/ \E j \in Fixers'[calls'[k].script][c] : k < j
    <3>1. CASE SameInputs(calls[k].script, c)
      <4>1. calls[k].reply \in Fitting(c) => calls[k].reply \in Fitting(c)'
        BY <1>2, <2>2, <3>1, FitsKept
      <4>2. calls[k].reply \in Fitting(c) \/ \E j \in Fixers[calls[k].script][c] : k < j
        BY <1>2, <2>2 DEF RowsFit
      <4> QED
        BY <1>2, <1>3, <2>2, <4>1, <4>2
    <3>2. CASE ~ SameInputs(calls[k].script, c)
      <4>1. PICK j \in Fixers[calls[k].script][c] : i <= j
        BY <1>2, <3>2, HandledFixers
      <4>2. k < i
        <5>1. ~ Sent(k) /\ k # i
          BY <1>1, <1>2, <2>2
        <5>2. ~ (i < k)
          BY <1>1, <5>1 DEF Settled, InOrder
        <5> QED
          BY <1>2, <5>1, <5>2
      <4>3. j \in DOMAIN calls
        BY <1>2, <4>1, FixersAre
      <4>4. k < j
        BY <1>2, <4>1, <4>2, <4>3
      <4> QED
        BY <1>2, <1>3, <4>1, <4>4
    <3> QED
      BY <3>1, <3>2
  <2> QED
    BY <1>2, <2>1, <2>2 DEF RowsFit
<1>7. FramesFit'
  <2> SUFFICES ASSUME NEW k \in DOMAIN calls, NEW f \in DOMAIN frames, IsRun(k), frames[f].cue \in Cues,
                      <<calls[k].script, frames[f].cue>> \notin edited, frames[f].state = "done"
               PROVE  Stored(calls[k].script, frames[f].cue)' \in voiced
    BY <1>1, <1>2 DEF FramesFit, Stored
  <2>1. PICK s \in Scripts : s = calls[k].script
    BY <1>2
  <2>2. PICK c \in Cues : c = frames[f].cue
    OBVIOUS
  <2>3. Stored(s, c) \in voiced
    BY <2>1, <2>2 DEF FramesFit
  <2>4. SameInputs(s, c)
    <3> SUFFICES ASSUME ~ SameInputs(s, c) PROVE FALSE
      OBVIOUS
    <3>1. BeforeRun(i)
      BY <2>1, <2>2, HandledFixers
    <3>2. i < k
      BY <3>1 DEF BeforeRun
    <3>3. ~ Sent(k)
      <4>1. frames # <<>>
        OBVIOUS
      <4>2. PICK l \in DOMAIN calls : IsRun(l) /\ calls[l].at = "held"
        BY <4>1 DEF Settled, HeardRun
      <4>3. l = k
        BY <4>2 DEF Settled, OneRun, IsLast, IsRun
      <4> QED
        BY <4>2, <4>3 DEF Sent
    <3> QED
      BY <1>1, <3>2, <3>3 DEF Settled, InOrder
  <2>5. Stored(s, c)' \in voiced
    BY <2>3, <2>4, SameInputsSameClip
  <2> QED
    BY <1>1, <1>2, <2>1, <2>2, <2>5 DEF Stored
<1> QED
  BY <1>3, <1>5, <1>6, <1>7

(* A reply is the record, refreshed: what it shows done is in the cache.   *)
LEMMA RowsAnswered ==
    ASSUME Types, Types', Settled, DoneIsVoiced, Rows, NEW i \in DOMAIN calls, Answer(i)
    PROVE  Rows'
<1> USE DEF Rows
<1> DEFINE s == calls[i].script
<1>1. /\ Moved(i, "answered") /\ ~ IsRun(i)
      /\ UNCHANGED <<doc, edited, voiced, frames>>
      /\ s \in Scripts /\ Said(i) \in Record
      /\ calls'[i].reply = Document(s, Said(i)) /\ calls'[i].script = s
      /\ store'[s] = Said(i)
      /\ \A t \in Scripts, c \in Cues : SameInputs(t, c)
  <2>1. edited' = edited
    BY Zenon DEF Answer, screen
  <2> QED
    BY <2>1, AnswerCall, AnswerStore, AnswerIs DEF Moved, Alike
<1>2. /\ DOMAIN calls' = DOMAIN calls /\ DOMAIN calls \subseteq Nat
      /\ \A j \in DOMAIN calls : /\ IsRun(j)' <=> IsRun(j)
                                 /\ calls'[j].script = calls[j].script
                                 /\ calls[j].script \in Scripts
                                 /\ j # i => calls'[j] = calls[j] /\ (Answered(j)' <=> Answered(j))
  BY <1>1, CallsAre DEF Moved, Alike, IsRun, Answered, AnyCall
<1>3. Fixers' = Fixers /\ LaterEdits' /\ Replaced'
  BY <1>1, MovedFixers
<1>4. Playable' = Playable /\ \A c \in Cues : Fitting(c)' = Fitting(c)
  BY <1>1, AllFitKept DEF Playable
<1> DEFINE d == Document(s, Said(i))
<1>5. /\ d \in Doc /\ d.id = s /\ d.dflt = Said(i).dflt
      /\ \A c \in Cues : /\ d.cues[c].text = Said(i).cues[c].text
                         /\ d.cues[c].over = Said(i).cues[c].over
                         /\ d.cues[c].state = Said(i).cues[c].state
                         /\ d.cues[c].clip = ClipOf(Said(i).dflt, Said(i).cues[c])
  BY <1>1, DocumentIs
<1>6. \A c \in Cues : Stored(s, c)' = ClipOf(Said(i).dflt, Said(i).cues[c])
  BY <1>1 DEF Stored
<1>7. \A c \in Cues : Said(i).cues[c].state = "done" => ClipOf(Said(i).dflt, Said(i).cues[c]) \in voiced
  <2>1. CASE calls[i].kind = "import"
    BY <1>1, <2>1 DEF Said, DoneIsVoiced, Stored
  <2>2. CASE calls[i].kind # "import"
    BY <1>1, <2>2, RefreshedIs DEF Said
  <2> QED
    BY <2>1, <2>2
<1>8. \A c \in Cues : ClipOf(d.dflt, d.cues[c]) = ClipOf(Said(i).dflt, Said(i).cues[c])
  <2> HIDE DEF d
  <2> QED
    BY <1>5 DEF ClipOf
<1>9. d \in Playable
  BY <1>5, <1>7, <1>8 DEF Playable
<1>10. \A c \in Cues : d \in Fitting(c)'
  <2> HIDE DEF d
  <2>1. \A c \in Cues : /\ d.dflt = store'[d.id].dflt
                        /\ d.cues[c].text = store'[d.id].cues[c].text
                        /\ d.cues[c].over = store'[d.id].cues[c].over
                        /\ d.cues[c].clip = ClipOf(store'[s].dflt, store'[s].cues[c])
    BY <1>1, <1>5
  <2>2. \A c \in Cues :
          ClipOf(store'[s].dflt, store'[s].cues[c]) = ClipOf(store'[d.id].dflt, store'[d.id].cues[c])
    BY <1>5
  <2> QED
    BY <1>5, <2>1, <2>2 DEF Fitting, Stored
<1> HIDE DEF d
<1>11. calls'[i].reply = d
  BY <1>1 DEF d
<1>12. PlayableAll'
  BY <1>1, <1>2, <1>4, <1>9, <1>11 DEF PlayableAll
<1>13. RowsFit'
  BY <1>1, <1>2, <1>3, <1>4, <1>10, <1>11 DEF RowsFit
<1>14. FramesFit'
  <2>1. \A t \in Scripts, c \in Cues : Stored(t, c)' = Stored(t, c)
    BY <1>1, SameInputsSameClip
  <2> QED
    BY <1>1, <1>2, <2>1 DEF FramesFit
<1> QED
  BY <1>3, <1>12, <1>13, <1>14

LEMMA RowsStarted ==
    ASSUME Types, Rows, NEW i \in DOMAIN calls, StartRun(i)
    PROVE  Rows'
<1> USE DEF Rows
<1>1. /\ Moved(i, "held") /\ IsRun(i)
      /\ UNCHANGED <<doc, edited, voiced, frames, store>>
  BY StartRunCall DEF StartRun, screen, IsRun
<1>2. /\ DOMAIN calls' = DOMAIN calls
      /\ \A j \in DOMAIN calls : /\ IsRun(j)' <=> IsRun(j)
                                 /\ calls'[j].script = calls[j].script
                                 /\ Answered(j)' => Answered(j) /\ calls'[j].reply = calls[j].reply
  BY <1>1 DEF Moved, Alike, IsRun, Answered
<1>3. Fixers' = Fixers /\ LaterEdits' /\ Replaced'
  BY <1>1, MovedFixers
<1>4. Playable' = Playable /\ \A c \in Cues : Fitting(c)' = Fitting(c)
  BY <1>1 DEF Playable, Fitting, Stored
<1>5. PlayableAll' /\ RowsFit'
  BY <1>1, <1>2, <1>3, <1>4 DEF PlayableAll, RowsFit
<1>6. FramesFit'
  <2>1. \A s, c : Stored(s, c)' = Stored(s, c)
    BY <1>1 DEF Stored
  <2> QED
    BY <1>1, <1>2, <2>1 DEF FramesFit
<1> QED
  BY <1>3, <1>5, <1>6

(* A reply that replaces the document takes its own edits along.           *)
LEMMA RowsTaken ==
    ASSUME Types, Settled, Rows, NEW i \in DOMAIN calls, Taking(i),
           \A j \in DOMAIN calls : j < i => IsRun(j)
    PROVE  Rows'
<1> USE LeftAre, TakenIs DEF Rows
<1>1. UNCHANGED <<edited, voiced, frames, store>>
  BY DEF Taking, TakeDocument, TakeEdit, TakeFinal, gateway
<1>2. /\ \A s \in Scripts, c \in Cues, j \in DOMAIN calls \ {i} :
             j \in Fixers[s][c] => Is(i, j) \in Fixers'[s][c]
      /\ LaterEdits' /\ Replaced'
  BY TakenFixers
<1>3. Playable' = Playable /\ \A c \in Cues : Fitting(c)' = Fitting(c)
  BY <1>1 DEF Playable, Fitting, Stored
<1>4. PlayableAll'
  BY <1>3 DEF PlayableAll
<1>5. \A k \in DOMAIN calls : calls[k].script \in Scripts
  BY CallsAre DEF AnyCall
<1>6. ASSUME NEW c \in Cues, NEW k \in DOMAIN calls \ {i}, Answered(k)
      PROVE  calls[k].reply \in Fitting(c)' \/ \E j \in Fixers'[calls[k].script][c] : Is(i, k) < j
  <2>1. calls[k].reply \in Fitting(c) \/ \E j \in Fixers[calls[k].script][c] : k < j
    BY <1>6 DEF RowsFit
  <2>2. CASE \E j \in Fixers[calls[k].script][c] : k < j
    <3>1. PICK j \in Fixers[calls[k].script][c] : k < j
      BY <2>2
    <3>2. j \in DOMAIN calls /\ j # i
      <4>1. j \in DOMAIN calls
        BY <1>5, <3>1, FixersAre
      <4>2. ~ IsRun(k)
        BY <1>6, TakenTypes DEF Answered, IsRun
      <4> QED
        BY <3>1, <4>1, <4>2
    <3>3. Is(i, j) \in Fixers'[calls[k].script][c]
      BY <1>2, <1>5, <3>1, <3>2
    <3>4. Is(i, k) < Is(i, j)
      BY <3>1, <3>2
    <3> QED
      BY <3>3, <3>4
  <2> QED
    BY <1>3, <2>1, <2>2
<1>7. ASSUME NEW c \in Cues PROVE doc' \in Fitting(c)' \/ Fixers'[doc'.id][c] # {}
  <2>1. CASE Stale(i)
    <3>1. doc' = doc
      BY <2>1
    <3>2. ASSUME NEW j \in Fixers[doc.id][c] PROVE Fixers'[doc'.id][c] # {}
      <4>1. j \in DOMAIN calls /\ j # i
        <5>1. doc.id \in Scripts
          BY DEF Settled
        <5>2. j \in DOMAIN calls /\ Fixes(j, doc.id, c)
          BY <3>2, <5>1, FixersAre
        <5> QED
          BY <2>1, <5>2 DEF Fixes, Stale
      <4> QED
        BY <1>2, <3>1, <3>2, <4>1 DEF Settled
    <3> QED
      BY <1>3, <3>1, <3>2 DEF RowsFit
  <2>2. CASE ~ Stale(i)
    <3>1. doc' = calls[i].reply /\ doc'.id = calls[i].script
      BY <2>2, TakenTypes DEF Answered
    <3>2. ASSUME NEW j \in Fixers[calls[i].script][c], i < j PROVE Fixers'[doc'.id][c] # {}
      <4>1. j \in DOMAIN calls /\ j # i
        BY <1>5, <3>2, FixersAre
      <4> QED
        BY <1>2, <1>5, <3>1, <3>2, <4>1
    <3> QED
      BY <1>3, <3>1, <3>2 DEF RowsFit
  <2> QED
    BY <2>1, <2>2
<1>8. RowsFit'
  <2>1. ASSUME NEW j \in DOMAIN calls', NEW c \in Cues, Answered(j)'
        PROVE  calls'[j].reply \in Fitting(c)' \/ \E l \in Fixers'[calls'[j].script][c] : j < l
    <3>1. PICK k \in DOMAIN calls \ {i} : k = Was(i, j)
      OBVIOUS
    <3>2. calls'[j] = calls[k] /\ Answered(k) /\ Is(i, k) = j
      BY <2>1, <3>1 DEF Was, Is
    <3> QED
      BY <1>6, <3>2
  <2> QED
    BY <1>7, <2>1 DEF RowsFit
<1>9. FramesFit'
  <2>1. \A s, c : Stored(s, c)' = Stored(s, c)
    BY <1>1 DEF Stored
  <2> QED
    BY <1>1, <2>1 DEF FramesFit
<1> QED
  BY <1>2, <1>4, <1>8, <1>9

(* The end of a run asks for the document; every edit is before that call. *)
LEMMA RowsEnd ==
    ASSUME Types, Settled, Rows, NEW i \in DOMAIN calls, TakeEnd(i)
    PROVE  Rows'
<1> USE DEF Rows
<1>1. PICK n \in Nat \ {0} :
                /\ DOMAIN calls' = 1..n /\ DOMAIN calls = 1..n
                /\ calls'[n] = FinalCall(i)
                /\ calls'[n].kind = "final" /\ calls'[n].at = "sent" /\ calls'[n].newest = TRUE
                /\ calls'[n].script = calls[i].script
                /\ \A j \in 1..(n - 1) : /\ Was(i, j) \in DOMAIN calls \ {i}
                                         /\ calls'[j] = calls[Was(i, j)]
                                         /\ ~ IsLast(j)'
  BY EndIs
<1>2. UNCHANGED <<doc, edited, voiced, store>> /\ frames' = <<>> /\ IsRun(i)
  BY EndIs DEF TakeEnd, gateway, screen
<1>3. /\ \A j \in DOMAIN calls' : ~ IsRun(j)'
      /\ ~ Answered(n)' /\ ~ Stale(n)' /\ \A j \in DOMAIN calls' : j # n => j \in 1..(n - 1)
  BY <1>1 DEF IsLast, IsRun, Answered, Stale, IsEdit
<1>4. \A j \in DOMAIN calls' : BeforeRun(j)'
  BY <1>3 DEF BeforeRun
<1>5. /\ \A j \in 1..(n - 1) : /\ Stale(j)' <=> Stale(Was(i, j))
                               /\ Answered(j)' <=> Answered(Was(i, j))
      /\ \A k \in DOMAIN calls \ {i} : /\ Is(i, k) \in 1..(n - 1) /\ Was(i, Is(i, k)) = k
                                       /\ calls'[Is(i, k)] = calls[k]
      /\ \A j, k \in 1..(n - 1) : (j < k <=> Was(i, j) < Was(i, k))
  <2>1. \A k \in DOMAIN calls \ {i} : Is(i, k) \in 1..(n - 1) /\ Was(i, Is(i, k)) = k
    <3>1. i \in 1..n /\ n \in Nat /\ DOMAIN calls = 1..n
      BY <1>1
    <3>2. \A k \in 1..n : k # i => Is(i, k) \in 1..(n - 1) /\ Was(i, Is(i, k)) = k
      BY <3>1 DEF Is, Was
    <3> QED
      BY <3>1, <3>2
  <2>2. \A k \in DOMAIN calls \ {i} : calls'[Is(i, k)] = calls[k]
    BY <1>1, <2>1
  <2>3. \A j, k \in 1..(n - 1) : (j < k <=> Was(i, j) < Was(i, k))
    BY <1>1 DEF Was
  <2> QED
    BY <1>1, <2>1, <2>2, <2>3 DEF Stale, Answered, IsEdit
<1>6. LaterEdits'
  BY <1>4 DEF LaterEdits
<1>7. Replaced'
  <2> SUFFICES ASSUME NEW k \in 1..(n - 1), Stale(k)'
               PROVE  \E j \in 1..(n - 1) : k < j /\ Replaces(j, k)'
    <3>1. DOMAIN calls' = 1..n /\ 1..(n - 1) \subseteq 1..n
      BY <1>1
    <3>2. \A k \in DOMAIN calls' : Stale(k)' => k \in 1..(n - 1)
      BY <1>3
    <3> QED
      BY <3>1, <3>2 DEF Replaced
  <2>1. PICK j \in DOMAIN calls : Was(i, k) < j /\ Replaces(j, Was(i, k))
    BY <1>1, <1>5 DEF Replaced
  <2>2. j # i
    <3>1. calls[Was(i, k)].kind # "run"
      BY <1>5 DEF Stale, IsEdit
    <3> QED
      BY <1>2, <2>1, <3>1 DEF Replaces, IsRun
  <2>3. PICK l : l = Is(i, j)
    OBVIOUS
  <2>4. l \in 1..(n - 1) /\ Was(i, l) = j /\ k < l
        /\ calls'[l] = calls[j] /\ calls'[k] = calls[Was(i, k)]
    BY <1>1, <1>5, <2>1, <2>2, <2>3
  <2>5. Replaces(l, k)'
    BY <2>1, <2>4 DEF Replaces
  <2> QED
    BY <2>4, <2>5
<1>8. Playable' = Playable /\ \A c \in Cues : Fitting(c)' = Fitting(c)
  BY <1>2 DEF Playable, Fitting, Stored
<1>9. PlayableAll'
  BY <1>1, <1>2, <1>3, <1>5, <1>8 DEF PlayableAll
<1>10. ASSUME NEW s \in Scripts, NEW c \in Cues, NEW j \in Fixers[s][c]
       PROVE  /\ j \in DOMAIN calls \ {i} /\ Is(i, j) \in Fixers'[s][c]
  <2>1. j \in DOMAIN calls /\ Fixes(j, s, c)
    BY FixersAre
  <2>2. j # i
    BY <1>2, <2>1 DEF Fixes, IsRun
  <2>3. PICK l : l = Is(i, j)
    OBVIOUS
  <2>4. l \in DOMAIN calls' /\ calls'[l] = calls[j]
    BY <1>1, <1>5, <2>1, <2>2, <2>3
  <2>5. Fixes(l, s, c)'
    BY <1>4, <2>1, <2>4 DEF Fixes
  <2> QED
    BY <2>1, <2>2, <2>3, <2>4, <2>5, FixersAre
<1>11. RowsFit'
  <2>1. \A k \in DOMAIN calls : calls[k].script \in Scripts
    BY CallsAre DEF AnyCall
  <2>2. doc.id \in Scripts
    BY DEF Settled
  <2>3. ASSUME NEW c \in Cues PROVE doc' \in Fitting(c)' \/ Fixers'[doc'.id][c] # {}
    BY <1>2, <1>8, <1>10, <2>2 DEF RowsFit
  <2>4. ASSUME NEW k \in DOMAIN calls', NEW c \in Cues, Answered(k)'
        PROVE  calls'[k].reply \in Fitting(c)' \/ \E j \in Fixers'[calls'[k].script][c] : k < j
    <3>1. PICK m \in DOMAIN calls \ {i} :
               m = Was(i, k) /\ calls'[k] = calls[m] /\ Answered(m) /\ k \in 1..(n - 1)
      BY <1>1, <1>3, <1>5, <2>4
    <3>2. calls[m].reply \in Fitting(c) \/ \E j \in Fixers[calls[m].script][c] : m < j
      BY <3>1 DEF RowsFit
    <3>3. ASSUME NEW j \in Fixers[calls[m].script][c], m < j
          PROVE  \E l \in Fixers'[calls'[k].script][c] : k < l
      <4>1. j \in DOMAIN calls \ {i} /\ Is(i, j) \in Fixers'[calls[m].script][c]
        BY <1>10, <2>1, <3>3
      <4>2. k < Is(i, j)
        BY <1>5, <3>1, <3>3, <4>1
      <4> QED
        BY <3>1, <4>1, <4>2
    <3> QED
      BY <1>8, <3>1, <3>2, <3>3
  <2> QED
    BY <2>3, <2>4 DEF RowsFit
<1>12. FramesFit'
  BY <1>2 DEF FramesFit
<1> QED
  BY <1>6, <1>7, <1>9, <1>11, <1>12

(* The run marks a cue: done only once its clip is in the cache.           *)
LEMMA RowsVoiced ==
    ASSUME Types, Settled, Rows, NEW r \in 1..MaxRuns, NEW state, VoicedStep(r, state)
    PROVE  Rows'
<1> USE DEF Rows
<1>1. /\ Active(r) /\ InHand(r) \in Cues /\ state \in CueState
      /\ UNCHANGED <<doc, running, edited, calls>>
      /\ frames' = IF running = r THEN Append(frames, [cue |-> InHand(r), state |-> state])
                                  ELSE frames
      /\ voiced \subseteq voiced'
      /\ state = "done" => Stored(job[r].script, InHand(r)) \in voiced'
      /\ \A s \in Scripts, c \in Cues : SameInputs(s, c)
  BY DEF VoicedStep
<1>2. Fixers' = Fixers /\ LaterEdits' /\ Replaced'
  BY <1>1, RunFixers
<1>3. Playable \subseteq Playable' /\ \A c \in Cues : Fitting(c)' = Fitting(c)
  BY <1>1, PlayableGrows, AllFitKept
<1>4. PlayableAll' /\ RowsFit'
  BY <1>1, <1>2, <1>3 DEF PlayableAll, RowsFit, Answered
<1>5. FramesFit'
  <2> DEFINE frame == [cue |-> InHand(r), state |-> state]
  <2>1. frame \in Frame /\ frames \in Seq(Frame)
    BY <1>1 DEF Types, Frame
  <2>2. frames' = IF running = r THEN Append(frames, frame) ELSE frames
    BY <1>1
  <2>3. frame.cue = InHand(r) /\ frame.state = state
    OBVIOUS
  <2> HIDE DEF frame
  <2>4. \A f \in DOMAIN frames' : \/ f \in DOMAIN frames /\ frames'[f] = frames[f]
                                  \/ running = r /\ frames'[f] = frame
    BY <2>1, <2>2
  <2>5. \A s \in Scripts, c \in Cues : Stored(s, c)' = Stored(s, c)
    BY <1>1, SameInputsSameClip
  <2>6. \A k \in DOMAIN calls : calls[k].script \in Scripts
    BY CallsAre DEF AnyCall
  <2>7. ASSUME NEW k \in DOMAIN calls, NEW f \in DOMAIN frames', IsRun(k),
               frames'[f].state = "done", frames'[f].cue \in Cues,
               <<calls[k].script, frames'[f].cue>> \notin edited
        PROVE  Stored(calls[k].script, frames'[f].cue) \in voiced'
    <3>1. CASE f \in DOMAIN frames /\ frames'[f] = frames[f]
      BY <1>1, <2>7, <3>1 DEF FramesFit
    <3>2. CASE running = r /\ frames'[f] = frame
      <4>1. PICK l \in DOMAIN calls : Hears(l, r)
        BY <1>1, <3>2 DEF Settled, HeardRun
      <4>2. l = k
        BY <2>7, <4>1 DEF Settled, OneRun, Hears, IsLast, IsRun
      <4> QED
        BY <1>1, <2>3, <2>7, <3>2, <4>1, <4>2 DEF Hears
    <3> QED
      BY <2>4, <2>7, <3>1, <3>2
  <2> QED
    BY <1>1, <2>5, <2>6, <2>7 DEF FramesFit, IsRun
<1> QED
  BY <1>2, <1>4, <1>5

LEMMA RowsEnds ==
    ASSUME Types, Rows, NEW r \in 1..MaxRuns, RunEnds(r)
    PROVE  Rows'
<1> USE DEF Rows
<1>1. UNCHANGED <<doc, edited, calls, voiced, store>>
  BY DEF RunEnds, screen
<1>2. Fixers' = Fixers /\ LaterEdits' /\ Replaced'
  BY <1>1, RunFixers
<1>3. Playable' = Playable /\ \A c \in Cues : Fitting(c)' = Fitting(c)
  BY <1>1 DEF Playable, Fitting, Stored
<1>4. PlayableAll' /\ RowsFit'
  BY <1>1, <1>2, <1>3 DEF PlayableAll, RowsFit, Answered
<1>5. FramesFit'
  <2> DEFINE frame == [cue |-> EndOfStream, state |-> "done"]
  <2>1. frame \in Frame /\ frames \in Seq(Frame) /\ frame.cue \notin Cues
    BY CuesAre DEF Types, Frame, CueState, EndOfStream
  <2>2. frames' = IF running = r THEN Append(frames, frame) ELSE frames
    BY DEF RunEnds, Emit
  <2> HIDE DEF frame
  <2>3. \A f \in DOMAIN frames' :
          frames'[f].cue \in Cues => f \in DOMAIN frames /\ frames'[f] = frames[f]
    BY <2>1, <2>2
  <2>4. \A s, c : Stored(s, c)' = Stored(s, c)
    BY <1>1 DEF Stored
  <2> QED
    BY <1>1, <2>3, <2>4 DEF FramesFit, IsRun
<1> QED
  BY <1>2, <1>4, <1>5

(* A frame taken in order is about a row no call is going to replace.      *)
LEMMA RowsFrame ==
    ASSUME Types, Types', Settled, Rows, NEW i \in DOMAIN calls, TakeFrame(i), i = 1
    PROVE  Rows'
<1> USE DEF Rows
<1>1. /\ UNCHANGED <<edited, calls, voiced, store>> /\ IsRun(i)
      /\ frames # <<>> /\ frames' = Tail(frames) /\ Head(frames).cue # EndOfStream
  BY DEF TakeFrame, gateway, RunCall, IsRun
<1>2. Fixers' = Fixers /\ LaterEdits' /\ Replaced'
  BY <1>1, RunFixers
<1>3. Playable' = Playable /\ \A c \in Cues : Fitting(c)' = Fitting(c)
  BY <1>1 DEF Playable, Fitting, Stored
<1>4. /\ 1 \in DOMAIN frames /\ Head(frames) = frames[1] /\ frames[1] \in Frame
      /\ \A f \in DOMAIN frames' : f + 1 \in DOMAIN frames /\ frames'[f] = frames[f + 1]
  BY <1>1 DEF Types
<1>5. FramesFit'
  <2>1. \A s, c : Stored(s, c)' = Stored(s, c)
    BY <1>1 DEF Stored
  <2> QED
    BY <1>1, <1>4, <2>1 DEF FramesFit, IsRun
<1>6. doc \in Doc /\ doc.id \in Scripts
  BY ScriptEditorAssumption DEF Settled, Types, Nothing
<1>7. /\ doc' \in Playable /\ doc'.id = doc.id
      /\ \A c \in Cues : doc \in Fitting(c) => doc' \in Fitting(c)
  <2>1. CASE doc' = doc
    BY <1>6, <2>1 DEF PlayableAll
  <2>2. CASE doc' # doc
    <3>1. PICK x : x = Head(frames).cue
      OBVIOUS
    <3>2. PICK state : state = Head(frames).state
      OBVIOUS
    <3>3. /\ doc.id = calls[i].script /\ <<doc.id, x>> \notin edited
          /\ doc' = [doc EXCEPT !.cues[x].state = state]
      BY <2>2, <3>1, <3>2 DEF TakeFrame
    <3>4. x \in Cues /\ state \in CueState
      BY <1>1, <1>4, <3>1, <3>2 DEF Frame
    <3> DEFINE row == [doc.cues[x] EXCEPT !.state = state]
    <3> DEFINE cues == [doc.cues EXCEPT ![x] = row]
    <3>5. /\ row.text = doc.cues[x].text /\ row.over = doc.cues[x].over
          /\ row.clip = doc.cues[x].clip /\ row.state = state
      BY <1>6, <3>4 DEF Doc, Row
    <3>6. doc' = [doc EXCEPT !.cues = cues]
      BY <3>3
    <3> HIDE DEF row
    <3>7. cues[x] = row /\ \A c \in Cues : c # x => cues[c] = doc.cues[c]
      BY <1>6, <3>4 DEF Doc
    <3> HIDE DEF cues
    <3>8. /\ doc'.id = doc.id /\ doc'.dflt = doc.dflt
          /\ doc'.cues[x].text = doc.cues[x].text /\ doc'.cues[x].over = doc.cues[x].over
          /\ doc'.cues[x].clip = doc.cues[x].clip /\ doc'.cues[x].state = state
          /\ \A c \in Cues : c # x => doc'.cues[c] = doc.cues[c]
      BY <1>6, <3>5, <3>6, <3>7 DEF Doc
    <3>9. doc' \in Doc
      <4>1. Nothing.id = NoDoc
        BY DEF Nothing
      <4> QED
        BY <1>6, <3>8, <4>1, ScriptEditorAssumption DEF Types
    <3>10. \A c \in Cues : doc \in Fitting(c) => doc' \in Fitting(c)
      BY <3>8, <3>9 DEF Fitting
    <3>11. doc \in Fitting(x)
      <4>1. \A j \in DOMAIN calls : ~ BeforeRun(j)
        BY <1>1, CallsAre DEF BeforeRun
      <4>2. Fixers[doc.id][x] = {}
        BY <1>6, <3>3, <3>4, <4>1, FixersAre DEF Fixes
      <4> QED
        BY <3>4, <4>2 DEF RowsFit
    <3>12. state = "done" => Stored(doc.id, x) \in voiced
      BY <1>1, <1>4, <3>1, <3>2, <3>3, <3>4 DEF FramesFit
    <3>13. /\ doc.cues[x].clip = Stored(doc.id, x)
           /\ ClipOf(doc'.dflt, doc'.cues[x]) = Stored(doc.id, x)
      BY <3>8, <3>11 DEF Fitting, Stored, ClipOf
    <3>14. doc' \in Playable
      <4> SUFFICES ASSUME NEW c \in Cues, doc'.cues[c].state = "done"
                   PROVE  /\ doc'.cues[c].clip \in voiced
                        /\ doc'.cues[c].clip = ClipOf(doc'.dflt, doc'.cues[c])
        BY <3>9 DEF Playable
      <4>1. CASE c = x
        BY <3>8, <3>12, <3>13, <4>1
      <4>2. CASE c # x
        BY <3>8, <4>2 DEF PlayableAll, Playable
      <4> QED
        BY <4>1, <4>2
    <3> QED
      BY <3>8, <3>10, <3>14
  <2> QED
    BY <2>1, <2>2
<1>8. PlayableAll' /\ RowsFit'
  BY <1>1, <1>2, <1>3, <1>7 DEF PlayableAll, RowsFit, Answered
<1> QED
  BY <1>2, <1>5, <1>8

LEMMA RowsUnchanged == ASSUME Rows, UNCHANGED vars PROVE Rows'
<1>1. UNCHANGED <<doc, edited, calls, frames, voiced, store>>
  BY DEF vars, gateway, screen
<1>2. Fixers' = Fixers /\ (LaterEdits => LaterEdits') /\ (Replaced => Replaced')
  BY <1>1, RunFixers
<1>3. Playable' = Playable /\ \A c \in Cues : Fitting(c)' = Fitting(c)
  BY <1>1 DEF Playable, Fitting, Stored
<1>4. (PlayableAll => PlayableAll') /\ (RowsFit => RowsFit')
  BY <1>1, <1>2, <1>3 DEF PlayableAll, RowsFit, Answered
<1>5. \A s, c : Stored(s, c)' = Stored(s, c)
  BY <1>1 DEF Stored
<1>6. FramesFit => FramesFit'
  BY <1>1, <1>5 DEF FramesFit, IsRun
<1> QED
  BY <1>2, <1>4, <1>6 DEF Rows

(* Every step keeps the rows, while the answers arrive in order.           *)
LEMMA RowInvNext ==
    ASSUME Types, Types', DoneIsVoiced, ScreenInv, RowInv, [Next]_vars
    PROVE  RowInv'
<1> SUFFICES ASSUME raced' \subseteq {"mixed"} PROVE Rows'
  BY DEF RowInv
<1>1. "spoilt" \notin raced' /\ "answers" \notin raced' /\ "defaults" \notin raced'
  OBVIOUS
<1>2. "spoilt" \notin raced
  BY <1>1, UnspoiltNext
<1>3. Settled
  BY <1>2 DEF ScreenInv, Screen
<1>4. raced \subseteq raced' => Rows
  BY DEF RowInv
<1>5. CASE UNCHANGED vars
  <2>1. raced' = raced
    BY <1>5 DEF vars
  <2> QED
    BY <1>4, <1>5, <2>1, RowsUnchanged
<1>6. ASSUME NEW new, MadeFacts(new), Made(new) PROVE Rows'
  <2>1. raced \subseteq raced'
    BY <1>1, <1>6, MadeRace
  <2> QED
    BY <1>1, <1>3, <1>4, <1>6, <2>1, RowsMade
<1>7. ASSUME NEW i \in DOMAIN calls, Handle(i) PROVE Rows'
  <2>1. raced' = raced
    BY <1>1, <1>7, HandleRace
  <2> QED
    BY <1>3, <1>4, <1>7, <2>1, RowsHandled
<1>8. ASSUME NEW i \in DOMAIN calls, Answer(i) PROVE Rows'
  <2>1. raced \subseteq raced'
    BY <1>1, <1>8, AnswerRace
  <2> QED
    BY <1>3, <1>4, <1>8, <2>1, RowsAnswered
<1>9. ASSUME NEW i \in DOMAIN calls, StartRun(i) PROVE Rows'
  <2>1. raced' = raced
    BY <1>1, <1>9, HandleRace
  <2> QED
    BY <1>4, <1>9, <2>1, RowsStarted
<1>10. ASSUME NEW i \in DOMAIN calls, Taking(i) PROVE Rows'
  <2>1. raced \subseteq raced' /\ \A j \in DOMAIN calls : j < i => IsRun(j)
    BY <1>1, <1>10, TakenRace
  <2> QED
    BY <1>3, <1>4, <1>10, <2>1, RowsTaken
<1>11. ASSUME NEW i \in DOMAIN calls, TakeEnd(i) PROVE Rows'
  <2>1. raced \subseteq raced'
    BY <1>1, <1>11, EndRace
  <2> QED
    BY <1>3, <1>4, <1>11, <2>1, RowsEnd
<1>12. ASSUME NEW i \in DOMAIN calls, TakeFrame(i) PROVE Rows'
  <2>1. Race("answers", i # 1)
    BY <1>12 DEF TakeFrame
  <2>2. raced \subseteq raced' /\ i = 1
    BY <1>1, <2>1, RaceIs
  <2> QED
    BY <1>3, <1>4, <1>12, <2>2, RowsFrame
<1>13. ASSUME NEW r \in 1..MaxRuns, NEW state, VoicedStep(r, state) PROVE Rows'
  <2>1. raced' = raced
    BY <1>13 DEF VoicedStep
  <2> QED
    BY <1>3, <1>4, <1>13, <2>1, RowsVoiced
<1>14. ASSUME NEW r \in 1..MaxRuns, RunEnds(r) PROVE Rows'
  <2>1. raced' = raced
    BY <1>14 DEF RunEnds
  <2> QED
    BY <1>4, <1>14, <2>1, RowsEnds
<1> QED
  BY <1>1, <1>5, <1>6, <1>7, <1>8, <1>9, <1>10, <1>11, <1>12, <1>13, <1>14, StepIs

LEMMA RowsInit == ASSUME Init PROVE DoneIsVoiced /\ Rows
<1>1. /\ store = [s \in Scripts |-> Imported] /\ doc = Document(First, Imported)
      /\ frames = <<>> /\ calls = <<>>
  BY DEF Init
<1>2. /\ First \in Scripts /\ store[First] = Imported /\ DOMAIN calls = {} /\ DOMAIN frames = {}
      /\ \A s \in Scripts, c \in Cues : store[s].cues[c].state = "queued"
  BY <1>1, ScriptEditorAssumption DEF Imported
<1>3. /\ doc \in Doc /\ doc.id = First /\ doc.dflt = Imported.dflt
      /\ \A c \in Cues : /\ doc.cues[c].text = Imported.cues[c].text
                         /\ doc.cues[c].over = Imported.cues[c].over
                         /\ doc.cues[c].state = Imported.cues[c].state
                         /\ doc.cues[c].clip = ClipOf(Imported.dflt, Imported.cues[c])
  BY <1>1, <1>2, ImportedIs, DocumentIs
<1>4. \A c \in Cues : doc.cues[c].state = "queued"
  BY <1>3 DEF Imported
<1>5. doc \in Playable
  BY <1>3, <1>4 DEF Playable
<1>6. \A c \in Cues : doc \in Fitting(c)
  BY <1>2, <1>3 DEF Fitting, Stored
<1>7. LaterEdits /\ Replaced /\ RowsFit /\ FramesFit /\ PlayableAll
  BY <1>2, <1>5, <1>6 DEF LaterEdits, Replaced, RowsFit, FramesFit, PlayableAll
<1> QED
  BY <1>2, <1>7 DEF DoneIsVoiced, Rows

(* What the rows say is what the operator is promised.                     *)
LEMMA RowsShown == ASSUME Types, RowInv PROVE DoneRowPlays
<1>1. TypeOK
  <2>1. DOMAIN Nothing.cues = {} /\ Nothing.id = NoDoc
    BY DEF Nothing
  <2>2. \A s \in Scripts, c \in Cues : store[s].cues[c] \in CueRecord
    BY DEF Types, Record
  <2>3. doc.id \in Scripts \cup {NoDoc} /\ \A c \in DOMAIN doc.cues : doc.cues[c] \in Row
    BY <2>1 DEF Types, Doc
  <2> QED
    BY <2>2, <2>3 DEF TypeOK, Types, CueRecord, Row
<1>2. ASSUME raced \subseteq {"mixed"}, NEW c \in DOMAIN doc.cues, doc.cues[c].state = "done"
      PROVE  doc.cues[c].clip \in voiced /\ doc.cues[c].clip = ClipOf(doc.dflt, doc.cues[c])
  <2>1. doc \in Playable
    BY <1>2 DEF RowInv, Rows, PlayableAll
  <2>2. c \in Cues
    BY <1>2, <2>1 DEF Playable, Doc
  <2> QED
    BY <1>2, <2>1, <2>2 DEF Playable
<1> QED
  BY <1>1, <1>2 DEF DoneRowPlays

-----------------------------------------------------------------------------
(* What every reachable state of the editor and its gateway keeps.         *)
EditorInv == Types /\ DoneIsVoiced /\ Apart /\ ScreenInv /\ RowInv

(* The documents, the calls and the frames on their way are of their       *)
(* kinds; what the gateway calls done is voiced; and the screen and the    *)
(* replies still to come owe the record only what a newer edit will bring. *)
THEOREM EditorInvariant == Spec => []EditorInv
<1>1. Init => EditorInv
  <2> SUFFICES ASSUME Init PROVE EditorInv
    OBVIOUS
  <2>1. Screen
    BY ScreenInit DEF Screen
  <2> QED
    BY <2>1, TypesInit, RowsInit, ScreenInit DEF EditorInv, ScreenInv, RowInv
<1>2. EditorInv /\ [Next]_vars => EditorInv'
  <2> SUFFICES ASSUME EditorInv, [Next]_vars PROVE EditorInv'
    OBVIOUS
  <2> USE DEF EditorInv
  <2>1. Types' /\ DoneIsVoiced' /\ Apart'
    BY TypesNext, DoneNext, ApartNext
  <2>2. ScreenInv'
    BY ScreenInvNext
  <2>3. RowInv'
    BY <2>1, RowInvNext
  <2> QED
    BY <2>1, <2>2, <2>3
<1> QED
  BY <1>1, <1>2, PTL DEF Spec

(* Once every answer is in and no run is open, the document App.tsx shows  *)
(* is the one the gateway keeps, row for row, after any edits of cues and  *)
(* defaults, runs, imports and documents opened in between: the optimistic *)
(* rows of editScriptCue and updateScriptDefaults, the frames of           *)
(* applyRunProgress and the replies that replace the document leave        *)
(* nothing behind, unless an answer was overtaken among calls of different *)
(* kinds, the gateway took a call before an older one, or one failed.      *)
THEOREM ScreenShowsTheStore == Spec => []ScreenIsStored
<1>1. EditorInv => ScreenIsStored
  BY ScreenShown DEF EditorInv
<1> QED
  BY <1>1, EditorInvariant, PTL

(* A row the editor shows done has its clip in the cache, under the id of  *)
(* the text and the voice the row shows: a frame of a run on its way while *)
(* the row is edited (editsDuringRun of App.tsx), a superseded reply, and  *)
(* the gateway's own refresh never leave the mark of one clip on the words *)
(* of another. Answers in order, and no change of defaults during a run.   *)
THEOREM DoneRowsPlay == Spec => []DoneRowPlays
<1>1. EditorInv => DoneRowPlays
  BY RowsShown DEF EditorInv
<1> QED
  BY <1>1, EditorInvariant, PTL
=============================================================================
