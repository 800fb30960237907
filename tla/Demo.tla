--------------------------------- MODULE Demo ---------------------------------
(* The demo once its installation has said it is ready: the gateway runs, as *)
(* a child of the setup, and the operator does one thing with it - drops an  *)
(* audio file, composes a line and presses Generate, imports a script, or    *)
(* exports one. Each use is one step, whose answer is what the pure code on  *)
(* the way computes; the states in between are those of the other modules.   *)
EXTENDS Setup, Integers, TLC

CONSTANTS WordShape, Conservative,  \* of SpeakRequest
          Uploads,          \* files dropped, with what a decoder hears in each
          Buckets,          \* how many peaks the waveform is drawn with
          Recordings,       \* staged recordings
          Targets,          \* where the operator drags the window
          Corrections,      \* transcripts the operator writes
          SavedVoices,      \* the library
          Lines,            \* lines to speak
          Instructions,     \* how to speak them
          CeilingFiles,     \* reference-ceiling.json
          Sources,          \* script files dropped
          Layouts,          \* the settings of a script
          References,       \* the library's profiles: at the import, and later
          Timelines,        \* generated cues
          Gaps              \* silences between exported cues

VARIABLE use                \* what the demo is used for, and what came of it

Speak == INSTANCE SpeakRequest
Files == INSTANCE ScriptFile

Shape == [cjk : Nat, other : Nat, words : Nat, punct : Nat]
WordTime == [start : Int, end : Int]

(* Of a WAV, a decoder hears the first audio in the last format; what is     *)
(* converted lasts as many frames as are heard.                              *)
Heard(upload) ==
    LET chunks == upload.file.chunks
        named(id) == {i \in DOMAIN chunks : chunks[i].id = id}
    IN /\ chunks \in Seq(Speak!Range(chunks))
       /\ upload.decoded \in Seq(Nat) /\ upload.bytes \in Nat
       /\ upload.perSecond \in Nat \ {0}
       /\ Speak!DetectAudio(upload.file).conforming =>
             \A data \in named("data"), fmt \in named("fmt") :
                 (\A i \in named("data") : data <= i) /\ (\A i \in named("fmt") : i <= fmt) =>
                     /\ chunks[data].size = upload.bytes
                     /\ chunks[data].frames = upload.decoded
                     /\ upload.perSecond = chunks[fmt].rate * chunks[fmt].channels
                                             * (chunks[fmt].bits \div 8)
       /\ ~Speak!DetectAudio(upload.file).conforming =>
             upload.bytes * 2 * Speak!TargetRate
                 = 2 * Len(upload.decoded) * upload.perSecond

(* A voice is saved with the length its header gives (voices.ts:202).        *)
SavedAs(voice) ==
    LET header == Speak!ReadWavHeader(voice.wav)
    IN /\ voice.transcript \in Shape /\ voice.duration \in Nat /\ voice.length \in Nat
       /\ header.ok
       /\ voice.duration = Speak!Units(Speak!DurationSeconds(header.bytes, header))

ASSUME DemoAssumption ==
    /\ WordShape \in Shape /\ Conservative \in Nat \ {0}
    /\ Buckets \subseteq Nat \ {0}
    /\ \A upload \in Uploads : Heard(upload)
    /\ \A r \in Recordings : /\ r.duration \in Nat /\ r.text \in Shape
                             /\ IsFiniteSet(r.words) /\ r.words \subseteq WordTime
    /\ Targets \subseteq Int
    /\ Corrections \subseteq Shape /\ Lines \subseteq Shape /\ Instructions \subseteq Shape
    /\ \A voice \in SavedVoices : SavedAs(voice)
    /\ \A finding \in CeilingFiles :
          finding.present => finding.noCfg \in Int /\ finding.singleCfg \in Int

Unused == [kind |-> "nothing"]

(* The uses are of an installation made in one go: MaxStops and MaxMeddling  *)
(* bound the setup alone.                                                    *)
Serving == at = "ready" /\ stops = 0 /\ meddling = 0 /\ use = Unused

-----------------------------------------------------------------------------
(* POST /api/reference: convert if need be, then measure and draw.           *)
Intake(audio, decoded, ffmpeg, buckets) ==
    LET normal == Speak!NormaliseReference(audio, decoded, ffmpeg)
        parsed == IF normal.ok THEN Speak!ParseWavPcm(normal.wav) ELSE Speak!Rejected
    IN IF ~parsed.ok THEN Speak!Rejected
       ELSE [ok |-> TRUE, wav |-> normal.wav,
             duration |-> Speak!DurationSeconds(parsed.bytes, parsed),
             peaks |-> Speak!PeaksFrom(parsed.frames, buckets)]

UseIntake ==
    /\ Serving
    /\ \E upload \in Uploads, ffmpeg \in {"works", "fails", "missing"}, buckets \in Buckets :
          use' = [kind |-> "intake", upload |-> upload, buckets |-> buckets,
                  answer |-> Intake(upload.file, upload.decoded, ffmpeg, buckets)]
    /\ UNCHANGED setupVars

-----------------------------------------------------------------------------
(* The page as it is when Generate can be pressed.                           *)
Page(source, cfg, text, instruction, ceiling) ==
    [source |-> source, cfg |-> cfg, text |-> text, instruction |-> instruction,
     file |-> ceiling, finding |-> Speak!ParseReferenceCeiling(ceiling),
     reachable |-> TRUE, generating |-> FALSE]

Press(page) ==
    LET shown == Speak!Effective(page)
        reason == Speak!BlockedReason(shown)
    IN [kind |-> "press", page |-> shown, reason |-> reason,
        answer |-> IF reason = "none" THEN Speak!Pressed(shown) ELSE Speak!Rejected]

(* The recording was taken in at CFG 1, dragged, and perhaps corrected. Its  *)
(* words are timed where the transcription service is deployed.              *)
Selections(recording, target, limit) ==
    LET moved == Speak!MoveReferenceWindow(
                     Speak!CreateInitialReferenceSelection(recording, limit), target, limit)
        edited == {Speak!EditReferenceTranscript(moved, text) : text \in Corrections}
    IN {moved} \cup edited \cup {Speak!RestoreReferenceTranscript(s) : s \in edited}

UsePress ==
    /\ Serving
    /\ LET heard == {r \in Recordings : r.words # {} => env["ASR"] # Unset} IN
       \E cfg \in {1, 2}, text \in Lines, instruction \in Instructions, ceiling \in CeilingFiles :
          \/ use' = Press(Page("described", cfg, text, instruction, ceiling))
          \/ \E voice \in SavedVoices :
                use' = Press(Speak!With(Page("saved", cfg, text, instruction, ceiling),
                                        [voice |-> voice]))
          \/ \E recording \in heard, target \in Targets :
                \E selection \in Selections(recording, target,
                        Speak!ReferenceCeilingFor(Speak!ParseReferenceCeiling(ceiling), 1)) :
                    use' = Press(Speak!With(Page("staged", cfg, text, instruction, ceiling),
                                            [selection |-> selection]))
    /\ UNCHANGED setupVars

-----------------------------------------------------------------------------
(* A script is imported, all of it is run, and the gateway starts again when *)
(* the library's references have changed.                                    *)
UseImport ==
    /\ Serving
    /\ \E source \in Sources, defaults \in Layouts, references \in References :
          use' = [kind |-> "import", source |-> source, references |-> references,
                  imported |-> Files!ImportFile(source, FALSE, defaults, references.first)]
    /\ UNCHANGED setupVars

RunAll ==
    /\ use.kind = "import"
    /\ use' = [use EXCEPT !.kind = "run",
                  !.imported.cues = [i \in DOMAIN @ |-> [@[i] EXCEPT !.state = "done"]]]
    /\ UNCHANGED setupVars

StartAgain ==
    /\ use.kind = "run"
    /\ \E script \in Files!RechunkAll({use.imported}, use.references.later) :
          use' = Speak!With(use, [kind |-> "restart", restarted |-> script])
    /\ UNCHANGED setupVars

UseExport ==
    /\ Serving
    /\ \E cues \in Timelines, gap \in Gaps :
          use' = [kind |-> "export", cues |-> cues, gap |-> gap,
                  vtt |-> Files!ExportVtt(cues, gap), wav |-> Files!ConcatenateScript(cues, gap)]
    /\ UNCHANGED setupVars

Done == use # Unused /\ use' = Unused /\ UNCHANGED setupVars

DemoInit == SetupInit /\ use = Unused
Use == UseIntake \/ UsePress \/ UseImport \/ RunAll \/ StartAgain \/ UseExport
DemoNext == (SetupNext /\ use = Unused /\ UNCHANGED use) \/ Use \/ Done

(* The setup goes on while the operator is not using what it started; a use  *)
(* ends.                                                                     *)
DemoSpec == DemoInit /\ [][DemoNext]_<<setupVars, use>>
DemoFair ==
    /\ DemoSpec
    /\ WF_setupVars(Begin /\ use' = use) /\ WF_setupVars(Forward /\ use' = use)
    /\ WF_use(Done)

-----------------------------------------------------------------------------
(* What the waveform and the length of a reference are taken from is the     *)
(* audio and nothing else (reference-slice.ts parseWavPcm, peaksFrom): the   *)
(* length counts every frame that a decoder hears, whatever other chunks the *)
(* file carries, and every frame is drawn in one bucket, so that the loudest *)
(* is seen.                                                                  *)
Loudest(frames) == IF frames = <<>> THEN 0 ELSE Speak!Max(Speak!Range(frames))

IntakeMeasures ==
    use.kind = "intake" /\ use.answer.ok =>
        /\ use.answer.duration.bytes * use.upload.perSecond
             = use.upload.bytes * use.answer.duration.perSecond
        /\ Speak!Max(Speak!Range(use.answer.peaks)) = Loudest(use.upload.decoded)

(* What the page lets through is spoken: no limit of the gateway refuses     *)
(* what the page's own copy of the limits allowed, and the prompt, counted   *)
(* with the audio that is really sent, fits the graphs that are captured     *)
(* (draft.ts:94-98, script.ts:290-299). A window that holds no whole word    *)
(* that takes time, or no time, and a saved voice whose length was misread,  *)
(* are left out: see the README. Where the gateway advises a higher CFG, a   *)
(* higher CFG has more room.                                                 *)
Audible(selection) ==
    LET words == Speak!Usable(selection.recording.words, selection.recording.duration)
    IN IF Speak!ValidWords(selection.recording.words) = {}
       THEN selection.start < selection.end
       ELSE \E w \in Speak!Contained(words, selection.start, selection.end) : w.start < w.end

Plain(page) ==
    CASE page.source = "described" -> TRUE
      [] page.source = "saved" -> page.voice.duration = page.voice.length
      [] page.source = "staged" -> Audible(page.selection)

(* Every segment in the text encoder, and all of them with the audio in the  *)
(* backbone.                                                                 *)
PromptFits(answer) ==
    LET spoken == Speak!G!EstimateTokens(Speak!G!Joined(answer.instruction, answer.text)) + 8
        transcript == Speak!G!EstimateTokens(answer.refText) + 8
        audio == (answer.span[2] - answer.span[1] + 1) \div 2 + 1
        encoder == IF answer.mode = "design" /\ answer.cfg = 1 THEN 256 ELSE 512
        backbone == IF answer.cfg = 1 THEN 256 ELSE 512
    IN IF answer.mode = "design" THEN spoken <= encoder /\ spoken <= backbone
       ELSE /\ spoken <= encoder /\ transcript <= encoder
            /\ spoken + transcript + audio <= backbone

Advised(shown) ==
    LET breach == Speak!G!FindCeilingBreach(shown)
    IN breach # Speak!G!NoBreach /\ Speak!G!CeilingRefusal(breach, shown.mode).raiseCfg
Room(mode, cfg) == Speak!G!TokenCeilingFor(mode, cfg)

Unblocked(press) ==
    LET shown == Speak!ShownRequest(press.page)
    IN /\ press.reason = "none" /\ Plain(press.page) => press.answer.ok /\ PromptFits(press.answer)
       /\ Advised(shown) => Room(shown.mode, shown.cfg) < Room(shown.mode, 2)

UnblockedIsServed == use.kind = "press" => Unblocked(use)

(* What is spoken is what was shown: the reference is cut at the bounds the  *)
(* trimmer drew, with the transcript in the box, edited or not, and the      *)
(* template is the one whose limits were applied. Nothing the operator does  *)
(* to the window makes it longer than the limit (reference.ts:240-243).      *)
AsShown(press) ==
    LET shown == Speak!ShownRequest(press.page)
    IN /\ press.page.source = "staged" => shown.refDuration <= Speak!SpeakCeiling(press.page)
       /\ press.answer.ok /\ Plain(press.page) =>
             /\ press.answer.mode = shown.mode
             /\ press.answer.refText = shown.refText
             /\ press.answer.span[2] - press.answer.span[1] = shown.refDuration
             /\ press.page.source = "staged" => press.answer.span[1] = press.page.selection.start

ServedAsShown == use.kind = "press" => AsShown(use)

(* Dividing a script loses nothing of it (script.ts:515, text-chunker.ts):   *)
(* the cues of an import, and those after a reflow, say what the file says;  *)
(* each fits, or is a line that cannot be divided; and a cue the reflow does *)
(* not divide keeps its identity and its clip.                               *)
Said(cues) == Files!FlattenSeq([i \in DOMAIN cues |-> Files!Content(cues[i].text)])
Written(source) == Files!FlattenSeq([i \in DOMAIN source |-> Files!Content(source[i].text)])
Whole(cue, texts) == \E i \in DOMAIN texts : cue.text = Files!Trim(texts[i].text)
FitOrWhole(cues, profiles, texts) ==
    \A i \in DOMAIN cues : Files!Fits(cues[i], profiles, cues[i].text) \/ Whole(cues[i], texts)

KeptAsWas(before, after, profiles) ==
    \A i \in DOMAIN before : \E j \in DOMAIN after :
        /\ after[j].id = before[i].id
        /\ Files!Fits(before[i], profiles, before[i].text) =>
              after[j].clip = before[i].clip /\ after[j].state = "done"

ReflowLosesNothing ==
    use.kind = "restart" /\ use.imported.source = "text" =>
        LET before == use.imported.cues
            after == use.restarted.cues
        IN /\ Said(before) = Written(use.source) /\ Said(after) = Said(before)
           /\ FitOrWhole(before, use.references.first, use.source)
           /\ FitOrWhole(after, use.references.later, before)
           /\ Files!Cardinality({after[i].id : i \in DOMAIN after}) = Len(after)
           /\ use.imported.defaults.seedMode = "fixed" =>
                 KeptAsWas(use.imported.cues, after, use.references.later)

(* The two exports agree, and the timings can be read back: the VTT that is  *)
(* exported imports as the same texts at the same times, to the millisecond, *)
(* and its last cue ends where the WAV does. Left out are a boundary in the  *)
(* last half of a second's last millisecond (vtt.ts:76), which is written    *)
(* with a thousand milliseconds; a text with something in angle brackets,    *)
(* which the import takes for a tag and strips (vtt.ts:133); and a text with *)
(* an empty line in it, which ends the block there (vtt.ts:90).              *)
Boundaries(cues, gap) ==
    LET start == Files!Starts(cues, gap)
    IN {start[i] : i \in DOMAIN cues} \cup {start[i] + cues[i].frames : i \in DOMAIN cues}

Roundable(time) == time % Files!Second < Files!Second - Files!FramesPerMilli \div 2
Near(x, y) == 2 * Speak!Distance(x, y) <= Files!FramesPerMilli

(* What a cue says, its lines one after the other.                           *)
TextOf(cue) ==
    Files!FlattenSeq([i \in DOMAIN cue.lines |->
        IF i = 1 THEN cue.lines[i].text ELSE <<Files!Space>> \o cue.lines[i].text])

(* No bracket is closed after it was opened, but the empty pair.             *)
Readable(cue) ==
    LET text == TextOf(cue)
    IN /\ \A i \in DOMAIN cue.lines : cue.lines[i].kind # "blank"
       /\ \A i, j \in DOMAIN text :
             text[i] = Files!Open /\ text[j] = Files!Close /\ i + 1 < j =>
                \E k \in i + 1 .. j - 1 : text[k] = Files!Close

Reads(cues, gap, lines) ==
    LET start == Files!Starts(cues, gap)
        read == Files!ParseScriptFile(lines, FALSE)
    IN /\ read.problems = <<>> /\ Len(read.cues) = Len(cues)
       /\ \A i \in DOMAIN cues :
             /\ read.cues[i].text = Files!Trim(TextOf(cues[i]))
             /\ Near(read.cues[i].start, start[i])
             /\ Near(read.cues[i].end, start[i] + cues[i].frames)

ExportReadsBack ==
    use.kind = "export" /\ use.vtt.ok =>
        LET start == Files!Starts(use.cues, use.gap)
            n == Len(use.cues)
        IN /\ /\ \A time \in Boundaries(use.cues, use.gap) : Roundable(time)
              /\ \A i \in DOMAIN use.cues : Readable(use.cues[i])
              => Reads(use.cues, use.gap, use.vtt.lines)
           /\ n > 0 => use.wav.ok /\ use.wav.frames = start[n] + use.cues[n].frames

-----------------------------------------------------------------------------
(* What the code or its comments claim and the model refutes: see Findings   *)
(* in the README.                                                            *)

(* A hand-corrected transcript makes any window sendable: the page does not  *)
(* block a window that holds no whole word (reference.ts:271-279), which the *)
(* gateway snaps elsewhere or refuses.                                       *)
EveryWindowIsServed ==
    use.kind = "press" /\ use.page.source = "staged" /\ use.reason = "none" =>
        /\ use.answer.ok
        /\ use.answer.span = <<use.page.selection.start, use.page.selection.end>>

(* "Every CFG value carries the same ceiling" (script.ts:369-370), where no  *)
(* higher CFG is advised.                                                    *)
EveryRefusalIsTrue ==
    use.kind = "press" /\ use.reason \in {"encoder", "backbone"} =>
        LET shown == Speak!ShownRequest(use.page)
        IN Advised(shown) \/ Room(shown.mode, 1) = Room(shown.mode, 2)

(* The length a voice is saved with is that of its audio (voices.ts:202).    *)
EveryVoiceFits ==
    use.kind = "press" /\ use.page.source = "saved" /\ use.answer.ok => PromptFits(use.answer)

(* A word is divided only where it does not fit, and its end is never joined *)
(* to the word after it (text-chunker.ts:103).                               *)
WordsStayApart ==
    use.kind = "import" /\ use.imported.source = "text" =>
        \A i \in DOMAIN use.imported.cues :
            \E k \in DOMAIN use.source :
                LET text == use.source[k].text
                    said == use.imported.cues[i].text
                IN \E from, to \in 0 .. Len(text) : said = SubSeq(text, from + 1, to)

(* "a short completed tail therefore stays completed through the migration"  *)
(* (script.ts:921-923).                                                      *)
TailStaysDone ==
    use.kind = "restart" /\ use.imported.source = "text" =>
        KeptAsWas(use.imported.cues, use.restarted.cues, use.references.later)

(* Every export can be imported again (vtt.ts:76, 90, 133).                  *)
EveryExportReadsBack ==
    use.kind = "export" /\ use.vtt.ok => Reads(use.cues, use.gap, use.vtt.lines)
=============================================================================
