----------------------------- MODULE SpeakRequest -----------------------------
(* One press of Generate, from the Speak page to the vendor: what the page   *)
(* shows and blocks (src/ui/src/App.tsx, state/reference.ts, workspace.ts,   *)
(* api/client.ts) and what the gateway makes of the form it is sent          *)
(* (src/gateway/src/index.ts, references.ts, voice-intent.ts). The two hold  *)
(* separate copies of every limit, and must agree.                           *)
(*                                                                           *)
(* Times count 40 ms. All timed words have the same shape, WordShape.        *)
EXTENDS ReferenceWindow, WavFile

G == INSTANCE Ceilings
U == INSTANCE DraftGate

CONSTANTS WordShape,        \* the shape of one timed word
          Conservative      \* CONSERVATIVE_REFERENCE_MAX_SECONDS: 10 s, in units

Nothing == G!Nothing

(* A record with more fields.                                                *)
With(record, more) ==
    [f \in DOMAIN record \cup DOMAIN more |->
        IF f \in DOMAIN more THEN more[f] ELSE record[f]]

(* k words, a space between them.                                            *)
WordsShape(k) ==
    IF k = 0 THEN Nothing
    ELSE [cjk |-> k * WordShape.cjk, other |-> k * WordShape.other + k - 1,
          words |-> k * WordShape.words, punct |-> k * WordShape.punct]

TextOf(words) == WordsShape(Cardinality(words))

-----------------------------------------------------------------------------
(* The limits, from the measured finding; "none" and "malformed" are files   *)
(* with nothing to use. A finding limits each branch of the guidance.        *)
Measured(finding) == finding.usable
ParseReferenceCeiling(file) ==
    IF file.present /\ file.noCfg > 0 /\ file.singleCfg > 0
    THEN [usable |-> TRUE, noCfg |-> file.noCfg, singleCfg |-> file.singleCfg]
    ELSE [usable |-> FALSE]

ReferenceSecondsFor(finding, cfg) ==
    IF cfg = 1 THEN finding.noCfg ELSE finding.singleCfg

(* The browser reads it from /api/findings.                                  *)
ReferenceCeilingFor(finding, cfg) ==
    LET selected == IF cfg = 1 THEN finding.noCfg ELSE finding.singleCfg
    IN IF Measured(finding) THEN selected ELSE Conservative

-----------------------------------------------------------------------------
(* The selection of a staged recording: its window, its transcript and       *)
(* whether the operator wrote it.                                            *)
MoveReferenceWindow(selection, target, max) ==
    LET window == Move(selection.recording, target, max)
        timed == Usable(selection.recording.words, selection.recording.duration)
    IN [selection EXCEPT
          !.start = window.start, !.end = window.end,
          !.transcript = IF selection.edited \/ timed = {} THEN @
                         ELSE TextOf(window.transcript)]

CreateInitialReferenceSelection(recording, max) ==
    MoveReferenceWindow(
        [recording |-> recording, start |-> 0, end |-> Ceiling(recording.duration, max),
         transcript |-> recording.text, edited |-> FALSE], 0, max)

EditReferenceTranscript(selection, text) ==
    [selection EXCEPT !.transcript = text, !.edited = TRUE]

RestoreReferenceTranscript(selection) ==
    LET s == selection
    IN [s EXCEPT !.edited = FALSE,
          !.transcript = TextOf(Contained(ValidWords(s.recording.words), s.start, s.end))]

SelectionMetrics(selection, max, ceiling) ==
    [durationExceeded |-> selection.end - selection.start > max,
     tokensExceeded |-> U!EstimateTokens(selection.transcript) > ceiling]

SelectionBlocked(selection, max, ceiling) ==
    \/ selection.transcript = Nothing
    \/ TRUE \in {SelectionMetrics(selection, max, ceiling)[f] :
                    f \in {"durationExceeded", "tokensExceeded"}}

-----------------------------------------------------------------------------
(* The page. A voice source is described, saved or staged; its selection is  *)
(* re-derived under the limit of the guidance in force.                      *)
SpeakCeiling(page) == ReferenceCeilingFor(page.finding, page.cfg)

Effective(page) ==
    IF page.source = "staged"
    THEN [page EXCEPT !.selection =
             MoveReferenceWindow(@, @.start, SpeakCeiling(page))]
    ELSE page

Unresolved == [resolved |-> FALSE]
Described == [resolved |-> TRUE, kind |-> "described"]
Referenced(reference) == [resolved |-> TRUE, kind |-> "referenced", reference |-> reference]

ResolveVoiceSpec(page) ==
    IF page.instruction = Nothing THEN Unresolved
    ELSE IF page.source = "described" THEN Described
    ELSE IF page.source = "saved"
    THEN IF page.voice.available /\ page.voice.transcript # Nothing
         THEN Referenced([source |-> "voice", voice |-> page.voice,
                          transcript |-> page.voice.transcript])
         ELSE Unresolved
    ELSE IF page.selection.transcript = Nothing THEN Unresolved
    ELSE Referenced([source |-> "staged", start |-> page.selection.start,
                     end |-> page.selection.end, transcript |-> page.selection.transcript])

(* What the page counts: the mode, and the reference's transcript and length.*)
ShownRequest(page) ==
    LET spec == ResolveVoiceSpec(page)
        base == [cfg |-> page.cfg, text |-> page.text, instruction |-> page.instruction,
                 mode |-> IF page.source = "described" THEN "design" ELSE "clone",
                 refText |-> Nothing, refDuration |-> 0]
    IN IF page.source = "staged"
       THEN [base EXCEPT !.refText = page.selection.transcript,
                         !.refDuration = page.selection.end - page.selection.start]
       ELSE IF spec.resolved /\ spec.kind = "referenced"
       THEN [base EXCEPT !.refText = page.voice.transcript,
                         !.refDuration = page.voice.duration]
       ELSE base

BlockedReason(page) ==
    U!GenerateBlockedReason(ShownRequest(page),
        [reachable |-> page.reachable, generating |-> page.generating,
         blocked |-> \/ ~ResolveVoiceSpec(page).resolved
                     \/ /\ page.source = "staged"
                        /\ SelectionBlocked(page.selection, SpeakCeiling(page),
                                            U!TokenCeilingFor("clone", page.cfg))])

ProjectSpeechRequest(page, spec) ==
    LET base == [text |-> page.text, instruction |-> page.instruction, cfg |-> page.cfg]
    IN IF spec.kind = "described" THEN base
       ELSE With(With(base, [refText |-> spec.reference.transcript]),
                 IF spec.reference.source = "voice" THEN [voice |-> spec.reference.voice]
                 ELSE [start |-> spec.reference.start, end |-> spec.reference.end,
                       recording |-> page.selection.recording])

(* The fields that have a value; an empty transcript is no field.            *)
SpeechForm(request) ==
    LET silent == IF "refText" \in DOMAIN request /\ request.refText = Nothing
                  THEN {"refText"} ELSE {}
    IN [field \in DOMAIN request \ silent |-> request[field]]

-----------------------------------------------------------------------------
(* The gateway. A window that is refused has no audio; one that is served is *)
(* cut by ffmpeg, which writes its metadata first.                           *)
UnitBytes == 1920           \* 40 ms of 16-bit samples at 24 kHz
CutWav(start, end) ==
    Wav(<<Fmt(PcmTag, 1, TargetRate, 16), List(26),
          Data((end - start) * UnitBytes, <<>>)>>, TRUE)

NoLimit(recording) == recording.duration

Window(form, file) ==
    LET finding == ParseReferenceCeiling(file)
        max == IF finding.usable THEN ReferenceSecondsFor(finding, form.cfg)
               ELSE NoLimit(form.recording)
        slice == SliceTranscript(form.recording.words, form.start, form.end)
    IN IF Accepts(form.recording, form.start, form.end, max)
       THEN [ok |-> TRUE, start |-> slice.start, end |-> slice.end,
             transcript |-> TextOf(slice.transcript), wav |-> CutWav(slice.start, slice.end)]
       ELSE Rejected

ValidPair(hasAudio, refText) == hasAudio <=> refText # Nothing

(* The template follows from the reference; its length from the WAV header.  *)
ResolveVoiceIntent(intent) ==
    LET mode == IF intent.reference THEN "clone" ELSE "design"
        header == ReadWavHeader(intent.audio)
        duration == IF intent.reference /\ header.ok
                    THEN Units(DurationSeconds(header.bytes, header)) ELSE 0
        breach == G!FindCeilingBreach(
            [mode |-> mode, cfg |-> intent.cfg, text |-> intent.text,
             instruction |-> intent.instruction, refText |-> intent.refText,
             refDuration |-> duration])
    IN IF Nothing \in {intent.text, intent.instruction} \/ breach # G!NoBreach
       THEN Rejected
       ELSE [ok |-> TRUE, mode |-> mode]

Served(form, mode, refText, span) ==
    [ok |-> TRUE, mode |-> mode, cfg |-> form.cfg, text |-> form.text,
     instruction |-> form.instruction, refText |-> refText, span |-> span]

(* POST /api/speech, up to the vendor.                                       *)
Speech(form, file) ==
    LET field(name, absent) == IF name \in DOMAIN form THEN form[name] ELSE absent
        staged == "recording" \in DOMAIN form
        saved == "voice" \in DOMAIN form
        window == IF staged THEN Window(form, file) ELSE Rejected
        audio == IF saved THEN form.voice.wav ELSE IF staged THEN window.wav ELSE Other("none")
        refText == IF saved THEN form.voice.transcript
                   ELSE field("refText", IF staged THEN window.transcript ELSE Nothing)
        resolved == ResolveVoiceIntent(
            [text |-> form.text, instruction |-> form.instruction, cfg |-> form.cfg,
             reference |-> saved \/ staged, audio |-> audio, refText |-> refText])
    IN IF staged /\ ~window.ok THEN Rejected
       ELSE IF ~ValidPair(saved \/ staged, refText) \/ ~resolved.ok THEN Rejected
       ELSE Served(form, resolved.mode, refText,
                   IF staged THEN <<window.start, window.end>>
                   ELSE IF saved THEN <<0, form.voice.length>> ELSE <<0, 0>>)

(* What the page would have the gateway speak.                               *)
Pressed(page) ==
    Speech(SpeechForm(ProjectSpeechRequest(page, ResolveVoiceSpec(page))), page.file)
=============================================================================
