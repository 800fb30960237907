------------------------------ MODULE ScriptFile ------------------------------
(* A script from the file it is dropped as to the files it is exported as    *)
(* (src/gateway/src/script.ts): import, the reflow of long lines, and the    *)
(* two exports.                                                              *)
(*                                                                           *)
(* A clip id hashes what is spoken, with which voice and seed: the triple    *)
(* stands for it. Every cue inherits the script's instruction and guidance.  *)
EXTENDS Vtt

NoVoice == "none"
ClipIdFor(text, voice, seed) == <<text, voice, seed>>

(* What the seed of a cue follows from when it has none of its own.          *)
SeedAt(defaults, index) ==
    defaults.seed + IF defaults.seedMode = "increment" THEN index - 1 ELSE 0

Materialized(defaults, cue, index) ==
    LET seed == SeedAt(defaults, index)
    IN [cue EXCEPT !.voice = defaults.voice, !.cfg = defaults.cfg,
                   !.instruction = defaults.instruction, !.seed = seed,
                   !.clip = ClipIdFor(cue.text, defaults.voice, seed)]

(* Whether a text fits with the cue's settings and its voice's reference.    *)
Fits(cue, profiles, text) == FitsAs(CueCeilingInput(cue, profiles), text)

NewCue(defaults, cue, index) ==
    Materialized(defaults,
        [id |-> <<"cue", index>>, text |-> cue.text, start |-> cue.start, end |-> cue.end,
         voice |-> NoVoice, cfg |-> 1, instruction |-> Nothing, seed |-> 0,
         clip |-> <<>>, state |-> "queued"], index)

Parts(cue, chunks) == [p \in DOMAIN chunks |-> [cue EXCEPT !.text = chunks[p]]]

(* Timed cues keep their boundaries; a plain line is divided.                *)
PrepareImportedCues(cues, format, defaults, profiles) ==
    LET asked == CueCeilingInput(NewCue(defaults, Cue(<<>>, NoTime, NoTime), 1), profiles)
        parts(cue) == Parts(cue, ChunkText(cue.text, asked))
    IN IF format = "vtt" THEN cues ELSE FlattenSeq([i \in DOMAIN cues |-> parts(cues[i])])

NewCues(defaults, cues) == [i \in DOMAIN cues |-> NewCue(defaults, cues[i], i)]

NewScript(parsed, defaults, profiles) ==
    [source |-> parsed.format, defaults |-> defaults, problems |-> parsed.problems,
     cues |-> NewCues(defaults,
                      PrepareImportedCues(parsed.cues, parsed.format, defaults, profiles))]

ImportFile(lines, named, defaults, profiles) ==
    NewScript(ParseScriptFile(lines, named), defaults, profiles)

\* mutant: every part is a cue of its own, the first one included
ReflowedAnew(cue, chunks) ==
    [p \in DOMAIN chunks |->
        [cue EXCEPT !.id = <<"part", cue.id, p>>, !.text = chunks[p], !.state = "queued"]]

(* A cue of one chunk is itself; the parts of another wait to be run.        *)
Reflowed(cue, chunks) ==
    IF Len(chunks) = 1 THEN <<cue>>
    ELSE [p \in DOMAIN chunks |->
             [cue EXCEPT !.id = IF p = 1 THEN cue.id ELSE <<"part", cue.id, p>>,
                         !.text = chunks[p], !.state = "queued"]]

WithCues(script, cues) ==
    [script EXCEPT !.cues = [i \in DOMAIN cues |-> Materialized(script.defaults, cues[i], i)]]

(* The reflow when a reference or a setting has narrowed what fits.          *)
RechunkPlainText(script, profiles) ==
    LET current == WithCues(script, script.cues).cues
        chunks(cue) == ChunkText(cue.text, CueCeilingInput(cue, profiles))
        next == [i \in DOMAIN current |-> Reflowed(current[i], chunks(current[i]))]
    IN IF script.source # "text" THEN script ELSE WithCues(script, FlattenSeq(next))

(* Every script the store holds, when the gateway starts.                    *)
RechunkAll(scripts, profiles) == {RechunkPlainText(s, profiles) : s \in scripts}

-----------------------------------------------------------------------------
(* A generated cue has the lines of its text and the clip it was given.      *)
ExportVtt(cues, gap) ==
    IF \E i \in DOMAIN cues : cues[i].frames = NoTime THEN Unread
    ELSE [ok |-> TRUE, lines |-> EmitVtt(cues, gap)]

(* One WAV: the clips, and the silence between two of them.                  *)
ConcatenateScript(cues, gap) ==
    LET add(n, cue) == IF n = NoTime THEN cue.frames ELSE n + gap + cue.frames
    IN IF cues = <<>> \/ \E i \in DOMAIN cues : cues[i].frames = NoTime THEN Unread
       ELSE [ok |-> TRUE, frames |-> FoldLeft(add, NoTime, cues)]
=============================================================================
