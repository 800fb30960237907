------------------------------- MODULE Ceilings -------------------------------
(* The input-length ceilings of the gateway (src/gateway/src/script.ts): the *)
(* graphs of the inference service are captured for fixed shapes, and a      *)
(* request past the widest one gets no audio at all, so it is refused first. *)
(*                                                                           *)
(* A text is its shape: how many code points are CJK and how many are not    *)
(* (spaces included, once trimmed), its runs of letters and its punctuation. *)
(* The guidance scale is 1, the unbranched graph, or 2, any other value. A   *)
(* duration counts units of 40 ms, two of them to a token of audio.          *)
EXTENDS Integers

Nothing == [cjk |-> 0, other |-> 0, words |-> 0, punct |-> 0]
Larger(x, y) == IF x < y THEN y ELSE x
Smaller(x, y) == IF x < y THEN x ELSE y
CeilDiv(x, y) == (x + y - 1) \div y

(* `${a} ${b}`, trimmed.                                                     *)
Joined(a, b) ==
    IF a = Nothing THEN b ELSE IF b = Nothing THEN a
    ELSE [cjk |-> a.cjk + b.cjk, other |-> a.other + b.other + 1,
          words |-> a.words + b.words, punct |-> a.punct + b.punct]

(* Two tokens a CJK character; the rest at four characters a token, or 1.1 a *)
(* word and one a punctuation mark where that is more.                       *)
EstimateTokens(t) ==
    CeilDiv(40 * t.cjk + Larger(5 * t.other, 22 * t.words + 20 * t.punct), 20)

TextReserve == 8
AudioReserve == 1
Ceiling256 == 256
Ceiling512 == 512

Segments(mode) == IF mode = "design" THEN 1 ELSE 2
Branches(cfg) == IF cfg = 1 THEN 1 ELSE 2
TextEncoderBatch(mode, cfg) == Segments(mode) * Branches(cfg)
BackbonePrefillBatch(cfg) == Branches(cfg)
CeilingByBatch(batch) == IF batch = 1 THEN Ceiling256 ELSE Ceiling512
TokenCeilingFor(mode, cfg) ==
    Smaller(CeilingByBatch(TextEncoderBatch(mode, cfg)),
            CeilingByBatch(BackbonePrefillBatch(cfg)))

AudioTokens(duration) == CeilDiv(Larger(0, duration), 2) + AudioReserve

(* A request: mode, cfg, instruction and text, and, where refText is not     *)
(* empty, the transcript and the duration of its reference.                  *)
Spoken(r) == EstimateTokens(Joined(r.instruction, r.text)) + TextReserve
Transcript(r) == IF r.refText = Nothing THEN 0 ELSE EstimateTokens(r.refText) + TextReserve
Audio(r) == IF r.refText = Nothing THEN 0 ELSE AudioTokens(r.refDuration)

HalfAtFault(r) ==
    IF EstimateTokens(r.instruction) > EstimateTokens(r.text) THEN "instruction" ELSE "text"

NoBreach == [field |-> "none", stage |-> "none", tokens |-> 0, ceiling |-> 0]

(* The padded longest segment against the text encoder, then all of the      *)
(* prompt together against the backbone.                                     *)
FindCeilingBreach(r) ==
    LET spoken == Spoken(r)
        transcript == Transcript(r)
        encoder == CeilingByBatch(TextEncoderBatch(r.mode, r.cfg))
        worst == IF transcript > spoken
                 THEN [field |-> "transcript", tokens |-> transcript]
                 ELSE [field |-> HalfAtFault(r), tokens |-> spoken]
        backbone == CeilingByBatch(BackbonePrefillBatch(r.cfg))
        reference == transcript + Audio(r)
    IN IF worst.tokens > encoder
       THEN [field |-> worst.field, stage |-> "text-encoder",
             tokens |-> worst.tokens, ceiling |-> encoder]
       ELSE IF spoken + reference <= backbone THEN NoBreach
       ELSE [field |-> IF reference > spoken THEN "reference" ELSE HalfAtFault(r),
             stage |-> "backbone-prefill",
             tokens |-> spoken + reference, ceiling |-> backbone]

(* What the refusal advises: shortening the named field, or raising CFG too. *)
CeilingRefusal(breach, mode) ==
    [field |-> breach.field,
     raiseCfg |-> /\ breach.ceiling = Ceiling256
                  /\ breach.stage = "backbone-prefill" \/ mode = "design"]

(* A line of a script: its template follows from its voice, and its          *)
(* reference from the library, which may know the voice no longer.           *)
CueMode(cue) == IF cue.voice = "none" THEN "design" ELSE "clone"

CueCeilingInput(cue, profiles) ==
    LET known == cue.voice \in DOMAIN profiles
    IN [mode |-> CueMode(cue), cfg |-> cue.cfg, text |-> cue.text,
        instruction |-> cue.instruction,
        refText |-> IF known THEN profiles[cue.voice].transcript ELSE Nothing,
        refDuration |-> IF known THEN profiles[cue.voice].duration ELSE 0]
=============================================================================
