------------------------------ MODULE DraftGate ------------------------------
(* The browser's own copy of the ceilings (src/ui/src/state/draft.ts): what  *)
(* disables Generate, and why. The shapes, the scale and the units are those *)
(* of Ceilings.                                                              *)
EXTENDS Integers

Empty == [cjk |-> 0, other |-> 0, words |-> 0, punct |-> 0]
Greater(x, y) == IF x < y THEN y ELSE x

Spaced(a, b) ==
    IF a = Empty \/ b = Empty THEN IF a = Empty THEN b ELSE a
    ELSE [field \in DOMAIN a |-> a[field] + b[field] + IF field = "other" THEN 1 ELSE 0]

EstimateTokens(t) ==
    LET latin == Greater(t.other * 5, t.words * 22 + t.punct * 20)
    IN (t.cjk * 40 + latin + 19) \div 20

TextEncoderBatch(mode, cfg) == (IF mode = "design" THEN 1 ELSE 2) * (IF cfg = 1 THEN 1 ELSE 2)
BackboneBatch(cfg) == IF cfg = 1 THEN 1 ELSE 2
CeilingByBatch(batch) == IF batch = 1 THEN 256 ELSE 512

TokenCeilingFor(mode, cfg) ==
    LET encoder == CeilingByBatch(TextEncoderBatch(mode, cfg))
        backbone == CeilingByBatch(BackboneBatch(cfg))
    IN IF encoder < backbone THEN encoder ELSE backbone

\* mutant: the instruction is not counted
SpokenAlone(r) == EstimateTokens(r.text) + 8

SpokenTokens(r) == EstimateTokens(Spaced(r.instruction, r.text)) + 8

TranscriptTokens(r) == IF r.refText = Empty THEN 0 ELSE EstimateTokens(r.refText) + 8
AudioTokens(r) == IF r.refText = Empty THEN 0 ELSE (Greater(0, r.refDuration) + 1) \div 2 + 1

(* The reasons in the order the code asks; "none" enables the button. A gate *)
(* is the request with what the page knows: whether the gateway answers,     *)
(* whether this page is generating, and what the voice source still needs.   *)
GenerateBlockedReason(r, gate) ==
    LET encoder == CeilingByBatch(TextEncoderBatch(r.mode, r.cfg))
        spoken == SpokenTokens(r)
        transcript == TranscriptTokens(r)
    IN CASE ~gate.reachable -> "gateway"
         [] gate.reachable /\ gate.generating -> "generating"
         [] OTHER ->
            IF r.text = Empty THEN "text"
            ELSE IF spoken > encoder \/ transcript > encoder THEN "encoder"
            ELSE IF spoken + transcript + AudioTokens(r) > CeilingByBatch(BackboneBatch(r.cfg))
                 THEN "backbone"
            ELSE IF gate.blocked THEN "voice" ELSE "none"
=============================================================================
