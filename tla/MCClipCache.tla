----------------------------- MODULE MCClipCache -----------------------------
(* Constants that a cfg cannot write down. *)
EXTENDS ClipCache, TLC
CONSTANTS c1, c2, c3

(* a short clip and a long one, and two short ones and a long one: with a  *)
(* limit of 2, one write makes room for another by evicting one or two     *)
ShortLong == [id \in Ids |-> IF id = c1 THEN 1 ELSE 2]
TwoShort  == [id \in Ids |-> IF id = c3 THEN 2 ELSE 1]

AnyWriter == Permutations(Writers)
=============================================================================
