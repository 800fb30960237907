---------------------------- MODULE MCVoiceStore ----------------------------
(* Handlers and ids are interchangeable. *)
EXTENDS VoiceStore, TLC

AnyHandler == Permutations(Requests) \cup Permutations(VoiceIds)

(* At most one voice is disturbed: one that is has no more to say of it but  *)
(* that its recording is there.                                              *)
OneDisturbed == Cardinality(disturbed) <= 1
=============================================================================
