------------------------------ MODULE PcmFifo ------------------------------
(***************************************************************************)
(* What the buffer between the network and the audio callback promises: a  *)
(* bounded queue.  Samples leave in the order they came, each at most      *)
(* once; only a full queue loses one, and then its oldest; an empty queue  *)
(* is silence, never a repeated sample; the end is announced once, when    *)
(* nothing is left to play.                                                *)
(***************************************************************************)
EXTENDS Naturals, Sequences

CONSTANTS Samples, Silence, Capacity

VARIABLES
    held,    \* samples waiting, oldest first
    heard,   \* what the last output frame carried
    ended,   \* no more samples will come
    alive    \* the end has not been announced

vars == <<held, heard, ended, alive>>

Init == held = <<>> /\ heard = Silence /\ ended = FALSE /\ alive = TRUE

Push(s) ==
    /\ held' = Append(IF Len(held) < Capacity THEN held ELSE Tail(held), s)
    /\ UNCHANGED <<heard, ended, alive>>

Pop ==
    /\ alive /\ held # <<>>
    /\ heard' = Head(held) /\ held' = Tail(held)
    /\ UNCHANGED <<ended, alive>>

Hold ==
    /\ alive /\ held = <<>>
    /\ heard' = Silence
    /\ UNCHANGED <<held, ended, alive>>

End == ended' = TRUE /\ UNCHANGED <<held, heard, alive>>

Clear == held' = <<>> /\ ended' = FALSE /\ UNCHANGED <<heard, alive>>

Drain ==
    /\ alive /\ ended /\ held = <<>>
    /\ alive' = FALSE
    /\ UNCHANGED <<held, heard, ended>>

Next == (\E s \in Samples : Push(s)) \/ Pop \/ Hold \/ End \/ Clear \/ Drain

Spec == Init /\ [][Next]_vars
=============================================================================
