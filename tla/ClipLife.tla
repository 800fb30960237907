------------------------------- MODULE ClipLife -------------------------------
(* What a kill of the gateway may do to a cached clip (cache.ts), for those  *)
(* who do not look into files. A clip is kept, and leaves when it is deleted *)
(* or evicted; then it is gone. A kill loses no clip that is kept, and keeps *)
(* one that is only about to leave; of a clip being written it keeps all or  *)
(* nothing. An id that was drawn for one speech is never kept again. Nothing *)
(* is promised of a clip on which two operations met, or of which the disk   *)
(* refused an unlink, a read or the last writes.                             *)
EXTENDS Naturals
CONSTANTS Once,      \* ids drawn for one speech
          Again      \* ids of script cues, written again
VARIABLES life, kills

Stages == {"none", "kept", "leaving", "gone", "disputed"}
Gone(id) == IF id \in Once THEN "gone" ELSE "none"

Working(id, from, to) ==
    \/ to = from
    \/ from = "none" /\ to \in {"kept", "leaving", Gone(id)}
    \/ from = "kept" /\ to = "leaving"
    \/ from = "leaving" /\ to = Gone(id)
    \/ to = "disputed"

Killed(id, from, to) ==
    \/ to = from /\ from # "leaving"
    \/ from = "none" /\ to \in {"kept", Gone(id)}
    \/ from = "leaving" /\ to = "kept"

LifeInit == life = [id \in Once \cup Again |-> "none"] /\ kills = 0

LifeNext ==
    /\ life' \in [Once \cup Again -> Stages]
    /\ \/ kills' = kills /\ \A id \in Once \cup Again : Working(id, life[id], life'[id])
       \/ kills' = kills + 1 /\ \A id \in Once \cup Again : Killed(id, life[id], life'[id])

LifeSpec == LifeInit /\ [][LifeNext]_<<life, kills>>
=============================================================================
