------------------------------ MODULE VoiceLife ------------------------------
(* The life of a voice, for those who only hear of it from the gateway       *)
(* (voices.ts): it is created, deleted and had back, and what is gone stays  *)
(* gone. A creation that comes to nothing ends as a purge does: its id is    *)
(* never used again. So does a voice that was never deleted and that a       *)
(* restart cannot read: killed in the middle of a rewrite of its sidecar,    *)
(* or left without a transcript. One event of the gateway may decide of      *)
(* several voices, since a kill cuts all its handlers short.                 *)
CONSTANT Ids
VARIABLE life

Course == {<<"unborn", "live">>, <<"unborn", "purged">>, <<"live", "deleted">>,
           <<"live", "purged">>, <<"deleted", "live">>, <<"deleted", "purged">>}

LifeInit == life \in [Ids -> {"unborn", "live"}]

LifeNext ==
    /\ life' \in [Ids -> {"unborn", "live", "deleted", "purged"}]
    /\ \A id \in Ids : life'[id] = life[id] \/ <<life[id], life'[id]>> \in Course

LifeSpec == LifeInit /\ [][LifeNext]_life
=============================================================================
