------------------------------ MODULE Playback ------------------------------
(***************************************************************************)
(* The single owner of audible output (player.ts PlaybackOwner) and the    *)
(* sources it owns: a streaming player with its audio graph, the buffered  *)
(* player it falls back to, and the element of a cached clip.              *)
(*                                                                         *)
(* A call of play, playCached or stop first silences the current source.   *)
(* It parks there only if that source has an open context to close;        *)
(* otherwise it goes on in the same turn.  Any other call may begin while  *)
(* one is parked.  A source is named by the call that made it.             *)
(***************************************************************************)
EXTENDS Naturals, FiniteSets

CONSTANTS
    Calls,      \* calls of the owner, each made at most once
    Kinds,      \* the kinds of call that may be made
    Nobody      \* nothing is owned, nothing is awaited

ASSUME PlaybackAssumption ==
    /\ Kinds \subseteq {"stream", "wav", "cached", "stop"}
    /\ Nobody \notin Calls

VARIABLES
    current,    \* PlaybackOwner.#current
    pc,         \* where each call is parked
    kind,       \* what it was asked for
    awaited,    \* the source whose stop() it awaits
    source,     \* the source each call made
    joined      \* ghost: calls that met while one of them was silencing

vars == <<current, pc, kind, awaited, source, joined>>

(* "context" is the audio context itself, "holds" that the player still    *)
(* refers to it.  "early" is a ghost: stopped before it could sound.       *)
Source == [context : {"none", "open", "closing", "closed"}, holds : BOOLEAN,
           node : BOOLEAN, element : BOOLEAN, early : BOOLEAN]

NoSource == [context |-> "none", holds |-> FALSE, node |-> FALSE, element |-> FALSE, early |-> FALSE]

Sounds(s) == source[s].element \/ (source[s].node /\ source[s].context = "open")

Init ==
    /\ current = Nobody
    /\ pc = [c \in Calls |-> "uncalled"]
    /\ kind \in [Calls -> Kinds]
    /\ awaited = [c \in Calls |-> Nobody]
    /\ source = [c \in Calls |-> NoSource]
    /\ joined = {}
-----------------------------------------------------------------------------
(* #releaseGraph: the node is disconnected, and a context the player still *)
(* refers to is closed, once.                                              *)
Released(s) == [s EXCEPT !.node = FALSE, !.holds = FALSE,
                         !.context = IF s.holds THEN "closing" ELSE @]

(* mutant: the graph is left open *)
StoppedPaused(s, unfinished) == [s EXCEPT !.element = FALSE, !.node = FALSE, !.early = @ \/ unfinished]

(* stop() of a player, pause() of a cached element *)
Stopped(s, unfinished) == [Released(s) EXCEPT !.element = FALSE, !.early = @ \/ unfinished]

(* the source stopped is still to come *)
Unfinished(c) == pc[c] \in {"loading", "closing", "fetching"}

Autoplay(s, plays) == [s EXCEPT !.element = plays]

(* After the silence: the call's own source.  A declaration that cannot be *)
(* played is refused before a context exists; an element may be refused by *)
(* the autoplay policy.  s is the table of sources after the silence.      *)
Start(c, s) ==
    \/ /\ kind[c] = "stop"
       /\ pc' = [pc EXCEPT ![c] = "over"]
       /\ source' = s
    \/ /\ kind[c] = "stream"
       /\ \/ pc' = [pc EXCEPT ![c] = "over"] /\ source' = s
          \/ /\ pc' = [pc EXCEPT ![c] = "loading"]
             /\ source' = [s EXCEPT ![c].context = "open", ![c].holds = TRUE]
    \/ /\ kind[c] = "wav"
       /\ pc' = [pc EXCEPT ![c] = "fetching"]
       /\ source' = s
    \/ /\ kind[c] = "cached"
       /\ pc' = [pc EXCEPT ![c] = "over"]
       /\ \E plays \in BOOLEAN : source' = [s EXCEPT ![c].element = plays]

Owner(c) == IF kind[c] = "stop" THEN Nobody ELSE c

Silencing == {d \in Calls : pc[d] = "silencing"}

Joined(c) == IF Silencing = {} THEN joined ELSE joined \cup Silencing \cup {c}

(* mutant: nothing is silenced *)
CallUnsilenced(c) ==
    /\ pc[c] = "uncalled"
    /\ joined' = Joined(c)
    /\ Start(c, source) /\ current' = Owner(c)
    /\ UNCHANGED <<kind, awaited>>

(* play(), playCached() or stop(): #silence, and the rest unless it parks *)
Call(c) ==
    /\ pc[c] = "uncalled"
    /\ joined' = Joined(c)
    /\ IF current = Nobody
       THEN Start(c, source) /\ current' = Owner(c) /\ UNCHANGED awaited
       ELSE LET silenced == [source EXCEPT ![current] = Stopped(@, Unfinished(current))]
            IN  IF source[current].holds
                THEN /\ pc' = [pc EXCEPT ![c] = "silencing"]
                     /\ awaited' = [awaited EXCEPT ![c] = current]
                     /\ current' = Nobody /\ source' = silenced
                ELSE Start(c, silenced) /\ current' = Owner(c) /\ UNCHANGED awaited
    /\ UNCHANGED kind

(* the context awaited has closed *)
Resume(c) ==
    /\ pc[c] = "silencing" /\ source[awaited[c]].context = "closed"
    /\ Start(c, source)
    /\ current' = IF kind[c] = "stop" THEN current ELSE c
    /\ awaited' = [awaited EXCEPT ![c] = Nobody]
    /\ UNCHANGED <<kind, joined>>
-----------------------------------------------------------------------------
Goes(c, place, s) ==
    /\ pc' = [pc EXCEPT ![c] = place]
    /\ source' = [source EXCEPT ![c] = s]
    /\ UNCHANGED <<current, kind, awaited, joined>>

(* the module is loaded and the node made: the body is read into it *)
WorkletReady(c) ==
    /\ pc[c] = "loading"
    /\ Goes(c, "reading", [source[c] EXCEPT !.node = TRUE])

(* mutant: a context that stop() has taken is awaited *)
FallBackAwaits(c) ==
    /\ pc[c] = "loading"
    /\ Goes(c, "closing", Released(source[c]))

(* no worklet, or no node: the graph is released, then the body buffered *)
FallBack(c) ==
    /\ pc[c] = "loading"
    /\ Goes(c, IF source[c].holds THEN "closing" ELSE "fetching", Released(source[c]))

(* the response has no body: released by the catch of play() *)
NoBody(c) ==
    /\ pc[c] = "loading"
    /\ Goes(c, "over", Released(source[c]))

Closed(s) ==
    /\ source[s].context = "closing"
    /\ Goes(s, IF pc[s] = "closing" THEN "fetching" ELSE pc[s], [source[s] EXCEPT !.context = "closed"])

(* the body ends or breaks; the worklet plays out what it has *)
ReadEnds(c) == pc[c] = "reading" /\ Goes(c, "over", source[c])

(* the body is whole: an element is made of it and played *)
Fetched(c) ==
    /\ pc[c] = "fetching"
    /\ \E plays \in BOOLEAN : Goes(c, "over", Autoplay(source[c], plays))

FetchBreaks(c) == pc[c] = "fetching" /\ Goes(c, "over", Released(source[c]))

(* a source comes to its end by itself; its context stays open *)
PlaysOut(s) ==
    /\ pc[s] = "over" /\ Sounds(s)
    /\ Goes(s, "over", [source[s] EXCEPT !.element = FALSE, !.node = FALSE])
-----------------------------------------------------------------------------
Loads(c) == WorkletReady(c) \/ FallBack(c) \/ NoBody(c)

Next == \E c \in Calls :
    \/ Call(c) \/ Resume(c) \/ Loads(c) \/ Closed(c)
    \/ ReadEnds(c) \/ Fetched(c) \/ FetchBreaks(c) \/ PlaysOut(c)

Spec == Init /\ [][Next]_vars

(* The browser closes a context it was asked to close, loads a module or   *)
(* refuses it, and a body ends or breaks.                                  *)
FairSpec ==
    /\ Spec
    /\ \A c \in Calls :
        /\ WF_vars(Resume(c)) /\ WF_vars(Loads(c)) /\ WF_vars(Closed(c))
        /\ WF_vars(ReadEnds(c)) /\ WF_vars(Fetched(c) \/ FetchBreaks(c))
-----------------------------------------------------------------------------
(* Every variable has its type, and a player refers only to a context that *)
(* it has not begun to close.                                              *)
TypeOK ==
    /\ current \in Calls \cup {Nobody}
    /\ pc \in [Calls -> {"uncalled", "silencing", "loading", "closing", "fetching", "reading", "over"}]
    /\ kind \in [Calls -> Kinds]
    /\ awaited \in [Calls -> Calls \cup {Nobody}]
    /\ source \in [Calls -> Source]
    /\ \A s \in Calls : source[s].holds => source[s].context = "open"
    /\ joined \subseteq Calls

(* What sounds is what the owner would silence (PlaybackOwner), unless the *)
(* call raced the silence of another one, or its source was told to stop   *)
(* before it had anything to stop.                                         *)
OwnedUnlessRaced == \A s \in Calls : Sounds(s) => s = current \/ s \in joined \/ source[s].early

(* An open context, a resource of the machine, is one the next silence     *)
(* will close (StreamingPlayer.#releaseGraph).                             *)
GraphsReleased ==
    \A s \in Calls : source[s].context = "open" => source[s].holds /\ (s = current \/ s \in joined)

(* A player that was stopped while its worklet was loading stays silent    *)
(* unless it fell back to an element.                                      *)
StoppedGraphSilent == \A s \in Calls : source[s].early /\ Sounds(s) => source[s].element

(* Why it is so: a source that is still to come is owned, joined or told   *)
(* to stop, and whoever owns the output while another call is silencing    *)
(* has met it.                                                             *)
UnbornHasNoSource == \A c \in Calls : pc[c] \in {"uncalled", "silencing"} => source[c] = NoSource

UnfinishedIsOwned ==
    \A c \in Calls : Unfinished(c) => c = current \/ c \in joined \/ source[c].early

SilencersJoined ==
    \A c \in Silencing :
        /\ current # Nobody => current \in joined
        /\ \A d \in Silencing : c # d => c \in joined

EarlyHoldsNothing == \A c \in Calls : source[c].early => ~ source[c].holds

OwnerHasBegun == current # Nobody => pc[current] \notin {"uncalled", "silencing"}

IInv ==
    /\ TypeOK /\ OwnedUnlessRaced /\ GraphsReleased /\ StoppedGraphSilent
    /\ UnbornHasNoSource /\ UnfinishedIsOwned /\ SilencersJoined /\ EarlyHoldsNothing
    /\ OwnerHasBegun

(* Every call settles: no silence waits for a context nobody closes. *)
CallsSettle == \A c \in Calls : pc[c] # "uncalled" ~> pc[c] = "over"

(* App.tsx: a second source can never join the first.  Players stopped     *)
(* before they could sound are StopIsSilence.                              *)
OneSource ==
    \A s, t \in Calls : Sounds(s) /\ Sounds(t) /\ ~ source[s].early /\ ~ source[t].early => s = t

(* player.ts: stop() silences "whatever is playing".  So once every call   *)
(* has settled and the owner owns nothing, nothing sounds.                 *)
StopIsSilence ==
    (\A c \in Calls : pc[c] \in {"uncalled", "over"}) /\ current = Nobody
        => \A s \in Calls : ~ Sounds(s)
=============================================================================
