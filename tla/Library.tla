-------------------------------- MODULE Library --------------------------------
(* The voice library as one browser shows it (ui/src/App.tsx,                *)
(* ui/src/state/voices.ts, workspace.ts): a list that is changed before the  *)
(* gateway has answered, an undo strip that lasts as long as the gateway's   *)
(* undo window, and the voice the Speak draft names. The gateway's side is   *)
(* kept as what each voice is there; VoiceStore has its files and handlers.  *)
(*                                                                           *)
(* Voices are numbered in the order they were made, which is the order of    *)
(* the list, newest first.                                                   *)
EXTENDS Naturals, FiniteSets, FiniteSetsExt

CONSTANTS
    MaxVoices,
    Calls,      \* bound on the calls about voices open at once
    MaxOthers,  \* bound on what other viewers do
    NoVoice

ASSUME LibraryAssumption ==
    /\ MaxVoices \in Nat \ {0} /\ MaxOthers \in Nat
    /\ IsFiniteSet(Calls) /\ Calls # {} /\ NoVoice \notin Nat

Voices == 1..MaxVoices

VARIABLES
    held,     \* what each voice is on the gateway
    list,     \* the voices shown
    undo,     \* the voice of the undo strip
    call,     \* the calls this browser has open
    pick,     \* the Speak draft's voice: described, a saved one, or a saved none
    selected, \* selectedVoiceId
    chosen,   \* ghost: the voice the operator last put into Speak by hand
    others,   \* what other viewers have done
    blurred   \* ghost: voices of which the list may be wrong, for a named reason

library == <<held, list, undo, call, pick, selected, chosen, others, blurred>>

Described == [kind |-> "described", voice |-> NoVoice]
Saved(v) == [kind |-> "saved", voice |-> v]

NoCall == [op |-> "none", at |-> "none", voice |-> NoVoice, seen |-> {}, touched |-> {}]

LibraryTypeOK ==
    /\ held \in [Voices -> {"unborn", "live", "deleted", "purged"}]
    /\ list \subseteq Voices /\ blurred \subseteq Voices
    /\ undo \in Voices \cup {NoVoice} /\ selected \in Voices \cup {NoVoice}
    /\ chosen \in Voices \cup {NoVoice}
    /\ pick \in {Described} \cup {Saved(v) : v \in Voices \cup {NoVoice}}
    /\ call \in [Calls -> [op : {"none", "delete", "restore", "list"},
                           at : {"none", "sent", "done", "missing", "failed"},
                           voice : Voices \cup {NoVoice},
                           seen : SUBSET Voices, touched : SUBSET Voices]]
    /\ others \in Nat

Live == {v \in Voices : held[v] = "live"}
Open(c) == call[c].op # "none"
Busy(v) == \E c \in Calls : Open(c) /\ call[c].voice = v
AtRest == \A c \in Calls : ~ Open(c)

LibraryInit ==
    /\ \E n \in 0..MaxVoices :
         held = [v \in Voices |-> IF v <= n THEN "live" ELSE "unborn"]
    /\ list = {} /\ undo = NoVoice
    /\ call = [c \in Calls |-> NoCall]
    /\ pick = Described /\ selected = NoVoice /\ chosen = NoVoice
    /\ others = 0 /\ blurred = Voices

-----------------------------------------------------------------------------
(* A change of v, seen by the list calls on their way.                       *)
Touch(calls, vs) ==
    [c \in Calls |-> IF calls[c].op = "list" THEN [calls[c] EXCEPT !.touched = @ \cup vs]
                     ELSE calls[c]]

Send(c, op, v, seen) ==
    LET begun == [NoCall EXCEPT !.op = op, !.at = "sent", !.voice = v, !.seen = seen]
    IN  /\ ~ Open(c)
        /\ call' = Touch([call EXCEPT ![c] = begun], {v})
        /\ blurred' = IF Busy(v) \/ (op = "restore" /\ v \in list) THEN blurred \cup {v}
                      ELSE blurred

(* refreshVoices, at every load of the console and after a voice is kept or  *)
(* renamed.                                                                  *)
Refresh(c) ==
    /\ ~ Open(c)
    /\ call' = [call EXCEPT ![c] =
                  [NoCall EXCEPT !.op = "list", !.at = "sent",
                                 !.touched = {v \in Voices : Busy(v)}]]
    /\ UNCHANGED <<held, list, undo, pick, selected, chosen, others, blurred>>

(* deleteVoice: applyDelete at once; the list it replaced goes with the call.*)
Delete(c, v) ==
    /\ v \in list
    /\ Send(c, "delete", v, list)
    /\ list' = list \ {v} /\ undo' = v
    /\ UNCHANGED <<held, pick, selected, chosen, others>>

(* undoDelete: applyUndo at once.                                            *)
Undo(c) ==
    /\ undo # NoVoice
    /\ Send(c, "restore", undo, {})
    /\ list' = list \cup {undo} /\ undo' = NoVoice
    /\ UNCHANGED <<held, pick, selected, chosen, others>>

(* The timer of the undo window.                                             *)
UndoCloses ==
    /\ undo # NoVoice /\ undo' = NoVoice
    /\ UNCHANGED <<held, list, call, pick, selected, chosen, others, blurred>>

-----------------------------------------------------------------------------
(* The gateway's handlers; any call may also fail, before or after it was    *)
(* handled.                                                                  *)
Handle(c) ==
    LET v == call[c].voice
        gone == v # NoVoice /\ held[v] = "purged"
        after == IF call[c].op = "delete" THEN "deleted" ELSE "live"
    IN  /\ call[c].at = "sent"
        /\ held' = IF v = NoVoice \/ gone THEN held ELSE [held EXCEPT ![v] = after]
        /\ call' = [call EXCEPT ![c].at = IF gone THEN "missing" ELSE "done",
                                ![c].seen = IF v = NoVoice THEN Live ELSE @]
        /\ UNCHANGED <<list, undo, pick, selected, chosen, others, blurred>>

Fail(c) ==
    /\ call[c].at \in {"sent", "done"}
    /\ call' = [call EXCEPT ![c].at = "failed"]
    /\ blurred' = IF call[c].at = "done" /\ call[c].voice # NoVoice
                  THEN blurred \cup {call[c].voice} ELSE blurred
    /\ UNCHANGED <<held, list, undo, pick, selected, chosen, others>>

TakeList(c) ==
    /\ call[c].op = "list" /\ call[c].at \in {"done", "failed"}
    /\ call' = [call EXCEPT ![c] = NoCall]
    /\ IF call[c].at = "done" THEN list' = call[c].seen /\ blurred' = call[c].touched
                              ELSE UNCHANGED <<list, blurred>>
    /\ UNCHANGED <<held, undo, pick, selected, chosen, others>>

Difference(s, t) == (s \ t) \cup (t \ s)

\* mutants: a failed delete keeps its voice off the list; a refused one keeps its strip
TakeDeleteGone(c) ==
    /\ call[c].op = "delete" /\ call[c].at \in {"done", "missing", "failed"}
    /\ call' = Touch([call EXCEPT ![c] = NoCall], {call[c].voice})
    /\ undo' = IF call[c].at = "done" THEN undo ELSE NoVoice
    /\ UNCHANGED <<held, list, pick, selected, chosen, others, blurred>>

TakeDeleteKept(c) ==
    /\ call[c].op = "delete" /\ call[c].at \in {"done", "missing"}
    /\ call' = Touch([call EXCEPT ![c] = NoCall], {call[c].voice})
    /\ UNCHANGED <<held, list, undo, pick, selected, chosen, others, blurred>>

(* The answer to a delete. One that failed puts back the list as it was when *)
(* it was pressed, and takes the strip away, whichever voice it names.       *)
TakeDelete(c) ==
    /\ call[c].op = "delete" /\ call[c].at \in {"done", "missing", "failed"}
    /\ call' = Touch([call EXCEPT ![c] = NoCall], {call[c].voice})
    /\ undo' = IF call[c].at = "done" THEN undo ELSE NoVoice
    /\ IF call[c].at = "failed"
       THEN /\ list' = call[c].seen
            /\ blurred' = blurred \cup (Difference(list, call[c].seen) \ {call[c].voice})
       ELSE UNCHANGED <<list, blurred>>
    /\ UNCHANGED <<held, pick, selected, chosen, others>>

(* The answer to a restore.                                                  *)
TakeRestore(c) ==
    /\ call[c].op = "restore" /\ call[c].at \in {"done", "missing", "failed"}
    /\ call' = [call EXCEPT ![c] = NoCall]
    /\ list' = IF call[c].at = "done" THEN list ELSE list \ {call[c].voice}
    /\ UNCHANGED <<held, undo, pick, selected, chosen, others, blurred>>

-----------------------------------------------------------------------------
(* Another viewer keeps, deletes or restores a voice.                        *)
Elsewhere(v, becomes) ==
    /\ others < MaxOthers /\ others' = others + 1
    /\ \/ held[v] = "unborn" /\ becomes = "live" /\ \A w \in 1..(v - 1) : held[w] # "unborn"
       \/ held[v] = "live" /\ becomes = "deleted"
       \/ held[v] = "deleted" /\ becomes = "live"
    /\ held' = [held EXCEPT ![v] = becomes]
    /\ call' = Touch(call, {v}) /\ blurred' = blurred \cup {v}
    /\ UNCHANGED <<list, undo, pick, selected, chosen>>

(* The gateway starts again and purges what was deleted longer ago than the  *)
(* undo window, which the strip of this browser never outlives. (The voices  *)
(* a restart loses undeleted, of which VoiceLife tells, are left out here.)  *)
PurgeDeleted(v) ==
    /\ held[v] = "deleted" /\ undo # v
    /\ held' = [held EXCEPT ![v] = "purged"]
    /\ UNCHANGED <<list, undo, call, pick, selected, chosen, others, blurred>>

-----------------------------------------------------------------------------
(* resolveAvailableSpeakVoiceSource: a saved voice that was chosen stays,    *)
(* there or not; only a draft without one takes the selected voice, or the   *)
(* newest.                                                                   *)
Fallback(voices, wanted) ==
    Saved(IF voices = {} THEN NoVoice ELSE IF wanted \in voices THEN wanted ELSE Max(voices))

\* mutant: a chosen voice that is gone is replaced too
ResolvedAnyway(source, voices, wanted) ==
    IF source.voice \in voices THEN source ELSE Fallback(voices, wanted)

Resolved(source, voices, wanted) ==
    IF source.voice # NoVoice THEN source ELSE Fallback(voices, wanted)

Effective == Resolved(pick, list, selected)

(* Every edit in Speak writes the draft as it is shown, voice and all.       *)
TypeInSpeak ==
    /\ pick' = Effective
    /\ UNCHANGED <<held, list, undo, call, selected, chosen, others, blurred>>

(* The select box and "Use in Speak".                                        *)
Choose(v, toSpeak) ==
    /\ v \in list
    /\ pick' = Saved(v) /\ chosen' = v
    /\ selected' = IF toSpeak THEN v ELSE selected
    /\ UNCHANGED <<held, list, undo, call, others, blurred>>

(* loadVariation of a clip: its voice if the library has it, else the        *)
(* fallback.                                                                 *)
LoadVariation(v) ==
    /\ IF v \in list THEN pick' = Saved(v) /\ selected' = v /\ chosen' = v
       ELSE pick' = Resolved(Described, list, selected) /\ selected' = NoVoice /\ chosen' = NoVoice
    /\ UNCHANGED <<held, list, undo, call, others, blurred>>

(* resolveVoiceSpec: what Generate would send; a voice not listed blocks it. *)
Sendable == IF Effective.voice \in list THEN Effective.voice ELSE NoVoice

-----------------------------------------------------------------------------
LibraryNext ==
    \/ \E c \in Calls :
         \/ Refresh(c) \/ Undo(c) \/ Handle(c) \/ Fail(c)
         \/ TakeList(c) \/ TakeDelete(c) \/ TakeRestore(c)
         \/ \E v \in Voices : Delete(c, v)
    \/ \E v \in Voices :
         \/ PurgeDeleted(v) \/ LoadVariation(v)
         \/ \E b \in {"live", "deleted"} : Elsewhere(v, b)
         \/ \E s \in BOOLEAN : Choose(v, s)
    \/ UndoCloses \/ TypeInSpeak

-----------------------------------------------------------------------------
(* What is shown of a voice is what the gateway holds, once every call has   *)
(* been answered: whatever was pressed, failed or was refreshed meanwhile    *)
(* (App.tsx deleteVoice, undoDelete, refreshVoices). Left aside, by name:    *)
(* voices two calls of this browser were about at once, voices somebody else *)
(* changed since the list was read, voices whose answer was lost, voices     *)
(* changed while a delete that failed was under way, and an undo of a voice  *)
(* a refresh has already brought back.                                       *)
ListIsStored ==
    /\ LibraryTypeOK
    /\ AtRest => \A v \in Voices \ blurred : v \in list <=> held[v] = "live"

(* The strip offers a restore that will work: unless its own delete is still *)
(* under way, its voice can be had back from the gateway (voices.ts restore),*)
(* and one that was purged before it was deleted here has no strip.          *)
UndoIsHonest == undo # NoVoice /\ ~ Busy(undo) => held[undo] \in {"deleted", "live"}

(* A voice chosen for Speak is never silently replaced, though it is deleted *)
(* here or elsewhere: what would be sent is that voice, or nothing.          *)
NeverSubstituted == chosen # NoVoice => Sendable \in {chosen, NoVoice}

(* What the code does not keep: the answer to one delete leaves the strip of *)
(* another alone. Two deletes, the first of which fails, take the undo of    *)
(* the second away and bring its voice back (App.tsx 986-988).               *)
OwnStrip ==
    [][\A c \in Calls :
         TakeDelete(c) /\ undo \notin {NoVoice, call[c].voice} => undo' = undo]_library

LibrarySpec == LibraryInit /\ [][LibraryNext]_library

Gateway == INSTANCE VoiceLife WITH Ids <- Voices, life <- held
=============================================================================
