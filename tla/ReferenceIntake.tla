--------------------------- MODULE ReferenceIntake ---------------------------
(* Staging a reference recording from the browser                            *)
(* (src/ui/src/components/ReferenceCapture.tsx, stageReference in App.tsx),   *)
(* composed with the store that keeps it.                                    *)
(*                                                                           *)
(* The panel is mounted and unmounted as the operator moves between sources  *)
(* and workspaces; what it awaits (the microphone permission, a recording,   *)
(* the intake) goes on, holding the props of the render it started in.       *)
EXTENDS ReferenceStore

CONSTANTS Mics          \* microphone streams the browser can open

NoMic == "no mic"

VARIABLES
    sel,        \* the draft's reference: an id or NoRef
    panel,      \* whether a panel is mounted
    staging,    \* the mounted panel's flags
    recording,
    capture,    \* the mounted panel's capture ref: a stream or NoMic
    mic,        \* mic[m]: its state and the render its press closed over
    intake,     \* intake[t]: the intake request t serves, with its closure
    owed,       \* releases sent and not yet taken up by the gateway
    stray       \* ghost: streams opened while the panel was gone or another
                \* request of it was open

uiVars == <<sel, panel, staging, recording, capture, mic,
            intake, owed, stray>>
vars == <<storeVars, uiVars>>

Refs == Ids \cup {NoRef}
Closure == [sel |-> sel, here |-> TRUE]
Off == [state |-> "off", sel |-> NoRef, here |-> FALSE]
NoIntake == [on |-> FALSE, sel |-> NoRef, here |-> FALSE]

IntakeTypeOK ==
    /\ sel \in Refs
    /\ {panel, staging, recording} \subseteq BOOLEAN
    /\ capture \in Mics \cup {NoMic}
    /\ mic \in [Mics -> [state : {"off", "asked", "live"}, sel : Refs,
                          here : BOOLEAN]]
    /\ intake \in [Tasks -> [on : BOOLEAN, sel : Refs, 
                             here : BOOLEAN]]
    /\ owed \subseteq Ids
    /\ stray \subseteq Mics

Init ==
    /\ StoreInit
    /\ sel = NoRef 
    /\ panel = TRUE
    /\ staging = FALSE /\ recording = FALSE /\ capture = NoMic
    /\ mic = [m \in Mics |-> Off]
    /\ intake = [t \in Tasks |-> NoIntake]
    /\ owed = {} /\ stray = {}

-----------------------------------------------------------------------------
(* Requests are alike: the next one takes the first place that is free.      *)
Vacant(t) == task[t].pc = "idle" /\ ~ intake[t].on
Begins(t) == Vacant(t) /\ t = CHOOSE u \in Tasks : Vacant(u)

(* accept: the file goes to the gateway; what it will replace is read here.  *)
Accept(t, from) ==
    /\ Begins(t)
    /\ Intake(t)
    /\ intake' = [intake EXCEPT ![t] = [on |-> TRUE, sel |-> from.sel,
                                        here |-> from.here]]
    /\ staging' = (staging \/ from.here)

Upload ==
    /\ panel /\ ~ staging
    /\ \E t \in Tasks : Accept(t, Closure)
    /\ UNCHANGED <<sel, panel, recording, capture, mic, owed, stray>>

(* The intake is answered: the draft takes the new reference, and the one it *)
(* replaces, as the closure remembers it, is handed back.                    *)
Adopt(t) ==
    LET id == task[t].id
        c == intake[t]
    IN /\ sel' = id
       /\ owed' = IF c.sel \notin {NoRef, id} THEN owed \cup {c.sel} ELSE owed

\* mutant: the flag is cleared only when the intake succeeds
SettledOnSuccess(t) ==
    /\ intake' = [intake EXCEPT ![t] = NoIntake]
    /\ staging' = (staging /\ ~ (intake[t].here /\ task[t].pc = "staged"))

Settled(t) ==
    /\ intake' = [intake EXCEPT ![t] = NoIntake]
    /\ staging' = (staging /\ ~ intake[t].here)

Staged(t) ==
    /\ intake[t].on /\ task[t].pc = "staged"
    /\ Answer(t) /\ Settled(t) /\ Adopt(t)
    /\ UNCHANGED <<panel, recording, capture, mic, stray>>

\* mutant: the reference to replace is handed back though nothing replaced it
StageFailsReleasing(t) ==
    /\ intake[t].on
    /\ \/ task[t].pc = "refused" /\ Answer(t)
       \/ task[t].pc = "idle" /\ UNCHANGED storeVars
       \/ phase = "loading" /\ UNCHANGED storeVars
    /\ Settled(t)
    /\ owed' = owed \cup ({intake[t].sel} \ {NoRef})
    /\ UNCHANGED <<sel, panel, recording, capture, mic, stray>>

\* Refused, or the connection broke when the gateway was killed.
StageFails(t) ==
    /\ intake[t].on
    /\ \/ task[t].pc = "refused" /\ Answer(t)
       \/ task[t].pc = "idle" /\ UNCHANGED storeVars
       \/ phase = "loading" /\ UNCHANGED storeVars
    /\ Settled(t)
    /\ UNCHANGED <<sel, panel, recording, capture, mic, owed, stray>>

(* releaseStaged: sent once, its failure swallowed.                          *)
Release(t) ==
    /\ \E id \in owed : StartRemove(t, id) /\ owed' = owed \ {id}
    /\ Begins(t)
    /\ UNCHANGED <<disk, born, fresh, clock, phase, kills, faulty, sel, panel,
                   staging, recording, capture, mic, intake, stray>>

ReleaseLost ==
    /\ phase # "up"
    /\ \E id \in owed : owed' = owed \ {id}
    /\ UNCHANGED <<storeVars, sel, panel, staging, recording,
                   capture, mic, intake, stray>>

-----------------------------------------------------------------------------
(* Record: the press closes over the draft of its render, then asks for the  *)
(* microphone. Nothing marks the panel while the permission is pending.      *)
PressRecord(m) ==
    /\ panel /\ ~ staging /\ ~ recording
    /\ mic[m].state = "off"
    /\ mic' = [mic EXCEPT ![m] = [state |-> "asked", sel |-> sel, here |-> TRUE]]
    /\ stray' = IF \E n \in Mics : mic[n].state # "off" /\ mic[n].here
                THEN stray \cup {m} \cup {n \in Mics : mic[n].here}
                ELSE stray \ {m}
    /\ UNCHANGED <<storeVars, sel, panel, staging, recording,
                   capture, intake, owed>>

(* The recorder starts, in the panel that asked for it or in what is left of *)
(* a panel unmounted meanwhile.                                              *)
Granted(m) ==
    /\ mic[m].state = "asked"
    /\ mic' = [mic EXCEPT ![m].state = "live"]
    /\ IF mic[m].here THEN /\ capture' = m /\ recording' = TRUE /\ UNCHANGED stray
       ELSE /\ stray' = stray \cup {m} /\ UNCHANGED <<capture, recording>>
    /\ UNCHANGED <<storeVars, sel, panel, staging, intake, owed>>

Denied(m) ==
    /\ mic[m].state = "asked"
    /\ mic' = [mic EXCEPT ![m] = Off] /\ stray' = stray \ {m}
    /\ UNCHANGED <<storeVars, sel, panel, staging, recording,
                   capture, intake, owed>>

\* Granted, but no recorder could be made or started.
RecorderFails(m) ==
    /\ mic[m].state = "asked"
    /\ mic' = [mic EXCEPT ![m] = Off]
    /\ capture' = IF mic[m].here THEN NoMic ELSE capture
    /\ recording' = (recording /\ ~ mic[m].here) /\ stray' = stray \ {m}
    /\ UNCHANGED <<storeVars, sel, panel, staging, intake, owed>>

(* Stop: onstop hands the microphone back and accepts the recording, in the  *)
(* closure of the press that began it.                                       *)
PressStop(t) ==
    LET m == capture IN
    /\ recording /\ ~ staging /\ m # NoMic
    /\ Accept(t, mic[m])
    /\ mic' = [mic EXCEPT ![m] = Off]
    /\ capture' = NoMic /\ recording' = FALSE /\ stray' = stray \ {m}
    /\ UNCHANGED <<sel, panel, owed>>

-----------------------------------------------------------------------------
\* mutant: nothing is released when the panel goes
UnmountSilently ==
    /\ panel
    /\ panel' = FALSE
    /\ mic' = [m \in Mics |-> [Off EXCEPT !.state = mic[m].state]]
    /\ intake' = [t \in Tasks |-> [intake[t] EXCEPT !.here = FALSE]]
    /\ capture' = NoMic /\ recording' = FALSE /\ staging' = FALSE
    /\ UNCHANGED <<storeVars, sel, owed, stray>>

(* releaseMicrophone, when the panel unmounts. Of a permission still pending *)
(* what it closed over no longer matters: nothing can stop that recording.   *)
Unmount ==
    /\ panel
    /\ panel' = FALSE
    /\ mic' = [m \in Mics |-> IF m = capture THEN Off
                              ELSE [Off EXCEPT !.state = mic[m].state]]
    /\ intake' = [t \in Tasks |-> [intake[t] EXCEPT !.here = FALSE]]
    /\ capture' = NoMic /\ recording' = FALSE /\ staging' = FALSE
    /\ UNCHANGED <<storeVars, sel, owed, stray>>

Mount ==
    /\ ~ panel /\ panel' = TRUE
    /\ UNCHANGED <<storeVars, sel, staging, recording, capture, mic,
                   intake, owed, stray>>

(* Speak's source buttons, a saved voice and a kept clip each drop the        *)
(* reference from the draft, and release nothing.                            *)
Discard ==
    /\ sel # NoRef
    /\ sel' = NoRef
    /\ UNCHANGED <<storeVars, panel, staging, recording, capture,
                   mic, intake, owed, stray>>

\* A preview or a generation cuts the window of the selected reference.
Preview(t) ==
    /\ sel # NoRef /\ Begins(t)
    /\ Window(t, sel)
    /\ UNCHANGED uiVars

Gateway ==
    /\ \/ \E t \in Tasks : Progress(t)
       \/ Boot \/ Kill \/ Tick
    /\ UNCHANGED uiVars

Browser ==
    \/ \E t \in Tasks : Staged(t) \/ StageFails(t) \/ Release(t) \/ PressStop(t)
                        \/ Preview(t)
    \/ \E m \in Mics : PressRecord(m) \/ Granted(m) \/ Denied(m) \/ RecorderFails(m)
    \/ Upload \/ ReleaseLost \/ Unmount \/ Mount \/ Discard

Next == Gateway \/ Browser

Spec == Init /\ [][Next]_vars

(* A request makes progress until its reply is delivered, and a gateway that *)
(* is down is restarted: event loops, and who runs the gateway.              *)
Fairness ==
    \A t \in Tasks :
          WF_vars(\/ UNCHANGED uiVars /\ (Progress(t) \/ Boot)
                  \/ Staged(t) \/ StageFails(t))

FairSpec == Spec /\ Fairness

-----------------------------------------------------------------------------
(* The reference a draft holds is one the gateway has indexed, until it      *)
(* expires or the file system refuses to read it (trim's catch(() => -1) and *)
(* load's catch drop such a reference, good or not): no intake, in whatever  *)
(* order the replies come and whatever was mounted meanwhile, hands back the *)
(* reference that is selected (accept, releaseStaged), and no kill loses it. *)
HeldIsServed ==
    /\ IntakeTypeOK
    /\ phase = "up" /\ sel # NoRef /\ ~ OldEnough(sel) => sel \in records \cup faulty

(* A live microphone belongs to the recording on screen, which its Stop      *)
(* button and the unmounting both end - unless it was opened for a panel     *)
(* already gone, or by a second press while the first was pending            *)
(* (startRecording, releaseMicrophone).                                      *)
MicrophoneOwned ==
    \A m \in Mics : mic[m].state = "live" /\ m \notin stray =>
        recording /\ panel /\ capture = m

(* The panel never stays at "Preparing reference": every intake is answered, *)
(* refused or broken off, and each ends it (accept's finally).               *)
StagingEnds == []<>(~ staging)
==============================================================================
