----------------------------- MODULE Generation -----------------------------
(***************************************************************************)
(* Pressing Generate, and the request that is held while somebody else has *)
(* the vendor (App.tsx).  A press starts a chain: send, and when the demo  *)
(* is busy with another visitor, wait and send the same request again.     *)
(*                                                                         *)
(* The browser runs one callback at a time, from one await to the next: a  *)
(* chain is parked on the reply, on the playback, on the refreshes that    *)
(* follow, or on the retry timer, and while it is the viewer may cancel,   *)
(* sign out, press again or leave, and an audition of the viewer's own may *)
(* hold the vendor.                                                        *)
(***************************************************************************)
EXTENDS Integers, FiniteSets

CONSTANTS
    Chains,      \* presses of Generate, each made at most once
    Auditions,   \* requests of the viewer outside a chain
    Others,      \* the vendor is held by another visitor
    Free,        \* the vendor is idle
    NoChain,     \* nothing held, no timer
    Streams,     \* headers come before the body (streaming transport)
    Retries,     \* CONTENDED_RETRY_DELAYS_MS.length
    MaxGates     \* bound on sessions lost and sign-outs

ASSUME GenerationAssumption ==
    /\ Chains \cap Auditions = {}
    /\ {Others, Free, NoChain} \cap (Chains \cup Auditions) = {}
    /\ Others # Free
    /\ Streams \in BOOLEAN /\ Retries \in Nat /\ MaxGates \in Nat

Requests == Chains \cup Auditions

VARIABLES
    at,            \* where each request is
    retry,         \* retries a chain has spent
    outcome,       \* of a chain's last attempt: "done" or "contended"
    begun,         \* the epoch a chain's drive has read
    waitEpoch,
    heldRequest,
    retryTimer,    \* the ref: the timer the shell knows of
    timers,        \* the timers armed in the browser
    sharedWait,    \* "none", "held" or "exhausted"
    generating,
    inFlight,      \* synthesisInFlight
    holder,        \* of the vendor's lock
    gated, mounted, leaving,
    gates,
    latest,        \* ghost: the chain of the latest press
    dismissed,     \* ghost: the viewer has stopped waiting since that press
    refusedBy      \* ghost: who held the lock a chain was refused for

wait == <<heldRequest, retryTimer, timers, sharedWait>>
shell == <<gated, mounted, leaving, gates>>
ghosts == <<latest, dismissed, refusedBy>>
vars == <<at, retry, outcome, begun, waitEpoch, wait, generating, inFlight, holder, shell, ghosts>>

Init ==
    /\ at = [r \in Requests |-> "unsent"]
    /\ retry = [c \in Chains |-> 0] /\ outcome = [c \in Chains |-> "done"]
    /\ begun = [c \in Chains |-> 0] /\ waitEpoch = 0
    /\ heldRequest = NoChain /\ retryTimer = NoChain /\ timers = {} /\ sharedWait = "none"
    /\ generating = FALSE /\ inFlight = 0 /\ holder = Free
    /\ gated = FALSE /\ mounted = TRUE /\ leaving = FALSE /\ gates = 0
    /\ latest = NoChain /\ dismissed = FALSE /\ refusedBy = [c \in Chains |-> Free]
-----------------------------------------------------------------------------
(* clearHeldRetry: the timer the ref knows of is cleared *)
ClearHeldRetry ==
    /\ timers' = timers \ {retryTimer}
    /\ retryTimer' = NoChain /\ heldRequest' = NoChain

(* driveGeneration up to its first await *)
Drive(c) ==
    /\ at' = [at EXCEPT ![c] = "sent"]
    /\ begun' = [begun EXCEPT ![c] = waitEpoch']
    /\ generating' = TRUE
    /\ inFlight' = inFlight + 1

(* blockedReason leaves the control enabled *)
Enabled == ~ generating /\ sharedWait # "held" /\ ~ gated /\ mounted

(* mutant: a press does not supersede the chain before *)
GenerateSameEpoch(c) ==
    /\ Enabled /\ at[c] = "unsent"
    /\ ClearHeldRetry /\ UNCHANGED waitEpoch /\ sharedWait' = "none"
    /\ Drive(c)
    /\ latest' = c /\ dismissed' = FALSE
    /\ UNCHANGED <<retry, outcome, holder, shell, refusedBy>>

Generate(c) ==
    /\ Enabled /\ at[c] = "unsent"
    /\ ClearHeldRetry /\ waitEpoch' = waitEpoch + 1 /\ sharedWait' = "none"
    /\ Drive(c)
    /\ latest' = c /\ dismissed' = FALSE
    /\ UNCHANGED <<retry, outcome, holder, shell, refusedBy>>

(* auditionVoice, up to the reply *)
Audition(a) ==
    /\ at[a] = "unsent" /\ ~ gated /\ mounted
    /\ at' = [at EXCEPT ![a] = "sent"]
    /\ inFlight' = inFlight + 1
    /\ UNCHANGED <<retry, outcome, begun, waitEpoch, wait, generating, holder, shell, ghosts>>
-----------------------------------------------------------------------------
(* The gateway and the vendor: a request is accepted, refused for whoever  *)
(* holds the lock, or fails (unreachable, or the session is gone).         *)
Decided(r, where) ==
    /\ at[r] = "sent"
    /\ at' = [at EXCEPT ![r] = where]
    /\ UNCHANGED <<retry, outcome, begun, waitEpoch, wait, generating, inFlight,
                   gated, mounted, leaving, latest, dismissed>>

Accepted(r) ==
    /\ holder = Free /\ Decided(r, "accepted")
    /\ holder' = r /\ UNCHANGED <<refusedBy, gates>>

Refused(r) ==
    /\ holder # Free /\ Decided(r, "busy")
    /\ refusedBy' = IF r \in Chains THEN [refusedBy EXCEPT ![r] = holder] ELSE refusedBy
    /\ UNCHANGED <<holder, gates>>

(* unreachable, or given up on while the vendor works on *)
Fails(r) ==
    /\ Decided(r, "failed")
    /\ \/ UNCHANGED holder
       \/ holder = Free /\ holder' = r
    /\ UNCHANGED <<refusedBy, gates>>

Unauthorised(r) ==
    /\ gates < MaxGates /\ gates' = gates + 1
    /\ Decided(r, "unauthorised") /\ UNCHANGED <<holder, refusedBy>>

(* the vendor is done with the body, or another visitor comes *)
Vendor(next) ==
    /\ (holder = Free) = (next # Free)
    /\ holder' = next
    /\ UNCHANGED <<at, retry, outcome, begun, waitEpoch, wait, generating, inFlight, shell, ghosts>>
-----------------------------------------------------------------------------
(* onAuthRequired: the gate, and nothing is held behind it *)
RaiseGate ==
    /\ gated' = TRUE
    /\ ClearHeldRetry /\ sharedWait' = "none"
    /\ UNCHANGED <<mounted, leaving>>

(* a buffered response is sent when the vendor is done with it *)
HeadersSent(r) == Streams \/ holder # r

(* the reply to an audition, or the end of its playback *)
AuditionReply(a) ==
    /\ at[a] \in {"accepted", "busy", "failed", "unauthorised"}
    /\ at[a] = "accepted" => HeadersSent(a)
    /\ inFlight' = inFlight - 1
    /\ at' = [at EXCEPT ![a] = IF at[a] = "accepted" THEN "playing" ELSE "over"]
    /\ IF at[a] = "unauthorised" THEN RaiseGate ELSE UNCHANGED <<wait, gated, mounted, leaving>>
    /\ UNCHANGED <<retry, outcome, begun, waitEpoch, generating, holder, gates, ghosts>>

(* headers of an accepted request: its playback begins *)
Headers(c) ==
    /\ at[c] = "accepted" /\ HeadersSent(c)
    /\ inFlight' = inFlight - 1
    /\ at' = [at EXCEPT ![c] = "playing"]
    /\ UNCHANGED <<retry, outcome, begun, waitEpoch, wait, generating, holder, shell, ghosts>>

(* busy, and no other request of this viewer is counted *)
Contended(c) == at[c] = "busy" /\ inFlight = 1

(* mutant: only a success re-enables the control *)
AttemptOverStuck(c) ==
    /\ \/ at[c] \in {"busy", "failed", "unauthorised"} /\ inFlight' = inFlight - 1
       \/ at[c] = "playing" /\ UNCHANGED inFlight
    /\ outcome' = [outcome EXCEPT ![c] = IF Contended(c) THEN "contended" ELSE "done"]
    /\ generating' = (at[c] # "playing")
    /\ at' = [at EXCEPT ![c] = "refreshing"]
    /\ IF at[c] = "unauthorised" THEN RaiseGate ELSE UNCHANGED <<wait, gated, mounted, leaving>>
    /\ UNCHANGED <<retry, begun, waitEpoch, holder, gates, ghosts>>

(* attemptGeneration ends: contended, failed or played *)
AttemptOver(c) ==
    /\ \/ at[c] \in {"busy", "failed", "unauthorised"} /\ inFlight' = inFlight - 1
       \/ at[c] = "playing" /\ UNCHANGED inFlight
    /\ outcome' = [outcome EXCEPT ![c] = IF Contended(c) THEN "contended" ELSE "done"]
    /\ generating' = FALSE
    /\ at' = [at EXCEPT ![c] = "refreshing"]
    /\ IF at[c] = "unauthorised" THEN RaiseGate ELSE UNCHANGED <<wait, gated, mounted, leaving>>
    /\ UNCHANGED <<retry, begun, waitEpoch, holder, gates, ghosts>>

Superseded(c) == waitEpoch # begun[c]

(* the refreshes are answered, and driveGeneration goes on.  They may be   *)
(* what finds the session gone.                                            *)
RefreshGated(c) ==
    /\ at[c] = "refreshing" /\ ~ gated /\ gates < MaxGates
    /\ RaiseGate /\ gates' = gates + 1
    /\ UNCHANGED <<at, retry, outcome, begun, waitEpoch, generating, inFlight, holder, ghosts>>

Dropped(c) ==
    /\ at[c] = "refreshing" /\ Superseded(c)
    /\ at' = [at EXCEPT ![c] = "over"]
    /\ UNCHANGED <<retry, outcome, begun, waitEpoch, wait, generating, inFlight, holder, shell, ghosts>>

(* mutant: the wait is over and still shown *)
ConcludedQuietly(c) ==
    /\ at[c] = "refreshing" /\ ~ Superseded(c)
    /\ outcome[c] = "done" \/ retry[c] = Retries
    /\ at' = [at EXCEPT ![c] = "over"]
    /\ ClearHeldRetry
    /\ UNCHANGED <<sharedWait, retry, outcome, begun, waitEpoch, generating, inFlight, holder, shell, ghosts>>

Concluded(c) ==
    /\ at[c] = "refreshing" /\ ~ Superseded(c)
    /\ outcome[c] = "done" \/ retry[c] = Retries
    /\ at' = [at EXCEPT ![c] = "over"]
    /\ ClearHeldRetry
    /\ sharedWait' = IF outcome[c] = "done" THEN "none" ELSE "exhausted"
    /\ UNCHANGED <<retry, outcome, begun, waitEpoch, generating, inFlight, holder, shell, ghosts>>

(* somebody else has the vendor: the request is kept and a timer armed *)
Held(c) ==
    /\ at[c] = "refreshing" /\ ~ Superseded(c)
    /\ outcome[c] = "contended" /\ retry[c] < Retries
    /\ at' = [at EXCEPT ![c] = "waiting"]
    /\ heldRequest' = c /\ sharedWait' = "held"
    /\ retryTimer' = c /\ timers' = timers \cup {c}
    /\ UNCHANGED <<retry, outcome, begun, waitEpoch, generating, inFlight, holder, shell, ghosts>>

(* the timer a chain armed fires: the held request is sent again *)
Fire(c) ==
    /\ c \in timers
    /\ timers' = timers \ {c} /\ retryTimer' = NoChain
    /\ UNCHANGED <<heldRequest, sharedWait, waitEpoch>>
    /\ IF heldRequest = NoChain
       THEN UNCHANGED <<at, retry, begun, generating, inFlight>>
       ELSE Drive(heldRequest) /\ retry' = [retry EXCEPT ![heldRequest] = retry[c] + 1]
    /\ UNCHANGED <<outcome, holder, shell, ghosts>>
-----------------------------------------------------------------------------
(* mutant: the attempt on the wire is not superseded *)
CancelSharedWaitOnly ==
    /\ sharedWait = "held" /\ ~ gated /\ mounted
    /\ ClearHeldRetry /\ UNCHANGED waitEpoch /\ sharedWait' = "none"
    /\ dismissed' = TRUE
    /\ UNCHANGED <<at, retry, outcome, begun, generating, inFlight, holder, shell, latest, refusedBy>>

CancelSharedWait ==
    /\ sharedWait = "held" /\ ~ gated /\ mounted
    /\ ClearHeldRetry /\ waitEpoch' = waitEpoch + 1 /\ sharedWait' = "none"
    /\ dismissed' = TRUE
    /\ UNCHANGED <<at, retry, outcome, begun, generating, inFlight, holder, shell, latest, refusedBy>>

(* signOut, up to the end of the session and after it *)
SignOut ==
    /\ ~ gated /\ mounted /\ ~ leaving /\ gates < MaxGates
    /\ ClearHeldRetry /\ sharedWait' = "none"
    /\ leaving' = TRUE /\ gates' = gates + 1
    /\ UNCHANGED <<at, retry, outcome, begun, waitEpoch, generating, inFlight, holder, gated, mounted, ghosts>>

SignedOut ==
    /\ leaving
    /\ leaving' = FALSE /\ gated' = TRUE
    /\ UNCHANGED <<at, retry, outcome, begun, waitEpoch, wait, generating, inFlight, holder, mounted, gates, ghosts>>

Enter ==
    /\ gated /\ mounted
    /\ gated' = FALSE
    /\ UNCHANGED <<at, retry, outcome, begun, waitEpoch, wait, generating, inFlight, holder, mounted, leaving, gates, ghosts>>

Unmount ==
    /\ mounted
    /\ mounted' = FALSE /\ ClearHeldRetry
    /\ UNCHANGED <<at, retry, outcome, begun, waitEpoch, sharedWait, generating, inFlight, holder, gated, leaving, gates, ghosts>>
-----------------------------------------------------------------------------
Gateway(r) == Accepted(r) \/ Refused(r) \/ Fails(r) \/ Unauthorised(r)

ChainStep(c) ==
    \/ Headers(c) \/ AttemptOver(c)
    \/ Dropped(c) \/ Concluded(c) \/ Held(c) \/ Fire(c)

Next ==
    \/ \E c \in Chains : Generate(c) \/ ChainStep(c) \/ RefreshGated(c)
    \/ \E a \in Auditions : Audition(a) \/ AuditionReply(a)
    \/ \E r \in Requests : Gateway(r)
    \/ Vendor(Free) \/ Vendor(Others)
    \/ CancelSharedWait \/ SignOut \/ SignedOut \/ Enter \/ Unmount

Spec == Init /\ [][Next]_vars

(* Requests are answered, the vendor ends what it began, playback ends,    *)
(* and timers fire.                                                        *)
FairSpec ==
    /\ Spec /\ WF_vars(Vendor(Free))
    /\ \A c \in Chains : WF_vars(ChainStep(c))
    /\ \A r \in Requests : WF_vars(Gateway(r))
-----------------------------------------------------------------------------
InAttempt == {"sent", "accepted", "busy", "failed", "unauthorised", "playing"}

Open == {r \in Requests : at[r] \in InAttempt \ {"playing"}}

(* Every variable has its type. *)
TypeOK ==
    /\ at \in [Requests -> InAttempt \cup {"unsent", "refreshing", "waiting", "over"}]
    /\ retry \in [Chains -> 0..Retries] /\ outcome \in [Chains -> {"done", "contended"}]
    /\ begun \in [Chains -> Nat] /\ waitEpoch \in Nat
    /\ heldRequest \in Chains \cup {NoChain} /\ retryTimer \in Chains \cup {NoChain}
    /\ timers \subseteq Chains
    /\ sharedWait \in {"none", "held", "exhausted"}
    /\ generating \in BOOLEAN /\ inFlight \in Int
    /\ holder \in Requests \cup {Others, Free}
    /\ gated \in BOOLEAN /\ mounted \in BOOLEAN /\ leaving \in BOOLEAN /\ gates \in 0..MaxGates
    /\ latest \in Chains \cup {NoChain} /\ dismissed \in BOOLEAN
    /\ refusedBy \in [Chains -> Requests \cup {Others, Free}]

(* The ref knows every timer that is armed, so that clearHeldRetry can     *)
(* clear it: there is never a second chain of retries.                     *)
OneTimer == timers \subseteq {retryTimer}

(* The control says Generating exactly while an attempt is under way, and  *)
(* there is one at most (App.tsx attemptGeneration, generate).             *)
GeneratingIsTrue ==
    /\ generating <=> \E c \in Chains : at[c] \in InAttempt
    /\ \A c, d \in Chains : at[c] \in InAttempt /\ at[d] \in InAttempt => c = d

(* synthesisInFlight counts the requests this viewer has not had a reply   *)
(* to, whatever became of them (sendSpeech).                               *)
CountIsOpen == inFlight = Cardinality(Open)

(* An attempt that was on the wire when the viewer stopped waiting does    *)
(* not bring the wait back (waitEpoch).                                    *)
DismissedStaysDismissed == dismissed => sharedWait = "none" /\ timers = {}

(* While the control is disabled by a wait, something is under way that    *)
(* will end it (blockedReason, driveGeneration).                           *)
WaitIsLive ==
    mounted /\ sharedWait = "held" => \E c \in Chains :
        \/ at[c] \in InAttempt \cup {"refreshing"} /\ begun[c] = waitEpoch
        \/ at[c] = "waiting" /\ c \in timers

(* Why it is so: the epoch names the latest press until something          *)
(* supersedes it, only its chain is attempted or armed, and what is armed  *)
(* is what is held.                                                        *)
Running(c) == at[c] \in InAttempt \cup {"refreshing"}

EpochsPast == \A c \in Chains : begun[c] <= waitEpoch

AttemptIsLatest == \A c \in Chains : at[c] \in InAttempt => c = latest

UnsupersededIsLatest ==
    \A c \in Chains : Running(c) /\ begun[c] = waitEpoch => c = latest /\ ~ dismissed

TimerHoldsLatest ==
    /\ heldRequest \in {NoChain, latest}
    /\ \A c \in timers : heldRequest = c /\ at[c] = "waiting" /\ retry[c] < Retries

IInv ==
    /\ TypeOK /\ OneTimer /\ GeneratingIsTrue /\ DismissedStaysDismissed /\ WaitIsLive
    /\ EpochsPast /\ AttemptIsLatest /\ UnsupersededIsLatest /\ TimerHoldsLatest

(* What a retry sends is the request of the latest press. *)
RetrySendsPressed == [][\A c \in Chains : at[c] = "waiting" /\ at'[c] = "sent" => c = latest]_vars

(* The control comes back, whatever became of the request. *)
ControlComesBack ==
    generating \/ sharedWait = "held" ~> (~ generating /\ sharedWait # "held") \/ ~ mounted

(* App.tsx: nothing retries in the background once the component is gone. *)
NothingRetriesWhenGone == ~ mounted => timers = {}

(* App.tsx: nothing is left sounding behind the gate.  So no playback      *)
(* begins there.                                                           *)
NothingStartsBehindGate ==
    [][gated => \A r \in Requests : at[r] = "accepted" => at'[r] # "playing"]_vars

(* App.tsx: a count of nothing means the lock is somebody else's. *)
ContendedMeansOther ==
    \A c \in Chains : at[c] = "refreshing" /\ outcome[c] = "contended" => refusedBy[c] = Others
=============================================================================
