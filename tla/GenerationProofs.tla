-------------------------- MODULE GenerationProofs --------------------------
(***************************************************************************)
(* The wait of a held request, for any number of presses, auditions and    *)
(* retries.  The invariant IInv says that the epoch names the latest press *)
(* until something supersedes it, and that only its chain is attempted,    *)
(* armed and held.  It falls into three parts, shown action by action: the *)
(* Boolean variables, the other variables, and the chains.                 *)
(*                                                                         *)
(* And, at the end, what lets Generate be pressed at all: for every        *)
(* request the page's copy of the ceilings (DraftGate) and the gateway's   *)
(* (Ceilings) give one verdict.                                            *)
(***************************************************************************)
EXTENDS Generation, TLAPS

Flags ==
    /\ generating \in BOOLEAN /\ gated \in BOOLEAN /\ mounted \in BOOLEAN
    /\ leaving \in BOOLEAN /\ dismissed \in BOOLEAN

Data ==
    /\ at \in [Requests -> InAttempt \cup {"unsent", "refreshing", "waiting", "over"}]
    /\ retry \in [Chains -> 0..Retries] /\ outcome \in [Chains -> {"done", "contended"}]
    /\ begun \in [Chains -> Nat] /\ waitEpoch \in Nat
    /\ heldRequest \in Chains \cup {NoChain} /\ retryTimer \in Chains \cup {NoChain}
    /\ timers \subseteq Chains
    /\ sharedWait \in {"none", "held", "exhausted"}
    /\ inFlight \in Int
    /\ holder \in Requests \cup {Others, Free}
    /\ gates \in 0..MaxGates
    /\ latest \in Chains \cup {NoChain}
    /\ refusedBy \in [Chains -> Requests \cup {Others, Free}]

ChainInv ==
    /\ OneTimer /\ GeneratingIsTrue /\ DismissedStaysDismissed /\ WaitIsLive
    /\ EpochsPast /\ AttemptIsLatest /\ UnsupersededIsLatest /\ TimerHoldsLatest

LEMMA IInvParts == IInv <=> Flags /\ Data /\ ChainInv
<1>1. TypeOK <=> Flags /\ Data
  BY DEF TypeOK, Flags, Data
<1> QED
  BY <1>1 DEF IInv, ChainInv

LEMMA IInvPartsNext == Flags' /\ Data' /\ ChainInv' => IInv'
  BY DEF IInv, TypeOK, Flags, Data, ChainInv

(* The initial state satisfies the invariant. *)
LEMMA InitInv == Init => IInv
<1> SUFFICES ASSUME Init PROVE IInv
  OBVIOUS
<1> USE GenerationAssumption DEF GenerationAssumption, Init
<1>1. Flags
  BY DEF Flags
<1>2. Data
  BY DEF Data, Requests, InAttempt
<1>3. ChainInv
  BY DEF ChainInv, OneTimer, GeneratingIsTrue, DismissedStaysDismissed, WaitIsLive, EpochsPast,
         AttemptIsLatest, UnsupersededIsLatest, TimerHoldsLatest, Running, InAttempt, Requests
<1> QED
  BY <1>1, <1>2, <1>3, IInvParts

(* A press: nothing is under way or armed, and a new epoch begins. *)
LEMMA GenerateStep ==
    ASSUME IInv, NEW c \in Chains, Generate(c)
    PROVE  IInv'
<1> USE GenerationAssumption DEF GenerationAssumption, wait, shell, ghosts
<1>0. Flags /\ Data /\ ChainInv
  BY IInvParts
<1>1. Flags'
  BY <1>0 DEF Flags, Generate, Enabled, ClearHeldRetry, Drive
<1>2. Data'
  BY <1>0 DEF Data, Requests, InAttempt, Generate, Enabled, ClearHeldRetry, Drive
<1>3. ChainInv'
  BY <1>0 DEF Data, ChainInv, OneTimer, GeneratingIsTrue, DismissedStaysDismissed, WaitIsLive, EpochsPast,
         AttemptIsLatest, UnsupersededIsLatest, TimerHoldsLatest, Running, InAttempt, Requests, Generate, Enabled, ClearHeldRetry, Drive
<1> QED
  BY <1>1, <1>2, <1>3, IInvPartsNext

(* An audition is not a chain. *)
LEMMA AuditionStep ==
    ASSUME IInv, NEW a \in Auditions, Audition(a)
    PROVE  IInv'
<1> USE GenerationAssumption DEF GenerationAssumption, wait, shell, ghosts
<1>0. Flags /\ Data /\ ChainInv
  BY IInvParts
<1>1. Flags'
  BY <1>0 DEF Flags, Audition
<1>2. Data'
  BY <1>0 DEF Data, Requests, InAttempt, Audition
<1>3. ChainInv'
  BY <1>0 DEF Data, ChainInv, OneTimer, GeneratingIsTrue, DismissedStaysDismissed, WaitIsLive, EpochsPast,
         AttemptIsLatest, UnsupersededIsLatest, TimerHoldsLatest, Running, InAttempt, Requests, Audition
<1> QED
  BY <1>1, <1>2, <1>3, IInvPartsNext

(* The decision of the gateway keeps an attempt an attempt. *)
LEMMA GatewayStep ==
    ASSUME IInv, NEW r \in Requests, Gateway(r)
    PROVE  IInv'
<1> USE GenerationAssumption DEF GenerationAssumption, wait, shell, ghosts
<1>0. Flags /\ Data /\ ChainInv
  BY IInvParts
<1>1. Flags'
  BY <1>0 DEF Flags, Gateway, Accepted, Refused, Fails, Unauthorised, Decided
<1>2. Data'
  BY <1>0 DEF Data, Requests, InAttempt, Gateway, Accepted, Refused, Fails, Unauthorised, Decided
<1>3. ChainInv'
  BY <1>0 DEF Data, ChainInv, OneTimer, GeneratingIsTrue, DismissedStaysDismissed, WaitIsLive, EpochsPast,
         AttemptIsLatest, UnsupersededIsLatest, TimerHoldsLatest, Running, InAttempt, Requests, Gateway, Accepted, Refused, Fails, Unauthorised, Decided
<1> QED
  BY <1>1, <1>2, <1>3, IInvPartsNext

(* The lock of the vendor is not the shell's. *)
LEMMA VendorStep ==
    ASSUME IInv, NEW next \in {Free, Others}, Vendor(next)
    PROVE  IInv'
<1> USE GenerationAssumption DEF GenerationAssumption, wait, shell, ghosts
<1>0. Flags /\ Data /\ ChainInv
  BY IInvParts
<1>1. Flags'
  BY <1>0 DEF Flags, Vendor
<1>2. Data'
  BY <1>0 DEF Data, Requests, InAttempt, Vendor
<1>3. ChainInv'
  BY <1>0 DEF Data, ChainInv, OneTimer, GeneratingIsTrue, DismissedStaysDismissed, WaitIsLive, EpochsPast,
         AttemptIsLatest, UnsupersededIsLatest, TimerHoldsLatest, Running, InAttempt, Requests, Vendor
<1> QED
  BY <1>1, <1>2, <1>3, IInvPartsNext

(* The reply to an audition, or the gate. *)
LEMMA AuditionReplyStep ==
    ASSUME IInv, NEW a \in Auditions, AuditionReply(a)
    PROVE  IInv'
<1> USE GenerationAssumption DEF GenerationAssumption, wait, shell, ghosts
<1>0. Flags /\ Data /\ ChainInv
  BY IInvParts
<1>1. Flags'
  BY <1>0 DEF Flags, AuditionReply, RaiseGate, ClearHeldRetry
<1>2. Data'
  BY <1>0 DEF Data, Requests, InAttempt, AuditionReply, RaiseGate, ClearHeldRetry
<1>3. ChainInv'
  BY <1>0 DEF Data, ChainInv, OneTimer, GeneratingIsTrue, DismissedStaysDismissed, WaitIsLive, EpochsPast,
         AttemptIsLatest, UnsupersededIsLatest, TimerHoldsLatest, Running, InAttempt, Requests, AuditionReply, RaiseGate, ClearHeldRetry
<1> QED
  BY <1>1, <1>2, <1>3, IInvPartsNext

(* Headers: the attempt goes on. *)
LEMMA HeadersStep ==
    ASSUME IInv, NEW c \in Chains, Headers(c)
    PROVE  IInv'
<1> USE GenerationAssumption DEF GenerationAssumption, wait, shell, ghosts
<1>0. Flags /\ Data /\ ChainInv
  BY IInvParts
<1>1. Flags'
  BY <1>0 DEF Flags, Headers
<1>2. Data'
  BY <1>0 DEF Data, Requests, InAttempt, Headers
<1>3. ChainInv'
  BY <1>0 DEF Data, ChainInv, OneTimer, GeneratingIsTrue, DismissedStaysDismissed, WaitIsLive, EpochsPast,
         AttemptIsLatest, UnsupersededIsLatest, TimerHoldsLatest, Running, InAttempt, Requests, Headers
<1> QED
  BY <1>1, <1>2, <1>3, IInvPartsNext

(* The attempt ends, and it was the only one. *)
LEMMA AttemptOverStep ==
    ASSUME IInv, NEW c \in Chains, AttemptOver(c)
    PROVE  IInv'
<1> USE GenerationAssumption DEF GenerationAssumption, wait, shell, ghosts
<1>0. Flags /\ Data /\ ChainInv
  BY IInvParts
<1>1. Flags'
  BY <1>0 DEF Flags, AttemptOver, RaiseGate, ClearHeldRetry
<1>2. Data'
  BY <1>0 DEF Data, Requests, InAttempt, AttemptOver, RaiseGate, ClearHeldRetry
<1>3. ChainInv'
  BY <1>0 DEF Data, ChainInv, OneTimer, GeneratingIsTrue, DismissedStaysDismissed, WaitIsLive, EpochsPast,
         AttemptIsLatest, UnsupersededIsLatest, TimerHoldsLatest, Running, InAttempt, Requests, AttemptOver, RaiseGate, ClearHeldRetry
<1> QED
  BY <1>1, <1>2, <1>3, IInvPartsNext

(* The refreshes find the session gone. *)
LEMMA RefreshGatedStep ==
    ASSUME IInv, NEW c \in Chains, RefreshGated(c)
    PROVE  IInv'
<1> USE GenerationAssumption DEF GenerationAssumption, wait, shell, ghosts
<1>0. Flags /\ Data /\ ChainInv
  BY IInvParts
<1>1. Flags'
  BY <1>0 DEF Flags, RefreshGated, RaiseGate, ClearHeldRetry
<1>2. Data'
  BY <1>0 DEF Data, Requests, InAttempt, RefreshGated, RaiseGate, ClearHeldRetry
<1>3. ChainInv'
  BY <1>0 DEF Data, ChainInv, OneTimer, GeneratingIsTrue, DismissedStaysDismissed, WaitIsLive, EpochsPast,
         AttemptIsLatest, UnsupersededIsLatest, TimerHoldsLatest, Running, InAttempt, Requests, RefreshGated, RaiseGate, ClearHeldRetry
<1> QED
  BY <1>1, <1>2, <1>3, IInvPartsNext

(* A superseded chain ends and leaves the wait alone. *)
LEMMA DroppedStep ==
    ASSUME IInv, NEW c \in Chains, Dropped(c)
    PROVE  IInv'
<1> USE GenerationAssumption DEF GenerationAssumption, wait, shell, ghosts
<1>0. Flags /\ Data /\ ChainInv
  BY IInvParts
<1>1. Flags'
  BY <1>0 DEF Flags, Dropped, Superseded
<1>2. Data'
  BY <1>0 DEF Data, Requests, InAttempt, Dropped, Superseded
<1>3. ChainInv'
  BY <1>0 DEF Data, ChainInv, OneTimer, GeneratingIsTrue, DismissedStaysDismissed, WaitIsLive, EpochsPast,
         AttemptIsLatest, UnsupersededIsLatest, TimerHoldsLatest, Running, InAttempt, Requests, Dropped, Superseded
<1> QED
  BY <1>1, <1>2, <1>3, IInvPartsNext

(* The chain of the latest press ends, and the wait with it. *)
LEMMA ConcludedStep ==
    ASSUME IInv, NEW c \in Chains, Concluded(c)
    PROVE  IInv'
<1> USE GenerationAssumption DEF GenerationAssumption, wait, shell, ghosts
<1>0. Flags /\ Data /\ ChainInv
  BY IInvParts
<1>1. Flags'
  BY <1>0 DEF Flags, Concluded, Superseded, ClearHeldRetry
<1>2. Data'
  BY <1>0 DEF Data, Requests, InAttempt, Concluded, Superseded, ClearHeldRetry
<1>3. ChainInv'
  BY <1>0 DEF Data, ChainInv, OneTimer, GeneratingIsTrue, DismissedStaysDismissed, WaitIsLive, EpochsPast,
         AttemptIsLatest, UnsupersededIsLatest, TimerHoldsLatest, Running, InAttempt, Requests, Concluded, Superseded, ClearHeldRetry
<1> QED
  BY <1>1, <1>2, <1>3, IInvPartsNext

(* The chain of the latest press is held: no other timer is armed. *)
LEMMA HeldStep ==
    ASSUME IInv, NEW c \in Chains, Held(c)
    PROVE  IInv'
<1> USE GenerationAssumption DEF GenerationAssumption, wait, shell, ghosts
<1>0. Flags /\ Data /\ ChainInv
  BY IInvParts
<1>1. Flags'
  BY <1>0 DEF Flags, Held, Superseded
<1>2. Data'
  BY <1>0 DEF Data, Requests, InAttempt, Held, Superseded
<1>3. ChainInv'
  BY <1>0 DEF Data, ChainInv, OneTimer, GeneratingIsTrue, DismissedStaysDismissed, WaitIsLive, EpochsPast,
         AttemptIsLatest, UnsupersededIsLatest, TimerHoldsLatest, Running, InAttempt, Requests, Held, Superseded
<1> QED
  BY <1>1, <1>2, <1>3, IInvPartsNext

(* The timer fires for the request that is held. *)
LEMMA FireStep ==
    ASSUME IInv, NEW c \in Chains, Fire(c)
    PROVE  IInv'
<1> USE GenerationAssumption DEF GenerationAssumption, wait, shell, ghosts
<1>0. Flags /\ Data /\ ChainInv
  BY IInvParts
<1>1. Flags'
  BY <1>0 DEF Flags, Fire, Drive
<1>2. Data'
  BY <1>0 DEF Data, Requests, InAttempt, Fire, Drive, ChainInv, TimerHoldsLatest
<1>3. ChainInv'
  BY <1>0 DEF Data, ChainInv, OneTimer, GeneratingIsTrue, DismissedStaysDismissed, WaitIsLive, EpochsPast,
         AttemptIsLatest, UnsupersededIsLatest, TimerHoldsLatest, Running, InAttempt, Requests, Fire, Drive
<1> QED
  BY <1>1, <1>2, <1>3, IInvPartsNext

(* A cancel supersedes whatever is under way. *)
LEMMA CancelStep ==
    ASSUME IInv, CancelSharedWait
    PROVE  IInv'
<1> USE GenerationAssumption DEF GenerationAssumption, wait, shell, ghosts
<1>0. Flags /\ Data /\ ChainInv
  BY IInvParts
<1>1. Flags'
  BY <1>0 DEF Flags, CancelSharedWait, ClearHeldRetry
<1>2. Data'
  BY <1>0 DEF Data, Requests, InAttempt, CancelSharedWait, ClearHeldRetry
<1>3. ChainInv'
  BY <1>0 DEF Data, ChainInv, OneTimer, GeneratingIsTrue, DismissedStaysDismissed, WaitIsLive, EpochsPast,
         AttemptIsLatest, UnsupersededIsLatest, TimerHoldsLatest, Running, InAttempt, Requests, CancelSharedWait, ClearHeldRetry
<1> QED
  BY <1>1, <1>2, <1>3, IInvPartsNext

(* Signing out clears the wait. *)
LEMMA SignOutStep ==
    ASSUME IInv, SignOut
    PROVE  IInv'
<1> USE GenerationAssumption DEF GenerationAssumption, wait, shell, ghosts
<1>0. Flags /\ Data /\ ChainInv
  BY IInvParts
<1>1. Flags'
  BY <1>0 DEF Flags, SignOut, ClearHeldRetry
<1>2. Data'
  BY <1>0 DEF Data, Requests, InAttempt, SignOut, ClearHeldRetry
<1>3. ChainInv'
  BY <1>0 DEF Data, ChainInv, OneTimer, GeneratingIsTrue, DismissedStaysDismissed, WaitIsLive, EpochsPast,
         AttemptIsLatest, UnsupersededIsLatest, TimerHoldsLatest, Running, InAttempt, Requests, SignOut, ClearHeldRetry
<1> QED
  BY <1>1, <1>2, <1>3, IInvPartsNext

(* The gate after signing out. *)
LEMMA SignedOutStep ==
    ASSUME IInv, SignedOut
    PROVE  IInv'
<1> USE GenerationAssumption DEF GenerationAssumption, wait, shell, ghosts
<1>0. Flags /\ Data /\ ChainInv
  BY IInvParts
<1>1. Flags'
  BY <1>0 DEF Flags, SignedOut
<1>2. Data'
  BY <1>0 DEF Data, Requests, InAttempt, SignedOut
<1>3. ChainInv'
  BY <1>0 DEF Data, ChainInv, OneTimer, GeneratingIsTrue, DismissedStaysDismissed, WaitIsLive, EpochsPast,
         AttemptIsLatest, UnsupersededIsLatest, TimerHoldsLatest, Running, InAttempt, Requests, SignedOut
<1> QED
  BY <1>1, <1>2, <1>3, IInvPartsNext

(* Entering again. *)
LEMMA EnterStep ==
    ASSUME IInv, Enter
    PROVE  IInv'
<1> USE GenerationAssumption DEF GenerationAssumption, wait, shell, ghosts
<1>0. Flags /\ Data /\ ChainInv
  BY IInvParts
<1>1. Flags'
  BY <1>0 DEF Flags, Enter
<1>2. Data'
  BY <1>0 DEF Data, Requests, InAttempt, Enter
<1>3. ChainInv'
  BY <1>0 DEF Data, ChainInv, OneTimer, GeneratingIsTrue, DismissedStaysDismissed, WaitIsLive, EpochsPast,
         AttemptIsLatest, UnsupersededIsLatest, TimerHoldsLatest, Running, InAttempt, Requests, Enter
<1> QED
  BY <1>1, <1>2, <1>3, IInvPartsNext

(* The component goes and clears its timer. *)
LEMMA UnmountStep ==
    ASSUME IInv, Unmount
    PROVE  IInv'
<1> USE GenerationAssumption DEF GenerationAssumption, wait, shell, ghosts
<1>0. Flags /\ Data /\ ChainInv
  BY IInvParts
<1>1. Flags'
  BY <1>0 DEF Flags, Unmount, ClearHeldRetry
<1>2. Data'
  BY <1>0 DEF Data, Requests, InAttempt, Unmount, ClearHeldRetry
<1>3. ChainInv'
  BY <1>0 DEF Data, ChainInv, OneTimer, GeneratingIsTrue, DismissedStaysDismissed, WaitIsLive, EpochsPast,
         AttemptIsLatest, UnsupersededIsLatest, TimerHoldsLatest, Running, InAttempt, Requests, Unmount, ClearHeldRetry
<1> QED
  BY <1>1, <1>2, <1>3, IInvPartsNext

(* A stuttering step. *)
LEMMA StutterStep ==
    ASSUME IInv, UNCHANGED vars
    PROVE  IInv'
<1> USE GenerationAssumption DEF GenerationAssumption, wait, shell, ghosts
<1>0. Flags /\ Data /\ ChainInv
  BY IInvParts
<1>1. Flags'
  BY <1>0 DEF Flags, vars
<1>2. Data'
  BY <1>0 DEF Data, Requests, InAttempt, vars
<1>3. ChainInv'
  BY <1>0 DEF Data, ChainInv, OneTimer, GeneratingIsTrue, DismissedStaysDismissed, WaitIsLive, EpochsPast,
         AttemptIsLatest, UnsupersededIsLatest, TimerHoldsLatest, Running, InAttempt, Requests, vars
<1> QED
  BY <1>1, <1>2, <1>3, IInvPartsNext

(* Every step preserves the invariant. *)
LEMMA NextInv == IInv /\ [Next]_vars => IInv'
<1> SUFFICES ASSUME IInv, [Next]_vars PROVE IInv'
  OBVIOUS
<1>1. ASSUME NEW c \in Chains, Generate(c) \/ ChainStep(c) \/ RefreshGated(c) PROVE IInv'
  BY <1>1, GenerateStep, HeadersStep, AttemptOverStep, DroppedStep, ConcludedStep, HeldStep,
     FireStep, RefreshGatedStep DEF ChainStep
<1>2. ASSUME NEW a \in Auditions, Audition(a) \/ AuditionReply(a) PROVE IInv'
  BY <1>2, AuditionStep, AuditionReplyStep
<1>3. ASSUME NEW r \in Requests, Gateway(r) PROVE IInv'
  BY <1>3, GatewayStep
<1>4. CASE Vendor(Free) \/ Vendor(Others)
  BY <1>4, VendorStep
<1>5. CASE CancelSharedWait \/ SignOut \/ SignedOut \/ Enter \/ Unmount
  BY <1>5, CancelStep, SignOutStep, SignedOutStep, EnterStep, UnmountStep
<1>6. CASE UNCHANGED vars
  BY <1>6, StutterStep
<1> QED
  BY <1>1, <1>2, <1>3, <1>4, <1>5, <1>6 DEF Next

(* The inductive invariant holds of every reachable state (App.tsx         *)
(* driveGeneration, generate, cancelSharedWait).                           *)
THEOREM WaitInvariant == Spec => []IInv
  BY InitInv, NextInv, PTL DEF Spec

(* The ref knows every timer that is armed: there is never a second chain  *)
(* of retries (App.tsx clearHeldRetry).                                    *)
THEOREM NeverTwoTimers == Spec => []OneTimer
<1>1. IInv => OneTimer
  BY DEF IInv
<1> QED
  BY <1>1, WaitInvariant, PTL

(* The wait a viewer dismissed does not come back (App.tsx waitEpoch).     *)
THEOREM DismissalIsFinal == Spec => []DismissedStaysDismissed
<1>1. IInv => DismissedStaysDismissed
  BY DEF IInv
<1> QED
  BY <1>1, WaitInvariant, PTL

(* The control is never disabled by a wait that nothing will end (App.tsx  *)
(* blockedReason).                                                         *)
THEOREM NoDeadWait == Spec => []WaitIsLive
<1>1. IInv => WaitIsLive
  BY DEF IInv
<1> QED
  BY <1>1, WaitInvariant, PTL

(* A retry sends the request of the latest press, never an older one       *)
(* (App.tsx driveGeneration).                                              *)
THEOREM RetryIsPressed == Spec => RetrySendsPressed
<1> DEFINE Sends == \A c \in Chains : at[c] = "waiting" /\ at'[c] = "sent" => c = latest
<1>1. IInv /\ [Next]_vars => [Sends]_vars
  <2> SUFFICES ASSUME IInv, Next, NEW c \in Chains, at[c] = "waiting", at'[c] = "sent"
               PROVE  c = latest
    OBVIOUS
  <2>0. Data /\ ChainInv
    BY IInvParts
  <2> USE <2>0 DEF Data, Requests
  <2>1. ASSUME NEW d \in Chains, Generate(d) PROVE c = latest
    BY <2>1 DEF Generate, Drive
  <2>2. ASSUME NEW d \in Chains, ChainStep(d) PROVE c = latest
    <3>1. CASE Fire(d)
      BY <3>1 DEF Fire, Drive, ChainInv, TimerHoldsLatest
    <3>2. CASE Headers(d) \/ AttemptOver(d)
      BY <3>2 DEF Headers, AttemptOver
    <3>3. CASE Dropped(d) \/ Concluded(d) \/ Held(d)
      BY <3>3 DEF Dropped, Concluded, Held
    <3> QED
      BY <2>2, <3>1, <3>2, <3>3 DEF ChainStep
  <2>3. ASSUME NEW a \in Auditions, Audition(a) \/ AuditionReply(a) PROVE c = latest
    BY <2>3, GenerationAssumption DEF GenerationAssumption, Audition, AuditionReply
  <2>4. ASSUME NEW r \in Requests, Gateway(r) PROVE c = latest
    BY <2>4 DEF Gateway, Accepted, Refused, Fails, Unauthorised, Decided
  <2>5. ASSUME \/ Vendor(Free) \/ Vendor(Others) \/ CancelSharedWait \/ SignOut \/ SignedOut \/ Enter
               \/ Unmount \/ \E d \in Chains : RefreshGated(d)
        PROVE  c = latest
    BY <2>5 DEF Vendor, CancelSharedWait, SignOut, SignedOut, Enter, Unmount, RefreshGated
  <2> QED
    BY <2>1, <2>2, <2>3, <2>4, <2>5 DEF Next
<1> QED
  BY <1>1, WaitInvariant, PTL DEF Spec, RetrySendsPressed

-----------------------------------------------------------------------------
(* What lets Generate be pressed. The browser holds a copy of the gateway's  *)
(* ceilings (src/ui/src/state/draft.ts beside src/gateway/src/script.ts). TLC *)
(* compares the two along the requests of MCDemo; here they are compared for *)
(* every shape of text, every duration and every guidance scale.             *)

Ceiling == INSTANCE Ceilings
Copy == INSTANCE DraftGate

Shape == [cjk : Nat, other : Nat, words : Nat, punct : Nat]
Request == [mode : {"design", "clone"}, cfg : Nat, instruction : Shape, text : Shape,
            refText : Shape, refDuration : Int]
Gate == [reachable : BOOLEAN, generating : BOOLEAN, blocked : BOOLEAN]

(* The two estimates of a text agree, whatever its shape.                    *)
LEMMA SameEstimate ==
    ASSUME NEW t \in Shape
    PROVE  /\ Copy!EstimateTokens(t) = Ceiling!EstimateTokens(t)
           /\ Ceiling!EstimateTokens(t) \in Nat
<1>1. t.cjk \in Nat /\ t.other \in Nat /\ t.words \in Nat /\ t.punct \in Nat
  BY DEF Shape
<1>2. Ceiling!Larger(5 * t.other, 22 * t.words + 20 * t.punct)
        = Copy!Greater(t.other * 5, t.words * 22 + t.punct * 20)
  BY <1>1 DEF Ceiling!Larger, Copy!Greater
<1>3. Ceiling!Larger(5 * t.other, 22 * t.words + 20 * t.punct) \in Nat
  BY <1>1 DEF Ceiling!Larger
<1> QED
  BY <1>1, <1>2, <1>3
  DEF Ceiling!EstimateTokens, Ceiling!CeilDiv, Copy!EstimateTokens

(* An instruction and a text become the same line on both sides.             *)
LEMMA SameLine ==
    ASSUME NEW a \in Shape, NEW b \in Shape
    PROVE  /\ Copy!Spaced(a, b) = Ceiling!Joined(a, b)
           /\ Ceiling!Joined(a, b) \in Shape
<1>1. Copy!Empty = Ceiling!Nothing
  BY DEF Copy!Empty, Ceiling!Nothing
<1>2. DOMAIN a = {"cjk", "other", "words", "punct"}
  BY DEF Shape
<1>3. /\ a.cjk \in Nat /\ a.other \in Nat /\ a.words \in Nat /\ a.punct \in Nat
      /\ b.cjk \in Nat /\ b.other \in Nat /\ b.words \in Nat /\ b.punct \in Nat
  BY DEF Shape
<1>4. CASE a = Ceiling!Nothing \/ b = Ceiling!Nothing
  BY <1>1, <1>4 DEF Copy!Spaced, Ceiling!Joined
<1>5. CASE ~(a = Ceiling!Nothing \/ b = Ceiling!Nothing)
  <2> DEFINE s == [cjk |-> a.cjk + b.cjk, other |-> a.other + b.other + 1,
                   words |-> a.words + b.words, punct |-> a.punct + b.punct]
  <2>1. Ceiling!Joined(a, b) = s
    BY <1>5 DEF Ceiling!Joined
  <2>2. Copy!Spaced(a, b)
          = [field \in DOMAIN a |-> a[field] + b[field] + IF field = "other" THEN 1 ELSE 0]
    BY <1>1, <1>5 DEF Copy!Spaced
  <2>3. [field \in DOMAIN a |-> a[field] + b[field] + IF field = "other" THEN 1 ELSE 0] = s
    BY <1>2, <1>3
  <2>4. s \in Shape
    BY <1>3 DEF Shape
  <2> QED
    BY <2>1, <2>2, <2>3, <2>4
<1> QED
  BY <1>4, <1>5

(* So do the four quantities a request is measured by.                       *)
LEMMA SameMeasures ==
    ASSUME NEW r \in Request
    PROVE  /\ Copy!SpokenTokens(r) = Ceiling!Spoken(r)
           /\ Copy!TranscriptTokens(r) = Ceiling!Transcript(r)
           /\ Copy!AudioTokens(r) = Ceiling!Audio(r)
           /\ Ceiling!Spoken(r) \in Nat
           /\ Ceiling!Transcript(r) \in Nat
           /\ Ceiling!Audio(r) \in Nat
<1>1. r.instruction \in Shape /\ r.text \in Shape /\ r.refText \in Shape /\ r.refDuration \in Int
  BY DEF Request
<1>2. Copy!Empty = Ceiling!Nothing
  BY DEF Copy!Empty, Ceiling!Nothing
<1>3. Copy!SpokenTokens(r) = Ceiling!Spoken(r) /\ Ceiling!Spoken(r) \in Nat
  <2>1. Copy!Spaced(r.instruction, r.text) = Ceiling!Joined(r.instruction, r.text)
    BY <1>1, SameLine
  <2>2. Ceiling!Joined(r.instruction, r.text) \in Shape
    BY <1>1, SameLine
  <2>3. /\ Copy!EstimateTokens(Ceiling!Joined(r.instruction, r.text))
             = Ceiling!EstimateTokens(Ceiling!Joined(r.instruction, r.text))
        /\ Ceiling!EstimateTokens(Ceiling!Joined(r.instruction, r.text)) \in Nat
    BY <2>2, SameEstimate
  <2> QED
    BY <2>1, <2>3 DEF Copy!SpokenTokens, Ceiling!Spoken, Ceiling!TextReserve
<1>4. Copy!TranscriptTokens(r) = Ceiling!Transcript(r) /\ Ceiling!Transcript(r) \in Nat
  <2>1. /\ Copy!EstimateTokens(r.refText) = Ceiling!EstimateTokens(r.refText)
        /\ Ceiling!EstimateTokens(r.refText) \in Nat
    BY <1>1, SameEstimate
  <2> QED
    BY <1>2, <2>1 DEF Copy!TranscriptTokens, Ceiling!Transcript, Ceiling!TextReserve
<1>5. Copy!AudioTokens(r) = Ceiling!Audio(r) /\ Ceiling!Audio(r) \in Nat
  <2>1. /\ Copy!Greater(0, r.refDuration) = Ceiling!Larger(0, r.refDuration)
        /\ Ceiling!Larger(0, r.refDuration) \in Nat
    BY <1>1 DEF Copy!Greater, Ceiling!Larger
  <2>2. /\ Ceiling!AudioTokens(r.refDuration)
             = (Copy!Greater(0, r.refDuration) + 1) \div 2 + 1
        /\ Ceiling!AudioTokens(r.refDuration) \in Nat
    BY <2>1 DEF Ceiling!AudioTokens, Ceiling!CeilDiv, Ceiling!AudioReserve
  <2> QED
    BY <1>2, <2>2 DEF Copy!AudioTokens, Ceiling!Audio
<1> QED
  BY <1>3, <1>4, <1>5

LEMMA SameCeilings ==
    ASSUME NEW r \in Request
    PROVE  /\ Copy!CeilingByBatch(Copy!TextEncoderBatch(r.mode, r.cfg))
                = Ceiling!CeilingByBatch(Ceiling!TextEncoderBatch(r.mode, r.cfg))
           /\ Copy!CeilingByBatch(Copy!BackboneBatch(r.cfg))
                = Ceiling!CeilingByBatch(Ceiling!BackbonePrefillBatch(r.cfg))
BY DEF Request, Copy!CeilingByBatch, Copy!TextEncoderBatch, Copy!BackboneBatch,
       Ceiling!CeilingByBatch, Ceiling!TextEncoderBatch, Ceiling!BackbonePrefillBatch,
       Ceiling!Segments, Ceiling!Branches, Ceiling!Ceiling256, Ceiling!Ceiling512

(* What the gateway refuses, in the browser's terms.                         *)
LEMMA BreachIsOverOneCeiling ==
    ASSUME NEW r \in Request
    PROVE  LET encoder == Copy!CeilingByBatch(Copy!TextEncoderBatch(r.mode, r.cfg))
               backbone == Copy!CeilingByBatch(Copy!BackboneBatch(r.cfg))
               spoken == Copy!SpokenTokens(r)
               transcript == Copy!TranscriptTokens(r)
           IN Ceiling!FindCeilingBreach(r) = Ceiling!NoBreach
                <=> /\ ~(spoken > encoder \/ transcript > encoder)
                    /\ ~(spoken + transcript + Copy!AudioTokens(r) > backbone)
<1> DEFINE encoder == Ceiling!CeilingByBatch(Ceiling!TextEncoderBatch(r.mode, r.cfg))
           backbone == Ceiling!CeilingByBatch(Ceiling!BackbonePrefillBatch(r.cfg))
           spoken == Ceiling!Spoken(r)
           transcript == Ceiling!Transcript(r)
           audio == Ceiling!Audio(r)
           worst == IF transcript > spoken
                    THEN [field |-> "transcript", tokens |-> transcript]
                    ELSE [field |-> Ceiling!HalfAtFault(r), tokens |-> spoken]
<1>1. spoken \in Nat /\ transcript \in Nat /\ audio \in Nat
  BY SameMeasures
<1>2. encoder \in Nat /\ backbone \in Nat
  BY DEF Ceiling!CeilingByBatch, Ceiling!Ceiling256, Ceiling!Ceiling512
<1>3. worst.tokens > encoder <=> spoken > encoder \/ transcript > encoder
  BY <1>1, <1>2
<1>4. Ceiling!FindCeilingBreach(r)
        = IF worst.tokens > encoder
          THEN [field |-> worst.field, stage |-> "text-encoder",
                tokens |-> worst.tokens, ceiling |-> encoder]
          ELSE IF spoken + (transcript + audio) <= backbone THEN Ceiling!NoBreach
          ELSE [field |-> IF transcript + audio > spoken
                          THEN "reference" ELSE Ceiling!HalfAtFault(r),
                stage |-> "backbone-prefill",
                tokens |-> spoken + (transcript + audio), ceiling |-> backbone]
  BY DEF Ceiling!FindCeilingBreach
<1>5. Ceiling!NoBreach.stage = "none"
  BY DEF Ceiling!NoBreach
<1>6. Ceiling!FindCeilingBreach(r) = Ceiling!NoBreach
        <=> ~(worst.tokens > encoder) /\ spoken + (transcript + audio) <= backbone
  <2> HIDE DEF worst, encoder, backbone, spoken, transcript, audio
  <2> QED BY <1>4, <1>5
<1>7. spoken + (transcript + audio) <= backbone <=> ~(spoken + transcript + audio > backbone)
  <2> HIDE DEF encoder, backbone, spoken, transcript, audio
  <2> QED BY <1>1, <1>2
<1> QED
  BY <1>3, <1>6, <1>7, SameMeasures, SameCeilings

(* Whatever leaves Generate enabled, no ceiling of the gateway refuses: the  *)
(* copy in draft.ts never lets through what findCeilingBreach rejects.       *)
THEOREM EnabledIsServed ==
    ASSUME NEW r \in Request, NEW gate \in Gate,
           Copy!GenerateBlockedReason(r, gate) = "none"
    PROVE  Ceiling!FindCeilingBreach(r) = Ceiling!NoBreach
BY BreachIsOverOneCeiling DEF Copy!GenerateBlockedReason

(* And the button is never disabled over a ceiling for a request the gateway *)
(* would have served.                                                        *)
THEOREM RefusedOnlyWhenRefused ==
    ASSUME NEW r \in Request, NEW gate \in Gate,
           Copy!GenerateBlockedReason(r, gate) \in {"encoder", "backbone"}
    PROVE  Ceiling!FindCeilingBreach(r) # Ceiling!NoBreach
BY BreachIsOverOneCeiling DEF Copy!GenerateBlockedReason, Gate
=============================================================================
