------------------------------- MODULE AuthGate -------------------------------
(* The gateway's access gate (gateway/src/auth): sessions kept in memory for *)
(* a fixed time, and a limiter that counts the failed attempts of one source *)
(* over a fixed window. The attempts come from the tabs of one browser,      *)
(* which share its cookie, and from others behind the same address.          *)
(*                                                                           *)
(* Time is kept as ages. Sessions and windows are swept before every use of  *)
(* the store that holds them, so an expired one is taken away by the tick    *)
(* that makes it expire. A session no cookie and no answer names is out of   *)
(* everybody's reach and is not kept.                                        *)
EXTENDS Naturals, FiniteSets

CONSTANTS
    Tabs, Others,
    Lifetime,     \* SESSION_LIFETIME_MS, in ticks
    Window,       \* DEFAULT_WINDOW_MS, in ticks
    MaxAttempts,  \* DEFAULT_MAX_ATTEMPTS
    MaxWrong,     \* bound on wrong passwords and on what others try
    MaxRestarts   \* bound on the gateway's restarts

ASSUME AuthGateAssumption ==
    /\ IsFiniteSet(Tabs) /\ Tabs # {}
    /\ IsFiniteSet(Others) /\ Tabs \cap Others = {}
    /\ Lifetime \in Nat \ {0} /\ Window \in Nat \ {0}
    /\ MaxAttempts \in Nat \ {0} /\ MaxWrong \in Nat /\ MaxRestarts \in Nat

Clients == Tabs \cup Others

VARIABLES
    session,   \* age of the session the browser's cookie names; Lifetime: none
    window,    \* the limiter's entry for the browser's address
    attempt,   \* each client's POST /api/session
    wrong, restarts

gate == <<session, window, attempt, wrong, restarts>>

Closed == [count |-> 0, age |-> 0]     \* no failures recorded
NoAttempt == [at |-> "none", right |-> FALSE, age |-> Lifetime]

Outcomes == {"accepted", "rejected", "limited", "lost"}

GateTypeOK ==
    /\ session \in 0..Lifetime
    /\ window \in [count : Nat, age : 0..(Window - 1)]
    /\ attempt \in [Clients -> [at : {"none", "sent", "verifying"} \cup Outcomes,
                             right : BOOLEAN, age : 0..Lifetime]]
    /\ wrong \in Nat /\ restarts \in Nat

GateInit ==
    /\ session = Lifetime /\ window = Closed
    /\ attempt = [c \in Clients |-> NoAttempt]
    /\ wrong = 0 /\ restarts = 0

LoggedIn == session < Lifetime      \* SessionStore.verify of the cookie

-----------------------------------------------------------------------------
\* mutant: the failures are counted, and every attempt is verified
AdmitAny(c) ==
    /\ attempt[c].at = "sent"
    /\ attempt' = [attempt EXCEPT ![c].at = "verifying"]
    /\ UNCHANGED <<session, window, wrong, restarts>>

(* POST up to the verification, which takes a while: limiter.check.          *)
Admit(c) ==
    /\ attempt[c].at = "sent"
    /\ attempt' = [attempt EXCEPT ![c].at =
                     IF window.count < MaxAttempts THEN "verifying" ELSE "limited"]
    /\ UNCHANGED <<session, window, wrong, restarts>>

(* limiter.record: the window opens with its first failure.                  *)
Reject(c) ==
    /\ attempt[c].at = "verifying" /\ ~ attempt[c].right
    /\ window' = [window EXCEPT !.count = @ + 1]
    /\ attempt' = [attempt EXCEPT ![c].at = "rejected"]
    /\ UNCHANGED <<session, wrong, restarts>>

(* limiter.clear and sessions.create: the answer carries the new cookie.     *)
Accept(c) ==
    /\ attempt[c].at = "verifying" /\ attempt[c].right
    /\ window' = Closed
    /\ attempt' = [attempt EXCEPT ![c].at = "accepted", ![c].right = FALSE, ![c].age = 0]
    /\ UNCHANGED <<session, wrong, restarts>>

Older(age) == IF age < Lifetime THEN age + 1 ELSE Lifetime

(* Time passes for the sessions and for an open window.                      *)
Tick ==
    /\ session' = Older(session)
    /\ attempt' = [c \in Clients |-> [attempt[c] EXCEPT !.age = Older(@)]]
    /\ window' = IF window = Closed \/ window.age + 1 = Window THEN Closed
                 ELSE [window EXCEPT !.age = @ + 1]
    /\ UNCHANGED <<wrong, restarts>>

(* Sessions and windows are in memory; what was being answered is cut off.   *)
Restart ==
    /\ restarts < MaxRestarts /\ restarts' = restarts + 1
    /\ session' = Lifetime /\ window' = Closed
    /\ attempt' = [c \in Clients |->
                     [at |-> IF attempt[c].at \in {"sent", "verifying"} THEN "lost"
                             ELSE attempt[c].at,
                      right |-> attempt[c].right, age |-> Lifetime]]
    /\ UNCHANGED wrong

-----------------------------------------------------------------------------
Verifying == {c \in Clients : attempt[c].at = "verifying"}

(* Whatever the order of check, verification and record (auth/plugin.ts      *)
(* 189-216), the failures of one window stay below the ceiling plus the      *)
(* attempts that were already being verified when it was reached: at most    *)
(* one a client, the first of which reached the ceiling itself.              *)
AttemptsBounded == window.count <= MaxAttempts + Cardinality(Clients) - 1
=============================================================================
