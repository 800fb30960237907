-------------------------------- MODULE Session --------------------------------
(* The browser's side of the gate (ui/src/App.tsx, components/AccessGate.tsx,*)
(* api/client.ts), composed with the gateway's: tabs that call, are refused, *)
(* show the password field over a console that keeps its state, and come     *)
(* back; and the question each one asks about the reference it restored.     *)
EXTENDS AuthGate

VARIABLES
    tab,        \* each tab's state
    calls,      \* each tab's call of a route behind the gate
    staged,     \* the reference of the restored draft is on the gateway
    gone,       \* ghost: tabs whose restored reference had expired when they opened
    excused     \* ghost: tabs whose check was lost, or on its way in a re-entry

vars == <<gate, tab, calls, staged, gone, excused>>
ghosts == <<gone, excused>>

(* gated: the gate is shown; check: what became of the question about the    *)
(* restored reference: "restored", still to be asked; on its way; answered   *)
(* with one of Answers; "told", its expiry is on the screen; or settled.     *)
Answers == {"alive", "gone", "401", "lost"}
Flying == {"sent"} \cup Answers

TypeOK ==
    /\ GateTypeOK
    /\ calls \in [Tabs -> {"none", "sent", "401"}]
    /\ tab \in [Tabs -> [open : BOOLEAN, gated : BOOLEAN,
                         check : {"restored", "told", "settled"} \cup Flying]]

Init ==
    /\ GateInit
    /\ tab = [t \in Tabs |-> [open |-> FALSE, gated |-> FALSE, check |-> "restored"]]
    /\ calls = [t \in Tabs |-> "none"]
    /\ staged = TRUE /\ gone = {} /\ excused = {}

Inside(t) == tab[t].open /\ ~ tab[t].gated

-----------------------------------------------------------------------------
(* Both effects that run when the console is first shown and again after     *)
(* every re-entry: the console loads, and a restored reference is asked      *)
(* about, which takes the question off the list.                             *)
Shown(record) ==
    [record EXCEPT !.gated = FALSE, !.check = IF @ = "restored" THEN "sent" ELSE @]

Open(t) ==
    /\ ~ tab[t].open
    /\ tab' = [tab EXCEPT ![t] = Shown([@ EXCEPT !.open = TRUE])]
    /\ calls' = [calls EXCEPT ![t] = "sent"]
    /\ gone' = IF staged THEN gone ELSE gone \cup {t}
    /\ UNCHANGED <<gate, staged, excused>>

(* A call of the console, and the onRequest hook that refuses it or lets it  *)
(* through; a call that is let through or lost leaves the gate as it is.     *)
CallSomething(t) ==
    /\ Inside(t) /\ calls[t] = "none"
    /\ calls' = [calls EXCEPT ![t] = "sent"]
    /\ UNCHANGED <<gate, tab, staged, ghosts>>

AnswerCall(t) ==
    /\ calls[t] = "sent"
    /\ \E answer \in {IF LoggedIn THEN "none" ELSE "401", "none"} :
          calls' = [calls EXCEPT ![t] = answer]
    /\ UNCHANGED <<gate, tab, staged, ghosts>>

(* referenceExists: a refusal is an answer of its own, and raises the gate.  *)
AnswerCheck(t) ==
    /\ tab[t].check = "sent"
    /\ \E answer \in {IF ~ LoggedIn THEN "401" ELSE IF staged THEN "alive" ELSE "gone",
                      "lost"} :
          tab' = [tab EXCEPT ![t].check = answer]
    /\ UNCHANGED <<gate, calls, staged, ghosts>>

(* onAuthRequired: the gate is shown, nothing else of the console changes.   *)
TakeRefusal(t) ==
    /\ calls[t] = "401"
    /\ calls' = [calls EXCEPT ![t] = "none"]
    /\ tab' = [tab EXCEPT ![t].gated = TRUE]
    /\ UNCHANGED <<gate, staged, ghosts>>

After(answer) == CASE answer = "alive" -> "settled"
                   [] answer = "gone"  -> "told"
                   [] OTHER            -> "restored"

\* mutant: a question that was refused is not asked again
TakeCheckOnce(t) ==
    /\ tab[t].check \in Answers
    /\ tab' = [tab EXCEPT ![t].check = IF @ = "401" THEN "settled" ELSE After(@),
                          ![t].gated = @ \/ tab[t].check = "401"]
    /\ excused' = IF tab[t].check = "lost" THEN excused \cup {t} ELSE excused
    /\ UNCHANGED <<gate, calls, staged, gone>>

(* The answer to the check. A refused or lost one puts the question back.    *)
TakeCheck(t) ==
    /\ tab[t].check \in Answers
    /\ tab' = [tab EXCEPT ![t].check = After(@), ![t].gated = @ \/ tab[t].check = "401"]
    /\ excused' = IF tab[t].check = "lost" THEN excused \cup {t} ELSE excused
    /\ UNCHANGED <<gate, calls, staged, gone>>

(* The staged audio expires on the gateway, which tells nobody.              *)
Expire ==
    /\ staged /\ staged' = FALSE
    /\ UNCHANGED <<gate, tab, calls, ghosts>>

-----------------------------------------------------------------------------
(* AccessGate submit: one attempt at a time.                                 *)
Submit(t, right) ==
    /\ tab[t].gated /\ attempt[t] = NoAttempt
    /\ right \/ wrong < MaxWrong
    /\ wrong' = IF right THEN wrong ELSE wrong + 1
    /\ attempt' = [attempt EXCEPT ![t].at = "sent", ![t].right = right]
    /\ UNCHANGED <<session, window, restarts, tab, calls, staged, ghosts>>

\* mutant: the form stays busy when the demo could not be reached
TakeOutcomeStuck(t) ==
    /\ attempt[t].at \in Outcomes \ {"lost"}
    /\ attempt' = [attempt EXCEPT ![t] = NoAttempt]
    /\ IF attempt[t].at = "accepted"
       THEN /\ session' = attempt[t].age
            /\ tab' = [tab EXCEPT ![t] = Shown(@)]
            /\ calls' = [calls EXCEPT ![t] = IF @ = "none" THEN "sent" ELSE @]
       ELSE UNCHANGED <<session, tab, calls>>
    /\ UNCHANGED <<window, wrong, restarts, staged, ghosts>>

(* Somebody else at the same address, with a cookie of their own.            *)
Elsewhere(c) ==
    /\ \/ /\ attempt[c] = NoAttempt /\ wrong < MaxWrong
          /\ \E right \in BOOLEAN :
               attempt' = [attempt EXCEPT ![c].at = "sent", ![c].right = right]
          /\ wrong' = wrong + 1
       \/ /\ attempt[c].at \in Outcomes
          /\ attempt' = [attempt EXCEPT ![c] = NoAttempt]
          /\ UNCHANGED wrong
    /\ UNCHANGED <<session, window, restarts, tab, calls, staged, ghosts>>

(* createSession's outcome: shown in place, or the console comes back with   *)
(* the new cookie and loads again.                                           *)
TakeOutcome(t) ==
    /\ attempt[t].at \in Outcomes
    /\ attempt' = [attempt EXCEPT ![t] = NoAttempt]
    /\ IF attempt[t].at = "accepted"
       THEN /\ session' = attempt[t].age
            /\ tab' = [tab EXCEPT ![t] = Shown(@)]
            /\ calls' = [calls EXCEPT ![t] = IF @ = "none" THEN "sent" ELSE @]
            /\ excused' = IF tab[t].check \in Flying THEN excused \cup {t} ELSE excused
       ELSE UNCHANGED <<session, tab, calls, excused>>
    /\ UNCHANGED <<window, wrong, restarts, staged, gone>>

(* signOut: the gate is shown when DELETE has been answered, or has failed,  *)
(* a failure endSession swallows.                                            *)
SignOut(t) ==
    /\ Inside(t)
    /\ session' \in {Lifetime, session}
    /\ tab' = [tab EXCEPT ![t].gated = TRUE]
    /\ UNCHANGED <<window, attempt, wrong, restarts, calls, staged, ghosts>>

-----------------------------------------------------------------------------
Verification(c) ==
    /\ Admit(c) \/ Reject(c) \/ Accept(c)
    /\ UNCHANGED <<tab, calls, staged, ghosts>>

Time == Tick /\ UNCHANGED <<tab, calls, staged, ghosts>>

GatewayRestart == Restart /\ UNCHANGED <<tab, calls, staged, ghosts>>

Underway(t) ==
    \/ AnswerCall(t) \/ AnswerCheck(t) \/ TakeRefusal(t) \/ TakeCheck(t)
    \/ TakeOutcome(t)

Next ==
    \/ \E t \in Tabs :
         \/ Underway(t) \/ Open(t) \/ CallSomething(t) \/ SignOut(t)
         \/ \E right \in BOOLEAN : Submit(t, right)
    \/ \E c \in Clients : Verification(c)
    \/ \E c \in Others : Elsewhere(c)
    \/ Expire \/ Time \/ GatewayRestart

Spec == Init /\ [][Next]_vars

(* Calls are answered or fail and time passes; the operator of a gated tab   *)
(* types the right password again and again.                                 *)
FairSpec ==
    /\ Spec
    /\ WF_vars(Time)
    /\ \A c \in Clients : WF_vars(Verification(c))
    /\ \A t \in Tabs : WF_vars(Underway(t)) /\ WF_vars(Submit(t, TRUE))

-----------------------------------------------------------------------------
(* A tab that restored a reference the gateway no longer had says so once    *)
(* it is at rest with the console shown, though the gate refused its first   *)
(* question; unless the check was lost, or was on its way during a re-entry. *)
ExpiryNoticed ==
    /\ TypeOK
    /\ \A t \in gone \ excused : Inside(t) /\ tab[t].check \notin Flying => tab[t].check = "told"

(* Whoever knows the password gets in: no count of failures, restart, lost   *)
(* answer or expiry shuts a tab out for good.                                *)
GetsIn == \A t \in Tabs : tab[t].gated ~> ~ tab[t].gated

(* What the code does not keep: a tab shows the gate only while the browser  *)
(* has no session, or another tab opened the one it has. A refusal from      *)
(* before the password was accepted, taken after it, shows the gate again.   *)
GateIsNeeded ==
    [][\A t \in Tabs :
         ~ tab[t].gated /\ tab[t]'.gated /\ ~ SignOut(t) => ~ LoggedIn]_vars
=============================================================================
