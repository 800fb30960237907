---------------------------- MODULE AccessProofs ----------------------------
(* How the operator gets to the application, the installation that leaves  *)
(* it ready to start and the gate in front of it, and what the application *)
(* then makes of a recording and of a press of Generate.                   *)
(*                                                                         *)
(* Setup, stopped anywhere and any number of times, with anything done to  *)
(* the file, the sign-in and the deployments between the runs, from any    *)
(* .env in which no key is assigned twice. The invariant says how far a    *)
(* run has come: what the phases behind it found or did still stands,      *)
(* since nothing outside happens during a run. Whatever stands when no run *)
(* is at work is found again by the next.                                  *)
(*                                                                         *)
(* Session, for any number of clients, any ceiling and any windows. A      *)
(* failure is counted only after a verification that was let through, so   *)
(* the failures and the verifications that may still become failures       *)
(* together stay below the ceiling plus the clients (Budget): the bound    *)
(* alone is not inductive, since it says nothing of those verifications.   *)
(* And a tab whose restored reference expired has its question about it    *)
(* under way, answered, or behind the gate to be put again (NoticeInv).    *)
(*                                                                         *)
(* Demo, for any uploads, recordings, voices, lines and limits. Its        *)
(* invariant is that of its last use (Good): the two counts of a request,  *)
(* the page's and the gateway's, are equal (PageCounts, GatewayCounts);    *)
(* the window that the page settles on has nothing left to snap (Moved,    *)
(* NothingToSnap); and the audio that is cut from it is counted as short.  *)
EXTENDS Demo, Session, FiniteSetTheorems, TLAPS

FromAccount == Steps \ {"off", "preflight", "python", "venv", "install"}
FromCredentials == FromAccount \ {"account", "signIn"}
FromSynthesis == FromCredentials \ {"credentials", "pair"}
FromUrl == FromSynthesis \ {"synthesis", "deployEnv", "weights", "deploy"}
FromAsr == FromUrl \ {"url"}
FromMeasure == {"measure", "build", "finish", "ready"}
ToAsr == FromCredentials \ (FromMeasure \cup {"asrWeights", "asrDeploy", "asrUrl"})

Walked ==
    /\ at \in FromAccount => venv = "ready"
    /\ at \in FromCredentials => signedIn
    /\ at \in {"finish", "ready"} => built

(* The listing is made once a run.  A synthesis service it lists is there, *)
(* and until the run deploys transcription, what it does not list is not.  *)
Listed ==
    /\ at \in FromCredentials /\ apps.synthesis => cloud.synthesis # Unset
    /\ at \in ToAsr /\ cloud.asr => apps.asr

Entered ==
    /\ at \in FromSynthesis => ValidPair(env["PAIR"])
    /\ at \in FromUrl => cloud.synthesis # Unset
    /\ at \in FromAsr => ~ Absent(env["URL"])
    /\ at \in FromMeasure /\ cloud.asr => ~ Absent(env["ASR"])
    /\ cloud.synthesis # Unset => cloud.weights

(* The window is saved before the deployment: in between, the answer says  *)
(* what will be deployed.                                                  *)
Windowed ==
    /\ at \in {"weights", "deploy"} => /\ answers.window \in Windows
                                       /\ env["WINDOW"] = answers.window
    /\ ~ half /\ meddling = 0 /\ cloud.synthesis # Unset => env["WINDOW"] = cloud.synthesis

SetupInv == SetupTypeOK /\ Once(file) /\ Walked /\ Listed /\ Entered /\ Windowed

-----------------------------------------------------------------------------
(* Where a key is assigned once, its assignment is the one that is read.   *)
LEMMA OneIsRead ==
    ASSUME NEW lines \in Seq(Assignment), Once(lines), NEW key \in Keys,
           NEW i \in DOMAIN lines, lines[i].key = key
    PROVE  Parse(lines)[key] = lines[i].value
<1>1. At(lines, key) = {i}
  BY DEF At, Once
<1>2. (CHOOSE k \in At(lines, key) : \A j \in At(lines, key) : j <= k) = i
  <2>1. i \in At(lines, key) /\ \A j \in At(lines, key) : j <= i
    BY <1>1
  <2>2. \A k : (k \in At(lines, key) /\ \A j \in At(lines, key) : j <= k) => k = i
    BY <1>1
  <2> QED
    BY <2>1, <2>2
<1> QED
  BY <1>1, <1>2 DEF Parse

(* parseEnvFile: a key without an assignment has no value.                 *)
LEMMA NoneIsUnset ==
    ASSUME NEW lines, NEW key \in Keys, At(lines, key) = {}
    PROVE  Parse(lines)[key] = Unset
BY DEF Parse

(* upsertEnvValues: what is saved is what is read, the other keys read as  *)
(* before, and a key assigned once stays so.                               *)
LEMMA SavedIsRead ==
    ASSUME NEW lines \in Seq(Assignment), Once(lines),
           NEW key \in Keys, NEW value \in Values
    PROVE  /\ Upsert(lines, key, value) \in Seq(Assignment)
           /\ Once(Upsert(lines, key, value))
           /\ Parse(Upsert(lines, key, value)) = [Parse(lines) EXCEPT ![key] = value]
<1> DEFINE after == Upsert(lines, key, value)
<1> DEFINE line == [key |-> key, value |-> value]
<1>0. line \in Assignment /\ line.key = key /\ line.value = value
  BY DEF Assignment
<1>1. SUFFICES /\ after \in Seq(Assignment) /\ Once(after)
               /\ Parse(after)[key] = value
               /\ \A k \in Keys \ {key} : Parse(after)[k] = Parse(lines)[k]
  <2>1. \A s : Parse(s) = [k \in Keys |-> Parse(s)[k]]
    BY DEF Parse
  <2>2. Parse(after) = [k \in Keys |-> IF k = key THEN value ELSE Parse(lines)[k]]
    <3>1. \A k \in Keys : Parse(after)[k] = IF k = key THEN value ELSE Parse(lines)[k]
      OBVIOUS
    <3> HIDE DEF after
    <3> QED
      BY <2>1, <3>1
  <2>3. [Parse(lines) EXCEPT ![key] = value]
            = [k \in Keys |-> IF k = key THEN value ELSE Parse(lines)[k]]
    BY <2>1
  <2> QED
    BY <2>2, <2>3
<1>2. CASE At(lines, key) = {}
  <2> DEFINE n == Len(lines) + 1
  <2>1. after = Append(lines, line)
    BY <1>2 DEF Upsert
  <2>2. /\ after \in Seq(Assignment) /\ DOMAIN after = 1..n /\ DOMAIN lines = 1..(n - 1)
        /\ after[n] = line /\ \A i \in DOMAIN lines : after[i] = lines[i]
    BY <1>0, <2>1
  <2>3. \A i \in DOMAIN lines : lines[i].key # key
    BY <1>2 DEF At
  <2>4. \A i \in DOMAIN after : i = n \/ i \in DOMAIN lines
    BY <2>2
  <2> HIDE DEF after, line, n
  <2>5. Once(after)
    BY <1>0, <2>2, <2>3, <2>4 DEF Once
  <2>6. n \in DOMAIN after /\ DOMAIN lines \subseteq DOMAIN after
    BY <2>2 DEF n
  <2>7. Parse(after)[key] = value
    BY <1>0, <2>2, <2>5, <2>6, OneIsRead
  <2>8. ASSUME NEW k \in Keys \ {key}
        PROVE  Parse(after)[k] = Parse(lines)[k]
    <3>1. CASE At(lines, k) = {}
      <4>1. At(after, k) = {}
        BY <1>0, <2>2, <2>4, <3>1 DEF At
      <4> QED
        BY <3>1, <4>1, NoneIsUnset
    <3>2. CASE At(lines, k) # {}
      <4>1. PICK i \in DOMAIN lines : lines[i].key = k
        BY <3>2 DEF At
      <4>2. i \in DOMAIN after /\ after[i].key = k /\ after[i].value = lines[i].value
        BY <2>2, <2>6, <4>1
      <4> QED
        BY <2>2, <2>5, <4>1, <4>2, OneIsRead
    <3> QED
      BY <3>1, <3>2
  <2> QED
    BY <2>2, <2>5, <2>7, <2>8 DEF after
<1>3. CASE At(lines, key) # {}
  <2>1. PICK o \in DOMAIN lines : lines[o].key = key
    BY <1>3 DEF At
  <2>2. At(lines, key) = {o}
    BY <2>1 DEF At, Once
  <2>3. (CHOOSE i \in At(lines, key) : \A j \in At(lines, key) : i <= j) = o
    <3>1. o \in At(lines, key) /\ \A j \in At(lines, key) : o <= j
      BY <2>2
    <3>2. \A i : (i \in At(lines, key) /\ \A j \in At(lines, key) : i <= j) => i = o
      BY <2>2
    <3> QED
      BY <3>1, <3>2
  <2>4. after = [lines EXCEPT ![o].value = value]
    BY <1>3, <2>3 DEF Upsert
  <2>5. lines[o] \in Assignment
    BY <2>1
  <2>6. /\ [lines[o] EXCEPT !.value = value] \in Assignment
        /\ [lines[o] EXCEPT !.value = value].key = key
        /\ [lines[o] EXCEPT !.value = value].value = value
    BY <2>1, <2>5 DEF Assignment
  <2>7. /\ after \in Seq(Assignment) /\ DOMAIN after = DOMAIN lines
        /\ after[o].key = key /\ after[o].value = value
        /\ \A i \in DOMAIN lines \ {o} : after[i] = lines[i]
    <3> DEFINE new == [lines[o] EXCEPT !.value = value]
    <3>1. after = [lines EXCEPT ![o] = new]
      BY <2>4
    <3>2. new \in Assignment /\ new.key = key /\ new.value = value
      BY <2>6
    <3> HIDE DEF new
    <3>3. after \in Seq(Assignment)
      BY <2>1, <3>1, <3>2
    <3> QED
      BY <2>1, <3>1, <3>2, <3>3
  <2> HIDE DEF after
  <2>8. \A i \in DOMAIN lines : after[i].key = lines[i].key
    BY <2>1, <2>7
  <2>9. Once(after)
    BY <2>7, <2>8 DEF Once
  <2>10. Parse(after)[key] = value
    BY <2>1, <2>7, <2>9, OneIsRead
  <2>11. ASSUME NEW k \in Keys \ {key}
         PROVE  Parse(after)[k] = Parse(lines)[k]
    <3>1. CASE At(lines, k) = {}
      <4>1. At(after, k) = {}
        BY <2>7, <2>8, <3>1 DEF At
      <4> QED
        BY <3>1, <4>1, NoneIsUnset
    <3>2. CASE At(lines, k) # {}
      <4>1. PICK i \in DOMAIN lines : lines[i].key = k
        BY <3>2 DEF At
      <4>2. i \in DOMAIN after /\ after[i].key = k /\ after[i].value = lines[i].value
        BY <2>1, <2>7, <2>8, <4>1
      <4> QED
        BY <2>7, <2>9, <4>1, <4>2, OneIsRead
    <3> QED
      BY <3>1, <3>2
  <2> QED
    BY <2>7, <2>9, <2>10, <2>11 DEF after
<1> QED
  BY <1>2, <1>3

(* Walkthrough.save: the file stays well formed, and one value changes.    *)
LEMMA SaveStep ==
    ASSUME SetupInv, NEW key \in Keys, NEW value \in Values, Save(key, value)
    PROVE  /\ file' \in Seq(Assignment) /\ Once(file)'
           /\ env' = [env EXCEPT ![key] = value]
<1>1. file \in Seq(Assignment) /\ Once(file) /\ file' = Upsert(file, key, value)
  BY DEF SetupInv, SetupTypeOK, Save
<1> QED
  BY <1>1, SavedIsRead DEF env, Once

(* A deleted assignment leaves the others where they were, or one earlier. *)
LEMMA LineLost ==
    ASSUME NEW lines \in Seq(Assignment), Once(lines), NEW i \in DOMAIN lines
    PROVE  WithoutLine(lines, i) \in Seq(Assignment) /\ Once(WithoutLine(lines, i))
<1> DEFINE rest == WithoutLine(lines, i)
<1> DEFINE n == Len(lines)
<1>1. n \in Nat /\ DOMAIN lines = 1..n /\ i \in 1..n
  OBVIOUS
<1>2. rest = [j \in 1 .. n - 1 |-> IF j < i THEN lines[j] ELSE lines[j + 1]]
  BY DEF WithoutLine
<1>3. \A j \in 1 .. n - 1 : /\ j \in DOMAIN lines /\ j + 1 \in DOMAIN lines
                            /\ lines[j] \in Assignment /\ lines[j + 1] \in Assignment
  BY <1>1
<1>4. rest \in [1 .. n - 1 -> Assignment]
  BY <1>2, <1>3
<1>5. n - 1 \in Nat
  BY <1>1
<1>6. rest \in Seq(Assignment) /\ DOMAIN rest = 1 .. n - 1
  <2> HIDE DEF rest, n
  <2>1. \A m \in Nat : [1 .. m -> Assignment] \subseteq Seq(Assignment)
    OBVIOUS
  <2> QED
    BY <1>4, <1>5, <2>1
<1>7. ASSUME NEW j \in 1 .. n - 1, NEW k \in 1 .. n - 1, rest[j].key = rest[k].key
      PROVE  j = k
  <2> DEFINE from(p) == IF p < i THEN p ELSE p + 1
  <2>1. rest[j] = lines[from(j)] /\ rest[k] = lines[from(k)]
    BY <1>2
  <2>2. from(j) \in DOMAIN lines /\ from(k) \in DOMAIN lines
    BY <1>3
  <2>3. from(j) = from(k)
    BY <1>7, <2>1, <2>2 DEF Once
  <2> QED
    BY <1>1, <2>3
<1> QED
  BY <1>6, <1>7 DEF Once

(* loadConfig: every key is looked up.                                     *)
LEMMA EnvValues == DOMAIN env = Keys
BY DEF env, Parse

(* The keys and values of the phases are ones the file may hold.           *)
LEMMA KeysAre == /\ {"PAIR", "URL", "ASR", "WINDOW"} \subseteq Keys
                 /\ "proxyPair" \in Values /\ "url" \in Values /\ Blank \in Values
                 /\ Malformed \in Values /\ Windows \subseteq Values
BY DEF Keys, Optional, Values

(* What is read changes with the file alone.                               *)
LEMMA FileStays == ASSUME UNCHANGED file PROVE UNCHANGED env
BY DEF env

-----------------------------------------------------------------------------
(* Before the first run (Walkthrough's constructor).                       *)
LEMMA SetupBegins == ASSUME Once(FirstFile), SetupInit PROVE SetupInv
<1>1. at = "off" /\ file = FirstFile /\ cloud.synthesis = Unset /\ cloud.asr = FALSE
  BY DEF SetupInit
<1>2. SetupTypeOK
  <2>1. at \in Steps
    BY <1>1 DEF Steps
  <2>2. file \in Seq(Assignment)
    BY <1>1, SetupAssumption
  <2>3. venv \in {"none", "bare", "ready"} /\ {signedIn, built, half} \subseteq BOOLEAN
    <3>1. venv = "none" /\ signedIn = FALSE /\ built = FALSE /\ half = FALSE
      BY DEF SetupInit
    <3> QED
      BY <3>1, Zenon
  <2>5. stops \in 0..MaxStops /\ meddling \in 0..MaxMeddling
    <3>1. stops = 0 /\ meddling = 0
      BY DEF SetupInit
    <3> QED
      BY <3>1, SetupAssumption
  <2>4. /\ cloud \in [synthesis : {Unset} \cup Windows, asr : BOOLEAN,
                      weights : BOOLEAN, asrWeights : BOOLEAN]
        /\ apps \in [synthesis : BOOLEAN, asr : BOOLEAN]
        /\ answers \in [deploy : BOOLEAN, window : {Unset} \cup Windows]
    BY DEF SetupInit, NoAnswers
  <2> QED
    BY <2>1, <2>2, <2>3, <2>4, <2>5, Zenon DEF SetupTypeOK
<1> QED
  BY <1>1, <1>2 DEF SetupInv, Walked, Listed, Entered, Windowed, FromAccount,
     FromCredentials, FromSynthesis, FromUrl, FromAsr, FromMeasure, ToAsr

(* Every phase, and every way out of one (Walkthrough.run, main), keeps    *)
(* the invariant: SaveStep where the file is written, FileStays elsewhere. *)
LEMMA SetupGoesOn == ASSUME SetupInv, [SetupNext]_setupVars PROVE SetupInv'
<1> USE SetupAssumption, KeysAre, EnvValues
<1> USE DEF SetupInv, Walked, Listed, Entered, Windowed, FromAccount,
    FromCredentials, FromSynthesis, FromUrl, FromAsr, FromMeasure, ToAsr,
    SetupTypeOK, Steps, Go, Quiet, machine, NoAnswers, HasUrl, ValidPair, Once
<1>1. CASE Begin
  <2>1. UNCHANGED env
    BY <1>1, FileStays DEF Begin
  <2> QED
    BY <1>1, <2>1 DEF Begin
<1>2. CASE Preflight
  <2>1. UNCHANGED env
    BY <1>2, FileStays DEF Preflight
  <2> QED
    BY <1>2, <2>1 DEF Preflight
<1>3. CASE Python
  <2>1. UNCHANGED env
    BY <1>3, FileStays DEF Python
  <2> QED
    BY <1>3, <2>1 DEF Python
<1>4. CASE CreateVenv
  <2>1. UNCHANGED env
    BY <1>4, FileStays DEF CreateVenv
  <2> QED
    BY <1>4, <2>1 DEF CreateVenv
<1>5. CASE Install
  <2>1. UNCHANGED env
    BY <1>5, FileStays DEF Install
  <2> QED
    BY <1>5, <2>1 DEF Install
<1>6. CASE Account
  <2>1. UNCHANGED env
    BY <1>6, FileStays DEF Account
  <2>2. /\ Listing \in [synthesis : BOOLEAN, asr : BOOLEAN]
        /\ Listing.synthesis => cloud.synthesis # Unset
        /\ cloud.asr => Listing.asr
    <3>1. (cloud.synthesis # Unset) \in BOOLEAN /\ cloud.asr \in BOOLEAN
      OBVIOUS
    <3> QED
      BY <3>1, Zenon DEF Listing
  <2> QED
    BY <1>6, <2>1, <2>2 DEF Account
<1>7. CASE SignIn
  <2>1. UNCHANGED env
    BY <1>7, FileStays DEF SignIn
  <2> QED
    BY <1>7, <2>1 DEF SignIn
<1>8. CASE KeepPair
  <2>1. UNCHANGED env
    BY <1>8, FileStays DEF KeepPair
  <2> QED
    BY <1>8, <2>1 DEF KeepPair
<1>9. CASE NewPair
  <2>1. UNCHANGED env
    BY <1>9, FileStays DEF NewPair
  <2> QED
    BY <1>9, <2>1 DEF NewPair
<1>10. CASE LeaveSynthesis
  <2>1. UNCHANGED env
    BY <1>10, FileStays DEF LeaveSynthesis
  <2> QED
    BY <1>10, <2>1 DEF LeaveSynthesis
<1>11. CASE DeploySynthesis
  <2>1. UNCHANGED env
    BY <1>11, FileStays DEF DeploySynthesis
  <2> QED
    BY <1>11, <2>1 DEF DeploySynthesis
<1>12. CASE Weights
  <2>1. UNCHANGED env
    BY <1>12, FileStays DEF Weights
  <2> QED
    BY <1>12, <2>1 DEF Weights
<1>13. CASE Deploy
  <2>1. UNCHANGED env
    BY <1>13, FileStays DEF Deploy
  <2> QED
    BY <1>13, <2>1 DEF Deploy
<1>14. CASE LeaveAsr
  <2>1. UNCHANGED env
    BY <1>14, FileStays DEF LeaveAsr
  <2> QED
    BY <1>14, <2>1 DEF LeaveAsr
<1>15. CASE DeployAsr
  <2>1. UNCHANGED env
    BY <1>15, FileStays DEF DeployAsr
  <2> QED
    BY <1>15, <2>1 DEF DeployAsr
<1>16. CASE AsrWeights
  <2>1. UNCHANGED env
    BY <1>16, FileStays DEF AsrWeights
  <2> QED
    BY <1>16, <2>1 DEF AsrWeights
<1>17. CASE AsrDeploy
  <2>1. UNCHANGED env
    BY <1>17, FileStays DEF AsrDeploy
  <2> QED
    BY <1>17, <2>1 DEF AsrDeploy
<1>18. CASE Measure
  <2>1. UNCHANGED env
    BY <1>18, FileStays DEF Measure
  <2> QED
    BY <1>18, <2>1 DEF Measure
<1>19. CASE Build
  <2>1. UNCHANGED env
    BY <1>19, FileStays DEF Build
  <2> QED
    BY <1>19, <2>1 DEF Build
<1>20. CASE Finish
  <2>1. UNCHANGED env
    BY <1>20, FileStays DEF Finish
  <2> QED
    BY <1>20, <2>1 DEF Finish
<1>21. CASE Quit
  <2>1. UNCHANGED env
    BY <1>21, FileStays DEF Quit
  <2> QED
    BY <1>21, <2>1 DEF Quit
<1>22. CASE Stop
  <2>1. UNCHANGED env
    BY <1>22, FileStays DEF Stop
  <2> QED
    BY <1>22, <2>1 DEF Stop
<1>23. CASE UNCHANGED setupVars
  <2>1. UNCHANGED env
    BY <1>23, FileStays DEF setupVars
  <2> QED
    BY <1>23, <2>1 DEF setupVars
<1>24. CASE SavePair
  <2>1. env' = [env EXCEPT !["PAIR"] = "proxyPair"] /\ file' \in Seq(Assignment) /\ Once(file)'
    BY <1>24, SaveStep DEF SavePair
  <2> QED
    BY <1>24, <2>1 DEF SavePair
<1>25. CASE DeployEnv
  <2>1. PICK w \in Windows : Save("WINDOW", w) /\ answers' = [deploy |-> TRUE, window |-> w]
    BY <1>25 DEF DeployEnv
  <2>2. env' = [env EXCEPT !["WINDOW"] = w] /\ file' \in Seq(Assignment) /\ Once(file)'
    BY <2>1, SaveStep
  <2> QED
    BY <1>25, <2>1, <2>2 DEF DeployEnv
<1>26. CASE SaveUrl
  <2>1. env' = [env EXCEPT !["URL"] = "url"] /\ file' \in Seq(Assignment) /\ Once(file)'
    BY <1>26, SaveStep DEF SaveUrl
  <2> QED
    BY <1>26, <2>1 DEF SaveUrl, Absent, Unset, Blank
<1>27. CASE SaveAsrUrl
  <2>1. env' = [env EXCEPT !["ASR"] = "url"] /\ file' \in Seq(Assignment) /\ Once(file)'
    BY <1>27, SaveStep DEF SaveAsrUrl
  <2> QED
    BY <1>27, <2>1 DEF SaveAsrUrl, Absent, Unset, Blank
<1>28. CASE Meddle
  <2>1. ASSUME NEW key \in Keys, NEW value \in {Blank, Malformed}, Save(key, value)
        PROVE  file' \in Seq(Assignment) /\ Once(file)'
    BY <2>1, SaveStep
  <2>7. ASSUME NEW i \in DOMAIN file, file' = WithoutLine(file, i)
        PROVE  file' \in Seq(Assignment) /\ Once(file)'
    BY <2>7, LineLost
  <2>2. file' \in Seq(Assignment) /\ Once(file)'
    BY <1>28, <2>1, <2>7 DEF Meddle
  <2>3. /\ at = "off" /\ at' = "off" /\ meddling' = meddling + 1 /\ meddling' \in 0..MaxMeddling
        /\ UNCHANGED <<venv, built, apps, answers, stops, half>>
    BY <1>28 DEF Meddle
  <2>4. /\ signedIn' \in BOOLEAN
        /\ cloud' \in {cloud, [cloud EXCEPT !.synthesis = Unset, !.asr = FALSE]}
    BY <1>28, Zenon DEF Meddle
  <2>5. /\ cloud' \in [synthesis : {Unset} \cup Windows, asr : BOOLEAN,
                       weights : BOOLEAN, asrWeights : BOOLEAN]
        /\ cloud'.synthesis # Unset => cloud'.weights
    BY <2>4
  <2>6. meddling' # 0
    BY <2>3
  <2> QED
    BY <2>2, <2>3, <2>4, <2>5, <2>6
<1> QED
  <2>1. Forward => \/ Preflight \/ Python \/ CreateVenv \/ Install \/ Account \/ SignIn
                   \/ KeepPair \/ NewPair \/ SavePair
                   \/ LeaveSynthesis \/ DeploySynthesis \/ DeployEnv \/ Weights \/ Deploy
                   \/ SaveUrl \/ LeaveAsr \/ DeployAsr \/ AsrWeights \/ AsrDeploy
                   \/ SaveAsrUrl \/ Measure \/ Build \/ Finish
    BY DEF Forward
  <2> QED
    BY <1>1, <1>2, <1>3, <1>4, <1>5, <1>6, <1>7, <1>8, <1>9, <1>10, <1>11, <1>12, <1>13,
       <1>14, <1>15, <1>16, <1>17, <1>18, <1>19, <1>20, <1>21, <1>22, <1>23, <1>24,
       <1>25, <1>26, <1>27, <1>28, <2>1, Zenon DEF SetupNext

(* At the end of finish(), all phases are behind the run.                  *)
LEMMA ReadyFollows == ASSUME SetupInv PROVE ReadyIsRunnable
<1> SUFFICES ASSUME at = "ready"
             PROVE  /\ Spoiled \/ Starts(env)
                    /\ ValidPair(env["PAIR"])
                    /\ venv = "ready" /\ built /\ signedIn
                    /\ cloud.synthesis # Unset /\ cloud.weights
                    /\ cloud.asr => ~ Absent(env["ASR"])
                    /\ ~ half /\ meddling = 0 => env["WINDOW"] = cloud.synthesis
  BY DEF SetupInv, ReadyIsRunnable
<1>1. /\ at \in FromAccount /\ at \in FromCredentials /\ at \in FromSynthesis
      /\ at \in FromUrl /\ at \in FromAsr /\ at \in FromMeasure
  BY DEF FromAccount, FromCredentials, FromSynthesis, FromUrl, FromAsr, FromMeasure, Steps
<1>2. /\ ValidPair(env["PAIR"]) /\ venv = "ready" /\ built /\ signedIn
      /\ cloud.synthesis # Unset /\ cloud.weights
      /\ cloud.asr => ~ Absent(env["ASR"])
      /\ ~ half /\ meddling = 0 => env["WINDOW"] = cloud.synthesis
      /\ ~ Absent(env["URL"])
  BY <1>1 DEF SetupInv, Walked, Entered, Windowed
<1>3. ASSUME ~ Spoiled PROVE Starts(env)
  BY <1>2, <1>3 DEF Spoiled, Starts, Keys, Optional
<1> QED
  BY <1>2, <1>3

-----------------------------------------------------------------------------
(* How far a run of setup has come is what it leaves behind                *)
(* (walkthrough.ts), from any .env in which no key is assigned twice.      *)
THEOREM SetupInvariant == ASSUME Once(FirstFile) PROVE SetupSpec => []SetupInv
<1>1. SetupInit => SetupInv
  BY SetupBegins
<1>2. SetupInv /\ [SetupNext]_setupVars => SetupInv'
  BY SetupGoesOn
<1> QED
  BY <1>1, <1>2, PTL DEF SetupSpec

(* When setup says ready the gateway starts (loadConfig), its packages     *)
(* import, the interface is built and the window it infers readiness from  *)
(* is the deployed one, unless that was half done or meddled with.         *)
THEOREM ReadyStarts == ASSUME Once(FirstFile) PROVE SetupSpec => []ReadyIsRunnable
<1>1. SetupInv => ReadyIsRunnable
  BY ReadyFollows
<1> QED
  BY <1>1, SetupInvariant, PTL

-----------------------------------------------------------------------------
(* The gate, whatever the operator set up behind it.                       *)
USE AuthGateAssumption

Budget == window.count + Cardinality(Verifying) < MaxAttempts + Cardinality(Clients)

IInv == TypeOK /\ Budget

LEMMA ClientsFinite ==
    /\ IsFiniteSet(Clients) /\ Cardinality(Clients) \in Nat \ {0}
    /\ IsFiniteSet(Verifying) /\ Cardinality(Verifying) \in 0..Cardinality(Clients)
<1>1. IsFiniteSet(Clients)
  BY FS_Union DEF AuthGateAssumption, Clients
<1>2. Clients # {}
  BY DEF AuthGateAssumption, Clients
<1>3. Verifying \in SUBSET Clients
  BY DEF Verifying
<1> QED
  BY <1>1, <1>2, <1>3, FS_CardinalityType, FS_EmptySet, FS_Subset

(* A record of an attempt with another outcome, or another age, is one.      *)
LEMMA AttemptType ==
    ASSUME GateTypeOK
    PROVE  /\ Lifetime \in 0..Lifetime /\ 0 \in 0..Lifetime
           /\ \A age \in 0..Lifetime : Older(age) \in 0..Lifetime
           /\ Closed \in [count : Nat, age : 0..(Window - 1)]
           /\ NoAttempt \in [at : {"none", "sent", "verifying"} \cup Outcomes,
                             right : BOOLEAN, age : 0..Lifetime]
           /\ \A c \in Clients : attempt[c].age \in 0..Lifetime /\ attempt[c].right \in BOOLEAN
BY DEF AuthGateAssumption, GateTypeOK, Older, Closed, NoAttempt, Outcomes

(* The gateway's own steps keep its types.                                   *)
LEMMA GateStepType ==
    ASSUME GateTypeOK,
           \/ \E c \in Clients : Admit(c) \/ Reject(c) \/ Accept(c)
           \/ Tick \/ Restart
    PROVE  GateTypeOK'
<1> USE DEF GateTypeOK
<1>1. ASSUME NEW c \in Clients, Admit(c) PROVE GateTypeOK'
  BY <1>1 DEF Admit, Outcomes
<1>2. ASSUME NEW c \in Clients, Reject(c) PROVE GateTypeOK'
  BY <1>2 DEF Reject, Outcomes
<1>3. ASSUME NEW c \in Clients, Accept(c) PROVE GateTypeOK'
  BY <1>3, AttemptType, ZenonT(60) DEF Accept, Outcomes
<1>4. ASSUME Tick PROVE GateTypeOK'
  <2>1. session' \in 0..Lifetime
    BY <1>4, AttemptType DEF Tick
  <2>2. window' \in [count : Nat, age : 0..(Window - 1)]
    BY <1>4, AttemptType DEF Tick, AuthGateAssumption
  <2>3. attempt' \in [Clients -> [at : {"none", "sent", "verifying"} \cup Outcomes,
                                  right : BOOLEAN, age : 0..Lifetime]]
    BY <1>4, AttemptType DEF Tick
  <2> QED BY <1>4, <2>1, <2>2, <2>3 DEF Tick
<1>5. ASSUME Restart PROVE GateTypeOK'
  BY <1>5, AttemptType DEF Restart, Outcomes
<1> QED
  BY <1>1, <1>2, <1>3, <1>4, <1>5

(* What a tab may hold after it is shown, and after an answer.               *)
LEMMA ShownType ==
    ASSUME NEW record \in [open : BOOLEAN, gated : BOOLEAN,
                           check : {"restored", "told", "settled"} \cup Flying]
    PROVE  Shown(record) \in [open : BOOLEAN, gated : BOOLEAN,
                              check : {"restored", "told", "settled"} \cup Flying]
BY DEF Shown, Flying, Answers

LEMMA StepType ==
    ASSUME TypeOK, [Next]_vars
    PROVE  TypeOK'
<1> DEFINE Tab == [open : BOOLEAN, gated : BOOLEAN,
                   check : {"restored", "told", "settled"} \cup Flying]
<1>0. GateTypeOK /\ calls \in [Tabs -> {"none", "sent", "401"}] /\ tab \in [Tabs -> Tab]
  BY DEF TypeOK
<1>1. ASSUME NEW t \in Tabs, Open(t) PROVE TypeOK'
  <2>1. [tab[t] EXCEPT !.open = TRUE] \in Tab
    BY <1>0
  <2> QED BY <1>0, <1>1, <2>1, ShownType DEF Open, TypeOK, GateTypeOK, gate
<1>2. ASSUME NEW t \in Tabs, CallSomething(t) PROVE TypeOK'
  BY <1>0, <1>2 DEF CallSomething, TypeOK, GateTypeOK, gate
<1>3. ASSUME NEW t \in Tabs, AnswerCall(t) PROVE TypeOK'
  BY <1>0, <1>3 DEF AnswerCall, TypeOK, GateTypeOK, gate
<1>4. ASSUME NEW t \in Tabs, AnswerCheck(t) PROVE TypeOK'
  BY <1>0, <1>4 DEF AnswerCheck, TypeOK, GateTypeOK, gate, Flying, Answers
<1>5. ASSUME NEW t \in Tabs, TakeRefusal(t) PROVE TypeOK'
  BY <1>0, <1>5 DEF TakeRefusal, TypeOK, GateTypeOK, gate
<1>6. ASSUME NEW t \in Tabs, TakeCheck(t) PROVE TypeOK'
  <2> DEFINE raised == tab[t].gated \/ tab[t].check = "401"
             answered == [tab[t] EXCEPT !.check = After(tab[t].check), !.gated = raised]
  <2>1. After(tab[t].check) \in {"restored", "told", "settled"}
    BY DEF After
  <2>2. raised \in BOOLEAN
    OBVIOUS
  <2>3. answered \in Tab
    <3> HIDE DEF raised
    <3> QED BY <1>0, <2>1, <2>2
  <2>4. tab' = [tab EXCEPT ![t] = answered]
    BY <1>0, <1>6 DEF TakeCheck
  <2>5. tab' \in [Tabs -> Tab]
    <3> HIDE DEF answered
    <3> QED BY <1>0, <2>3, <2>4
  <2> QED BY <1>0, <1>6, <2>5 DEF TakeCheck, TypeOK, GateTypeOK, gate
<1>7. ASSUME NEW t \in Tabs, TakeOutcome(t) PROVE TypeOK'
  <2>1. attempt[t].age \in 0..Lifetime /\ Shown(tab[t]) \in Tab
    BY <1>0, AttemptType, ShownType DEF Clients
  <2>2. session' \in 0..Lifetime
    BY <1>0, <1>7, <2>1 DEF TakeOutcome, GateTypeOK
  <2>3. tab' \in [Tabs -> Tab] /\ calls' \in [Tabs -> {"none", "sent", "401"}]
    BY <1>0, <1>7, <2>1 DEF TakeOutcome
  <2>4. attempt' \in [Clients -> [at : {"none", "sent", "verifying"} \cup Outcomes,
                                  right : BOOLEAN, age : 0..Lifetime]]
    BY <1>0, <1>7, AttemptType DEF TakeOutcome, GateTypeOK
  <2> QED BY <1>0, <1>7, <2>2, <2>3, <2>4 DEF TakeOutcome, TypeOK, GateTypeOK
<1>8. ASSUME NEW t \in Tabs, NEW right \in BOOLEAN, Submit(t, right) PROVE TypeOK'
  <2> DEFINE Attempt == [at : {"none", "sent", "verifying"} \cup Outcomes,
                         right : BOOLEAN, age : 0..Lifetime]
  <2>1. t \in Clients /\ attempt \in [Clients -> Attempt]
    BY <1>0 DEF GateTypeOK, Clients
  <2>2. [attempt[t] EXCEPT !.at = "sent", !.right = right] \in Attempt
    BY <2>1
  <2>3. attempt' = [attempt EXCEPT ![t] = [attempt[t] EXCEPT !.at = "sent", !.right = right]]
    BY <1>8, <2>1 DEF Submit
  <2>4. attempt' \in [Clients -> Attempt]
    BY <2>1, <2>2, <2>3
  <2>5. wrong' \in Nat
    BY <1>0, <1>8 DEF Submit, GateTypeOK
  <2> QED BY <1>0, <1>8, <2>4, <2>5 DEF Submit, TypeOK, GateTypeOK
<1>9. ASSUME NEW t \in Tabs, SignOut(t) PROVE TypeOK'
  BY <1>0, <1>9, AttemptType, ZenonT(60) DEF SignOut, TypeOK, GateTypeOK
<1>10. ASSUME NEW c \in Others, Elsewhere(c) PROVE TypeOK'
  BY <1>0, <1>10, AttemptType DEF Elsewhere, TypeOK, GateTypeOK
<1>11. ASSUME \/ \E c \in Clients : Verification(c)
              \/ Time \/ GatewayRestart
       PROVE TypeOK'
  <2>1. GateTypeOK'
    BY <1>0, <1>11, GateStepType DEF Verification, Time, GatewayRestart
  <2> QED BY <1>0, <1>11, <2>1 DEF Verification, Time, GatewayRestart, TypeOK
<1>12. ASSUME Expire \/ UNCHANGED vars PROVE TypeOK'
  BY <1>0, <1>12 DEF Expire, vars, gate, TypeOK, GateTypeOK
<1> QED
  BY <1>1, <1>2, <1>3, <1>4, <1>5, <1>6, <1>7, <1>8, <1>9, <1>10, <1>11, <1>12
  DEF Next, Underway

-----------------------------------------------------------------------------
(* Steps that let nobody further into a verification and count no failure.   *)
LEMMA NoneAdmitted ==
    ASSUME TypeOK, TypeOK', Budget, Verifying' \subseteq Verifying,
           window'.count <= window.count
    PROVE  Budget'
<1>1. Cardinality(Verifying') <= Cardinality(Verifying) /\ Cardinality(Verifying') \in Nat
  BY ClientsFinite, FS_Subset, FS_CardinalityType
<1>2. window.count \in Nat /\ window'.count \in Nat /\ Cardinality(Verifying) \in Nat
  BY ClientsFinite DEF TypeOK, GateTypeOK
<1> QED
  BY <1>1, <1>2, ClientsFinite DEF Budget, AuthGateAssumption, Verifying, Clients

(* An attempt is admitted below the ceiling, whoever is being verified.      *)
LEMMA AdmitBudget ==
    ASSUME TypeOK, Budget, NEW c \in Clients, Admit(c)
    PROVE  Budget'
<1>1. window' = window /\ window.count \in Nat
  BY DEF Admit, TypeOK, GateTypeOK
<1>2. CASE window.count < MaxAttempts
  <2>1. Verifying' \in SUBSET Clients
    BY DEF Verifying
  <2>2. Cardinality(Verifying') <= Cardinality(Clients) /\ Cardinality(Verifying') \in Nat
    BY <2>1, ClientsFinite, FS_Subset, FS_CardinalityType
  <2> QED
    BY <1>1, <1>2, <2>2, ClientsFinite DEF Budget, AuthGateAssumption, Verifying, Clients
<1>3. CASE ~ window.count < MaxAttempts
  <2>1. Verifying' = Verifying
    BY <1>3 DEF Admit, Verifying, TypeOK, GateTypeOK
  <2> QED BY <1>1, <2>1 DEF Budget
<1> QED BY <1>2, <1>3

(* A failure is counted in exchange for its verification.                    *)
LEMMA RejectBudget ==
    ASSUME TypeOK, Budget, NEW c \in Clients, Reject(c)
    PROVE  Budget'
<1>1. Verifying' = Verifying \ {c} /\ c \in Verifying
  BY DEF Reject, Verifying, TypeOK, GateTypeOK
<1>2. Cardinality(Verifying') = Cardinality(Verifying) - 1
  BY <1>1, ClientsFinite, FS_RemoveElement
<1>3. window'.count = window.count + 1 /\ window.count \in Nat
  BY DEF Reject, TypeOK, GateTypeOK
<1> QED
  BY <1>2, <1>3, ClientsFinite DEF Budget, AuthGateAssumption, Verifying, Clients

LEMMA StepBudget ==
    ASSUME TypeOK, TypeOK', Budget, [Next]_vars
    PROVE  Budget'
<1> USE DEF TypeOK, GateTypeOK, Verifying
<1>1. ASSUME NEW t \in Tabs,
             Open(t) \/ CallSomething(t) \/ AnswerCall(t) \/ AnswerCheck(t)
             \/ TakeRefusal(t) \/ TakeCheck(t) \/ SignOut(t)
      PROVE  Budget'
  <2>1. attempt' = attempt /\ window' = window
    BY <1>1 DEF Open, CallSomething, AnswerCall, AnswerCheck, TakeRefusal, TakeCheck,
                SignOut, gate
  <2> QED BY <2>1 DEF Budget
<1>2. ASSUME NEW t \in Tabs, TakeOutcome(t) PROVE Budget'
  <2>1. Verifying' \subseteq Verifying /\ window' = window
    BY <1>2 DEF TakeOutcome, NoAttempt, Clients
  <2> QED BY <2>1, NoneAdmitted
<1>3. ASSUME NEW t \in Tabs, NEW right \in BOOLEAN, Submit(t, right) PROVE Budget'
  <2>1. Verifying' \subseteq Verifying /\ window' = window
    BY <1>3 DEF Submit, NoAttempt, Clients
  <2> QED BY <2>1, NoneAdmitted
<1>4. ASSUME NEW c \in Others, Elsewhere(c) PROVE Budget'
  <2>1. Verifying' \subseteq Verifying /\ window' = window
    BY <1>4, SMTT(30) DEF Elsewhere, NoAttempt, Clients
  <2> QED BY <2>1, NoneAdmitted
<1>5. ASSUME NEW c \in Clients, Accept(c) PROVE Budget'
  <2>1. Verifying' \subseteq Verifying
    BY <1>5 DEF Accept
  <2>2. window'.count <= window.count
    BY <1>5 DEF Accept, Closed
  <2> QED BY <2>1, <2>2, NoneAdmitted
<1>6. ASSUME Tick PROVE Budget'
  <2>1. Verifying' \subseteq Verifying
    BY <1>6 DEF Tick
  <2>2. window'.count <= window.count
    BY <1>6 DEF Tick, Closed
  <2> QED BY <2>1, <2>2, NoneAdmitted
<1>7. ASSUME Restart PROVE Budget'
  <2>1. Verifying' \subseteq Verifying
    BY <1>7 DEF Restart
  <2>2. window'.count <= window.count
    BY <1>7 DEF Restart, Closed
  <2> QED BY <2>1, <2>2, NoneAdmitted
<1>8. ASSUME Expire \/ UNCHANGED vars PROVE Budget'
  <2>1. attempt' = attempt /\ window' = window
    BY <1>8 DEF Expire, vars, gate
  <2> QED BY <2>1 DEF Budget
<1> QED
  BY <1>1, <1>2, <1>3, <1>4, <1>5, <1>6, <1>7, <1>8, AdmitBudget, RejectBudget
  DEF Next, Underway, Verification, Time, GatewayRestart

LEMMA InitHolds == Init => IInv
<1> SUFFICES ASSUME Init PROVE IInv
  OBVIOUS
<1>1. TypeOK
  BY DEF Init, GateInit, TypeOK, GateTypeOK, Closed, NoAttempt, Outcomes, Flying, Answers,
         AuthGateAssumption
<1>2. Verifying = {}
  BY DEF Init, GateInit, Verifying, NoAttempt
<1>3. Cardinality(Verifying) = 0
  BY <1>2, FS_EmptySet
<1>4. window.count = 0
  BY DEF Init, GateInit, Closed
<1> QED
  BY <1>1, <1>3, <1>4, ClientsFinite DEF IInv, Budget, AuthGateAssumption

(* The types and the budget hold whatever the gateway, the tabs and the      *)
(* others do.                                                                *)
THEOREM GateInvariant == Spec => []IInv
<1>1. IInv /\ [Next]_vars => IInv'
  BY StepType, StepBudget DEF IInv
<1> QED
  BY <1>1, InitHolds, PTL DEF Spec

(* No order of checks, verifications and records lets one address fail more  *)
(* often in a window than the ceiling and its concurrent attempts allow      *)
(* (auth/plugin.ts, auth/rate-limit.ts).                                     *)
THEOREM FailuresBounded == Spec => []AttemptsBounded
<1>1. IInv => AttemptsBounded
  <2> SUFFICES ASSUME IInv PROVE AttemptsBounded
    OBVIOUS
  <2>1. window.count \in Nat
    BY DEF IInv, TypeOK, GateTypeOK
  <2> QED
    BY <2>1, ClientsFinite DEF IInv, Budget, AttemptsBounded, AuthGateAssumption
<1> QED
  BY <1>1, GateInvariant, PTL

-----------------------------------------------------------------------------
(* The question about the restored reference. A tab that was never opened    *)
(* asked nothing and is asked nothing; in one whose reference had expired the *)
(* question is under way, or answered, or behind the gate to be put again.   *)
Unopened(t) ==
    ~ tab[t].open => /\ tab[t].check = "restored" /\ ~ tab[t].gated
                     /\ calls[t] = "none" /\ attempt[t].at = "none"

Asking(t) ==
    \/ tab[t].check \in {"sent", "gone", "401", "lost", "told"}
    \/ tab[t].check = "restored" /\ tab[t].gated

Noticing(t) ==
    t \in gone => /\ tab[t].open /\ ~ staged
                  /\ t \in excused \/ Asking(t)

NoticeInv ==
    /\ TypeOK /\ gone \subseteq Tabs
    /\ \A t \in Tabs : Unopened(t) /\ Noticing(t)

(* A tab a step does not touch keeps what it noticed.                        *)
Untouched(u) ==
    /\ tab'[u] = tab[u] /\ calls'[u] = calls[u]
    /\ attempt[u].at = "none" => attempt'[u].at = "none"
    /\ u \in gone' => u \in gone
    /\ staged' => staged
    /\ u \in excused => u \in excused'

LEMMA UntouchedKeeps ==
    ASSUME NEW u \in Tabs, Unopened(u), Noticing(u), Untouched(u)
    PROVE  Unopened(u)' /\ Noticing(u)'
<1>1. Unopened(u)'
  BY DEF Unopened, Untouched
<1>2. ASSUME u \in gone' PROVE tab'[u].open /\ ~ staged' /\ (u \in excused' \/ Asking(u)')
  BY <1>2 DEF Noticing, Asking, Untouched
<1> QED
  BY <1>1, <1>2 DEF Noticing

(* The steps of a tab touch no other.                                        *)
LEMMA OthersUntouched ==
    ASSUME TypeOK, NEW t \in Tabs, NEW u \in Tabs \ {t},
           \/ Underway(t) \/ Open(t) \/ CallSomething(t) \/ SignOut(t)
           \/ \E right \in BOOLEAN : Submit(t, right)
    PROVE  Untouched(u)
<1> USE DEF Untouched, ghosts, gate
<1>0. /\ tab \in [Tabs -> [open : BOOLEAN, gated : BOOLEAN,
                           check : {"restored", "told", "settled"} \cup Flying]]
      /\ calls \in [Tabs -> {"none", "sent", "401"}]
      /\ t \in Clients /\ u \in Clients /\ DOMAIN attempt = Clients
  BY DEF TypeOK, GateTypeOK, Clients
<1>1. CASE Open(t)
  BY <1>0, <1>1 DEF Open
<1>2. CASE CallSomething(t) \/ AnswerCall(t) \/ AnswerCheck(t) \/ TakeRefusal(t)
  BY <1>0, <1>2 DEF CallSomething, AnswerCall, AnswerCheck, TakeRefusal
<1>3. CASE TakeCheck(t)
  BY <1>0, <1>3 DEF TakeCheck
<1>4. CASE TakeOutcome(t)
  BY <1>0, <1>4 DEF TakeOutcome
<1>5. CASE SignOut(t)
  BY <1>0, <1>5 DEF SignOut
<1>6. ASSUME NEW right \in BOOLEAN, Submit(t, right) PROVE Untouched(u)
  <2>1. tab' = tab /\ calls' = calls /\ staged' = staged /\ gone' = gone /\ excused' = excused
    BY <1>6 DEF Submit
  <2>2. attempt' = [attempt EXCEPT ![t].at = "sent", ![t].right = right]
    BY <1>6 DEF Submit
  <2>3. attempt'[u] = attempt[u]
    BY <1>0, <2>2
  <2> QED BY <2>1, <2>3
<1> QED
  BY <1>1, <1>2, <1>3, <1>4, <1>5, <1>6 DEF Underway

(* A tab that is opened asks; its question is answered by what the gateway   *)
(* holds or refused; a refusal raises the gate; and the password puts the    *)
(* question that was refused again.                                          *)
LEMMA TabNotices ==
    ASSUME TypeOK, NEW t \in Tabs, Unopened(t), Noticing(t),
           \/ Underway(t) \/ Open(t) \/ CallSomething(t) \/ SignOut(t)
           \/ \E right \in BOOLEAN : Submit(t, right)
    PROVE  Unopened(t)' /\ Noticing(t)'
<1>0. /\ tab \in [Tabs -> [open : BOOLEAN, gated : BOOLEAN,
                           check : {"restored", "told", "settled"} \cup Flying]]
      /\ tab[t] \in [open : BOOLEAN, gated : BOOLEAN,
                     check : {"restored", "told", "settled"} \cup Flying]
      /\ calls \in [Tabs -> {"none", "sent", "401"}]
      /\ t \in Clients /\ DOMAIN attempt = Clients
  BY DEF TypeOK, GateTypeOK, Clients
<1>1. ASSUME Open(t) PROVE Unopened(t)' /\ Noticing(t)'
  <2>1. tab[t].check = "restored"
    BY <1>1 DEF Open, Unopened
  <2>2. tab'[t].open /\ tab'[t].check = "sent"
    BY <1>0, <1>1, <2>1 DEF Open, Shown
  <2>3. t \in gone' => ~ staged'
    BY <1>1 DEF Open, Noticing
  <2> QED BY <2>2, <2>3 DEF Unopened, Noticing, Asking
<1>2. ASSUME CallSomething(t) PROVE Unopened(t)' /\ Noticing(t)'
  BY <1>0, <1>2 DEF CallSomething, Inside, Unopened, Noticing, Asking, ghosts
<1>3. ASSUME AnswerCall(t) PROVE Unopened(t)' /\ Noticing(t)'
  BY <1>0, <1>3 DEF AnswerCall, Unopened, Noticing, Asking, ghosts
<1>4. ASSUME AnswerCheck(t) PROVE Unopened(t)' /\ Noticing(t)'
  <2>1. tab[t].open
    BY <1>4 DEF AnswerCheck, Unopened
  <2>2. PICK answer \in {IF ~ LoggedIn THEN "401" ELSE IF staged THEN "alive" ELSE "gone", "lost"} :
          tab' = [tab EXCEPT ![t].check = answer]
    BY <1>4 DEF AnswerCheck
  <2>3. tab'[t].open /\ tab'[t].check = answer
    BY <1>0, <2>1, <2>2
  <2>4. ~ staged => answer \in {"401", "gone", "lost"}
    OBVIOUS
  <2>5. UNCHANGED <<staged, gone, excused>>
    BY <1>4 DEF AnswerCheck, ghosts
  <2> QED BY <2>3, <2>4, <2>5 DEF Unopened, Noticing, Asking
<1>5. ASSUME TakeRefusal(t) PROVE Unopened(t)' /\ Noticing(t)'
  <2>1. tab[t].open
    BY <1>5 DEF TakeRefusal, Unopened
  <2>2. tab'[t].open /\ tab'[t].gated /\ tab'[t].check = tab[t].check
    BY <1>0, <1>5, <2>1 DEF TakeRefusal
  <2> QED BY <1>5, <2>2 DEF TakeRefusal, Unopened, Noticing, Asking, ghosts
<1>6. ASSUME TakeCheck(t) PROVE Unopened(t)' /\ Noticing(t)'
  <2> DEFINE raised == tab[t].gated \/ tab[t].check = "401"
             answered == [tab[t] EXCEPT !.check = After(tab[t].check), !.gated = raised]
  <2>1. tab[t].open
    BY <1>6 DEF TakeCheck, Unopened, Answers
  <2>2. tab' = [tab EXCEPT ![t] = answered]
    BY <1>0, <1>6 DEF TakeCheck
  <2>3. tab'[t] = answered
    BY <1>0, <2>2
  <2>4. tab'[t].open /\ tab'[t].check = After(tab[t].check) /\ (tab[t].check = "401" => tab'[t].gated)
    BY <1>0, <2>1, <2>3
  <2>5. tab[t].check \in {"alive", "gone", "401", "lost"}
    BY <1>6 DEF TakeCheck, Answers
  <2>6. ASSUME t \in gone PROVE t \in excused' \/ Asking(t)'
    <3>1. CASE t \in excused \/ tab[t].check = "lost"
      BY <1>6, <3>1 DEF TakeCheck
    <3>2. CASE t \notin excused /\ tab[t].check # "lost"
      <4>1. tab[t].check \in {"gone", "401"}
        BY <2>5, <2>6, <3>2 DEF Noticing, Asking
      <4> QED BY <2>4, <4>1 DEF Asking, After
    <3> QED BY <3>1, <3>2
  <2> QED BY <1>6, <2>4, <2>6 DEF TakeCheck, Unopened, Noticing
<1>7. ASSUME TakeOutcome(t) PROVE Unopened(t)' /\ Noticing(t)'
  <2>1. tab[t].open
    BY <1>7 DEF TakeOutcome, Unopened, Outcomes
  <2>2. CASE attempt[t].at # "accepted"
    BY <1>7, <2>1, <2>2 DEF TakeOutcome, Unopened, Noticing, Asking
  <2>3. CASE attempt[t].at = "accepted"
    <3>1. /\ tab'[t].open
          /\ tab'[t].check = IF tab[t].check = "restored" THEN "sent" ELSE tab[t].check
      <4>1. tab' = [tab EXCEPT ![t] = Shown(tab[t])]
        BY <1>0, <1>7, <2>3 DEF TakeOutcome
      <4>2. tab'[t] = Shown(tab[t])
        BY <1>0, <4>1
      <4> QED BY <1>0, <2>1, <4>2 DEF Shown
    <3>2. /\ UNCHANGED <<staged, gone>>
          /\ excused' = IF tab[t].check \in Flying THEN excused \cup {t} ELSE excused
      BY <1>7, <2>3 DEF TakeOutcome
    <3> QED BY <3>1, <3>2 DEF Unopened, Noticing, Asking
  <2> QED BY <2>2, <2>3
<1>8. ASSUME SignOut(t) PROVE Unopened(t)' /\ Noticing(t)'
  <2>1. tab'[t].open /\ tab'[t].gated /\ tab'[t].check = tab[t].check
    BY <1>0, <1>8 DEF SignOut, Inside
  <2> QED BY <1>8, <2>1 DEF SignOut, Unopened, Noticing, Asking, ghosts
<1>9. ASSUME NEW right \in BOOLEAN, Submit(t, right) PROVE Unopened(t)' /\ Noticing(t)'
  <2>1. tab[t].open
    BY <1>9 DEF Submit, Unopened
  <2> QED BY <1>9, <2>1 DEF Submit, Unopened, Noticing, Asking, ghosts
<1> QED
  BY <1>1, <1>2, <1>3, <1>4, <1>5, <1>6, <1>7, <1>8, <1>9 DEF Underway

(* What the gateway, the others and the clock do leaves every tab as it is.  *)
LEMMA GatewayTouchesNone ==
    ASSUME TypeOK, NEW u \in Tabs,
           \/ \E c \in Clients : Verification(c)
           \/ \E c \in Others : Elsewhere(c)
           \/ Expire \/ Time \/ GatewayRestart \/ UNCHANGED vars
    PROVE  Untouched(u)
<1> USE DEF Untouched, ghosts
<1>0. u \in Clients /\ u \notin Others /\ DOMAIN attempt = Clients
  BY DEF TypeOK, GateTypeOK, Clients, AuthGateAssumption
<1>1. ASSUME NEW c \in Clients, Verification(c) PROVE Untouched(u)
  <2>1. CASE Admit(c)
    <3>1. u # c => attempt'[u] = attempt[u]
      BY <1>0, <2>1 DEF Admit
    <3> QED BY <1>1, <2>1, <3>1 DEF Verification, Admit
  <2>2. CASE Reject(c)
    <3>1. u # c => attempt'[u] = attempt[u]
      BY <1>0, <2>2 DEF Reject
    <3> QED BY <1>1, <2>2, <3>1 DEF Verification, Reject
  <2>3. CASE Accept(c)
    <3>1. u # c => attempt'[u] = attempt[u]
      <4>1. attempt' = [attempt EXCEPT ![c].at = "accepted", ![c].right = FALSE, ![c].age = 0]
        BY <2>3 DEF Accept
      <4> QED BY <1>0, <4>1
    <3> QED BY <1>1, <2>3, <3>1, ZenonT(60) DEF Verification, Accept
  <2> QED BY <1>1, <2>1, <2>2, <2>3 DEF Verification
<1>2. ASSUME NEW c \in Others, Elsewhere(c) PROVE Untouched(u)
  <2>1. attempt'[u] = attempt[u]
    BY <1>0, <1>2 DEF Elsewhere
  <2> QED BY <1>2, <2>1 DEF Elsewhere
<1>3. ASSUME Time \/ GatewayRestart PROVE Untouched(u)
  <2>0. attempt[u] \in [at : {"none", "sent", "verifying"} \cup Outcomes,
                       right : BOOLEAN, age : 0..Lifetime]
    BY <1>0 DEF TypeOK, GateTypeOK
  <2>1. attempt[u].at = "none" => attempt'[u].at = "none"
    <3>1. CASE Time
      <4>1. attempt'[u] = [attempt[u] EXCEPT !.age = Older(attempt[u].age)]
        BY <1>0, <3>1 DEF Time, Tick
      <4> QED BY <2>0, <4>1
    <3>2. CASE GatewayRestart
      <4>1. attempt'[u].at = IF attempt[u].at \in {"sent", "verifying"} THEN "lost" ELSE attempt[u].at
        BY <1>0, <3>2 DEF GatewayRestart, Restart
      <4> QED BY <4>1
    <3> QED BY <1>3, <3>1, <3>2
  <2> QED BY <1>3, <2>1 DEF Time, GatewayRestart
<1>4. ASSUME Expire \/ UNCHANGED vars PROVE Untouched(u)
  BY <1>4 DEF Expire, vars, gate
<1> QED
  BY <1>1, <1>2, <1>3, <1>4

LEMMA StepNotices ==
    ASSUME NoticeInv, [Next]_vars
    PROVE  NoticeInv'
<1>1. TypeOK /\ TypeOK'
  BY StepType DEF NoticeInv
<1>2. gone' \subseteq Tabs
  BY DEF NoticeInv, Next, Underway, Open, CallSomething, AnswerCall, AnswerCheck, TakeRefusal,
         TakeCheck, TakeOutcome, SignOut, Submit, Verification, Elsewhere, Expire, Time,
         GatewayRestart, ghosts, vars
<1>3. ASSUME NEW u \in Tabs PROVE Unopened(u)' /\ Noticing(u)'
  <2>1. Unopened(u) /\ Noticing(u)
    BY DEF NoticeInv
  <2>2. ASSUME NEW t \in Tabs,
               \/ Underway(t) \/ Open(t) \/ CallSomething(t) \/ SignOut(t)
               \/ \E right \in BOOLEAN : Submit(t, right)
        PROVE  Unopened(u)' /\ Noticing(u)'
    BY <1>1, <2>1, <2>2, TabNotices, OthersUntouched, UntouchedKeeps
  <2>3. ASSUME \/ \E c \in Clients : Verification(c)
               \/ \E c \in Others : Elsewhere(c)
               \/ Expire \/ Time \/ GatewayRestart \/ UNCHANGED vars
        PROVE  Unopened(u)' /\ Noticing(u)'
    BY <1>1, <2>1, <2>3, GatewayTouchesNone, UntouchedKeeps
  <2> QED BY <2>2, <2>3 DEF Next
<1> QED
  BY <1>1, <1>2, <1>3 DEF NoticeInv

(* A tab whose restored reference had expired says so, however often the     *)
(* gate came between its question and the answer, unless the answer was lost *)
(* or was on its way during a re-entry (App.tsx, onAuthRequired and the two  *)
(* effects of a re-entry; client.ts referenceExists).                        *)
THEOREM ExpiryIsNoticed == Spec => []ExpiryNoticed
<1>1. Init => NoticeInv
  <2> SUFFICES ASSUME Init PROVE NoticeInv
    OBVIOUS
  <2>1. TypeOK
    BY InitHolds DEF IInv
  <2>2. \A t \in Tabs : Unopened(t) /\ Noticing(t)
    BY DEF Init, GateInit, Unopened, Noticing, NoAttempt, Clients
  <2> QED BY <2>1, <2>2 DEF NoticeInv, Init
<1>2. NoticeInv /\ [Next]_vars => NoticeInv'
  BY StepNotices
<1>3. NoticeInv => ExpiryNoticed
  BY DEF NoticeInv, ExpiryNoticed, Noticing, Asking, Inside, Flying, Answers
<1> QED
  BY <1>1, <1>2, <1>3, PTL DEF Spec

---------------------------------------------------------------------------
(* A set of numbers from 0 up has a smallest one: the interval below it is   *)
(* the smallest of the intervals below its numbers.                          *)
LEMMA LeastOf ==
    ASSUME NEW S \in SUBSET Nat, S # {}
    PROVE  \E n \in S : \A m \in S : n <= m
<1>1. PICK top \in S : TRUE
  OBVIOUS
<1> DEFINE Below(n) == 0 .. n
           B == {b \in SUBSET Below(top) : \E n \in S : b = Below(n)}
<1>2. IsFiniteSet(Below(top))
  BY <1>1, FS_Interval
<1>3. Below(top) \in B
  BY <1>1
<1>4. \A R, T : IsWellFoundedOn(R, T) =>
          \A U \in SUBSET T : U # {} => \E x \in U : \A y \in U : <<y, x>> \notin R
  BY WFMin, Zenon
<1>5. IsWellFoundedOn(StrictSubsetOrdering(Below(top)), SUBSET Below(top))
  BY <1>2, FS_StrictSubsetOrderingWellFounded, FS_FiniteSubsetsOfFinite
<1>6. B \in SUBSET SUBSET Below(top) /\ B # {}
  BY <1>3
<1>7. PICK b \in B : \A c \in B : <<c, b>> \notin StrictSubsetOrdering(Below(top))
  <2> HIDE DEF B
  <2> QED
    BY <1>4, <1>5, <1>6
<1>8. PICK n \in S : b = Below(n)
  OBVIOUS
<1>9. ASSUME NEW m \in S, m < n PROVE FALSE
  <2>1. b \in SUBSET Below(top) /\ n \in Nat /\ m \in Nat
    OBVIOUS
  <2>2. Below(m) \subseteq Below(n) /\ n \in Below(n) /\ n \notin Below(m)
    BY <1>9, <2>1
  <2>3. Below(m) \in B
    BY <1>8, <2>1, <2>2
  <2>4. <<Below(m), b>> \notin StrictSubsetOrdering(Below(top))
    BY <1>7, <2>3
  <2> QED
    BY <1>8, <2>1, <2>2, <2>4 DEF StrictSubsetOrdering
<1> QED
  BY <1>9

(* And, where it is bounded, a largest one.                                  *)
LEMMA GreatestOf ==
    ASSUME NEW S \in SUBSET Nat, S # {}, NEW top \in Nat, \A n \in S : n <= top
    PROVE  \E n \in S : \A m \in S : m <= n
<1> DEFINE D == {d \in Nat : top - d \in S}
<1>1. \A n \in S : top - n \in D
  OBVIOUS
<1>2. D \in SUBSET Nat /\ D # {}
  BY <1>1
<1>3. PICK d \in D : \A e \in D : d <= e
  <2> HIDE DEF D
  <2> QED
    BY <1>2, LeastOf
<1> QED
  BY <1>1, <1>3

LEMMA ShapeParts ==
    ASSUME NEW a \in Shape
    PROVE  a.cjk \in Nat /\ a.other \in Nat /\ a.words \in Nat /\ a.punct \in Nat
BY DEF Shape

LEMMA SameShapes ==
    ASSUME NEW a \in Shape, NEW b \in Shape
    PROVE  /\ Speak!U!EstimateTokens(a) = Speak!G!EstimateTokens(a)
           /\ Speak!G!EstimateTokens(a) \in Int
           /\ Speak!U!EstimateTokens(Speak!U!Spaced(a, b))
                = Speak!G!EstimateTokens(Speak!G!Joined(a, b))
           /\ Speak!G!EstimateTokens(Speak!G!Joined(a, b)) \in Int
<1> USE DEF Speak!U!EstimateTokens, Speak!G!EstimateTokens, Speak!U!Greater, Speak!G!Larger,
            Speak!G!CeilDiv
<1>1. /\ a.cjk \in Nat /\ a.other \in Nat /\ a.words \in Nat /\ a.punct \in Nat
      /\ b.cjk \in Nat /\ b.other \in Nat /\ b.words \in Nat /\ b.punct \in Nat
  BY ShapeParts
<1>2. Speak!U!Empty = Speak!G!Nothing
  BY DEF Speak!U!Empty, Speak!G!Nothing
<1>3. CASE a = Speak!G!Nothing \/ b = Speak!G!Nothing
  BY <1>1, <1>2, <1>3 DEF Speak!U!Spaced, Speak!G!Joined
<1>4. CASE a # Speak!G!Nothing /\ b # Speak!G!Nothing
  <2> DEFINE u == Speak!U!Spaced(a, b)
             g == Speak!G!Joined(a, b)
  <2>1. DOMAIN a = {"cjk", "other", "words", "punct"}
    BY DEF Shape
  <2>2. /\ u.cjk = a.cjk + b.cjk /\ u.other = a.other + b.other + 1
        /\ u.words = a.words + b.words /\ u.punct = a.punct + b.punct
    BY <1>1, <1>2, <1>4, <2>1 DEF Speak!U!Spaced
  <2>3. /\ g.cjk = a.cjk + b.cjk /\ g.other = a.other + b.other + 1
        /\ g.words = a.words + b.words /\ g.punct = a.punct + b.punct
    BY <1>4 DEF Speak!G!Joined
  <2> HIDE DEF u, g
  <2>4. Speak!U!EstimateTokens(u) = Speak!G!EstimateTokens(g) /\ Speak!G!EstimateTokens(g) \in Int
    BY <1>1, <2>2, <2>3
  <2> QED
    BY <1>1, <2>4 DEF u, g
<1> QED
  BY <1>3, <1>4

Spoken == [start : Nat, end : Nat]

LEMMA FirstIsOne ==
    ASSUME NEW words \in SUBSET Spoken, words # {}
    PROVE  Speak!FirstOf(words) \in words
<1>1. {w.start : w \in words} \in SUBSET Nat /\ {w.start : w \in words} # {}
  BY DEF Spoken
<1>2. PICK s \in {w.start : w \in words} : \A t \in {w.start : w \in words} : s <= t
  BY <1>1, LeastOf
<1> DEFINE E == {w.end : w \in {v \in words : v.start = s}}
<1>3. E \in SUBSET Nat /\ E # {}
  BY DEF Spoken
<1>4. PICK e \in E : \A f \in E : e <= f
  <2> HIDE DEF E
  <2> QED
    BY <1>3, LeastOf
<1>5. PICK w \in words : w.start = s /\ w.end = e
  OBVIOUS
<1>6. \A v \in words : Speak!Before(w, v)
  <2> TAKE v \in words
  <2>1. v.start \in Nat /\ v.end \in Nat /\ s \in Nat /\ e \in Nat /\ s <= v.start
    BY <1>1, <1>2, <1>3, <1>4 DEF Spoken
  <2>2. v.start = s => e <= v.end
    BY <1>4
  <2> QED
    BY <1>5, <2>1, <2>2 DEF Speak!Before
<1> QED
  BY <1>6 DEF Speak!FirstOf

LEMMA LastIsOne ==
    ASSUME NEW words \in SUBSET Spoken, words # {}, NEW top \in Nat,
           \A w \in words : w.start <= top /\ w.end <= top
    PROVE  Speak!LastOf(words) \in words
<1> DEFINE S == {w.start : w \in words}
<1>1. S \in SUBSET Nat /\ S # {} /\ \A s \in S : s <= top
  BY DEF Spoken
<1>2. PICK s \in S : \A t \in S : t <= s
  <2> HIDE DEF S
  <2> QED
    BY <1>1, GreatestOf
<1> DEFINE E == {w.end : w \in {v \in words : v.start = s}}
<1>3. E \in SUBSET Nat /\ E # {} /\ \A e \in E : e <= top
  BY DEF Spoken
<1>4. PICK e \in E : \A f \in E : f <= e
  <2> HIDE DEF E
  <2> QED
    BY <1>3, GreatestOf
<1>5. PICK w \in words : w.start = s /\ w.end = e
  OBVIOUS
<1>6. \A v \in words : Speak!Before(v, w)
  <2> TAKE v \in words
  <2>1. v.start \in Nat /\ v.end \in Nat /\ s \in Nat /\ e \in Nat /\ v.start <= s
    BY <1>1, <1>2, <1>3, <1>4 DEF Spoken
  <2>2. v.start = s => v.end <= e
    BY <1>4
  <2> QED
    BY <1>5, <2>1, <2>2 DEF Speak!Before
<1> QED
  BY <1>6 DEF Speak!LastOf

LEMMA NearestIsOne ==
    ASSUME NEW values \in SUBSET Nat, values # {}, NEW target \in Int
    PROVE  Speak!Nearest(values, target) \in values
<1> DEFINE far(v) == Speak!Distance(v, target)
           D == {far(v) : v \in values}
<1>1. \A v \in values : far(v) \in Nat
  BY DEF Speak!Distance
<1>2. D \in SUBSET Nat /\ D # {}
  BY <1>1
<1>3. PICK d \in D : \A e \in D : d <= e
  <2> HIDE DEF D
  <2> QED
    BY <1>2, LeastOf
<1> DEFINE C == {v \in values : far(v) = d}
<1>4. C \in SUBSET Nat /\ C # {}
  OBVIOUS
<1>5. PICK v \in C : \A u \in C : v <= u
  <2> HIDE DEF C
  <2> QED
    BY <1>4, LeastOf
<1>6. \A u \in values : \/ far(v) < far(u)
                        \/ far(v) = far(u) /\ v <= u
  <2> TAKE u \in values
  <2>1. far(v) = d /\ d <= far(u) /\ d \in Nat /\ far(u) \in Nat
    BY <1>1, <1>2, <1>3, <1>5
  <2>2. far(u) = d => v <= u
    BY <1>5
  <2> HIDE DEF far
  <2> QED
    BY <2>1, <2>2
<1> QED
  BY <1>5, <1>6 DEF Speak!Nearest

(* A value that is there is the closest to itself.                           *)
LEMMA NearestIsSame ==
    ASSUME NEW values \in SUBSET Nat, NEW target \in values
    PROVE  Speak!Nearest(values, target) = target
<1> DEFINE Closest(v) == \A u \in values :
              \/ Speak!Distance(v, target) < Speak!Distance(u, target)
              \/ Speak!Distance(v, target) = Speak!Distance(u, target) /\ v <= u
<1>1. Closest(target)
  BY DEF Speak!Distance
<1>2. \A v \in values : Closest(v) => v = target
  BY DEF Speak!Distance
<1>3. Speak!Nearest(values, target) = CHOOSE v \in values : Closest(v)
  BY DEF Speak!Nearest
<1> HIDE DEF Closest
<1> QED
  BY <1>1, <1>2, <1>3

(* Wherever the operator drags it, the window stays in the recording and     *)
(* within the limit; and where it holds a word that takes time, it begins    *)
(* where a word begins and ends where one ends, so that the gateway has      *)
(* nothing to snap.                                                          *)
LEMMA Moved ==
    ASSUME NEW r, r.duration \in Nat, r.words \subseteq WordTime,
           NEW target \in Int, NEW max \in Nat,
           NEW w, w = Speak!Move(r, target, max)
    PROVE  /\ w.start \in Nat /\ w.end \in Nat
           /\ w.end <= r.duration /\ w.end - w.start <= max
           /\ w.transcript = Speak!Contained(Speak!Usable(r.words, r.duration), w.start, w.end)
           /\ (\E v \in w.transcript : v.start < v.end) =>
                 /\ w.start < w.end
                 /\ w.start \in Speak!Starts(Speak!ValidWords(r.words))
                 /\ w.end \in Speak!Ends(Speak!ValidWords(r.words))
<1> DEFINE words == Speak!Usable(r.words, r.duration)
           ceiling == Speak!Ceiling(r.duration, max)
           maximum == Speak!MaxStart(r.duration, max)
           dropped == Speak!Most(0, Speak!Least(target, maximum))
           start == Speak!StartOf(words, dropped, maximum)
           latest == Speak!Least(r.duration, start + ceiling)
           end == IF words = {} THEN latest ELSE Speak!EndOf(words, start, latest)
<1>1. /\ Speak!ValidWords(r.words) \in SUBSET Spoken /\ words \subseteq Speak!ValidWords(r.words)
      /\ \A v \in words : v.start <= v.end /\ v.end <= r.duration
  BY DEF Speak!ValidWords, Speak!Usable, Speak!Timed, WordTime, Spoken
<1>2. /\ ceiling \in Nat /\ ceiling <= max /\ ceiling <= r.duration
      /\ maximum \in Nat /\ dropped \in Nat /\ dropped <= maximum
      /\ maximum <= r.duration
  BY DEF Speak!Ceiling, Speak!MaxStart, Speak!Most, Speak!Least
<1>3. w.start = start /\ w.end = end /\ w.transcript = Speak!Contained(words, start, end)
  BY Zenon DEF Speak!Move
<1> HIDE DEF ceiling, maximum, dropped
<1>4. CASE words = {}
  <2>1. start = dropped
    BY <1>4 DEF Speak!StartOf
  <2>2. end = latest /\ latest \in Nat /\ latest <= r.duration /\ latest - start <= max
    BY <1>2, <1>4, <2>1 DEF Speak!Least
  <2>3. w.transcript = {}
    BY <1>3, <1>4 DEF Speak!Contained
  <2> QED
    BY <1>2, <1>3, <2>1, <2>2, <2>3
<1>5. CASE words # {}
  <2>1. start \in Speak!Starts(words)
    <3> DEFINE candidates == {s \in Speak!Starts(words) : s <= maximum}
    <3>1. candidates \in SUBSET Nat
      BY <1>1 DEF Speak!Starts, Spoken
    <3>2. CASE candidates = {}
      <4>1. start = Speak!FirstOf(words).start
        BY <1>5, <3>2 DEF Speak!StartOf
      <4>2. Speak!FirstOf(words) \in words
        BY <1>1, <1>5, FirstIsOne
      <4> QED
        BY <4>1, <4>2 DEF Speak!Starts
    <3>3. CASE candidates # {}
      <4>1. start = Speak!Nearest(candidates, dropped)
        BY <1>5, <3>3 DEF Speak!StartOf
      <4>2. Speak!Nearest(candidates, dropped) \in candidates
        <5> HIDE DEF candidates
        <5> QED
          BY <1>2, <3>1, <3>3, NearestIsOne
      <4> QED
        BY <4>1, <4>2
    <3> QED
      BY <3>2, <3>3
  <2>2. PICK v \in words : v.start = start
    BY <2>1 DEF Speak!Starts
  <2> HIDE DEF start
  <2>3. start \in Nat /\ start <= r.duration
    BY <1>1, <2>2 DEF Spoken
  <2>4. latest \in Nat /\ latest <= r.duration /\ latest - start <= max
    BY <1>2, <2>3 DEF Speak!Least
  <2> DEFINE ends == Speak!Eligible(words, start, latest)
  <2> HIDE DEF latest
  <2>5. CASE ends = {}
    <3>1. end = latest
      BY <1>5, <2>5 DEF Speak!EndOf
    <3>2. \A u \in w.transcript : ~ (u.start < u.end)
      <4> SUFFICES ASSUME NEW u \in words, u.start >= start, u.end <= latest, u.start < u.end
                   PROVE  FALSE
        BY <1>3, <3>1 DEF Speak!Contained
      <4>1. u.start \in Nat /\ u.end \in Nat
        BY <1>1 DEF Spoken
      <4> QED
        BY <2>3, <2>4, <2>5, <4>1 DEF Speak!Eligible
    <3> QED
      BY <1>3, <2>3, <2>4, <3>1, <3>2
  <2>6. CASE ends # {}
    <3>1. /\ ends \in SUBSET Spoken
          /\ \A u \in ends : u.start <= latest /\ u.end <= latest /\ u.end > start /\ u \in words
      <4>1. ends \subseteq words
        BY DEF Speak!Eligible
      <4>2. \A u \in words : u.start \in Nat /\ u.end \in Nat /\ u.start <= u.end
        BY <1>1 DEF Spoken
      <4> QED
        BY <1>1, <2>4, <4>1, <4>2 DEF Speak!Eligible
    <3>2. Speak!LastOf(ends) \in ends
      <4> HIDE DEF ends
      <4> QED
        BY <2>4, <2>6, <3>1, LastIsOne
    <3>3. end = Speak!LastOf(ends).end
      BY <1>5, <2>6 DEF Speak!EndOf
    <3> DEFINE l == Speak!LastOf(ends)
    <3>4. l \in words /\ end = l.end /\ l.end \in Nat /\ l.end <= latest /\ l.end > start
      <4> HIDE DEF ends
      <4> QED
        BY <3>1, <3>2, <3>3 DEF Spoken
    <3>5. /\ start \in Speak!Starts(Speak!ValidWords(r.words))
          /\ end \in Speak!Ends(Speak!ValidWords(r.words))
      <4> HIDE DEF l, words, end
      <4> QED
        BY <1>1, <2>2, <3>4 DEF Speak!Starts, Speak!Ends
    <3> QED
      BY <1>3, <2>3, <2>4, <3>4, <3>5
  <2> QED
    BY <2>5, <2>6
<1> QED
  BY <1>4, <1>5

(* The gateway leaves such a window as it is.                                *)
LEMMA NothingToSnap ==
    ASSUME NEW words, words \subseteq WordTime, NEW start \in Nat, NEW end \in Nat, start < end,
           \/ Speak!ValidWords(words) = {}
           \/ /\ start \in Speak!Starts(Speak!ValidWords(words))
              /\ end \in Speak!Ends(Speak!ValidWords(words))
    PROVE  /\ Speak!SliceTranscript(words, start, end).start = start
           /\ Speak!SliceTranscript(words, start, end).end = end
<1> DEFINE ordered == Speak!ValidWords(words)
<1>1. CASE ordered = {}
  BY <1>1 DEF Speak!SliceTranscript
<1>2. CASE ordered # {}
  <2>1. Speak!Starts(ordered) \in SUBSET Nat /\ Speak!Ends(ordered) \in SUBSET Nat
    BY DEF Speak!Starts, Speak!Ends, Speak!ValidWords, Speak!Timed, WordTime
  <2>2. /\ Speak!Nearest(Speak!Starts(ordered), start) = start
        /\ Speak!Nearest(Speak!Ends(ordered), end) = end
    BY <1>2, <2>1, NearestIsSame
  <2>3. ~ (start >= end)
    OBVIOUS
  <2> QED
    BY <1>2, <2>2, <2>3 DEF Speak!SliceTranscript
<1> QED
  BY <1>1, <1>2

Request == [mode : {"design", "clone"}, cfg : {1, 2}, text : Shape, instruction : Shape,
            refText : Shape, refDuration : Int]

(* What the graphs have room for, in the gateway's count.                    *)
Encoder(r) == Speak!G!CeilingByBatch(Speak!G!TextEncoderBatch(r.mode, r.cfg))
Backbone(r) == Speak!G!CeilingByBatch(Speak!G!BackbonePrefillBatch(r.cfg))
HasRoom(r) ==
    /\ Speak!G!Spoken(r) <= Encoder(r) /\ Speak!G!Transcript(r) <= Encoder(r)
    /\ Speak!G!Spoken(r) + Speak!G!Transcript(r) + Speak!G!Audio(r) <= Backbone(r)

LEMMA Counted ==
    ASSUME NEW r \in Request
    PROVE  /\ Speak!G!Spoken(r) \in Int /\ Speak!G!Transcript(r) \in Int
           /\ Speak!G!Audio(r) \in Int /\ Encoder(r) \in {256, 512} /\ Backbone(r) \in {256, 512}
           /\ Encoder(r) = IF r.mode = "design" /\ r.cfg = 1 THEN 256 ELSE 512
           /\ Backbone(r) = IF r.cfg = 1 THEN 256 ELSE 512
           /\ Speak!U!SpokenTokens(r) = Speak!G!Spoken(r)
           /\ Speak!U!TranscriptTokens(r) = Speak!G!Transcript(r)
           /\ Speak!U!AudioTokens(r) = Speak!G!Audio(r)
           /\ Speak!U!CeilingByBatch(Speak!U!TextEncoderBatch(r.mode, r.cfg)) = Encoder(r)
           /\ Speak!U!CeilingByBatch(Speak!U!BackboneBatch(r.cfg)) = Backbone(r)
<1>1. /\ r.text \in Shape /\ r.instruction \in Shape /\ r.refText \in Shape
      /\ r.refDuration \in Int /\ r.mode \in {"design", "clone"} /\ r.cfg \in {1, 2}
  BY DEF Request
<1>2. Speak!U!Empty = Speak!G!Nothing
  BY DEF Speak!U!Empty, Speak!G!Nothing
<1>3. /\ Speak!G!Spoken(r) \in Int /\ Speak!U!SpokenTokens(r) = Speak!G!Spoken(r)
  BY <1>1, SameShapes DEF Speak!G!Spoken, Speak!U!SpokenTokens, Speak!G!TextReserve
<1>4. /\ Speak!G!Transcript(r) \in Int /\ Speak!U!TranscriptTokens(r) = Speak!G!Transcript(r)
  BY <1>1, <1>2, SameShapes DEF Speak!G!Transcript, Speak!U!TranscriptTokens, Speak!G!TextReserve
<1>5. /\ Speak!G!Audio(r) \in Int /\ Speak!U!AudioTokens(r) = Speak!G!Audio(r)
  BY <1>1, <1>2 DEF Speak!G!Audio, Speak!U!AudioTokens, Speak!G!AudioTokens,
       Speak!G!AudioReserve, Speak!G!CeilDiv, Speak!G!Larger, Speak!U!Greater
<1>6. /\ Encoder(r) = IF r.mode = "design" /\ r.cfg = 1 THEN 256 ELSE 512
      /\ Backbone(r) = IF r.cfg = 1 THEN 256 ELSE 512
      /\ Speak!U!CeilingByBatch(Speak!U!TextEncoderBatch(r.mode, r.cfg)) = Encoder(r)
      /\ Speak!U!CeilingByBatch(Speak!U!BackboneBatch(r.cfg)) = Backbone(r)
  BY <1>1 DEF Encoder, Backbone, Speak!G!CeilingByBatch, Speak!U!CeilingByBatch,
       Speak!G!TextEncoderBatch, Speak!U!TextEncoderBatch, Speak!G!BackbonePrefillBatch,
       Speak!U!BackboneBatch, Speak!G!Segments, Speak!G!Branches,
       Speak!G!Ceiling256, Speak!G!Ceiling512
<1> QED
  BY <1>3, <1>4, <1>5, <1>6

(* What the page lets through has a text and a voice, and fits.              *)
LEMMA PageCounts ==
    ASSUME NEW r \in Request, NEW seen, seen.reachable, ~seen.generating,
           Speak!U!GenerateBlockedReason(r, seen) = "none"
    PROVE  r.text # Speak!G!Nothing /\ ~seen.blocked /\ HasRoom(r)
<1>1. Speak!U!Empty = Speak!G!Nothing
  BY DEF Speak!U!Empty, Speak!G!Nothing
<1> DEFINE spoken == Speak!U!SpokenTokens(r)
           transcript == Speak!U!TranscriptTokens(r)
           encoder == Speak!U!CeilingByBatch(Speak!U!TextEncoderBatch(r.mode, r.cfg))
           backbone == Speak!U!CeilingByBatch(Speak!U!BackboneBatch(r.cfg))
           audio == Speak!U!AudioTokens(r)
<1>2. "none" = IF r.text = Speak!U!Empty THEN "text"
               ELSE IF spoken > encoder \/ transcript > encoder THEN "encoder"
               ELSE IF spoken + transcript + audio > backbone THEN "backbone"
               ELSE IF seen.blocked THEN "voice" ELSE "none"
  BY DEF Speak!U!GenerateBlockedReason
<1>3. /\ spoken = Speak!G!Spoken(r) /\ transcript = Speak!G!Transcript(r)
      /\ audio = Speak!G!Audio(r) /\ encoder = Encoder(r) /\ backbone = Backbone(r)
  BY Counted
<1>4. /\ Speak!G!Spoken(r) \in Int /\ Speak!G!Transcript(r) \in Int
      /\ Speak!G!Audio(r) \in Int /\ Encoder(r) \in Int /\ Backbone(r) \in Int
  BY Counted
<1> HIDE DEF spoken, transcript, encoder, backbone, audio
<1> QED
  BY <1>1, <1>2, <1>3, <1>4 DEF HasRoom

(* The gateway counts no more audio than the page did, and refuses nothing.  *)
LEMMA GatewayCounts ==
    ASSUME NEW r \in Request, HasRoom(r), NEW s \in Request,
           s.mode = r.mode, s.cfg = r.cfg, s.text = r.text, s.instruction = r.instruction,
           s.refText = r.refText, s.refDuration <= r.refDuration
    PROVE  Speak!G!FindCeilingBreach(s) = Speak!G!NoBreach
<1>1. Speak!G!Spoken(s) = Speak!G!Spoken(r) /\ Speak!G!Transcript(s) = Speak!G!Transcript(r)
  BY DEF Speak!G!Spoken, Speak!G!Transcript
<1>2. Encoder(s) = Encoder(r) /\ Backbone(s) = Backbone(r)
  BY DEF Encoder, Backbone
<1>3. Speak!G!Audio(s) <= Speak!G!Audio(r)
  <2>1. s.refDuration \in Int /\ r.refDuration \in Int
    BY DEF Request
  <2> QED
    BY <2>1 DEF Speak!G!Audio, Speak!G!AudioTokens, Speak!G!CeilDiv, Speak!G!Larger,
         Speak!G!AudioReserve
<1>4. /\ Speak!G!Spoken(r) \in Int /\ Speak!G!Transcript(r) \in Int
      /\ Speak!G!Audio(r) \in Int /\ Speak!G!Audio(s) \in Int
      /\ Encoder(r) \in Int /\ Backbone(r) \in Int
  BY Counted
<1> DEFINE spoken == Speak!G!Spoken(s)
           transcript == Speak!G!Transcript(s)
           audio == Speak!G!Audio(s)
           worst == IF transcript > spoken
                    THEN [field |-> "transcript", tokens |-> transcript]
                    ELSE [field |-> Speak!G!HalfAtFault(s), tokens |-> spoken]
<1>5. ~ (worst.tokens > Encoder(s))
  <2>1. worst.tokens \in {spoken, transcript}
    BY Zenon
  <2> QED
    BY <2>1, <1>1, <1>2, <1>4 DEF HasRoom
<1>6. spoken + (transcript + audio) <= Backbone(s)
  <2> DEFINE a == Speak!G!Audio(r)
  <2> HIDE DEF a
  <2>1. spoken + transcript + a <= Backbone(s) /\ audio <= a
    BY <1>1, <1>2, <1>3 DEF HasRoom, a
  <2> HIDE DEF spoken, transcript, audio
  <2>2. spoken \in Int /\ transcript \in Int /\ audio \in Int /\ a \in Int /\ Backbone(s) \in Int
    BY <1>1, <1>2, <1>4 DEF spoken, transcript, audio, a
  <2> QED
    BY <2>1, <2>2
<1>7. Speak!G!FindCeilingBreach(s) =
        IF worst.tokens > Encoder(s)
        THEN [field |-> worst.field, stage |-> "text-encoder",
              tokens |-> worst.tokens, ceiling |-> Encoder(s)]
        ELSE IF spoken + (transcript + audio) <= Backbone(s) THEN Speak!G!NoBreach
        ELSE [field |-> IF transcript + audio > spoken THEN "reference"
                        ELSE Speak!G!HalfAtFault(s),
              stage |-> "backbone-prefill",
              tokens |-> spoken + (transcript + audio), ceiling |-> Backbone(s)]
  BY Zenon DEF Speak!G!FindCeilingBreach, Encoder, Backbone
<1> HIDE DEF worst, spoken, transcript, audio
<1> QED
  BY <1>5, <1>6, <1>7

(* A refusal that advises a higher CFG advises what helps.                   *)
LEMMA AdviceHelps ==
    ASSUME NEW r \in Request, Advised(r)
    PROVE  Room(r.mode, r.cfg) < Room(r.mode, 2)
<1>1. r.mode \in {"design", "clone"} /\ r.cfg \in {1, 2}
  BY DEF Request
<1>2. Speak!G!FindCeilingBreach(r).ceiling \in {0, Encoder(r), Backbone(r)}
  <2> USE DEF Speak!G!FindCeilingBreach, Encoder, Backbone, Speak!G!NoBreach
  <2> QED
    BY Zenon
<1>3. Speak!G!FindCeilingBreach(r).ceiling = 256
  BY DEF Advised, Speak!G!CeilingRefusal, Speak!G!Ceiling256
<1>4. r.cfg = 1
  <2>1. Encoder(r) = 256 \/ Backbone(r) = 256
    BY <1>2, <1>3
  <2> QED
    BY <1>1, <2>1, Counted
<1> QED
  BY <1>1, <1>4 DEF Room, Speak!G!TokenCeilingFor, Speak!G!Smaller, Speak!G!CeilingByBatch,
       Speak!G!TextEncoderBatch, Speak!G!BackbonePrefillBatch, Speak!G!Segments,
       Speak!G!Branches, Speak!G!Ceiling256, Speak!G!Ceiling512

LEMMA Resolved ==
    ASSUME NEW r \in Request, HasRoom(r),
           r.text # Speak!G!Nothing, r.instruction # Speak!G!Nothing,
           NEW intent, intent.text = r.text, intent.instruction = r.instruction,
           intent.cfg = r.cfg, intent.refText = r.refText, intent.reference \in BOOLEAN,
           r.mode = IF intent.reference THEN "clone" ELSE "design",
           NEW header, header = Speak!ReadWavHeader(intent.audio),
           NEW length, length = Speak!Units(Speak!DurationSeconds(header.bytes, header)),
           intent.reference => header.ok /\ length \in Int /\ length <= r.refDuration,
           ~intent.reference => r.refDuration = 0
    PROVE  /\ Speak!ResolveVoiceIntent(intent).ok
           /\ Speak!ResolveVoiceIntent(intent).mode = r.mode
<1> DEFINE duration == IF intent.reference /\ header.ok THEN length ELSE 0
           s == [mode |-> r.mode, cfg |-> intent.cfg, text |-> intent.text,
                 instruction |-> intent.instruction, refText |-> intent.refText,
                 refDuration |-> duration]
<1>1. duration \in Int /\ duration <= r.refDuration
  BY DEF Request
<1> HIDE DEF duration
<1>2. s \in Request
  BY <1>1 DEF Request
<1>3. Speak!G!FindCeilingBreach(s) = Speak!G!NoBreach
  <2>1. /\ s.mode = r.mode /\ s.cfg = r.cfg /\ s.text = r.text
        /\ s.instruction = r.instruction /\ s.refText = r.refText
        /\ s.refDuration = duration
    OBVIOUS
  <2> HIDE DEF s
  <2> QED
    BY <1>1, <1>2, <2>1, GatewayCounts
<1>4. Speak!Nothing \notin {intent.text, intent.instruction}
  BY DEF Speak!Nothing
<1>5. Speak!ResolveVoiceIntent(intent) =
        IF Speak!Nothing \in {intent.text, intent.instruction}
           \/ Speak!G!FindCeilingBreach(s) # Speak!G!NoBreach
        THEN Speak!Rejected
        ELSE [ok |-> TRUE, mode |-> r.mode]
  BY Zenon DEF Speak!ResolveVoiceIntent, duration
<1> QED
  BY <1>3, <1>4, <1>5

(* A prompt that has room in the page's count fits the graphs.               *)
LEMMA RoomFits ==
    ASSUME NEW r \in Request, HasRoom(r), NEW answer,
           answer.mode = r.mode, answer.cfg = r.cfg, answer.text = r.text,
           answer.instruction = r.instruction, answer.refText = r.refText,
           r.mode = "clone" =>
               /\ r.refText # Speak!G!Nothing /\ r.refDuration \in Nat
               /\ answer.span[2] - answer.span[1] = r.refDuration,
           r.mode = "design" => r.refText = Speak!G!Nothing
    PROVE  PromptFits(answer)
<1>1. r.mode \in {"design", "clone"}
  BY DEF Request
<1>2. Encoder(r) = IF r.mode = "design" /\ r.cfg = 1 THEN 256 ELSE 512
  BY Counted
<1>3. Backbone(r) = IF r.cfg = 1 THEN 256 ELSE 512
  BY Counted
<1>4. /\ Speak!G!Spoken(r) \in Int /\ Speak!G!Transcript(r) \in Int
      /\ Speak!G!Audio(r) \in Int /\ Encoder(r) \in Int /\ Backbone(r) \in Int
  BY Counted
<1>5. CASE r.mode = "design"
  <2>1. Speak!G!Spoken(r) <= Encoder(r) /\ Speak!G!Spoken(r) <= Backbone(r)
    BY <1>4, <1>5 DEF HasRoom, Speak!G!Transcript, Speak!G!Audio
  <2> QED
    BY <1>2, <1>3, <1>5, <2>1 DEF PromptFits, Speak!G!Spoken, Speak!G!TextReserve
<1>6. CASE r.mode = "clone"
  <2>1. Speak!G!Audio(r) = (answer.span[2] - answer.span[1] + 1) \div 2 + 1
    BY <1>6 DEF Speak!G!Audio, Speak!G!AudioTokens, Speak!G!CeilDiv, Speak!G!Larger,
         Speak!G!AudioReserve
  <2>2. Speak!G!Transcript(r) = Speak!G!EstimateTokens(answer.refText) + 8
    BY <1>6 DEF Speak!G!Transcript, Speak!G!TextReserve
  <2>3. Speak!G!Spoken(r) = Speak!G!EstimateTokens(
                                 Speak!G!Joined(answer.instruction, answer.text)) + 8
    BY DEF Speak!G!Spoken, Speak!G!TextReserve
  <2>4. /\ Speak!G!Spoken(r) <= Encoder(r) /\ Speak!G!Transcript(r) <= Encoder(r)
        /\ Speak!G!Spoken(r) + Speak!G!Transcript(r) + Speak!G!Audio(r) <= Backbone(r)
    BY Zenon DEF HasRoom
  <2>5. /\ Encoder(r) = 512 /\ answer.mode # "design"
        /\ Backbone(r) = IF answer.cfg = 1 THEN 256 ELSE 512
    BY <1>2, <1>3, <1>6
  <2> DEFINE spoken == Speak!G!EstimateTokens(Speak!G!Joined(answer.instruction, answer.text)) + 8
             transcript == Speak!G!EstimateTokens(answer.refText) + 8
             audio == (answer.span[2] - answer.span[1] + 1) \div 2 + 1
             encoder == IF answer.mode = "design" /\ answer.cfg = 1 THEN 256 ELSE 512
             backbone == IF answer.cfg = 1 THEN 256 ELSE 512
  <2>6. encoder = 512
    BY <2>5
  <2> HIDE DEF encoder
  <2>7. /\ spoken <= encoder /\ transcript <= encoder
        /\ spoken + transcript + audio <= backbone
    <3>1. /\ spoken = Speak!G!Spoken(r) /\ transcript = Speak!G!Transcript(r)
          /\ audio = Speak!G!Audio(r) /\ backbone = Backbone(r) /\ encoder = Encoder(r)
      BY <2>1, <2>2, <2>3, <2>5, <2>6
    <3> HIDE DEF spoken, transcript, audio, backbone
    <3> QED
      BY <2>4, <3>1
  <2>8. PromptFits(answer) <=> IF answer.mode = "design"
                               THEN spoken <= encoder /\ spoken <= backbone
                               ELSE /\ spoken <= encoder /\ transcript <= encoder
                                    /\ spoken + transcript + audio <= backbone
    BY Zenon DEF PromptFits, encoder
  <2> HIDE DEF spoken, transcript, audio, backbone
  <2> QED
    BY <2>5, <2>7, <2>8
<1> QED
  BY <1>1, <1>5, <1>6

LEMMA Limits ==
    ASSUME NEW ceiling \in CeilingFiles, NEW cfg
    PROVE  LET finding == Speak!ParseReferenceCeiling(ceiling)
               limit == Speak!ReferenceCeilingFor(finding, cfg)
           IN /\ limit \in Nat \ {0} /\ finding.usable \in BOOLEAN
              /\ finding.usable => limit = Speak!ReferenceSecondsFor(finding, cfg)
BY DemoAssumption DEF Speak!ParseReferenceCeiling, Speak!ReferenceCeilingFor,
   Speak!Measured, Speak!ReferenceSecondsFor

(* A described voice.                                                        *)
LEMMA DescribedPress ==
    ASSUME NEW cfg \in {1, 2}, NEW text \in Lines, NEW instruction \in Instructions,
           NEW ceiling \in CeilingFiles,
           NEW press, press = Press(Page("described", cfg, text, instruction, ceiling))
    PROVE  press.kind = "press" /\ Unblocked(press) /\ AsShown(press)
<1> DEFINE page == Page("described", cfg, text, instruction, ceiling)
           r == [cfg |-> cfg, text |-> text, instruction |-> instruction,
                 mode |-> "design", refText |-> Speak!G!Nothing, refDuration |-> 0]
           spec == Speak!ResolveVoiceSpec(page)
           seen == [reachable |-> page.reachable, generating |-> page.generating,
                    blocked |-> \/ ~spec.resolved
                                \/ /\ page.source = "staged"
                                   /\ Speak!SelectionBlocked(page.selection,
                                          Speak!SpeakCeiling(page),
                                          Speak!U!TokenCeilingFor("clone", page.cfg))]
<1>1. /\ page.source = "described" /\ page.cfg = cfg /\ page.text = text
      /\ page.instruction = instruction /\ page.file = ceiling
      /\ page.reachable = TRUE /\ page.generating = FALSE
  BY DEF Page
<1>2. Speak!Effective(page) = page
  BY <1>1 DEF Speak!Effective
<1>3. /\ press.kind = "press" /\ press.page = page
      /\ press.reason = Speak!BlockedReason(page)
      /\ press.answer = IF press.reason = "none" THEN Speak!Pressed(page) ELSE Speak!Rejected
  BY <1>2 DEF Press
<1> HIDE DEF page
<1>4. spec = IF instruction = Speak!Nothing THEN Speak!Unresolved ELSE Speak!Described
  BY <1>1 DEF Speak!ResolveVoiceSpec
<1>5. ~(spec.resolved /\ spec.kind = "referenced")
  BY <1>4 DEF Speak!Unresolved, Speak!Described
<1> HIDE DEF spec
<1>6. Speak!ShownRequest(page) = r
  BY <1>1, <1>5 DEF Speak!ShownRequest, Speak!Nothing, spec
<1>7. r \in Request
  BY DemoAssumption DEF Request, Shape, Speak!G!Nothing
<1>8. Advised(r) => Room(r.mode, r.cfg) < Room(r.mode, 2)
  BY <1>7, AdviceHelps
<1>9. CASE press.reason # "none"
  <2>1. press.answer.ok = FALSE
    BY <1>3, <1>9 DEF Speak!Rejected
  <2>2. page.source # "staged"
    BY <1>1
  <2> HIDE DEF r, seen
  <2> QED
    BY <1>3, <1>6, <1>8, <1>9, <2>1, <2>2, Zenon DEF Unblocked, AsShown
<1>10. CASE press.reason = "none"
  <2>1. r.text # Speak!G!Nothing /\ ~seen.blocked /\ HasRoom(r)
    <3>1. Speak!U!GenerateBlockedReason(r, seen) = "none"
      BY <1>3, <1>6, <1>10 DEF Speak!BlockedReason, spec
    <3>2. seen.reachable /\ ~seen.generating
      BY <1>1
    <3> HIDE DEF seen, r
    <3> QED
      BY <1>7, <3>1, <3>2, PageCounts
  <2>2. spec = Speak!Described /\ instruction # Speak!G!Nothing
    BY <1>4, <2>1 DEF Speak!Unresolved, Speak!Nothing
  <2> DEFINE form == Speak!SpeechForm(Speak!ProjectSpeechRequest(page, spec))
  <2>3. /\ DOMAIN form = {"text", "instruction", "cfg"}
        /\ form.text = text /\ form.instruction = instruction /\ form.cfg = cfg
    BY <1>1, <2>2 DEF Speak!SpeechForm, Speak!ProjectSpeechRequest, Speak!Described
  <2>4. press.answer = Speak!Speech(form, ceiling)
    BY <1>1, <1>3, <1>10 DEF Speak!Pressed, spec
  <2> HIDE DEF form
  <2> DEFINE intent == [text |-> form.text, instruction |-> form.instruction, cfg |-> form.cfg,
                        reference |-> FALSE, audio |-> Speak!Other("none"),
                        refText |-> Speak!Nothing]
             answer == Speak!Served(form, Speak!ResolveVoiceIntent(intent).mode,
                                    Speak!Nothing, <<0, 0>>)
  <2>5. Speak!ResolveVoiceIntent(intent).ok /\ Speak!ResolveVoiceIntent(intent).mode = "design"
    <3>1. /\ intent.text = r.text /\ intent.instruction = r.instruction /\ intent.cfg = r.cfg
          /\ intent.refText = r.refText /\ intent.reference = FALSE /\ r.mode = "design"
          /\ r.refDuration = 0 /\ r.instruction = instruction
      BY <2>3 DEF Speak!Nothing
    <3> HIDE DEF intent, r
    <3> QED
      BY <1>7, <2>1, <2>2, <3>1, Resolved
  <2>6. Speak!Speech(form, ceiling) = answer
    <3>1. ~("recording" \in DOMAIN form) /\ ~("voice" \in DOMAIN form) /\ ~("refText" \in DOMAIN form)
      BY <2>3
    <3> QED
      BY <2>5, <3>1 DEF Speak!Speech, Speak!ValidPair
  <2>7. /\ answer.ok /\ answer.mode = "design" /\ answer.cfg = cfg /\ answer.text = text
        /\ answer.instruction = instruction /\ answer.refText = Speak!G!Nothing
        /\ answer.span = <<0, 0>>
    BY <2>3, <2>5 DEF Speak!Served, Speak!Nothing
  <2> HIDE DEF answer
  <2>8. PromptFits(answer)
    <3>1. /\ answer.mode = r.mode /\ answer.cfg = r.cfg /\ answer.text = r.text
          /\ answer.instruction = r.instruction /\ answer.refText = r.refText
          /\ r.mode = "design" /\ r.refText = Speak!G!Nothing
      BY <2>7
    <3> HIDE DEF r
    <3> QED
      BY <1>7, <2>1, <3>1, RoomFits
  <2> QED
    BY <1>1, <1>3, <1>6, <1>8, <2>4, <2>6, <2>7, <2>8 DEF Unblocked, AsShown
<1> QED
  BY <1>3, <1>9, <1>10

(* A voice of the library.                                                   *)
LEMMA SavedPress ==
    ASSUME NEW cfg \in {1, 2}, NEW text \in Lines, NEW instruction \in Instructions,
           NEW ceiling \in CeilingFiles, NEW voice \in SavedVoices,
           NEW press,
           press = Press(Speak!With(Page("saved", cfg, text, instruction, ceiling),
                                    [voice |-> voice]))
    PROVE  press.kind = "press" /\ Unblocked(press) /\ AsShown(press)
<1> DEFINE page == Speak!With(Page("saved", cfg, text, instruction, ceiling), [voice |-> voice])
           spec == Speak!ResolveVoiceSpec(page)
           r == [cfg |-> cfg, text |-> text, instruction |-> instruction, mode |-> "clone",
                 refText |-> IF spec.resolved THEN voice.transcript ELSE Speak!G!Nothing,
                 refDuration |-> IF spec.resolved THEN voice.duration ELSE 0]
           seen == [reachable |-> page.reachable, generating |-> page.generating,
                    blocked |-> \/ ~spec.resolved
                                \/ /\ page.source = "staged"
                                   /\ Speak!SelectionBlocked(page.selection,
                                          Speak!SpeakCeiling(page),
                                          Speak!U!TokenCeilingFor("clone", page.cfg))]
           reference == [source |-> "voice", voice |-> voice, transcript |-> voice.transcript]
           header == Speak!ReadWavHeader(voice.wav)
           length == Speak!Units(Speak!DurationSeconds(header.bytes, header))
<1>1. /\ page.source = "saved" /\ page.cfg = cfg /\ page.text = text
      /\ page.instruction = instruction /\ page.file = ceiling
      /\ page.reachable = TRUE /\ page.generating = FALSE /\ page.voice = voice
  BY DEF Page, Speak!With
<1>2. Speak!Effective(page) = page
  BY <1>1 DEF Speak!Effective
<1>3. /\ press.kind = "press" /\ press.page = page
      /\ press.reason = Speak!BlockedReason(page)
      /\ press.answer = IF press.reason = "none" THEN Speak!Pressed(page) ELSE Speak!Rejected
  BY <1>2 DEF Press
<1> HIDE DEF page, spec
<1>4. /\ voice.transcript \in Shape /\ voice.duration \in Nat /\ voice.length \in Nat
      /\ header.ok /\ length = voice.duration
  BY DemoAssumption DEF SavedAs
<1> HIDE DEF header, length
<1>5. \/ spec = Speak!Unresolved
      \/ /\ spec = Speak!Referenced(reference)
         /\ instruction # Speak!G!Nothing /\ voice.transcript # Speak!G!Nothing
  BY <1>1 DEF Speak!ResolveVoiceSpec, Speak!Nothing, spec
<1>6. /\ spec.resolved \in BOOLEAN
      /\ spec.resolved => /\ spec = Speak!Referenced(reference) /\ spec.kind = "referenced"
                          /\ instruction # Speak!G!Nothing
                          /\ voice.transcript # Speak!G!Nothing
  <2>1. Speak!Unresolved.resolved = FALSE
    BY DEF Speak!Unresolved
  <2>2. /\ Speak!Referenced(reference).resolved = TRUE
        /\ Speak!Referenced(reference).kind = "referenced"
    BY DEF Speak!Referenced
  <2> HIDE DEF reference
  <2> QED
    BY <1>5, <2>1, <2>2
<1>7. Speak!ShownRequest(page) = r
  BY <1>1, <1>6 DEF Speak!ShownRequest, Speak!Nothing, spec
<1>8. r \in Request
  <2>1. Speak!G!Nothing \in Shape
    BY DEF Shape, Speak!G!Nothing
  <2> QED
    BY <1>4, <2>1, DemoAssumption DEF Request
<1>9. Advised(r) => Room(r.mode, r.cfg) < Room(r.mode, 2)
  BY <1>8, AdviceHelps
<1>10. CASE press.reason # "none"
  <2>1. press.answer.ok = FALSE
    BY <1>3, <1>10 DEF Speak!Rejected
  <2> HIDE DEF r
  <2> QED
    BY <1>1, <1>3, <1>7, <1>9, <1>10, <2>1, Zenon DEF Unblocked, AsShown
<1>11. CASE press.reason = "none"
  <2>1. r.text # Speak!G!Nothing /\ ~seen.blocked /\ HasRoom(r)
    <3>1. Speak!U!GenerateBlockedReason(r, seen) = "none"
      BY <1>3, <1>7, <1>11 DEF Speak!BlockedReason, spec
    <3>2. seen.reachable /\ ~seen.generating
      BY <1>1
    <3> HIDE DEF seen, r
    <3> QED
      BY <1>8, <3>1, <3>2, PageCounts
  <2>2. /\ spec.resolved /\ spec = Speak!Referenced(reference) /\ instruction # Speak!G!Nothing
        /\ voice.transcript # Speak!G!Nothing
        /\ r.refText = voice.transcript /\ r.refDuration = voice.duration
    BY <1>6, <2>1
  <2> DEFINE form == Speak!SpeechForm(Speak!ProjectSpeechRequest(page, spec))
  <2>3. /\ DOMAIN form = {"text", "instruction", "cfg", "refText", "voice"}
        /\ form.text = text /\ form.instruction = instruction /\ form.cfg = cfg
        /\ form.refText = voice.transcript /\ form.voice = voice
    <3> DEFINE sent == Speak!With(Speak!With([text |-> text, instruction |-> instruction, cfg |-> cfg],
                                            [refText |-> voice.transcript]), [voice |-> voice])
    <3>1. Speak!ProjectSpeechRequest(page, spec) = sent
      BY <1>1, <2>2 DEF Speak!ProjectSpeechRequest, Speak!Referenced
    <3>2. /\ DOMAIN sent = {"text", "instruction", "cfg", "refText", "voice"}
          /\ sent.text = text /\ sent.instruction = instruction /\ sent.cfg = cfg
          /\ sent.refText = voice.transcript /\ sent.voice = voice
      BY DEF Speak!With
    <3> HIDE DEF sent
    <3> QED
      BY <2>2, <3>1, <3>2 DEF Speak!SpeechForm, Speak!Nothing
  <2>4. press.answer = Speak!Speech(form, ceiling)
    BY <1>1, <1>3, <1>11 DEF Speak!Pressed, spec
  <2> HIDE DEF form
  <2> DEFINE intent == [text |-> form.text, instruction |-> form.instruction, cfg |-> form.cfg,
                        reference |-> TRUE, audio |-> voice.wav,
                        refText |-> voice.transcript]
             answer == Speak!Served(form, Speak!ResolveVoiceIntent(intent).mode,
                                    voice.transcript, <<0, voice.length>>)
  <2>5. Speak!ResolveVoiceIntent(intent).ok /\ Speak!ResolveVoiceIntent(intent).mode = "clone"
    <3>1. /\ intent.text = r.text /\ intent.instruction = r.instruction /\ intent.cfg = r.cfg
          /\ intent.refText = r.refText /\ intent.reference = TRUE /\ r.mode = "clone"
          /\ r.refDuration = voice.duration /\ r.instruction = instruction
          /\ header = Speak!ReadWavHeader(intent.audio)
      BY <2>2, <2>3 DEF header
    <3>2. length = Speak!Units(Speak!DurationSeconds(header.bytes, header))
      BY DEF length
    <3>3. /\ header.ok /\ length \in Int /\ length <= r.refDuration
          /\ r.text # Speak!G!Nothing /\ r.instruction # Speak!G!Nothing
      BY <1>4, <2>1, <2>2
    <3>4. intent.reference \in BOOLEAN /\ r.mode = IF intent.reference THEN "clone" ELSE "design"
      BY <3>1
    <3> HIDE DEF intent, r
    <3> QED
      BY <1>8, <2>1, <3>1, <3>2, <3>3, <3>4, Resolved
  <2>6. Speak!Speech(form, ceiling) = answer
    <3>1. ~("recording" \in DOMAIN form) /\ "voice" \in DOMAIN form /\ "refText" \in DOMAIN form
      BY <2>3
    <3> QED
      BY <2>2, <2>3, <2>5, <3>1 DEF Speak!Speech, Speak!ValidPair, Speak!Nothing
  <2>7. /\ answer.ok /\ answer.mode = "clone" /\ answer.cfg = cfg /\ answer.text = text
        /\ answer.instruction = instruction /\ answer.refText = voice.transcript
        /\ answer.span = <<0, voice.length>>
    BY <2>3, <2>5 DEF Speak!Served
  <2> HIDE DEF answer
  <2>8. Plain(page) => voice.duration = voice.length
    BY <1>1 DEF Plain
  <2>9. Plain(page) => PromptFits(answer)
    <3>1. /\ answer.mode = r.mode /\ answer.cfg = r.cfg /\ answer.text = r.text
          /\ answer.instruction = r.instruction /\ answer.refText = r.refText
          /\ r.mode = "clone" /\ r.refText # Speak!G!Nothing /\ r.refDuration \in Nat
          /\ Plain(page) => answer.span[2] - answer.span[1] = r.refDuration
      BY <1>4, <2>2, <2>7, <2>8
    <3> HIDE DEF r
    <3> QED
      BY <1>8, <2>1, <3>1, RoomFits
  <2>10. Plain(page) => answer.span[2] - answer.span[1] = r.refDuration
    BY <1>4, <2>2, <2>7, <2>8
  <2> QED
    BY <1>1, <1>3, <1>7, <1>9, <2>2, <2>4, <2>6, <2>7, <2>9, <2>10 DEF Unblocked, AsShown
<1> QED
  BY <1>3, <1>10, <1>11

Selection == [recording : Recordings, start : Int, end : Int, transcript : Shape,
              edited : BOOLEAN]

LEMMA TimesNat ==
    ASSUME NEW k \in Nat, NEW n \in Nat
    PROVE  k * n \in Nat
<1> DEFINE B == {j \in Nat : ~ (j * n \in Nat)}
<1>1. SUFFICES ASSUME k \in B PROVE FALSE
  OBVIOUS
<1>2. B \in SUBSET Nat /\ B # {}
  BY <1>1
<1>3. PICK j \in B : \A i \in B : j <= i
  <2> HIDE DEF B
  <2> QED
    BY <1>2, LeastOf
<1>4. j \in Nat /\ ~ (j * n \in Nat)
  OBVIOUS
<1>5. j # 0
  <2>1. 0 * n = 0
    OBVIOUS
  <2> QED
    BY <1>4, <2>1
<1>6. j - 1 \in Nat /\ (j - 1) * n \in Nat
  BY <1>3, <1>4, <1>5
<1>7. j * n = (j - 1) * n + n
  BY <1>4
<1> QED
  BY <1>4, <1>6, <1>7

LEMMA TextIsShape ==
    ASSUME NEW words, IsFiniteSet(words)
    PROVE  Speak!TextOf(words) \in Shape
<1> DEFINE k == Cardinality(words)
<1>1. k \in Nat
  BY FS_CardinalityType
<1> HIDE DEF k
<1>2. /\ WordShape.cjk \in Nat /\ WordShape.other \in Nat
      /\ WordShape.words \in Nat /\ WordShape.punct \in Nat
  BY DemoAssumption DEF Shape
<1>3. /\ k * WordShape.cjk \in Nat /\ k * WordShape.other \in Nat
      /\ k * WordShape.words \in Nat /\ k * WordShape.punct \in Nat
  BY <1>1, <1>2, TimesNat
<1>4. Speak!WordsShape(k) \in Shape
  <2>1. CASE k = 0
    BY <2>1 DEF Speak!WordsShape, Speak!Nothing, Speak!G!Nothing, Shape
  <2>2. CASE k # 0
    <3>1. k * WordShape.other + k - 1 \in Nat
      BY <1>1, <1>3, <2>2
    <3> QED
      BY <1>3, <2>2, <3>1 DEF Speak!WordsShape, Shape
  <2> QED
    BY <2>1, <2>2
<1> QED
  BY <1>4 DEF Speak!TextOf, k, Speak!Cardinality, Cardinality

(* The window that is settled on for a staged recording.                     *)
LEMMA MovedSelection ==
    ASSUME NEW s \in Selection, NEW target \in Int, NEW max \in Nat,
           NEW m, m = Speak!MoveReferenceWindow(s, target, max)
    PROVE  /\ m \in Selection /\ m.recording = s.recording
           /\ m.start \in Nat /\ m.end \in Nat
           /\ m.end <= m.recording.duration /\ m.end - m.start <= max
           /\ Audible(m) =>
                 /\ m.start < m.end
                 /\ \/ Speak!ValidWords(m.recording.words) = {}
                    \/ /\ m.start \in Speak!Starts(Speak!ValidWords(m.recording.words))
                       /\ m.end \in Speak!Ends(Speak!ValidWords(m.recording.words))
<1> DEFINE r == s.recording
           w == Speak!Move(r, target, max)
           timed == Speak!Usable(r.words, r.duration)
           transcript == IF s.edited \/ timed = {} THEN s.transcript
                         ELSE Speak!TextOf(w.transcript)
<1>1. /\ r \in Recordings /\ r.duration \in Nat /\ r.words \subseteq WordTime
      /\ IsFiniteSet(r.words)
  BY DemoAssumption DEF Selection
<1>2. /\ w.start \in Nat /\ w.end \in Nat
      /\ w.end <= r.duration /\ w.end - w.start <= max
      /\ w.transcript = Speak!Contained(timed, w.start, w.end)
      /\ (\E v \in w.transcript : v.start < v.end) =>
            /\ w.start < w.end
            /\ w.start \in Speak!Starts(Speak!ValidWords(r.words))
            /\ w.end \in Speak!Ends(Speak!ValidWords(r.words))
  <2> HIDE DEF r
  <2> QED
    BY <1>1, Moved
<1>3. transcript \in Shape
  <2>1. w.transcript \subseteq r.words
    BY <1>2 DEF Speak!Contained, Speak!Usable, Speak!ValidWords
  <2>2. IsFiniteSet(w.transcript)
    BY <1>1, <2>1, FS_Subset
  <2>3. Speak!TextOf(w.transcript) \in Shape
    BY <2>2, TextIsShape
  <2>4. s.transcript \in Shape
    BY DEF Selection
  <2> HIDE DEF w, timed
  <2> QED
    BY <2>3, <2>4
<1>4. m = [s EXCEPT !.start = w.start, !.end = w.end, !.transcript = transcript]
  BY Zenon DEF Speak!MoveReferenceWindow
<1> HIDE DEF w, timed, transcript
<1>5. /\ m \in Selection /\ m.recording = r /\ m.start = w.start /\ m.end = w.end
  <2>1. /\ m.recording = s.recording /\ m.start = w.start /\ m.end = w.end
        /\ m.transcript = transcript /\ m.edited = s.edited
        /\ DOMAIN m = {"recording", "start", "end", "transcript", "edited"}
    BY <1>4 DEF Selection
  <2>2. m = [recording |-> s.recording, start |-> w.start, end |-> w.end,
             transcript |-> transcript, edited |-> s.edited]
    BY <1>4 DEF Selection
  <2>3. s.recording \in Recordings /\ s.edited \in BOOLEAN
    BY DEF Selection
  <2>4. w.start \in Int /\ w.end \in Int
    BY <1>2
  <2> QED
    BY <1>3, <2>1, <2>2, <2>3, <2>4 DEF Selection
<1>6. Audible(m) => \/ Speak!ValidWords(r.words) = {} /\ m.start < m.end
                    \/ \E v \in w.transcript : v.start < v.end
  <2>1. w.transcript = Speak!Contained(timed, m.start, m.end)
    BY <1>2, <1>5
  <2>2. timed = Speak!Usable(m.recording.words, m.recording.duration)
    BY <1>5 DEF timed
  <2> HIDE DEF r
  <2>3. Audible(m) => IF Speak!ValidWords(m.recording.words) = {} THEN m.start < m.end
                      ELSE \E v \in w.transcript : v.start < v.end
    BY <2>1, <2>2, Zenon DEF Audible
  <2> QED
    BY <1>5, <2>3
<1> HIDE DEF r
<1> QED
  BY <1>2, <1>5, <1>6 DEF r

LEMMA HeaderOf ==
    ASSUME NEW wav, wav.container = "wav", Len(wav.chunks) = 3,
           wav.chunks[1].tag = Speak!PcmTag,
           NEW header, header = Speak!ReadWavHeader(wav)
    PROVE  /\ header.ok /\ header.channels = wav.chunks[1].channels
           /\ header.rate = wav.chunks[1].rate /\ header.bits = wav.chunks[1].bits
           /\ header.bytes = wav.chunks[2].size
BY DEF Speak!ReadWavHeader

LEMMA CutHeader ==
    ASSUME NEW start \in Nat, NEW end \in Nat,
           NEW header, header = Speak!ReadWavHeader(Speak!CutWav(start, end))
    PROVE  header.ok /\ Speak!Units(Speak!DurationSeconds(header.bytes, header)) = 1
<1> DEFINE fmt == Speak!Fmt(Speak!PcmTag, 1, Speak!TargetRate, 16)
           chunks == <<fmt, Speak!List(26), Speak!Data((end - start) * Speak!UnitBytes, <<>>)>>
<1>1. Speak!CutWav(start, end) = [container |-> "wav", chunks |-> chunks, whole |-> TRUE]
  BY DEF Speak!CutWav, Speak!Wav
<1> HIDE DEF fmt
<1>2. Len(chunks) = 3 /\ chunks[1] = fmt /\ chunks[2] = Speak!List(26)
  OBVIOUS
<1>3. /\ fmt.tag = Speak!PcmTag /\ fmt.channels = 1 /\ fmt.rate = 24000 /\ fmt.bits = 16
      /\ Speak!List(26).size = 26
  BY DEF fmt, Speak!Fmt, Speak!List, Speak!TargetRate
<1> HIDE DEF chunks
<1>4. /\ header.ok /\ header.channels = 1 /\ header.rate = 24000
      /\ header.bits = 16 /\ header.bytes = 26
  <2> DEFINE wav == Speak!CutWav(start, end)
  <2>1. wav.container = "wav" /\ wav.chunks = chunks
    BY <1>1
  <2>2. header = Speak!ReadWavHeader(wav)
    OBVIOUS
  <2> HIDE DEF wav, fmt
  <2>3. Len(wav.chunks) = 3 /\ wav.chunks[1].tag = Speak!PcmTag
    BY <1>2, <1>3, <2>1
  <2>4. /\ header.ok /\ header.channels = wav.chunks[1].channels
        /\ header.rate = wav.chunks[1].rate /\ header.bits = wav.chunks[1].bits
        /\ header.bytes = wav.chunks[2].size
    BY <2>1, <2>2, <2>3, HeaderOf
  <2> QED
    BY <1>2, <1>3, <2>1, <2>4
<1>5. Speak!DurationSeconds(header.bytes, header).bytes = 26
  BY <1>4 DEF Speak!DurationSeconds
<1>6. Speak!DurationSeconds(header.bytes, header).perSecond = 48000
  BY <1>4 DEF Speak!DurationSeconds
<1> QED
  BY <1>4, <1>5, <1>6 DEF Speak!Units

(* What the gateway makes of a window that it has nothing to snap.           *)
LEMMA WindowServed ==
    ASSUME NEW s \in Selection, NEW ceiling \in CeilingFiles, NEW cfg,
           s.start \in Nat, s.end \in Nat, s.start < s.end, s.end <= s.recording.duration,
           s.end - s.start <= Speak!ReferenceCeilingFor(Speak!ParseReferenceCeiling(ceiling), cfg),
           \/ Speak!ValidWords(s.recording.words) = {}
           \/ /\ s.start \in Speak!Starts(Speak!ValidWords(s.recording.words))
              /\ s.end \in Speak!Ends(Speak!ValidWords(s.recording.words)),
           NEW form, form.recording = s.recording, form.start = s.start, form.end = s.end,
           form.cfg = cfg,
           NEW cut, cut = Speak!Window(form, ceiling)
    PROVE  /\ cut.ok /\ cut.start = s.start /\ cut.end = s.end
           /\ cut.wav = Speak!CutWav(s.start, s.end)
<1> DEFINE finding == Speak!ParseReferenceCeiling(ceiling)
           max == IF finding.usable THEN Speak!ReferenceSecondsFor(finding, form.cfg)
                  ELSE Speak!NoLimit(form.recording)
           slice == Speak!SliceTranscript(form.recording.words, form.start, form.end)
           served == [ok |-> TRUE, start |-> slice.start, end |-> slice.end,
                      transcript |-> Speak!TextOf(slice.transcript),
                      wav |-> Speak!CutWav(slice.start, slice.end)]
<1>1. /\ s.recording \in Recordings /\ s.recording.duration \in Nat
      /\ s.recording.words \subseteq WordTime
  BY DemoAssumption DEF Selection
<1>2. slice.start = s.start /\ slice.end = s.end
  <2> DEFINE words == s.recording.words
  <2>1. words \subseteq WordTime
    BY <1>1
  <2>2. slice = Speak!SliceTranscript(words, s.start, s.end)
    OBVIOUS
  <2>3. \/ Speak!ValidWords(words) = {}
        \/ /\ s.start \in Speak!Starts(Speak!ValidWords(words))
           /\ s.end \in Speak!Ends(Speak!ValidWords(words))
    OBVIOUS
  <2> HIDE DEF words, slice
  <2> QED
    BY <2>1, <2>2, <2>3, NothingToSnap
<1>3. s.end - s.start <= max
  <2>1. finding.usable => Speak!ReferenceCeilingFor(finding, cfg)
                            = Speak!ReferenceSecondsFor(finding, cfg)
    BY Limits
  <2>2. s.end - s.start <= s.recording.duration
    BY <1>1
  <2> HIDE DEF finding
  <2> QED
    BY <2>1, <2>2 DEF finding, Speak!NoLimit
<1>4. Speak!Accepts(form.recording, form.start, form.end, max)
  <2> HIDE DEF max
  <2> QED
    BY <1>1, <1>2, <1>3 DEF Speak!Accepts, Speak!InRecording, slice
<1>5. cut = IF Speak!Accepts(form.recording, form.start, form.end, max)
               THEN served ELSE Speak!Rejected
  BY Zenon DEF Speak!Window
<1> HIDE DEF max, slice
<1> QED
  BY <1>2, <1>4, <1>5 DEF served

(* A staged recording.                                                       *)
LEMMA StagedPress ==
    ASSUME NEW cfg \in {1, 2}, NEW text \in Lines, NEW instruction \in Instructions,
           NEW ceiling \in CeilingFiles, NEW selection \in Selection,
           NEW press,
           press = Press(Speak!With(Page("staged", cfg, text, instruction, ceiling),
                                    [selection |-> selection]))
    PROVE  press.kind = "press" /\ Unblocked(press) /\ AsShown(press)
<1> DEFINE opened == Speak!With(Page("staged", cfg, text, instruction, ceiling),
                                [selection |-> selection])
           page == Speak!Effective(opened)
           limit == Speak!ReferenceCeilingFor(Speak!ParseReferenceCeiling(ceiling), cfg)
           m == Speak!MoveReferenceWindow(selection, selection.start, limit)
           spec == Speak!ResolveVoiceSpec(page)
           r == [cfg |-> cfg, text |-> text, instruction |-> instruction, mode |-> "clone",
                 refText |-> m.transcript, refDuration |-> m.end - m.start]
           seen == [reachable |-> page.reachable, generating |-> page.generating,
                    blocked |-> \/ ~spec.resolved
                                \/ /\ page.source = "staged"
                                   /\ Speak!SelectionBlocked(page.selection,
                                          Speak!SpeakCeiling(page),
                                          Speak!U!TokenCeilingFor("clone", page.cfg))]
           reference == [source |-> "staged", start |-> m.start, end |-> m.end,
                         transcript |-> m.transcript]
           wav == Speak!CutWav(m.start, m.end)
           header == Speak!ReadWavHeader(wav)
           length == Speak!Units(Speak!DurationSeconds(header.bytes, header))
<1>1. /\ opened.source = "staged" /\ opened.cfg = cfg /\ opened.text = text
      /\ opened.instruction = instruction /\ opened.file = ceiling
      /\ opened.finding = Speak!ParseReferenceCeiling(ceiling)
      /\ opened.reachable = TRUE /\ opened.generating = FALSE
      /\ opened.selection = selection /\ "selection" \in DOMAIN opened
  BY DEF Page, Speak!With
<1> HIDE DEF opened
<1>2. /\ page.source = "staged" /\ page.cfg = cfg /\ page.text = text
      /\ page.instruction = instruction /\ page.file = ceiling
      /\ page.finding = Speak!ParseReferenceCeiling(ceiling)
      /\ page.reachable = TRUE /\ page.generating = FALSE /\ page.selection = m
  <2>1. page = [opened EXCEPT !.selection = m]
    BY <1>1, Zenon DEF Speak!Effective, Speak!SpeakCeiling
  <2>2. opened = [f \in DOMAIN opened |-> opened[f]]
    BY DEF opened, Speak!With
  <2> HIDE DEF page, m
  <2> QED
    BY <1>1, <2>1, <2>2
<1>3. /\ press.kind = "press" /\ press.page = page
      /\ press.reason = Speak!BlockedReason(page)
      /\ press.answer = IF press.reason = "none" THEN Speak!Pressed(page) ELSE Speak!Rejected
  BY DEF Press, opened
<1> HIDE DEF page, spec
<1>4. limit \in Nat \ {0}
  BY Limits
<1>5. /\ m \in Selection /\ m.start \in Nat /\ m.end \in Nat
      /\ m.end <= m.recording.duration /\ m.end - m.start <= limit
      /\ Audible(m) =>
            /\ m.start < m.end
            /\ \/ Speak!ValidWords(m.recording.words) = {}
               \/ /\ m.start \in Speak!Starts(Speak!ValidWords(m.recording.words))
                  /\ m.end \in Speak!Ends(Speak!ValidWords(m.recording.words))
  <2>1. selection.start \in Int /\ limit \in Nat
    BY <1>4 DEF Selection
  <2> HIDE DEF limit
  <2> QED
    BY <2>1, MovedSelection
<1>6. m.transcript \in Shape
  BY <1>5 DEF Selection
<1> HIDE DEF m, limit
<1>7. \/ spec = Speak!Unresolved
      \/ /\ spec = Speak!Referenced(reference)
         /\ instruction # Speak!G!Nothing /\ m.transcript # Speak!G!Nothing
  BY <1>2 DEF Speak!ResolveVoiceSpec, Speak!Nothing, spec
<1>8. /\ spec.resolved \in BOOLEAN
      /\ spec.resolved => /\ spec = Speak!Referenced(reference) /\ spec.kind = "referenced"
                          /\ instruction # Speak!G!Nothing
                          /\ m.transcript # Speak!G!Nothing
  <2>1. Speak!Unresolved.resolved = FALSE
    BY DEF Speak!Unresolved
  <2>2. /\ Speak!Referenced(reference).resolved = TRUE
        /\ Speak!Referenced(reference).kind = "referenced"
    BY DEF Speak!Referenced
  <2> HIDE DEF reference
  <2> QED
    BY <1>7, <2>1, <2>2
<1>9. Speak!ShownRequest(page) = r
  BY <1>2 DEF Speak!ShownRequest
<1>10. r \in Request
  <2>1. Speak!G!Nothing \in Shape
    BY DEF Shape, Speak!G!Nothing
  <2> QED
    BY <1>5, <1>6, <2>1, DemoAssumption DEF Request
<1>11. Advised(r) => Room(r.mode, r.cfg) < Room(r.mode, 2)
  BY <1>10, AdviceHelps
<1>12. r.refDuration <= Speak!SpeakCeiling(page)
  BY <1>2, <1>5 DEF Speak!SpeakCeiling, limit
<1>13. CASE press.reason # "none"
  <2>1. press.answer.ok = FALSE
    BY <1>3, <1>13 DEF Speak!Rejected
  <2> HIDE DEF r
  <2> QED
    BY <1>2, <1>3, <1>9, <1>11, <1>12, <1>13, <2>1, Zenon DEF Unblocked, AsShown
<1>14. CASE press.reason = "none" /\ ~Plain(page)
  <2> HIDE DEF r
  <2> QED
    BY <1>3, <1>9, <1>11, <1>12, <1>14, Zenon DEF Unblocked, AsShown
<1>15. CASE press.reason = "none" /\ Plain(page)
  <2>1. r.text # Speak!G!Nothing /\ ~seen.blocked /\ HasRoom(r)
    <3>1. Speak!U!GenerateBlockedReason(r, seen) = "none"
      BY <1>3, <1>9, <1>15 DEF Speak!BlockedReason, spec
    <3>2. seen.reachable /\ ~seen.generating
      BY <1>2
    <3> HIDE DEF seen, r
    <3> QED
      BY <1>10, <3>1, <3>2, PageCounts
  <2>2. /\ spec.resolved /\ spec = Speak!Referenced(reference) /\ instruction # Speak!G!Nothing
        /\ m.transcript # Speak!G!Nothing
        /\ r.refText = m.transcript /\ r.refDuration = m.end - m.start
    BY <1>8, <2>1
  <2>3. Audible(m)
    BY <1>2, <1>15 DEF Plain
  <2> DEFINE form == Speak!SpeechForm(Speak!ProjectSpeechRequest(page, spec))
  <2>4. /\ DOMAIN form = {"text", "instruction", "cfg", "refText", "start", "end", "recording"}
        /\ form.text = text /\ form.instruction = instruction /\ form.cfg = cfg
        /\ form.refText = m.transcript /\ form.start = m.start /\ form.end = m.end
        /\ form.recording = m.recording
    <3> DEFINE sent == Speak!With(Speak!With([text |-> text, instruction |-> instruction, cfg |-> cfg],
                                            [refText |-> m.transcript]),
                                  [start |-> m.start, end |-> m.end, recording |-> m.recording])
    <3>1. Speak!ProjectSpeechRequest(page, spec) = sent
      BY <1>2, <2>2 DEF Speak!ProjectSpeechRequest, Speak!Referenced
    <3>2. /\ DOMAIN sent = {"text", "instruction", "cfg", "refText", "start", "end", "recording"}
          /\ sent.text = text /\ sent.instruction = instruction /\ sent.cfg = cfg
          /\ sent.refText = m.transcript /\ sent.start = m.start /\ sent.end = m.end
          /\ sent.recording = m.recording
      BY DEF Speak!With
    <3> HIDE DEF sent
    <3> QED
      BY <2>2, <3>1, <3>2 DEF Speak!SpeechForm, Speak!Nothing
  <2>5. press.answer = Speak!Speech(form, ceiling)
    BY <1>2, <1>3, <1>15 DEF Speak!Pressed, spec
  <2> HIDE DEF form
  <2> DEFINE cut == Speak!Window(form, ceiling)
  <2>6. /\ cut.ok /\ cut.start = m.start /\ cut.end = m.end
        /\ cut.wav = wav
    <3>1. m.end - m.start <= Speak!ReferenceCeilingFor(Speak!ParseReferenceCeiling(ceiling), cfg)
      BY <1>5 DEF limit
    <3>2. /\ m.start < m.end
          /\ \/ Speak!ValidWords(m.recording.words) = {}
             \/ /\ m.start \in Speak!Starts(Speak!ValidWords(m.recording.words))
                /\ m.end \in Speak!Ends(Speak!ValidWords(m.recording.words))
      BY <1>5, <2>3
    <3>3. cut = Speak!Window(form, ceiling)
      OBVIOUS
    <3> HIDE DEF cut
    <3> QED
      BY <1>5, <2>4, <3>1, <3>2, <3>3, WindowServed
  <2> HIDE DEF cut, wav
  <2> DEFINE intent == [text |-> form.text, instruction |-> form.instruction, cfg |-> form.cfg,
                        reference |-> TRUE, audio |-> wav, refText |-> m.transcript]
             answer == Speak!Served(form, Speak!ResolveVoiceIntent(intent).mode,
                                    m.transcript, <<m.start, m.end>>)
  <2>7. Speak!ResolveVoiceIntent(intent).ok /\ Speak!ResolveVoiceIntent(intent).mode = "clone"
    <3>1. /\ intent.text = r.text /\ intent.instruction = r.instruction /\ intent.cfg = r.cfg
          /\ intent.refText = r.refText /\ intent.reference = TRUE /\ r.mode = "clone"
          /\ r.refDuration = m.end - m.start /\ r.instruction = instruction
          /\ header = Speak!ReadWavHeader(intent.audio)
      BY <2>2, <2>4 DEF header
    <3>2. length = Speak!Units(Speak!DurationSeconds(header.bytes, header))
      BY DEF length
    <3>3. header.ok /\ length = 1
      <4>1. header = Speak!ReadWavHeader(Speak!CutWav(m.start, m.end))
        BY DEF wav
      <4> HIDE DEF header
      <4> QED
        BY <1>5, <4>1, CutHeader
    <3>4. /\ header.ok /\ length \in Int /\ length <= r.refDuration
          /\ r.text # Speak!G!Nothing /\ r.instruction # Speak!G!Nothing
      BY <1>5, <2>1, <2>2, <2>3, <3>3
    <3>5. intent.reference \in BOOLEAN /\ r.mode = IF intent.reference THEN "clone" ELSE "design"
      BY <3>1
    <3> HIDE DEF intent, r, header, length
    <3> QED
      BY <1>10, <2>1, <3>1, <3>2, <3>4, <3>5, Resolved
  <2>8. Speak!Speech(form, ceiling) = answer
    <3>1. "recording" \in DOMAIN form /\ ~("voice" \in DOMAIN form) /\ "refText" \in DOMAIN form
      BY <2>4
    <3> QED
      BY <2>2, <2>4, <2>6, <2>7, <3>1 DEF Speak!Speech, Speak!ValidPair, Speak!Nothing, cut
  <2>9. /\ answer.ok /\ answer.mode = "clone" /\ answer.cfg = cfg /\ answer.text = text
        /\ answer.instruction = instruction /\ answer.refText = m.transcript
        /\ answer.span = <<m.start, m.end>>
    BY <2>4, <2>7 DEF Speak!Served
  <2> HIDE DEF answer
  <2>10. PromptFits(answer)
    <3>1. /\ answer.mode = r.mode /\ answer.cfg = r.cfg /\ answer.text = r.text
          /\ answer.instruction = r.instruction /\ answer.refText = r.refText
          /\ r.mode = "clone" /\ r.refText # Speak!G!Nothing /\ r.refDuration \in Nat
          /\ answer.span[2] - answer.span[1] = r.refDuration
      BY <1>5, <2>2, <2>3, <2>9
    <3> HIDE DEF r
    <3> QED
      BY <1>10, <2>1, <3>1, RoomFits
  <2>11. /\ press.answer = answer /\ answer.ok /\ answer.mode = r.mode
         /\ answer.refText = r.refText
         /\ answer.span[2] - answer.span[1] = r.refDuration
         /\ answer.span[1] = page.selection.start
    BY <1>2, <1>5, <2>2, <2>5, <2>8, <2>9
  <2> HIDE DEF r
  <2> QED
    BY <1>3, <1>9, <1>11, <1>12, <2>10, <2>11, Zenon DEF Unblocked, AsShown
<1> QED
  BY <1>3, <1>13, <1>14, <1>15

(* Whatever the operator does to a window leaves a selection.                *)
LEMMA SelectionsAre ==
    ASSUME NEW r \in Recordings, NEW target \in Targets, NEW limit \in Nat,
           NEW s \in Selections(r, target, limit)
    PROVE  s \in Selection
<1> DEFINE whole == [recording |-> r, start |-> 0, end |-> Speak!Ceiling(r.duration, limit),
                     transcript |-> r.text, edited |-> FALSE]
           initial == Speak!MoveReferenceWindow(whole, 0, limit)
           moved == Speak!MoveReferenceWindow(initial, target, limit)
           edited == {Speak!EditReferenceTranscript(moved, text) : text \in Corrections}
<1>1. /\ r.duration \in Nat /\ r.text \in Shape /\ IsFiniteSet(r.words) /\ target \in Int
  BY DemoAssumption
<1>2. whole \in Selection
  BY <1>1 DEF Selection, Speak!Ceiling, Speak!Least
<1>3. initial \in Selection
  <2>1. 0 \in Int
    OBVIOUS
  <2> HIDE DEF whole
  <2> QED
    BY <1>2, <2>1, MovedSelection, Zenon
<1>4. moved \in Selection
  <2> HIDE DEF initial
  <2> QED
    BY <1>1, <1>3, MovedSelection, Zenon
<1>5. s \in {moved} \cup edited \cup {Speak!RestoreReferenceTranscript(e) : e \in edited}
  BY DEF Selections, Speak!CreateInitialReferenceSelection
<1> HIDE DEF moved
<1>6. edited \subseteq Selection
  <2> SUFFICES ASSUME NEW text \in Corrections
               PROVE  Speak!EditReferenceTranscript(moved, text) \in Selection
    OBVIOUS
  <2>1. text \in Shape
    BY DemoAssumption
  <2> QED
    BY <1>4, <2>1 DEF Speak!EditReferenceTranscript, Selection
<1>7. ASSUME NEW e \in Selection
      PROVE  Speak!RestoreReferenceTranscript(e) \in Selection
  <2> DEFINE words == Speak!Contained(Speak!ValidWords(e.recording.words), e.start, e.end)
  <2>1. e.recording \in Recordings
    BY DEF Selection
  <2>2. IsFiniteSet(e.recording.words)
    BY <2>1, DemoAssumption
  <2>3. words \subseteq e.recording.words
    BY DEF Speak!Contained, Speak!ValidWords
  <2>4. Speak!TextOf(words) \in Shape
    BY <2>2, <2>3, FS_Subset, TextIsShape
  <2>5. Speak!RestoreReferenceTranscript(e)
          = [e EXCEPT !.edited = FALSE, !.transcript = Speak!TextOf(words)]
    BY Zenon DEF Speak!RestoreReferenceTranscript
  <2> HIDE DEF words
  <2> QED
    BY <2>4, <2>5 DEF Selection
<1> HIDE DEF edited
<1> QED
  BY <1>4, <1>5, <1>6, <1>7

(* A quotient is no larger than what the dividend is at most a multiple of.  *)
LEMMA QuotientBound ==
    ASSUME NEW x \in Nat, NEW k \in Nat \ {0}, NEW n \in Nat, x <= k * n
    PROVE  x \div k \in Nat /\ x \div k <= n
<1> DEFINE q == x \div k
<1>1. q \in Nat /\ k * q <= x
  OBVIOUS
<1> HIDE DEF q
<1>2. SUFFICES ASSUME n < q PROVE FALSE
  BY <1>1 DEF q
<1>3. q - (n + 1) \in Nat
  BY <1>1, <1>2
<1>4. k * (q - (n + 1)) \in Nat
  BY <1>3, TimesNat
<1>5. k * q = k * (q - (n + 1)) + k * n + k
  BY <1>1
<1>6. k * n \in Nat /\ k * q \in Nat
  BY <1>1, TimesNat
<1> QED
  BY <1>1, <1>4, <1>5, <1>6

(* The first frames of a waveform have a bound.                              *)
Bounded(f, n) == \E top \in Nat : \A i \in 1 .. n : f[i] <= top

LEMMA LoudestBounds ==
    ASSUME NEW f, NEW l \in Nat, \A i \in 1 .. l : f[i] \in Nat
    PROVE  Bounded(f, l)
<1> DEFINE C == {n \in Nat : n <= l /\ ~Bounded(f, n)}
<1>1. SUFFICES ASSUME ~Bounded(f, l) PROVE FALSE
  OBVIOUS
<1>2. C \in SUBSET Nat /\ C # {}
  BY <1>1
<1>3. PICK n \in C : \A m \in C : n <= m
  <2> HIDE DEF C
  <2> QED
    BY <1>2, LeastOf
<1>4. n \in Nat /\ n <= l /\ ~Bounded(f, n)
  OBVIOUS
<1>5. n # 0
  <2>1. Bounded(f, 0)
    BY DEF Bounded
  <2> QED
    BY <1>4, <2>1
<1>6. n - 1 \in Nat /\ Bounded(f, n - 1)
  BY <1>3, <1>4, <1>5
<1>7. PICK top \in Nat : \A i \in 1 .. n - 1 : f[i] <= top
  BY <1>6, Zenon DEF Bounded
<1>8. n \in 1 .. l /\ f[n] \in Nat
  BY <1>4, <1>5
<1>9. \A i \in 1 .. n : f[i] <= top + f[n]
  <2> SUFFICES ASSUME NEW i \in 1 .. n PROVE f[i] <= top + f[n]
    OBVIOUS
  <2>1. CASE i = n
    BY <1>7, <1>8, <2>1
  <2>2. CASE i # n
    <3>1. i \in 1 .. n - 1 /\ i \in 1 .. l
      BY <1>4, <2>2
    <3> QED
      BY <1>7, <1>8, <3>1
  <2> QED
    BY <2>1, <2>2
<1>10. top + f[n] \in Nat
  BY <1>7, <1>8
<1> QED
  BY <1>4, <1>9, <1>10 DEF Bounded

(* The greatest of a set of naturals, once one is known.                     *)
LEMMA MaxIs ==
    ASSUME NEW S \in SUBSET Nat, NEW m \in S, \A n \in S : n <= m
    PROVE  Speak!Max(S) = m
<1>1. \A x \in S : (\A y \in S : x >= y) => x = m
  BY SMT
<1>2. \A y \in S : m >= y
  OBVIOUS
<1> QED
  BY <1>1, <1>2, Zenon DEF Speak!Max

(* Every frame is drawn in one bucket, and a bucket is its loudest frame.    *)
LEMMA PeaksShowAll ==
    ASSUME NEW f \in Seq(Nat), NEW k \in Nat \ {0}
    PROVE  Speak!Max(Speak!Range(Speak!PeaksFrom(f, k))) = Loudest(f)
<1> DEFINE n == Len(f)
           first(b) == (b * n) \div k
           Bucket(b) == {0} \cup {f[i] : i \in first(b - 1) + 1 .. first(b)}
           peaks == Speak!PeaksFrom(f, k)
<1>1. /\ n \in Nat /\ DOMAIN f = 1 .. n /\ \A i \in 1 .. n : f[i] \in Nat
  OBVIOUS
<1>2. PICK top \in Nat : \A i \in 1 .. n : f[i] <= top
  <2>1. Bounded(f, n)
    <3> HIDE DEF n
    <3> QED
      BY <1>1, LoudestBounds
  <2> QED
    BY <2>1 DEF Bounded
<1>3. peaks = [b \in 1 .. k |-> Speak!Max(Bucket(b))]
  BY DEF Speak!PeaksFrom
<1> HIDE DEF n, peaks
<1>4. \A b \in 0 .. k : first(b) \in Nat /\ first(b) <= n
  <2> SUFFICES ASSUME NEW b \in 0 .. k PROVE first(b) \in Nat /\ first(b) <= n
    OBVIOUS
  <2>1. b * n \in Nat /\ (k - b) * n \in Nat /\ k * n \in Nat
    BY <1>1, TimesNat
  <2>2. k * n = b * n + (k - b) * n
    BY <1>1
  <2> QED
    BY <1>1, <2>1, <2>2, QuotientBound
<1>5. first(0) = 0 /\ first(k) = n
  <2>1. 0 * n = 0 /\ 0 \div k = 0
    BY <1>1
  <2>2. (k * n) \div k = n
    <3>1. k * n \in Nat
      BY <1>1, TimesNat
    <3>2. (k * n) \div k <= n /\ (k * n) \div k \in Nat
      BY <1>1, <3>1, QuotientBound
    <3> DEFINE q == (k * n) \div k
    <3>3. k * n < k * q + k
      <4> DEFINE x == k * n
      <4>1. x \in Nat
        BY <3>1
      <4> HIDE DEF x
      <4>2. x < k * (x \div k) + k
        BY <4>1
      <4> QED
        BY <4>2 DEF x
    <3> HIDE DEF q
    <3>4. q < n => k * n = k * q + k * (n - q) /\ k * (n - q) = k * (n - q - 1) + k
      BY <1>1, <3>2 DEF q
    <3>5. q < n => k * (n - q - 1) \in Nat /\ k * q \in Nat
      BY <1>1, <3>2, TimesNat DEF q
    <3>6. ~(q < n)
      BY <3>1, <3>3, <3>4, <3>5
    <3> QED
      BY <1>1, <3>2, <3>6 DEF q
  <2> QED
    BY <2>1, <2>2
<1> HIDE DEF first
<1>6. \A b \in 1 .. k : Bucket(b) \in SUBSET Nat /\ \A x \in Bucket(b) : x <= top
  BY <1>1, <1>2, <1>4
<1>7. ASSUME NEW b \in 1 .. k
      PROVE  /\ peaks[b] \in Bucket(b) /\ peaks[b] \in Nat
             /\ \A x \in Bucket(b) : x <= peaks[b]
  <2> DEFINE B == Bucket(b)
  <2>1. B \in SUBSET Nat /\ B # {} /\ \A x \in B : x <= top
    BY <1>6
  <2> HIDE DEF B
  <2>2. PICK m \in B : \A x \in B : x <= m
    BY <2>1, GreatestOf
  <2>3. Speak!Max(B) = m
    BY <2>1, <2>2, MaxIs
  <2> QED
    BY <1>3, <2>1, <2>2, <2>3 DEF B
<1>8. Speak!Range(peaks) = {peaks[b] : b \in 1 .. k}
  BY <1>3 DEF Speak!Range
<1>9. CASE n = 0
  <2>1. f = <<>>
    BY <1>9 DEF n
  <2>2. \A b \in 1 .. k : Bucket(b) = {0}
    BY <1>4, <1>9
  <2>3. \A b \in 1 .. k : peaks[b] = 0
    BY <1>7, <2>2
  <2>4. Speak!Range(peaks) = {0}
    BY <1>8, <2>3
  <2>5. Speak!Max({0}) = 0
    BY MaxIs
  <2> QED
    BY <2>1, <2>4, <2>5 DEF Loudest, peaks
<1>10. CASE n # 0
  <2>1. f # <<>> /\ Speak!Range(f) = {f[i] : i \in 1 .. n}
    BY <1>1, <1>10 DEF n, Speak!Range
  <2>2. PICK m \in Speak!Range(f) : \A x \in Speak!Range(f) : x <= m
    <3>1. Speak!Range(f) \in SUBSET Nat /\ \A x \in Speak!Range(f) : x <= top
      BY <1>1, <1>2, <2>1
    <3>2. Speak!Range(f) # {}
      <4>1. 1 \in 1 .. n
        BY <1>1, <1>10
      <4>2. f[1] \in Speak!Range(f)
        BY <2>1, <4>1
      <4> QED
        BY <4>2
    <3> DEFINE S == Speak!Range(f)
    <3>3. S \in SUBSET Nat /\ S # {} /\ \A x \in S : x <= top
      BY <3>1, <3>2
    <3> HIDE DEF S
    <3>4. \E m \in S : \A x \in S : x <= m
      BY <1>2, <3>3, GreatestOf
    <3> QED
      BY <3>4 DEF S
  <2>3. Speak!Range(f) \in SUBSET Nat /\ m \in Nat
    BY <1>1, <2>1
  <2>4. Loudest(f) = m
    <3>1. Speak!Max(Speak!Range(f)) = m
      BY <2>2, <2>3, MaxIs
    <3> QED
      BY <2>1, <3>1 DEF Loudest
  <2>5. PICK i \in 1 .. n : f[i] = m
    BY <2>1, <2>2
  <2> DEFINE after == {b \in Nat : b <= k /\ i <= first(b)}
  <2>6. PICK b \in after : \A c \in after : b <= c
    <3>1. after \in SUBSET Nat /\ after # {}
      BY <1>5, <2>5
    <3> HIDE DEF after
    <3> QED
      BY <3>1, LeastOf
  <2>7. b \in 1 .. k /\ i <= first(b) /\ first(b - 1) < i
    <3>1. b \in Nat /\ b <= k /\ i <= first(b)
      BY <2>6
    <3>2. b # 0
      BY <1>5, <2>5, <3>1
    <3>3. b - 1 \in Nat /\ ~(i <= first(b - 1))
      BY <2>6, <3>1, <3>2
    <3> QED
      BY <1>4, <2>5, <3>1, <3>2, <3>3
  <2>8. m \in Bucket(b)
    BY <1>1, <1>4, <2>5, <2>7
  <2>9. ASSUME NEW c \in 1 .. k PROVE peaks[c] <= m
    <3>1. peaks[c] = 0 \/ \E j \in first(c - 1) + 1 .. first(c) : peaks[c] = f[j]
      BY <1>7
    <3>2. \A j \in first(c - 1) + 1 .. first(c) : f[j] <= m
      <4> SUFFICES ASSUME NEW j \in first(c - 1) + 1 .. first(c) PROVE f[j] <= m
        OBVIOUS
      <4>1. /\ c - 1 \in 0 .. k /\ c \in 0 .. k
            /\ first(c - 1) \in Nat /\ first(c) \in Nat /\ first(c) <= n
        BY <1>4
      <4>2. j \in 1 .. n
        BY <1>1, <4>1
      <4>3. f[j] \in Speak!Range(f)
        BY <2>1, <4>2
      <4> QED
        BY <2>2, <4>3
    <3> QED
      BY <2>3, <3>1, <3>2
  <2>10. peaks[b] = m
    BY <1>7, <2>3, <2>7, <2>8, <2>9
  <2>11. /\ Speak!Range(peaks) \in SUBSET Nat /\ m \in Speak!Range(peaks)
         /\ \A x \in Speak!Range(peaks) : x <= m
    BY <1>7, <1>8, <2>7, <2>9, <2>10
  <2> QED
    BY <2>4, <2>11, MaxIs DEF peaks
<1> QED
  BY <1>9, <1>10

(* The first audio of a file, and its last format.                           *)
IsAudio(chunks, d, f) ==
    /\ d \in DOMAIN chunks /\ chunks[d].id = "data"
    /\ \A i \in DOMAIN chunks : chunks[i].id = "data" => d <= i
    /\ f \in DOMAIN chunks /\ chunks[f].id = "fmt"
    /\ \A i \in DOMAIN chunks : chunks[i].id = "fmt" => i <= f

ReadFrom(parsed, data, fmt) ==
    /\ parsed.bytes = data.size /\ parsed.frames = data.frames
    /\ parsed.channels = fmt.channels /\ parsed.rate = fmt.rate /\ parsed.bits = fmt.bits

LEMMA ParsedAs ==
    ASSUME NEW wav, NEW chunks, chunks = wav.chunks,
           NEW n \in Nat, DOMAIN chunks = 1 .. n,
           NEW parsed, parsed = Speak!ParseWavPcm(wav), parsed.ok
    PROVE  \E d, f : IsAudio(chunks, d, f) /\ ReadFrom(parsed, chunks[d], chunks[f])
<1> DEFINE F == {i \in DOMAIN chunks : chunks[i].id = "fmt"}
           D == {i \in DOMAIN chunks : chunks[i].id = "data"}
           fmt == chunks[Speak!Max(F)]
           data == chunks[Speak!Min(D)]
           read == [ok |-> TRUE, channels |-> fmt.channels, rate |-> fmt.rate,
                    bits |-> fmt.bits, bytes |-> data.size, frames |-> data.frames]
<1>1. Speak!Rejected.ok = FALSE
  BY DEF Speak!Rejected
<1>2. F # {} /\ D # {} /\ parsed = read
  <2>1. parsed = Speak!Rejected \/ (F # {} /\ D # {} /\ parsed = read)
    BY Zenon DEF Speak!ParseWavPcm
  <2> HIDE DEF F, D, read
  <2> QED
    BY <1>1, <2>1
<1>3. F \in SUBSET Nat /\ D \in SUBSET Nat /\ \A i \in F : i <= n
  OBVIOUS
<1>4. \E f \in F : \A i \in F : i <= f
  <2> HIDE DEF F
  <2> QED
    BY <1>2, <1>3, GreatestOf
<1>5. PICK f \in F : \A i \in F : i <= f
  <2> HIDE DEF F
  <2> QED
    BY <1>4, Zenon
<1>6. \E d \in D : \A i \in D : d <= i
  <2> HIDE DEF D
  <2> QED
    BY <1>2, <1>3, LeastOf
<1>7. PICK d \in D : \A i \in D : d <= i
  <2> HIDE DEF D
  <2> QED
    BY <1>6, Zenon
<1>8. Speak!Max(F) = f
  <2> HIDE DEF F
  <2> QED
    BY <1>3, <1>5, MaxIs
<1>9. Speak!Min(D) = d
  <2>1. \A x \in D : (\A y \in D : x <= y) => x = d
    <3> SUFFICES ASSUME NEW x \in D, \A y \in D : x <= y PROVE x = d
      OBVIOUS
    <3> HIDE DEF D
    <3>1. x \in Nat /\ d \in Nat /\ x <= d /\ d <= x
      BY <1>3, <1>7
    <3> QED
      BY <3>1
  <2> HIDE DEF D
  <2> QED
    BY <1>7, <2>1, Zenon DEF Speak!Min
<1>10. IsAudio(chunks, d, f)
  BY <1>5, <1>7 DEF IsAudio
<1>11. ReadFrom(parsed, chunks[d], chunks[f])
  <2> HIDE DEF F, D
  <2> QED
    BY <1>2, <1>8, <1>9 DEF read, ReadFrom
<1> QED
  BY <1>10, <1>11, Zenon

(* The audio of a file that is converted.                                    *)
LEMMA ConvertedAs ==
    ASSUME NEW decoded \in Seq(Nat),
           NEW wav, wav = Speak!Converted(decoded, Speak!TargetRate),
           NEW parsed, parsed = Speak!ParseWavPcm(wav), parsed.ok
    PROVE  /\ parsed.bytes = 2 * Len(decoded) /\ parsed.frames = decoded
           /\ parsed.channels = 1 /\ parsed.rate = 24000 /\ parsed.bits = 16
<1> DEFINE fmt == Speak!Fmt(Speak!PcmTag, 1, Speak!TargetRate, 16)
           list == Speak!List(26)
           data == Speak!Data(2 * Len(decoded), decoded)
           chunks == <<fmt, list, data>>
<1>1. wav.chunks = chunks
  BY DEF Speak!Converted, Speak!Wav
<1>2. /\ fmt.id = "fmt" /\ fmt.channels = 1 /\ fmt.rate = 24000 /\ fmt.bits = 16
      /\ list.id = "LIST" /\ data.id = "data" /\ data.size = 2 * Len(decoded)
      /\ data.frames = decoded
  BY DEF Speak!Fmt, Speak!List, Speak!Data, Speak!TargetRate
<1> HIDE DEF fmt, list, data
<1>3. DOMAIN chunks = 1 .. 3 /\ chunks[1] = fmt /\ chunks[2] = list /\ chunks[3] = data
  OBVIOUS
<1> HIDE DEF chunks
<1>4. PICK d, f : IsAudio(chunks, d, f) /\ ReadFrom(parsed, chunks[d], chunks[f])
  <2>1. chunks = wav.chunks /\ 3 \in Nat /\ DOMAIN chunks = 1 .. 3
    BY <1>1, <1>3
  <2>2. parsed = Speak!ParseWavPcm(wav) /\ parsed.ok
    OBVIOUS
  <2> QED
    BY <2>1, <2>2, ParsedAs, Zenon
<1>5. d = 3 /\ f = 1
  <2>1. d \in 1 .. 3 /\ f \in 1 .. 3 /\ chunks[d].id = "data" /\ chunks[f].id = "fmt"
    BY <1>3, <1>4 DEF IsAudio
  <2>2. (d = 1 \/ d = 2 \/ d = 3) /\ (f = 1 \/ f = 2 \/ f = 3)
    BY <2>1
  <2> QED
    BY <1>2, <1>3, <2>1, <2>2
<1>6. ReadFrom(parsed, data, fmt)
  BY <1>3, <1>4, <1>5
<1> QED
  BY <1>2, <1>6 DEF ReadFrom

(* An intake measures what is heard.                                         *)
Measures(intake) ==
    intake.answer.ok =>
        /\ intake.answer.duration.bytes * intake.upload.perSecond
             = intake.upload.bytes * intake.answer.duration.perSecond
        /\ Speak!Max(Speak!Range(intake.answer.peaks)) = Loudest(intake.upload.decoded)

LEMMA IntakeRight ==
    ASSUME NEW upload \in Uploads, NEW ffmpeg, NEW buckets \in Buckets,
           NEW answer, answer = Intake(upload.file, upload.decoded, ffmpeg, buckets), answer.ok
    PROVE  /\ answer.duration.bytes * upload.perSecond
                = upload.bytes * answer.duration.perSecond
           /\ Speak!Max(Speak!Range(answer.peaks)) = Loudest(upload.decoded)
<1> DEFINE normal == Speak!NormaliseReference(upload.file, upload.decoded, ffmpeg)
           parsed == IF normal.ok THEN Speak!ParseWavPcm(normal.wav) ELSE Speak!Rejected
           taken == [ok |-> TRUE, wav |-> normal.wav,
                     duration |-> Speak!DurationSeconds(parsed.bytes, parsed),
                     peaks |-> Speak!PeaksFrom(parsed.frames, buckets)]
           chunks == upload.file.chunks
<1>1. Speak!Rejected.ok = FALSE
  BY DEF Speak!Rejected
<1>2. answer = taken /\ parsed.ok
  <2>1. answer = IF ~parsed.ok THEN Speak!Rejected ELSE taken
    BY Zenon DEF Intake
  <2> HIDE DEF parsed, taken
  <2> QED
    BY <1>1, <2>1
<1>3. normal.ok /\ parsed = Speak!ParseWavPcm(normal.wav)
  <2> HIDE DEF normal
  <2> QED
    BY <1>1, <1>2 DEF parsed
<1>4. /\ answer.duration.bytes = parsed.bytes
      /\ answer.duration.perSecond = parsed.rate * parsed.channels * (parsed.bits \div 8)
      /\ answer.peaks = Speak!PeaksFrom(parsed.frames, buckets)
  <2> HIDE DEF parsed, normal
  <2> QED
    BY <1>2 DEF taken, Speak!DurationSeconds
<1>5. Heard(upload)
  BY DemoAssumption
<1>6. IF Speak!DetectAudio(upload.file).conforming THEN normal.wav = upload.file
      ELSE normal.wav = Speak!Converted(upload.decoded, Speak!TargetRate)
  BY <1>1, <1>3 DEF Speak!NormaliseReference
<1> HIDE DEF parsed, normal, taken
<1>7. /\ parsed.frames = upload.decoded
      /\ answer.duration.bytes * upload.perSecond = upload.bytes * answer.duration.perSecond
  <2>1. CASE Speak!DetectAudio(upload.file).conforming
    <3>1. parsed = Speak!ParseWavPcm(upload.file)
      BY <1>3, <1>6, <2>1
    <3>2. PICK n \in Nat : DOMAIN chunks = 1 .. n
      <4> DEFINE S == Speak!Range(chunks)
      <4>1. chunks \in Seq(S)
        BY <1>5, Zenon DEF Heard
      <4> HIDE DEF S, chunks
      <4>2. Len(chunks) \in Nat /\ DOMAIN chunks = 1 .. Len(chunks)
        BY <4>1
      <4> QED
        BY <4>2, Zenon
    <3>3. PICK d, f : IsAudio(chunks, d, f) /\ ReadFrom(parsed, chunks[d], chunks[f])
      BY <1>2, <3>1, <3>2, ParsedAs
    <3>4. /\ chunks[d].size = upload.bytes /\ chunks[d].frames = upload.decoded
          /\ upload.perSecond = chunks[f].rate * chunks[f].channels * (chunks[f].bits \div 8)
      <4> DEFINE D == {i \in DOMAIN chunks : chunks[i].id = "data"}
                 F == {i \in DOMAIN chunks : chunks[i].id = "fmt"}
      <4>1. \A e \in D, g \in F :
                (\A i \in D : e <= i) /\ (\A i \in F : i <= g) =>
                    /\ chunks[e].size = upload.bytes
                    /\ chunks[e].frames = upload.decoded
                    /\ upload.perSecond = chunks[g].rate * chunks[g].channels
                                            * (chunks[g].bits \div 8)
        BY <1>5, <2>1, Zenon DEF Heard
      <4>2. /\ d \in D /\ f \in F /\ \A i \in D : d <= i
            /\ \A i \in F : i <= f
        BY <3>3, Zenon DEF IsAudio
      <4> HIDE DEF D, F
      <4> QED
        BY <4>1, <4>2, Zenon
    <3> HIDE DEF chunks
    <3> QED
      BY <1>4, <3>3, <3>4 DEF ReadFrom
  <2>2. CASE ~Speak!DetectAudio(upload.file).conforming
    <3>1. upload.bytes * 2 * Speak!TargetRate = 2 * Len(upload.decoded) * upload.perSecond
      BY <1>5, <2>2, Zenon DEF Heard
    <3>2. /\ upload.decoded \in Seq(Nat) /\ upload.bytes \in Nat /\ upload.perSecond \in Nat
      BY <1>5 DEF Heard
    <3>3. normal.wav = Speak!Converted(upload.decoded, Speak!TargetRate)
      BY <1>6, <2>2
    <3>4. /\ parsed.bytes = 2 * Len(upload.decoded) /\ parsed.frames = upload.decoded
          /\ parsed.channels = 1 /\ parsed.rate = 24000 /\ parsed.bits = 16
      <4> DEFINE decoded == upload.decoded
                 wav == normal.wav
      <4>1. /\ decoded \in Seq(Nat) /\ wav = Speak!Converted(decoded, Speak!TargetRate)
            /\ parsed = Speak!ParseWavPcm(wav) /\ parsed.ok
        BY <1>2, <1>3, <3>2, <3>3
      <4> HIDE DEF decoded, wav
      <4>2. /\ parsed.bytes = 2 * Len(decoded) /\ parsed.frames = decoded
            /\ parsed.channels = 1 /\ parsed.rate = 24000 /\ parsed.bits = 16
        BY <4>1, ConvertedAs
      <4> QED
        BY <4>2 DEF decoded
    <3>5. answer.duration.perSecond = 48000 /\ answer.duration.bytes = 2 * Len(upload.decoded)
      BY <1>4, <3>4
    <3>6. upload.bytes * 48000 = 2 * Len(upload.decoded) * upload.perSecond
      BY <3>1, <3>2 DEF Speak!TargetRate
    <3> QED
      BY <3>4, <3>5, <3>6
  <2> QED
    BY <2>1, <2>2
<1>8. buckets \in Nat \ {0}
  BY DemoAssumption
<1>9. upload.decoded \in Seq(Nat)
  BY <1>5 DEF Heard
<1> QED
  BY <1>4, <1>7, <1>8, <1>9, PeaksShowAll

(* What a use of the demo comes to, whatever it was given.                   *)
Good ==
    /\ use.kind = "press" => Unblocked(use) /\ AsShown(use)
    /\ use.kind = "intake" => Measures(use)

LEMMA PressIsGood ==
    ASSUME UsePress
    PROVE  "kind" \in DOMAIN use' /\ Good'
<1> SUFFICES use'.kind = "press" /\ "kind" \in DOMAIN use' /\ Unblocked(use') /\ AsShown(use')
  BY Zenon DEF Good
<1>1. ASSUME NEW page, use' = Press(page)
      PROVE  "kind" \in DOMAIN use'
  BY <1>1 DEF Press
<1> DEFINE heard == {h \in Recordings : h.words # {} => env["ASR"] # Unset}
<1>2. PICK cfg \in {1, 2}, text \in Lines, instruction \in Instructions, ceiling \in CeilingFiles :
          \/ use' = Press(Page("described", cfg, text, instruction, ceiling))
          \/ \E voice \in SavedVoices :
                use' = Press(Speak!With(Page("saved", cfg, text, instruction, ceiling),
                                        [voice |-> voice]))
          \/ \E recording \in heard, target \in Targets :
                \E selection \in Selections(recording, target,
                        Speak!ReferenceCeilingFor(Speak!ParseReferenceCeiling(ceiling), 1)) :
                    use' = Press(Speak!With(Page("staged", cfg, text, instruction, ceiling),
                                            [selection |-> selection]))
  BY Zenon DEF UsePress
<1>3. heard \subseteq Recordings
  OBVIOUS
<1> HIDE DEF heard
<1>4. CASE use' = Press(Page("described", cfg, text, instruction, ceiling))
  BY <1>1, <1>4, DescribedPress
<1>5. ASSUME NEW voice \in SavedVoices,
             use' = Press(Speak!With(Page("saved", cfg, text, instruction, ceiling),
                                     [voice |-> voice]))
      PROVE  use'.kind = "press" /\ "kind" \in DOMAIN use' /\ Unblocked(use') /\ AsShown(use')
  BY <1>1, <1>5, SavedPress
<1>6. ASSUME NEW recording \in heard, NEW target \in Targets,
             NEW selection \in Selections(recording, target,
                        Speak!ReferenceCeilingFor(Speak!ParseReferenceCeiling(ceiling), 1)),
             use' = Press(Speak!With(Page("staged", cfg, text, instruction, ceiling),
                                     [selection |-> selection]))
      PROVE  use'.kind = "press" /\ "kind" \in DOMAIN use' /\ Unblocked(use') /\ AsShown(use')
  <2> DEFINE limit == Speak!ReferenceCeilingFor(Speak!ParseReferenceCeiling(ceiling), 1)
  <2>1. limit \in Nat
    BY Limits
  <2> HIDE DEF limit
  <2>2. selection \in Selection
    <3>1. recording \in Recordings
      BY <1>3
    <3> QED
      BY <2>1, <3>1, SelectionsAre DEF limit
  <2> QED
    BY <1>1, <1>6, <2>2, StagedPress
<1> QED
  BY <1>2, <1>4, <1>5, <1>6

(* Only a press makes a use that shows a page, and only an intake one that   *)
(* shows a waveform.                                                         *)
LEMMA StepIsGood ==
    ASSUME "kind" \in DOMAIN use, Good, [DemoNext]_<<setupVars, use>>
    PROVE  ("kind" \in DOMAIN use)' /\ Good'
<1>1. CASE UNCHANGED use
  BY <1>1, Zenon DEF Good
<1>2. CASE UseIntake
  <2>1. PICK upload \in Uploads, ffmpeg \in {"works", "fails", "missing"}, buckets \in Buckets :
            use' = [kind |-> "intake", upload |-> upload, buckets |-> buckets,
                    answer |-> Intake(upload.file, upload.decoded, ffmpeg, buckets)]
    BY <1>2, Zenon DEF UseIntake
  <2> DEFINE answer == Intake(upload.file, upload.decoded, ffmpeg, buckets)
  <2>2. answer.ok => /\ answer.duration.bytes * upload.perSecond
                          = upload.bytes * answer.duration.perSecond
                     /\ Speak!Max(Speak!Range(answer.peaks)) = Loudest(upload.decoded)
    BY IntakeRight
  <2> HIDE DEF answer
  <2>3. /\ "kind" \in DOMAIN use' /\ use'.kind = "intake" /\ use'.upload = upload
        /\ use'.answer = answer
    BY <2>1 DEF answer
  <2>4. Measures(use')
    BY <2>2, <2>3, Zenon DEF Measures
  <2> QED
    BY <2>3, <2>4 DEF Good
<1>3. CASE UsePress
  BY <1>3, PressIsGood
<1>4. CASE UseImport
  BY <1>4 DEF UseImport, Good
<1>5. CASE RunAll
  <2>1. use.kind = "import" /\ use' = [use EXCEPT !.kind = "run",
                  !.imported.cues = [i \in DOMAIN @ |-> [@[i] EXCEPT !.state = "done"]]]
    BY <1>5, Zenon DEF RunAll
  <2>2. DOMAIN use' = DOMAIN use /\ use'.kind = "run"
    BY <2>1
  <2> QED
    BY <2>2 DEF Good
<1>6. CASE StartAgain
  <2>1. PICK script \in Files!RechunkAll({use.imported}, use.references.later) :
            use' = Speak!With(use, [kind |-> "restart", restarted |-> script])
    BY <1>6 DEF StartAgain
  <2>2. "kind" \in DOMAIN use' /\ use'.kind = "restart"
    BY <2>1 DEF Speak!With
  <2> QED
    BY <2>2 DEF Good
<1>7. CASE UseExport
  BY <1>7 DEF UseExport, Good
<1>8. CASE Done
  BY <1>8 DEF Done, Unused, Good
<1> QED
  BY <1>1, <1>2, <1>3, <1>4, <1>5, <1>6, <1>7, <1>8 DEF DemoNext, Use

LEMMA UsesAreGood == DemoSpec => []Good
<1>1. DemoInit => "kind" \in DOMAIN use /\ Good
  BY DEF DemoInit, Unused, Good
<1>2. "kind" \in DOMAIN use /\ Good /\ [DemoNext]_<<setupVars, use>>
        => ("kind" \in DOMAIN use)' /\ Good'
  BY StepIsGood
<1> QED
  BY <1>1, <1>2, PTL DEF DemoSpec

(* The limits the page shows are no looser than the gateway's own: a request *)
(* that the page lets through is spoken, its prompt fits the graphs, and     *)
(* where a higher CFG is advised it has more room (draft.ts, script.ts).     *)
THEOREM UnblockedServed == DemoSpec => []UnblockedIsServed
<1>1. Good => UnblockedIsServed
  BY Zenon DEF Good, UnblockedIsServed
<1> QED
  BY <1>1, UsesAreGood, PTL

(* The reference that is spoken from is the one the trimmer drew, with the   *)
(* transcript in its box, and never longer than the limit (reference.ts,     *)
(* references.ts).                                                           *)
THEOREM ServedIsAsShown == DemoSpec => []ServedAsShown
<1>1. Good => ServedAsShown
  BY Zenon DEF Good, ServedAsShown
<1> QED
  BY <1>1, UsesAreGood, PTL

(* The length and the waveform of a reference are those of its audio and of  *)
(* nothing else that its file holds (reference-slice.ts parseWavPcm,         *)
(* peaksFrom).                                                               *)
THEOREM IntakeIsMeasured == DemoSpec => []IntakeMeasures
<1>1. Good => IntakeMeasures
  BY Zenon DEF Good, Measures, IntakeMeasures
<1> QED
  BY <1>1, UsesAreGood, PTL

-----------------------------------------------------------------------------
(* Using the demo changes nothing that setup keeps: what the demo does, seen *)
(* without its uses, is what the walkthrough does (walkthrough.ts, main.ts). *)
THEOREM DemoIsSetup == DemoSpec => SetupSpec
<1>1. DemoInit => SetupInit
  BY DEF DemoInit
<1>2. [DemoNext]_<<setupVars, use>> => [SetupNext]_setupVars
  <2> SUFFICES ASSUME [DemoNext]_<<setupVars, use>> PROVE [SetupNext]_setupVars
    OBVIOUS
  <2>1. CASE SetupNext
    BY <2>1
  <2>2. CASE Use
    <3>1. UNCHANGED setupVars
      BY <2>2, Zenon DEF Use, UseIntake, UsePress, UseImport, RunAll, StartAgain, UseExport
    <3> QED
      BY <3>1
  <2>3. CASE Done
    BY <2>3 DEF Done
  <2>4. CASE UNCHANGED <<setupVars, use>>
    BY <2>4
  <2> QED
    BY <2>1, <2>2, <2>3, <2>4 DEF DemoNext
<1> QED
  BY <1>1, <1>2, PTL DEF DemoSpec, SetupSpec

(* What setup calls ready starts, however often the demo has been used since *)
(* (loadConfig, walkthrough.ts).                                             *)
THEOREM DemoStarts == ASSUME Once(FirstFile) PROVE DemoSpec => []ReadyIsRunnable
  BY DemoIsSetup, ReadyStarts, PTL

-----------------------------------------------------------------------------
(* The stamps of an export. Of a time, the hours, the minutes, the seconds   *)
(* and what is left of them are cut out by the same units as they are summed *)
(* up with.                                                                  *)
Hours(time) == time \div (3600 * Files!Second)
Minutes(time) == (time % (3600 * Files!Second)) \div (60 * Files!Second)
Seconds(time) == (time % (60 * Files!Second)) \div Files!Second
Millis(time) == ((time % Files!Second) + Files!FramesPerMilli \div 2) \div Files!FramesPerMilli

(* A frame is a twenty-fourth of a millisecond.                              *)
LEMMA Units ==
    /\ Files!FramesPerMilli = 24 /\ Files!FramesPerMilli \div 2 = 12
    /\ Files!Second = 24000 /\ 60 * Files!Second = 1440000 /\ 3600 * Files!Second = 86400000
  BY SMT DEF Files!Second, Files!FramesPerMilli

(* A time in hours, in minutes and in seconds, and what is left.             *)
InHours(t, k, r) == r < 86400000 /\ t = 86400000 * k + r
InMinutes(t, k, r) == r < 1440000 /\ t = 1440000 * k + r
InSeconds(t, k, r) == r < 24000 /\ t = 24000 * k + r

LEMMA HoursOf ==
    ASSUME NEW t \in Nat, NEW k \in Nat, NEW r \in Nat, InHours(t, k, r)
    PROVE  t \div 86400000 = k /\ t % 86400000 = r
  BY SMT DEF InHours

LEMMA HoursSplit ==
    ASSUME NEW t \in Nat
    PROVE  \E k \in Nat, r \in Nat : InHours(t, k, r)
<1>1. PICK k, r : k = t \div 86400000 /\ r = t % 86400000
  BY SMT
<1>2. k \in Nat /\ r \in Nat /\ InHours(t, k, r)
  BY <1>1, SMT DEF InHours
<1> QED BY <1>2

LEMMA MinutesOf ==
    ASSUME NEW t \in Nat, NEW k \in Nat, NEW r \in Nat, InMinutes(t, k, r)
    PROVE  t \div 1440000 = k /\ t % 1440000 = r
  BY SMT DEF InMinutes

LEMMA MinutesSplit ==
    ASSUME NEW t \in Nat
    PROVE  \E k \in Nat, r \in Nat : InMinutes(t, k, r)
<1>1. PICK k, r : k = t \div 1440000 /\ r = t % 1440000
  BY SMT
<1>2. k \in Nat /\ r \in Nat /\ InMinutes(t, k, r)
  BY <1>1, SMT DEF InMinutes
<1> QED BY <1>2

LEMMA SecondsOf ==
    ASSUME NEW t \in Nat, NEW k \in Nat, NEW r \in Nat, InSeconds(t, k, r)
    PROVE  t \div 24000 = k /\ t % 24000 = r
  BY SMT DEF InSeconds

LEMMA SecondsSplit ==
    ASSUME NEW t \in Nat
    PROVE  \E k \in Nat, r \in Nat : InSeconds(t, k, r)
<1>1. PICK k, r : k = t \div 24000 /\ r = t % 24000
  BY SMT
<1>2. k \in Nat /\ r \in Nat /\ InSeconds(t, k, r)
  BY <1>1, SMT DEF InSeconds
<1> QED BY <1>2

(* The fields of a stamp, and the frames p of its last second.               *)
Cut(time, h, m, s, p) ==
    /\ p < 24000 /\ time % 24000 = p
    /\ Hours(time) = h /\ Minutes(time) = m /\ Seconds(time) = s
    /\ Millis(time) = (p + 12) \div 24
    /\ time = (h * 3600 + m * 60 + s) * 24000 + p

LEMMA FieldsAdd ==
    ASSUME NEW time \in Nat
    PROVE  \E h \in Nat, m \in 0..59, s \in 0..59, p \in Nat : Cut(time, h, m, s, p)
<1>1. PICK h \in Nat, r \in Nat : InHours(time, h, r)
  BY HoursSplit
<1>2. PICK m \in Nat, q \in Nat : InMinutes(r, m, q)
  BY MinutesSplit
<1>3. PICK s \in Nat, p \in Nat : InSeconds(q, s, p)
  BY SecondsSplit
<1>4. m \in 0..59 /\ s \in 0..59
  BY <1>1, <1>2, <1>3, SMT DEF InHours, InMinutes, InSeconds
<1>5. time \div 86400000 = h /\ time % 86400000 = r
  BY <1>1, HoursOf, SMT
<1>6. r \div 1440000 = m
  BY <1>2, MinutesOf, SMT
<1>7. time % 1440000 = q
  <2>1. PICK k \in Nat : k = 60 * h + m
    BY SMT
  <2>2. InMinutes(time, k, q)
    BY <1>1, <1>2, <2>1, SMT DEF InHours, InMinutes
  <2> QED BY <2>2, MinutesOf, SMT
<1>8. q \div 24000 = s
  BY <1>3, SecondsOf, SMT
<1>9. time % 24000 = p
  <2>1. PICK k \in Nat : k = 3600 * h + 60 * m + s
    BY SMT
  <2>2. InSeconds(time, k, p)
    BY <1>1, <1>2, <1>3, <2>1, SMT DEF InHours, InMinutes, InSeconds
  <2> QED BY <2>2, SecondsOf, SMT
<1>10. Hours(time) = h /\ Minutes(time) = m /\ Seconds(time) = s
  BY <1>5, <1>6, <1>7, <1>8, Units, SMT DEF Hours, Minutes, Seconds
<1>11. Millis(time) = (p + 12) \div 24
  BY <1>9, Units, SMT DEF Millis
<1>12. p < 24000 /\ time = (h * 3600 + m * 60 + s) * 24000 + p
  BY <1>1, <1>2, <1>3, SMT DEF InHours, InMinutes, InSeconds
<1>13. Cut(time, h, m, s, p)
  BY <1>9, <1>10, <1>11, <1>12, SMT DEF Cut
<1> QED
  BY <1>4, <1>13

(* Rounding to the millisecond is off by half of one at most, and comes to a *)
(* thousand in the last half of the last.                                    *)
LEMMA MillisNear ==
    ASSUME NEW p \in Nat, p < 24000, NEW ms, ms = (p + 12) \div 24
    PROVE  /\ ms \in 0..1000 /\ (ms = 1000 <=> p >= 23988)
           /\ ms * 24 - p \in -12..12
<1>1. ms \in Nat /\ 24 * ms <= p + 12 /\ p + 12 < 24 * ms + 24
  OBVIOUS
<1> QED BY <1>1

LEMMA StampIs ==
    ASSUME NEW time \in Nat
    PROVE  Files!FormatTimestamp(time) = [h |-> Hours(time), m |-> Minutes(time),
                                          s |-> Seconds(time), ms |-> Millis(time)]
  BY DEF Files!FormatTimestamp, Hours, Minutes, Seconds, Millis

(* What a stamp is read as (vtt.ts parseTimestamp).                          *)
OutOfRange(stamp) == stamp.m > 59 \/ stamp.s > 59 \/ stamp.ms > 999 \/ stamp.h > 999
TimeOf(stamp) == (stamp.h * 3600 + stamp.m * 60 + stamp.s) * Files!Second
                   + stamp.ms * Files!FramesPerMilli

LEMMA ReadingIs ==
    ASSUME NEW stamp
    PROVE  Files!ParseTimestamp(stamp)
             = IF OutOfRange(stamp) THEN Files!Unread ELSE [ok |-> TRUE, at |-> TimeOf(stamp)]
  BY DEF Files!ParseTimestamp, OutOfRange, TimeOf

(* The hours of a stamp are at most three digits.                            *)
Writable(time) == time < 1000 * (3600 * Files!Second)

(* A time that is exported is read back to the nearest millisecond (vtt.ts   *)
(* formatTimestamp, parseTimestamp), for every time below a thousand hours   *)
(* that is not in the last half of a second's last millisecond - the cues of *)
(* a script of any length.                                                   *)
THEOREM StampsReadBack ==
    ASSUME NEW time \in Nat, Writable(time), Roundable(time)
    PROVE  LET read == Files!ParseTimestamp(Files!FormatTimestamp(time))
           IN read.ok /\ Near(read.at, time)
<1>0. PICK h \in Nat, m \in 0..59, s \in 0..59, p \in Nat : Cut(time, h, m, s, p)
  BY FieldsAdd
<1>1. /\ p < 24000 /\ time % 24000 = p
      /\ Hours(time) = h /\ Minutes(time) = m /\ Seconds(time) = s
      /\ Millis(time) = (p + 12) \div 24
      /\ time = (h * 3600 + m * 60 + s) * 24000 + p
  BY <1>0 DEF Cut
<1>2. PICK ms : ms = (p + 12) \div 24
  OBVIOUS
<1>4. p < 23988
  BY <1>1, Units DEF Roundable
<1>5. ms \in 0..1000 /\ (ms = 1000 <=> p >= 23988) /\ ms * 24 - p \in -12..12
  BY <1>1, <1>2, MillisNear
<1>6. h <= 999
  <2>1. time < 86400000000
    BY Units, SMT DEF Writable
  <2> QED BY <1>1, <2>1, SMT
<1>7. PICK stamp : stamp = [h |-> h, m |-> m, s |-> s, ms |-> ms]
  OBVIOUS
<1>8. Files!FormatTimestamp(time) = stamp
  BY <1>1, <1>2, <1>7, StampIs
<1>10. PICK back : back = (h * 3600 + m * 60 + s) * 24000 + ms * 24
  OBVIOUS
<1>9. Files!ParseTimestamp(stamp) = [ok |-> TRUE, at |-> back]
  <2>1. ~ OutOfRange(stamp)
    BY <1>4, <1>5, <1>6, <1>7 DEF OutOfRange
  <2>2. TimeOf(stamp) = back
    BY <1>7, <1>10, Units DEF TimeOf
  <2> QED BY <2>1, <2>2, ReadingIs
<1>11. back \in Int /\ back - time \in -12..12
  <2>1. PICK whole \in Nat : whole = (h * 3600 + m * 60 + s) * 24000
    OBVIOUS
  <2>2. time = whole + p /\ back = whole + ms * 24 /\ ms \in Nat
    BY <1>1, <1>5, <1>10, <2>1
  <2> QED BY <1>5, <2>2
<1>12. Near(back, time)
  BY <1>11, Units DEF Near, Speak!Distance
<1> QED
  BY <1>8, <1>9, <1>12

(* Every other time is exported as a stamp that parseTimestamp refuses: a    *)
(* thousand milliseconds (vtt.ts:76).                                        *)
THEOREM OtherStampsRefused ==
    ASSUME NEW time \in Nat, ~ Roundable(time)
    PROVE  Files!ParseTimestamp(Files!FormatTimestamp(time)) = Files!Unread
<1>0. PICK h \in Nat, m \in 0..59, s \in 0..59, p \in Nat : Cut(time, h, m, s, p)
  BY FieldsAdd
<1>1. /\ p < 24000 /\ time % 24000 = p
      /\ Hours(time) = h /\ Minutes(time) = m /\ Seconds(time) = s
      /\ Millis(time) = (p + 12) \div 24
  BY <1>0 DEF Cut
<1>2. p >= 23988
  BY <1>1, Units DEF Roundable
<1>3. Millis(time) = 1000
  BY <1>1, <1>2, MillisNear
<1>4. Files!FormatTimestamp(time).ms = 1000
  BY <1>3, StampIs
<1> QED
  BY <1>4 DEF Files!ParseTimestamp
===========================================================================
