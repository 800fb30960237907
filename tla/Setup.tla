-------------------------------- MODULE Setup --------------------------------
(* The guided installation (src/gateway/src/setup/walkthrough.ts, modal.ts,  *)
(* main.ts): a sequence of phases, each of which looks at what exists before *)
(* it asks or acts, so that a run stopped anywhere is resumed by the next.   *)
(*                                                                           *)
(* A run stops when a command fails, when the operator interrupts a prompt   *)
(* or declines what the demo needs, and when the process is killed. What     *)
(* outlives it: the .env file, the virtual environment, the account's        *)
(* sign-in, the deployed applications and the built interface.               *)
EXTENDS EnvFile, FiniteSets

CONSTANTS Windows,      \* warm windows the operator may answer
          FirstFile,    \* the .env file before the first run
          MaxStops,     \* bound on the runs that stop half-way
          MaxMeddling   \* bound on what happens outside the runs

Values == {Blank, Malformed, "proxyPair", "url", "streaming"} \cup Windows
Assignment == [key : Keys, value : Values]

ASSUME SetupAssumption ==
    /\ Unset \notin Windows
    /\ MaxStops \in Nat /\ MaxMeddling \in Nat
    /\ FirstFile \in Seq(Assignment)

VARIABLES
    at,         \* the step the run is at; "off" when none runs
    file,       \* .env
    venv,       \* "none", "bare" (created) or "ready" (its packages import)
    signedIn,   \* the CLI is signed in to the account
    cloud,      \* the applications: whether deployed, and with which window
    apps,       \* this.apps: the listing the run made
    answers,    \* what the run holds of its answers and of the file it read
    built,      \* the interface is built
    stops, meddling,
    half        \* ghost: a window was saved for a deployment that never came

setupVars == <<at, file, venv, signedIn, cloud, apps, answers, built, stops, meddling, half>>

env == Parse(file)
Save(key, value) == file' = Upsert(file, key, value)
NoAnswers == [deploy |-> FALSE, window |-> Unset]

Steps == {"off", "preflight", "python", "venv", "install", "account", "signIn",
          "credentials", "pair", "synthesis", "deployEnv", "weights", "deploy",
          "url", "asr", "asrWeights", "asrDeploy", "asrUrl", "measure",
          "build", "finish", "ready"}

SetupTypeOK ==
    /\ at \in Steps
    /\ file \in Seq(Assignment)
    /\ venv \in {"none", "bare", "ready"}
    /\ {signedIn, built, half} \subseteq BOOLEAN
    /\ cloud \in [synthesis : {Unset} \cup Windows, asr : BOOLEAN,
                  weights : BOOLEAN, asrWeights : BOOLEAN]
    /\ apps \in [synthesis : BOOLEAN, asr : BOOLEAN]
    /\ answers \in [deploy : BOOLEAN, window : {Unset} \cup Windows]
    /\ stops \in 0..MaxStops /\ meddling \in 0..MaxMeddling

SetupInit ==
    /\ at = "off"
    /\ file = FirstFile
    /\ venv = "none" /\ signedIn = FALSE /\ built = FALSE
    /\ cloud = [synthesis |-> Unset, asr |-> FALSE, weights |-> FALSE,
                asrWeights |-> FALSE]
    /\ apps = [synthesis |-> FALSE, asr |-> FALSE]
    /\ answers = NoAnswers
    /\ stops = 0 /\ meddling = 0 /\ half = FALSE

machine == <<file, venv, signedIn, cloud, built>>
Go(from, to) == at = from /\ at' = to
Quiet == UNCHANGED <<stops, meddling, half>>

Begin ==
    /\ Go("off", "preflight")
    /\ apps' = [synthesis |-> FALSE, asr |-> FALSE] /\ answers' = NoAnswers
    /\ UNCHANGED machine /\ Quiet

\* Node and uv are there (else the run stops); ffmpeg may be missing.
Preflight ==
    /\ Go("preflight", "python")
    /\ UNCHANGED <<machine, apps, answers>> /\ Quiet

\* mutant: an environment that exists is taken for one that is ready
PythonExisting ==
    /\ at = "python"
    /\ at' = IF venv # "none" THEN "account" ELSE "venv"
    /\ UNCHANGED <<machine, apps, answers>> /\ Quiet

(* pythonEnvironment: the packages are imported to see whether anything is   *)
(* to be done, the interpreter looked for to see whether to create it.       *)
Python ==
    /\ at = "python"
    /\ at' = CASE venv = "ready" -> "account"
               [] venv = "bare" -> "install"
               [] venv = "none" -> "venv"
    /\ UNCHANGED <<machine, apps, answers>> /\ Quiet

CreateVenv ==
    /\ Go("venv", "install")
    /\ venv' = "bare"
    /\ UNCHANGED <<file, signedIn, cloud, built, apps, answers>> /\ Quiet

Install ==
    /\ Go("install", "account")
    /\ venv' = "ready"
    /\ UNCHANGED <<file, signedIn, cloud, built, apps, answers>> /\ Quiet

(* listApps: which of the two applications is deployed.                       *)
Listing == [synthesis |-> cloud.synthesis # Unset, asr |-> cloud.asr]

(* webUrl: a deployed application has an endpoint, and no other has.         *)
HasUrl(app) == IF app = "asr" THEN cloud.asr ELSE cloud.synthesis # Unset

(* modalAccount: the listing is made once, and is what the two service       *)
(* phases go by. The names are read by the Python environment.               *)
Account ==
    /\ at = "account" /\ venv = "ready"
    /\ IF signedIn
       THEN /\ at' = "credentials"
            /\ apps' = Listing
       ELSE at' = "signIn" /\ UNCHANGED apps
    /\ UNCHANGED <<machine, answers>> /\ Quiet

SignIn ==
    /\ Go("signIn", "account")
    /\ signedIn' = TRUE
    /\ UNCHANGED <<file, venv, cloud, built, apps, answers>> /\ Quiet

(* credentials: a valid pair may be kept; any other is replaced, by one just *)
(* created or one pasted until it validates.                                 *)
KeepPair ==
    /\ Go("credentials", "synthesis") /\ ValidPair(env["PAIR"])
    /\ UNCHANGED <<machine, apps, answers>> /\ Quiet

NewPair ==
    /\ Go("credentials", "pair")
    /\ UNCHANGED <<machine, apps, answers>> /\ Quiet

SavePair ==
    /\ Go("pair", "synthesis")
    /\ Save("PAIR", "proxyPair")
    /\ UNCHANGED <<venv, signedIn, cloud, built, apps, answers>> /\ Quiet

-----------------------------------------------------------------------------
\* mutant: a deployed service is taken to have its URL saved
LeaveSynthesisTrusting ==
    /\ at = "synthesis" /\ apps.synthesis
    /\ at' = "asr"
    /\ UNCHANGED <<machine, apps, answers>> /\ Quiet

(* synthesisService: deployed and left alone, or deployed now. Declining the *)
(* first deployment stops the run.                                           *)
LeaveSynthesis ==
    /\ at = "synthesis" /\ apps.synthesis
    /\ at' = IF Absent(env["URL"]) THEN "url" ELSE "asr"
    /\ UNCHANGED <<machine, apps, answers>> /\ Quiet

DeploySynthesis ==
    /\ Go("synthesis", "deployEnv")
    /\ UNCHANGED <<machine, apps, answers>> /\ Quiet

(* askDeployEnvironment saves the window before anything is deployed.        *)
DeployEnv ==
    /\ Go("deployEnv", "weights")
    /\ \E w \in Windows : /\ Save("WINDOW", w)
                          /\ answers' = [deploy |-> TRUE, window |-> w]
    /\ half' = TRUE
    /\ UNCHANGED <<venv, signedIn, cloud, built, apps, stops, meddling>>

Weights ==
    /\ Go("weights", "deploy")
    /\ cloud' = [cloud EXCEPT !.weights = TRUE]
    /\ UNCHANGED <<file, venv, signedIn, built, apps, answers>> /\ Quiet

Deploy ==
    /\ Go("deploy", "url") /\ cloud.weights
    /\ cloud' = [cloud EXCEPT !.synthesis = answers.window]
    /\ half' = FALSE
    /\ UNCHANGED <<file, venv, signedIn, built, apps, answers, stops, meddling>>

(* The URL is read back from the deployed application.                       *)
SaveUrl ==
    /\ Go("url", "asr") /\ HasUrl("synthesis")
    /\ Save("URL", "url")
    /\ answers' = NoAnswers
    /\ UNCHANGED <<venv, signedIn, cloud, built, apps>> /\ Quiet

(* transcriptionService: optional; its address is read back whenever the     *)
(* service is there and none is saved.                                       *)
LeaveAsr ==
    /\ at = "asr"
    /\ at' = IF apps.asr /\ Absent(env["ASR"]) THEN "asrUrl" ELSE "measure"
    /\ UNCHANGED <<machine, apps, answers>> /\ Quiet

DeployAsr ==
    /\ Go("asr", "asrWeights")
    /\ UNCHANGED <<machine, apps, answers>> /\ Quiet

AsrWeights ==
    /\ Go("asrWeights", "asrDeploy")
    /\ cloud' = [cloud EXCEPT !.asrWeights = TRUE]
    /\ UNCHANGED <<file, venv, signedIn, built, apps, answers>> /\ Quiet

AsrDeploy ==
    /\ Go("asrDeploy", "asrUrl") /\ cloud.asrWeights
    /\ cloud' = [cloud EXCEPT !.asr = TRUE]
    /\ UNCHANGED <<file, venv, signedIn, built, apps, answers>> /\ Quiet

SaveAsrUrl ==
    /\ Go("asrUrl", "measure") /\ HasUrl("asr")
    /\ Save("ASR", "url")
    /\ UNCHANGED <<venv, signedIn, cloud, built, apps, answers>> /\ Quiet

-----------------------------------------------------------------------------
\* Refused or run: a probe that fails keeps the findings it had.
Measure ==
    /\ Go("measure", "build")
    /\ UNCHANGED <<machine, apps, answers>> /\ Quiet

Build ==
    /\ Go("build", "finish")
    /\ built' = TRUE
    /\ UNCHANGED <<file, venv, signedIn, cloud, apps, answers>> /\ Quiet

Finish ==
    /\ Go("finish", "ready")
    /\ UNCHANGED <<machine, apps, answers>> /\ Quiet

Quit ==
    /\ Go("ready", "off")
    /\ UNCHANGED <<machine, apps, answers>> /\ Quiet

(* SetupAbort, PromptInterrupted, PromptClosed, or a kill.                   *)
Stop ==
    /\ at \notin {"off", "ready"} /\ stops < MaxStops
    /\ at' = "off" /\ stops' = stops + 1
    /\ UNCHANGED <<machine, apps, answers, meddling, half>>

(* Outside the runs, and while none runs: the operator edits .env by hand -  *)
(* empties, spoils or deletes an assignment, or writes one - stops the       *)
(* applications, or the sign-in expires.                                     *)
Meddle ==
    /\ at = "off" /\ meddling < MaxMeddling
    /\ meddling' = meddling + 1
    /\ \/ /\ \/ \E key \in Keys, value \in {Blank, Malformed} : Save(key, value)
             \/ \E i \in DOMAIN file : file' = WithoutLine(file, i)
          /\ UNCHANGED <<cloud, signedIn>>
       \/ /\ cloud' = [cloud EXCEPT !.synthesis = Unset, !.asr = FALSE]
          /\ UNCHANGED <<file, signedIn>>
       \/ signedIn' = FALSE /\ UNCHANGED <<file, cloud>>
    /\ UNCHANGED <<at, venv, built, apps, answers, stops, half>>

Forward ==
    \/ Preflight \/ Python \/ CreateVenv \/ Install \/ Account \/ SignIn
    \/ KeepPair \/ NewPair \/ SavePair
    \/ LeaveSynthesis \/ DeploySynthesis \/ DeployEnv \/ Weights \/ Deploy \/ SaveUrl
    \/ LeaveAsr \/ DeployAsr \/ AsrWeights \/ AsrDeploy \/ SaveAsrUrl
    \/ Measure \/ Build \/ Finish

SetupNext == Begin \/ Forward \/ Quit \/ Stop \/ Meddle

SetupSpec == SetupInit /\ [][SetupNext]_setupVars

(* The operator answers, commands end, and setup is run again after a stop.  *)
FairSetup == SetupSpec /\ WF_setupVars(Begin) /\ WF_setupVars(Forward)

-----------------------------------------------------------------------------
(* A setup that reports Ready leaves a machine the gateway starts on: a .env *)
(* loadConfig accepts, an environment that imports, a deployed service with  *)
(* its URL saved and a built interface, whatever earlier runs left half done *)
(* (each phase's look at what exists, and save). Setup looks at the proxy    *)
(* pair and at whether there is a URL, and at nothing else: a setting that   *)
(* was spoiled by hand - one that does not read, or a transport left empty - *)
(* stays so. And the window the gateway infers readiness from is the one the *)
(* service was deployed with, unless a run stopped between saving one and    *)
(* deploying it.                                                             *)
Spoiled == \E key \in Keys \ {"PAIR"} : ~ Acceptable(key, env[key])

ReadyIsRunnable ==
    /\ SetupTypeOK
    /\ at = "ready" => /\ Spoiled \/ Starts(env)
                       /\ ValidPair(env["PAIR"])
                       /\ venv = "ready" /\ built /\ signedIn
                       /\ cloud.synthesis # Unset /\ cloud.weights
                       /\ cloud.asr => ~ Absent(env["ASR"])
                       /\ ~ half /\ meddling = 0 => env["WINDOW"] = cloud.synthesis

(* Run again after every stop, setup reaches Ready: no half-done phase stops *)
(* every later run.                                                          *)
SetupCompletes == <>(at = "ready")
=============================================================================
