--------------------------------- MODULE Setup ---------------------------------
(***************************************************************************)
(* scripts/bootstrap.mjs, which writes the configuration files that are    *)
(* missing, and the start of the gateway, src/index.ts, which reads them.  *)
(* Several runs of the script may be under way on one checkout, each may   *)
(* be killed between any two of its steps, and the gateway may be started  *)
(* at any time.                                                            *)
(*                                                                         *)
(* A file is absent, a part of a file, which does not parse, or complete;  *)
(* a complete one is who wrote it and the settings that matter here.       *)
(***************************************************************************)
EXTENDS Naturals

CONSTANTS
  Runs,         \* the runs of the script
  Operator,     \* who else may have written a file before them
  Options,      \* the command lines: port, host and whether to pull a model
  Handwritten,  \* the settings of a config.json by the operator
  Environments, \* the settings in the environment of the gateway, PORT and the hosts
  MaxPort,      \* 65535
  MaxMishaps    \* bound: how many runs are killed or fail for outer reasons

ASSUME NamesAssumption == Operator \notin Runs
ASSUME BoundsAssumption == MaxPort \in Nat \ {0} /\ MaxMishaps \in Nat

Files == {"config", "admin", "keys"}
Absent == [state |-> "absent"]
Partial == [state |-> "partial"]
Written(by, settings) == [state |-> "complete", by |-> by, settings |-> settings]
Secret == [port |-> 0, host |-> "none"]       \* what the other two files hold
Default(env) == [state |-> "default", settings |-> env]         \* defaultConfig()
Defaults == {Default(env) : env \in Environments}

(* A mistake: the keys are written before the administrator. *)
FollowingKeysFirst ==
  [start |-> "config", config |-> "keys", keys |-> "admin", admin |-> "end"]

(* The order of main(), which is the order of index.ts too. *)
Following ==
  [start |-> "config", config |-> "admin", admin |-> "keys", keys |-> "end"]

VARIABLES
  file,         \* the three files
  options,      \* each run's command line
  pc, at,       \* each run's next step, and the file it has come to
  appConfig,    \* the config.json each run goes on with
  mishaps,      \* how many there were
  gateway,      \* what the gateway reads next, or whether it runs
  loaded,       \* what it has read
  disturbed     \* observer: a file was written while the gateway read them

setupVars == <<file, options, pc, at, appConfig, mishaps>>
gatewayVars == <<gateway, loaded>>
vars == <<setupVars, gatewayVars, disturbed>>

Steps == {"install", "look", "password", "open", "write", "pull"}
Ended == {"done", "failed", "killed"}
Complete(f) == file[f].state = "complete"
Nothing == [f \in Files |-> Absent]

(* Hosts are abstracted to whether they are http or https URLs. *)
ValidSettings(s) == s.port \in 1 .. MaxPort /\ s.host = "http"

(* A mistake: the port of the command line is not checked. *)
ParseArgsLax(o) == o.host = "http"

(* parseArgs: what the script accepts of its command line. *)
ParseArgs(o) == o.port \in 1 .. MaxPort /\ o.host = "http"

(* validateConfig: what the gateway accepts, of a file or the defaults. *)
ValidConfig(c) == ValidSettings(c.settings)

Settings(o) == [port |-> o.port, host |-> o.host]
ByHand(f) == {Written(Operator, s) : s \in IF f = "config" THEN Handwritten ELSE {Secret}}
ByRun(f) ==
  {Written(r, s) : r \in Runs,
                   s \in IF f = "config" THEN {Settings(o) : o \in Options} ELSE {Secret}}
Contents(f) == {Absent, Partial} \cup ByHand(f) \cup ByRun(f)

Init ==
  /\ \E c \in {Absent} \cup ByHand("config"), a \in {Absent} \cup ByHand("admin"),
        k \in {Absent} \cup ByHand("keys") : file = [config |-> c, admin |-> a, keys |-> k]
  /\ options \in [Runs -> Options]
  /\ pc = [r \in Runs |-> "new"]
  /\ at = [r \in Runs |-> "start"]
  /\ appConfig = [r \in Runs |-> Absent]
  /\ mishaps = 0
  /\ gateway = "down" /\ loaded = Nothing /\ disturbed = FALSE

At(r, here) == pc[r] = here
Goto(r, there) == pc' = [pc EXCEPT ![r] = there]
Mishap == mishaps < MaxMishaps /\ mishaps' = mishaps + 1
Write(f, content) ==
  /\ file' = [file EXCEPT ![f] = content]
  /\ disturbed' = (disturbed \/ gateway \in {"admin", "keys"})
Reads == UNCHANGED <<file, disturbed, options, gatewayVars>>

(* On to the next file, or past the last one. *)
Advance(r) ==
  /\ at' = [at EXCEPT ![r] = Following[@]]
  /\ Goto(r, IF Following[at[r]] = "end" THEN "pull" ELSE "look")

--------------------------------------------------------------------------------
(* A step that fails for a reason outside ends the run with exit code 1. *)
Fails(r) == Mishap /\ Goto(r, "failed") /\ UNCHANGED <<at, appConfig>>

Start(r) ==
  /\ At(r, "new")
  /\ Goto(r, IF ParseArgs(options[r]) THEN "install" ELSE "failed")
  /\ Reads /\ UNCHANGED <<at, appConfig, mishaps>>

(* mkdir and npm install. *)
EnsureDependencies(r) ==
  /\ At(r, "install") /\ Reads
  /\ \/ Advance(r) /\ UNCHANGED <<appConfig, mishaps>>
     \/ Fails(r)

(* readJsonIfPresent: what is there is left unchanged; a part of a file    *)
(* ends the run.                                                           *)
Look(r) ==
  /\ At(r, "look") /\ Reads /\ UNCHANGED mishaps
  /\ \/ /\ file[at[r]] = Absent
        /\ Goto(r, IF at[r] = "admin" THEN "password" ELSE "open")
        /\ UNCHANGED <<at, appConfig>>
     \/ file[at[r]] = Partial /\ Goto(r, "failed") /\ UNCHANGED <<at, appConfig>>
     \/ /\ Complete(at[r]) /\ Advance(r)
        /\ appConfig' = [appConfig EXCEPT ![r] = IF at[r] = "config" THEN file["config"] ELSE @]

(* getAdminPassword: given or typed, strong enough and typed twice alike;  *)
(* and its hash, by a package that npm has to have installed.              *)
GetAdminPassword(r) ==
  /\ At(r, "password") /\ Reads
  /\ \/ Goto(r, "open") /\ UNCHANGED <<at, appConfig, mishaps>>
     \/ Fails(r)

(* A mistake: the file is opened whether or not it is there. *)
OpenOver(r) ==
  /\ At(r, "open")
  /\ Write(at[r], Partial) /\ Goto(r, "write")
  /\ UNCHANGED <<options, at, appConfig, mishaps, gatewayVars>>

(* A mistake: it waits until the file is not there. *)
OpenWaiting(r) ==
  /\ At(r, "open")
  /\ file[at[r]] = Absent /\ Write(at[r], Partial) /\ Goto(r, "write")
  /\ UNCHANGED <<options, at, appConfig, mishaps, gatewayVars>>

(* writeJson opens the file only if it is not there: flag wx. *)
Open(r) ==
  /\ At(r, "open")
  /\ \/ file[at[r]] = Absent /\ Write(at[r], Partial) /\ Goto(r, "write")
     \/ file[at[r]] # Absent /\ Goto(r, "failed") /\ UNCHANGED <<file, disturbed>>
  /\ UNCHANGED <<options, at, appConfig, mishaps, gatewayVars>>

Content(r) == Written(r, IF at[r] = "config" THEN Settings(options[r]) ELSE Secret)

(* It writes the content; a disk that is full leaves a part of it. *)
Fill(r) ==
  /\ At(r, "write") /\ UNCHANGED <<options, gatewayVars>>
  /\ \/ /\ Write(at[r], Content(r)) /\ Advance(r)
        /\ appConfig' = [appConfig EXCEPT ![r] = IF at[r] = "config" THEN Content(r) ELSE @]
        /\ UNCHANGED mishaps
     \/ Fails(r) /\ UNCHANGED <<file, disturbed>>

(* pullModel asks the Ollama of appConfig; then the run says that setup is *)
(* complete, or starts the gateway.                                        *)
PullModel(r) ==
  /\ At(r, "pull") /\ Reads
  /\ \/ Goto(r, "done") /\ UNCHANGED <<at, appConfig, mishaps>>
     \/ options[r].pull /\ Fails(r)

Step(r) ==
  \/ Start(r) \/ EnsureDependencies(r) \/ Look(r) \/ GetAdminPassword(r)
  \/ Open(r) \/ Fill(r) \/ PullModel(r)

Kill(r) ==
  /\ pc[r] \in Steps /\ Mishap /\ Goto(r, "killed")
  /\ Reads /\ UNCHANGED <<at, appConfig>>

--------------------------------------------------------------------------------
(* The operator, who waits for the runs to end before trying again, and    *)
(* removes what cannot be parsed: no run does.                             *)
AllEnded == \A r \in Runs : pc[r] \in Ended

Rerun(r) ==
  /\ AllEnded /\ pc[r] # "done" /\ ParseArgs(options[r])
  /\ Goto(r, "new") /\ at' = [at EXCEPT ![r] = "start"]
  /\ appConfig' = [appConfig EXCEPT ![r] = Absent]
  /\ Reads /\ UNCHANGED mishaps

Repair(f) ==
  /\ AllEnded /\ file[f] = Partial /\ Write(f, Absent)
  /\ UNCHANGED <<options, pc, at, appConfig, mishaps, gatewayVars>>

(* index.ts, one file after the other: without a config.json there are     *)
(* defaults; with settings that are not valid, which those of the          *)
(* environment may be too, the process ends.                               *)
LoadConfig ==
  /\ gateway = "down"
  /\ \E c \in IF file["config"] = Absent THEN Defaults ELSE {file["config"]} \ {Partial} :
       /\ ValidConfig(c)
       /\ gateway' = "admin" /\ loaded' = [loaded EXCEPT !["config"] = c]
  /\ disturbed' = FALSE
  /\ UNCHANGED setupVars

(* Without an admin.json, or with one that does not parse, the             *)
(* administration is disabled.                                             *)
LoadAdmin ==
  /\ gateway = "admin" /\ gateway' = "keys"
  /\ loaded' = [loaded EXCEPT !["admin"] = IF Complete("admin") THEN file["admin"] ELSE Absent]
  /\ UNCHANGED <<setupVars, disturbed>>

(* createApp: the KeyManager throws without a keys.json. *)
LoadKeys ==
  /\ gateway = "keys"
  /\ IF Complete("keys")
       THEN gateway' = "up" /\ loaded' = [loaded EXCEPT !["keys"] = file["keys"]]
       ELSE gateway' = "down" /\ loaded' = Nothing
  /\ UNCHANGED <<setupVars, disturbed>>

StopGateway ==
  /\ gateway = "up" /\ gateway' = "down" /\ loaded' = Nothing
  /\ UNCHANGED <<setupVars, disturbed>>

Next ==
  \/ \E r \in Runs : Step(r) \/ Kill(r) \/ Rerun(r)
  \/ \E f \in Files : Repair(f)
  \/ LoadConfig \/ LoadAdmin \/ LoadKeys \/ StopGateway

Spec == Init /\ [][Next]_vars

(* A run goes on, and the operator does not give up. *)
FairSpec ==
  /\ Spec
  /\ \A r \in Runs : WF_vars(Step(r)) /\ WF_vars(Rerun(r))
  /\ \A f \in Files : SF_vars(Repair(f))

--------------------------------------------------------------------------------
(* The types; in particular the gateway runs on a valid configuration. *)
ProgressTypeOK ==
  /\ options \in [Runs -> Options]
  /\ pc \in [Runs -> {"new"} \cup Steps \cup Ended]
  /\ at \in [Runs -> Files \cup {"start", "end"}]
  /\ mishaps \in 0 .. MaxMishaps
FilesTypeOK ==
  /\ DOMAIN file = Files /\ \A f \in Files : file[f] \in Contents(f)
  /\ appConfig \in [Runs -> Contents("config") \ {Partial}]
GatewayTypeOK ==
  /\ gateway \in {"down", "admin", "keys", "up"}
  /\ DOMAIN loaded = Files
  /\ \A f \in Files : loaded[f] \in Contents(f) \cup Defaults
  /\ gateway # "down" => ValidConfig(loaded["config"])
  /\ disturbed \in BOOLEAN
TypeOK == ProgressTypeOK /\ FilesTypeOK /\ GatewayTypeOK

(* README.md: "It does not overwrite existing local config files": whoever *)
(* else runs, a complete file never changes.                               *)
NeverOverwritten == [][\A f \in Files : Complete(f) => file'[f] = file[f]]_vars

(* "Setup complete": all three files are there and stay, and the model was *)
(* pulled to the Ollama of the config.json that the gateway will load; one *)
(* that a run wrote is valid.                                              *)
SetupIsComplete ==
  \A r \in Runs : At(r, "done") =>
    /\ \A f \in Files : Complete(f)
    /\ appConfig[r] = file["config"]
    /\ file["config"].by # Operator => ValidConfig(file["config"])

(* The keys are written last, so that a setup that was cut off never lets  *)
(* a gateway start that serves its keys and has no administration, or runs *)
(* on defaults; unless the files were written while it read them.          *)
AdminComesWithKeys ==
  (gateway = "up" /\ ~disturbed /\ loaded["keys"].by # Operator) =>
    /\ loaded["admin"] # Absent
    /\ loaded["config"] \notin Defaults

(* Runs that get in each other's way, are killed or fail do no harm that   *)
(* removing the files that do not parse and trying again does not undo.    *)
SetUpInTheEnd ==
  (\E r \in Runs : ParseArgs(options[r])) => <>[](\A f \in Files : Complete(f))

================================================================================
