----------------------------- MODULE DeployGateway -----------------------------
(***************************************************************************)
(* scripts/deploy-gateway.mjs --apply: deployments of one revision to one  *)
(* target, from workstations on which a lock directory keeps invocations   *)
(* apart.  applyPhone uploads its artifact to the staging directory of the *)
(* revision, which all invocations share, and starts the installer there:  *)
(* PhoneInstall, one installer for each invocation.  applyMac is MacSwap.  *)
(***************************************************************************)
EXTENDS PhoneInstall, FiniteSets

CONSTANTS
  New,                  \* the candidate container, in place of Old
  MacFailing, MacTorn,  \* MacSwap's Failing and Torn
  Machines,             \* the workstations
  Placements,           \* where the invocations may run
  MaxMishaps            \* bound: how many are hit by a signal, by the loss of
                        \* their connection or by a kill

ASSUME PlacementsAssumption == Placements \subseteq [Installers -> Machines]
ASSUME MishapsAssumption == MaxMishaps \in Nat

VARIABLES
  target,               \* TARGETS[options.environment].kind
  (* MacSwap *)
  main, retained, up, label, oldStopped, renamed, request, signalled, handling,
  outcome, rollback, verified,
  (* applyPhone *)
  machine,              \* where each invocation runs
  localLock,            \* whose lock directory is on each machine
  staged,               \* whose artifact is in the staging directory
  extracted,            \* whose artifact each installer extracted
  step,                 \* each invocation's next step
  report,               \* what it printed
  started,              \* the invocations whose installer was started
  lost, killed          \* those that lost their connection, and those that
                        \* were killed or did not come to their finally

macVars == <<main, retained, up, label, oldStopped, renamed, request, signalled,
             handling, outcome, rollback, verified>>
mishaps == <<lost, killed>>
applyVars == <<machine, localLock, staged, extracted, step, report, started, mishaps>>
deployVars == <<target, vars, macVars, applyVars>>

M == INSTANCE MacSwap
  WITH backup <- retained, running <- up, pc <- label, swapped <- renamed,
       Failing <- MacFailing, Torn <- MacTorn

ASSUME MacAssumption == M!ContainersDiffer /\ M!CommandsKnown

Empty == "empty"    \* a staging directory without an artifact

(* Where an invocation is; between acquiring its lock and releasing it. *)
Applying ==
  {"validate", "stage", "upload", "send", "launch", "await", "remove", "release"}
Steps == Applying \cup {"start", "ended"}

DeployInit ==
  /\ target \in {"docker", "phone"}
  /\ Init /\ M!Init
  /\ machine \in Placements
  /\ localLock = [m \in Machines |-> None]
  /\ staged = None
  /\ extracted = [p \in Installers |-> None]
  /\ step = [p \in Installers |-> "start"]
  /\ report = [p \in Installers |-> "none"]
  /\ started = {} /\ lost = {} /\ killed = {}

Here(p, here) == target = "phone" /\ step[p] = here
Continue(p, there) == step' = [step EXCEPT ![p] = there] /\ UNCHANGED report
Throw(p, there) ==
  step' = [step EXCEPT ![p] = there] /\ report' = [report EXCEPT ![p] = "failed"]
Apart == UNCHANGED <<target, macVars, machine>>
Local == Apart /\ UNCHANGED <<vars, extracted>>
Hit == {p \in Installers : signals[p] > 0} \cup lost \cup killed
Mishap == Cardinality(Hit) < MaxMishaps

--------------------------------------------------------------------------------
(* acquireLocalLock: mkdir decides; where the file pid cannot be written    *)
(* the lock stays, because the caller has not come to its try.             *)
Acquire(p) ==
  /\ Here(p, "start") /\ Local /\ UNCHANGED <<staged, started, lost>>
  /\ \/ /\ localLock[machine[p]] = None
        /\ localLock' = [localLock EXCEPT ![machine[p]] = p]
        /\ \/ Continue(p, "validate") /\ UNCHANGED killed
           \/ Mishap /\ Throw(p, "ended") /\ killed' = killed \cup {p}
     \/ /\ localLock[machine[p]] # None
        /\ Throw(p, "ended") /\ UNCHANGED <<localLock, killed>>

(* phoneReadOnlyPreflight: there is an application and its service runs. *)
Preflight == root # None /\ running # None

(* readPhoneArtifact and the preflight; nothing is staged yet. *)
Validate(p) ==
  /\ Here(p, "validate") /\ Local
  /\ UNCHANGED <<localLock, staged, started, mishaps>>
  /\ \/ Preflight /\ Continue(p, "stage")
     \/ Throw(p, "release")

(* mkdir -p on the host; from here on finally removes the directory. *)
Stage(p) ==
  /\ Here(p, "stage") /\ Local /\ UNCHANGED <<localLock, started, mishaps>>
  /\ \/ staged' = (IF staged = None THEN Empty ELSE staged) /\ Continue(p, "upload")
     \/ Throw(p, "remove") /\ UNCHANGED staged

Upload(p) ==
  /\ Here(p, "upload") /\ Local /\ UNCHANGED <<localLock, started, mishaps>>
  /\ \/ staged # None /\ staged' = p /\ Continue(p, "send")
     \/ Throw(p, "remove") /\ UNCHANGED staged

(* The installer itself, which is the same one for every invocation. *)
UploadInstaller(p) ==
  /\ Here(p, "send") /\ Local /\ UNCHANGED <<localLock, staged, started, mishaps>>
  /\ \/ staged # None /\ Continue(p, "launch")
     \/ Throw(p, "remove")

(* A mistake: the script does not wait for the installer to end. *)
LaunchOnly(p) ==
  /\ Here(p, "launch") /\ Local /\ UNCHANGED <<localLock, staged, mishaps>>
  /\ \/ staged # None /\ started' = started \cup {p} /\ Continue(p, "remove")
     \/ Throw(p, "remove") /\ UNCHANGED started

(* The installer is started in a terminal of its own. *)
Launch(p) ==
  /\ Here(p, "launch") /\ Local /\ UNCHANGED <<localLock, staged, mishaps>>
  /\ \/ staged # None /\ started' = started \cup {p} /\ Continue(p, "await")
     \/ Throw(p, "remove") /\ UNCHANGED started

(* ssh ends with the status of the installer, or with an error when it     *)
(* loses the connection while the installer goes on.                       *)
Ended(p, outcomeOf) ==
  /\ At(p, "done") /\ step' = [step EXCEPT ![p] = "remove"]
  /\ report' = [report EXCEPT ![p] = outcomeOf] /\ UNCHANGED mishaps
Disconnected(p) ==
  /\ ~At(p, "done") /\ Mishap /\ Throw(p, "remove")
  /\ lost' = lost \cup {p} /\ UNCHANGED killed
ExitStatus(p) == IF status[p] = "deployed" /\ ~trapping[p] THEN "deployed" ELSE "failed"

(* A mistake: the status of the installer is not looked at. *)
AwaitAny(p) ==
  /\ Here(p, "await") /\ Local /\ UNCHANGED <<localLock, staged, started>>
  /\ Ended(p, "deployed") \/ Disconnected(p)

Await(p) ==
  /\ Here(p, "await") /\ Local /\ UNCHANGED <<localLock, staged, started>>
  /\ Ended(p, ExitStatus(p)) \/ Disconnected(p)

(* finally: rm -rf, whose own failure is ignored. *)
Remove(p) ==
  /\ Here(p, "remove") /\ Local /\ UNCHANGED <<localLock, started, mishaps>>
  /\ staged' \in {None, staged} /\ Continue(p, "release")

ReleaseLock(p) ==
  /\ Here(p, "release") /\ Local /\ UNCHANGED <<staged, started, mishaps>>
  /\ localLock' = [localLock EXCEPT ![machine[p]] = None] /\ Continue(p, "ended")

(* Nothing catches a signal here: the lock and the staging directory stay. *)
Die(p) ==
  /\ target = "phone" /\ step[p] \notin {"start", "ended"} /\ Mishap
  /\ Local /\ Continue(p, "ended") /\ killed' = killed \cup {p}
  /\ UNCHANGED <<localLock, staged, started, lost>>

ApplyPhone(p) ==
  \/ Acquire(p) \/ Validate(p) \/ Stage(p) \/ Upload(p) \/ UploadInstaller(p)
  \/ Launch(p) \/ Await(p) \/ Remove(p) \/ ReleaseLock(p)

--------------------------------------------------------------------------------
(* The installer finds, checks and extracts what is staged by then. *)
Reading(p) ==
  /\ At(p, "check") /\ pc'[p] = "lock" => staged \in Installers
  /\ At(p, "prepare") /\ pc'[p] = "extract" => staged = p
  /\ At(p, "extract") /\ pc'[p] = "stop" => staged \in Installers
  /\ extracted' = IF At(p, "extract") /\ pc'[p] = "stop"
                    THEN [extracted EXCEPT ![p] = staged] ELSE extracted
  /\ Apart /\ UNCHANGED <<localLock, staged, step, report, started, mishaps>>

InstallerRuns(p) == p \in started /\ Run(p) /\ Reading(p)

(* The terminal of a lost connection hangs up, sooner or later. *)
InstallerSignalled(p) ==
  /\ p \in started /\ (Mishap \/ p \in lost)
  /\ KillEarly(p) \/ Interrupt(p)
  /\ Reading(p)

ApplyMac == target = "docker" /\ M!Next /\ UNCHANGED <<target, vars, applyVars>>

DeployNext ==
  \/ \E p \in Installers :
       ApplyPhone(p) \/ Die(p) \/ InstallerRuns(p) \/ InstallerSignalled(p)
  \/ ApplyMac

(* As long as a command can be run, on either side, one is. *)
DeploySpec ==
  /\ DeployInit /\ [][DeployNext]_deployVars
  /\ WF_deployVars(\E p \in Installers : ApplyPhone(p) \/ InstallerRuns(p))

--------------------------------------------------------------------------------
(* The types, also of the installers and of the Mac; and an invocation that *)
(* is under way holds the lock of its machine.                             *)
DeployTypeOK ==
  /\ TypeOK /\ M!TypeOK
  /\ target \in {"docker", "phone"} /\ machine \in Placements
  /\ localLock \in [Machines -> Installers \cup {None}]
  /\ staged \in Installers \cup {None, Empty}
  /\ extracted \in [Installers -> Installers \cup {None}]
  /\ step \in [Installers -> Steps]
  /\ report \in [Installers -> {"none", "deployed", "failed"}]
  /\ started \in SUBSET Installers
  /\ lost \in SUBSET Installers /\ killed \in SUBSET Installers
  /\ \A p \in Installers : step[p] \in Applying => localLock[machine[p]] = p

(* What MacSwap promises holds of this deployment to the Mac: the host is  *)
(* never left without a gateway, and what is reported is so.               *)
NeverLost == M!NeverLost
ReportIsHonest == M!ReportIsHonest

(* Where an installer still needs the artifact that is staged. *)
AtArtifact == {"check", "lock", "trap", "prepare", "extract"}
OneMachine == \A p, q \in Installers : machine[p] = machine[q]

(* All invocations for a revision upload to one directory and remove it in *)
(* the end.  On one machine the lock keeps them apart, so that an installer *)
(* which no lost connection left behind finds its own artifact from its    *)
(* first check to the extraction, and does not extract another one than    *)
(* that whose digest it checked.  (From two machines it may.)              *)
ArtifactIsKept ==
  OneMachine /\ lost = {} =>
    \A p \in started :
      /\ pc[p] \in AtArtifact => staged = p
      /\ extracted[p] \in {None, p}

(* "outcome: deployed" is printed for releases that are there: in place, or *)
(* retained by a later installer, unless a signal came.                    *)
NothingDeployedIsLost ==
  Undisturbed =>
    \A p \in Installers : report[p] = "deployed" =>
      p \in {root} \cup {backup[q] : q \in Installers}

(* Unless an invocation, or an installer before its traps are set, is      *)
(* killed, every invocation and every installer ends, whatever fails and   *)
(* whoever loses its connection, and no lock is left on any host.          *)
Finishes ==
  (target = "phone" /\ [](killed = {} /\ \A p \in Installers : ~KilledEarly(p))) =>
    <>[] /\ \A p \in Installers : step[p] = "ended" /\ (p \in started => At(p, "done"))
         /\ lock = None /\ \A m \in Machines : localLock[m] = None

================================================================================
