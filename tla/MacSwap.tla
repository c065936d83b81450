------------------------------- MODULE MacSwap -------------------------------
(***************************************************************************)
(* scripts/deploy-gateway.mjs, applyMac: one deployment of a candidate     *)
(* container in place of the gateway's container, under its name, with the *)
(* old container kept under a backup name until the candidate has passed.  *)
(*                                                                         *)
(* A step is one command.  All of them block the event loop but the        *)
(* requests of createCandidate, so the signal handler runs only while the  *)
(* script awaits those; a request under way then is served all the same.   *)
(***************************************************************************)
CONSTANTS
  Old, New, None,   \* the two containers, no container
  Failing,          \* the commands that may fail without any effect
  Torn              \* those that may fail after they took effect

Commands == {"stop", "rename", "create", "start", "wait", "verify", "remove",
             "r_remove", "r_rename", "r_start", "r_wait", "r_verify"}

(* What DeployGateway, which instantiates this module, assumes of them. *)
ContainersDiffer == Old # New /\ None \notin {Old, New}
CommandsKnown == Failing \subseteq Commands /\ Torn \subseteq Commands

VARIABLES
  main, backup,         \* the containers under the two names
  running,              \* the containers that run
  pc,                   \* the next command
  oldStopped, swapped,  \* the variables of runMacSwapTransaction
  request,              \* the POST of createCandidate: none, sent, served, refused
  signalled, handling,  \* a signal arrived; its handler runs
  outcome, rollback,    \* the evidence printed at the end
  verified              \* observer: the candidate passed its checks

docker == <<main, backup, running>>
flags == <<oldStopped, swapped>>
signals == <<signalled, handling>>
report == <<outcome, rollback>>
vars == <<docker, pc, flags, request, signals, report, verified>>

Containers == {Old, New, None}
Awaiting == {"version", "create"}
Recovering == {"r_remove", "r_rename", "r_start", "r_wait", "r_verify"}

Init ==
  /\ main = Old /\ backup = None /\ running = {Old}
  /\ pc = "stop" /\ oldStopped = FALSE /\ swapped = FALSE
  /\ request = "none" /\ signalled = FALSE /\ handling = FALSE
  /\ outcome = "none" /\ rollback = "none" /\ verified = FALSE

--------------------------------------------------------------------------------
(* What the commands do to Docker, where Docker can do it. *)
Stop == running' = running \ {main} /\ UNCHANGED <<main, backup>>
CanRename == main # None /\ backup = None
RenameAway == backup' = main /\ main' = None /\ UNCHANGED running
CanRenameBack == backup # None /\ main = None
RenameBack == main' = backup /\ backup' = None /\ UNCHANGED running
CanStart == main # None
StartMain == running' = running \cup {main} /\ UNCHANGED <<main, backup>>
RemoveMain == main' = None /\ running' = running \ {main} /\ UNCHANGED backup
RemoveBackup == backup' = None /\ UNCHANGED <<main, running>>
Answers == main \in running

(* A command fails without any effect, which it does where Docker cannot   *)
(* do it; or it is torn from its effect, which Docker then has all the     *)
(* same: the terminal's signal, for instance, ends the docker command too. *)
Fails(command, can, Effect) ==
  \/ (command \in Failing \/ ~can) /\ UNCHANGED docker
  \/ command \in Torn /\ can /\ Effect

Conclude(result) ==
  /\ pc' = "done"
  /\ outcome' = IF handling THEN "interrupted" ELSE "failed"
  /\ rollback' = result

(* recover(): back to the old container, as far as the swap went. *)
Recover ==
  \/ swapped /\ pc' = "r_remove" /\ UNCHANGED report
  \/ ~swapped /\ oldStopped /\ pc' = "r_start" /\ UNCHANGED report
  \/ ~swapped /\ ~oldStopped /\ Conclude("not-needed")

GiveUp(command, can, Effect) ==
  /\ Fails(command, can, Effect) /\ Recover
  /\ UNCHANGED <<flags, request, signals, verified>>

Continue(label) == pc' = label /\ UNCHANGED <<request, signals, report>>

--------------------------------------------------------------------------------
(* A mistake: the stop is not recorded before the rename. *)
StopPreviousUnrecorded ==
  /\ pc = "stop"
  /\ \/ Stop /\ Continue("rename") /\ UNCHANGED <<flags, verified>>
     \/ GiveUp("stop", TRUE, Stop)

StopPrevious ==
  /\ pc = "stop"
  /\ \/ Stop /\ oldStopped' = TRUE /\ Continue("rename") /\ UNCHANGED <<swapped, verified>>
     \/ GiveUp("stop", TRUE, Stop)

RenamePrevious ==
  /\ pc = "rename"
  /\ \/ /\ CanRename /\ RenameAway
        /\ swapped' = TRUE /\ oldStopped' = FALSE
        /\ Continue("version") /\ UNCHANGED verified
     \/ GiveUp("rename", CanRename, RenameAway)

(* The first await: the version of the API; then the container is asked for.*)
AskVersion ==
  /\ pc = "version" /\ UNCHANGED <<docker, flags, signals, verified>>
  /\ \/ pc' = "create" /\ request' = "sent" /\ UNCHANGED report
     \/ "create" \in Failing /\ Recover /\ UNCHANGED request

(* Docker creates a container where the name is free, whoever still waits. *)
CreateServed ==
  /\ request = "sent"
  /\ \/ main = None /\ main' = New /\ request' = "served"
     \/ main # None /\ request' = "refused" /\ UNCHANGED main
  /\ UNCHANGED <<backup, running, pc, flags, signals, report, verified>>

(* The second await; a broken connection leaves the request to Docker. *)
Created ==
  /\ pc = "create" /\ UNCHANGED <<docker, flags, signals, verified>>
  /\ \/ request = "served" /\ pc' = "start" /\ UNCHANGED <<request, report>>
     \/ "create" \in Failing /\ request = "sent" /\ Recover /\ request' = "none"
     \/ "create" \in Torn /\ Recover /\ UNCHANGED request

StartCandidate ==
  /\ pc = "start"
  /\ \/ CanStart /\ StartMain /\ Continue("wait") /\ UNCHANGED <<flags, verified>>
     \/ GiveUp("start", CanStart, StartMain)

(* A mistake: the health of the container is all that is checked. *)
WaitForCandidateOnly ==
  /\ pc = "wait" /\ UNCHANGED <<docker, verified>>
  /\ \/ Answers /\ Continue("remove") /\ UNCHANGED flags
     \/ GiveUp("wait", Answers, UNCHANGED docker)

WaitForCandidate ==
  /\ pc = "wait" /\ UNCHANGED docker
  /\ \/ Answers /\ Continue("verify") /\ UNCHANGED <<flags, verified>>
     \/ GiveUp("wait", Answers, UNCHANGED docker)

VerifyCandidate ==
  /\ pc = "verify" /\ UNCHANGED docker
  /\ \/ Answers /\ verified' = TRUE /\ Continue("remove") /\ UNCHANGED flags
     \/ GiveUp("verify", Answers, UNCHANGED docker)

RemoveRetained ==
  /\ pc = "remove"
  /\ \/ /\ backup # None /\ RemoveBackup
        /\ swapped' = FALSE /\ pc' = "done"
        /\ outcome' = "deployed" /\ rollback' = "not-needed"
        /\ UNCHANGED <<oldStopped, request, signals, verified>>
     \/ GiveUp("remove", backup # None, RemoveBackup)

--------------------------------------------------------------------------------
(* recover(): its first command's failure is not noticed. *)
RemoveCandidate ==
  /\ pc = "r_remove"
  /\ RemoveMain \/ ("r_remove" \in Failing /\ UNCHANGED docker)
  /\ Continue("r_rename") /\ UNCHANGED <<flags, verified>>

RecoverFails(command, can, Effect) ==
  /\ Fails(command, can, Effect) /\ Conclude("failed")
  /\ UNCHANGED <<flags, request, signals, verified>>

RenameToPrevious ==
  /\ pc = "r_rename"
  /\ \/ CanRenameBack /\ RenameBack /\ Continue("r_start") /\ UNCHANGED <<flags, verified>>
     \/ RecoverFails("r_rename", CanRenameBack, RenameBack)

StartPrevious ==
  /\ pc = "r_start"
  /\ \/ CanStart /\ StartMain /\ Continue("r_wait") /\ UNCHANGED <<flags, verified>>
     \/ RecoverFails("r_start", CanStart, StartMain)

WaitForPrevious ==
  /\ pc = "r_wait" /\ UNCHANGED docker
  /\ \/ Answers /\ Continue("r_verify") /\ UNCHANGED <<flags, verified>>
     \/ RecoverFails("r_wait", Answers, UNCHANGED docker)

VerifyPrevious ==
  /\ pc = "r_verify" /\ UNCHANGED <<docker, request, signals, verified>>
  /\ \/ /\ Answers /\ swapped' = FALSE /\ oldStopped' = FALSE
        /\ Conclude(IF swapped THEN "restored" ELSE "restarted")
     \/ RecoverFails("r_verify", Answers, UNCHANGED docker)

--------------------------------------------------------------------------------
(* A signal is kept while a command blocks the event loop. *)
Signal ==
  /\ pc # "done" /\ ~signalled /\ signalled' = TRUE
  /\ UNCHANGED <<docker, pc, flags, request, handling, report, verified>>

(* The handler recovers and exits; the script does not come back to its await. *)
Interrupted ==
  /\ signalled /\ ~handling /\ pc \in Awaiting
  /\ handling' = TRUE /\ Recover
  /\ UNCHANGED <<docker, flags, request, signalled, verified>>

(* The handler was installed for one signal of its kind: the next one ends  *)
(* the process in the middle of the handler's recovery, without a report.  *)
Killed ==
  /\ handling /\ pc \in Recovering /\ pc' = "done"
  /\ UNCHANGED <<docker, flags, request, signals, report, verified>>

Swap == \/ StopPrevious \/ RenamePrevious \/ AskVersion \/ Created \/ StartCandidate
        \/ WaitForCandidate \/ VerifyCandidate \/ RemoveRetained
Recovery == \/ RemoveCandidate \/ RenameToPrevious \/ StartPrevious
            \/ WaitForPrevious \/ VerifyPrevious

Next == Swap \/ Recovery \/ CreateServed \/ Signal \/ Interrupted \/ Killed

Spec == Init /\ [][Next]_vars

--------------------------------------------------------------------------------
(* The types; the two flags of the transaction exclude each other. *)
DockerTypeOK ==
  main \in Containers /\ backup \in Containers /\ running \subseteq {Old, New}
FlagsTypeOK ==
  /\ oldStopped \in BOOLEAN /\ swapped \in BOOLEAN /\ verified \in BOOLEAN
  /\ signalled \in BOOLEAN /\ handling \in BOOLEAN
Exclusive == ~(oldStopped /\ swapped)
ReportTypeOK ==
  /\ request \in {"none", "sent", "served", "refused"}
  /\ outcome \in {"none", "deployed", "failed", "interrupted"}
  /\ rollback \in {"none", "not-needed", "restored", "restarted", "failed"}
Labels == {"stop", "rename", "start", "wait", "verify", "remove", "done"}
             \cup Awaiting \cup Recovering
TypeOK == DockerTypeOK /\ FlagsTypeOK /\ Exclusive /\ ReportTypeOK /\ pc \in Labels

(* The host is never left without a gateway: the old container exists      *)
(* under one of the names until a verified candidate has the gateway's     *)
(* name, signals, failing commands and late creations included.  (A docker *)
(* rm of the old container that fails after removing it is the exception:  *)
(* recover() then removes the candidate too.)                              *)
NeverLost ==
  "remove" \notin Torn => Old \in {main, backup} \/ (main = New /\ verified)

(* The evidence a deployment ends with is true: deployed, with the old     *)
(* container gone; the old container back under its name and running; or,  *)
(* where a stop fails only without effect, no rollback needed.             *)
ReportIsHonest ==
  pc = "done" =>
    /\ outcome = "deployed" => main = New /\ verified /\ backup = None
    /\ rollback \in {"restored", "restarted"} => main = Old /\ Old \in running
    /\ (rollback = "not-needed" /\ outcome # "deployed" /\ "stop" \notin Torn)
         => main = Old /\ Old \in running

================================================================================
