----------------------------- MODULE PhoneInstall -----------------------------
(***************************************************************************)
(* scripts/deploy/phone-install.sh: several runs of the installer on one   *)
(* host, each of which replaces the application directory by its candidate *)
(* and goes back to the previous one if the candidate does not pass.       *)
(*                                                                         *)
(* A step is one command of the script with the tests before it.  A signal *)
(* reaches the shell at any time, and its trap runs when the foreground    *)
(* command is over: between two steps.  "pc" names the next command.       *)
(***************************************************************************)
EXTENDS Naturals

CONSTANTS
  Installers,   \* the runs of the script; each is also its candidate
  Old,          \* the release the host starts with
  None,         \* no release, no installer
  Failing,      \* the commands that may fail, of Commands
  MaxSignals    \* bound: how many signals an installer receives

Commands == {"check", "prepare", "extract", "stop", "retain", "install", "start", "verify",
             "rb_stop", "rb_discard", "rb_restore", "rb_start", "rb_verify"}

ASSUME NamesAssumption == Old \notin Installers /\ None \notin Installers \cup {Old}
ASSUME FailingAssumption == Failing \subseteq Commands
ASSUME SignalsAssumption == MaxSignals \in Nat

VARIABLES
  root,         \* the release in app_root
  running,      \* the release whose service runs
  lock,         \* who made lock_dir
  backup,       \* the release in each installer's rollback directory
  pc,           \* each installer's next command
  swapped, serviceStopped, recoveryFailed,      \* the script's variables
  exitTrap,     \* "trap cleanup EXIT" is set and has not run
  trapping,     \* the installer is in its signal handler
  status,       \* the deployment_status printed last
  signals,      \* how many signals each received
  before,       \* observer: the release in app_root when the lock was taken
  excused       \* observer: the service was not running then, or could not be
                \* started again, or a signal found the script's variables
                \* behind what it had done

vars == <<root, running, lock, backup, pc, swapped, serviceStopped,
          recoveryFailed, exitTrap, trapping, status, signals, before, excused>>
hostVars == <<root, running, lock, backup>>
flagVars == <<swapped, serviceStopped, recoveryFailed>>
trapVars == <<exitTrap, trapping>>
observed == <<status, before, excused>>

Release == Installers \cup {Old, None}
Working == {"trap", "prepare", "extract", "stop", "stopped", "retain", "swap",
            "swapped", "install", "start", "verify", "passed", "give_up", "rb_stop",
            "rb_discard", "rb_restore", "rb_start", "rb_verify", "restart"}
Leaving == {"cleanup", "exit"}
Labels == {"check", "lock"} \cup Working \cup Leaving \cup {"done"}

Init ==
  /\ root = Old /\ running = Old /\ lock = None
  /\ backup = [p \in Installers |-> None]
  /\ pc = [p \in Installers |-> "check"]
  /\ swapped = [p \in Installers |-> FALSE]
  /\ serviceStopped = [p \in Installers |-> FALSE]
  /\ recoveryFailed = [p \in Installers |-> FALSE]
  /\ exitTrap = [p \in Installers |-> FALSE]
  /\ trapping = [p \in Installers |-> FALSE]
  /\ status = [p \in Installers |-> "none"]
  /\ signals = [p \in Installers |-> 0]
  /\ before = [p \in Installers |-> None]
  /\ excused = [p \in Installers |-> FALSE]

At(p, here) == pc[p] = here
Goto(p, there) == pc' = [pc EXCEPT ![p] = there]
Sets(f, p, value) == f' = [f EXCEPT ![p] = value]
Says(p, what) == Sets(status, p, what)
Excuses(p, why) == Sets(excused, p, excused[p] \/ why)

--------------------------------------------------------------------------------
(* rc-service: starting a service that runs changes nothing, and there is  *)
(* nothing to run without an application.                                  *)

Stops == running' = None
StopFails == running' \in {running, None}
Starts == running' = IF running = None THEN root ELSE running
StartFails == running' = running

(* The preconditions on the host, without the lock. *)
Check(p) ==
  /\ At(p, "check")
  /\ \/ root # None /\ running # None /\ Goto(p, "lock") /\ UNCHANGED status
     \/ /\ "check" \in Failing \/ root = None \/ running = None
        /\ Goto(p, "done") /\ Says(p, "not_applied")
  /\ UNCHANGED <<hostVars, flagVars, trapVars, signals, before, excused>>

(* The host as the winner of the lock finds it. *)
Sees(p) == Sets(before, p, root) /\ Excuses(p, root = None \/ running # root)

(* A mistake: the trap is set before the lock is taken, so that the loser  *)
(* cleans up too.                                                          *)
LockTrapped(p) ==
  /\ At(p, "lock")
  /\ IF lock = None
       THEN /\ lock' = p /\ Goto(p, "trap")
            /\ Sees(p)
            /\ UNCHANGED <<status, exitTrap>>
       ELSE /\ Goto(p, "exit") /\ Says(p, "not_applied")
            /\ Sets(exitTrap, p, TRUE)
            /\ UNCHANGED <<lock, before, excused>>
  /\ UNCHANGED <<root, running, backup, flagVars, trapping, signals>>

(* mkdir decides; the loser leaves before it has set a trap. *)
Lock(p) ==
  /\ At(p, "lock")
  /\ IF lock = None
       THEN /\ lock' = p /\ Goto(p, "trap")
            /\ Sees(p)
            /\ UNCHANGED status
       ELSE /\ Goto(p, "done") /\ Says(p, "not_applied")
            /\ UNCHANGED <<lock, before, excused>>
  /\ UNCHANGED <<root, running, backup, flagVars, trapVars, signals>>

SetTraps(p) ==
  /\ At(p, "trap")
  /\ Sets(exitTrap, p, TRUE)
  /\ Goto(p, "prepare")
  /\ UNCHANGED <<hostVars, flagVars, trapping, signals, observed>>

(* The work directory, the digest of the artifact, the fingerprint. *)
Prepare(p) ==
  /\ At(p, "prepare")
  /\ \/ Goto(p, "extract")
     \/ "prepare" \in Failing /\ Goto(p, "give_up")
  /\ UNCHANGED <<hostVars, flagVars, trapVars, signals, observed>>

(* The artifact is opened once more; then all that is done to the candidate*)
(* in the work directory: metadata, override, owner and modes.             *)
Extract(p) ==
  /\ At(p, "extract")
  /\ \/ Goto(p, "stop")
     \/ "extract" \in Failing /\ Goto(p, "give_up")
  /\ UNCHANGED <<hostVars, flagVars, trapVars, signals, observed>>

(* A service that does not stop is started again at once. *)
StopService(p) ==
  /\ At(p, "stop")
  /\ \/ Stops /\ Goto(p, "stopped") /\ UNCHANGED excused
     \/ /\ "stop" \in Failing
        /\ \/ StopFails
           \/ running' = root
        /\ Excuses(p, running' = None)
        /\ Goto(p, "give_up")
  /\ UNCHANGED <<root, lock, backup, flagVars, trapVars, signals, status, before>>

MarkStopped(p) ==
  /\ At(p, "stopped")
  /\ Sets(serviceStopped, p, TRUE)
  /\ Goto(p, "retain")
  /\ UNCHANGED <<hostVars, swapped, recoveryFailed, trapVars, signals,
                 observed>>

(* mv app_root backup; if it fails the service is started again. *)
Retain(p) ==
  /\ At(p, "retain")
  /\ \/ /\ root # None
        /\ Sets(backup, p, root)
        /\ root' = None
        /\ Goto(p, "swap")
        /\ UNCHANGED <<running, serviceStopped, recoveryFailed>>
     \/ /\ "retain" \in Failing \/ root = None
        /\ \/ /\ Starts
              /\ Sets(serviceStopped, p, FALSE)
              /\ UNCHANGED recoveryFailed
           \/ /\ StartFails
              /\ Sets(recoveryFailed, p, TRUE)
              /\ UNCHANGED serviceStopped
        /\ Goto(p, "give_up")
        /\ UNCHANGED <<root, backup>>
  /\ UNCHANGED <<lock, swapped, trapVars, signals, observed>>

MarkSwapped(p) ==
  /\ At(p, "swap")
  /\ Sets(swapped, p, TRUE)
  /\ Goto(p, "swapped")
  /\ UNCHANGED <<hostVars, serviceStopped, recoveryFailed, trapVars, signals,
                 observed>>

(* service_stopped=0, a command later: until then both variables are set. *)
ClearStopped(p) ==
  /\ At(p, "swapped")
  /\ Sets(serviceStopped, p, FALSE)
  /\ Goto(p, "install")
  /\ UNCHANGED <<hostVars, swapped, recoveryFailed, trapVars, signals, observed>>

(* mv onto an application that is there moves the candidate into it. *)
Install(p) ==
  /\ At(p, "install")
  /\ \/ root' = (IF root = None THEN p ELSE root) /\ Goto(p, "start")
     \/ "install" \in Failing /\ Goto(p, "give_up") /\ UNCHANGED root
  /\ UNCHANGED <<running, lock, backup, flagVars, trapVars, signals, observed>>

Start(p) ==
  /\ At(p, "start")
  /\ \/ Starts /\ Goto(p, "verify")
     \/ "start" \in Failing /\ StartFails /\ Goto(p, "give_up")
  /\ UNCHANGED <<root, lock, backup, flagVars, trapVars, signals, observed>>

(* The attempts of checks_pass, until one succeeds or there are no more. *)
Verify(p) ==
  /\ At(p, "verify")
  /\ \/ /\ running # None
        /\ Says(p, "deployed")
        /\ Goto(p, "passed")
     \/ /\ "verify" \in Failing \/ running = None
        /\ Goto(p, "give_up")
        /\ UNCHANGED status
  /\ UNCHANGED <<hostVars, flagVars, trapVars, signals, before, excused>>

(* swapped=0, after the release was reported: a signal in between rolls it *)
(* back all the same.                                                      *)
Commit(p) ==
  /\ At(p, "passed")
  /\ Sets(swapped, p, FALSE)
  /\ Goto(p, "exit")
  /\ UNCHANGED <<hostVars, serviceStopped, recoveryFailed, trapVars, signals,
                 observed>>

(* deploy returned 1: the main program rolls back what was swapped. *)
GiveUp(p) ==
  /\ At(p, "give_up")
  /\ IF swapped[p]
       THEN Goto(p, "rb_stop") /\ UNCHANGED status
       ELSE /\ Goto(p, "exit")
            /\ Says(p, IF recoveryFailed[p] THEN "rollback_failed"
                                            ELSE "not_applied")
  /\ UNCHANGED <<hostVars, flagVars, trapVars, signals, before, excused>>

--------------------------------------------------------------------------------
(* rollback(), called by the main program or by the signal handler, which  *)
(* discards what it prints.                                                *)

RollbackEnds(p, what) ==
  /\ Goto(p, IF trapping[p] THEN "cleanup" ELSE "exit")
  /\ Says(p, IF trapping[p] THEN status[p] ELSE what)

RollbackStop(p) ==
  /\ At(p, "rb_stop")
  /\ \/ Stops
     \/ "rb_stop" \in Failing /\ StopFails
  /\ Goto(p, "rb_discard")
  /\ UNCHANGED <<root, lock, backup, flagVars, trapVars, signals, observed>>

(* A mistake: the failed candidate stays where it is. *)
RollbackDiscardSkips(p) ==
  /\ At(p, "rb_discard")
  /\ Goto(p, "rb_restore")
  /\ UNCHANGED <<hostVars, flagVars, trapVars, signals, observed>>

RollbackDiscard(p) ==
  /\ At(p, "rb_discard")
  /\ \/ root' = None
     \/ "rb_discard" \in Failing /\ UNCHANGED root
  /\ Goto(p, "rb_restore")
  /\ UNCHANGED <<running, lock, backup, flagVars, trapVars, signals, observed>>

(* mv onto an application that is still there moves the backup into it. *)
RollbackRestore(p) ==
  /\ At(p, "rb_restore")
  /\ \/ /\ backup[p] # None
        /\ root' = IF root = None THEN backup[p] ELSE root
        /\ Sets(backup, p, None)
        /\ Goto(p, "rb_start")
        /\ UNCHANGED <<status, excused>>
     \/ /\ backup[p] = None \/ "rb_restore" \in Failing
        /\ RollbackEnds(p, "rollback_failed")
        /\ Excuses(p, trapping[p])
        /\ UNCHANGED <<root, backup>>
  /\ UNCHANGED <<running, lock, flagVars, trapVars, signals, before>>

RollbackStart(p) ==
  /\ At(p, "rb_start")
  /\ \/ /\ Starts
        /\ Sets(serviceStopped, p, FALSE)
        /\ Goto(p, "rb_verify")
        /\ UNCHANGED <<status, excused>>
     \/ /\ "rb_start" \in Failing
        /\ StartFails
        /\ RollbackEnds(p, "rollback_failed")
        /\ Excuses(p, TRUE)
        /\ UNCHANGED serviceStopped
  /\ UNCHANGED <<root, lock, backup, swapped, recoveryFailed, trapVars, signals,
                 before>>

RollbackVerify(p) ==
  /\ At(p, "rb_verify")
  /\ \/ running # None /\ RollbackEnds(p, "rolled_back")
     \/ /\ "rb_verify" \in Failing \/ running = None
        /\ RollbackEnds(p, "rollback_failed")
  /\ UNCHANGED <<hostVars, flagVars, trapVars, signals, before, excused>>

--------------------------------------------------------------------------------
(* A signal before the traps are set ends the shell and leaves its lock. *)
KillEarly(p) ==
  /\ pc[p] \in {"check", "lock", "trap"}
  /\ signals[p] < MaxSignals
  /\ Sets(signals, p, signals[p] + 1)
  /\ Goto(p, "done")
  /\ UNCHANGED <<hostVars, flagVars, trapVars, observed>>

(* Where the variables do not tell what was done: a service stopped before *)
(* service_stopped=1, an application moved before swapped=1, or a release  *)
(* restored while swapped stays 1.                                         *)
Behind(p) ==
  \/ pc[p] \in {"stopped", "swap"}
  \/ swapped[p] /\ backup[p] = None

(* A mistake: the handler looks at service_stopped first. *)
InterruptRestarting(p) ==
  /\ pc[p] \in (Working \ {"trap"}) \cup Leaving
  /\ signals[p] < MaxSignals
  /\ Sets(signals, p, signals[p] + 1)
  /\ Sets(trapping, p, TRUE)
  /\ Excuses(p, Behind(p))
  /\ Goto(p, IF serviceStopped[p] THEN "restart"
             ELSE IF swapped[p] THEN "rb_stop"
             ELSE "cleanup")
  /\ UNCHANGED <<hostVars, flagVars, exitTrap, status, before>>

Interrupt(p) ==
  /\ pc[p] \in (Working \ {"trap"}) \cup Leaving
  /\ signals[p] < MaxSignals
  /\ Sets(signals, p, signals[p] + 1)
  /\ Sets(trapping, p, TRUE)
  /\ Excuses(p, Behind(p))
  /\ Goto(p, IF swapped[p] THEN "rb_stop"
             ELSE IF serviceStopped[p] THEN "restart"
             ELSE "cleanup")
  /\ UNCHANGED <<hostVars, flagVars, exitTrap, status, before>>

(* The handler's start of a service it finds stopped. *)
Restart(p) ==
  /\ At(p, "restart")
  /\ \/ Starts /\ UNCHANGED excused
     \/ "start" \in Failing /\ StartFails /\ Excuses(p, TRUE)
  /\ Goto(p, "cleanup")
  /\ UNCHANGED <<root, lock, backup, flagVars, trapVars, signals, status, before>>

(* A mistake: the lock stays after a failed deployment. *)
CleanupHolding(p) ==
  /\ At(p, "cleanup")
  /\ lock' = IF status[p] = "deployed" THEN None ELSE lock
  /\ Goto(p, "exit")
  /\ UNCHANGED <<root, running, backup, flagVars, trapVars, signals, observed>>

(* The work directory and the lock directory are removed, whoever made it. *)
Cleanup(p) ==
  /\ At(p, "cleanup")
  /\ lock' = None
  /\ Goto(p, "exit")
  /\ UNCHANGED <<root, running, backup, flagVars, trapVars, signals, observed>>

(* exit runs the trap on EXIT once, in the signal handler too, which has   *)
(* already cleaned up.                                                     *)
Exit(p) ==
  /\ At(p, "exit")
  /\ Goto(p, IF exitTrap[p] THEN "cleanup" ELSE "done")
  /\ Sets(exitTrap, p, FALSE)
  /\ UNCHANGED <<hostVars, flagVars, trapping, signals, observed>>

Deploy(p) ==
  \/ Check(p) \/ Lock(p) \/ SetTraps(p) \/ Prepare(p) \/ Extract(p)
  \/ StopService(p) \/ MarkStopped(p) \/ Retain(p) \/ MarkSwapped(p) \/ ClearStopped(p)
  \/ Install(p) \/ Start(p) \/ Verify(p) \/ Commit(p) \/ GiveUp(p)

Rollback(p) ==
  \/ RollbackStop(p) \/ RollbackDiscard(p) \/ RollbackRestore(p)
  \/ RollbackStart(p) \/ RollbackVerify(p)

Run(p) == Deploy(p) \/ Rollback(p) \/ Restart(p) \/ Cleanup(p) \/ Exit(p)

Next == \E p \in Installers : Run(p) \/ KillEarly(p) \/ Interrupt(p)

Spec == Init /\ [][Next]_vars

(* A command that was started ends. *)
FairSpec == Spec /\ \A p \in Installers : WF_vars(Run(p))

--------------------------------------------------------------------------------
TypeOK ==
  /\ root \in Release /\ running \in Release
  /\ lock \in Installers \cup {None}
  /\ backup \in [Installers -> Release]
  /\ pc \in [Installers -> Labels]
  /\ swapped \in [Installers -> BOOLEAN]
  /\ serviceStopped \in [Installers -> BOOLEAN]
  /\ recoveryFailed \in [Installers -> BOOLEAN]
  /\ exitTrap \in [Installers -> BOOLEAN]
  /\ trapping \in [Installers -> BOOLEAN]
  /\ status \in [Installers -> {"none", "deployed", "rolled_back",
                                "rollback_failed", "not_applied"}]
  /\ signals \in [Installers -> 0 .. MaxSignals]
  /\ before \in [Installers -> Release]
  /\ excused \in [Installers -> BOOLEAN]

(* The lock keeps installers apart: as long as no signal handler ran, only *)
(* the one that made lock_dir moves an application or touches the service, *)
(* whichever command fails.  cleanup() removes the directory without       *)
(* asking who made it, so the losers must never come to it.                *)
OneAtATime ==
  (\A p \in Installers : ~trapping[p]) =>
    \A p \in Installers : pc[p] \in Working => lock = p

(* "remote deployment lock is held" (phone-install.sh): two installers     *)
(* never work on the host at the same time, signals included.              *)
MutualExclusion ==
  \A p, q \in Installers : p # q => ~(pc[p] \in Working /\ pc[q] \in Working)

(* A run has done all it does to the host and still holds its lock. *)
Ending(p) == exitTrap[p] /\ At(p, IF trapping[p] THEN "cleanup" ELSE "exit")

(* No installer received a signal. *)
Undisturbed == \A p \in Installers : signals[p] = 0

(* Without signals, the status a run prints is what it left behind: the    *)
(* candidate in place and running with the previous release retained, the  *)
(* previous release in place and running, or the previous release in       *)
(* place; and no run ends after the swap without one of the first two or a *)
(* failed rollback to report.  This takes a rollback that can stop and move *)
(* away what it finds: neither "rb_stop" nor "rb_discard" is in Failing.   *)
StatusIsHonest ==
  Undisturbed => \A p \in Installers : Ending(p) =>
    /\ status[p] = "deployed" => root = p /\ running = p /\ backup[p] = before[p]
    /\ status[p] = "rolled_back" => root = before[p] /\ running = before[p]
    /\ status[p] = "not_applied" => root = before[p]
    /\ swapped[p] => status[p] \in {"rolled_back", "rollback_failed"}

(* A signal leaves the host with a gateway, if it found one there and the  *)
(* commands that bring the service back work: the previous release in      *)
(* place and running or, when it came after swapped=0, the candidate.  The *)
(* handler knows what to undo from two variables, which are assigned after *)
(* the commands they tell of; "excused" names the steps between, and the   *)
(* time after a restore, where it is mistaken.  (The same two commands as  *)
(* in StatusIsHonest must work.)                                           *)
HandlerRestores ==
  \A p \in Installers :
    /\ trapping[p] /\ At(p, "cleanup") /\ lock = p /\ ~excused[p]
    /\ \A q \in Installers \ {p} : signals[q] = 0
    => /\ root = IF status[p] = "deployed" /\ ~swapped[p] THEN p ELSE before[p]
       /\ running = root

(* docs/DEPLOYMENT.md: "Any failure after the swap automatically stops the *)
(* candidate, restores the previous app, restarts the service, and         *)
(* verifies old health": where the commands of the rollback work, a run    *)
(* that ends between the swap and its success leaves the previous release  *)
(* in place and running.                                                   *)
RestoresPrevious ==
  \A p \in Installers :
    Ending(p) /\ swapped[p] => root = before[p] /\ running = before[p]

(* A signal ended the run before its traps were set. *)
KilledEarly(p) == At(p, "done") /\ status[p] = "none" /\ ~trapping[p]

================================================================================
