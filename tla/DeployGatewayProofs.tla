-------------------------- MODULE DeployGatewayProofs --------------------------
(***************************************************************************)
(* Theorems about deployments, for any number of invocations, installers,  *)
(* workstations and mishaps and any commands that fail: first about the    *)
(* installers alone (PhoneInstall), then about the Mac alone (MacSwap), and*)
(* about both of them within DeployGateway.                                *)
(***************************************************************************)
EXTENDS DeployGateway, TLAPS

(* What comes before swapped=1 in the script. *)
BeforeSwap == {"check", "lock", "trap", "prepare", "extract", "stop", "stopped",
               "retain", "swap"}

(* A run that gives up before swapped=1 has nothing to roll back. *)
SwapIsLast == \A p \in Installers : pc[p] \in BeforeSwap => ~swapped[p]

(* Why a run that no signal hit removes its own lock only: it comes to     *)
(* cleanup() once, out of its trap on EXIT, still holding the lock.        *)
Holds(p) ==
  /\ pc[p] \in Working \cup {"cleanup"} => lock = p
  /\ pc[p] = "exit" /\ exitTrap[p] => lock = p
  /\ pc[p] = "cleanup" => ~exitTrap[p]
  /\ pc[p] # "restart"

LockIsOwn == (\A p \in Installers : ~trapping[p]) => \A p \in Installers : Holds(p)

(* The inductive invariant. *)
IInv == TypeOK /\ LockIsOwn /\ SwapIsLast

(* The script starts with the lock free and nothing swapped. *)
LEMMA InitIInv == Init => IInv
BY NamesAssumption, SignalsAssumption
   DEF Init, IInv, TypeOK, LockIsOwn, Holds, SwapIsLast, Release, Labels, Working,
       Leaving

(* Every step keeps every variable in its type. *)
LEMMA TypeStep ==
  ASSUME IInv, NEW p \in Installers, Run(p) \/ KillEarly(p) \/ Interrupt(p)
  PROVE  TypeOK'
<1> USE SignalsAssumption
    DEF IInv, TypeOK, SwapIsLast, BeforeSwap, Release, Labels, Working,
        Leaving, At, Goto, Sets, Says, Excuses, hostVars, flagVars, trapVars,
        observed
<1>1. CASE Check(p)
  BY <1>1 DEF Check
<1>2. CASE Lock(p)
  <2>1. UNCHANGED <<root, running, backup, swapped, serviceStopped, recoveryFailed,
                    exitTrap, trapping, signals>>
    BY <1>2 DEF Lock
  <2>2. lock' \in Installers \cup {None} /\ pc' \in [Installers -> Labels]
    BY <1>2 DEF Lock
  <2>3. /\ before' \in [Installers -> Release] /\ excused' \in [Installers -> BOOLEAN]
        /\ status' \in {status, [status EXCEPT ![p] = "not_applied"]}
    <3>1. CASE lock = None
      <4>1. /\ UNCHANGED status /\ before' = [before EXCEPT ![p] = root]
            /\ excused' = [excused EXCEPT ![p] = @ \/ root = None \/ running # root]
        BY <1>2, <3>1 DEF Lock, Sees
      <4>2. before' \in [Installers -> Release]
        BY <4>1
      <4>3. excused' \in [Installers -> BOOLEAN]
        BY <4>1
      <4> QED
        BY <4>1, <4>2, <4>3
    <3>2. CASE lock # None
      BY <1>2, <3>2 DEF Lock
    <3> QED
      BY <3>1, <3>2
  <2> QED
    BY <2>1, <2>2, <2>3
<1>3. CASE SetTraps(p)
  BY <1>3 DEF SetTraps
<1>4. CASE Prepare(p)
  BY <1>4 DEF Prepare
<1>23. CASE Extract(p)
  BY <1>23 DEF Extract
<1>5. CASE StopService(p)
  BY <1>5 DEF StopService, Stops, StopFails
<1>6. CASE MarkStopped(p)
  BY <1>6 DEF MarkStopped
<1>7. CASE Retain(p)
  <2>1. running' \in Release /\ root' \in Release
    BY <1>7 DEF Retain, Starts, StartFails
  <2>2. /\ serviceStopped' \in [Installers -> BOOLEAN]
        /\ recoveryFailed' \in [Installers -> BOOLEAN]
    BY <1>7 DEF Retain
  <2> QED
    BY <1>7, <2>1, <2>2 DEF Retain
<1>8. CASE MarkSwapped(p)
  BY <1>8 DEF MarkSwapped
<1>24. CASE ClearStopped(p)
  BY <1>24 DEF ClearStopped
<1>25. CASE Commit(p)
  BY <1>25 DEF Commit
<1>9. CASE Install(p)
  BY <1>9 DEF Install
<1>10. CASE Start(p)
  BY <1>10 DEF Start, Starts, StartFails
<1>11. CASE Verify(p)
  BY <1>11 DEF Verify
<1>12. CASE GiveUp(p)
  BY <1>12 DEF GiveUp
<1>13. CASE RollbackStop(p)
  BY <1>13 DEF RollbackStop, Stops, StopFails
<1>14. CASE RollbackDiscard(p)
  BY <1>14 DEF RollbackDiscard
<1>15. CASE RollbackRestore(p)
  BY <1>15 DEF RollbackRestore, RollbackEnds
<1>16. CASE RollbackStart(p)
  <2>1. running' \in Release
    BY <1>16 DEF RollbackStart, Starts, StartFails
  <2>2. serviceStopped' \in [Installers -> BOOLEAN]
    BY <1>16 DEF RollbackStart
  <2> QED
    BY <1>16, <2>1, <2>2 DEF RollbackStart, RollbackEnds
<1>17. CASE RollbackVerify(p)
  BY <1>17 DEF RollbackVerify, RollbackEnds
<1>18. CASE Restart(p)
  BY <1>18 DEF Restart, Starts, StartFails
<1>19. CASE Cleanup(p)
  BY <1>19 DEF Cleanup
<1>20. CASE Exit(p)
  BY <1>20 DEF Exit
<1>21. CASE KillEarly(p)
  BY <1>21 DEF KillEarly
<1>22. CASE Interrupt(p)
  BY <1>22 DEF Interrupt
<1> QED
  BY <1>1, <1>2, <1>3, <1>4, <1>5, <1>6, <1>7, <1>8, <1>9, <1>10, <1>11, <1>12,
     <1>13, <1>14, <1>15, <1>16, <1>17, <1>18, <1>19, <1>20, <1>21, <1>22, <1>23, <1>24, <1>25
     DEF Run, Deploy, Rollback

(* The lock is taken when it is free and given back by the one who holds   *)
(* it; no other step comes to the labels behind the lock or leaves them.   *)
LEMMA LockStep ==
  ASSUME IInv, NEW p \in Installers, Run(p) \/ KillEarly(p) \/ Interrupt(p)
  PROVE  LockIsOwn'
<1> USE NamesAssumption DEF IInv, TypeOK, LockIsOwn, Holds, Working, Leaving,
  At, Goto, Sets, hostVars, trapVars
<1>1. CASE Check(p)
  BY <1>1 DEF Check
<1>2. CASE Lock(p)
  BY <1>2 DEF Lock, Sees
<1>3. CASE SetTraps(p)
  BY <1>3 DEF SetTraps
<1>4. CASE Prepare(p)
  BY <1>4 DEF Prepare
<1>23. CASE Extract(p)
  BY <1>23 DEF Extract
<1>5. CASE StopService(p)
  BY <1>5 DEF StopService
<1>6. CASE MarkStopped(p)
  BY <1>6 DEF MarkStopped
<1>7. CASE Retain(p)
  BY <1>7 DEF Retain
<1>8. CASE MarkSwapped(p)
  BY <1>8 DEF MarkSwapped
<1>24. CASE ClearStopped(p)
  BY <1>24 DEF ClearStopped
<1>25. CASE Commit(p)
  BY <1>25 DEF Commit
<1>9. CASE Install(p)
  BY <1>9 DEF Install
<1>10. CASE Start(p)
  BY <1>10 DEF Start
<1>11. CASE Verify(p)
  BY <1>11 DEF Verify
<1>12. CASE GiveUp(p)
  BY <1>12 DEF GiveUp
<1>13. CASE RollbackStop(p)
  BY <1>13 DEF RollbackStop
<1>14. CASE RollbackDiscard(p)
  BY <1>14 DEF RollbackDiscard
<1>15. CASE RollbackRestore(p)
  BY <1>15 DEF RollbackRestore, RollbackEnds
<1>16. CASE RollbackStart(p)
  <2>1. /\ pc[p] = "rb_start" /\ UNCHANGED <<lock, exitTrap, trapping>>
        /\ \/ Goto(p, "rb_verify")
           \/ Goto(p, IF trapping[p] THEN "cleanup" ELSE "exit")
    BY <1>16 DEF RollbackStart, RollbackEnds
  <2> QED
    BY <2>1
<1>17. CASE RollbackVerify(p)
  BY <1>17 DEF RollbackVerify, RollbackEnds
<1>18. CASE Restart(p)
  BY <1>18 DEF Restart
<1>19. CASE Cleanup(p)
  BY <1>19 DEF Cleanup
<1>20. CASE Exit(p)
  BY <1>20 DEF Exit
<1>21. CASE KillEarly(p)
  BY <1>21 DEF KillEarly
<1>22. CASE Interrupt(p)
  BY <1>22 DEF Interrupt
<1> QED
  BY <1>1, <1>2, <1>3, <1>4, <1>5, <1>6, <1>7, <1>8, <1>9, <1>10, <1>11,
  <1>12, <1>13, <1>14, <1>15, <1>16, <1>17, <1>18, <1>19, <1>20, <1>21, <1>22, <1>23, <1>24, <1>25
     DEF Run, Deploy, Rollback

(* swapped is set by the step that leaves BeforeSwap, and no step goes     *)
(* back there.                                                             *)
LEMMA SwapStep ==
  ASSUME IInv, NEW p \in Installers, Run(p) \/ KillEarly(p) \/ Interrupt(p)
  PROVE  SwapIsLast'
<1> USE DEF IInv, TypeOK, SwapIsLast, BeforeSwap, Working, Leaving,
  At, Goto, Sets, flagVars
<1>1. CASE Check(p)
  BY <1>1 DEF Check
<1>2. CASE Lock(p)
  BY <1>2 DEF Lock, Sees
<1>3. CASE SetTraps(p)
  BY <1>3 DEF SetTraps
<1>4. CASE Prepare(p)
  BY <1>4 DEF Prepare
<1>23. CASE Extract(p)
  BY <1>23 DEF Extract
<1>5. CASE StopService(p)
  BY <1>5 DEF StopService
<1>6. CASE MarkStopped(p)
  BY <1>6 DEF MarkStopped
<1>7. CASE Retain(p)
  BY <1>7 DEF Retain
<1>8. CASE MarkSwapped(p)
  BY <1>8 DEF MarkSwapped
<1>24. CASE ClearStopped(p)
  BY <1>24 DEF ClearStopped
<1>25. CASE Commit(p)
  BY <1>25 DEF Commit
<1>9. CASE Install(p)
  BY <1>9 DEF Install
<1>10. CASE Start(p)
  BY <1>10 DEF Start
<1>11. CASE Verify(p)
  BY <1>11 DEF Verify
<1>12. CASE GiveUp(p)
  BY <1>12 DEF GiveUp
<1>13. CASE RollbackStop(p)
  BY <1>13 DEF RollbackStop
<1>14. CASE RollbackDiscard(p)
  BY <1>14 DEF RollbackDiscard
<1>15. CASE RollbackRestore(p)
  BY <1>15 DEF RollbackRestore, RollbackEnds
<1>16. CASE RollbackStart(p)
  BY <1>16 DEF RollbackStart, RollbackEnds
<1>17. CASE RollbackVerify(p)
  BY <1>17 DEF RollbackVerify, RollbackEnds
<1>18. CASE Restart(p)
  BY <1>18 DEF Restart
<1>19. CASE Cleanup(p)
  BY <1>19 DEF Cleanup
<1>20. CASE Exit(p)
  BY <1>20 DEF Exit
<1>21. CASE KillEarly(p)
  BY <1>21 DEF KillEarly
<1>22. CASE Interrupt(p)
  BY <1>22 DEF Interrupt
<1> QED
  BY <1>1, <1>2, <1>3, <1>4, <1>5, <1>6, <1>7, <1>8, <1>9, <1>10, <1>11,
  <1>12, <1>13, <1>14, <1>15, <1>16, <1>17, <1>18, <1>19, <1>20, <1>21, <1>22, <1>23, <1>24, <1>25
     DEF Run, Deploy, Rollback

(* IInv is inductive. *)
LEMMA StepIInv == IInv /\ [Next]_vars => IInv'
<1>1. ASSUME IInv, Next  PROVE IInv'
  <2>1. PICK p \in Installers : Run(p) \/ KillEarly(p) \/ Interrupt(p)
    BY <1>1 DEF Next
  <2> QED
    BY <1>1, <2>1, TypeStep, LockStep, SwapStep DEF IInv
<1>2. ASSUME IInv, UNCHANGED vars  PROVE IInv'
  BY <1>2 DEF vars, IInv, TypeOK, LockIsOwn, Holds, SwapIsLast
<1> QED
  BY <1>1, <1>2

(* Type correctness of the installers. *)
THEOREM TypeCorrect == Spec => []TypeOK
<1>1. IInv => TypeOK
  BY DEF IInv
<1> QED
  BY <1>1, InitIInv, StepIInv, PTL DEF Spec

(* However many installers run and whichever commands fail: until a signal *)
(* handler runs, who works on the host is the one who made lock_dir.       *)
THEOREM OneAtATimeCorrect == Spec => []OneAtATime
<1>1. IInv => OneAtATime
  BY DEF IInv, LockIsOwn, Holds, OneAtATime
<1> QED
  BY <1>1, InitIInv, StepIInv, PTL DEF Spec


--------------------------------------------------------------------------------
(* The status an installer prints is true, where the two commands whose    *)
(* failure rollback() ignores work.                                        *)
RollbackWorks == {"rb_stop", "rb_discard"} \cap Failing = {}

(* A handler runs only after a signal. *)
TrappedBySignal == \A p \in Installers : trapping[p] => signals[p] > 0

(* Between two commands of the one that holds the lock, and when nobody    *)
(* does, the service that runs is the application in place.                *)
ServesRoot == running \in {None, root}

(* Where the previous release and the candidate are at each command. *)
Placed(p) ==
  /\ pc[p] \in {"trap", "prepare", "extract", "stop", "stopped", "retain", "rb_start",
                "rb_verify"} => root = before[p]
  /\ pc[p] \in {"stopped", "retain", "swap", "swapped", "install", "start",
                "rb_discard", "rb_restore", "rb_start"} => running = None
  /\ pc[p] \in {"swap", "swapped", "install", "start", "verify", "passed", "rb_stop",
                "rb_discard", "rb_restore"} => backup[p] = before[p]
  /\ pc[p] \in {"swap", "swapped", "install", "rb_restore"} => root = None
  /\ pc[p] \in {"start", "verify", "passed"} => root = p
  /\ pc[p] = "passed" => running = p
  /\ pc[p] \in {"rb_stop", "rb_discard"} => root \in {None, p}
  /\ pc[p] = "give_up" =>
       IF swapped[p] THEN backup[p] = before[p] /\ root \in {None, p}
                     ELSE root = before[p]

(* What the script's variables say there. *)
Noted(p) ==
  /\ pc[p] \in {"swapped", "install", "start", "verify", "passed", "rb_stop",
                "rb_discard", "rb_restore", "rb_start", "rb_verify"} => swapped[p]
  /\ pc[p] \in {"check", "lock", "trap", "prepare", "extract", "stop", "stopped",
                "retain"} => backup[p] = None
  /\ pc[p] \in {"check", "lock"} \cup Working =>
       status[p] = IF pc[p] = "passed" THEN "deployed" ELSE "none"

Truthful(p) ==
  /\ status[p] = "deployed" => root = p /\ running = p /\ backup[p] = before[p]
  /\ status[p] = "rolled_back" => root = before[p] /\ running = before[p]
  /\ status[p] = "not_applied" => root = before[p]
  /\ swapped[p] => status[p] \in {"rolled_back", "rollback_failed"}
ExitTells(p) == pc[p] = "exit" /\ exitTrap[p] => Truthful(p)

(* A release that was deployed is in place, or a later installer kept it. *)
Kept == \A p \in Installers : status[p] = "deployed" =>
          root = p \/ \E q \in Installers : backup[q] = p

Honest ==
  Undisturbed =>
    /\ ServesRoot /\ Kept
    /\ \A p \in Installers : Placed(p) /\ Noted(p) /\ ExitTells(p)

LEMMA InitHonest == Init => TrappedBySignal /\ Honest
BY NamesAssumption
   DEF Init, TrappedBySignal, Honest, ServesRoot, Kept, Placed, Noted, ExitTells,
       Working

(* Only signals bring an installer to its handler, and they are counted.   *)
LEMMA SignalStep ==
  ASSUME IInv, TrappedBySignal, NEW p \in Installers,
         Run(p) \/ KillEarly(p) \/ Interrupt(p)
  PROVE  /\ TrappedBySignal'
         /\ Undisturbed' => Undisturbed /\ Run(p)
<1>1. ASSUME Run(p) PROVE UNCHANGED <<trapping, signals>>
  BY <1>1 DEF Run, Deploy, Rollback, Check, Lock, SetTraps, Prepare, Extract,
     StopService, MarkStopped, Retain, MarkSwapped, ClearStopped, Install, Start, Verify, Commit, GiveUp,
     RollbackStop, RollbackDiscard, RollbackRestore, RollbackStart, RollbackVerify,
     Restart, Cleanup, Exit, RollbackEnds, trapVars
<1>2. ASSUME KillEarly(p) \/ Interrupt(p) PROVE signals' = [signals EXCEPT ![p] = @ + 1]
  BY <1>2 DEF KillEarly, Interrupt, Sets
<1>3. ASSUME KillEarly(p) \/ Interrupt(p)
      PROVE  \A q \in Installers : trapping'[q] => trapping[q] \/ q = p
  BY <1>3 DEF KillEarly, Interrupt, Sets, trapVars, IInv, TypeOK
<1>4. signals \in [Installers -> Nat]
  BY SignalsAssumption DEF IInv, TypeOK
<1> QED
  BY <1>1, <1>2, <1>3, <1>4 DEF TrappedBySignal, Undisturbed

(* A step of one installer is none of another's, and without the lock it   *)
(* does nothing to the host.                                               *)
LEMMA OwnStep ==
  ASSUME IInv, NEW p \in Installers, Run(p)
  PROVE  /\ \A q \in Installers \ {p} :
              /\ pc'[q] = pc[q] /\ backup'[q] = backup[q] /\ before'[q] = before[q]
              /\ status'[q] = status[q] /\ swapped'[q] = swapped[q]
              /\ exitTrap'[q] = exitTrap[q] /\ serviceStopped'[q] = serviceStopped[q]
              /\ trapping'[q] = trapping[q] /\ excused'[q] = excused[q]
         /\ pc[p] \notin Working => root' = root /\ running' = running
         /\ pc[p] \notin Working /\ pc'[p] \in Working => lock' = p
         /\ lock' \in {lock, p, None}
<1> USE DEF IInv, TypeOK, Working, Leaving, At, Goto, Sets, Says, Excuses, hostVars, flagVars,
  trapVars, observed
<1>1. CASE Check(p)
  BY <1>1 DEF Check
<1>2. CASE Lock(p)
  BY <1>2 DEF Lock, Sees
<1>3. CASE SetTraps(p)
  BY <1>3 DEF SetTraps
<1>4. CASE Prepare(p)
  BY <1>4 DEF Prepare
<1>5. CASE Extract(p)
  BY <1>5 DEF Extract
<1>6. CASE StopService(p)
  BY <1>6 DEF StopService, Stops, StopFails
<1>7. CASE MarkStopped(p)
  BY <1>7 DEF MarkStopped
<1>8. CASE Retain(p)
  BY <1>8 DEF Retain, Starts, StartFails
<1>9. CASE MarkSwapped(p)
  BY <1>9 DEF MarkSwapped
<1>24. CASE ClearStopped(p)
  BY <1>24 DEF ClearStopped
<1>25. CASE Commit(p)
  BY <1>25 DEF Commit
<1>10. CASE Install(p)
  BY <1>10 DEF Install
<1>11. CASE Start(p)
  BY <1>11 DEF Start, Starts, StartFails
<1>12. CASE Verify(p)
  BY <1>12 DEF Verify
<1>13. CASE GiveUp(p)
  BY <1>13 DEF GiveUp
<1>14. CASE RollbackStop(p)
  BY <1>14 DEF RollbackStop, Stops, StopFails
<1>15. CASE RollbackDiscard(p)
  BY <1>15 DEF RollbackDiscard
<1>16. CASE RollbackRestore(p)
  BY <1>16 DEF RollbackRestore, RollbackEnds
<1>17. CASE RollbackStart(p)
  BY <1>17 DEF RollbackStart, Starts, StartFails, RollbackEnds
<1>18. CASE RollbackVerify(p)
  BY <1>18 DEF RollbackVerify, RollbackEnds
<1>19. CASE Restart(p)
  BY <1>19 DEF Restart, Starts, StartFails
<1>20. CASE Cleanup(p)
  BY <1>20 DEF Cleanup
<1>21. CASE Exit(p)
  BY <1>21 DEF Exit
<1> QED
  BY <1>1, <1>2, <1>3, <1>4, <1>5, <1>6, <1>7, <1>8, <1>9, <1>10, <1>11, <1>12, <1>13,
     <1>14, <1>15, <1>16, <1>17, <1>18, <1>19, <1>20, <1>21, <1>24, <1>25
     DEF Run, Deploy, Rollback

(* What one installer relies on, another does not disturb. *)
LEMMA OthersHonest ==
  ASSUME IInv, TrappedBySignal, Undisturbed, Honest, NEW p \in Installers, Run(p),
         NEW q \in Installers \ {p}
  PROVE  Placed(q)' /\ Noted(q)' /\ ExitTells(q)'
<1>1. \A r \in Installers : Holds(r)
  BY SignalsAssumption DEF IInv, TypeOK, LockIsOwn, TrappedBySignal, Undisturbed
<1>2. Placed(q) /\ Noted(q) /\ ExitTells(q)
  BY DEF Honest
<1>3. Noted(q)'
  BY <1>2, OwnStep DEF Noted
<1>4. CASE pc[q] \in Working \/ (pc[q] = "exit" /\ exitTrap[q])
  <2>1. pc[p] \notin Working
    BY <1>1, <1>4 DEF Holds
  <2>2. root' = root /\ running' = running
    BY <2>1, OwnStep
  <2> QED
    BY <1>2, <1>3, <2>2, OwnStep DEF Placed, ExitTells, Truthful
<1>5. CASE ~(pc[q] \in Working \/ (pc[q] = "exit" /\ exitTrap[q]))
  BY <1>3, <1>5, OwnStep DEF Placed, ExitTells, Working
<1> QED
  BY <1>4, <1>5

(* What an installer relies on after each of its own commands. *)
LEMMA OwnHonest ==
  ASSUME RollbackWorks, IInv, TrappedBySignal, Undisturbed, Honest,
         NEW p \in Installers, Run(p)
  PROVE  ServesRoot' /\ Placed(p)' /\ Noted(p)' /\ ExitTells(p)'
<1>1. ~trapping[p] /\ Holds(p)
  BY SignalsAssumption DEF IInv, TypeOK, LockIsOwn, TrappedBySignal, Undisturbed
<1>2. ServesRoot /\ Placed(p) /\ Noted(p) /\ ExitTells(p)
  BY DEF Honest
<1> USE <1>1, <1>2, NamesAssumption
    DEF RollbackWorks, IInv, TypeOK, Release, SwapIsLast, BeforeSwap, ServesRoot,
        Placed, Noted, ExitTells, Truthful, Working, Leaving, Labels, At, Goto, Sets,
        Says, hostVars, flagVars, trapVars, observed
<1>3. CASE Check(p)
  BY <1>3 DEF Check
<1>4. CASE Lock(p)
  BY <1>4 DEF Lock, Sees
<1>5. CASE SetTraps(p)
  BY <1>5 DEF SetTraps
<1>6. CASE Prepare(p)
  BY <1>6 DEF Prepare
<1>7. CASE Extract(p)
  BY <1>7 DEF Extract
<1>8. CASE StopService(p)
  BY <1>8 DEF StopService, Stops, StopFails
<1>9. CASE MarkStopped(p)
  BY <1>9 DEF MarkStopped
<1>10. CASE Retain(p)
  BY <1>10 DEF Retain, Starts, StartFails
<1>11. CASE MarkSwapped(p)
  BY <1>11 DEF MarkSwapped
<1>24. CASE ClearStopped(p)
  BY <1>24 DEF ClearStopped
<1>25. CASE Commit(p)
  BY <1>25 DEF Commit
<1>12. CASE Install(p)
  BY <1>12 DEF Install
<1>13. CASE Start(p)
  BY <1>13 DEF Start, Starts, StartFails
<1>14. CASE Verify(p)
  BY <1>14 DEF Verify
<1>15. CASE GiveUp(p)
  BY <1>15 DEF GiveUp
<1>16. CASE RollbackStop(p)
  BY <1>16 DEF RollbackStop, Stops, StopFails
<1>17. CASE RollbackDiscard(p)
  BY <1>17 DEF RollbackDiscard
<1>18. CASE RollbackRestore(p)
  BY <1>18 DEF RollbackRestore, RollbackEnds
<1>19. CASE RollbackStart(p)
  <2>1. CASE pc'[p] = "rb_verify"
    BY <1>19, <2>1 DEF RollbackStart, Starts, RollbackEnds
  <2>2. CASE pc'[p] # "rb_verify"
    <3>1. /\ UNCHANGED <<root, running, lock, backup, swapped, exitTrap, before>>
          /\ pc'[p] = "exit" /\ status'[p] = "rollback_failed"
      BY <1>19, <2>2 DEF RollbackStart, StartFails, RollbackEnds
    <3> QED
      BY <3>1
  <2> QED
    BY <2>1, <2>2
<1>20. CASE RollbackVerify(p)
  BY <1>20 DEF RollbackVerify, RollbackEnds
<1>21. CASE Restart(p)
  BY <1>21 DEF Holds, Restart, Starts, StartFails
<1>22. CASE Cleanup(p)
  BY <1>22 DEF Cleanup, Holds
<1>23. CASE Exit(p)
  BY <1>23 DEF Exit, Holds
<1> QED
  BY <1>3, <1>4, <1>5, <1>6, <1>7, <1>8, <1>9, <1>10, <1>11, <1>12, <1>13, <1>14, <1>15,
     <1>16, <1>17, <1>18, <1>19, <1>20, <1>21, <1>22, <1>23, <1>24, <1>25
     DEF Run, Deploy, Rollback

(* A release that was deployed is moved away only as a later one's backup.  *)
LEMMA OwnKept ==
  ASSUME IInv, TrappedBySignal, Undisturbed, Honest, NEW p \in Installers, Run(p)
  PROVE  Kept'
<1>1. ~trapping[p]
  BY SignalsAssumption DEF IInv, TypeOK, TrappedBySignal, Undisturbed
<1>2. Kept /\ Placed(p) /\ Noted(p)
  BY DEF Honest
<1> USE <1>1, <1>2, NamesAssumption
    DEF Kept, Placed, Noted, IInv, TypeOK, Working, Release, At, Goto, Sets, Says,
        hostVars, flagVars, trapVars, observed
<1>3. CASE Check(p)
  BY <1>3 DEF Check
<1>4. CASE Lock(p)
  BY <1>4 DEF Lock, Sees
<1>5. CASE SetTraps(p)
  BY <1>5 DEF SetTraps
<1>6. CASE Prepare(p)
  BY <1>6 DEF Prepare
<1>7. CASE Extract(p)
  BY <1>7 DEF Extract
<1>8. CASE StopService(p)
  BY <1>8 DEF StopService, Stops, StopFails
<1>9. CASE MarkStopped(p)
  BY <1>9 DEF MarkStopped
<1>10. CASE Retain(p)
  BY <1>10 DEF Retain, Starts, StartFails
<1>11. CASE MarkSwapped(p)
  BY <1>11 DEF MarkSwapped
<1>24. CASE ClearStopped(p)
  BY <1>24 DEF ClearStopped
<1>25. CASE Commit(p)
  BY <1>25 DEF Commit
<1>12. CASE Install(p)
  BY <1>12 DEF Install
<1>13. CASE Start(p)
  BY <1>13 DEF Start, Starts, StartFails
<1>14. CASE Verify(p)
  BY <1>14 DEF Verify
<1>15. CASE GiveUp(p)
  BY <1>15 DEF GiveUp
<1>16. CASE RollbackStop(p)
  BY <1>16 DEF RollbackStop, Stops, StopFails
<1>17. CASE RollbackDiscard(p)
  BY <1>17 DEF RollbackDiscard
<1>18. CASE RollbackRestore(p)
  BY <1>18 DEF RollbackRestore, RollbackEnds
<1>19. CASE RollbackStart(p)
  BY <1>19 DEF RollbackStart, Starts, StartFails, RollbackEnds
<1>20. CASE RollbackVerify(p)
  BY <1>20 DEF RollbackVerify, RollbackEnds
<1>21. CASE Restart(p)
  BY <1>21 DEF Restart, Starts, StartFails
<1>22. CASE Cleanup(p)
  BY <1>22 DEF Cleanup
<1>23. CASE Exit(p)
  BY <1>23 DEF Exit
<1> QED
  BY <1>3, <1>4, <1>5, <1>6, <1>7, <1>8, <1>9, <1>10, <1>11, <1>12, <1>13, <1>14, <1>15,
     <1>16, <1>17, <1>18, <1>19, <1>20, <1>21, <1>22, <1>23, <1>24, <1>25
     DEF Run, Deploy, Rollback

(* The invariant of the statuses that are printed, and that it is one. *)
StatusInv == RollbackWorks /\ IInv /\ TrappedBySignal /\ Honest

LEMMA StepStatusInv == StatusInv /\ [Next]_vars => StatusInv'
<1>1. ASSUME StatusInv, Next PROVE StatusInv'
  <2>1. PICK p \in Installers : Run(p) \/ KillEarly(p) \/ Interrupt(p)
    BY <1>1 DEF Next
  <2>2. IInv' /\ TrappedBySignal' /\ (Undisturbed' => Undisturbed /\ Run(p))
    BY <1>1, <2>1, StepIInv, SignalStep DEF StatusInv
  <2>3. ASSUME Undisturbed', NEW q \in Installers
        PROVE  ServesRoot' /\ Kept' /\ Placed(q)' /\ Noted(q)' /\ ExitTells(q)'
    BY <1>1, <2>2, <2>3, OwnHonest, OwnKept, OthersHonest DEF StatusInv
  <2> QED
    BY <1>1, <2>1, <2>2, <2>3 DEF StatusInv, Honest, RollbackWorks
<1>2. ASSUME StatusInv, UNCHANGED vars PROVE StatusInv'
  BY <1>2, StepIInv
     DEF vars, StatusInv, RollbackWorks, TrappedBySignal, Honest, Undisturbed,
         ServesRoot, Kept, Placed, Noted, ExitTells, Truthful
<1> QED
  BY <1>1, <1>2

LEMMA StatusInvariant == RollbackWorks /\ Spec => []StatusInv
<1>1. RollbackWorks /\ Init => StatusInv
  BY InitIInv, InitHonest DEF StatusInv
<1> QED
  BY <1>1, StepStatusInv, PTL DEF Spec

(* Without signals, what an installer prints is what it leaves behind,     *)
(* whichever of the other commands fail and however many installers run.   *)
LEMMA InstallerStatusIsHonest == RollbackWorks /\ Spec => []StatusIsHonest
<1>1. StatusInv => StatusIsHonest
  BY SignalsAssumption
     DEF StatusInv, IInv, TypeOK, TrappedBySignal, Honest, ExitTells, Truthful,
         Undisturbed, StatusIsHonest, Ending, At
<1> QED
  BY <1>1, StatusInvariant, PTL

--------------------------------------------------------------------------------
(* What a signal leaves behind, where nobody else received one.            *)

(* No other installer than p received a signal. *)
OnlySignalled(p) == \A q \in Installers \ {p} : signals[q] = 0

(* What the host looks like to the holder of the lock, command by command. *)
Undoable(p) == swapped[p] /\ backup[p] = before[p]
Unswapped(p) == ~swapped[p] /\ status[p] # "deployed" /\ root = before[p]
Serving(p) == running = before[p] \/ (running = None /\ serviceStopped[p])

HostAt(p) ==
  /\ pc[p] \in {"trap", "prepare", "extract", "stop"} =>
       Unswapped(p) /\ running = before[p]
  /\ pc[p] \in {"stopped", "retain"} => Unswapped(p) /\ running = None
  /\ pc[p] \in {"retain", "restart"} => serviceStopped[p]
  /\ pc[p] = "swap" => ~swapped[p] /\ backup[p] = before[p]
  /\ pc[p] \in {"swap", "swapped", "install", "rb_restore"} =>
       root = None /\ running = None
  /\ pc[p] \in {"swapped", "install", "start", "verify", "passed", "rb_stop",
                "rb_discard", "rb_restore"} => Undoable(p)
  /\ pc[p] \in {"start", "verify", "passed"} => root = p
  /\ pc[p] = "start" => running = None
  /\ pc[p] = "verify" => running = p
  /\ pc[p] = "passed" => running = p /\ ~serviceStopped[p] /\ status[p] = "deployed"
  /\ pc[p] \in {"install", "start", "verify"} => ~serviceStopped[p]
  /\ pc[p] = "give_up" => Undoable(p) \/ (Unswapped(p) /\ Serving(p))
  /\ pc[p] \in {"rb_discard", "rb_start"} => running = None
  /\ pc[p] \in {"rb_start", "rb_verify"} => swapped[p] /\ root = before[p]
  /\ pc[p] = "rb_verify" => running = before[p]
  /\ pc[p] = "restart" => Unswapped(p) /\ running \in {None, before[p]}

(* What it leaves behind, without a signal and with one. *)
Committed(p) ==
  ~swapped[p] /\ status[p] = "deployed" /\ ~serviceStopped[p] /\ root = p /\ running = p
Restored(p) == running = before[p] /\ root = before[p]
LeftAt(p) ==
  /\ swapped[p] => backup[p] \in {None, before[p]}
  /\ trapping[p] =>
       pc[p] \in {"rb_stop", "rb_discard", "rb_restore", "rb_start", "rb_verify",
                  "restart", "cleanup", "done"}
  /\ pc[p] = "exit" \/ (pc[p] = "cleanup" /\ ~trapping[p]) =>
       swapped[p] \/ Committed(p) \/ (Unswapped(p) /\ Serving(p))
  /\ pc[p] = "cleanup" /\ trapping[p] =>
       Committed(p) \/ (Restored(p) /\ (~swapped[p] => status[p] # "deployed"))

InHand(p) ==
  OnlySignalled(p) =>
    /\ pc[p] \in {"check", "lock"} =>
         /\ ~trapping[p] /\ ~swapped[p] /\ ~serviceStopped[p] /\ backup[p] = None
         /\ status[p] = "none"
    /\ lock = p => \A q \in Installers \ {p} : pc[q] \notin Working
    /\ lock = p /\ ~excused[p] => before[p] # None /\ HostAt(p) /\ LeftAt(p)

RestoreInv ==
  /\ RollbackWorks /\ IInv /\ TrappedBySignal
  /\ \A p \in Installers : InHand(p)

LEMMA InitInHand == Init => \A p \in Installers : InHand(p)
BY NamesAssumption DEF Init, InHand

(* The winner of the lock finds nobody at work and the host in one piece,  *)
(* or is excused.                                                          *)
LEMMA LockInHand ==
  ASSUME RestoreInv, NEW p \in Installers, OnlySignalled(p), Lock(p), lock' = p
  PROVE  /\ \A q \in Installers \ {p} : pc'[q] \notin Working
         /\ ~excused'[p] => before'[p] # None /\ HostAt(p)' /\ LeftAt(p)'
<1>1. /\ ~trapping[p] /\ ~swapped[p] /\ ~serviceStopped[p] /\ backup[p] = None
      /\ status[p] = "none" /\ pc[p] = "lock"
  BY DEF RestoreInv, InHand, Lock, At
<1>2. \A q \in Installers : ~trapping[q]
  BY <1>1, SignalsAssumption DEF RestoreInv, TrappedBySignal, OnlySignalled, IInv, TypeOK
<1>3. \A q \in Installers \ {p} : pc[q] \in Working => lock = q
  BY <1>2 DEF RestoreInv, IInv, LockIsOwn, Holds
<1>4. \A q \in Installers \ {p} : pc'[q] = pc[q]
  BY OwnStep DEF RestoreInv, Run, Deploy
<1>5. CASE lock = None
  <2>1. /\ UNCHANGED <<root, running, backup, swapped, serviceStopped, status, trapping>>
        /\ pc'[p] = "trap" /\ before'[p] = root
        /\ excused'[p] = (excused[p] \/ root = None \/ running # root)
    BY <1>5 DEF Lock, RestoreInv, IInv, TypeOK, Sees, Sets, Excuses, Goto, hostVars,
       flagVars, trapVars
  <2>2. \A q \in Installers \ {p} : pc'[q] \notin Working
    BY <1>3, <1>4, <1>5, NamesAssumption
  <2>3. ~excused'[p] => before'[p] # None /\ HostAt(p)' /\ LeftAt(p)'
    BY <1>1, <2>1 DEF HostAt, LeftAt, Unswapped
  <2> QED
    BY <2>2, <2>3
<1>6. CASE lock # None
  <2>1. UNCHANGED lock /\ lock = p
    BY <1>6 DEF Lock
  <2>2. /\ pc'[p] = "done" /\ UNCHANGED <<before, backup, swapped, trapping, excused>>
    BY <1>6 DEF Lock, RestoreInv, IInv, TypeOK, Goto, hostVars, flagVars, trapVars
  <2>3. \A q \in Installers \ {p} : pc[q] \notin Working
    BY <2>1 DEF RestoreInv, InHand
  <2>4. ~excused'[p] => before'[p] # None /\ HostAt(p)' /\ LeftAt(p)'
    BY <2>1, <2>2 DEF RestoreInv, InHand, HostAt, LeftAt
  <2> QED
    BY <1>4, <2>3, <2>4
<1> QED
  BY <1>5, <1>6

(* Only Lock takes the lock, and nothing takes an excuse back. *)
LEMMA OwnTakes ==
  ASSUME RestoreInv, NEW p \in Installers,
         Run(p) \/ KillEarly(p) \/ Interrupt(p), ~Lock(p), lock' = p
  PROVE  /\ lock = p
         /\ ~excused'[p] => ~excused[p]
         /\ \A q \in Installers \ {p} : pc'[q] = pc[q]
<1> USE DEF RestoreInv, IInv, TypeOK, At, Goto, Sets, Says, Excuses, hostVars, flagVars,
  trapVars, observed
<1>1. lock' \in {lock, None}
  BY DEF Run, Deploy, Rollback, Check, SetTraps, Prepare, Extract, StopService,
     MarkStopped, Retain, MarkSwapped, ClearStopped, Install, Start, Verify, Commit,
     GiveUp, RollbackStop, RollbackDiscard, RollbackRestore, RollbackStart,
     RollbackVerify, RollbackEnds, Restart, Cleanup, Exit, KillEarly, Interrupt
<1>2. excused' = excused \/ \E why : Excuses(p, why)
  BY DEF Run, Deploy, Rollback, Check, SetTraps, Prepare, Extract, StopService,
     MarkStopped, Retain, MarkSwapped, ClearStopped, Install, Start, Verify, Commit,
     GiveUp, RollbackStop, RollbackDiscard, RollbackRestore, RollbackStart,
     RollbackVerify, RollbackEnds, Restart, Cleanup, Exit, KillEarly, Interrupt
<1>3. \E there : pc' = [pc EXCEPT ![p] = there]
  BY DEF Run, Deploy, Rollback, Check, SetTraps, Prepare, Extract, StopService,
     MarkStopped, Retain, MarkSwapped, ClearStopped, Install, Start, Verify, Commit,
     GiveUp, RollbackStop, RollbackDiscard, RollbackRestore, RollbackStart,
     RollbackVerify, RollbackEnds, Restart, Cleanup, Exit, KillEarly, Interrupt
<1> QED
  BY <1>1, <1>2, <1>3, NamesAssumption

(* Each other command of the holder leaves the host as the next one finds  *)
(* it, and the handler what HandlerRestores says.                          *)
LEMMA OwnInHand ==
  ASSUME RestoreInv, NEW p \in Installers, OnlySignalled(p),
         Run(p) \/ KillEarly(p) \/ Interrupt(p), ~Lock(p), lock' = p, ~excused'[p]
  PROVE  before'[p] # None /\ HostAt(p)' /\ LeftAt(p)'
<1> USE NamesAssumption
    DEF RollbackWorks, RestoreInv, IInv, TypeOK, Release, HostAt, LeftAt, Undoable,
        Unswapped, Serving, Committed, Restored, Working, Leaving, Labels, At, Goto,
        Sets, Says, Excuses, hostVars, flagVars, trapVars, observed
<1>1. lock = p /\ ~excused[p]
  BY OwnTakes
<1>2. before[p] # None /\ HostAt(p) /\ LeftAt(p)
  BY <1>1 DEF InHand
<1>3. CASE Check(p)
  BY <1>2, <1>3 DEF Check
<1>4. CASE SetTraps(p)
  BY <1>2, <1>4 DEF SetTraps
<1>5. CASE Prepare(p)
  BY <1>2, <1>5 DEF Prepare
<1>6. CASE Extract(p)
  BY <1>2, <1>6 DEF Extract
<1>7. CASE StopService(p)
  <2>1. CASE pc'[p] = "stopped"
    BY <1>2, <1>7, <2>1 DEF StopService, Stops
  <2>2. CASE pc'[p] = "give_up"
    <3>1. running' \in {running, None, root} /\ running' # None
      BY <1>7, <2>2 DEF StopService, StopFails
    <3> QED
      BY <1>2, <1>7, <2>2, <3>1 DEF StopService
  <2> QED
    BY <1>7, <2>1, <2>2 DEF StopService
<1>8. CASE MarkStopped(p)
  BY <1>2, <1>8 DEF MarkStopped
<1>9. CASE Retain(p)
  BY <1>2, <1>9 DEF Retain, Starts, StartFails
<1>10. CASE MarkSwapped(p)
  BY <1>2, <1>10 DEF MarkSwapped
<1>11. CASE ClearStopped(p)
  BY <1>2, <1>11 DEF ClearStopped
<1>12. CASE Install(p)
  BY <1>2, <1>12 DEF Install
<1>13. CASE Start(p)
  BY <1>2, <1>13 DEF Start, Starts, StartFails
<1>14. CASE Verify(p)
  BY <1>2, <1>14 DEF Verify
<1>15. CASE Commit(p)
  BY <1>2, <1>15 DEF Commit
<1>16. CASE GiveUp(p)
  BY <1>2, <1>16 DEF GiveUp
<1>17. CASE RollbackStop(p)
  BY <1>2, <1>17 DEF RollbackStop, Stops, StopFails
<1>18. CASE RollbackDiscard(p)
  BY <1>2, <1>18 DEF RollbackDiscard
<1>19. CASE RollbackRestore(p)
  BY <1>2, <1>19 DEF RollbackRestore, RollbackEnds
<1>20. CASE RollbackStart(p)
  BY <1>2, <1>20 DEF RollbackStart, Starts, StartFails, RollbackEnds
<1>21. CASE RollbackVerify(p)
  BY <1>2, <1>21 DEF RollbackVerify, RollbackEnds
<1>22. CASE Restart(p)
  BY <1>2, <1>22 DEF Restart, Starts, StartFails
<1>23. CASE Cleanup(p)
  BY <1>2, <1>23 DEF Cleanup
<1>24. CASE Exit(p)
  BY <1>2, <1>24 DEF Exit
<1>25. CASE KillEarly(p)
  BY <1>2, <1>25 DEF KillEarly
<1>26. CASE Interrupt(p)
  <2>1. /\ ~Behind(p) /\ trapping'[p] /\ lock = p
        /\ UNCHANGED <<root, running, backup, swapped, serviceStopped, status, before>>
        /\ pc[p] \in (Working \ {"trap"}) \cup Leaving
        /\ pc'[p] = IF swapped[p] THEN "rb_stop"
                    ELSE IF serviceStopped[p] THEN "restart" ELSE "cleanup"
    BY <1>1, <1>26 DEF Interrupt
  <2>2. CASE swapped[p]
    BY <1>2, <2>1, <2>2 DEF Behind
  <2>3. CASE ~swapped[p] /\ serviceStopped[p]
    BY <1>2, <2>1, <2>3 DEF Behind
  <2>4. CASE ~swapped[p] /\ ~serviceStopped[p]
    BY <1>2, <2>1, <2>4 DEF Behind
  <2> QED
    BY <2>2, <2>3, <2>4
<1> QED
  BY <1>3, <1>4, <1>5, <1>6, <1>7, <1>8, <1>9, <1>10, <1>11, <1>12, <1>13, <1>14, <1>15, <1>16, <1>17, <1>18, <1>19, <1>20, <1>21, <1>22, <1>23, <1>24, <1>25, <1>26 DEF Run, Deploy, Rollback

--------------------------------------------------------------------------------
(* Another installer does nothing to the host while p holds the lock. *)
LEMMA OthersInHand ==
  ASSUME RestoreInv, NEW p \in Installers, OnlySignalled(p),
         NEW q \in Installers \ {p}, Run(q)
  PROVE  InHand(p)'
<1> USE DEF OnlySignalled
<1>1. /\ pc'[p] = pc[p] /\ backup'[p] = backup[p] /\ before'[p] = before[p]
      /\ status'[p] = status[p] /\ swapped'[p] = swapped[p]
      /\ serviceStopped'[p] = serviceStopped[p] /\ trapping'[p] = trapping[p]
      /\ excused'[p] = excused[p]
      /\ \A o \in Installers \ {q} : pc'[o] = pc[o]
      /\ pc[q] \notin Working => root' = root /\ running' = running
      /\ pc[q] \notin Working /\ pc'[q] \in Working => lock' = q
      /\ lock' \in {lock, q, None}
  BY OwnStep DEF RestoreInv
<1>2. InHand(p)
  BY DEF RestoreInv
<1>3. CASE lock' = p
  <2>1. lock = p /\ pc[q] \notin Working
    BY <1>1, <1>2, <1>3, NamesAssumption DEF InHand
  <2>2. UNCHANGED <<root, running>> /\ pc'[q] \notin Working
    BY <1>1, <1>3, <2>1
  <2> QED
    BY <1>1, <1>2, <2>1, <2>2
       DEF InHand, HostAt, LeftAt, Undoable, Unswapped, Serving, Committed, Restored
<1>4. CASE lock' # p
  BY <1>1, <1>2, <1>4 DEF InHand
<1> QED
  BY <1>3, <1>4

(* No step comes back to the first two commands. *)
LEMMA FirstCommands ==
  ASSUME RestoreInv, NEW p \in Installers, OnlySignalled(p),
         Run(p) \/ KillEarly(p) \/ Interrupt(p), pc'[p] \in {"check", "lock"}
  PROVE  /\ ~trapping'[p] /\ ~swapped'[p] /\ ~serviceStopped'[p]
         /\ backup'[p] = None /\ status'[p] = "none"
<1>1. Check(p) /\ pc'[p] = "lock"
  BY DEF RestoreInv, IInv, TypeOK, Run, Deploy, Rollback, Lock, SetTraps, Prepare,
     Extract, StopService, MarkStopped, Retain, MarkSwapped, ClearStopped, Install,
     Start, Verify, Commit, GiveUp, RollbackStop, RollbackDiscard, RollbackRestore,
     RollbackStart, RollbackVerify, RollbackEnds, Restart, Cleanup, Exit, KillEarly,
     Interrupt, Check, At, Goto
<1> QED
  BY <1>1 DEF RestoreInv, InHand, Check, At, Goto, IInv, TypeOK, hostVars, flagVars,
     trapVars

LEMMA StepRestoreInv == RestoreInv /\ [Next]_vars => RestoreInv'
<1>1. ASSUME RestoreInv, Next PROVE RestoreInv'
  <2>1. PICK q \in Installers : Run(q) \/ KillEarly(q) \/ Interrupt(q)
    BY <1>1 DEF Next
  <2>2. IInv' /\ TrappedBySignal' /\ RollbackWorks'
    BY <1>1, <2>1, StepIInv, SignalStep DEF RestoreInv, RollbackWorks
  <2>3. ASSUME NEW p \in Installers, OnlySignalled(p)' PROVE InHand(p)'
    <3>1. OnlySignalled(p) /\ (q # p => Run(q))
      <4>1. Run(q) => UNCHANGED signals
        BY DEF Run, Deploy, Rollback, Check, Lock, SetTraps, Prepare, Extract,
           StopService, MarkStopped, Retain, MarkSwapped, ClearStopped, Install, Start,
           Verify, Commit, GiveUp, RollbackStop, RollbackDiscard, RollbackRestore,
           RollbackStart, RollbackVerify, Restart, Cleanup, Exit
      <4>2. KillEarly(q) \/ Interrupt(q) => signals' = [signals EXCEPT ![q] = @ + 1]
        BY DEF KillEarly, Interrupt, Sets
      <4> QED
        BY <1>1, <2>1, <2>3, <4>1, <4>2, SignalsAssumption
           DEF RestoreInv, IInv, TypeOK, OnlySignalled
    <3>2. CASE q # p
      BY <1>1, <3>1, <3>2, OthersInHand
    <3>3. CASE q = p /\ Lock(p)
      BY <1>1, <2>1, <3>1, <3>3, LockInHand, FirstCommands DEF InHand
    <3>4. CASE q = p /\ ~Lock(p)
      <4>1. lock' = p => lock = p /\ \A o \in Installers \ {p} : pc'[o] = pc[o]
        BY <1>1, <2>1, <3>4, OwnTakes
      <4>2. lock' = p => \A o \in Installers \ {p} : pc'[o] \notin Working
        BY <1>1, <3>1, <4>1 DEF RestoreInv, InHand
      <4> QED
        BY <1>1, <2>1, <3>1, <3>4, <4>2, OwnInHand, FirstCommands DEF InHand
    <3> QED
      BY <3>2, <3>3, <3>4
  <2>4. ASSUME NEW p \in Installers, ~OnlySignalled(p)' PROVE InHand(p)'
    BY <2>4 DEF InHand
  <2> QED
    BY <2>2, <2>3, <2>4 DEF RestoreInv
<1>2. ASSUME RestoreInv, UNCHANGED vars PROVE RestoreInv'
  <2>1. IInv'
    BY <1>2, StepIInv DEF RestoreInv
  <2> QED
    BY <1>2, <2>1
       DEF vars, RestoreInv, RollbackWorks, TrappedBySignal, InHand, OnlySignalled,
           HostAt, LeftAt, Undoable, Unswapped, Serving, Committed, Restored
<1> QED
  BY <1>1, <1>2

LEMMA InstallerRestores == RollbackWorks /\ Spec => []HandlerRestores
<1>1. RollbackWorks /\ Init => RestoreInv
  BY InitIInv, InitHonest, InitInHand DEF RestoreInv
<1>2. RestoreInv => HandlerRestores
  BY DEF RestoreInv, InHand, OnlySignalled, LeftAt, Committed, Restored,
     HandlerRestores, At
<1> QED
  BY <1>1, <1>2, StepRestoreInv, PTL DEF Spec

--------------------------------------------------------------------------------
(* The Mac: what holds of any run of MacSwap within a deployment.          *)

(* What each command relies on without testing it.  "main # Old" while the *)
(* candidate is tried is why the forced removal never hits the old one.    *)
MacPhases ==
  /\ retained # New
  /\ "remove" \notin MacTorn /\ label # "done" => Old \in {main, retained}
  /\ label \in {"stop", "rename"} => main = Old /\ ~renamed /\ request = "none"
  /\ label = "stop" => Old \in up /\ ~oldStopped
  /\ label = "rename" => oldStopped
  /\ label \in M!Awaiting /\ request = "served" => main = New
  /\ label \in {"start", "wait", "verify", "remove"} => main = New
  /\ label \in M!Awaiting \cup {"start", "wait", "verify", "remove", "r_remove"}
       => main # Old /\ renamed
  /\ label = "remove" => verified
  /\ label # "done" => outcome = "none" /\ rollback = "none"
  /\ label = "r_start" => main = Old \/ (main = None /\ request = "none")
  /\ label \in {"r_wait", "r_verify"} => main = Old

MacInv == M!ContainersDiffer /\ M!TypeOK /\ MacPhases /\ M!NeverLost /\ M!ReportIsHonest

(* The strengthened invariant holds before the old container is stopped.   *)
LEMMA InitMacInv == M!ContainersDiffer /\ M!Init => MacInv
  BY DEF M!ContainersDiffer, M!Init, MacInv, M!TypeOK, M!DockerTypeOK,
     M!FlagsTypeOK, M!Exclusive, M!ReportTypeOK, M!Labels, MacPhases,
     M!NeverLost, M!ReportIsHonest,
     M!Containers, M!Awaiting, M!Recovering

(* The steps of runMacSwapTransaction keep it.                             *)
LEMMA SwapKeeps == MacInv /\ M!Swap => MacInv'
<1> SUFFICES ASSUME MacInv, M!Swap PROVE MacInv'
  OBVIOUS
<1> USE DEF MacInv, M!ContainersDiffer, M!TypeOK, M!DockerTypeOK, M!FlagsTypeOK,
     M!Exclusive, M!ReportTypeOK, M!Labels, MacPhases, M!NeverLost, M!ReportIsHonest,
     M!Containers, M!Awaiting, M!Recovering, M!docker, M!flags, M!signals, M!report,
     M!GiveUp, M!Fails, M!Recover, M!Conclude, M!Continue
<1>1. CASE M!StopPrevious
  <2>1. M!TypeOK'
    <3>1. M!DockerTypeOK' /\ M!ReportTypeOK'
      BY <1>1 DEF M!StopPrevious, M!Stop
    <3>2. M!FlagsTypeOK'
      BY <1>1 DEF M!StopPrevious, M!Stop
    <3>3. M!Exclusive'
      BY <1>1 DEF M!StopPrevious, M!Stop
    <3>4. label' \in M!Labels
      BY <1>1 DEF M!StopPrevious, M!Stop
    <3>5. QED
      BY <3>1, <3>2, <3>3, <3>4
  <2>2. MacPhases'
    BY <1>1 DEF M!StopPrevious, M!Stop
  <2>3. M!NeverLost'
    BY <1>1 DEF M!StopPrevious, M!Stop
  <2>4. M!ReportIsHonest'
    BY <1>1 DEF M!StopPrevious, M!Stop
  <2>5. QED
    BY <2>1, <2>2, <2>3, <2>4
<1>2. CASE M!RenamePrevious
  <2>1. M!TypeOK'
    <3>1. M!DockerTypeOK' /\ M!ReportTypeOK'
      BY <1>2 DEF M!RenamePrevious, M!CanRename, M!RenameAway
    <3>2. M!FlagsTypeOK'
      BY <1>2 DEF M!RenamePrevious, M!CanRename, M!RenameAway
    <3>3. M!Exclusive'
      BY <1>2 DEF M!RenamePrevious, M!CanRename, M!RenameAway
    <3>4. label' \in M!Labels
      BY <1>2 DEF M!RenamePrevious, M!CanRename, M!RenameAway
    <3>5. QED
      BY <3>1, <3>2, <3>3, <3>4
  <2>2. MacPhases'
    BY <1>2 DEF M!RenamePrevious, M!CanRename, M!RenameAway
  <2>3. M!NeverLost'
    BY <1>2 DEF M!RenamePrevious, M!CanRename, M!RenameAway
  <2>4. M!ReportIsHonest'
    BY <1>2 DEF M!RenamePrevious, M!CanRename, M!RenameAway
  <2>5. QED
    BY <2>1, <2>2, <2>3, <2>4
<1>3. CASE M!AskVersion
  BY <1>3 DEF M!AskVersion
<1>4. CASE M!Created
  BY <1>4 DEF M!Created
<1>5. CASE M!StartCandidate
  <2>1. M!TypeOK'
    <3>1. M!DockerTypeOK' /\ M!ReportTypeOK'
      BY <1>5 DEF M!StartCandidate, M!CanStart, M!StartMain
    <3>2. M!FlagsTypeOK'
      BY <1>5 DEF M!StartCandidate, M!CanStart, M!StartMain
    <3>3. M!Exclusive'
      BY <1>5 DEF M!StartCandidate, M!CanStart, M!StartMain
    <3>4. label' \in M!Labels
      BY <1>5 DEF M!StartCandidate, M!CanStart, M!StartMain
    <3>5. QED
      BY <3>1, <3>2, <3>3, <3>4
  <2>2. MacPhases'
    BY <1>5 DEF M!StartCandidate, M!CanStart, M!StartMain
  <2>3. M!NeverLost'
    BY <1>5 DEF M!StartCandidate, M!CanStart, M!StartMain
  <2>4. M!ReportIsHonest'
    BY <1>5 DEF M!StartCandidate, M!CanStart, M!StartMain
  <2>5. QED
    BY <2>1, <2>2, <2>3, <2>4
<1>6. CASE M!WaitForCandidate
  <2>1. M!TypeOK'
    <3>1. M!DockerTypeOK' /\ M!ReportTypeOK'
      BY <1>6 DEF M!WaitForCandidate
    <3>2. M!FlagsTypeOK'
      BY <1>6 DEF M!WaitForCandidate
    <3>3. M!Exclusive'
      BY <1>6 DEF M!WaitForCandidate
    <3>4. label' \in M!Labels
      BY <1>6 DEF M!WaitForCandidate
    <3>5. QED
      BY <3>1, <3>2, <3>3, <3>4
  <2>2. MacPhases'
    BY <1>6 DEF M!WaitForCandidate
  <2>3. M!NeverLost'
    BY <1>6 DEF M!WaitForCandidate
  <2>4. M!ReportIsHonest'
    BY <1>6 DEF M!WaitForCandidate
  <2>5. QED
    BY <2>1, <2>2, <2>3, <2>4
<1>7. CASE M!VerifyCandidate
  <2>1. M!TypeOK'
    <3>1. M!DockerTypeOK' /\ M!ReportTypeOK'
      BY <1>7 DEF M!VerifyCandidate
    <3>2. M!FlagsTypeOK'
      BY <1>7 DEF M!VerifyCandidate
    <3>3. M!Exclusive'
      BY <1>7 DEF M!VerifyCandidate
    <3>4. label' \in M!Labels
      BY <1>7 DEF M!VerifyCandidate
    <3>5. QED
      BY <3>1, <3>2, <3>3, <3>4
  <2>2. MacPhases'
    BY <1>7 DEF M!VerifyCandidate
  <2>3. M!NeverLost'
    BY <1>7 DEF M!VerifyCandidate
  <2>4. M!ReportIsHonest'
    BY <1>7 DEF M!VerifyCandidate
  <2>5. QED
    BY <2>1, <2>2, <2>3, <2>4
<1>8. CASE M!RemoveRetained
  <2>1. M!TypeOK'
    <3>1. M!DockerTypeOK' /\ M!ReportTypeOK'
      BY <1>8 DEF M!RemoveRetained, M!RemoveBackup
    <3>2. M!FlagsTypeOK'
      BY <1>8 DEF M!RemoveRetained, M!RemoveBackup
    <3>3. M!Exclusive'
      BY <1>8 DEF M!RemoveRetained, M!RemoveBackup
    <3>4. label' \in M!Labels
      BY <1>8 DEF M!RemoveRetained, M!RemoveBackup
    <3>5. QED
      BY <3>1, <3>2, <3>3, <3>4
  <2>2. MacPhases'
    BY <1>8 DEF M!RemoveRetained, M!RemoveBackup
  <2>3. M!NeverLost'
    BY <1>8 DEF M!RemoveRetained, M!RemoveBackup
  <2>4. M!ReportIsHonest'
    BY <1>8 DEF M!RemoveRetained, M!RemoveBackup
  <2>5. QED
    BY <2>1, <2>2, <2>3, <2>4
<1>9. QED
  BY <1>1, <1>2, <1>3, <1>4, <1>5, <1>6, <1>7, <1>8 DEF M!Swap

(* So do the steps of recover().                                           *)
LEMMA RecoveryKeeps == MacInv /\ M!Recovery => MacInv'
<1> SUFFICES ASSUME MacInv, M!Recovery PROVE MacInv'
  OBVIOUS
<1> USE DEF MacInv, M!ContainersDiffer, M!TypeOK, M!DockerTypeOK, M!FlagsTypeOK,
     M!Exclusive, M!ReportTypeOK, M!Labels, MacPhases, M!NeverLost, M!ReportIsHonest,
     M!Containers, M!Awaiting, M!Recovering, M!docker, M!flags, M!signals, M!report,
     M!RecoverFails, M!Fails, M!Conclude, M!Continue
<1>1. CASE M!RemoveCandidate
  <2>1. M!TypeOK'
    <3>1. M!DockerTypeOK' /\ M!ReportTypeOK'
      BY <1>1 DEF M!RemoveCandidate, M!RemoveMain
    <3>2. M!FlagsTypeOK'
      BY <1>1 DEF M!RemoveCandidate, M!RemoveMain
    <3>3. M!Exclusive'
      BY <1>1 DEF M!RemoveCandidate, M!RemoveMain
    <3>4. label' \in M!Labels
      BY <1>1 DEF M!RemoveCandidate, M!RemoveMain
    <3>5. QED
      BY <3>1, <3>2, <3>3, <3>4
  <2>2. MacPhases'
    BY <1>1 DEF M!RemoveCandidate, M!RemoveMain
  <2>3. M!NeverLost'
    BY <1>1 DEF M!RemoveCandidate, M!RemoveMain
  <2>4. M!ReportIsHonest'
    BY <1>1 DEF M!RemoveCandidate, M!RemoveMain
  <2>5. QED
    BY <2>1, <2>2, <2>3, <2>4
<1>2. CASE M!RenameToPrevious
  BY <1>2 DEF M!RenameToPrevious, M!CanRenameBack, M!RenameBack
<1>3. CASE M!StartPrevious
  BY <1>3 DEF M!StartPrevious, M!CanStart, M!StartMain
<1>4. CASE M!WaitForPrevious
  BY <1>4 DEF M!WaitForPrevious
<1>5. CASE M!VerifyPrevious
  <2>1. M!TypeOK'
    <3>1. M!DockerTypeOK' /\ M!ReportTypeOK'
      BY <1>5 DEF M!VerifyPrevious, M!Answers
    <3>2. M!FlagsTypeOK'
      BY <1>5 DEF M!VerifyPrevious, M!Answers
    <3>3. M!Exclusive'
      BY <1>5 DEF M!VerifyPrevious, M!Answers
    <3>4. label' \in M!Labels
      BY <1>5 DEF M!VerifyPrevious, M!Answers
    <3>5. QED
      BY <3>1, <3>2, <3>3, <3>4
  <2>2. MacPhases'
    BY <1>5 DEF M!VerifyPrevious, M!Answers
  <2>3. M!NeverLost'
    BY <1>5 DEF M!VerifyPrevious, M!Answers
  <2>4. M!ReportIsHonest'
    BY <1>5 DEF M!VerifyPrevious, M!Answers
  <2>5. QED
    BY <2>1, <2>2, <2>3, <2>4
<1>6. QED
  BY <1>1, <1>2, <1>3, <1>4, <1>5 DEF M!Recovery

(* So do signals, their handler and Docker's late answers.                 *)
LEMMA MacNextKeeps == MacInv /\ [M!Next]_M!vars => MacInv'
<1> SUFFICES ASSUME MacInv, [M!Next]_M!vars PROVE MacInv'
  OBVIOUS
<1> USE DEF MacInv, M!ContainersDiffer, M!TypeOK, M!DockerTypeOK, M!FlagsTypeOK,
     M!Exclusive, M!ReportTypeOK, M!Labels, MacPhases, M!NeverLost,
     M!ReportIsHonest, M!Containers,
     M!Awaiting, M!Recovering, M!docker, M!flags, M!signals, M!report
<1>1. CASE M!CreateServed
  BY <1>1 DEF M!CreateServed
<1>2. CASE M!Signal
  BY <1>2 DEF M!Signal
<1>3. CASE M!Interrupted
  BY <1>3 DEF M!Interrupted, M!Recover, M!Conclude
<1>4. CASE M!Killed
  BY <1>4 DEF M!Killed
<1>5. CASE UNCHANGED M!vars
  BY <1>5 DEF M!vars
<1>6. QED
  BY <1>1, <1>2, <1>3, <1>4, <1>5, SwapKeeps, RecoveryKeeps DEF M!Next

(* No step of an invocation or an installer touches the Mac. *)
LEMMA MacStep ==
  [DeployNext]_deployVars => ApplyMac \/ UNCHANGED macVars
BY DEF DeployNext, deployVars, ApplyPhone, InstallerRuns, InstallerSignalled, Reading,
   Apart, Local, Acquire, Validate, Stage, Upload, UploadInstaller, Launch, Await, Remove,
   ReleaseLock, Die

LEMMA MacInit == DeployInit => MacInv
BY MacAssumption, InitMacInv DEF DeployInit

LEMMA MacKeeps == MacInv /\ [DeployNext]_deployVars => MacInv'
<1>1. ASSUME MacInv, ApplyMac PROVE MacInv'
  BY <1>1, MacNextKeeps DEF ApplyMac
<1>2. ASSUME MacInv, UNCHANGED macVars PROVE MacInv'
  BY <1>2, MacNextKeeps DEF macVars, M!vars, M!docker, M!flags, M!signals, M!report
<1> QED
  BY <1>1, <1>2, MacStep

LEMMA MacInvariant == DeploySpec => []MacInv
BY MacInit, MacKeeps, PTL DEF DeploySpec

(* What a deployment promises of the Mac, whatever fails or is torn and    *)
(* whenever a signal comes: a gateway is kept, and the report is true.     *)
THEOREM NeverLostCorrect == DeploySpec => []NeverLost
<1>1. MacInv => NeverLost
  BY DEF MacInv, NeverLost
<1> QED
  BY <1>1, MacInvariant, PTL

THEOREM ReportIsHonestCorrect == DeploySpec => []ReportIsHonest
<1>1. MacInv => ReportIsHonest
  BY DEF MacInv, ReportIsHonest
<1> QED
  BY <1>1, MacInvariant, PTL

--------------------------------------------------------------------------------
(* The installers of a deployment take PhoneInstall's steps only. *)
LEMMA InstallerStep == [DeployNext]_deployVars => [Next]_vars
BY DEF DeployNext, deployVars, ApplyPhone, ApplyMac, InstallerRuns,
   InstallerSignalled, Next, Local, Acquire, Validate, Stage, Upload,
   UploadInstaller, Launch, Await, Remove, ReleaseLock, Die

(* So deployments implement the installer alone. *)
THEOREM ImplementsPhoneInstall == DeploySpec => Spec
<1>1. DeployInit => Init
  BY DEF DeployInit
<1> QED
  BY <1>1, InstallerStep, PTL DEF DeploySpec, Spec

(* The Mac's side implements MacSwap. *)
THEOREM ImplementsMacSwap == DeploySpec => M!Spec
<1>1. DeployInit => M!Init
  BY DEF DeployInit
<1>2. [DeployNext]_deployVars => [M!Next]_M!vars
  BY MacStep DEF ApplyMac, macVars, M!vars, M!docker, M!flags, M!signals, M!report
<1> QED
  BY <1>1, <1>2, PTL DEF DeploySpec, M!Spec

--------------------------------------------------------------------------------
(* An installer goes from "check" to the end: what a step of it does to    *)
(* the commands of all, whatever else it does.                             *)
LEMMA CommandStep ==
  ASSUME TypeOK, NEW p \in Installers, Run(p) \/ KillEarly(p) \/ Interrupt(p)
  PROVE  /\ pc[p] # "done"
         /\ \A q \in Installers : q # p => pc'[q] = pc[q]
         /\ pc'[p] \in AtArtifact => pc[p] \in AtArtifact
<1> USE DEF TypeOK, AtArtifact, Working, Leaving, At, Goto
<1>1. CASE Check(p)
  BY <1>1 DEF Check
<1>2. CASE Lock(p)
  BY <1>2 DEF Lock, Sees
<1>3. CASE SetTraps(p)
  BY <1>3 DEF SetTraps
<1>4. CASE Prepare(p)
  BY <1>4 DEF Prepare
<1>5. CASE Extract(p)
  BY <1>5 DEF Extract
<1>6. CASE StopService(p)
  BY <1>6 DEF StopService
<1>7. CASE MarkStopped(p)
  BY <1>7 DEF MarkStopped
<1>8. CASE Retain(p)
  BY <1>8 DEF Retain
<1>9. CASE MarkSwapped(p)
  BY <1>9 DEF MarkSwapped
<1>24. CASE ClearStopped(p)
  BY <1>24 DEF ClearStopped
<1>25. CASE Commit(p)
  BY <1>25 DEF Commit
<1>10. CASE Install(p)
  BY <1>10 DEF Install
<1>11. CASE Start(p)
  BY <1>11 DEF Start
<1>12. CASE Verify(p)
  BY <1>12 DEF Verify
<1>13. CASE GiveUp(p)
  BY <1>13 DEF GiveUp
<1>14. CASE RollbackStop(p)
  BY <1>14 DEF RollbackStop
<1>15. CASE RollbackDiscard(p)
  BY <1>15 DEF RollbackDiscard
<1>16. CASE RollbackRestore(p)
  BY <1>16 DEF RollbackRestore, RollbackEnds
<1>17. CASE RollbackStart(p)
  BY <1>17 DEF RollbackStart, RollbackEnds
<1>18. CASE RollbackVerify(p)
  BY <1>18 DEF RollbackVerify, RollbackEnds
<1>19. CASE Restart(p)
  BY <1>19 DEF Restart
<1>20. CASE Cleanup(p)
  BY <1>20 DEF Cleanup
<1>21. CASE Exit(p)
  BY <1>21 DEF Exit
<1>22. CASE KillEarly(p)
  BY <1>22 DEF KillEarly
<1>23. CASE Interrupt(p)
  BY <1>23 DEF Interrupt
<1> QED
  BY <1>1, <1>2, <1>3, <1>4, <1>5, <1>6, <1>7, <1>8, <1>9, <1>10, <1>11, <1>12, <1>13,
     <1>14, <1>15, <1>16, <1>17, <1>18, <1>19, <1>20, <1>21, <1>22, <1>23, <1>24, <1>25
     DEF Run, Deploy, Rollback

(* The types of the invocations' own state. *)
OwnTypeOK ==
  /\ target \in {"docker", "phone"} /\ machine \in Placements
  /\ localLock \in [Machines -> Installers \cup {None}]
  /\ staged \in Installers \cup {None, Empty}
  /\ extracted \in [Installers -> Installers \cup {None}]
  /\ step \in [Installers -> Steps]
  /\ report \in [Installers -> {"none", "deployed", "failed"}]
  /\ started \in SUBSET Installers
  /\ lost \in SUBSET Installers /\ killed \in SUBSET Installers
LockHeld == \A p \in Installers : step[p] \in Applying => localLock[machine[p]] = p

(* An installer that was not started has done nothing; an invocation       *)
(* starts its own once.                                                    *)
StartedOnce ==
  /\ \A p \in Installers \ started : pc[p] = "check" /\ extracted[p] = None
  /\ \A p \in Installers :
       step[p] \in {"start", "validate", "stage", "upload", "send", "launch"} =>
         p \notin started

(* On one machine, an installer that is not done has the lock of its       *)
(* invocation over it, whether that awaits it or was killed; from the      *)
(* upload to the extraction, what is staged is therefore its own.          *)
Covered(p) ==
  /\ step[p] \in {"send", "launch"} => staged = p
  /\ p \in started /\ pc[p] # "done" =>
       step[p] \in {"await", "ended"} /\ localLock[machine[p]] = p
  /\ p \in started /\ pc[p] \in AtArtifact => staged = p
  /\ extracted[p] \in {None, p}
AllCovered == OneMachine /\ lost = {} => \A p \in Installers : Covered(p)

DeployInv == IInv /\ OwnTypeOK /\ LockHeld /\ StartedOnce /\ AllCovered

LEMMA InitDeployInv == DeployInit => DeployInv
<1> SUFFICES ASSUME DeployInit PROVE DeployInv
  OBVIOUS
<1> USE DEF DeployInit
<1>1. IInv
  BY InitIInv
<1>2. OwnTypeOK /\ LockHeld
  BY DEF OwnTypeOK, LockHeld, Steps, Applying
<1>3. StartedOnce
  BY DEF StartedOnce, Init
<1>4. AllCovered
  BY DEF AllCovered, Covered
<1> QED
  BY <1>1, <1>2, <1>3, <1>4 DEF DeployInv

(* Every step of an invocation keeps the types. *)
LEMMA ApplyTypes ==
  ASSUME DeployInv, NEW p \in Installers, ApplyPhone(p) \/ Die(p)
  PROVE  OwnTypeOK'
<1> USE NamesAssumption, PlacementsAssumption
  DEF DeployInv, OwnTypeOK, Local, Apart, Here, Continue, Throw, Steps,
  Applying, mishaps
<1>1. CASE Acquire(p)
  BY <1>1 DEF Acquire
<1>2. CASE Validate(p)
  BY <1>2 DEF Validate
<1>3. CASE Stage(p)
  BY <1>3 DEF Stage
<1>4. CASE Upload(p)
  BY <1>4 DEF Upload
<1>10. CASE UploadInstaller(p)
  BY <1>10 DEF UploadInstaller
<1>5. CASE Launch(p)
  BY <1>5 DEF Launch
<1>6. CASE Await(p)
  BY <1>6 DEF Await, Ended, Disconnected, ExitStatus
<1>7. CASE Remove(p)
  BY <1>7 DEF Remove
<1>8. CASE ReleaseLock(p)
  BY <1>8 DEF ReleaseLock
<1>9. CASE Die(p)
  BY <1>9 DEF Die
<1> QED
  BY <1>1, <1>2, <1>3, <1>4, <1>5, <1>6, <1>7, <1>8, <1>9, <1>10
     DEF ApplyPhone

(* The lock of a machine is given back by its holder only. *)
LEMMA ApplyLocks ==
  ASSUME DeployInv, NEW p \in Installers, ApplyPhone(p) \/ Die(p)
  PROVE  LockHeld'
<1> USE NamesAssumption, PlacementsAssumption
  DEF DeployInv, OwnTypeOK, Local, Apart, Here, Continue, Throw, Steps,
  Applying, LockHeld, mishaps
<1>1. CASE Acquire(p)
  BY <1>1 DEF Acquire
<1>2. CASE Validate(p)
  BY <1>2 DEF Validate
<1>3. CASE Stage(p)
  BY <1>3 DEF Stage
<1>4. CASE Upload(p)
  BY <1>4 DEF Upload
<1>10. CASE UploadInstaller(p)
  BY <1>10 DEF UploadInstaller
<1>5. CASE Launch(p)
  BY <1>5 DEF Launch
<1>6. CASE Await(p)
  BY <1>6 DEF Await, Ended, Disconnected, ExitStatus
<1>7. CASE Remove(p)
  BY <1>7 DEF Remove
<1>8. CASE ReleaseLock(p)
  BY <1>8 DEF ReleaseLock
<1>9. CASE Die(p)
  BY <1>9 DEF Die
<1> QED
  BY <1>1, <1>2, <1>3, <1>4, <1>5, <1>6, <1>7, <1>8, <1>9, <1>10
     DEF ApplyPhone

(* Only Launch starts an installer, and goes on. *)
LEMMA ApplyStarts ==
  ASSUME DeployInv, NEW p \in Installers, ApplyPhone(p) \/ Die(p)
  PROVE  StartedOnce'
<1> USE DEF DeployInv, OwnTypeOK, Local, Apart, Here, Continue, Throw, Steps,
  Applying, StartedOnce, vars, mishaps
<1>1. CASE Acquire(p)
  BY <1>1 DEF Acquire
<1>2. CASE Validate(p)
  BY <1>2 DEF Validate
<1>3. CASE Stage(p)
  BY <1>3 DEF Stage
<1>4. CASE Upload(p)
  BY <1>4 DEF Upload
<1>10. CASE UploadInstaller(p)
  BY <1>10 DEF UploadInstaller
<1>5. CASE Launch(p)
  BY <1>5 DEF Launch
<1>6. CASE Await(p)
  BY <1>6 DEF Await, Ended, Disconnected, ExitStatus
<1>7. CASE Remove(p)
  BY <1>7 DEF Remove
<1>8. CASE ReleaseLock(p)
  BY <1>8 DEF ReleaseLock
<1>9. CASE Die(p)
  BY <1>9 DEF Die
<1> QED
  BY <1>1, <1>2, <1>3, <1>4, <1>5, <1>6, <1>7, <1>8, <1>9, <1>10
     DEF ApplyPhone

(* Whoever changes what is staged, or gives back a lock, holds it. *)
LEMMA ApplyCovers ==
  ASSUME DeployInv, NEW p \in Installers, ApplyPhone(p) \/ Die(p)
  PROVE  AllCovered'
<1> USE NamesAssumption, PlacementsAssumption
  DEF DeployInv, OwnTypeOK, Local, Apart, Here, Continue, Throw, Steps,
  Applying, LockHeld, StartedOnce, AllCovered, Covered, OneMachine,
  AtArtifact, At, Empty, vars, mishaps
<1>1. CASE Acquire(p)
  BY <1>1 DEF Acquire
<1>2. CASE Validate(p)
  BY <1>2 DEF Validate
<1>3. CASE Stage(p)
  BY <1>3 DEF Stage
<1>4. CASE Upload(p)
  BY <1>4 DEF Upload
<1>10. CASE UploadInstaller(p)
  BY <1>10 DEF UploadInstaller
<1>5. CASE Launch(p)
  BY <1>5 DEF Launch
<1>6. CASE Await(p)
  BY <1>6 DEF Await, Ended, Disconnected, ExitStatus
<1>7. CASE Remove(p)
  BY <1>7 DEF Remove
<1>8. CASE ReleaseLock(p)
  BY <1>8 DEF ReleaseLock
<1>9. CASE Die(p)
  BY <1>9 DEF Die
<1> QED
  BY <1>1, <1>2, <1>3, <1>4, <1>5, <1>6, <1>7, <1>8, <1>9, <1>10
     DEF ApplyPhone

(* A step of an installer changes its commands and what it extracted. *)
LEMMA InstallerKeeps ==
  ASSUME DeployInv, NEW p \in Installers, InstallerRuns(p) \/ InstallerSignalled(p)
  PROVE  OwnTypeOK' /\ LockHeld' /\ StartedOnce' /\ AllCovered'
<1> USE DEF DeployInv
<1>1. /\ p \in started /\ Reading(p)
      /\ Run(p) \/ KillEarly(p) \/ Interrupt(p)
  BY DEF InstallerRuns, InstallerSignalled
<1>2. /\ pc[p] # "done"
      /\ \A q \in Installers : q # p => pc'[q] = pc[q]
      /\ pc'[p] \in AtArtifact => pc[p] \in AtArtifact
  BY <1>1, CommandStep DEF IInv
<1>3. OwnTypeOK'
  BY <1>1 DEF OwnTypeOK, Reading, Apart, At, mishaps
<1>4. LockHeld'
  BY <1>1 DEF LockHeld, Reading, Apart
<1>5. StartedOnce'
  BY <1>1, <1>2 DEF StartedOnce, OwnTypeOK, Reading, Apart, At, mishaps
<1>6. AllCovered'
  BY <1>1, <1>2 DEF AllCovered, Covered, OneMachine, AtArtifact, OwnTypeOK, Reading,
     Apart, At, mishaps
<1> QED
  BY <1>3, <1>4, <1>5, <1>6

(* DeployInv is inductive. *)
LEMMA StepDeployInv == DeployInv /\ [DeployNext]_deployVars => DeployInv'
<1> SUFFICES ASSUME DeployInv, [DeployNext]_deployVars PROVE DeployInv'
  OBVIOUS
<1>1. IInv'
  BY InstallerStep, StepIInv DEF DeployInv
<1>2. ASSUME NEW p \in Installers, ApplyPhone(p) \/ Die(p)
      PROVE  OwnTypeOK' /\ LockHeld' /\ StartedOnce' /\ AllCovered'
  BY <1>2, ApplyTypes, ApplyLocks, ApplyStarts, ApplyCovers
<1>3. ASSUME NEW p \in Installers, InstallerRuns(p) \/ InstallerSignalled(p)
      PROVE  OwnTypeOK' /\ LockHeld' /\ StartedOnce' /\ AllCovered'
  BY <1>3, InstallerKeeps
<1>4. CASE ApplyMac \/ UNCHANGED deployVars
  <2>1. UNCHANGED <<target, vars, applyVars>>
    BY <1>4 DEF ApplyMac, deployVars
  <2>2. OwnTypeOK' /\ LockHeld' /\ StartedOnce'
    BY <2>1 DEF DeployInv, OwnTypeOK, LockHeld, StartedOnce, applyVars, mishaps, vars
  <2>3. AllCovered'
    BY <2>1 DEF DeployInv, AllCovered, Covered, OneMachine, applyVars, mishaps, vars
  <2> QED
    BY <1>1, <2>2, <2>3 DEF DeployInv
<1> QED
  BY <1>1, <1>2, <1>3, <1>4 DEF DeployNext, DeployInv

LEMMA DeployInvariant == DeploySpec => []DeployInv
BY InitDeployInv, StepDeployInv, PTL DEF DeploySpec

(* Type correctness of a deployment with its installers and the Mac. *)
THEOREM DeployTypeCorrect == DeploySpec => []DeployTypeOK
<1>1. DeployInv /\ MacInv => DeployTypeOK
  BY DEF DeployInv, IInv, OwnTypeOK, LockHeld, DeployTypeOK, MacInv
<1> QED
  BY <1>1, DeployInvariant, MacInvariant, PTL

(* Whoever else deploys the revision from this machine, and whichever      *)
(* command fails or script is killed: an installer extracts the artifact   *)
(* whose digest it checked, and that is its own.                           *)
THEOREM ArtifactIsKeptCorrect == DeploySpec => []ArtifactIsKept
<1>1. DeployInv => ArtifactIsKept
  BY DEF DeployInv, OwnTypeOK, AllCovered, Covered, ArtifactIsKept
<1> QED
  BY <1>1, DeployInvariant, PTL

--------------------------------------------------------------------------------
(* What holds of installers alone holds of those that deployments start.   *)
THEOREM DeployedOneAtATime == DeploySpec => []OneAtATime
BY ImplementsPhoneInstall, OneAtATimeCorrect, PTL

(* Without signals, the printed status is what an installer leaves behind. *)
THEOREM StatusIsHonestCorrect == RollbackWorks /\ DeploySpec => []StatusIsHonest
BY ImplementsPhoneInstall, InstallerStatusIsHonest, PTL

(* A signal to one installer, however often it comes, leaves the release   *)
(* that was there or the one that was committed, running, but where        *)
(* "excused" says so.                                                      *)
THEOREM HandlerRestoresCorrect == RollbackWorks /\ DeploySpec => []HandlerRestores
BY ImplementsPhoneInstall, InstallerRestores, PTL

(* An invocation reports what its installer, which has ended, printed. *)
ReportsStatus ==
  \A p \in Installers :
    report[p] = "deployed" => pc[p] = "done" /\ status[p] = "deployed"

LEMMA StepReports ==
  DeployInv /\ ReportsStatus /\ [DeployNext]_deployVars => ReportsStatus'
<1> SUFFICES ASSUME DeployInv, ReportsStatus, [DeployNext]_deployVars
             PROVE  ReportsStatus'
  OBVIOUS
<1> USE DEF ReportsStatus
<1>1. ASSUME NEW p \in Installers, ApplyPhone(p) \/ Die(p) PROVE ReportsStatus'
  BY <1>1 DEF DeployInv, OwnTypeOK, ApplyPhone, Die, Acquire, Validate, Stage, Upload,
     UploadInstaller, Launch, Await, Remove, ReleaseLock, Ended, Disconnected, ExitStatus, Local,
     Continue, Throw, At, vars
<1>2. ASSUME NEW p \in Installers, InstallerRuns(p) \/ InstallerSignalled(p)
      PROVE  ReportsStatus'
  <2>1. Run(p) \/ KillEarly(p) \/ Interrupt(p)
    BY <1>2 DEF InstallerRuns, InstallerSignalled
  <2>2. pc[p] # "done" /\ \A q \in Installers \ {p} : pc'[q] = pc[q]
    BY <2>1, CommandStep DEF DeployInv, IInv
  <2>3. \A q \in Installers \ {p} : status'[q] = status[q]
    BY <2>1, OwnStep DEF DeployInv, IInv, TypeOK, KillEarly, Interrupt, observed
  <2>4. UNCHANGED report
    BY <1>2 DEF InstallerRuns, InstallerSignalled, Reading
  <2> QED
    BY <2>2, <2>3, <2>4
<1>3. CASE ApplyMac \/ UNCHANGED deployVars
  BY <1>3 DEF ApplyMac, deployVars, applyVars, vars
<1> QED
  BY <1>1, <1>2, <1>3 DEF DeployNext

(* A deployment that was reported as such is in place, or retained by a    *)
(* later one, as long as no signal disturbs an installer.                  *)
THEOREM NothingDeployedIsLostCorrect ==
  RollbackWorks /\ DeploySpec => []NothingDeployedIsLost
<1>1. DeployInit => ReportsStatus
  BY DEF DeployInit, ReportsStatus
<1>2. DeploySpec => []ReportsStatus
  BY <1>1, DeployInvariant, StepReports, PTL DEF DeploySpec
<1>3. RollbackWorks /\ DeploySpec => []StatusInv
  BY ImplementsPhoneInstall, StatusInvariant, PTL
<1>4. ReportsStatus /\ StatusInv => NothingDeployedIsLost
  BY DEF ReportsStatus, StatusInv, Honest, Kept, NothingDeployedIsLost
<1> QED
  BY <1>2, <1>3, <1>4, PTL

================================================================================
