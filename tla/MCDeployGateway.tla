--------------------------- MODULE MCDeployGateway ----------------------------
(* Two invocations, on one machine or on two, or one of the Mac's. *)
EXTENDS DeployGateway

(* All on one machine, or each on its own. *)
Together == [p \in Installers |-> CHOOSE m \in Machines : TRUE]
Scattered == CHOOSE f \in [Installers -> Machines] :
               \A p, q \in Installers : p # q => f[p] # f[q]
OneOrTwo == {Together, Scattered}

(* A rollback that cannot stop or move away the candidate goes on: see     *)
(* StatusIsHonest in the README.                                           *)
Unnoticed == {"rb_stop", "rb_discard"}
Noticed == Commands \ Unnoticed

(* Every command of the Mac may fail; all but the two that NeverLost and   *)
(* ReportIsHonest except may fail after they took effect.                  *)
MacCommands ==
  {"stop", "rename", "create", "start", "wait", "verify", "remove", "r_remove",
   "r_rename", "r_start", "r_wait", "r_verify"}
TornSafely == MacCommands \ {"stop", "remove"}
================================================================================
