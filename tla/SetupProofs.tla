------------------------------ MODULE SetupProofs ------------------------------
(***************************************************************************)
(* Theorems about Setup, for any number of runs, mishaps and attempts and  *)
(* any command lines.                                                      *)
(***************************************************************************)
EXTENDS Setup, TLAPS

(* The order of the files, one by one. *)
LEMMA Order ==
  /\ Following["start"] = "config" /\ Following["config"] = "admin"
  /\ Following["admin"] = "keys" /\ Following["keys"] = "end"
BY DEF Following

(* The three states of a file are told apart by the first field. *)
LEMMA States ==
  /\ Absent # Partial /\ Absent.state # "complete" /\ Partial.state # "complete"
  /\ \A by, s : /\ Written(by, s).state = "complete" /\ Written(by, s).by = by
                /\ Written(by, s).settings = s
                /\ Written(by, s) \notin {Absent, Partial}
BY DEF Absent, Partial, Written

(* Where a run is in the list of files. *)
Positions ==
  \A r \in Runs :
    /\ pc[r] \in {"new", "install"} => at[r] = "start"
    /\ pc[r] \in {"look", "open", "write"} => at[r] \in Files
    /\ pc[r] = "password" => at[r] = "admin"
    /\ pc[r] \in {"pull", "done"} => at[r] = "end"
    /\ pc[r] \in (Steps \ {"new"}) \cup {"done", "killed"} => ParseArgs(options[r])

(* Who writes a file has made it, and nobody else writes it. *)
Writers ==
  /\ \A r \in Runs : pc[r] = "write" => file[at[r]] = Partial
  /\ \A r, q \in Runs :
       r # q /\ pc[r] = "write" /\ pc[q] = "write" => at[r] # at[q]

(* The files that a run has passed are complete. *)
Passed ==
  \A r \in Runs :
    /\ at[r] \in {"admin", "keys", "end"} =>
         Complete("config") /\ appConfig[r] = file["config"]
    /\ at[r] \in {"keys", "end"} => Complete("admin")
    /\ at[r] = "end" => Complete("keys")

(* What the runs wrote, whoever they were. *)
OwnConfig ==
  Complete("config") /\ file["config"].by # Operator => ValidConfig(file["config"])
KeysLast ==
  Complete("keys") /\ file["keys"].by # Operator => Complete("config") /\ Complete("admin")

(* What a gateway has read is there, as long as nobody wrote since. *)
Seen ==
  ~disturbed =>
    /\ gateway \in {"admin", "keys"} =>
         IF file["config"] = Absent THEN loaded["config"] \in Defaults
                                    ELSE loaded["config"] = file["config"]
    /\ gateway = "keys" =>
         loaded["admin"] = IF Complete("admin") THEN file["admin"] ELSE Absent

(* The inductive invariant. *)
FilesInv == Positions /\ Writers /\ Passed /\ OwnConfig /\ KeysLast
IInv == TypeOK /\ FilesInv /\ Seen /\ AdminComesWithKeys

(* What a run writes is what the type of the file allows. *)
LEMMA ContentKnown ==
  ASSUME TypeOK, NEW r \in Runs
  PROVE  /\ Content(r) \in Contents(at[r])
         /\ Content(r).state = "complete" /\ Content(r).by = r /\ Content(r) # Partial
<1>1. Settings(options[r]) \in {Settings(o) : o \in Options}
  BY DEF TypeOK, ProgressTypeOK
<1>2. Content(r) \in ByRun(at[r])
  BY <1>1 DEF Content, ByRun
<1> QED
  BY <1>2, States DEF Contents, Content

(* No file says what the gateway takes in the place of a missing one. *)
LEMMA NotDefault ==
  \A c \in Contents("config") : c.state = "complete" => c \notin Defaults
BY DEF Defaults, Default

LEMMA InitIInv == Init => IInv
<1> SUFFICES ASSUME Init PROVE IInv
  OBVIOUS
<1>1. DOMAIN file = Files /\ \A f \in Files : file[f] \in {Absent} \cup ByHand(f)
  BY DEF Init, Files
<1>2. TypeOK
  <2>1. ProgressTypeOK
    BY BoundsAssumption DEF Init, ProgressTypeOK
  <2>2. FilesTypeOK
    <3>1. \A f \in Files : file[f] \in Contents(f)
      BY <1>1 DEF Contents
    <3>2. Absent \in Contents("config") \ {Partial}
      BY States DEF Contents
    <3>3. appConfig \in [Runs -> Contents("config") \ {Partial}]
      BY <3>2 DEF Init
    <3> QED
      BY <1>1, <3>1, <3>3 DEF FilesTypeOK
  <2>3. GatewayTypeOK
    BY DEF Init, GatewayTypeOK, Nothing, Contents
  <2> QED
    BY <2>1, <2>2, <2>3 DEF TypeOK
<1>3. Positions /\ Writers /\ Passed
  BY DEF Init, Positions, Writers, Passed, Steps
<1>4. \A f \in Files : Complete(f) => file[f].by = Operator
  BY <1>1, States DEF Complete, ByHand
<1>5. OwnConfig /\ KeysLast
  BY <1>4 DEF OwnConfig, KeysLast, Files
<1>6. Seen /\ AdminComesWithKeys
  BY DEF Init, Seen, AdminComesWithKeys
<1> QED
  BY <1>2, <1>3, <1>5, <1>6 DEF IInv, FilesInv

(* A run goes on to the next file. *)
LEMMA AdvanceMoves ==
  ASSUME TypeOK, NEW r \in Runs, Advance(r), at[r] \in {"start"} \cup Files
  PROVE  /\ pc' \in [Runs -> {"new"} \cup Steps \cup Ended]
         /\ at' \in [Runs -> Files \cup {"start", "end"}]
         /\ \A q \in Runs \ {r} : pc'[q] = pc[q] /\ at'[q] = at[q]
         /\ at[r] = "start" => at'[r] = "config" /\ pc'[r] = "look"
         /\ at[r] = "config" => at'[r] = "admin" /\ pc'[r] = "look"
         /\ at[r] = "admin" => at'[r] = "keys" /\ pc'[r] = "look"
         /\ at[r] = "keys" => at'[r] = "end" /\ pc'[r] = "pull"
BY Order DEF TypeOK, ProgressTypeOK, Advance, Goto, Files, Steps, Ended

(* Every step of a run keeps the types of its own state. *)
LEMMA StepProgress ==
  ASSUME IInv,
         NEW r \in Runs, Step(r) \/ Kill(r) \/ Rerun(r)
  PROVE  ProgressTypeOK'
<1> USE AdvanceMoves, BoundsAssumption
    DEF IInv, FilesInv, TypeOK, ProgressTypeOK, Positions, At, Goto, Mishap, Write, Reads, Fails,
        Steps, Ended, Files, gatewayVars
<1>1. CASE Start(r)
  BY <1>1 DEF Start
<1>2. CASE EnsureDependencies(r)
  BY <1>2 DEF EnsureDependencies
<1>3. CASE Look(r)
  BY <1>3 DEF Look
<1>4. CASE GetAdminPassword(r)
  BY <1>4 DEF GetAdminPassword
<1>5. CASE Open(r)
  BY <1>5 DEF Open
<1>6. CASE Fill(r)
  BY <1>6 DEF Fill
<1>7. CASE PullModel(r)
  BY <1>7 DEF PullModel
<1>8. CASE Kill(r)
  BY <1>8 DEF Kill
<1>9. CASE Rerun(r)
  BY <1>9 DEF Rerun
<1> QED
  BY <1>1, <1>2, <1>3, <1>4, <1>5, <1>6, <1>7, <1>8, <1>9 DEF Step

(* And those of the files. *)
LEMMA StepFiles ==
  ASSUME IInv,
         NEW r \in Runs, Step(r) \/ Kill(r) \/ Rerun(r)
  PROVE  FilesTypeOK' /\ disturbed' \in BOOLEAN
<1> USE ContentKnown, States
    DEF IInv, FilesInv, TypeOK, FilesTypeOK, GatewayTypeOK, Positions, Complete, At, Write, Reads, Fails,
        gatewayVars
<1>1. CASE Start(r)
  BY <1>1 DEF Start
<1>2. CASE EnsureDependencies(r)
  BY <1>2 DEF EnsureDependencies
<1>3. CASE Look(r)
  BY <1>3 DEF Look
<1>4. CASE GetAdminPassword(r)
  BY <1>4 DEF GetAdminPassword
<1>5. CASE Open(r)
  BY <1>5 DEF Open, Contents
<1>6. CASE Fill(r)
  <2>1. CASE Fails(r) /\ UNCHANGED <<file, disturbed>>
    BY <2>1
  <2>2. CASE /\ Write(at[r], Content(r))
             /\ appConfig' = [appConfig EXCEPT
                                ![r] = IF at[r] = "config" THEN Content(r) ELSE @]
    <3>1. appConfig' \in [Runs -> Contents("config") \ {Partial}]
      BY <2>2
    <3>2. DOMAIN file' = Files /\ \A f \in Files : file'[f] \in Contents(f)
      BY <1>6, <2>2 DEF Fill
    <3> QED
      BY <2>2, <3>1, <3>2
  <2> QED
    BY <1>6, <2>1, <2>2 DEF Fill
<1>7. CASE PullModel(r)
  BY <1>7 DEF PullModel
<1>8. CASE Kill(r)
  BY <1>8 DEF Kill
<1>9. CASE Rerun(r)
  BY <1>9 DEF Rerun, Contents
<1> QED
  BY <1>1, <1>2, <1>3, <1>4, <1>5, <1>6, <1>7, <1>8, <1>9 DEF Step

(* It keeps to the list. *)
LEMMA StepPositions ==
  ASSUME IInv,
         NEW r \in Runs, Step(r) \/ Kill(r) \/ Rerun(r)
  PROVE  Positions'
<1> USE AdvanceMoves
    DEF IInv, FilesInv, TypeOK, ProgressTypeOK, Positions, At, Goto, Mishap, Write, Reads, Fails, Steps, Ended,
        Files, gatewayVars
<1>1. CASE Start(r)
  BY <1>1 DEF Start
<1>2. CASE EnsureDependencies(r)
  BY <1>2 DEF EnsureDependencies
<1>3. CASE Look(r)
  BY <1>3 DEF Look
<1>4. CASE GetAdminPassword(r)
  BY <1>4 DEF GetAdminPassword
<1>5. CASE Open(r)
  BY <1>5 DEF Open
<1>6. CASE Fill(r)
  BY <1>6 DEF Fill
<1>7. CASE PullModel(r)
  BY <1>7 DEF PullModel
<1>8. CASE Kill(r)
  BY <1>8 DEF Kill
<1>9. CASE Rerun(r)
  BY <1>9 DEF Rerun
<1> QED
  BY <1>1, <1>2, <1>3, <1>4, <1>5, <1>6, <1>7, <1>8, <1>9 DEF Step

(* It writes what it has made; Open makes only what is not there. *)
LEMMA StepWriters ==
  ASSUME IInv,
         NEW r \in Runs, Step(r) \/ Kill(r) \/ Rerun(r)
  PROVE  Writers' /\ \A f \in Files : Complete(f) => file'[f] = file[f]
<1> USE AdvanceMoves, States
    DEF IInv, FilesInv, TypeOK, ProgressTypeOK, FilesTypeOK, Positions, Writers, Complete, At, Goto, Mishap, Write, Reads,
        Fails, Steps, Ended, Files, gatewayVars
<1>1. CASE Start(r)
  BY <1>1 DEF Start
<1>2. CASE EnsureDependencies(r)
  BY <1>2 DEF EnsureDependencies
<1>3. CASE Look(r)
  BY <1>3 DEF Look
<1>4. CASE GetAdminPassword(r)
  BY <1>4 DEF GetAdminPassword
<1>5. CASE Open(r)
  BY <1>5 DEF Open
<1>6. CASE Fill(r)
  BY <1>6 DEF Fill
<1>7. CASE PullModel(r)
  BY <1>7 DEF PullModel
<1>8. CASE Kill(r)
  BY <1>8 DEF Kill
<1>9. CASE Rerun(r)
  BY <1>9 DEF Rerun, AllEnded
<1> QED
  BY <1>1, <1>2, <1>3, <1>4, <1>5, <1>6, <1>7, <1>8, <1>9 DEF Step

(* It passes a file that it found or wrote, and complete files stay. *)
LEMMA StepPassed ==
  ASSUME IInv, NEW r \in Runs, Step(r) \/ Kill(r) \/ Rerun(r)
  PROVE  Passed'
<1> USE AdvanceMoves, StepWriters, ContentKnown, States
    DEF IInv, FilesInv, TypeOK, ProgressTypeOK, FilesTypeOK, Positions, Passed, Complete,
        At, Goto, Mishap, Write, Reads, Fails, Steps, Ended, Files, gatewayVars
<1>1. CASE Start(r)
  BY <1>1 DEF Start
<1>2. CASE EnsureDependencies(r)
  BY <1>2 DEF EnsureDependencies
<1>3. CASE Look(r)
  BY <1>3 DEF Look
<1>4. CASE GetAdminPassword(r)
  BY <1>4 DEF GetAdminPassword
<1>5. CASE Open(r)
  BY <1>5 DEF Open
<1>6. CASE Fill(r)
  BY <1>6 DEF Fill
<1>7. CASE PullModel(r)
  BY <1>7 DEF PullModel
<1>8. CASE Kill(r)
  BY <1>8 DEF Kill
<1>9. CASE Rerun(r)
  BY <1>9 DEF Rerun
<1> QED
  BY <1>1, <1>2, <1>3, <1>4, <1>5, <1>6, <1>7, <1>8, <1>9 DEF Step

(* A config.json it writes is as valid as its command line. *)
LEMMA StepOwn ==
  ASSUME IInv, NEW r \in Runs, Step(r) \/ Kill(r) \/ Rerun(r)
  PROVE  OwnConfig'
<1> USE ContentKnown, States
    DEF IInv, FilesInv, TypeOK, FilesTypeOK, Positions, OwnConfig, Complete,
        At, Write, Reads, Fails, Steps, Files, gatewayVars
<1>1. CASE Start(r)
  BY <1>1 DEF Start
<1>2. CASE EnsureDependencies(r)
  BY <1>2 DEF EnsureDependencies
<1>3. CASE Look(r)
  BY <1>3 DEF Look
<1>4. CASE GetAdminPassword(r)
  BY <1>4 DEF GetAdminPassword
<1>5. CASE Open(r)
  BY <1>5 DEF Open
<1>6. CASE Fill(r)
  BY <1>6 DEF Fill, Content, ValidConfig, ValidSettings, ParseArgs, Settings
<1>7. CASE PullModel(r)
  BY <1>7 DEF PullModel
<1>8. CASE Kill(r)
  BY <1>8 DEF Kill
<1>9. CASE Rerun(r)
  BY <1>9 DEF Rerun
<1> QED
  BY <1>1, <1>2, <1>3, <1>4, <1>5, <1>6, <1>7, <1>8, <1>9 DEF Step

(* It writes the keys when the other two are complete. *)
LEMMA StepKeysLast ==
  ASSUME IInv, NEW r \in Runs, Step(r) \/ Kill(r) \/ Rerun(r)
  PROVE  KeysLast'
<1> USE ContentKnown, StepWriters, States
    DEF IInv, FilesInv, TypeOK, FilesTypeOK, Positions, Passed, KeysLast, Complete,
        At, Write, Reads, Fails, Files, gatewayVars
<1>1. CASE Start(r)
  BY <1>1 DEF Start
<1>2. CASE EnsureDependencies(r)
  BY <1>2 DEF EnsureDependencies
<1>3. CASE Look(r)
  BY <1>3 DEF Look
<1>4. CASE GetAdminPassword(r)
  BY <1>4 DEF GetAdminPassword
<1>5. CASE Open(r)
  BY <1>5 DEF Open
<1>6. CASE Fill(r)
  BY <1>6 DEF Fill
<1>7. CASE PullModel(r)
  BY <1>7 DEF PullModel
<1>8. CASE Kill(r)
  BY <1>8 DEF Kill
<1>9. CASE Rerun(r)
  BY <1>9 DEF Rerun
<1> QED
  BY <1>1, <1>2, <1>3, <1>4, <1>5, <1>6, <1>7, <1>8, <1>9 DEF Step

(* Whoever writes while the gateway reads disturbs it. *)
LEMMA StepSeen ==
  ASSUME IInv, NEW r \in Runs, Step(r) \/ Kill(r) \/ Rerun(r)
  PROVE  Seen' /\ AdminComesWithKeys'
<1> USE StepWriters
    DEF IInv, TypeOK, GatewayTypeOK, FilesTypeOK, Seen, AdminComesWithKeys, Complete,
        Write, Reads, Fails, gatewayVars
<1>1. CASE Start(r)
  BY <1>1 DEF Start
<1>2. CASE EnsureDependencies(r)
  BY <1>2 DEF EnsureDependencies
<1>3. CASE Look(r)
  BY <1>3 DEF Look
<1>4. CASE GetAdminPassword(r)
  BY <1>4 DEF GetAdminPassword
<1>5. CASE Open(r)
  <2>1. UNCHANGED <<gateway, loaded>>
    BY <1>5 DEF Open
  <2>2. \/ UNCHANGED <<file, disturbed>>
        \/ disturbed' = (disturbed \/ gateway \in {"admin", "keys"})
    BY <1>5 DEF Open
  <2>3. ~disturbed' => gateway \notin {"admin", "keys"} \/ UNCHANGED file
    BY <2>2
  <2>4. ~disturbed' => ~disturbed
    BY <2>2
  <2> QED
    BY <2>1, <2>3, <2>4
<1>6. CASE Fill(r)
  <2>1. UNCHANGED <<gateway, loaded>>
    BY <1>6 DEF Fill
  <2>2. \/ UNCHANGED <<file, disturbed>>
        \/ disturbed' = (disturbed \/ gateway \in {"admin", "keys"})
    BY <1>6 DEF Fill
  <2>3. ~disturbed' => gateway \notin {"admin", "keys"} \/ UNCHANGED file
    BY <2>2
  <2>4. ~disturbed' => ~disturbed
    BY <2>2
  <2> QED
    BY <2>1, <2>3, <2>4
<1>7. CASE PullModel(r)
  BY <1>7 DEF PullModel
<1>8. CASE Kill(r)
  BY <1>8 DEF Kill
<1>9. CASE Rerun(r)
  BY <1>9 DEF Rerun
<1> QED
  BY <1>1, <1>2, <1>3, <1>4, <1>5, <1>6, <1>7, <1>8, <1>9 DEF Step

(* Only runs and the operator touch the files; the operator takes away what *)
(* does not parse when nobody writes.                                       *)
LEMMA RepairKeeps ==
  ASSUME IInv, NEW f \in Files, Repair(f)
  PROVE  IInv' /\ \A g \in Files : Complete(g) => file'[g] = file[g]
<1> USE DEF IInv, FilesInv, Repair, Write
<1>1. \A g \in Files : Complete(g) => file'[g] = file[g]
  BY States DEF TypeOK, FilesTypeOK, Complete
<1>2. \A g \in Files : Complete(g)' => Complete(g)
  BY States DEF TypeOK, FilesTypeOK, Complete
<1>3. FilesTypeOK'
  BY DEF TypeOK, FilesTypeOK, Contents
<1>4. ProgressTypeOK' /\ Positions'
  BY DEF TypeOK, ProgressTypeOK, Positions
<1>5. UNCHANGED <<gateway, loaded>>
  BY DEF gatewayVars
<1>6. disturbed' = (disturbed \/ gateway \in {"admin", "keys"})
  OBVIOUS
<1>7. GatewayTypeOK'
  BY <1>5, <1>6 DEF TypeOK, GatewayTypeOK
<1>8. Writers'
  BY DEF Writers, AllEnded, Ended
<1>9. Passed' /\ OwnConfig' /\ KeysLast'
  BY <1>1, <1>2 DEF Passed, OwnConfig, KeysLast, Complete, Files
<1>10. Seen'
  BY <1>5, <1>6 DEF Seen
<1>11. AdminComesWithKeys'
  BY <1>5, <1>6 DEF AdminComesWithKeys
<1> QED
  BY <1>1, <1>3, <1>4, <1>7, <1>8, <1>9, <1>10, <1>11 DEF TypeOK

(* The gateway reads, and what it read last were the keys. *)
LEMMA GatewayKeeps ==
  ASSUME IInv, LoadConfig \/ LoadAdmin \/ LoadKeys \/ StopGateway
  PROVE  IInv' /\ UNCHANGED file
<1> USE DEF IInv
<1>1. UNCHANGED setupVars
  BY DEF LoadConfig, LoadAdmin, LoadKeys, StopGateway
<1>2. FilesInv' /\ ProgressTypeOK' /\ FilesTypeOK' /\ UNCHANGED file
  BY <1>1 DEF setupVars, FilesInv, Positions, Writers, Passed, OwnConfig, KeysLast,
     Complete, TypeOK, ProgressTypeOK, FilesTypeOK
<1>3. GatewayTypeOK'
  <2>1. \A f \in Files : file[f] \in Contents(f) /\ Absent \in Contents(f)
    BY DEF TypeOK, FilesTypeOK, Contents
  <2>2. CASE LoadConfig
    <3>1. PICK c : /\ c \in IF file["config"] = Absent THEN Defaults
                                                     ELSE {file["config"]} \ {Partial}
                   /\ ValidConfig(c)
                   /\ gateway' = "admin" /\ loaded' = [loaded EXCEPT !["config"] = c]
      BY <2>2 DEF LoadConfig
    <3>2. c \in Contents("config") \cup Defaults
      BY <2>1, <3>1 DEF Files
    <3>3. loaded'["config"] = c
      BY <3>1 DEF TypeOK, GatewayTypeOK, Files
    <3> QED
      BY <2>2, <3>1, <3>2, <3>3 DEF LoadConfig, TypeOK, GatewayTypeOK, ValidConfig
  <2>3. CASE LoadAdmin
    BY <2>1, <2>3 DEF LoadAdmin, TypeOK, GatewayTypeOK, Files
  <2>4. CASE LoadKeys \/ StopGateway
    BY <2>1, <2>4 DEF LoadKeys, StopGateway, TypeOK, GatewayTypeOK, Nothing, Files
  <2> QED
    BY <2>2, <2>3, <2>4
<1>4. Seen'
  BY <1>2 DEF LoadConfig, LoadAdmin, LoadKeys, StopGateway, TypeOK, GatewayTypeOK, Seen,
     Complete, Files
<1>5. AdminComesWithKeys'
  <2>1. CASE LoadKeys /\ Complete("keys") /\ ~disturbed /\ file["keys"].by # Operator
    <3>1. Complete("config") /\ Complete("admin")
      BY <2>1 DEF FilesInv, KeysLast
    <3>2. loaded["config"] = file["config"] /\ loaded["admin"] = file["admin"]
      BY <2>1, <3>1, States DEF Seen, LoadKeys, Complete
    <3>3. loaded["config"] \notin Defaults /\ loaded["admin"] # Absent
      BY <3>1, <3>2, NotDefault, States
         DEF Complete, TypeOK, FilesTypeOK, Files
    <3> QED
      BY <2>1, <3>3 DEF LoadKeys, AdminComesWithKeys, TypeOK, GatewayTypeOK, Files
  <2>2. CASE LoadKeys /\ ~(Complete("keys") /\ ~disturbed /\ file["keys"].by # Operator)
    BY <2>2 DEF LoadKeys, AdminComesWithKeys, TypeOK, GatewayTypeOK, Files
  <2>3. CASE LoadConfig \/ LoadAdmin \/ StopGateway
    BY <2>3 DEF LoadConfig, LoadAdmin, StopGateway, AdminComesWithKeys
  <2> QED
    BY <2>1, <2>2, <2>3
<1> QED
  BY <1>2, <1>3, <1>4, <1>5 DEF TypeOK

(* IInv is inductive, and no step changes a complete file. *)
LEMMA StepIInv ==
  IInv /\ [Next]_vars => IInv' /\ \A f \in Files : Complete(f) => file'[f] = file[f]
<1> SUFFICES ASSUME IInv, [Next]_vars
             PROVE  IInv' /\ \A f \in Files : Complete(f) => file'[f] = file[f]
  OBVIOUS
<1>1. ASSUME NEW r \in Runs, Step(r) \/ Kill(r) \/ Rerun(r)
      PROVE  IInv' /\ \A f \in Files : Complete(f) => file'[f] = file[f]
  <2>1. UNCHANGED <<gateway, loaded>>
    BY <1>1 DEF Step, Start, EnsureDependencies, Look, GetAdminPassword, Open, Fill,
       PullModel, Kill, Rerun, Reads, gatewayVars
  <2>2. GatewayTypeOK'
    BY <1>1, <2>1, StepFiles DEF IInv, TypeOK, GatewayTypeOK
  <2> QED
    BY <1>1, <2>2, StepProgress, StepFiles, StepPositions, StepWriters, StepPassed, StepOwn,
       StepKeysLast, StepSeen DEF IInv, FilesInv, TypeOK
<1>2. CASE UNCHANGED vars
  BY <1>2 DEF vars, setupVars, gatewayVars, IInv, FilesInv, TypeOK, ProgressTypeOK,
     FilesTypeOK, GatewayTypeOK, Positions, Writers, Passed, OwnConfig, KeysLast, Seen,
     AdminComesWithKeys, Complete
<1> QED
  BY <1>1, <1>2, RepairKeeps, GatewayKeeps DEF Next

LEMMA Invariant == Spec => []IInv
BY InitIInv, StepIInv, PTL DEF Spec

(* Type correctness of the script, the files and the gateway. *)
THEOREM TypeCorrect == Spec => []TypeOK
<1>1. IInv => TypeOK
  BY DEF IInv
<1> QED
  BY <1>1, Invariant, PTL

(* However many runs there are, and wherever they are killed: a file that  *)
(* is complete is never written again.                                     *)
THEOREM NeverOverwrittenCorrect == Spec => NeverOverwritten
<1>1. IInv /\ [Next]_vars => [\A f \in Files : Complete(f) => file'[f] = file[f]]_vars
  BY StepIInv
<1> QED
  BY <1>1, Invariant, PTL DEF Spec, NeverOverwritten

(* A run that says that setup is complete leaves three complete files, of  *)
(* which it knows the config.json, whoever else runs.                      *)
THEOREM SetupIsCompleteCorrect == Spec => []SetupIsComplete
<1>1. IInv => SetupIsComplete
  BY DEF IInv, FilesInv, Positions, Passed, OwnConfig, SetupIsComplete, At, Files
<1> QED
  BY <1>1, Invariant, PTL

(* A gateway with keys of a run has administration and configuration.      *)
THEOREM AdminComesWithKeysCorrect == Spec => []AdminComesWithKeys
<1>1. IInv => AdminComesWithKeys
  BY DEF IInv
<1> QED
  BY <1>1, Invariant, PTL

================================================================================
