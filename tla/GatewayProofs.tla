----------------------------- MODULE GatewayProofs -----------------------------
(***************************************************************************)
(* The safety properties of Gateway, for any requests, models, rights and  *)
(* faults.  They are inductive together once Phases says what each await   *)
(* implies about the connection, the signals and the answer; the           *)
(* completeness of lists needs Recorded besides: what a list was promised  *)
(* is on record until the list has it.                                     *)
(***************************************************************************)
EXTENDS Gateway, TLAPS

Phases ==
  \A r \in Requests :
    /\ pc[r] \in {"new", "body", "tags", "apfel"} => upstream[r] = "none" /\ ~late[r]
    /\ pc[r] \in {"new", "tags", "apfel"} => ~gone[r]
    /\ pc[r] # "new" => ask[r] \in Asks
    /\ pc[r] \in {"body"} \cup Contacting => ask[r].path # "list"
    /\ pc[r] \in {"tags", "apfel"} => ask[r].path = "list" /\ Scoped(key[r]) = {}
    /\ pc[r] \notin {"discard", "done"} => answer[r] = "none"
    /\ pc[r] = "discard" => answer[r] \in {"upstream_error", "invalid_stream", "invalid_response"}
    /\ pc[r] \in Contacting => upstream[r] # "none"

Recorded ==
  \A r \in Requests :
    /\ pc[r] = "tags" => promised[r] \subseteq Known
    /\ pc[r] = "apfel" => promised[r] \subseteq listed[r]

(* What rememberModel() does to the record and to what lists were promised.*)
RecordTypeOK ==
  file \in (SUBSET Models) \cup {Torn} /\ promised \in [Requests -> SUBSET Models]
Kept ==
  \A r \in Requests :
    /\ promised'[r] \subseteq promised[r]
    /\ promised[r] \subseteq Known => promised'[r] \subseteq Known'

IInv == TypeOK /\ Phases /\ OneVersion /\ Released /\ ListIsRight /\ Recorded

\* The initial states satisfy the invariant.
LEMMA InitIInv == Init => IInv
PROOF
<1> SUFFICES ASSUME Init PROVE IInv
  OBVIOUS
<1> USE DEF Init
<1>1. RightsTypeOK
  BY DEF RightsTypeOK
<1>2. FilesTypeOK
  BY DEF FilesTypeOK
<1>3. RequestsTypeOK
  BY DEF RequestsTypeOK
<1>4. Phases
  BY DEF Phases, Contacting
<1>5. OneVersion /\ Released /\ ListIsRight /\ Recorded
  BY DEF OneVersion, Released, ListIsRight, Recorded
<1>6. QED
  BY <1>1, <1>2, <1>3, <1>4, <1>5 DEF IInv, TypeOK

\* The models on record are models.
LEMMA KnownModels == ASSUME FilesTypeOK PROVE Known \subseteq Models
PROOF
<1>1. CASE file \in SUBSET Models
  BY <1>1 DEF Known
<1>2. CASE file = Torn
  BY <1>2 DEF Known, Torn
<1>3. QED
  BY <1>1, <1>2 DEF FilesTypeOK

\* rememberModel() keeps every model on record, unless the file is damaged, and
\* then nothing that was lost is promised any more.
LEMMA RememberKeeps ==
  ASSUME FilesTypeOK, NEW m \in Models \cup {None}, Remember(m)
  PROVE  Kept /\ RecordTypeOK'
PROOF
<1> USE ModelsAssumption DEF FilesTypeOK, RecordTypeOK, Kept, Damaged, KeepsRecord
<1>1. CASE KeepsRecord
  BY <1>1 DEF Known
<1>2. CASE file' = Known \cup {m} /\ m # None /\ UNCHANGED promised
  <2>1. file' \in SUBSET Models
    BY <1>2, KnownModels
  <2>2. Known \subseteq Known'
    BY <1>2 DEF Known
  <2>3. QED
    BY <1>2, <2>1, <2>2
<1>3. CASE file' = {m} /\ m # None /\ Damaged({m})
  BY <1>3 DEF Known
<1>4. CASE file' = Torn /\ Damaged({})
  <2>1. promised' = [r \in Requests |-> {}]
    BY <1>4
  <2>2. RecordTypeOK'
    BY <1>4, <2>1
  <2>3. QED
    BY <2>1, <2>2
<1>5. QED
  BY <1>1, <1>2, <1>3, <1>4 DEF Remember

\* What keyScopedModels() returns for a key.
LEMMA ScopedModels ==
  ASSUME NEW k \in Grants
  PROVE  /\ Scoped(k) \subseteq Models
         /\ \A m \in Scoped(k) : MayUse(k, m)
         /\ Scoped(k) = {} => \A m \in Models : MayUse(k, m)
PROOF
BY GrantsAssumption DEF Grant, Scoped, MayUse

\* Arrive keeps the invariant.
LEMMA ArriveStep ==
  ASSUME IInv, NEW r \in Requests, NEW a \in Asks, NEW k \in Grants \cup {Refused}, Arrive(r, a, k)
  PROVE  IInv'
PROOF
<1> USE ModelsAssumption, AsksAssumption, GrantsAssumption
<1> USE DEF IInv, TypeOK, Arrive, Unauthorized, Limited, ForwardBegins, PublicModels, Answer, Await
<1> USE DEF request, signals, Contacting, Errors, Alive
<1>1. FilesTypeOK'
  <2>1. file' \in (SUBSET Models) \cup {Torn}
    BY DEF FilesTypeOK
  <2>2. listed' \in [Requests -> SUBSET Models]
    BY ScopedModels, KnownModels DEF FilesTypeOK
  <2>3. promised' \in [Requests -> SUBSET Models]
    BY KnownModels DEF FilesTypeOK
  <2>4. QED
    BY <2>1, <2>2, <2>3 DEF FilesTypeOK
<1>2. RightsTypeOK'
  BY DEF RightsTypeOK, FilesTypeOK, RequestsTypeOK
<1>3. RequestsTypeOK'
  BY DEF RightsTypeOK, FilesTypeOK, RequestsTypeOK
<1>4. Phases'
  BY DEF RightsTypeOK, FilesTypeOK, RequestsTypeOK, Phases
<1>5. OneVersion'
  BY DEF RightsTypeOK, FilesTypeOK, RequestsTypeOK, OneVersion, Phases
<1>6. Released'
  BY DEF RightsTypeOK, FilesTypeOK, RequestsTypeOK, Released, Phases, Streaming
<1>7. ListIsRight'
  BY ScopedModels DEF RightsTypeOK, FilesTypeOK, RequestsTypeOK, ListIsRight, Phases, Recorded, Known
<1>8. Recorded'
  BY ScopedModels DEF RightsTypeOK, FilesTypeOK, RequestsTypeOK, Recorded, Phases, Known
<1>9. QED
  BY <1>1, <1>2, <1>3, <1>4, <1>5, <1>6, <1>7, <1>8

\* BodyArrives keeps the invariant.
LEMMA BodyArrivesStep ==
  ASSUME IInv, NEW r \in Requests, BodyArrives(r)
  PROVE  IInv'
PROOF
<1> USE ModelsAssumption, AsksAssumption, GrantsAssumption
<1> USE DEF IInv, TypeOK, BodyArrives, Route, Answer, Await, KeepsRecord
<1> USE DEF request, signals, Contacting, Errors, Alive
<1>1. FilesTypeOK'
  BY ScopedModels DEF FilesTypeOK, RequestsTypeOK, RightsTypeOK, Known, Torn
<1>2. RightsTypeOK'
  BY DEF RightsTypeOK, FilesTypeOK, RequestsTypeOK
<1>3. RequestsTypeOK'
  BY DEF RightsTypeOK, FilesTypeOK, RequestsTypeOK
<1>4. Phases'
  BY DEF RightsTypeOK, FilesTypeOK, RequestsTypeOK, Phases
<1>5. OneVersion'
  BY DEF RightsTypeOK, FilesTypeOK, RequestsTypeOK, OneVersion, Phases
<1>6. Released'
  BY DEF RightsTypeOK, FilesTypeOK, RequestsTypeOK, Released, Phases, Streaming
<1>7. ListIsRight'
  BY ScopedModels DEF RightsTypeOK, FilesTypeOK, RequestsTypeOK, ListIsRight, Phases, Recorded, Known
<1>8. Recorded'
  BY ScopedModels DEF RightsTypeOK, FilesTypeOK, RequestsTypeOK, Recorded, Phases, Known
<1>9. QED
  BY <1>1, <1>2, <1>3, <1>4, <1>5, <1>6, <1>7, <1>8

\* BodyFails keeps the invariant.
LEMMA BodyFailsStep ==
  ASSUME IInv, NEW r \in Requests, BodyFails(r)
  PROVE  IInv'
PROOF
<1> USE ModelsAssumption, AsksAssumption, GrantsAssumption
<1> USE DEF IInv, TypeOK, BodyFails, Answer, KeepsRecord
<1> USE DEF request, signals, Contacting, Errors, Alive
<1>1. FilesTypeOK'
  BY ScopedModels DEF FilesTypeOK, RequestsTypeOK, RightsTypeOK, Known, Torn
<1>2. RightsTypeOK'
  BY DEF RightsTypeOK, FilesTypeOK, RequestsTypeOK
<1>3. RequestsTypeOK'
  BY DEF RightsTypeOK, FilesTypeOK, RequestsTypeOK
<1>4. Phases'
  BY DEF RightsTypeOK, FilesTypeOK, RequestsTypeOK, Phases
<1>5. OneVersion'
  <2>1. \A q \in Requests : upstream'[q] # "none" => upstream[q] # "none"
    BY DEF RequestsTypeOK, Phases
  <2>2. \A q \in Requests : answer'[q] \in {"forbidden", "unsupported"} => answer'[q] = answer[q]
    BY DEF RequestsTypeOK, Phases
  <2>3. QED
    BY <2>1, <2>2 DEF OneVersion
<1>6. Released'
  BY DEF RightsTypeOK, FilesTypeOK, RequestsTypeOK, Released, Phases, Streaming
<1>7. ListIsRight'
  BY ScopedModels DEF RightsTypeOK, FilesTypeOK, RequestsTypeOK, ListIsRight, Phases, Recorded, Known
<1>8. Recorded'
  BY ScopedModels DEF RightsTypeOK, FilesTypeOK, RequestsTypeOK, Recorded, Phases, Known
<1>9. QED
  BY <1>1, <1>2, <1>3, <1>4, <1>5, <1>6, <1>7, <1>8

\* UpstreamFails keeps the invariant.
LEMMA UpstreamFailsStep ==
  ASSUME IInv, NEW r \in Requests, UpstreamFails(r)
  PROVE  IInv'
PROOF
<1> USE ModelsAssumption, AsksAssumption, GrantsAssumption
<1> USE DEF IInv, TypeOK, UpstreamFails, Catch, Answer, Close, KeepsRecord
<1> USE DEF request, signals, Contacting, Errors, Alive
<1>1. FilesTypeOK'
  BY ScopedModels DEF FilesTypeOK, RequestsTypeOK, RightsTypeOK, Known, Torn
<1>2. RightsTypeOK'
  BY DEF RightsTypeOK, FilesTypeOK, RequestsTypeOK
<1>3. RequestsTypeOK'
  BY DEF RightsTypeOK, FilesTypeOK, RequestsTypeOK
<1>4. Phases'
  BY DEF RightsTypeOK, FilesTypeOK, RequestsTypeOK, Phases
<1>5. OneVersion'
  <2>1. \A q \in Requests : upstream'[q] # "none" => upstream[q] # "none"
    BY DEF RequestsTypeOK, Phases
  <2>2. \A q \in Requests : answer'[q] \in {"forbidden", "unsupported"} => answer'[q] = answer[q]
    BY DEF RequestsTypeOK, Phases
  <2>3. QED
    BY <2>1, <2>2 DEF OneVersion
<1>6. Released'
  BY DEF RightsTypeOK, FilesTypeOK, RequestsTypeOK, Released, Phases, Streaming
<1>7. ListIsRight'
  BY ScopedModels DEF RightsTypeOK, FilesTypeOK, RequestsTypeOK, ListIsRight, Phases, Recorded, Known
<1>8. Recorded'
  BY ScopedModels DEF RightsTypeOK, FilesTypeOK, RequestsTypeOK, Recorded, Phases, Known
<1>9. QED
  BY <1>1, <1>2, <1>3, <1>4, <1>5, <1>6, <1>7, <1>8

\* Responded keeps the invariant.
LEMMA RespondedStep ==
  ASSUME IInv, NEW r \in Requests, Responded(r)
  PROVE  IInv'
PROOF
<1> USE ModelsAssumption, AsksAssumption, GrantsAssumption
<1> USE DEF IInv, TypeOK, Responded, Discard, PassOn, Await, Answer, KeepsRecord
<1> USE DEF request, signals, Contacting, Errors, Alive
<1>0. ask[r].model \in Models \cup {None}
  BY DEF Phases, Ask
<1>a. Kept /\ RecordTypeOK'
  <2>1. CASE KeepsRecord
    BY <2>1 DEF Kept, Known, FilesTypeOK, RecordTypeOK
  <2>2. CASE Remember(ask[r].model)
    BY <1>0, <2>2, RememberKeeps
  <2>3. QED
    BY <2>1, <2>2
<1>1. FilesTypeOK'
  BY <1>a DEF FilesTypeOK, RecordTypeOK
<1>2. RightsTypeOK'
  BY DEF RightsTypeOK, FilesTypeOK, RequestsTypeOK
<1>3. RequestsTypeOK'
  BY DEF RightsTypeOK, FilesTypeOK, RequestsTypeOK
<1>4. Phases'
  BY DEF RightsTypeOK, FilesTypeOK, RequestsTypeOK, Phases
<1>5. OneVersion'
  <2>1. \A q \in Requests : upstream'[q] # "none" => upstream[q] # "none"
    BY DEF RequestsTypeOK, Phases
  <2>2. \A q \in Requests : answer'[q] \in {"forbidden", "unsupported"} => answer'[q] = answer[q]
    BY DEF RequestsTypeOK, Phases
  <2>3. QED
    BY <2>1, <2>2 DEF OneVersion
<1>6. Released'
  BY DEF RightsTypeOK, FilesTypeOK, RequestsTypeOK, Released, Phases, Streaming
<1>7. ListIsRight'
  <2>1. \A q \in Requests : (pc'[q] = "done" /\ ask[q].path = "list")
                              => pc[q] = "done" /\ answer'[q] = answer[q]
    BY DEF RequestsTypeOK, Phases
  <2>2. QED
    BY <1>a, <2>1 DEF ListIsRight, Kept
<1>8. Recorded'
  <2>1. \A q \in Requests : pc'[q] \in {"tags", "apfel"} => pc'[q] = pc[q]
    BY DEF RequestsTypeOK, Phases
  <2>2. QED
    BY <1>a, <2>1 DEF Recorded, Kept
<1>9. QED
  BY <1>1, <1>2, <1>3, <1>4, <1>5, <1>6, <1>7, <1>8

\* Discarded keeps the invariant.
LEMMA DiscardedStep ==
  ASSUME IInv, NEW r \in Requests, Discarded(r)
  PROVE  IInv'
PROOF
<1> USE ModelsAssumption, AsksAssumption, GrantsAssumption
<1> USE DEF IInv, TypeOK, Discarded, Answer, Close, KeepsRecord
<1> USE DEF request, signals, Contacting, Errors, Alive
<1>1. FilesTypeOK'
  BY ScopedModels DEF FilesTypeOK, RequestsTypeOK, RightsTypeOK, Known, Torn
<1>2. RightsTypeOK'
  BY DEF RightsTypeOK, FilesTypeOK, RequestsTypeOK
<1>3. RequestsTypeOK'
  BY DEF RightsTypeOK, FilesTypeOK, RequestsTypeOK
<1>4. Phases'
  BY DEF RightsTypeOK, FilesTypeOK, RequestsTypeOK, Phases
<1>5. OneVersion'
  <2>1. \A q \in Requests : upstream'[q] # "none" => upstream[q] # "none"
    BY DEF RequestsTypeOK, Phases
  <2>2. \A q \in Requests : answer'[q] \in {"forbidden", "unsupported"} => answer'[q] = answer[q]
    BY DEF RequestsTypeOK, Phases
  <2>3. QED
    BY <2>1, <2>2 DEF OneVersion
<1>6. Released'
  BY DEF RightsTypeOK, FilesTypeOK, RequestsTypeOK, Released, Phases, Streaming
<1>7. ListIsRight'
  BY ScopedModels DEF RightsTypeOK, FilesTypeOK, RequestsTypeOK, ListIsRight, Phases, Recorded, Known
<1>8. Recorded'
  BY ScopedModels DEF RightsTypeOK, FilesTypeOK, RequestsTypeOK, Recorded, Phases, Known
<1>9. QED
  BY <1>1, <1>2, <1>3, <1>4, <1>5, <1>6, <1>7, <1>8

\* Prefetched keeps the invariant.
LEMMA PrefetchedStep ==
  ASSUME IInv, NEW r \in Requests, Prefetched(r)
  PROVE  IInv'
PROOF
<1> USE ModelsAssumption, AsksAssumption, GrantsAssumption
<1> USE DEF IInv, TypeOK, Prefetched, PassOn, Answer, Close, KeepsRecord
<1> USE DEF request, signals, Contacting, Errors, Alive
<1>0. ask[r].model \in Models \cup {None}
  BY DEF Phases, Ask
<1>a. Kept /\ RecordTypeOK'
  <2>1. CASE KeepsRecord
    BY <2>1 DEF Kept, Known, FilesTypeOK, RecordTypeOK
  <2>2. CASE Remember(ask[r].model)
    BY <1>0, <2>2, RememberKeeps
  <2>3. QED
    BY <2>1, <2>2
<1>1. FilesTypeOK'
  BY <1>a DEF FilesTypeOK, RecordTypeOK
<1>2. RightsTypeOK'
  BY DEF RightsTypeOK, FilesTypeOK, RequestsTypeOK
<1>3. RequestsTypeOK'
  BY DEF RightsTypeOK, FilesTypeOK, RequestsTypeOK
<1>4. Phases'
  BY DEF RightsTypeOK, FilesTypeOK, RequestsTypeOK, Phases
<1>5. OneVersion'
  <2>1. \A q \in Requests : upstream'[q] # "none" => upstream[q] # "none"
    BY DEF RequestsTypeOK, Phases
  <2>2. \A q \in Requests : answer'[q] \in {"forbidden", "unsupported"} => answer'[q] = answer[q]
    BY DEF RequestsTypeOK, Phases
  <2>3. QED
    BY <2>1, <2>2 DEF OneVersion
<1>6. Released'
  BY DEF RightsTypeOK, FilesTypeOK, RequestsTypeOK, Released, Phases, Streaming
<1>7. ListIsRight'
  <2>1. \A q \in Requests : (pc'[q] = "done" /\ ask[q].path = "list")
                              => pc[q] = "done" /\ answer'[q] = answer[q]
    BY DEF RequestsTypeOK, Phases
  <2>2. QED
    BY <1>a, <2>1 DEF ListIsRight, Kept
<1>8. Recorded'
  <2>1. \A q \in Requests : pc'[q] \in {"tags", "apfel"} => pc'[q] = pc[q]
    BY DEF RequestsTypeOK, Phases
  <2>2. QED
    BY <1>a, <2>1 DEF Recorded, Kept
<1>9. QED
  BY <1>1, <1>2, <1>3, <1>4, <1>5, <1>6, <1>7, <1>8

\* TextArrives keeps the invariant.
LEMMA TextArrivesStep ==
  ASSUME IInv, NEW r \in Requests, TextArrives(r)
  PROVE  IInv'
PROOF
<1> USE ModelsAssumption, AsksAssumption, GrantsAssumption
<1> USE DEF IInv, TypeOK, TextArrives, Answer, Close, KeepsRecord
<1> USE DEF request, signals, Contacting, Errors, Alive
<1>0. ask[r].model \in Models \cup {None}
  BY DEF Phases, Ask
<1>a. Kept /\ RecordTypeOK'
  <2>1. CASE KeepsRecord
    BY <2>1 DEF Kept, Known, FilesTypeOK, RecordTypeOK
  <2>2. CASE Remember(ask[r].model)
    BY <1>0, <2>2, RememberKeeps
  <2>3. QED
    BY <2>1, <2>2
<1>1. FilesTypeOK'
  BY <1>a DEF FilesTypeOK, RecordTypeOK
<1>2. RightsTypeOK'
  BY DEF RightsTypeOK, FilesTypeOK, RequestsTypeOK
<1>3. RequestsTypeOK'
  BY DEF RightsTypeOK, FilesTypeOK, RequestsTypeOK
<1>4. Phases'
  BY DEF RightsTypeOK, FilesTypeOK, RequestsTypeOK, Phases
<1>5. OneVersion'
  <2>1. \A q \in Requests : upstream'[q] # "none" => upstream[q] # "none"
    BY DEF RequestsTypeOK, Phases
  <2>2. \A q \in Requests : answer'[q] \in {"forbidden", "unsupported"} => answer'[q] = answer[q]
    BY DEF RequestsTypeOK, Phases
  <2>3. QED
    BY <2>1, <2>2 DEF OneVersion
<1>6. Released'
  BY DEF RightsTypeOK, FilesTypeOK, RequestsTypeOK, Released, Phases, Streaming
<1>7. ListIsRight'
  <2>1. \A q \in Requests : (pc'[q] = "done" /\ ask[q].path = "list")
                              => pc[q] = "done" /\ answer'[q] = answer[q]
    BY DEF RequestsTypeOK, Phases
  <2>2. QED
    BY <1>a, <2>1 DEF ListIsRight, Kept
<1>8. Recorded'
  <2>1. \A q \in Requests : pc'[q] \in {"tags", "apfel"} => pc'[q] = pc[q]
    BY DEF RequestsTypeOK, Phases
  <2>2. QED
    BY <1>a, <2>1 DEF Recorded, Kept
<1>9. QED
  BY <1>1, <1>2, <1>3, <1>4, <1>5, <1>6, <1>7, <1>8

\* TagsArrive keeps the invariant.
LEMMA TagsArriveStep ==
  ASSUME IInv, NEW r \in Requests, TagsArrive(r)
  PROVE  IInv'
PROOF
<1> USE ModelsAssumption, AsksAssumption, GrantsAssumption
<1> USE DEF IInv, TypeOK, TagsArrive, ListOn, Listing, Await, Answer
<1> USE DEF request, signals, Contacting, Errors, Alive
<1>1. FilesTypeOK'
  <2>1. file' \in (SUBSET Models) \cup {Torn}
    BY DEF FilesTypeOK
  <2>2. listed' \in [Requests -> SUBSET Models]
    BY ScopedModels, KnownModels DEF FilesTypeOK
  <2>3. promised' \in [Requests -> SUBSET Models]
    BY KnownModels DEF FilesTypeOK
  <2>4. QED
    BY <2>1, <2>2, <2>3 DEF FilesTypeOK
<1>2. RightsTypeOK'
  BY DEF RightsTypeOK, FilesTypeOK, RequestsTypeOK
<1>3. RequestsTypeOK'
  BY DEF RightsTypeOK, FilesTypeOK, RequestsTypeOK
<1>4. Phases'
  BY DEF RightsTypeOK, FilesTypeOK, RequestsTypeOK, Phases
<1>5. OneVersion'
  BY DEF RightsTypeOK, FilesTypeOK, RequestsTypeOK, OneVersion, Phases
<1>6. Released'
  BY DEF RightsTypeOK, FilesTypeOK, RequestsTypeOK, Released, Phases, Streaming
<1>7. ListIsRight'
  <2>1. PICK found \in SUBSET Models : listed' = [listed EXCEPT ![r] = found]
    BY <1>1 DEF FilesTypeOK
  <2>2. key[r] \in Grants /\ Scoped(key[r]) = {}
    BY DEF RightsTypeOK, Refused, Phases
  <2>3. \A m \in listed'[r] : MayUse(key[r], m)
    BY <2>1, <2>2, ScopedModels DEF FilesTypeOK
  <2>4. promised'[r] \subseteq listed'[r]
    <3>1. PICK tags \in SUBSET Models :
            \/ Listing(r, tags, Known)
            \/ /\ listed' = [listed EXCEPT ![r] = tags]
               /\ promised' = [promised EXCEPT ![r] = {}]
      OBVIOUS
    <3>2. promised[r] \subseteq Known
      BY DEF Recorded
    <3>3. QED
      BY <3>1, <3>2 DEF FilesTypeOK
  <2>5. \A q \in Requests \ {r} : pc'[q] = pc[q] /\ answer'[q] = answer[q]
    BY DEF RequestsTypeOK
  <2>6. \A q \in Requests \ {r} : listed'[q] = listed[q] /\ promised'[q] = promised[q]
    BY DEF FilesTypeOK
  <2>7. QED
    BY <2>3, <2>4, <2>5, <2>6 DEF ListIsRight
<1>8. Recorded'
  BY ScopedModels DEF RightsTypeOK, FilesTypeOK, RequestsTypeOK, Recorded, Phases, Known
<1>9. QED
  BY <1>1, <1>2, <1>3, <1>4, <1>5, <1>6, <1>7, <1>8

\* TagsFail keeps the invariant.
LEMMA TagsFailStep ==
  ASSUME IInv, NEW r \in Requests, TagsFail(r)
  PROVE  IInv'
PROOF
<1> USE ModelsAssumption, AsksAssumption, GrantsAssumption
<1> USE DEF IInv, TypeOK, TagsFail, Answer, KeepsRecord
<1> USE DEF request, signals, Contacting, Errors, Alive
<1>1. FilesTypeOK'
  BY ScopedModels DEF FilesTypeOK, RequestsTypeOK, RightsTypeOK, Known, Torn
<1>2. RightsTypeOK'
  BY DEF RightsTypeOK, FilesTypeOK, RequestsTypeOK
<1>3. RequestsTypeOK'
  BY DEF RightsTypeOK, FilesTypeOK, RequestsTypeOK
<1>4. Phases'
  BY DEF RightsTypeOK, FilesTypeOK, RequestsTypeOK, Phases
<1>5. OneVersion'
  BY DEF RightsTypeOK, FilesTypeOK, RequestsTypeOK, OneVersion, Phases
<1>6. Released'
  BY DEF RightsTypeOK, FilesTypeOK, RequestsTypeOK, Released, Phases, Streaming
<1>7. ListIsRight'
  BY ScopedModels DEF RightsTypeOK, FilesTypeOK, RequestsTypeOK, ListIsRight, Phases, Recorded, Known
<1>8. Recorded'
  BY ScopedModels DEF RightsTypeOK, FilesTypeOK, RequestsTypeOK, Recorded, Phases, Known
<1>9. QED
  BY <1>1, <1>2, <1>3, <1>4, <1>5, <1>6, <1>7, <1>8

\* ApfelSettles keeps the invariant.
LEMMA ApfelSettlesStep ==
  ASSUME IInv, NEW r \in Requests, ApfelSettles(r)
  PROVE  IInv'
PROOF
<1> USE ModelsAssumption, AsksAssumption, GrantsAssumption
<1> USE DEF IInv, TypeOK, ApfelSettles, Answer, Listing
<1> USE DEF request, signals, Contacting, Errors, Alive
<1>1. FilesTypeOK'
  BY ScopedModels DEF FilesTypeOK, RequestsTypeOK, RightsTypeOK, Known, Torn
<1>2. RightsTypeOK'
  BY DEF RightsTypeOK, FilesTypeOK, RequestsTypeOK
<1>3. RequestsTypeOK'
  BY DEF RightsTypeOK, FilesTypeOK, RequestsTypeOK
<1>4. Phases'
  BY DEF RightsTypeOK, FilesTypeOK, RequestsTypeOK, Phases
<1>5. OneVersion'
  BY DEF RightsTypeOK, FilesTypeOK, RequestsTypeOK, OneVersion, Phases
<1>6. Released'
  BY DEF RightsTypeOK, FilesTypeOK, RequestsTypeOK, Released, Phases, Streaming
<1>7. ListIsRight'
  <2>1. PICK found \in SUBSET {Apple} : listed' = [listed EXCEPT ![r] = listed[r] \cup found \cup {}]
    OBVIOUS
  <2>2. key[r] \in Grants /\ Scoped(key[r]) = {}
    BY DEF RightsTypeOK, Refused, Phases
  <2>3. listed'[r] \subseteq Models /\ listed[r] \subseteq listed'[r]
    BY <2>1 DEF FilesTypeOK
  <2>4. \A m \in listed'[r] : MayUse(key[r], m)
    BY <2>2, <2>3, ScopedModels
  <2>5. promised[r] \subseteq listed'[r]
    BY <2>3 DEF Recorded
  <2>6. \A q \in Requests \ {r} : pc'[q] = pc[q] /\ answer'[q] = answer[q] /\ listed'[q] = listed[q]
    BY <2>1 DEF RequestsTypeOK, FilesTypeOK
  <2>7. QED
    BY <2>4, <2>5, <2>6 DEF ListIsRight
<1>8. Recorded'
  BY ScopedModels DEF RightsTypeOK, FilesTypeOK, RequestsTypeOK, Recorded, Phases, Known
<1>9. QED
  BY <1>1, <1>2, <1>3, <1>4, <1>5, <1>6, <1>7, <1>8

\* ClientLeaves keeps the invariant.
LEMMA ClientLeavesStep ==
  ASSUME IInv, NEW r \in Requests, ClientLeaves(r)
  PROVE  IInv'
PROOF
<1> USE ModelsAssumption, AsksAssumption, GrantsAssumption
<1> USE DEF IInv, TypeOK, ClientLeaves, Open, Streaming, Aborted
<1> USE DEF request, signals, Contacting, Errors, Alive
<1>1. FilesTypeOK'
  BY ScopedModels DEF FilesTypeOK, RequestsTypeOK, RightsTypeOK, Known, Torn
<1>2. RightsTypeOK'
  BY DEF RightsTypeOK, FilesTypeOK, RequestsTypeOK
<1>3. RequestsTypeOK'
  BY DEF RightsTypeOK, FilesTypeOK, RequestsTypeOK
<1>4. Phases'
  BY DEF RightsTypeOK, FilesTypeOK, RequestsTypeOK, Phases
<1>5. OneVersion'
  BY DEF RightsTypeOK, FilesTypeOK, RequestsTypeOK, OneVersion, Phases
<1>6. Released'
  BY DEF RightsTypeOK, FilesTypeOK, RequestsTypeOK, Released, Phases, Streaming
<1>7. ListIsRight'
  BY ScopedModels DEF RightsTypeOK, FilesTypeOK, RequestsTypeOK, ListIsRight, Phases, Recorded, Known
<1>8. Recorded'
  BY ScopedModels DEF RightsTypeOK, FilesTypeOK, RequestsTypeOK, Recorded, Phases, Known
<1>9. QED
  BY <1>1, <1>2, <1>3, <1>4, <1>5, <1>6, <1>7, <1>8

\* TimerFires keeps the invariant.
LEMMA TimerFiresStep ==
  ASSUME IInv, NEW r \in Requests, TimerFires(r)
  PROVE  IInv'
PROOF
<1> USE ModelsAssumption, AsksAssumption, GrantsAssumption
<1> USE DEF IInv, TypeOK, TimerFires, Open, Streaming, Aborted
<1> USE DEF request, signals, Contacting, Errors, Alive
<1>1. FilesTypeOK'
  BY ScopedModels DEF FilesTypeOK, RequestsTypeOK, RightsTypeOK, Known, Torn
<1>2. RightsTypeOK'
  BY DEF RightsTypeOK, FilesTypeOK, RequestsTypeOK
<1>3. RequestsTypeOK'
  BY DEF RightsTypeOK, FilesTypeOK, RequestsTypeOK
<1>4. Phases'
  BY DEF RightsTypeOK, FilesTypeOK, RequestsTypeOK, Phases
<1>5. OneVersion'
  BY DEF RightsTypeOK, FilesTypeOK, RequestsTypeOK, OneVersion, Phases
<1>6. Released'
  BY DEF RightsTypeOK, FilesTypeOK, RequestsTypeOK, Released, Phases, Streaming
<1>7. ListIsRight'
  BY ScopedModels DEF RightsTypeOK, FilesTypeOK, RequestsTypeOK, ListIsRight, Phases, Recorded, Known
<1>8. Recorded'
  BY ScopedModels DEF RightsTypeOK, FilesTypeOK, RequestsTypeOK, Recorded, Phases, Known
<1>9. QED
  BY <1>1, <1>2, <1>3, <1>4, <1>5, <1>6, <1>7, <1>8

\* StreamEnds keeps the invariant.
LEMMA StreamEndsStep ==
  ASSUME IInv, NEW r \in Requests, StreamEnds(r)
  PROVE  IInv'
PROOF
<1> USE ModelsAssumption, AsksAssumption, GrantsAssumption
<1> USE DEF IInv, TypeOK, StreamEnds, Streaming, Close
<1> USE DEF request, signals, Contacting, Errors, Alive
<1>1. FilesTypeOK'
  BY ScopedModels DEF FilesTypeOK, RequestsTypeOK, RightsTypeOK, Known, Torn
<1>2. RightsTypeOK'
  BY DEF RightsTypeOK, FilesTypeOK, RequestsTypeOK
<1>3. RequestsTypeOK'
  BY DEF RightsTypeOK, FilesTypeOK, RequestsTypeOK
<1>4. Phases'
  BY DEF RightsTypeOK, FilesTypeOK, RequestsTypeOK, Phases
<1>5. OneVersion'
  BY DEF RightsTypeOK, FilesTypeOK, RequestsTypeOK, OneVersion, Phases
<1>6. Released'
  BY DEF RightsTypeOK, FilesTypeOK, RequestsTypeOK, Released, Phases, Streaming
<1>7. ListIsRight'
  BY ScopedModels DEF RightsTypeOK, FilesTypeOK, RequestsTypeOK, ListIsRight, Phases, Recorded, Known
<1>8. Recorded'
  BY ScopedModels DEF RightsTypeOK, FilesTypeOK, RequestsTypeOK, Recorded, Phases, Known
<1>9. QED
  BY <1>1, <1>2, <1>3, <1>4, <1>5, <1>6, <1>7, <1>8

\* Every step keeps the invariant.
LEMMA NextStep == IInv /\ [Next]_vars => IInv'
PROOF
<1> SUFFICES ASSUME IInv, [Next]_vars PROVE IInv'
  OBVIOUS
<1>1. ASSUME NEW r \in Requests, NEW a \in Asks, NEW k \in Grants \cup {Refused}, Arrive(r, a, k)
      PROVE  IInv'
  BY <1>1, ArriveStep
<1>2. ASSUME NEW r \in Requests, Forward(r) PROVE IInv'
  BY <1>2, BodyArrivesStep, BodyFailsStep, RespondedStep, UpstreamFailsStep, DiscardedStep,
     PrefetchedStep, TextArrivesStep, TagsArriveStep, TagsFailStep, ApfelSettlesStep DEF Forward
<1>3. ASSUME NEW r \in Requests, ClientLeaves(r) \/ TimerFires(r) \/ StreamEnds(r) PROVE IInv'
  BY <1>3, ClientLeavesStep, TimerFiresStep, StreamEndsStep
<1>4. CASE UNCHANGED vars
  <2> USE <1>4 DEF vars, request, signals
  <2>1. TypeOK'
    BY DEF IInv, TypeOK, RightsTypeOK, FilesTypeOK, RequestsTypeOK
  <2>2. Phases'
    BY DEF IInv, Phases
  <2>3. OneVersion' /\ Released'
    BY DEF IInv, OneVersion, Released, Streaming, Alive
  <2>4. ListIsRight' /\ Recorded'
    BY DEF IInv, ListIsRight, Recorded, Known
  <2>5. QED
    BY <2>1, <2>2, <2>3, <2>4 DEF IInv
<1>5. QED
  BY <1>1, <1>2, <1>3, <1>4 DEF Next

\* The invariant holds always.
THEOREM Invariance == Spec => []IInv
PROOF
BY InitIInv, NextStep, PTL DEF Spec

\* The types are right, and an upstream is contacted only for a request that
\* was let in.
THEOREM TypeCorrect == Spec => []TypeOK
PROOF
<1>1. IInv => TypeOK
  BY DEF IInv
<1>2. QED
  BY <1>1, Invariance, PTL

\* A request runs on the rights its key had when it was authenticated.
THEOREM OneVersionCorrect == Spec => []OneVersion
PROOF
<1>1. IInv => OneVersion
  BY DEF IInv
<1>2. QED
  BY <1>1, Invariance, PTL

\* No connection to a model server outlives its use.
THEOREM ReleasedCorrect == Spec => []Released
PROOF
<1>1. IInv => Released
  BY DEF IInv
<1>2. QED
  BY <1>1, Invariance, PTL

\* A list shows what the key may use, and all that was on record.
THEOREM ListIsRightCorrect == Spec => []ListIsRight
PROOF
<1>1. IInv => ListIsRight
  BY DEF IInv
<1>2. QED
  BY <1>1, Invariance, PTL

================================================================================
