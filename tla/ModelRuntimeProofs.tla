-------------------------- MODULE ModelRuntimeProofs --------------------------
(***************************************************************************)
(* Proofs about ModelRuntime, for any number of calls and models.          *)
(***************************************************************************)
EXTENDS ModelRuntime, TLAPS

USE DEF Waiting, Deciding, Working

(* What a call's place says of it.  The attempts of a start or stop begin  *)
(* at zero because a launch and a control of Apfel come before them.       *)
Phase(c) ==
  /\ pc[c] = "new" => after[c] = "first" /\ found[c] = "down" /\ effect[c] = "none"
  /\ pc[c] = "joined" => kind[c] # "check"
  /\ pc[c] = "tags" => model[c] \notin Apfels
  /\ pc[c] = "ps" => model[c] \in Locals
  /\ pc[c] \in {"health", "diagnostic", "confirm"} => model[c] \in Apfels
  /\ found[c] \in {"unsure", "loaded", "idle"} => model[c] \in Locals
  /\ effect[c] = "pending" => model[c] \in Locals \cup Apfels
  /\ found[c] \in IF model[c] \in Apfels THEN ApfelStatus ELSE OllamaStatus
  /\ after[c] = "first" => polls[c] = 0
  /\ pc[c] \in {"confirm", "launch"} => after[c] = "first"
  /\ pc[c] = "control" /\ model[c] \in Apfels => after[c] = "first"
  /\ pc[c] = "pause" => polls[c] < MaxPolls

Phases == \A c \in Calls : Phase(c)

(* Everything but the observer.                                            *)
Core == /\ WorldTypeOK /\ SharedTypeOK /\ CallsTypeOK
        /\ EntriesExact /\ NobodyStranded /\ Phases

IInv == Core /\ SeenTypeOK

(* Why a status after a control is no older than the control: it was sent  *)
(* right after a "/api/ps" settled, so the one then under way was not yet  *)
(* served, and whatever is served from then on is noted in seen.           *)
Claims == {"loaded", "idle", "sick", "ready"}
Sent(c) == pc[c] = "control" \/ (effect[c] = "answered" /\ pc[c] # "done")
PsSays(c) == IF model[c] \in psLoaded THEN "loaded" ELSE "idle"

Fresh(c) ==
  /\ pc[c] \in {"new", "joined"} => effect[c] = "none"
  /\ pc[c] = "control" => effect[c] # "none"
  /\ Sent(c) => Truths(c) \subseteq seen[c].sent
  /\ Sent(c) /\ ps = "served" /\ model[c] \in Locals => PsSays(c) \in seen[c].sent
  /\ effect[c] = "answered" /\ pc[c] \in {"diagnostic", "decide"} /\ found[c] \in Claims
       => found[c] \in Noted(c)
  /\ pc[c] = "decide" /\ found[c] \in {"loaded", "idle"} => ps = "none"

HInv == (\A c \in Calls : Fresh(c)) /\ ControlIsHonest

(* The services, their answers and a request that is served move no call.  *)
LEMMA ServicesKeep == IInv /\ Services => Core'
<1> SUFFICES ASSUME IInv, Services PROVE Core'
  OBVIOUS
<1> USE DEF IInv, Core, WorldTypeOK, world, shared, asked, locals
<1>0. \A c \in Calls : model[c] \in Apfels => "apfel" \in Providers
  BY DEF CallsTypeOK, Providers, Provider
<1>1. CASE TagsServed
  BY <1>1 DEF TagsServed, SharedTypeOK, CallsTypeOK, EntriesExact, NobodyStranded, Phases, Phase
<1>2. CASE PsServed
  BY <1>2 DEF PsServed, SharedTypeOK, CallsTypeOK, EntriesExact, NobodyStranded, Phases, Phase
<1>3. CASE Changed
  BY <1>3, BoundsAssumption
  DEF Changed, SharedTypeOK, CallsTypeOK, EntriesExact, NobodyStranded, Phases, Phase
<1>4. ASSUME NEW c \in Calls, ControlServed(c) PROVE Core'
  <2>1. WorldTypeOK' /\ SharedTypeOK'
    BY <1>0, <1>4 DEF ControlServed, SharedTypeOK, Phases, Phase
  <2>2. CallsTypeOK'
    BY <1>4 DEF ControlServed, CallsTypeOK
  <2>3. EntriesExact' /\ NobodyStranded' /\ Phases'
    BY <1>4 DEF ControlServed, CallsTypeOK, EntriesExact, NobodyStranded, Phases, Phase
  <2>4. QED
    BY <2>1, <2>2, <2>3
<1>5. ASSUME NEW p \in Providers, NEW lives \in BOOLEAN, Started(p, lives) PROVE Core'
  BY <1>5 DEF Started, SharedTypeOK, CallsTypeOK, EntriesExact, NobodyStranded, Phases, Phase
<1>6. QED
  BY <1>1, <1>2, <1>3, <1>4, <1>5 DEF Services

(* A step that moves one call between two places where it works alone, the *)
(* maps in flight, the shared requests and the launches being left as they *)
(* are.                                                                    *)
Alone == Working \ {"tags", "ps", "launch"}

LEMMA MovedAlone ==
  ASSUME IInv, NEW c \in Calls, NEW where \in Alone, pc[c] \in Alone,
         pc' = [pc EXCEPT ![c] = where],
         UNCHANGED <<shared, inFlight, launching, asked>>
  PROVE  EntriesExact' /\ NobodyStranded'
<1> USE DEF IInv, Core, CallsTypeOK, shared, asked, Alone
<1>1. EntriesExact'
  BY DEF EntriesExact
<1>2. NobodyStranded'
  BY DEF NobodyStranded
<1>3. QED
  BY <1>1, <1>2

(* An operation that settles answers its callers and leaves no entry.      *)
LEMMA FinishKeeps ==
  ASSUME IInv, NEW c \in Calls, NEW a \in Statuses \cup Errors, pc[c] \in Alone, Finish(c, a)
  PROVE  Core'
<1> USE DEF IInv, Core, Finish, CallsTypeOK, world, shared, asked, locals, Alone
<1>1. WorldTypeOK' /\ SharedTypeOK'
  BY DEF WorldTypeOK, SharedTypeOK
<1>2. CallsTypeOK'
  OBVIOUS
<1>3. EntriesExact'
  BY NamesAssumption DEF EntriesExact, SharedTypeOK, Keys, Kinds, Phases, Phase
<1>4. NobodyStranded'
  BY DEF NobodyStranded
<1>5. Phases'
  BY DEF Phases, Phase
<1>6. QED
  BY <1>1, <1>2, <1>3, <1>4, <1>5

(* A control is sent for a model of Ollama's own, or before any attempt.   *)
LEMMA SendControlKeeps ==
  ASSUME IInv, NEW c \in Calls, pc[c] \in Alone, SendControl(c),
         model[c] \in Locals \/ (model[c] \in Apfels /\ after[c] = "first")
  PROVE  Core'
<1> USE DEF IInv, Core, SendControl, GoOn, CallsTypeOK, world, shared, asked, locals
<1>1. WorldTypeOK' /\ SharedTypeOK'
  BY DEF WorldTypeOK, SharedTypeOK
<1>2. CallsTypeOK'
  OBVIOUS
<1>3. EntriesExact' /\ NobodyStranded'
  BY MovedAlone DEF Alone
<1>4. Phases'
  BY NamesAssumption DEF Phases, Phase, Alone
<1>5. QED
  BY <1>1, <1>2, <1>3, <1>4

(* A launch comes before any attempt; one under way is joined.             *)
LEMMA LaunchKeeps ==
  ASSUME IInv, NEW c \in Calls, pc[c] \in Alone, Launch(c), after[c] = "first"
  PROVE  Core'
<1> USE DEF IInv, Core, Launch, GoOn, CallsTypeOK, world, shared, asked, locals
<1>1. WorldTypeOK' /\ SharedTypeOK'
  BY DEF WorldTypeOK, SharedTypeOK, Providers
<1>2. CallsTypeOK'
  OBVIOUS
<1>3. EntriesExact'
  BY DEF EntriesExact, Alone
<1>4. NobodyStranded'
  BY DEF NobodyStranded, Alone
<1>5. Phases'
  BY DEF Phases, Phase, Alone
<1>6. QED
  BY <1>1, <1>2, <1>3, <1>4, <1>5

(* A call pauses while attempts are left, or asks the controller again.    *)
LEMMA GoesOnAlone ==
  ASSUME IInv, NEW c \in Calls, NEW where \in {"pause", "confirm"}, pc[c] \in Alone,
         GoOn(c, where), UNCHANGED <<effect, launching>>,
         where = "pause" => polls[c] < MaxPolls,
         where = "confirm" => model[c] \in Apfels /\ after[c] = "first"
  PROVE  Core'
<1> USE DEF IInv, Core, GoOn, CallsTypeOK, world, shared, asked, locals
<1>1. WorldTypeOK' /\ SharedTypeOK'
  BY DEF WorldTypeOK, SharedTypeOK
<1>2. CallsTypeOK'
  OBVIOUS
<1>3. EntriesExact' /\ NobodyStranded'
  BY MovedAlone DEF Alone
<1>4. Phases'
  BY DEF Phases, Phase, Alone
<1>5. QED
  BY <1>1, <1>2, <1>3, <1>4

(* Whatever the status found, the call goes on as one of the above.        *)
LEMMA DecideKeeps == ASSUME IInv, NEW c \in Calls, Decide(c) PROVE Core'
<1> USE DEF IInv, Core
<1>0. /\ found[c] \in Statuses /\ Phase(c)
      /\ {"loaded", "down", "not_supported", "failed", "not_available", "still_loaded"}
            \subseteq Statuses \cup Errors
  BY DEF CallsTypeOK, Phases, Statuses, OllamaStatus, ApfelStatus, Errors
<1>1. CASE DecideCheck(c)
  BY <1>0, <1>1, FinishKeeps DEF DecideCheck, Alone
<1>2. CASE DecideStart(c)
  <2> pc[c] \in Alone /\ after[c] = "first"
    BY <1>2 DEF DecideStart, Alone
  <2>1. CASE \E a \in {"loaded", "not_supported"} : Finish(c, a)
    BY <1>0, <2>1, FinishKeeps
  <2>2. CASE LoadsModel(c) /\ SendControl(c)
    BY <1>0, <2>2, SendControlKeeps DEF LoadsModel, Phase
  <2>3. CASE model[c] \in Apfels /\ GoOn(c, "confirm") /\ UNCHANGED <<effect, launching>>
    BY <2>3, GoesOnAlone
  <2>4. CASE Launch(c)
    BY <2>4, LaunchKeeps
  <2>5. QED
    BY <1>2, <2>1, <2>2, <2>3, <2>4 DEF DecideStart
<1>3. CASE DecideStarted(c)
  <2> pc[c] \in Alone
    BY <1>3 DEF DecideStarted, Alone
  <2>1. CASE polls[c] < MaxPolls /\ GoOn(c, "pause") /\ UNCHANGED <<effect, launching>>
    BY <2>1, GoesOnAlone
  <2>2. CASE \E a \in {"failed", "not_available", found[c]} : Finish(c, a)
    BY <1>0, <2>2, FinishKeeps
  <2>3. CASE found[c] = "idle" /\ SendControl(c)
    BY <1>0, <2>3, SendControlKeeps DEF Phase
  <2>4. QED
    BY <1>3, <2>1, <2>2, <2>3 DEF DecideStarted
<1>4. CASE DecideLoaded(c)
  BY <1>0, <1>4, FinishKeeps DEF DecideLoaded, Alone
<1>5. CASE DecideStop(c)
  <2> pc[c] \in Alone /\ after[c] = "first"
    BY <1>5 DEF DecideStop, Alone
  <2>1. CASE Finish(c, "not_supported")
    BY <1>0, <2>1, FinishKeeps
  <2>2. CASE UnloadsModel(c) /\ SendControl(c)
    BY <1>0, <2>2, SendControlKeeps DEF UnloadsModel, Phase
  <2>3. CASE StopsService(c) /\ GoOn(c, "confirm") /\ UNCHANGED <<effect, launching>>
    <3>1. model[c] \in Apfels
      BY <1>0, <2>3 DEF StopsService, Phase, OllamaStatus
    <3>2. QED
      BY <2>3, <3>1, GoesOnAlone
  <2>4. QED
    BY <1>5, <2>1, <2>2, <2>3 DEF DecideStop
<1>6. CASE DecideStopped(c)
  <2> pc[c] \in Alone
    BY <1>6 DEF DecideStopped, Alone
  <2>1. CASE polls[c] < MaxPolls /\ GoOn(c, "pause") /\ UNCHANGED <<effect, launching>>
    BY <2>1, GoesOnAlone
  <2>2. CASE \E a \in {"down", "failed"} : Finish(c, a)
    BY <1>0, <2>2, FinishKeeps
  <2>3. QED
    BY <1>6, <2>1, <2>2 DEF DecideStopped
<1>7. CASE DecideUnloaded(c)
  BY <1>0, <1>7, FinishKeeps DEF DecideUnloaded, Alone
<1>8. CASE Rejected(c)
  BY <1>0, <1>8, FinishKeeps DEF Rejected, Alone
<1>9. QED
  BY <1>1, <1>2, <1>3, <1>4, <1>5, <1>6, <1>7, <1>8 DEF Decide

(* A check is entered by the call that needs it, which sends the request   *)
(* for Ollama's catalogue or joins the one under way.                      *)
LEMMA EnteredCheck ==
  ASSUME IInv, NEW c \in Calls, NEW which, pc[c] \in Alone, EnterCheck(c, model[c], which),
         UNCHANGED <<ps, psLoaded, inFlight, launching, asked>>
  PROVE  SharedTypeOK' /\ EntriesExact' /\ NobodyStranded'
<1> USE DEF IInv, Core, CallsTypeOK, EnterCheck, asked, Alone
<1>1. SharedTypeOK'
  BY DEF SharedTypeOK
<1>2. EntriesExact'
  BY DEF EntriesExact
<1>3. NobodyStranded'
  BY DEF NobodyStranded
<1>4. QED
  BY <1>1, <1>2, <1>3

(* A new call joins a start or stop in flight, or becomes its entry.       *)
LEMMA BeginKeeps ==
  ASSUME IInv, NEW c \in Calls, NEW k \in Kinds, NEW m \in Models, Begin(c, k, m)
  PROVE  Core'
<1> USE DEF IInv, Core, Begin, CallsTypeOK, world, shared, asked, locals
<1>1. WorldTypeOK'
  BY DEF WorldTypeOK
<1>2. SharedTypeOK' /\ CallsTypeOK'
  <2>1. <<k, m>> \in Keys \/ k = "check"
    BY DEF Keys, Kinds
  <2>2. SharedTypeOK'
    <3>1. inFlight' \in [Keys -> Calls \cup {None}]
      BY <2>1 DEF SharedTypeOK
    <3>2. tags' \in {"none", "sent", "served"}
      BY DEF SharedTypeOK, EnterCheck
    <3>3. QED
      BY <3>1, <3>2 DEF SharedTypeOK
  <2>3. k # "check" /\ inFlight[<<k, m>>] # None => inFlight[<<k, m>>] \in Calls
    BY <2>1 DEF SharedTypeOK
  <2>4. owner' \in [Calls -> Calls]
    BY <2>3
  <2>5. kind' \in [Calls -> Kinds] /\ model' \in [Calls -> Models]
    OBVIOUS
  <2>6. pc' \in [Calls -> {"new", "joined", "done"} \cup Working]
    BY DEF EnterCheck, Working, Waiting
  <2>7. after' \in [Calls -> {"first", "poll", "last"}]
    BY DEF EnterCheck
  <2>8. UNCHANGED <<found, control, polls, effect, answer>>
    OBVIOUS
  <2>9. QED
    BY <2>2, <2>4, <2>5, <2>6, <2>7, <2>8
<1>3. EntriesExact'
  <2> USE NamesAssumption DEF EntriesExact
  <2>1. CASE k # "check" /\ inFlight[<<k, m>>] # None
    <3>1. /\ UNCHANGED inFlight /\ pc'[c] = "joined"
          /\ kind'[c] = k /\ model'[c] = m /\ owner'[c] = inFlight[<<k, m>>]
      BY <2>1
    <3>2. \A d \in Calls \ {c} : pc'[d] = pc[d] /\ kind'[d] = kind[d]
                                 /\ model'[d] = model[d] /\ owner'[d] = owner[d]
      BY <2>1
    <3>3. \A key \in Keys : inFlight[key] # c
      OBVIOUS
    <3>4. \A d \in Calls, key \in Keys :
             inFlight'[key] = d <=> (pc'[d] \in Working /\ key = <<kind'[d], model'[d]>>)
      BY <3>1, <3>2, <3>3
    <3>5. \A d \in Calls :
             pc'[d] = "joined" => inFlight'[<<kind'[d], model'[d]>>] = owner'[d]
      <4> HIDE DEF Begin, CallsTypeOK
      <4>1. inFlight'[<<kind'[c], model'[c]>>] = owner'[c]
        BY <3>1
      <4>2. ASSUME NEW d \in Calls \ {c}, pc'[d] = "joined"
            PROVE  inFlight'[<<kind'[d], model'[d]>>] = owner'[d]
        BY <3>1, <3>2, <4>2
      <4>3. QED
        BY <4>1, <4>2
    <3>6. QED
      BY <3>4, <3>5
  <2>2. CASE k = "check"
    <3>1. UNCHANGED inFlight /\ pc'[c] \in Working
      BY <2>2 DEF EnterCheck
    <3>2. \A d \in Calls \ {c} : pc'[d] = pc[d] /\ kind'[d] = kind[d]
                                 /\ model'[d] = model[d] /\ owner'[d] = owner[d]
      BY <2>2 DEF EnterCheck
    <3>3. \A key \in Keys : key # <<kind'[c], model'[c]>> /\ inFlight[key] # c
      <4>1. kind'[c] = "check" /\ pc[c] = "new"
        BY <2>2
      <4>2. \A key \in Keys : key[1] # "check"
        BY DEF Keys
      <4>3. pc[c] \notin Working
        BY <4>1 DEF Working, Waiting, Deciding
      <4> HIDE DEF Begin, CallsTypeOK
      <4>4. \A key \in Keys : inFlight[key] # c
        BY <4>3
      <4>5. QED
        BY <4>1, <4>2, <4>4
    <3>4. QED
      BY <3>1, <3>2, <3>3 DEF EnterCheck
  <2>3. CASE k # "check" /\ inFlight[<<k, m>>] = None
    <3>1. /\ inFlight' = [inFlight EXCEPT ![<<k, m>>] = c] /\ <<k, m>> \in Keys
          /\ pc'[c] \in Working /\ kind'[c] = k /\ model'[c] = m
      BY <2>3 DEF EnterCheck, Keys, Kinds
    <3>2. \A d \in Calls \ {c} : pc'[d] = pc[d] /\ kind'[d] = kind[d]
                                 /\ model'[d] = model[d] /\ owner'[d] = owner[d]
      BY <2>3 DEF EnterCheck
    <3>3. \A key \in Keys : inFlight'[key] = IF key = <<k, m>> THEN c ELSE inFlight[key]
      BY <3>1 DEF SharedTypeOK
    <3>4. \A key \in Keys : inFlight[key] # c
      OBVIOUS
    <3>5. \A d \in Calls : d # c /\ pc[d] = "joined" =>
             <<kind[d], model[d]>> \in Keys /\ <<kind[d], model[d]>> # <<k, m>>
      BY <2>3 DEF Keys, Kinds, Phases, Phase
    <3>6. \A d \in Calls, key \in Keys :
             inFlight'[key] = d <=> (pc'[d] \in Working /\ key = <<kind'[d], model'[d]>>)
      BY <2>3, <3>1, <3>2, <3>3, <3>4
    <3>7. QED
      BY <3>1, <3>2, <3>3, <3>5, <3>6
  <2>4. QED
    BY <2>1, <2>2, <2>3
<1>4. NobodyStranded'
  BY DEF NobodyStranded, EnterCheck
<1>5. Phases'
  BY DEF Phases, Phase, EnterCheck, OllamaStatus, ApfelStatus
<1>6. QED
  BY <1>1, <1>2, <1>3, <1>4, <1>5

LEMMA WakeKeeps == ASSUME IInv, NEW c \in Calls, Wake(c) PROVE Core'
<1> USE DEF IInv, Core, Wake, CallsTypeOK, world, shared, asked, locals
<1>1. SharedTypeOK' /\ EntriesExact' /\ NobodyStranded'
  BY EnteredCheck DEF Alone
<1>2. WorldTypeOK'
  BY DEF WorldTypeOK
<1>3. CallsTypeOK'
  BY BoundsAssumption DEF EnterCheck, Phases, Phase
<1>4. Phases'
  BY BoundsAssumption DEF EnterCheck, Phases, Phase
<1>5. QED
  BY <1>1, <1>2, <1>3, <1>4

LEMMA ControlAnsweredKeeps == ASSUME IInv, NEW c \in Calls, ControlAnswered(c) PROVE Core'
<1> USE DEF IInv, Core, ControlAnswered, CallsTypeOK, world, shared, asked, locals
<1>1. SharedTypeOK' /\ EntriesExact' /\ NobodyStranded'
  <2>1. CASE pc' = [pc EXCEPT ![c] = "pause"] /\ UNCHANGED tags
    BY <2>1, MovedAlone DEF Alone, SharedTypeOK
  <2>2. CASE \E which : EnterCheck(c, model[c], which)
    BY <2>2, EnteredCheck DEF Alone
  <2>3. QED
    BY <2>1, <2>2
<1>2. WorldTypeOK'
  BY DEF WorldTypeOK
<1>3. CallsTypeOK'
  BY DEF EnterCheck
<1>4. Phases'
  BY BoundsAssumption DEF EnterCheck, Phases, Phase
<1>5. QED
  BY <1>1, <1>2, <1>3, <1>4

(* The controller's second diagnostic decides how a service is started.    *)
LEMMA ConfirmedKeeps ==
  ASSUME IInv, NEW c \in Calls, NEW available \in BOOLEAN, Confirmed(c, available)
  PROVE  Core'
<1>1. pc[c] \in Alone /\ after[c] = "first" /\ model[c] \in Apfels
  BY DEF IInv, Core, Confirmed, Alone, Phases, Phase
<1>2. CASE SendControl(c)
  BY <1>1, <1>2, SendControlKeeps
<1>3. CASE Launch(c)
  BY <1>1, <1>3, LaunchKeeps
<1>4. CASE Finish(c, "not_supported")
  BY <1>1, <1>4, FinishKeeps DEF Errors
<1>5. QED
  BY <1>2, <1>3, <1>4 DEF Confirmed

LEMMA ControlFailsKeeps == ASSUME IInv, NEW c \in Calls, ControlFails(c) PROVE Core'
  BY FinishKeeps DEF ControlFails, Alone, Errors

(* Apfel's health and the diagnostic that follows it move one call alone.  *)
LEMMA ApfelCheckKeeps ==
  ASSUME IInv, NEW c \in Calls, NEW s \in ApfelStatus, NEW ok \in BOOLEAN,
         HealthAnswered(c, s) \/ Diagnosed(c, ok)
  PROVE  Core'
<1> USE DEF IInv, Core, HealthAnswered, Diagnosed, CallsTypeOK, world, shared, asked, locals
<1>1. WorldTypeOK' /\ SharedTypeOK'
  BY DEF WorldTypeOK, SharedTypeOK
<1>2. CallsTypeOK'
  BY DEF Statuses
<1>3. EntriesExact' /\ NobodyStranded'
  BY MovedAlone DEF Alone
<1>4. Phases'
  BY DEF Phases, Phase, ApfelStatus
<1>5. QED
  BY <1>1, <1>2, <1>3, <1>4

(* The answer of the shared catalogue wakes everyone who waits for it; the *)
(* first that needs the loaded models asks for them.                       *)
LEMMA TagsSettledKeeps == ASSUME IInv, NEW ok \in BOOLEAN, TagsSettled(ok) PROVE Core'
<1> USE DEF IInv, Core, TagsSettled, CallsTypeOK, world, shared, asked, locals
<1>1. WorldTypeOK' /\ SharedTypeOK'
  BY DEF WorldTypeOK, SharedTypeOK
<1>2. CallsTypeOK'
  BY DEF Statuses, OllamaStatus
<1>3. EntriesExact'
  BY DEF EntriesExact
<1>4. NobodyStranded'
  BY DEF NobodyStranded
<1>5. Phases'
  BY NamesAssumption DEF Phases, Phase, OllamaStatus
<1>6. QED
  BY <1>1, <1>2, <1>3, <1>4, <1>5

LEMMA PsSettledKeeps == ASSUME IInv, NEW ok \in BOOLEAN, PsSettled(ok) PROVE Core'
<1> USE DEF IInv, Core, PsSettled, CallsTypeOK, world, shared, asked, locals
<1>1. WorldTypeOK' /\ SharedTypeOK'
  BY DEF WorldTypeOK, SharedTypeOK
<1>2. CallsTypeOK'
  BY DEF Statuses, OllamaStatus
<1>3. EntriesExact'
  BY DEF EntriesExact
<1>4. NobodyStranded'
  BY DEF NobodyStranded
<1>5. Phases'
  BY NamesAssumption DEF Phases, Phase, OllamaStatus
<1>6. QED
  BY <1>1, <1>2, <1>3, <1>4, <1>5

(* A launcher's answer wakes everyone who waits for that launch.           *)
LEMMA SpawnedKeeps ==
  ASSUME IInv, NEW p \in Providers, NEW ok \in BOOLEAN, Spawned(p, ok) PROVE Core'
<1> USE DEF IInv, Core, Spawned, CallsTypeOK, world, shared, asked, locals
<1>1. WorldTypeOK' /\ SharedTypeOK'
  BY DEF WorldTypeOK, SharedTypeOK
<1>2. CallsTypeOK'
  OBVIOUS
<1>3. EntriesExact'
  BY DEF EntriesExact
<1>4. NobodyStranded'
  BY DEF NobodyStranded
<1>5. Phases'
  BY BoundsAssumption DEF Phases, Phase
<1>6. QED
  BY <1>1, <1>2, <1>3, <1>4, <1>5

(* The observer notes statuses and nothing else.                           *)
LEMMA ObserveKeeps == IInv /\ Observe => SeenTypeOK'
<1> SUFFICES ASSUME IInv, Observe PROVE SeenTypeOK'
  OBVIOUS
<1>1. \A c \in Calls : Truths(c)' \subseteq Statuses
  BY DEF Truths, Statuses, OllamaStatus, ApfelStatus
<1>2. \A c \in Calls : seen[c].sent \subseteq Statuses /\ seen[c].answered \subseteq Statuses
                       /\ seen[c] \in [sent : SUBSET Statuses, answered : SUBSET Statuses]
  BY DEF IInv, SeenTypeOK
<1>3. QED
  BY <1>1, <1>2 DEF Observe, SeenTypeOK

LEMMA InitIInv == Init => IInv
<1> SUFFICES ASSUME Init PROVE IInv
  OBVIOUS
<1> USE DEF Init
<1>1. WorldTypeOK /\ SharedTypeOK /\ CallsTypeOK /\ SeenTypeOK
  BY BoundsAssumption, ModelsAssumption
  DEF WorldTypeOK, SharedTypeOK, CallsTypeOK, SeenTypeOK, Kinds, Statuses, ApfelStatus
<1>2. EntriesExact /\ NobodyStranded
  BY NamesAssumption DEF EntriesExact, NobodyStranded
<1>3. Phases
  BY DEF Phases, Phase, OllamaStatus, ApfelStatus
<1>4. QED
  BY <1>1, <1>2, <1>3 DEF IInv, Core

LEMMA NextKeeps == IInv /\ [Next]_vars => IInv'
<1> SUFFICES ASSUME IInv, [Next]_vars PROVE IInv'
  OBVIOUS
<1>1. CASE Next
  <2>1. CASE Gateway
    <3>1. Core'
      <4>1. CASE \E ok \in BOOLEAN : TagsSettled(ok) \/ PsSettled(ok)
        BY <4>1, TagsSettledKeeps, PsSettledKeeps
      <4>2. CASE \E p \in Providers, ok \in BOOLEAN : Spawned(p, ok)
        BY <4>2, SpawnedKeeps
      <4>3. ASSUME NEW c \in Calls,
                   Decide(c) \/ Wake(c) \/ ControlAnswered(c) \/ ControlFails(c)
            PROVE  Core'
        BY <4>3, DecideKeeps, WakeKeeps, ControlAnsweredKeeps, ControlFailsKeeps
      <4>4. ASSUME NEW c \in Calls, NEW s \in ApfelStatus, HealthAnswered(c, s)
            PROVE  Core'
        BY <4>4, ApfelCheckKeeps
      <4>5. ASSUME NEW c \in Calls, NEW ok \in BOOLEAN, Diagnosed(c, ok) \/ Confirmed(c, ok)
            PROVE  Core'
        <5>1. "down" \in ApfelStatus
          BY DEF ApfelStatus
        <5>2. QED
          BY <4>5, <5>1, ApfelCheckKeeps, ConfirmedKeeps
      <4>6. QED
        BY <2>1, <4>1, <4>2, <4>3, <4>4, <4>5 DEF Gateway
    <3>2. QED
      BY <1>1, <3>1, ObserveKeeps DEF Next, IInv
  <2>2. CASE Services
    BY <1>1, <2>2, ServicesKeep, ObserveKeeps DEF Next, IInv
  <2>3. ASSUME NEW c \in Calls, NEW k \in Kinds, NEW m \in Models, Begin(c, k, m) PROVE IInv'
    BY <1>1, <2>3, BeginKeeps, ObserveKeeps DEF Next, IInv
  <2>4. QED
    BY <1>1, <2>1, <2>2, <2>3 DEF Next
<1>2. CASE UNCHANGED vars
  BY <1>2 DEF vars, world, shared, asked, locals, IInv, Core, WorldTypeOK, SharedTypeOK,
     CallsTypeOK, SeenTypeOK, EntriesExact, NobodyStranded, Phases, Phase
<1>3. QED
  BY <1>1, <1>2

LEMMA Inductive == Spec => []IInv
  BY InitIInv, NextKeeps, PTL DEF Spec

(* For any calls and models the state is well typed and no call makes more *)
(* attempts than MaxPolls.                                                 *)
THEOREM TypeCorrect == Spec => []TypeOK
<1>1. IInv => TypeOK
  BY DEF IInv, Core, TypeOK
<1>2. QED
  BY <1>1, Inductive, PTL

(* For any calls and models, whatever the services do: one call at a time  *)
(* works on a start or stop of a model, and the entry of the map is its.   *)
THEOREM EntriesExactCorrect == Spec => []EntriesExact
<1>1. IInv => EntriesExact
  BY DEF IInv, Core
<1>2. QED
  BY <1>1, Inductive, PTL

(* For any calls and models, no call waits for a shared request or launch  *)
(* that is not under way, and none is under way that nobody waits for.     *)
THEOREM NobodyStrandedCorrect == Spec => []NobodyStranded
<1>1. IInv => NobodyStranded
  BY DEF IInv, Core
<1>2. QED
  BY <1>1, Inductive, PTL

(* What every step does to a call, as far as Fresh depends on it: whatever *)
(* it newly says is true now or was noted before.                          *)
NotedBefore(c) == IF model'[c] \in Apfels THEN seen[c].answered ELSE seen[c].sent
Step(c) ==
  /\ pc[c] = "done" => /\ pc'[c] = "done" /\ answer'[c] = answer[c] /\ model'[c] = model[c]
                       /\ effect'[c] = "answered" => effect[c] = "answered"
  /\ pc'[c] \in {"new", "joined"} => effect'[c] = "none"
  /\ pc'[c] = "control" => effect'[c] # "none"
  /\ Sent(c)' /\ ps' = "served" /\ model'[c] \in Locals =>
       \/ PsSays(c)' \in Truths(c)'
       \/ /\ PsSays(c)' \in seen[c].sent
          /\ effect[c] = "pending" \/ effect'[c] # "pending"
  /\ effect'[c] = "answered" /\ pc'[c] \in {"diagnostic", "decide"} /\ found'[c] \in Claims =>
       found'[c] \in Truths(c)' \cup NotedBefore(c)
  /\ pc'[c] = "decide" /\ found'[c] \in {"loaded", "idle"} => ps' = "none"
  /\ pc[c] # "done" /\ pc'[c] = "done" /\ effect'[c] = "answered" /\ answer'[c] \in Claims =>
       answer'[c] \in NotedBefore(c)

LEMMA StepKeeps ==
  ASSUME IInv, HInv, Observe, \A c \in Calls : Step(c)
  PROVE  HInv'
<1>1. ASSUME NEW c \in Calls, pc[c] # "done", effect'[c] # "none"
      PROVE  /\ Truths(c)' \subseteq seen'[c].sent
             /\ effect[c] = "pending" \/ effect'[c] # "pending" =>
                  seen[c].sent \subseteq seen'[c].sent
             /\ effect'[c] = "answered" =>
                  Truths(c)' \cup NotedBefore(c) \subseteq Noted(c)'
  BY <1>1 DEF Observe, Noted, NotedBefore
<1>2. ASSUME NEW c \in Calls PROVE Fresh(c)'
  <2>0. Step(c)
    OBVIOUS
  <2>1. Sent(c)' => pc[c] # "done" /\ effect'[c] # "none"
    BY <2>0 DEF Step, Sent
  <2>2. (Sent(c) => Truths(c) \subseteq seen[c].sent)'
    BY <1>1, <2>1
  <2>3. (Sent(c) /\ ps = "served" /\ model[c] \in Locals => PsSays(c) \in seen[c].sent)'
    BY <1>1, <2>0, <2>1 DEF Step
  <2>4. (effect[c] = "answered" /\ pc[c] \in {"diagnostic", "decide"} /\ found[c] \in Claims
           => found[c] \in Noted(c))'
    BY <1>1, <2>0 DEF Step
  <2>5. QED
    BY <2>0, <2>2, <2>3, <2>4 DEF Step, Fresh
<1>3. ControlIsHonest'
  <2> SUFFICES ASSUME NEW c \in Calls, pc'[c] = "done", effect'[c] = "answered",
                      answer'[c] \in Claims
               PROVE  answer'[c] \in Noted(c)'
    BY DEF ControlIsHonest, Claims
  <2>0. Step(c)
    OBVIOUS
  <2>1. CASE pc[c] = "done"
    BY <2>0, <2>1 DEF Step, Observe, HInv, ControlIsHonest, Claims, Noted
  <2>2. CASE pc[c] # "done"
    BY <1>1, <2>0, <2>2 DEF Step
  <2>3. QED
    BY <2>1, <2>2
<1>4. QED
  BY <1>2, <1>3 DEF HInv

LEMMA ServicesStep == IInv /\ HInv /\ Services => \A c \in Calls : Step(c)
<1> SUFFICES ASSUME IInv, HInv, Services, NEW c \in Calls PROVE Step(c)
  OBVIOUS
<1> USE DEF IInv, Core, CallsTypeOK, HInv, Fresh, Noted, NotedBefore,
            Step, world, shared, asked, locals
<1>1. CASE TagsServed
  BY <1>1 DEF TagsServed, Sent, PsSays, Truths
<1>2. CASE PsServed
  <2>1. model[c] \in Locals => PsSays(c)' \in Truths(c)'
    BY <1>2, NamesAssumption DEF PsServed, PsSays, Truths
  <2>2. QED
    BY <1>2, <2>1 DEF PsServed, Sent, Quiet
<1>3. CASE Changed
  BY <1>3 DEF Changed, Sent, PsSays, Truths
<1>4. ASSUME NEW d \in Calls, ControlServed(d) PROVE Step(c)
  BY <1>4 DEF ControlServed, Sent, PsSays, Truths
<1>5. ASSUME NEW p \in Providers, NEW lives \in BOOLEAN, Started(p, lives) PROVE Step(c)
  BY <1>5 DEF Started, Sent, PsSays, Truths
<1>6. QED
  BY <1>1, <1>2, <1>3, <1>4, <1>5 DEF Services

LEMMA FinishStep ==
  ASSUME IInv, HInv, NEW c \in Calls, NEW a, pc[c] \in Alone, Finish(c, a),
         a \in Claims => pc[c] = "decide" /\ a = found[c]
  PROVE  \A d \in Calls : Step(d)
<1> SUFFICES ASSUME NEW d \in Calls PROVE Step(d)
  OBVIOUS
<1> USE DEF IInv, Core, CallsTypeOK, HInv, Fresh, Noted, NotedBefore,
            Finish, world, shared, asked, locals, Alone
<1>1. PsSays(d)' = PsSays(d)
  BY DEF PsSays
<1>2. Sent(d)' => Sent(d)
  BY DEF Sent
<1>3. CASE pc'[d] = pc[d]
  BY <1>1, <1>2, <1>3 DEF Step
<1>4. CASE d = c
  BY <1>1, <1>2, <1>4 DEF Step, Sent
<1>5. CASE pc[d] = "joined" /\ pc'[d] = "done"
  BY <1>1, <1>2, <1>5 DEF Step, Sent
<1>6. QED
  BY <1>3, <1>4, <1>5

LEMMA GoOnStep ==
  ASSUME IInv, HInv, NEW c \in Calls, NEW where \in {"control", "launch", "confirm", "pause"},
         pc[c] \in Alone, GoOn(c, where),
         IF where = "control" THEN effect' = [effect EXCEPT ![c] = "pending"]
                              ELSE UNCHANGED effect,
         where = "control" => ps = "none" \/ model[c] \in Apfels
  PROVE  \A d \in Calls : Step(d)
<1> SUFFICES ASSUME NEW d \in Calls PROVE Step(d)
  OBVIOUS
<1> USE DEF IInv, Core, CallsTypeOK, HInv, Fresh, Noted, NotedBefore,
            GoOn, world, shared, asked, locals, Alone
<1>1. PsSays(d)' = PsSays(d)
  BY DEF PsSays
<1>2. CASE d = c
  BY <1>1, <1>2, NamesAssumption DEF Step, Sent
<1>3. CASE d # c
  BY <1>1, <1>3 DEF Step, Sent
<1>4. QED
  BY <1>2, <1>3

LEMMA DecideStep ==
  ASSUME IInv, HInv, NEW c \in Calls, Decide(c) PROVE \A d \in Calls : Step(d)
<1>1. CASE \E a : /\ Finish(c, a) /\ pc[c] \in {"decide", "rejected"}
                  /\ a \in Claims => pc[c] = "decide" /\ a = found[c]
  BY <1>1, FinishStep DEF Alone
<1>2. CASE SendControl(c) /\ pc[c] = "decide" /\ found[c] \in {"loaded", "idle"}
  <2>1. ps = "none"
    BY <1>2 DEF HInv, Fresh
  <2>2. QED
    BY <1>2, <2>1, GoOnStep DEF SendControl, Alone
<1>3. CASE /\ pc[c] = "decide" /\ UNCHANGED effect
           /\ \E where \in {"launch", "confirm", "pause"} : GoOn(c, where)
  BY <1>3, GoOnStep DEF Alone
<1>4. QED
  <2> USE DEF Claims
  <2>1. CASE DecideCheck(c)
    BY <1>1, <2>1 DEF DecideCheck
  <2>2. CASE DecideStart(c)
    BY <1>1, <1>2, <1>3, <2>2 DEF DecideStart, LoadsModel, Launch
  <2>3. CASE DecideStarted(c)
    BY <1>1, <1>2, <1>3, <2>3 DEF DecideStarted
  <2>4. CASE DecideLoaded(c)
    BY <1>1, <2>4 DEF DecideLoaded
  <2>5. CASE DecideStop(c)
    BY <1>1, <1>2, <1>3, <2>5 DEF DecideStop, UnloadsModel
  <2>6. CASE DecideStopped(c)
    BY <1>1, <1>3, <2>6 DEF DecideStopped
  <2>7. CASE DecideUnloaded(c)
    BY <1>1, <2>7 DEF DecideUnloaded
  <2>8. CASE Rejected(c)
    BY <1>1, <2>8 DEF Rejected
  <2>9. QED
    BY <2>1, <2>2, <2>3, <2>4, <2>5, <2>6, <2>7, <2>8 DEF Decide

LEMMA ConfirmedStep ==
  ASSUME IInv, HInv, NEW c \in Calls, NEW available \in BOOLEAN, Confirmed(c, available)
  PROVE  \A d \in Calls : Step(d)
<1>1. pc[c] \in Alone /\ model[c] \in Apfels
  BY DEF IInv, Core, Confirmed, Alone, Phases, Phase
<1>2. CASE SendControl(c)
  BY <1>1, <1>2, GoOnStep DEF SendControl
<1>3. CASE Launch(c)
  BY <1>1, <1>3, GoOnStep DEF Launch
<1>4. CASE Finish(c, "not_supported")
  BY <1>1, <1>4, FinishStep DEF Claims
<1>5. QED
  BY <1>2, <1>3, <1>4 DEF Confirmed

LEMMA ControlFailsStep ==
  ASSUME IInv, HInv, NEW c \in Calls, ControlFails(c) PROVE \A d \in Calls : Step(d)
  BY FinishStep DEF ControlFails, Alone, Claims

(* A new check, an attempt, or the check after an answered control.        *)
LEMMA EnterStep ==
  ASSUME IInv, HInv, NEW c \in Calls,
         Wake(c) \/ ControlAnswered(c) \/ (\E k \in Kinds, m \in Models : Begin(c, k, m))
  PROVE  \A d \in Calls : Step(d)
<1> SUFFICES ASSUME NEW d \in Calls PROVE Step(d)
  OBVIOUS
<1> USE DEF IInv, Core, CallsTypeOK, HInv, Fresh, Noted, NotedBefore,
            world, shared, asked, locals, EnterCheck, PsSays, Sent, Step
<1>1. CASE Wake(c)
  BY <1>1 DEF Wake
<1>2. CASE ControlAnswered(c)
  BY <1>2 DEF ControlAnswered
<1>3. ASSUME NEW k \in Kinds, NEW m \in Models, Begin(c, k, m) PROVE Step(d)
  BY <1>3 DEF Begin, Phases, Phase
<1>4. QED
  BY <1>1, <1>2, <1>3

(* The shared requests, and a launcher's answer.                           *)
LEMMA SettledStep ==
  ASSUME IInv, HInv,
         \/ \E ok \in BOOLEAN : TagsSettled(ok) \/ PsSettled(ok)
         \/ \E p \in Providers, ok \in BOOLEAN : Spawned(p, ok)
  PROVE  \A d \in Calls : Step(d)
<1> SUFFICES ASSUME NEW d \in Calls PROVE Step(d)
  OBVIOUS
<1> USE DEF IInv, Core, CallsTypeOK, HInv, Fresh, Noted, NotedBefore,
            world, shared, asked, locals, Sent, Step, Quiet
<1>1. ASSUME NEW ok \in BOOLEAN, TagsSettled(ok) PROVE Step(d)
  BY <1>1 DEF TagsSettled, PsSays, Claims
<1>2. ASSUME NEW ok \in BOOLEAN, PsSettled(ok) PROVE Step(d)
  BY <1>2, NamesAssumption DEF PsSettled, PsSays, Claims, Phases, Phase
<1>3. ASSUME NEW p \in Providers, NEW ok \in BOOLEAN, Spawned(p, ok) PROVE Step(d)
  BY <1>3 DEF Spawned, PsSays
<1>4. QED
  BY <1>1, <1>2, <1>3

(* Apfel's health is true when it is answered, and noted with it.          *)
LEMMA ApfelCheckStep ==
  ASSUME IInv, HInv, NEW c \in Calls, NEW s \in ApfelStatus, NEW ok \in BOOLEAN,
         HealthAnswered(c, s) \/ Diagnosed(c, ok)
  PROVE  \A d \in Calls : Step(d)
<1> SUFFICES ASSUME NEW d \in Calls PROVE Step(d)
  OBVIOUS
<1> USE DEF IInv, Core, CallsTypeOK, HInv, Fresh, Noted, NotedBefore,
            world, shared, asked, locals, Sent, PsSays
<1>1. CASE HealthAnswered(c, s)
  BY <1>1 DEF HealthAnswered, Step, Truths, Claims, Phases, Phase, ApfelStatus
<1>2. CASE Diagnosed(c, ok)
  BY <1>2 DEF Diagnosed, Step, Truths, Claims, Phases, Phase, ApfelStatus
<1>3. QED
  BY <1>1, <1>2

LEMMA InitHInv == Init => HInv
  BY DEF Init, HInv, Fresh, Sent, Noted, ControlIsHonest

LEMMA NextHonest == IInv /\ HInv /\ [Next]_vars => HInv'
<1> SUFFICES ASSUME IInv, HInv, [Next]_vars PROVE HInv'
  OBVIOUS
<1>1. CASE Next
  <2>1. ASSUME NEW c \in Calls, Decide(c) \/ ControlFails(c)
        PROVE  \A d \in Calls : Step(d)
    BY <2>1, DecideStep, ControlFailsStep
  <2>2. ASSUME NEW c \in Calls, NEW s \in ApfelStatus, HealthAnswered(c, s)
        PROVE  \A d \in Calls : Step(d)
    BY <2>2, ApfelCheckStep
  <2>3. ASSUME NEW c \in Calls, NEW ok \in BOOLEAN, Diagnosed(c, ok) \/ Confirmed(c, ok)
        PROVE  \A d \in Calls : Step(d)
    <3>1. "down" \in ApfelStatus
      BY DEF ApfelStatus
    <3>2. QED
      BY <2>3, <3>1, ApfelCheckStep, ConfirmedStep
  <2>4. ASSUME Gateway PROVE \A d \in Calls : Step(d)
    <3>1. CASE \/ \E ok \in BOOLEAN : TagsSettled(ok) \/ PsSettled(ok)
               \/ \E p \in Providers, ok \in BOOLEAN : Spawned(p, ok)
      BY <3>1, SettledStep
    <3>2. CASE \E c \in Calls : Wake(c) \/ ControlAnswered(c)
      BY <3>2, EnterStep
    <3>3. QED
      BY <2>1, <2>2, <2>3, <2>4, <3>1, <3>2 DEF Gateway
  <2>5. \A d \in Calls : Step(d)
    BY <1>1, <2>4, EnterStep, ServicesStep DEF Next
  <2>6. QED
    BY <1>1, <2>5, StepKeeps DEF Next
<1>2. CASE UNCHANGED vars
  BY <1>2 DEF vars, world, shared, asked, locals, HInv, Fresh, Sent, PsSays, Truths,
     Noted, ControlIsHonest
<1>3. QED
  BY <1>1, <1>2

(* For any calls, models and behaviour of the services, a call whose       *)
(* control was answered tells of the model what was true at some moment    *)
(* since it sent the control, however the requests behind the status are   *)
(* shared, and of Apfel since the control was answered.                    *)
THEOREM ControlIsHonestCorrect == Spec => []ControlIsHonest
<1>1. HInv => ControlIsHonest
  BY DEF HInv
<1>2. QED
  BY <1>1, Inductive, InitHInv, NextHonest, PTL DEF Spec

--------------------------------------------------------------------------------
(* How far a call is at most from its answer: its checks come in an order  *)
(* ("first", the attempts, "last"), each is over after two requests, and   *)
(* only an attempt is repeated, which uses one up.                         *)
Place(c) ==
  IF pc[c] \in {"control", "launch"} THEN 0
  ELSE IF pc[c] = "confirm" THEN 1
  ELSE IF pc[c] = "decide" THEN 2
  ELSE IF pc[c] \in {"ps", "diagnostic"} THEN 3
  ELSE IF pc[c] \in {"tags", "health"} THEN 4 ELSE 5

Remaining(c) ==
  LET left == 6 * (MaxPolls - polls[c])
  IN  IF pc[c] = "done" THEN 0
      ELSE IF pc[c] \in {"joined", "rejected"} THEN 1
      ELSE IF pc[c] = "pause" THEN 7 + left
      ELSE IF after[c] = "first" THEN 11 + 6 * MaxPolls + Place(c)
      ELSE IF pc[c] = "control" THEN 5
      ELSE IF after[c] = "poll" THEN 6 + left + Place(c)
      ELSE Place(c)

Farthest == 16 + 6 * MaxPolls

Kept(c) == pc'[c] = pc[c] /\ after'[c] = after[c] /\ polls'[c] = polls[c]
Nearer(c) == Remaining(c)' < Remaining(c)
Forward == \A c \in Calls : Kept(c) \/ Nearer(c)

LEMMA RemainingBounded ==
  ASSUME IInv, NEW c \in Calls
  PROVE  Remaining(c) \in 0 .. Farthest /\ (pc[c] # "done" => Remaining(c) > 0)
<1>1. /\ MaxPolls \in Nat /\ polls[c] \in 0 .. MaxPolls /\ Place(c) \in 0 .. 5
      /\ after[c] \in {"first", "poll", "last"}
  BY BoundsAssumption DEF IInv, Core, CallsTypeOK, Place
<1>2. /\ pc[c] \in {"confirm", "launch"} => after[c] = "first"
      /\ pc[c] \in {"new", "joined", "done"} \cup Working
  BY DEF IInv, Core, CallsTypeOK, Phases, Phase
<1>3. pc[c] \notin {"control", "launch"} => Place(c) > 0
  BY DEF Place
<1>4. QED
  BY <1>1, <1>2, <1>3 DEF Remaining, Farthest

LEMMA FinishNearer ==
  ASSUME IInv, NEW c \in Calls, NEW a, pc[c] \in Alone, Finish(c, a)
  PROVE  Forward /\ Nearer(c)
<1>1. ASSUME NEW d \in Calls, pc[d] # "done", pc'[d] = "done" PROVE Nearer(d)
  <2>1. Remaining(d) \in Nat \ {0} /\ Remaining(d)' = 0
    BY <1>1, RemainingBounded, BoundsAssumption DEF Remaining, Farthest
  <2>2. QED
    BY <2>1 DEF Nearer
<1>2. \A d \in Calls : Kept(d) \/ (pc[d] # "done" /\ pc'[d] = "done")
  BY DEF Finish, Kept, IInv, Core, CallsTypeOK, locals
<1>3. pc[c] # "done" /\ pc'[c] = "done"
  BY DEF Finish, Alone, IInv, Core, CallsTypeOK
<1>4. QED
  BY <1>1, <1>2, <1>3 DEF Forward

(* A call that decided goes on to a control or a launch, which come once,  *)
(* or to another attempt while some are left.                              *)
LEMMA GoOnNearer ==
  ASSUME IInv, NEW c \in Calls, NEW where \in {"control", "launch", "confirm", "pause"},
         GoOn(c, where), pc[c] \in {"decide", "confirm"},
         where = "control" => after[c] \in {"first", "poll"},
         where = "launch" => after[c] = "first",
         where = "confirm" => after[c] = "first" /\ pc[c] = "decide",
         where = "pause" => after[c] = "poll"
  PROVE  Forward /\ Nearer(c)
<1>1. \A d \in Calls \ {c} : Kept(d)
  BY DEF GoOn, Kept, IInv, Core, CallsTypeOK, locals
<1>2. /\ MaxPolls \in Nat /\ polls[c] \in 0 .. MaxPolls
      /\ pc'[c] = where /\ UNCHANGED <<after, polls>>
      /\ pc[c] = "confirm" => after[c] = "first"
  BY BoundsAssumption DEF GoOn, IInv, Core, CallsTypeOK, locals, Phases, Phase
<1>3. Nearer(c)
  BY <1>2 DEF Nearer, Remaining, Place
<1>4. QED
  BY <1>1, <1>3 DEF Forward

LEMMA DecideNearer == ASSUME IInv, NEW c \in Calls, Decide(c) PROVE Forward /\ Nearer(c)
<1>1. CASE pc[c] \in {"decide", "rejected"} /\ \E a : Finish(c, a)
  BY <1>1, FinishNearer DEF Alone
<1>2. CASE pc[c] = "decide" /\ after[c] = "first"
             /\ \E where \in {"control", "launch", "confirm"} : GoOn(c, where)
  BY <1>2, GoOnNearer
<1>3. CASE pc[c] = "decide" /\ after[c] = "poll"
             /\ \E where \in {"control", "pause"} : GoOn(c, where)
  BY <1>3, GoOnNearer
<1>4. QED
  BY <1>1, <1>2, <1>3 DEF Decide, DecideCheck, DecideStart, DecideStarted, DecideLoaded,
     DecideStop, DecideStopped, DecideUnloaded, Rejected, SendControl, Launch

LEMMA ConfirmedNearer ==
  ASSUME IInv, NEW c \in Calls, NEW available \in BOOLEAN, Confirmed(c, available)
  PROVE  Forward /\ Nearer(c)
<1>1. pc[c] = "confirm" /\ after[c] = "first"
  BY DEF Confirmed, IInv, Core, Phases, Phase
<1>2. CASE \E where \in {"control", "launch"} : GoOn(c, where)
  BY <1>1, <1>2, GoOnNearer
<1>3. CASE \E a : Finish(c, a)
  BY <1>1, <1>3, FinishNearer DEF Alone
<1>4. QED
  BY <1>2, <1>3 DEF Confirmed, SendControl, Launch

(* A step that enters a check leaves what comes before it: the wait for    *)
(* the attempt, the control, or the beginning.                             *)
LEMMA EnterNearer ==
  ASSUME IInv, NEW c \in Calls,
         Wake(c) \/ ControlAnswered(c) \/ (\E k \in Kinds, m \in Models : Begin(c, k, m))
  PROVE  Forward /\ Nearer(c)
<1>1. \A d \in Calls \ {c} : Kept(d)
  <2> SUFFICES ASSUME NEW d \in Calls \ {c} PROVE Kept(d)
    OBVIOUS
  <2> USE DEF EnterCheck, Kept, IInv, Core, CallsTypeOK, locals
  <2>1. CASE Wake(c)
    BY <2>1 DEF Wake
  <2>2. CASE ControlAnswered(c)
    BY <2>2 DEF ControlAnswered
  <2>3. ASSUME NEW k \in Kinds, NEW m \in Models, Begin(c, k, m) PROVE Kept(d)
    BY <2>3 DEF Begin
  <2>4. QED
    BY <2>1, <2>2, <2>3
<1>2. /\ MaxPolls \in Nat /\ polls[c] \in 0 .. MaxPolls
      /\ after[c] \in {"first", "poll", "last"} /\ (after[c] = "first" => polls[c] = 0)
  BY BoundsAssumption DEF IInv, Core, CallsTypeOK, Phases, Phase
<1>3. ASSUME Wake(c) PROVE Nearer(c)
  <2>1. /\ pc[c] = "pause" /\ polls[c] < MaxPolls /\ pc'[c] \in {"tags", "health"}
        /\ after'[c] = "poll" /\ polls'[c] = polls[c] + 1
    BY <1>3 DEF Wake, EnterCheck, IInv, Core, CallsTypeOK, Phases, Phase
  <2>2. QED
    BY <1>2, <2>1 DEF Nearer, Remaining, Place
<1>4. ASSUME ControlAnswered(c) PROVE Nearer(c)
  <2>1. /\ pc[c] = "control" /\ polls'[c] = polls[c]
        /\ \/ after[c] = "first" /\ pc'[c] = "pause" /\ after'[c] = "first"
           \/ after[c] = "first" /\ pc'[c] \in {"tags", "health"} /\ after'[c] = "poll"
           \/ pc'[c] \in {"tags", "health"} /\ after'[c] = "last"
    BY <1>4
    DEF ControlAnswered, EnterCheck, IInv, Core, CallsTypeOK, locals, Phases, Phase
  <2>2. QED
    BY <1>2, <2>1 DEF Nearer, Remaining, Place
<1>5. ASSUME NEW k \in Kinds, NEW m \in Models, Begin(c, k, m) PROVE Nearer(c)
  <2>1. /\ pc[c] = "new" /\ after[c] = "first" /\ after'[c] = "first" /\ polls'[c] = polls[c]
        /\ pc'[c] \in {"joined", "tags", "health"}
    BY <1>5 DEF Begin, EnterCheck, IInv, Core, CallsTypeOK, Phases, Phase
  <2>2. QED
    BY <1>2, <2>1 DEF Nearer, Remaining, Place
<1>6. QED
  BY <1>1, <1>3, <1>4, <1>5 DEF Forward

(* The answer of a request or launch that calls share brings all of them   *)
(* forward, and there is one: nothing is under way that nobody waits for.  *)
LEMMA SettledNearer ==
  ASSUME IInv, \/ \E ok \in BOOLEAN : TagsSettled(ok) \/ PsSettled(ok)
               \/ \E p \in Providers, ok \in BOOLEAN : Spawned(p, ok)
  PROVE  Forward /\ \E c \in Calls : Nearer(c)
<1> DEFINE Woken(c) ==
      /\ UNCHANGED <<after, polls>>
      /\ \/ pc[c] = "tags" /\ pc'[c] \in {"ps", "decide"}
         \/ pc[c] = "ps" /\ pc'[c] = "decide"
         \/ pc[c] = "launch" /\ pc'[c] \in {"pause", "rejected"}
<1> USE DEF IInv, Core, CallsTypeOK, locals
<1>1. ASSUME NEW c \in Calls, Woken(c) PROVE Nearer(c)
  <2>1. /\ MaxPolls \in Nat /\ polls[c] \in 0 .. MaxPolls
        /\ after[c] \in {"first", "poll", "last"}
        /\ pc[c] = "launch" => after[c] = "first" /\ polls[c] = 0
    BY BoundsAssumption DEF Phases, Phase
  <2>2. QED
    BY <1>1, <2>1 DEF Nearer, Remaining, Place
<1>2. ASSUME NEW ok \in BOOLEAN, TagsSettled(ok)
      PROVE  (\A c \in Calls : Kept(c) \/ Woken(c)) /\ \E c \in Calls : Woken(c)
  BY <1>2 DEF TagsSettled, Kept, NobodyStranded
<1>3. ASSUME NEW ok \in BOOLEAN, PsSettled(ok)
      PROVE  (\A c \in Calls : Kept(c) \/ Woken(c)) /\ \E c \in Calls : Woken(c)
  BY <1>3 DEF PsSettled, Kept, NobodyStranded
<1>4. ASSUME NEW p \in Providers, NEW ok \in BOOLEAN, Spawned(p, ok)
      PROVE  (\A c \in Calls : Kept(c) \/ Woken(c)) /\ \E c \in Calls : Woken(c)
  BY <1>4 DEF Spawned, Kept, NobodyStranded
<1>5. QED
  BY <1>1, <1>2, <1>3, <1>4 DEF Forward

LEMMA ApfelCheckNearer ==
  ASSUME IInv, NEW c \in Calls, NEW s \in ApfelStatus, NEW ok \in BOOLEAN,
         HealthAnswered(c, s) \/ Diagnosed(c, ok)
  PROVE  Forward /\ Nearer(c)
<1> USE DEF IInv, Core, CallsTypeOK, HealthAnswered, Diagnosed
<1>1. \A d \in Calls \ {c} : Kept(d)
  BY DEF Kept
<1>2. /\ MaxPolls \in Nat /\ polls[c] \in 0 .. MaxPolls /\ UNCHANGED <<after, polls>>
      /\ \/ pc[c] = "health" /\ pc'[c] = "diagnostic"
         \/ pc[c] = "diagnostic" /\ pc'[c] = "decide"
  BY BoundsAssumption
<1>3. Nearer(c)
  BY <1>2 DEF Nearer, Remaining, Place
<1>4. QED
  BY <1>1, <1>3 DEF Forward

LEMMA GatewayForward == ASSUME IInv, Gateway PROVE Forward /\ \E c \in Calls : Nearer(c)
<1>1. ASSUME NEW c \in Calls, Decide(c) \/ Wake(c) \/ ControlAnswered(c) \/ ControlFails(c)
      PROVE  Forward /\ Nearer(c)
  BY <1>1, DecideNearer, EnterNearer, FinishNearer DEF ControlFails, Alone
<1>2. ASSUME NEW c \in Calls, NEW s \in ApfelStatus, HealthAnswered(c, s)
      PROVE  Forward /\ Nearer(c)
  BY <1>2, ApfelCheckNearer
<1>3. ASSUME NEW c \in Calls, NEW ok \in BOOLEAN, Diagnosed(c, ok) \/ Confirmed(c, ok)
      PROVE  Forward /\ Nearer(c)
  <2>1. "down" \in ApfelStatus
    BY DEF ApfelStatus
  <2>2. QED
    BY <1>3, <2>1, ApfelCheckNearer, ConfirmedNearer
<1>4. QED
  BY <1>1, <1>2, <1>3, SettledNearer DEF Gateway

Bounded == \A c \in Calls : Remaining(c) \in 0 .. Farthest

(* What a step may never do to the calls: take one back, or, if it ends an *)
(* await of the gateway, bring none nearer to its answer.                  *)
WaitsShrink ==
  /\ \A c \in Calls : Remaining(c)' <= Remaining(c)
  /\ Gateway => \E c \in Calls : Remaining(c)' < Remaining(c)

(* For any calls, models and behaviour of the services, "the manager stops *)
(* waiting after bounded requests" (README.md:240): a call is answered     *)
(* after at most Farthest steps of its own, none of which is undone by     *)
(* other calls, by the services or by a request that it shares, and the    *)
(* gateway has no step that brings no call nearer.  With the fairness of   *)
(* FairSpec this is why every call is answered.                            *)
THEOREM WaitsAreBounded == Spec => []Bounded /\ [][WaitsShrink]_vars
<1>1. IInv => Bounded
  BY RemainingBounded DEF Bounded
<1>2. ASSUME IInv, Bounded, Bounded', [Next]_vars PROVE [WaitsShrink]_vars
  <2> SUFFICES ASSUME Next PROVE WaitsShrink
    BY <1>2
  <2>1. Forward
    <3>1. CASE Services
      <4>1. \A c \in Calls : Kept(c)
        BY <1>2, <3>1
        DEF Services, TagsServed, PsServed, Changed, ControlServed, Started, Kept, locals
      <4>2. QED
        BY <4>1 DEF Forward
    <3>2. QED
      BY <1>2, <3>1, GatewayForward, EnterNearer DEF Next
  <2>2. ASSUME NEW c \in Calls PROVE Remaining(c)' <= Remaining(c)
    <3>1. Remaining(c) \in Nat /\ Remaining(c)' \in Nat
      BY <1>2, BoundsAssumption DEF Bounded, Farthest
    <3>2. Kept(c) => Remaining(c)' = Remaining(c)
      BY DEF Kept, Remaining, Place
    <3>3. QED
      BY <2>1, <3>1, <3>2 DEF Forward, Nearer
  <2>3. QED
    BY <1>2, <2>2, GatewayForward DEF WaitsShrink, Nearer
<1>3. QED
  BY <1>1, <1>2, Inductive, PTL DEF Spec

=============================================================================
