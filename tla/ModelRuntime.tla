----------------------------- MODULE ModelRuntime -----------------------------
(***************************************************************************)
(* src/models/runtime.ts: the administrator's status checks, starts and    *)
(* stops of models, run concurrently by one ModelRuntimeManager over       *)
(* Ollama and Apfel, which the gateway does not own: they start, stop,     *)
(* load and unload without it too.                                         *)
(*                                                                         *)
(* A step is what the event loop runs between two awaits.  "pc" names what *)
(* a call awaits; the answer of a request that several calls share wakes   *)
(* all of them, and each then decides ("decide") before anything else runs.*)
(* A request has three moments: it is sent, the service serves it, and its *)
(* answer, an error or its timeout arrives.  Both targets are configured:  *)
(* "not_configured", an answer without any request, is left out.           *)
(***************************************************************************)
EXTENDS Naturals, FiniteSets

CONSTANTS
  Calls,                    \* calls of checkModel, startModel and stopModel
  Locals, Clouds, Absents,  \* Ollama's own models, its cloud models, names it lacks
  Apfels,                   \* {apple-foundationmodel}, or none
  None,                     \* no call
  Controlled,               \* canControlOllamaModel(ollamaTarget)
  MayLaunch,                \* the providers with canStartService(target)
  HostControl,              \* Apfel's target is local and a controller is configured
  MaxPolls,                 \* the attempts after a service was started or stopped: 8
  MaxChanges                \* bound: what happens to the services without the gateway

Models == Locals \cup Clouds \cup Absents \cup Apfels
Provider(m) == IF m \in Apfels THEN "apfel" ELSE "ollama"
Providers == {Provider(m) : m \in Models}
Kinds == {"check", "start", "stop"}
Keys == {"start", "stop"} \X Models

ASSUME ModelsAssumption == Models # {}
ASSUME NamesAssumption ==
  /\ None \notin Calls
  /\ Locals \cap (Clouds \cup Absents \cup Apfels) = {}
  /\ Clouds \cap (Absents \cup Apfels) = {} /\ Absents \cap Apfels = {}
\* isLoopbackTarget, the condition of a launch, implies canControlOllamaModel
ASSUME TargetAssumption ==
  /\ {Controlled, HostControl} \subseteq BOOLEAN
  /\ MayLaunch \subseteq Providers
  /\ "ollama" \in MayLaunch => Controlled
ASSUME BoundsAssumption == MaxPolls \in Nat \ {0} /\ MaxChanges \in Nat

VARIABLES
  up, loaded,     \* the services that answer, and the models Ollama holds
  starting,       \* services whose process runs and does not answer yet
  changes,        \* counts the changes made by others
  tags, ps,       \* ollamaTagsInFlight, ollamaRunningInFlight
  psLoaded,       \* what the served "/api/ps" says
  inFlight,       \* startInFlight and stopInFlight: key -> the call that works
  launching,      \* serviceLaunchInFlight
  kind, model,    \* what each call asks
  owner,          \* the call whose operation it awaits
  pc,             \* what it awaits
  after,          \* which checkModel of the operation: first, poll or last
  found, control, \* the status found, and apfelServiceDiagnostic().available
  polls,          \* the attempts made
  effect,         \* the request for control: none, pending, done, answered
  answer,         \* a status, or the error
  seen            \* observer: what was true since the control was sent, answered

world == <<up, loaded, starting, changes>>
shared == <<tags, ps, psLoaded>>
asked == <<kind, model, owner>>
locals == <<after, found, control, polls>>
vars == <<world, shared, inFlight, launching, asked, pc, locals, effect, answer, seen>>

OllamaStatus == {"down", "absent", "cloud", "unsure", "loaded", "idle"}
ApfelStatus == {"down", "sick", "ready"}
Errors == {"not_supported", "failed", "not_available", "still_loaded"}
Waiting == {"tags", "ps", "health", "diagnostic", "confirm", "launch", "control", "pause"}
Deciding == {"decide", "rejected"}
Working == Waiting \cup Deciding
Quiet == \A c \in Calls : pc[c] \notin Deciding

Init ==
  /\ up \in SUBSET Providers /\ starting = {} /\ changes = 0
  /\ loaded \in SUBSET IF "ollama" \in up THEN Locals ELSE {}
  /\ tags = "none" /\ ps = "none" /\ psLoaded = {}
  /\ inFlight = [k \in Keys |-> None] /\ launching = {}
  /\ kind = [c \in Calls |-> "check"] /\ owner = [c \in Calls |-> c]
  /\ model = [c \in Calls |-> CHOOSE m \in Models : TRUE]
  /\ pc = [c \in Calls |-> "new"] /\ after = [c \in Calls |-> "first"]
  /\ found = [c \in Calls |-> "down"] /\ control = [c \in Calls |-> FALSE]
  /\ polls = [c \in Calls |-> 0] /\ effect = [c \in Calls |-> "none"]
  /\ answer = [c \in Calls |-> "none"]
  /\ seen = [c \in Calls |-> [sent |-> {}, answered |-> {}]]

(***************************************************************************)
(* checkModel: Ollama's catalogue and then, for a model of its own, the    *)
(* loaded ones; or Apfel's health and then the controller's diagnostic.    *)
(***************************************************************************)

\* ollamaTags: a request in flight is joined
EnterCheck(c, m, which) ==
  /\ pc' = [pc EXCEPT ![c] = IF m \in Apfels THEN "health" ELSE "tags"]
  /\ tags' = IF m \notin Apfels /\ tags = "none" THEN "sent" ELSE tags
  /\ after' = [after EXCEPT ![c] = which]

TagsServed ==
  /\ Quiet /\ tags = "sent" /\ "ollama" \in up
  /\ tags' = "served"
  /\ UNCHANGED <<world, ps, psLoaded, inFlight, launching, asked, pc, locals, effect, answer>>

\* every waiting call goes on; the first that needs "/api/ps" sends it
TagsSettled(ok) ==
  /\ Quiet /\ tags # "none" /\ (ok => tags = "served")
  /\ LET waiting == {c \in Calls : pc[c] = "tags"}
         asking  == {c \in waiting : ok /\ model[c] \in Locals}
     IN  /\ pc' = [c \in Calls |-> IF c \in asking THEN "ps"
                                   ELSE IF c \in waiting THEN "decide" ELSE pc[c]]
         /\ found' = [c \in Calls |-> IF c \notin waiting \ asking THEN found[c]
                                      ELSE IF ~ok THEN "down"
                                      ELSE IF model[c] \in Clouds THEN "cloud" ELSE "absent"]
         /\ ps' = IF asking # {} /\ ps = "none" THEN "sent" ELSE ps
  /\ tags' = "none"
  /\ UNCHANGED <<world, psLoaded, inFlight, launching, asked, after, control, polls, effect, answer>>

PsServed ==
  /\ Quiet /\ ps = "sent" /\ "ollama" \in up
  /\ ps' = "served" /\ psLoaded' = loaded
  /\ UNCHANGED <<world, tags, inFlight, launching, asked, pc, locals, effect, answer>>

\* A mistake: the answer is kept, for the next check to join.
PsSettledCached(ok) ==
  /\ Quiet /\ ps # "none" /\ (ok => ps = "served")
  /\ \E c \in Calls : pc[c] = "ps"
  /\ LET waiting == {c \in Calls : pc[c] = "ps"}
     IN  /\ pc' = [c \in Calls |-> IF c \in waiting THEN "decide" ELSE pc[c]]
         /\ found' = [c \in Calls |-> IF c \notin waiting THEN found[c]
                                      ELSE IF ~ok THEN "unsure"
                                      ELSE IF model[c] \in psLoaded THEN "loaded" ELSE "idle"]
  /\ ps' = IF ok THEN "served" ELSE "none"
  /\ psLoaded' = IF ok THEN psLoaded ELSE {}
  /\ UNCHANGED <<world, tags, inFlight, launching, asked, after, control, polls, effect, answer>>

PsSettled(ok) ==
  /\ Quiet /\ ps # "none" /\ (ok => ps = "served")
  /\ LET waiting == {c \in Calls : pc[c] = "ps"}
     IN  /\ pc' = [c \in Calls |-> IF c \in waiting THEN "decide" ELSE pc[c]]
         /\ found' = [c \in Calls |-> IF c \notin waiting THEN found[c]
                                      ELSE IF ~ok THEN "unsure"
                                      ELSE IF model[c] \in psLoaded THEN "loaded" ELSE "idle"]
  /\ ps' = "none" /\ psLoaded' = {}
  /\ UNCHANGED <<world, tags, inFlight, launching, asked, after, control, polls, effect, answer>>

\* served and answered in one step: the diagnostic that follows ages the answer
HealthAnswered(c, s) ==
  /\ Quiet /\ pc[c] = "health" /\ (s # "down" => "apfel" \in up)
  /\ found' = [found EXCEPT ![c] = s]
  /\ pc' = [pc EXCEPT ![c] = "diagnostic"]
  /\ UNCHANGED <<world, shared, inFlight, launching, asked, after, control, polls, effect, answer>>

Diagnosed(c, available) ==
  /\ Quiet /\ pc[c] = "diagnostic" /\ (available => HostControl)
  /\ control' = [control EXCEPT ![c] = available]
  /\ pc' = [pc EXCEPT ![c] = "decide"]
  /\ UNCHANGED <<world, shared, inFlight, launching, asked, after, found, polls, effect, answer>>

(***************************************************************************)
(* The calls: checkModel, startModel and stopModel.                        *)
(***************************************************************************)

\* startModel and stopModel: a start or stop of the model in flight is joined
Begin(c, k, m) ==
  /\ Quiet /\ pc[c] = "new"
  /\ kind' = [kind EXCEPT ![c] = k] /\ model' = [model EXCEPT ![c] = m]
  /\ \/ /\ k # "check" /\ inFlight[<<k, m>>] # None
        /\ owner' = [owner EXCEPT ![c] = inFlight[<<k, m>>]]
        /\ pc' = [pc EXCEPT ![c] = "joined"]
        /\ UNCHANGED <<inFlight, tags, after>>
     \/ /\ k # "check" => inFlight[<<k, m>>] = None
        /\ inFlight' = IF k = "check" THEN inFlight ELSE [inFlight EXCEPT ![<<k, m>>] = c]
        /\ EnterCheck(c, m, "first")
        /\ UNCHANGED owner
  /\ UNCHANGED <<world, ps, psLoaded, launching, found, control, polls, effect, answer>>

\* A mistake: the entry goes after a success only, "then" for "finally".
FinishKeepsFailed(c, a) ==
  LET answered == {d \in Calls : d = c \/ (pc[d] = "joined" /\ owner[d] = c)}
  IN  /\ pc' = [d \in Calls |-> IF d \in answered THEN "done" ELSE pc[d]]
      /\ answer' = [d \in Calls |-> IF d \in answered THEN a ELSE answer[d]]
      /\ inFlight' = IF kind[c] = "check" \/ a \in Errors THEN inFlight
                     ELSE [inFlight EXCEPT ![<<kind[c], model[c]>>] = None]
      /\ UNCHANGED <<world, shared, launching, asked, locals, effect>>

\* the operation settles: its entry goes, then everyone who awaits it is answered
Finish(c, a) ==
  LET answered == {d \in Calls : d = c \/ (pc[d] = "joined" /\ owner[d] = c)}
  IN  /\ pc' = [d \in Calls |-> IF d \in answered THEN "done" ELSE pc[d]]
      /\ answer' = [d \in Calls |-> IF d \in answered THEN a ELSE answer[d]]
      /\ inFlight' = IF kind[c] = "check" THEN inFlight
                     ELSE [inFlight EXCEPT ![<<kind[c], model[c]>>] = None]
      /\ UNCHANGED <<world, shared, launching, asked, locals, effect>>

\* what a status offers, canStartService and canControlOllamaModel included
CanLaunch(c) == Provider(model[c]) \in MayLaunch
StartsService(c) == found[c] = "down" /\ (CanLaunch(c) \/ (model[c] \in Apfels /\ control[c]))
LoadsModel(c) == found[c] = "idle" /\ Controlled
UnloadsModel(c) == found[c] = "loaded" /\ Controlled
StopsService(c) == found[c] \in {"sick", "ready"} /\ control[c]

GoOn(c, where) ==
  /\ pc' = [pc EXCEPT ![c] = where]
  /\ UNCHANGED <<world, shared, inFlight, asked, locals, answer>>

\* POST /api/generate, or the controller's POST /services/apfel/...
SendControl(c) ==
  /\ GoOn(c, "control")
  /\ effect' = [effect EXCEPT ![c] = "pending"]
  /\ UNCHANGED launching

\* launchService: a launch in flight is joined
Launch(c) ==
  /\ GoOn(c, "launch")
  /\ launching' = launching \cup {Provider(model[c])}
  /\ UNCHANGED effect

DecideCheck(c) ==
  /\ pc[c] = "decide" /\ kind[c] = "check"
  /\ Finish(c, found[c])

\* startModelBounded up to its first control
DecideStart(c) ==
  /\ pc[c] = "decide" /\ kind[c] = "start" /\ after[c] = "first"
  /\ \/ found[c] = "loaded" /\ Finish(c, "loaded")
     \/ /\ found[c] # "loaded" /\ ~StartsService(c) /\ ~LoadsModel(c)
        /\ Finish(c, "not_supported")
     \/ LoadsModel(c) /\ SendControl(c)
     \/ StartsService(c) /\ model[c] \in Apfels /\ GoOn(c, "confirm") /\ UNCHANGED <<effect, launching>>
     \/ StartsService(c) /\ model[c] \notin Apfels /\ Launch(c)

\* the second diagnostic, asked before a service is started or stopped
Confirmed(c, available) ==
  /\ Quiet /\ pc[c] = "confirm" /\ (available => HostControl)
  /\ \/ available /\ SendControl(c)
     \/ ~available /\ kind[c] = "start" /\ CanLaunch(c) /\ Launch(c)
     \/ ~available /\ ~(kind[c] = "start" /\ CanLaunch(c)) /\ Finish(c, "not_supported")

\* A mistake: a launch that failed stays in the map.
SpawnedKeepsFailed(p, ok) ==
  /\ Quiet /\ p \in launching
  /\ LET waiting == {c \in Calls : pc[c] = "launch" /\ Provider(model[c]) = p}
     IN  /\ pc' = [c \in Calls |-> IF c \notin waiting THEN pc[c]
                                   ELSE IF ok THEN "pause" ELSE "rejected"]
         /\ effect' = [c \in Calls |-> IF c \in waiting /\ ok THEN "done" ELSE effect[c]]
  /\ launching' = IF ok THEN launching \ {p} ELSE launching
  /\ starting' = IF ok /\ p \notin up THEN starting \cup {p} ELSE starting
  /\ UNCHANGED <<up, loaded, changes, shared, inFlight, asked, locals, answer>>

\* the launcher's "spawn" or "error"
Spawned(p, ok) ==
  /\ Quiet /\ p \in launching
  /\ LET waiting == {c \in Calls : pc[c] = "launch" /\ Provider(model[c]) = p}
     IN  /\ pc' = [c \in Calls |-> IF c \notin waiting THEN pc[c]
                                   ELSE IF ok THEN "pause" ELSE "rejected"]
         /\ effect' = [c \in Calls |-> IF c \in waiting /\ ok THEN "done" ELSE effect[c]]
  /\ launching' = launching \ {p}
  /\ starting' = IF ok /\ p \notin up THEN starting \cup {p} ELSE starting
  /\ UNCHANGED <<up, loaded, changes, shared, inFlight, asked, locals, answer>>

Rejected(c) == pc[c] = "rejected" /\ Finish(c, "failed")

\* wait(500) between the attempts
Wake(c) ==
  /\ Quiet /\ pc[c] = "pause"
  /\ EnterCheck(c, model[c], "poll")
  /\ polls' = [polls EXCEPT ![c] = @ + 1]
  /\ UNCHANGED <<world, ps, psLoaded, inFlight, launching, asked, found, control, effect, answer>>

\* A mistake: one attempt too many.
DecideStartedLate(c) ==
  /\ pc[c] = "decide" /\ kind[c] = "start" /\ after[c] = "poll"
  /\ \/ found[c] = "down" /\ polls[c] <= MaxPolls /\ GoOn(c, "pause") /\ UNCHANGED <<effect, launching>>
     \/ found[c] = "down" /\ polls[c] > MaxPolls /\ Finish(c, "failed")
     \/ found[c] = "idle" /\ SendControl(c)
     \/ found[c] \in {"absent", "sick"} /\ Finish(c, "not_available")
     \/ found[c] \in {"cloud", "unsure", "loaded", "ready"} /\ Finish(c, found[c])

\* the attempts after a start, and what follows the first that succeeds
DecideStarted(c) ==
  /\ pc[c] = "decide" /\ kind[c] = "start" /\ after[c] = "poll"
  /\ \/ found[c] = "down" /\ polls[c] < MaxPolls /\ GoOn(c, "pause") /\ UNCHANGED <<effect, launching>>
     \/ found[c] = "down" /\ polls[c] >= MaxPolls /\ Finish(c, "failed")
     \/ found[c] = "idle" /\ SendControl(c)
     \/ found[c] \in {"absent", "sick"} /\ Finish(c, "not_available")
     \/ found[c] \in {"cloud", "unsure", "loaded", "ready"} /\ Finish(c, found[c])

\* the status after the load
DecideLoaded(c) ==
  /\ pc[c] = "decide" /\ kind[c] = "start" /\ after[c] = "last"
  /\ Finish(c, found[c])

\* stopModelBounded up to its control
DecideStop(c) ==
  /\ pc[c] = "decide" /\ kind[c] = "stop" /\ after[c] = "first"
  /\ \/ ~UnloadsModel(c) /\ ~StopsService(c) /\ Finish(c, "not_supported")
     \/ UnloadsModel(c) /\ SendControl(c)
     \/ StopsService(c) /\ GoOn(c, "confirm") /\ UNCHANGED <<effect, launching>>

\* the attempts after Apfel was stopped
DecideStopped(c) ==
  /\ pc[c] = "decide" /\ kind[c] = "stop" /\ after[c] = "poll"
  /\ \/ found[c] = "down" /\ Finish(c, "down")
     \/ found[c] # "down" /\ polls[c] < MaxPolls /\ GoOn(c, "pause") /\ UNCHANGED <<effect, launching>>
     \/ found[c] # "down" /\ polls[c] >= MaxPolls /\ Finish(c, "failed")

\* the status after the unload
DecideUnloaded(c) ==
  /\ pc[c] = "decide" /\ kind[c] = "stop" /\ after[c] = "last"
  /\ Finish(c, IF found[c] = "loaded" THEN "still_loaded" ELSE found[c])

\* a good answer to the request for control
ControlAnswered(c) ==
  /\ Quiet /\ pc[c] = "control" /\ effect[c] = "done"
  /\ \/ /\ model[c] \in Apfels /\ kind[c] = "start"
        /\ pc' = [pc EXCEPT ![c] = "pause"] /\ UNCHANGED <<tags, after>>
     \/ model[c] \in Apfels /\ kind[c] = "stop" /\ EnterCheck(c, model[c], "poll")
     \/ model[c] \notin Apfels /\ EnterCheck(c, model[c], "last")
  /\ effect' = [effect EXCEPT ![c] = "answered"]
  /\ UNCHANGED <<world, ps, psLoaded, inFlight, launching, asked, found, control, polls, answer>>

\* A mistake: no timeout, a request that is not served is awaited for ever.
ControlFailsUntimed(c) ==
  /\ Quiet /\ pc[c] = "control" /\ effect[c] # "pending"
  /\ Finish(c, "failed")

\* an error, or the timeout of a request that may be served all the same
ControlFails(c) ==
  /\ Quiet /\ pc[c] = "control"
  /\ Finish(c, "failed")

(***************************************************************************)
(* The services.                                                           *)
(***************************************************************************)

\* a request is served, perhaps after the gateway gave up; brew's "start" is
\* done when launchd has the process, its "stop" when the process is gone
ControlServed(c) ==
  /\ Quiet /\ effect[c] = "pending"
  /\ effect' = [effect EXCEPT ![c] = "done"]
  /\ IF model[c] \in Apfels
     THEN /\ up' = IF kind[c] = "stop" THEN up \ {"apfel"} ELSE up
          /\ starting' = IF kind[c] = "stop" THEN starting \ {"apfel"}
                         ELSE starting \cup ({"apfel"} \ up)
          /\ UNCHANGED loaded
     ELSE /\ "ollama" \in up
          /\ loaded' = IF kind[c] = "stop" THEN loaded \ {model[c]} ELSE loaded \cup {model[c]}
          /\ UNCHANGED <<up, starting>>
  /\ UNCHANGED <<changes, shared, inFlight, launching, asked, pc, locals, answer>>

\* a started service answers, or dies first
Started(p, lives) ==
  /\ Quiet /\ p \in starting
  /\ starting' = starting \ {p}
  /\ up' = IF lives THEN up \cup {p} ELSE up
  /\ UNCHANGED <<loaded, changes, shared, inFlight, launching, asked, pc, locals, effect, answer>>

\* others: inference loads a model, its time runs out, a service goes down or up
Changed ==
  /\ Quiet /\ changes < MaxChanges
  /\ changes' = changes + 1
  /\ \/ \E m \in Locals : "ollama" \in up /\ loaded' = loaded \cup {m} /\ UNCHANGED up
     \/ \E m \in loaded : loaded' = loaded \ {m} /\ UNCHANGED up
     \/ \E p \in up : /\ up' = up \ {p}
                      /\ loaded' = IF p = "ollama" THEN {} ELSE loaded
     \/ \E p \in Providers \ up : up' = up \cup {p} /\ UNCHANGED loaded
  /\ UNCHANGED <<starting, shared, inFlight, launching, asked, pc, locals, effect, answer>>

(***************************************************************************)
(* What an observer of the services notes for each call: what was true of  *)
(* its model at some moment since its last control was sent, and since a   *)
(* good answer to it arrived.                                              *)
(***************************************************************************)
Truths(c) ==
  IF model[c] \in Apfels THEN (IF "apfel" \in up THEN {"sick", "ready"} ELSE {"down"})
  ELSE IF "ollama" \notin up THEN {"down"}
  ELSE IF model[c] \in loaded THEN {"loaded"} ELSE {"idle"}

Observe ==
  seen' = [c \in Calls |->
    IF pc[c] = "done" THEN seen[c]
    ELSE [sent |-> IF effect'[c] = "none" THEN {}
                   ELSE IF effect[c] # "pending" /\ effect'[c] = "pending" THEN Truths(c)'
                   ELSE seen[c].sent \cup Truths(c)',
          answered |-> IF effect'[c] = "answered" THEN seen[c].answered \cup Truths(c)'
                       ELSE {}]]

Decide(c) ==
  DecideCheck(c) \/ DecideStart(c) \/ DecideStarted(c) \/ DecideLoaded(c)
    \/ DecideStop(c) \/ DecideStopped(c) \/ DecideUnloaded(c) \/ Rejected(c)

\* what ends an await: an answer, an error, a timer
Gateway ==
  \/ \E ok \in BOOLEAN : TagsSettled(ok) \/ PsSettled(ok)
  \/ \E p \in Providers, ok \in BOOLEAN : Spawned(p, ok)
  \/ \E c \in Calls : \/ Decide(c) \/ Wake(c) \/ ControlAnswered(c) \/ ControlFails(c)
                      \/ \E s \in ApfelStatus : HealthAnswered(c, s)
                      \/ \E ok \in BOOLEAN : Diagnosed(c, ok) \/ Confirmed(c, ok)

Services ==
  \/ TagsServed \/ PsServed \/ Changed
  \/ \E c \in Calls : ControlServed(c)
  \/ \E p \in Providers, lives \in BOOLEAN : Started(p, lives)

Next ==
  /\ \/ Gateway \/ Services
     \/ \E c \in Calls, k \in Kinds, m \in Models : Begin(c, k, m)
  /\ Observe

Spec == Init /\ [][Next]_vars
\* every await of the gateway ends: its requests and timers are bounded
FairSpec == Spec /\ WF_vars(Gateway /\ Observe)

(***************************************************************************)
(* Properties.                                                             *)
(***************************************************************************)

\* The types of the variables; an attempt beyond MaxPolls is never made.
Statuses == OllamaStatus \cup ApfelStatus
WorldTypeOK ==
  /\ up \subseteq Providers /\ loaded \subseteq Locals /\ starting \subseteq Providers
  /\ changes \in 0..MaxChanges
SharedTypeOK ==
  /\ tags \in {"none", "sent", "served"} /\ ps \in {"none", "sent", "served"}
  /\ psLoaded \subseteq Locals
  /\ inFlight \in [Keys -> Calls \cup {None}] /\ launching \subseteq Providers
CallsTypeOK ==
  /\ kind \in [Calls -> Kinds] /\ model \in [Calls -> Models] /\ owner \in [Calls -> Calls]
  /\ pc \in [Calls -> {"new", "joined", "done"} \cup Working]
  /\ after \in [Calls -> {"first", "poll", "last"}]
  /\ found \in [Calls -> Statuses] /\ control \in [Calls -> BOOLEAN]
  /\ polls \in [Calls -> 0..MaxPolls]
  /\ effect \in [Calls -> {"none", "pending", "done", "answered"}]
  /\ answer \in [Calls -> {"none"} \cup Statuses \cup Errors]
SeenTypeOK ==
  seen \in [Calls -> [sent : SUBSET Statuses, answered : SUBSET Statuses]]
TypeOK == WorldTypeOK /\ SharedTypeOK /\ CallsTypeOK /\ SeenTypeOK

\* The maps of operations in flight are exact: an entry names the one call that
\* works on that start or stop of that model, and whoever joined waits for the
\* entry that is there now. So duplicate controls are coalesced (README.md:240)
\* and no later start is answered by an operation that is over.
EntriesExact ==
  /\ \A c \in Calls, key \in Keys :
       inFlight[key] = c <=> (pc[c] \in Working /\ key = <<kind[c], model[c]>>)
  /\ \A c \in Calls : pc[c] = "joined" => inFlight[<<kind[c], model[c]>>] = owner[c]

\* Nobody waits for a shared request or launch that is not under way, and an
\* entry that outlives its request wakes nobody: the fields that share them are
\* cleared when the request settles and never before.
NobodyStranded ==
  /\ \A c \in Calls : /\ pc[c] = "tags" => tags # "none"
                      /\ pc[c] = "ps" => ps # "none"
                      /\ pc[c] = "launch" => Provider(model[c]) \in launching
  /\ tags # "none" => \E c \in Calls : pc[c] = "tags"
  /\ ps # "none" => \E c \in Calls : pc[c] = "ps"
  /\ \A p \in launching : \E c \in Calls : pc[c] = "launch" /\ Provider(model[c]) = p

\* A start or stop whose control was answered and that then answers with a status
\* other than "unreachable" or "unknown" tells what was true at some moment since
\* it sent the control, although the requests behind the status may be shared with
\* checks that began earlier, and although others change the services; of Apfel,
\* whose health nobody shares, since the control was answered.  (Of Ollama no more
\* can be said: a start may answer "idle" from a "/api/ps" served before its load.
\* After the launch of a service alone one from before the launch is joined.)
Noted(c) == IF model[c] \in Apfels THEN seen[c].answered ELSE seen[c].sent
ControlIsHonest ==
  \A c \in Calls :
    (pc[c] = "done" /\ effect[c] = "answered" /\ answer[c] \in {"loaded", "idle", "sick", "ready"})
      => answer[c] \in Noted(c)

\* "Ollama still reports the model as loaded after the bounded stop request"
\* (runtime.ts:486): the model was loaded at some moment after the stop request
\* was answered.
StopFailureIsReal ==
  \A c \in Calls :
    (pc[c] = "done" /\ answer[c] = "still_loaded" /\ owner[c] = c) => "loaded" \in seen[c].answered

\* Every call is answered, whatever the services do: the manager "stops waiting
\* after bounded requests" (README.md:240).
Answered == \A c \in Calls : pc[c] # "new" ~> pc[c] = "done"

=============================================================================
