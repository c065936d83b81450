-------------------------------- MODULE Gateway --------------------------------
(***************************************************************************)
(* The way of a /v1 request through the gateway: authentication, rate      *)
(* limit and OllamaProxy.forward() of src/proxy/ollama.ts, for requests    *)
(* that run at the same time.  They share the file of known models, which  *)
(* GET /v1/models lists together with those the model servers name.        *)
(*                                                                         *)
(* A step is what runs between two awaits.  KeyStore, RateLimiter and      *)
(* StreamRelay say what the key table, the limiter and a stream do; here   *)
(* validate() may answer anything at any time, for an administrator may    *)
(* change the key while requests run, and a request may be limited.        *)
(*                                                                         *)
(*   pc          the request awaits                                        *)
(*   "body"      its own body                                              *)
(*   "fetch"     the upstream's status and headers                         *)
(*   "discard"   the end of an upstream whose body is not wanted           *)
(*   "prefetch"  prepareChatCompletionStream(): the first valid output     *)
(*   "text"      the upstream's whole body                                 *)
(*   "tags"      Ollama's models, for a list                               *)
(*   "apfel"     Apfel's models, for a list                                *)
(***************************************************************************)
EXTENDS FiniteSets

CONSTANTS
  Requests, Models, None,
  Apple,        \* the model Apfel serves
  HasApfel,     \* an apfelHost is configured
  Asks,         \* what clients ask for
  Grants,       \* the rights a key may have
  Faults        \* what may go wrong with the file of known models

(* What a client asks: a valid body is one forward() finds no fault with   *)
(* but the model or the format; "schema" asks for a JSON schema response.  *)
Ask == [path : {"list", "chat", "other"}, valid : BOOLEAN, stream : BOOLEAN,
        schema : BOOLEAN, model : Models \cup {None}]

(* A key: "all" if it has no list of allowed models or one with "*"; its   *)
(* configured model; "strict" with the universal-ai-connector profile.     *)
Grant == [all : BOOLEAN, allowed : SUBSET Models, model : Models \cup {None},
          strict : BOOLEAN]
Refused == [refused |-> TRUE]   \* validate() returned null
Nothing == [path |-> "none"]    \* before the request

ASSUME ModelsAssumption == None \notin Models /\ Apple \in Models
ASSUME AsksAssumption ==
  /\ Asks \subseteq Ask
  /\ \A a \in Asks : a.path = "chat" /\ a.valid => a.model # None
(* The administration refuses an empty list (keyRoutes.ts:115). *)
ASSUME GrantsAssumption ==
  /\ Grants \subseteq Grant
  /\ \A k \in Grants : k.all \/ k.allowed # {}
ASSUME FaultsAssumption == Faults \subseteq {"read", "open", "write"}
ASSUME HasApfelAssumption == HasApfel \in BOOLEAN

VARIABLES
  file,         \* known-models.json
  pc, ask,
  key,          \* the rights found by the authentication
  upstream,     \* the connection to the model server: none, open, closed
  gone, late,   \* the client left; the five minutes are over
  answer,       \* the status and code of the answer
  listed,       \* the models in the answer to a list
  promised      \* observer: what was on record when a list began, and not damaged since

request == <<ask, key>>
signals == <<gone, late>>
vars == <<file, pc, request, upstream, signals, answer, listed, promised>>

Torn == {None}                  \* a part of a file, which does not parse
Known == file \ {None}          \* loadKnownModels()

Contacting == {"fetch", "discard", "prefetch", "text"}
Errors == {"unauthorized", "limited", "invalid", "forbidden", "unsupported", "internal",
           "upstream_error", "invalid_stream", "invalid_response",
           "timeout", "cancelled", "unreachable"}
Streaming(r) == pc[r] = "done" /\ answer[r] = "stream"

MayUse(k, m) == k.all \/ m \in k.allowed

(* keyScopedModels(); the empty set where the code has null. *)
Scoped(k) ==
  IF ~k.all THEN k.allowed
  ELSE IF k.model # None THEN {k.model} ELSE {}

Init ==
  /\ file \in (SUBSET Models) \cup {Torn}
  /\ pc = [r \in Requests |-> "new"]
  /\ ask = [r \in Requests |-> Nothing]
  /\ key = [r \in Requests |-> Refused]
  /\ upstream = [r \in Requests |-> "none"]
  /\ gone = [r \in Requests |-> FALSE] /\ late = [r \in Requests |-> FALSE]
  /\ answer = [r \in Requests |-> "none"]
  /\ listed = [r \in Requests |-> {}]
  /\ promised = [r \in Requests |-> {}]

--------------------------------------------------------------------------------
(* The end of a request, and what a step leaves alone. *)

Answer(r, code) ==
  /\ pc' = [pc EXCEPT ![r] = "done"]
  /\ answer' = [answer EXCEPT ![r] = code]

Await(r, point) == pc' = [pc EXCEPT ![r] = point] /\ UNCHANGED answer

Close(r) == upstream' = [upstream EXCEPT ![r] = "closed"]

KeepsRecord == UNCHANGED <<file, promised>>

(* No abort signal has reached the fetch. *)
Alive(r) == ~gone[r] /\ ~late[r]

(* A mistake: the models in the file are not written again. *)
RememberOnly(m) ==
  \/ m = None /\ KeepsRecord
  \/ m # None /\ file' = {m} /\ UNCHANGED promised

(* What is lost from the file was promised to no list any more. *)
Damaged(known) == promised' = [r \in Requests |-> promised[r] \cap known]

(* rememberModel(): adds a model to the file, in one go between two awaits.*)
(* A file that cannot be read counts as empty; what fails is only logged.  *)
Remember(m) ==
  \/ m \in Known \cup {None} /\ KeepsRecord
  \/ m \notin Known \cup {None} /\ file' = Known \cup {m} /\ UNCHANGED promised
  \/ /\ m # None /\ (m \notin Known \/ "read" \in Faults)
     /\ \/ "read" \in Faults /\ file' = {m} /\ Damaged({m})
        \/ "open" \in Faults /\ KeepsRecord
        \/ "write" \in Faults /\ file' = Torn /\ Damaged({})

--------------------------------------------------------------------------------
(* What happens to a request that comes in, up to its first await. *)

(* authMiddleware: validate() has no key for the token. *)
Unauthorized(r, k) ==
  k = Refused /\ Answer(r, "unauthorized") /\ UNCHANGED <<listed, promised>>

(* The limiter, which may refuse any request here. *)
Limited(r, k) ==
  k # Refused /\ Answer(r, "limited") /\ UNCHANGED <<listed, promised>>

(* A list: the models the key names, or those listModels() asks for. *)
PublicModels(r, k) ==
  \/ /\ Scoped(k) # {} /\ Answer(r, "ok")
     /\ listed' = [listed EXCEPT ![r] = Scoped(k)] /\ UNCHANGED promised
  \/ /\ Scoped(k) = {} /\ Await(r, "tags")
     /\ promised' = [promised EXCEPT ![r] = Known] /\ UNCHANGED listed

(* forward() reads the body of anything but a GET first.  The body of      *)
(* another GET, which has none, may arrive at once.                        *)
ForwardBegins(r, a, k) ==
  \/ a.path = "list" /\ PublicModels(r, k)
  \/ a.path # "list" /\ Await(r, "body") /\ UNCHANGED <<listed, promised>>

Arrive(r, a, k) ==
  /\ pc[r] = "new"
  /\ ask' = [ask EXCEPT ![r] = a]
  /\ key' = [key EXCEPT ![r] = k]
  /\ \/ Unauthorized(r, k) \/ Limited(r, k)
     \/ k # Refused /\ ForwardBegins(r, a, k)
  /\ UNCHANGED <<file, upstream, signals>>

(* The request is sent on, or refused before any contact with the upstream.*)
(* fetch() contacts nobody if a signal has fired already.                  *)
Route(r, k) ==
  LET a == ask[r] IN
  \/ a.path = "chat" /\ ~a.valid /\ Answer(r, "invalid") /\ UNCHANGED upstream
  \/ /\ a.path = "chat" => a.valid
     /\ \/ /\ a.model # None /\ ~MayUse(k, a.model)
           /\ Answer(r, "forbidden") /\ UNCHANGED upstream
        \/ /\ a.model # None => MayUse(k, a.model)
           /\ \/ /\ a.path = "chat" /\ a.schema /\ k.strict
                 /\ Answer(r, "unsupported") /\ UNCHANGED upstream
              \/ /\ ~(a.path = "chat" /\ a.schema /\ k.strict)
                 /\ Await(r, "fetch")
                 /\ upstream' = [upstream EXCEPT ![r] = IF gone[r] THEN "closed" ELSE "open"]

(* A mistake: the key is looked up again when the body has arrived. *)
BodyArrivesLookup(r) ==
  /\ pc[r] = "body"
  /\ \E k \in Grants : Route(r, k)
  /\ UNCHANGED <<request, signals, listed>> /\ KeepsRecord

BodyArrives(r) ==
  /\ pc[r] = "body"
  /\ Route(r, key[r])
  /\ UNCHANGED <<request, signals, listed>> /\ KeepsRecord

(* The client left before its body was read: c.req.text() may reject, and  *)
(* nobody is there to read what Hono answers.                              *)
BodyFails(r) ==
  /\ pc[r] = "body" /\ gone[r]
  /\ Answer(r, "internal")
  /\ UNCHANGED <<request, upstream, signals, listed>> /\ KeepsRecord

--------------------------------------------------------------------------------
(* forward() after its fetch. *)

(* The catch of forward(): 504 for the timer, 408 for a client that left.  *)
Catch(r) ==
  /\ Answer(r, IF late[r] THEN "timeout" ELSE IF gone[r] THEN "cancelled" ELSE "unreachable")
  /\ Close(r)
  /\ UNCHANGED <<request, signals, listed>> /\ KeepsRecord

(* An await of the upstream rejects: the connection breaks, or is aborted. *)
UpstreamFails(r) == pc[r] \in {"fetch", "prefetch", "text"} /\ Catch(r)

(* A mistake: the answer is given at once and the body left as it is. *)
DiscardNot(r, code) ==
  Answer(r, code) /\ UNCHANGED upstream /\ KeepsRecord

(* The body is not wanted: the code of the answer is settled, and the body *)
(* is cancelled before it is given.                                        *)
Discard(r, code) ==
  /\ pc' = [pc EXCEPT ![r] = "discard"]
  /\ answer' = [answer EXCEPT ![r] = code]
  /\ UNCHANGED upstream /\ KeepsRecord

(* A response is passed on as it comes in. *)
PassOn(r) == Answer(r, "stream") /\ Remember(ask[r].model) /\ UNCHANGED upstream

(* Status and headers arrive; "events" stands for text/event-stream and    *)
(* "lines" for ndjson.                                                     *)
Responded(r) ==
  LET chat == ask[r].path = "chat"
      stream == chat /\ ask[r].stream
  IN
  /\ pc[r] = "fetch" /\ Alive(r)
  /\ \/ Discard(r, "upstream_error")
     \/ \E type \in {"events", "lines", "whole"} :
          \/ stream /\ type # "events" /\ Discard(r, "invalid_stream")
          \/ stream /\ type = "events" /\ Await(r, "prefetch") /\ UNCHANGED upstream /\ KeepsRecord
          \/ ~chat /\ type # "whole" /\ PassOn(r)
          \/ chat /\ ~stream /\ type # "whole" /\ Discard(r, "invalid_response")
          \/ ~stream /\ type = "whole" /\ Await(r, "text") /\ UNCHANGED upstream /\ KeepsRecord
  /\ UNCHANGED <<request, signals, listed>>

Discarded(r) ==
  /\ pc[r] = "discard"
  /\ Answer(r, answer[r]) /\ Close(r)
  /\ UNCHANGED <<request, signals, listed>> /\ KeepsRecord

(* The prefetch found a first output, or refused the upstream and aborted  *)
(* it; a signal may arrive while it waits for the end of what it refused.  *)
Prefetched(r) ==
  /\ pc[r] = "prefetch"
  /\ \/ Alive(r) /\ PassOn(r)
     \/ Answer(r, "invalid_stream") /\ Close(r) /\ KeepsRecord
  /\ UNCHANGED <<request, signals, listed>>

(* The whole body arrived; that of a chat completion must be valid. *)
TextArrives(r) ==
  /\ pc[r] = "text" /\ Alive(r)
  /\ Close(r)
  /\ \/ Answer(r, "ok") /\ Remember(ask[r].model)
     \/ ask[r].path = "chat" /\ Answer(r, "invalid_response") /\ KeepsRecord
  /\ UNCHANGED <<request, signals, listed>>

--------------------------------------------------------------------------------
(* handlePublicModels(): listModels(), where the key names no models. *)

Listing(r, tags, known) ==
  /\ listed' = [listed EXCEPT ![r] = listed[r] \cup tags \cup known]
  /\ UNCHANGED promised

ListOn(r) == IF HasApfel THEN Await(r, "apfel") ELSE Answer(r, "ok")

(* The answer of /api/tags, after both of its awaits. *)
TagsArrive(r) ==
  /\ pc[r] = "tags"
  /\ ListOn(r)
  /\ \E tags \in SUBSET Models :
       \/ Listing(r, tags, Known)
       \/ /\ "read" \in Faults
          /\ listed' = [listed EXCEPT ![r] = tags]
          /\ promised' = [promised EXCEPT ![r] = {}]
  /\ UNCHANGED <<request, upstream, signals, file>>

(* A status other than 2xx or a body that is no JSON; the five seconds     *)
(* of the request, if they end before its headers; any other failure.      *)
TagsFail(r) ==
  /\ pc[r] = "tags"
  /\ \E code \in {"upstream_error", "timeout", "unreachable"} : Answer(r, code)
  /\ UNCHANGED <<request, upstream, signals, listed>> /\ KeepsRecord

(* Apfel's answer adds its model or not; a failure is ignored. *)
ApfelSettles(r) ==
  /\ pc[r] = "apfel"
  /\ Answer(r, "ok")
  /\ \E found \in SUBSET {Apple} : Listing(r, found, {})
  /\ UNCHANGED <<request, upstream, signals, file>>

--------------------------------------------------------------------------------
(* The world around the requests. *)

Open(r) == pc[r] \in Contacting \/ (Streaming(r) /\ upstream[r] = "open")

(* AbortSignal.any(): a signal ends the connection, and the response that  *)
(* is passed on.                                                           *)
Aborted(r) ==
  upstream' = IF upstream[r] = "open" THEN [upstream EXCEPT ![r] = "closed"] ELSE upstream

ClientLeaves(r) ==
  /\ pc[r] = "body" \/ Open(r)
  /\ ~gone[r]
  /\ gone' = [gone EXCEPT ![r] = TRUE]
  /\ UNCHANGED late
  /\ Aborted(r)
  /\ UNCHANGED <<file, pc, request, answer, listed, promised>>

(* A mistake: the timer is stopped when the upstream's headers are there. *)
TimerFiresFirst(r) ==
  /\ pc[r] = "fetch" /\ ~late[r]
  /\ late' = [late EXCEPT ![r] = TRUE]
  /\ UNCHANGED gone
  /\ Aborted(r)
  /\ UNCHANGED <<file, pc, request, answer, listed, promised>>

TimerFires(r) ==
  /\ Open(r) /\ ~late[r]
  /\ late' = [late EXCEPT ![r] = TRUE]
  /\ UNCHANGED gone
  /\ Aborted(r)
  /\ UNCHANGED <<file, pc, request, answer, listed, promised>>

(* The upstream of a response that is passed on ends or fails. *)
StreamEnds(r) ==
  /\ Streaming(r) /\ upstream[r] = "open"
  /\ Close(r)
  /\ UNCHANGED <<file, pc, request, signals, answer, listed, promised>>

Forward(r) ==
  \/ BodyArrives(r) \/ BodyFails(r)
  \/ Responded(r) \/ UpstreamFails(r) \/ Discarded(r) \/ Prefetched(r) \/ TextArrives(r)
  \/ TagsArrive(r) \/ TagsFail(r) \/ ApfelSettles(r)

Next ==
  \/ \E r \in Requests, a \in Asks, k \in Grants \cup {Refused} : Arrive(r, a, k)
  \/ \E r \in Requests : Forward(r) \/ ClientLeaves(r) \/ TimerFires(r) \/ StreamEnds(r)

Spec == Init /\ [][Next]_vars

(* Timers fire, an aborted await rejects, cancel() settles, and the two    *)
(* requests of a list give up after five seconds.  Nothing says that an    *)
(* upstream answers, that a stream ends or that a body arrives.            *)
FairSpec ==
  /\ Spec
  /\ \A r \in Requests :
       /\ WF_vars(TimerFires(r))
       /\ WF_vars(~Alive(r) /\ UpstreamFails(r))
       /\ WF_vars(Discarded(r))
       /\ WF_vars(TagsFail(r)) /\ WF_vars(ApfelSettles(r))

--------------------------------------------------------------------------------
(* The types; an upstream is contacted only for a request that was let in. *)
RightsTypeOK ==
  /\ key \in [Requests -> Grants \cup {Refused}]
  /\ \A r \in Requests : pc[r] \notin {"new", "done"} => key[r] # Refused
FilesTypeOK ==
  /\ file \in (SUBSET Models) \cup {Torn}
  /\ listed \in [Requests -> SUBSET Models]
  /\ promised \in [Requests -> SUBSET Models]
RequestsTypeOK ==
  /\ pc \in [Requests -> {"new", "body", "tags", "apfel", "done"} \cup Contacting]
  /\ ask \in [Requests -> Asks \cup {Nothing}]
  /\ upstream \in [Requests -> {"none", "open", "closed"}]
  /\ gone \in [Requests -> BOOLEAN] /\ late \in [Requests -> BOOLEAN]
  /\ answer \in [Requests -> {"none", "ok", "stream"} \cup Errors]
TypeOK == RightsTypeOK /\ FilesTypeOK /\ RequestsTypeOK

(* A request runs on the rights its key had when it was authenticated, to  *)
(* its end: they alone decide whether it reaches an upstream with its      *)
(* model and whether it is refused, whatever the administrator changes     *)
(* while its body arrives.                                                 *)
OneVersion ==
  \A r \in Requests :
    /\ upstream[r] # "none" /\ ask[r].model # None => MayUse(key[r], ask[r].model)
    /\ answer[r] = "forbidden" => ~MayUse(key[r], ask[r].model)
    /\ answer[r] = "unsupported" => key[r].strict

(* No connection to a model server outlives its use: a request that was    *)
(* answered with anything but a stream holds none, and none is open after  *)
(* the client left or the time was up.                                     *)
Released ==
  \A r \in Requests :
    upstream[r] = "open" => (pc[r] \in Contacting \/ Streaming(r)) /\ Alive(r)

(* GET /v1/models shows a key what it may use and, if it names no models,  *)
(* every model that was on record when the request came, unless the file   *)
(* of known models was damaged or could not be read: requests that succeed *)
(* meanwhile do not lose each other's models, though each reads the whole  *)
(* file and writes it again.                                               *)
ListIsRight ==
  \A r \in Requests :
    pc[r] = "done" /\ ask[r].path = "list" /\ answer[r] = "ok" =>
      /\ \A m \in listed[r] : MayUse(key[r], m)
      /\ Scoped(key[r]) = {} => promised[r] \subseteq listed[r]

(* Whoever contacted a model server is answered, and every connection ends,*)
(* however silent the server is.                                           *)
Answered ==
  \A r \in Requests :
    pc[r] \in Contacting \cup {"tags", "apfel"} ~> pc[r] = "done" /\ upstream[r] # "open"

================================================================================
