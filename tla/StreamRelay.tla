------------------------------ MODULE StreamRelay ------------------------------
(***************************************************************************)
(* One streamed Chat Completions response: prepareChatCompletionStream of  *)
(* src/proxy/openaiCompatibility.ts, from the prefetch that decides        *)
(* between an HTTP error and a 200 response to the last event of the       *)
(* ReadableStream given to the client.                                     *)
(*                                                                         *)
(* The upstream sends the events of "wire"; the network cuts them anywhere.*)
(* The gateway's JavaScript runs without interruption between two awaits;  *)
(* "pc" names the await it is suspended at, or "scan0"/"scan" while it     *)
(* runs its loop over the buffer, and no other actor steps meanwhile.      *)
(*                                                                         *)
(*   pc        the gateway is                                              *)
(*   "read0"   prefetching, awaiting reader.read()                         *)
(*   "scan0"   prefetching, in the loop over the buffered events           *)
(*   "drop0"   refusing the upstream, awaiting reader.cancel()             *)
(*   "throw0"  about to rethrow a read error, awaiting reader.cancel()     *)
(*   "refused" out: no stream was made, forward() answers with an error    *)
(*   "idle"    serving the stream, no pull() running                       *)
(*   "scan"    in the loop of pull()                                       *)
(*   "read"    in pull(), awaiting reader.read()                           *)
(*   "drop"    in pull(), awaiting reader.cancel() before close()          *)
(***************************************************************************)
EXTENDS StreamEvents

CONSTANTS
  Wires,        \* the event sequences an upstream may send
  Separator     \* the length of the blank line that ends an event

ASSUME WiresAssumption == Wires \subseteq Seq(Event)
ASSUME SeparatorAssumption == Separator \in Nat \ {0}

VARIABLES
  wire,         \* the events the upstream sends in this response
  profile,      \* the compatibility profile of the client's key
  received,     \* how many events of wire have arrived whole
  partial,      \* how much of the next one has arrived
  transport,    \* the upstream body: open, eof, error or cancelled
  pc,
  taken,        \* how many events left the buffer
  sawChunk, sawDone,            \* the validator's state
  upstreamDone,                 \* the last read() said done
  prefetched,   \* outputs validated before the response started
  sent,         \* outputs enqueued to the client, as positions in wire
  closed,       \* the client's stream was closed by the gateway
  cancelled,    \* the client's stream was cancelled by the client
  aborted,      \* upstreamController.abort() was called
  demand        \* the client's side waits for the next output

upstreamVars == <<wire, profile>>
transportVars == <<received, partial, transport>>
validatorVars == <<taken, sawChunk, sawDone>>
clientVars == <<closed, cancelled, demand>>
vars == <<wire, profile, received, partial, transport, pc, taken, sawChunk,
          sawDone, upstreamDone, prefetched, sent, closed, cancelled, aborted,
          demand>>

Prefetching == {"read0", "scan0", "drop0", "throw0"}
Serving == {"idle", "scan", "read", "drop"}
Transports == {"open", "eof", "error", "cancelled"}

(* streamFailureEvent(): an error event followed by [DONE]. *)
Failure == 0

Terminal(x) == x = Failure \/ wire[x].kind = "done"

Running == pc \in {"scan0", "scan"}

(* A response without a body is the one whose body ends at the first read: *)
(* either is refused, with nothing to cancel and without an abort.         *)
Init ==
  /\ wire \in Wires
  /\ profile \in Profiles
  /\ received = 0 /\ partial = 0 /\ transport = "open"
  /\ pc = "read0"
  /\ taken = 0 /\ sawChunk = FALSE /\ sawDone = FALSE
  /\ upstreamDone = FALSE
  /\ prefetched = <<>> /\ sent = <<>>
  /\ closed = FALSE /\ cancelled = FALSE
  /\ aborted = FALSE /\ demand = FALSE

--------------------------------------------------------------------------------
(* The buffer: takeEvent() finds a whole event iff one arrived and was not *)
(* taken yet; without one the buffer is the partial event alone.           *)

HasEvent == taken < received

NextEvent == wire[taken + 1]

(* How much of the event after the first r may have arrived without its    *)
(* being whole: takeEvent() needs all of the separator too.                *)
Partials(r) ==
  0 .. IF r = Len(wire) THEN 0 ELSE wire[r + 1].size + Separator - 1

(* Something of what the upstream has left to send: r whole events in all, *)
(* and p units of the one after them.                                      *)
BytesArrive ==
  /\ transport = "open"
  /\ \E r \in received .. Len(wire) : \E p \in Partials(r) :
       /\ r = received => p > partial
       /\ received' = r /\ partial' = p
  /\ UNCHANGED upstreamDone

(* The upstream ends its body, after whatever it sent so far. *)
BodyEnds ==
  /\ transport = "open"
  /\ upstreamDone' = TRUE
  /\ UNCHANGED <<received, partial>>

(* reader.read() fulfils. *)
ReadFulfils == BytesArrive \/ BodyEnds

AfterRead == IF upstreamDone' THEN "eof" ELSE "open"

(* The validator's state after it passed NextEvent. *)
TakeEvent ==
  /\ taken' = taken + 1
  /\ sawChunk' = (sawChunk \/ IsChunk(NextEvent))
  /\ sawDone' = (sawDone \/ NextEvent.kind = "done")

Passes == ~Oversized(NextEvent) /\ Accepts(NextEvent, sawChunk, sawDone)

--------------------------------------------------------------------------------
(* Before the response starts. *)

(* A mistake: the limit is compared with >=. *)
PrefetchReadStrict ==
  /\ pc = "read0"
  /\ ReadFulfils
  /\ LET oversizedRest == taken = received' /\ partial' >= MaxEvent
     IN  IF oversizedRest
         THEN pc' = "drop0" /\ transport' = "cancelled"
         ELSE pc' = "scan0" /\ transport' = AfterRead
  /\ UNCHANGED <<validatorVars, prefetched, sent, aborted, clientVars,
                 upstreamVars>>

PrefetchRead ==
  /\ pc = "read0"
  /\ ReadFulfils
  /\ LET oversizedRest == taken = received' /\ partial' > MaxEvent
     IN  IF oversizedRest
         THEN pc' = "drop0" /\ transport' = "cancelled"
         ELSE pc' = "scan0" /\ transport' = AfterRead
  /\ UNCHANGED <<validatorVars, prefetched, sent, aborted, clientVars,
                 upstreamVars>>

PrefetchReadRejects ==
  /\ pc = "read0"
  /\ transport = "error"
  /\ pc' = "throw0"
  /\ UNCHANGED <<transportVars, validatorVars, upstreamDone, prefetched, sent,
                 aborted, clientVars, upstreamVars>>

PrefetchEvent ==
  /\ pc = "scan0" /\ HasEvent
  /\ \/ /\ ~Passes
        /\ taken' = IF Oversized(NextEvent) THEN taken ELSE taken + 1
        /\ pc' = "drop0" /\ transport' = "cancelled"
        /\ UNCHANGED <<sawChunk, sawDone, prefetched>>
     \/ /\ Passes
        /\ TakeEvent
        /\ prefetched' = IF Shown(NextEvent, profile)
                           THEN Append(prefetched, taken + 1)
                           ELSE prefetched
        /\ pc' = IF sawChunk' \/ sawDone' THEN "idle" ELSE "scan0"
        /\ UNCHANGED transport
  /\ UNCHANGED <<received, partial, upstreamDone, sent, aborted, clientVars,
                 upstreamVars>>

(* A mistake: the end of the body is not looked at. *)
PrefetchDrainedReads ==
  /\ pc = "scan0" /\ ~HasEvent
  /\ pc' = "read0"
  /\ UNCHANGED <<transportVars, validatorVars, upstreamDone, prefetched, sent,
                 aborted, clientVars, upstreamVars>>

PrefetchDrained ==
  /\ pc = "scan0" /\ ~HasEvent
  /\ pc' = IF upstreamDone THEN "refused" ELSE "read0"
  /\ UNCHANGED <<transportVars, validatorVars, upstreamDone, prefetched, sent,
                 aborted, clientVars, upstreamVars>>

(* reader.cancel() settles; a refused upstream is then aborted too, a read *)
(* error is rethrown to forward().                                         *)
Refuse ==
  /\ pc \in {"drop0", "throw0"}
  /\ pc' = "refused"
  /\ aborted' = (aborted \/ pc = "drop0")
  /\ UNCHANGED <<transportVars, validatorVars, upstreamDone, prefetched, sent,
                 clientVars, upstreamVars>>

--------------------------------------------------------------------------------
(* While the response is served: pull(). *)

Enqueue(x) == sent' = Append(sent, x) /\ demand' = FALSE

(* A mistake: the loop goes on after a failure event. *)
FailStreamGoesOn ==
  /\ Enqueue(Failure)
  /\ aborted' = TRUE
  /\ transport' = "cancelled"
  /\ pc' = "idle"
  /\ UNCHANGED <<received, partial, upstreamDone, closed, cancelled>>

(* A mistake: the fetch is not aborted. *)
FailStreamHolds ==
  /\ Enqueue(Failure)
  /\ transport' = "cancelled"
  /\ pc' = "drop"
  /\ UNCHANGED <<received, partial, upstreamDone, closed, cancelled, aborted>>

(* A failure once the response has started: the error event, the abort and *)
(* the call of reader.cancel(), which is awaited before close().           *)
FailStream ==
  /\ Enqueue(Failure)
  /\ aborted' = TRUE
  /\ transport' = "cancelled"
  /\ pc' = "drop"
  /\ UNCHANGED <<received, partial, upstreamDone, closed, cancelled>>

PullPrefetched ==
  /\ pc = "idle" /\ demand /\ ~closed /\ ~cancelled
  /\ prefetched # <<>>
  /\ Enqueue(Head(prefetched))
  /\ prefetched' = Tail(prefetched)
  /\ pc' = IF sawDone THEN "drop" ELSE "idle"
  /\ transport' = IF sawDone THEN "cancelled" ELSE transport
  /\ UNCHANGED <<received, partial, validatorVars, upstreamDone, closed,
                 cancelled, aborted, upstreamVars>>

(* A mistake: the upstream is read while the prefetched outputs wait. *)
PullPastQueue ==
  /\ pc = "idle" /\ demand /\ ~closed /\ ~cancelled
  /\ pc' = "scan"
  /\ UNCHANGED <<transportVars, validatorVars, upstreamDone, prefetched, sent,
                 aborted, clientVars, upstreamVars>>

(* A mistake: a queue of the default length 1, filled ahead of the client. *)
PullAhead ==
  /\ pc = "idle" /\ ~closed /\ ~cancelled
  /\ prefetched = <<>>
  /\ pc' = "scan"
  /\ UNCHANGED <<transportVars, validatorVars, upstreamDone, prefetched, sent,
                 aborted, clientVars, upstreamVars>>

Pull ==
  /\ pc = "idle" /\ demand /\ ~closed /\ ~cancelled
  /\ prefetched = <<>>
  /\ pc' = "scan"
  /\ UNCHANGED <<transportVars, validatorVars, upstreamDone, prefetched, sent,
                 aborted, clientVars, upstreamVars>>

PullEvent ==
  /\ pc = "scan" /\ HasEvent
  /\ \/ /\ ~Passes
        /\ taken' = IF Oversized(NextEvent) THEN taken ELSE taken + 1
        /\ FailStream
        /\ UNCHANGED <<sawChunk, sawDone>>
     \/ /\ Passes
        /\ TakeEvent
        /\ IF Shown(NextEvent, profile)
             THEN /\ Enqueue(taken + 1)
                  /\ pc' = IF sawDone' THEN "drop" ELSE "idle"
                  /\ transport' = IF sawDone' THEN "cancelled" ELSE transport
             ELSE UNCHANGED <<sent, demand, pc, transport>>
        /\ UNCHANGED <<received, partial, upstreamDone, closed, cancelled,
                       aborted>>
  /\ UNCHANGED <<prefetched, upstreamVars>>

PullDrained ==
  /\ pc = "scan" /\ ~HasEvent
  /\ \/ /\ partial > MaxEvent
        /\ FailStream
     \/ /\ partial <= MaxEvent /\ upstreamDone
        /\ IF sawChunk /\ sawDone
             THEN UNCHANGED <<sent, demand>>
             ELSE Enqueue(Failure)
        /\ closed' = TRUE
        /\ pc' = "idle"
        /\ UNCHANGED <<transportVars, upstreamDone, aborted, cancelled>>
     \/ /\ partial <= MaxEvent /\ ~upstreamDone
        /\ pc' = "read"
        /\ UNCHANGED <<transportVars, upstreamDone, sent, aborted, clientVars>>
  /\ UNCHANGED <<validatorVars, prefetched, upstreamVars>>

PullRead ==
  /\ pc = "read"
  /\ ReadFulfils
  /\ transport' = AfterRead
  /\ pc' = "scan"
  /\ UNCHANGED <<validatorVars, prefetched, sent, aborted, clientVars,
                 upstreamVars>>

(* The pending read() settles after the stream was cancelled: pull() ends. *)
PullReadAfterCancel ==
  /\ pc = "read" /\ cancelled
  /\ pc' = "idle"
  /\ UNCHANGED <<transportVars, validatorVars, upstreamDone, prefetched, sent,
                 aborted, clientVars, upstreamVars>>

(* A mistake: the failure is reported to a client that left. *)
PullReadRejectsLate ==
  /\ pc = "read"
  /\ transport \in {"error", "cancelled"}
  /\ FailStream
  /\ UNCHANGED <<validatorVars, prefetched, upstreamVars>>

PullReadRejects ==
  /\ pc = "read" /\ ~cancelled
  /\ transport = "error"
  /\ FailStream
  /\ UNCHANGED <<validatorVars, prefetched, upstreamVars>>

(* reader.cancel() settles; close() throws on a stream that was cancelled  *)
(* meanwhile, and pull() swallows that.                                    *)
Close ==
  /\ pc = "drop"
  /\ closed' = ~cancelled
  /\ pc' = "idle"
  /\ UNCHANGED <<transportVars, validatorVars, upstreamDone, prefetched, sent,
                 aborted, cancelled, demand, upstreamVars>>

--------------------------------------------------------------------------------
(* The client and the network. *)

ClientRead ==
  /\ pc \in Serving /\ ~Running
  /\ ~demand /\ ~closed /\ ~cancelled
  /\ demand' = TRUE
  /\ UNCHANGED <<transportVars, pc, validatorVars, upstreamDone, prefetched,
                 sent, closed, cancelled, aborted, upstreamVars>>

(* The HTTP server cancels the response stream: cancel(reason). *)
ClientCancel ==
  /\ pc \in Serving /\ ~Running
  /\ ~closed /\ ~cancelled
  /\ cancelled' = TRUE
  /\ aborted' = TRUE
  /\ transport' = "cancelled"
  /\ UNCHANGED <<received, partial, pc, validatorVars, upstreamDone,
                 prefetched, sent, closed, demand, upstreamVars>>

(* The upstream connection breaks, or a signal of the fetch fires: the     *)
(* client's request was aborted, or its five minutes are over.             *)
ConnectionFails ==
  /\ ~Running
  /\ transport = "open"
  /\ transport' = "error"
  /\ UNCHANGED <<received, partial, pc, validatorVars, upstreamDone,
                 prefetched, sent, closed, cancelled, aborted, demand,
                 upstreamVars>>

Gateway ==
  \/ PrefetchReadRejects \/ PrefetchEvent \/ PrefetchDrained \/ Refuse
  \/ PullPrefetched \/ Pull \/ PullEvent \/ PullDrained
  \/ PullReadAfterCancel \/ PullReadRejects \/ Close

Upstream == PrefetchRead \/ PullRead

Next == Gateway \/ Upstream \/ ClientRead \/ ClientCancel \/ ConnectionFails

Spec == Init /\ [][Next]_vars

(* The event loop runs every continuation that is ready; a served client   *)
(* goes on reading until it cancels; the fetch timer fires in the end.     *)
FairSpec ==
  /\ Spec
  /\ WF_vars(Gateway)
  /\ WF_vars(ClientRead)
  /\ WF_vars(ConnectionFails)

--------------------------------------------------------------------------------
(* The types; in particular only events that arrived whole are taken.      *)
TypeOK ==
  /\ wire \in Seq(Event)
  /\ profile \in Profiles
  /\ received \in 0 .. Len(wire)
  /\ partial \in Nat
  /\ transport \in Transports
  /\ pc \in Prefetching \cup {"refused"} \cup Serving
  /\ taken \in 0 .. received
  /\ sawChunk \in BOOLEAN /\ sawDone \in BOOLEAN /\ upstreamDone \in BOOLEAN
  /\ prefetched \in Seq(1 .. Len(wire))
  /\ sent \in Seq(0 .. Len(wire))
  /\ closed \in BOOLEAN /\ cancelled \in BOOLEAN
  /\ aborted \in BOOLEAN /\ demand \in BOOLEAN

(* The client can always tell how its stream ended: the gateway closes it  *)
(* only after a [DONE], the upstream's or the one in the failure event,    *)
(* and nothing ever follows a [DONE], whatever the upstream sends after    *)
(* its own and wherever a read fails.                                      *)
EndsWithDone ==
  /\ \A k \in 1 .. Len(sent) : Terminal(sent[k]) => k = Len(sent)
  /\ closed => sent # <<>> /\ Terminal(sent[Len(sent)])

(* What was, or will be, handed to the client before any failure event.    *)
Outputs == sent \o prefetched

(* The three parts of FaithfulPrefix. *)
InOrder ==
  \A j, k \in 1 .. Len(Outputs) :
    j < k /\ Outputs[k] # Failure => Outputs[j] # Failure
                                    /\ Outputs[j] < Outputs[k]

Validated ==
  \A k \in 1 .. Len(Outputs) :
    Outputs[k] # Failure =>
      LET e == wire[Outputs[k]]
      IN  /\ Outputs[k] <= taken
          /\ Shown(e, profile)
          /\ ~Oversized(e)
          /\ e.kind # "bad"
          /\ e.kind = "done" =>
               \E i \in 1 .. Outputs[k] - 1 : IsChunk(wire[i])

Failed == \E k \in 1 .. Len(sent) : sent[k] = Failure

NoneLost ==
  pc \in Serving /\ ~Failed =>
    \A i \in 1 .. taken :
      Shown(wire[i], profile) => \E k \in 1 .. Len(Outputs) : Outputs[k] = i

(* The outputs are the visible events of a prefix of what the upstream     *)
(* sent, in its order, none repeated or left out, whether they went        *)
(* through the prefetch queue or not; each is of legal size and kind, and  *)
(* a chunk precedes [DONE].                                                *)
FaithfulPrefix == InOrder /\ Validated /\ NoneLost

(* No response leaves its upstream connection behind: once the stream is   *)
(* closed, cancelled or refused, or has failed, the body was read to its   *)
(* end, broke, or was cancelled; and a response that failed although the   *)
(* upstream had not finished also aborted the fetch.                       *)
UpstreamReleased ==
  /\ closed \/ cancelled \/ pc = "refused" \/ Failed => transport # "open"
  /\ Failed /\ ~upstreamDone => aborted

(* A step in which a read() delivers. *)
TakesBytes == <<received, partial>>' # <<received, partial>>

HandedOver(i) == \E k \in 1 .. Len(sent) : sent[k] = i

(* Backpressure: bytes of the upstream are taken in only for a client that *)
(* waits, to which everything it may see of what arrived was handed over,  *)
(* and while what is left of the buffer is within the limit.  The one      *)
(* exception is an upstream of which nothing but comments arrived: before  *)
(* the first chunk there is no client to wait for, the comments are queued *)
(* in "prefetched", however many they are, and the gateway reads on.       *)
ReadsOnDemand ==
  [][TakesBytes =>
       \/ /\ demand /\ partial <= MaxEvent
          /\ \A i \in 1 .. received : Shown(wire[i], profile) => HandedOver(i)
       \/ \A i \in 1 .. received : wire[i].kind = "comment"]_vars

(* A refusal or a failure, and events that justify one under a limit. *)
GivesUp ==
  \/ pc' = "drop0" /\ pc # "drop0"
  \/ pc' = "drop" /\ sent' = Append(sent, Failure)

Illegal(i) ==
  LET e == wire[i]
      before == {wire[j].kind : j \in 1 .. i - 1}
  IN  \/ e.size + Separator > MaxEvent + 1
      \/ ~Accepts(e, before \cap {"text", "reasoning"} # {}, "done" \in before)

(* The relay never gives up an upstream that did nothing wrong: while the  *)
(* connection stands, it refuses or fails a response only after an event   *)
(* that is illegal, or that exceeds the limit of 1,048,576 characters      *)
(* (docs/OPENAI_COMPATIBILITY.md) when all but the last character of its   *)
(* separator are counted in.                                               *)
NoFalseAlarm ==
  [][GivesUp /\ transport # "error" =>
       \E i \in 1 .. Len(wire) : i <= taken + 1 /\ Illegal(i)]_vars

(* After the end of the stream, or its cancellation, no output is added:   *)
(* a pull that was suspended when the client left comes back to find it.   *)
QuietAfterEnd == [][closed \/ cancelled => sent' = sent]_vars

(* A response ends: the upstream may fall silent or close early, the       *)
(* client may leave at any moment, but no stream stays open for ever.      *)
Terminates == <>(closed \/ cancelled \/ pc = "refused")

--------------------------------------------------------------------------------
(* What the contract calls the outcome of a response. *)
Outcome ==
  IF pc \in Prefetching THEN "pending"
  ELSE IF pc = "refused" THEN "refused"
  ELSE IF sent # <<>> /\ Terminal(sent[Len(sent)]) THEN "ended"
  ELSE IF cancelled THEN "cancelled"
  ELSE "streaming"

Contract == INSTANCE StreamContract WITH outcome <- Outcome

(* The relay implements the contract: a client cannot tell the prefetch,   *)
(* the buffer and the suspended reads from a step-by-step delivery.        *)
ImplementsContract == Contract!CSpec

================================================================================
