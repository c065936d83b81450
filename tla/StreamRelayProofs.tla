--------------------------- MODULE StreamRelayProofs ---------------------------
(***************************************************************************)
(* The safety of the relay for every upstream, event size and limit.       *)
(* IInv is inductive; it adds to the invariants of StreamRelay what each   *)
(* suspension point of the code knows.                                     *)
(***************************************************************************)
EXTENDS StreamRelay, SequenceTheorems, TLAPS

(* No client sees anything before the response starts, and a running pull  *)
(* serves a client that waits, after the prefetched outputs.               *)
Phases ==
  /\ pc \in Prefetching \cup {"refused"} =>
       sent = <<>> /\ ~closed /\ ~cancelled /\ ~demand
  /\ pc \in {"scan", "read"} => demand /\ prefetched = <<>> /\ ~closed
  /\ pc = "scan" => ~cancelled
  /\ pc \in {"read0", "scan0"} => ~sawChunk /\ ~sawDone
  /\ pc \in Serving => sawChunk

(* What the validator's flags say of the events it passed. *)
Flags ==
  /\ sawChunk => \E i \in 1 .. taken : IsChunk(wire[i])
  /\ sawDone => prefetched = <<>> /\ (pc = "drop" \/ closed \/ cancelled)

(* A stream with a [DONE] is being closed, or over. *)
Ending ==
  /\ \A k \in 1 .. Len(sent) :
       Terminal(sent[k]) => k = Len(sent) /\ (pc = "drop" \/ closed \/ cancelled)
  /\ pc = "drop" \/ closed => sent # <<>> /\ Terminal(sent[Len(sent)])
  /\ \A k \in 1 .. Len(prefetched) : wire[prefetched[k]].kind # "done"

Connection ==
  /\ pc \in {"drop0", "throw0", "refused", "drop"} => transport # "open"
  /\ closed \/ cancelled => transport # "open"
  /\ upstreamDone => transport # "open"
  /\ Failed => aborted \/ upstreamDone

AllShown ==
  \A i \in 1 .. taken :
    Shown(wire[i], profile) => \E k \in 1 .. Len(Outputs) : Outputs[k] = i

Kept == pc \in {"read0", "scan0"} \cup Serving /\ ~Failed => AllShown

IInv == /\ TypeOK /\ Phases /\ Flags /\ Ending /\ Connection
        /\ InOrder /\ Validated /\ Kept

--------------------------------------------------------------------------------
(* Moving the head of one sequence to the end of the one before it leaves  *)
(* their concatenation as it is.                                           *)
LEMMA MoveHead ==
  ASSUME NEW S, NEW s \in Seq(S), NEW p \in Seq(S), p # <<>>
  PROVE  Append(s, Head(p)) \o Tail(p) = s \o p
<1>1. Head(p) \in S /\ Tail(p) \in Seq(S) /\ <<Head(p)>> \in Seq(S)
  BY HeadTailProperties
<1>2. p = <<Head(p)>> \o Tail(p)
  BY <1>1, SMT
<1>3. Append(s, Head(p)) = s \o <<Head(p)>>
  BY <1>1, AppendIsConcat
<1>4. (s \o <<Head(p)>>) \o Tail(p) = s \o (<<Head(p)>> \o Tail(p))
  BY <1>1, ConcatAssociative
<1> QED  BY <1>2, <1>3, <1>4

(* Appending to the last of two sequences appends to their concatenation.  *)
LEMMA ConcatAppend ==
  ASSUME NEW S, NEW s \in Seq(S), NEW p \in Seq(S), NEW x \in S
  PROVE  s \o Append(p, x) = Append(s \o p, x)
<1>1. Append(p, x) = p \o <<x>> /\ <<x>> \in Seq(S)
  BY AppendIsConcat
<1>2. s \o p \in Seq(S)
  BY ConcatProperties
<1>3. Append(s \o p, x) = (s \o p) \o <<x>>
  BY <1>2, AppendIsConcat
<1>4. (s \o p) \o <<x>> = s \o (p \o <<x>>)
  BY <1>1, ConcatAssociative
<1> QED  BY <1>1, <1>3, <1>4

(* The invariant holds before the first read. *)
LEMMA InitIInv == Init => IInv
<1> SUFFICES ASSUME Init PROVE IInv
  OBVIOUS
<1> USE WiresAssumption DEF Init
<1>1. TypeOK
  <2>1. wire \in Seq(Event) /\ Len(wire) \in Nat
    OBVIOUS
  <2>2. <<>> \in Seq(1 .. Len(wire)) /\ <<>> \in Seq(0 .. Len(wire))
    OBVIOUS
  <2>3. received \in 0 .. Len(wire) /\ partial \in Nat /\ taken \in 0 .. received
    BY <2>1
  <2>4. transport \in Transports /\ pc \in Prefetching \cup {"refused"} \cup Serving
    BY DEF Transports, Prefetching
  <2> QED  BY <2>1, <2>2, <2>3, <2>4 DEF TypeOK
<1>2. Phases
  BY DEF Phases, Prefetching, Serving
<1>3. Flags /\ Ending /\ Connection
  BY DEF Flags, Ending, Connection, Failed
<1>4. Outputs = <<>>
  BY DEF Outputs
<1>5. InOrder /\ Validated /\ Kept
  BY <1>4 DEF InOrder, Validated, Kept, AllShown
<1> QED  BY <1>1, <1>2, <1>3, <1>5 DEF IInv

(* What is missing of an event is a number of units. *)
LEMMA PartialsInNat ==
  ASSUME wire \in Seq(Event), NEW r \in 0 .. Len(wire)
  PROVE  Partials(r) \subseteq Nat
<1>1. CASE r = Len(wire)
  BY <1>1 DEF Partials
<1>2. CASE r # Len(wire)
  <2>1. wire[r + 1] \in Event
    BY <1>2
  <2>2. wire[r + 1].size + Separator - 1 \in Nat
    BY <2>1, SeparatorAssumption DEF Event
  <2> QED  BY <1>2, <2>2 DEF Partials
<1> QED  BY <1>1, <1>2

(* reader.read() delivers whole events and a part of the next one. *)
LEMMA ReadTypes ==
  ASSUME TypeOK, ReadFulfils
  PROVE  /\ received' \in received .. Len(wire)
         /\ partial' \in Nat
         /\ upstreamDone' \in BOOLEAN
         /\ transport = "open"
         /\ AfterRead \in {"eof", "open"}
<1> USE DEF TypeOK
<1>1. CASE BytesArrive
  <2>1. PICK r \in received .. Len(wire) : \E p \in Partials(r) :
               received' = r /\ partial' = p
    BY <1>1 DEF BytesArrive
  <2>2. Partials(r) \subseteq Nat
    BY <2>1, PartialsInNat
  <2> QED  BY <1>1, <2>1, <2>2 DEF BytesArrive, AfterRead
<1>2. CASE BodyEnds
  BY <1>2 DEF BodyEnds, AfterRead
<1> QED  BY <1>1, <1>2 DEF ReadFulfils

(* Taking an event off the buffer keeps the types. *)
LEMMA TakeTypes ==
  ASSUME TypeOK, HasEvent, TakeEvent
  PROVE  /\ taken' \in 1 .. received
         /\ sawChunk' \in BOOLEAN
         /\ sawDone' \in BOOLEAN
<1>1. taken' \in 1 .. received
  BY DEF TypeOK, HasEvent, TakeEvent
<1>2. sawChunk' \in BOOLEAN /\ sawDone' \in BOOLEAN
  BY Zenon DEF TakeEvent
<1> QED  BY <1>1, <1>2

(* Enqueueing an output keeps the types. *)
LEMMA EnqueueTypes ==
  ASSUME TypeOK, NEW x \in 0 .. Len(wire), Enqueue(x)
  PROVE  sent' \in Seq(0 .. Len(wire)) /\ demand' \in BOOLEAN
BY AppendProperties DEF TypeOK, Enqueue

(* A failure event keeps the types. *)
LEMMA FailTypes ==
  ASSUME TypeOK, FailStream
  PROVE  sent' \in Seq(0 .. Len(wire)) /\ demand' \in BOOLEAN
BY EnqueueTypes DEF TypeOK, FailStream, Failure

(* Types. *)
LEMMA TypeStep == TypeOK /\ [Next]_vars => TypeOK'
<1> SUFFICES ASSUME TypeOK, [Next]_vars PROVE TypeOK'
  OBVIOUS
<1> USE DEF TypeOK, Transports, Prefetching, Serving
<1>1. CASE PrefetchRead
  BY <1>1, ReadTypes DEF PrefetchRead, validatorVars, clientVars, upstreamVars
<1>2. CASE PrefetchReadRejects
  BY <1>2 DEF PrefetchReadRejects, transportVars, validatorVars, clientVars, upstreamVars
<1>3. CASE PrefetchEvent
  <2> USE <1>3 DEF PrefetchEvent, clientVars, upstreamVars
  <2>1. CASE ~Passes
    BY <2>1 DEF HasEvent
  <2>2. CASE Passes
    <3>1. taken' \in 1 .. received /\ taken' = taken + 1 /\ taken + 1 \in 1 .. Len(wire)
      BY <2>2, TakeTypes DEF TakeEvent, HasEvent
    <3>2. prefetched' \in Seq(1 .. Len(wire))
      <4>1. Append(prefetched, taken + 1) \in Seq(1 .. Len(wire))
        BY <3>1, AppendProperties
      <4> QED  BY <2>2, <4>1
    <3>3. sawChunk' \in BOOLEAN /\ sawDone' \in BOOLEAN
      BY <2>2, TakeTypes
    <3>4. pc' \in {"idle", "scan0"}
      BY <2>2
    <3>5. UNCHANGED <<wire, profile, received, partial, transport, upstreamDone,
                      sent, aborted, closed, cancelled, demand>>
      BY <2>2
    <3> HIDE DEF PrefetchEvent
    <3> QED  BY <3>1, <3>2, <3>3, <3>4, <3>5
  <2> QED  BY <2>1, <2>2
<1>4. CASE PrefetchDrained
  BY <1>4 DEF PrefetchDrained, transportVars, validatorVars, clientVars, upstreamVars
<1>5. CASE Refuse
  BY <1>5 DEF Refuse, transportVars, validatorVars, clientVars, upstreamVars
<1>6. CASE PullPrefetched
  <2>1. Head(prefetched) \in 1 .. Len(wire) /\ Tail(prefetched) \in Seq(1 .. Len(wire))
    BY <1>6, HeadTailProperties DEF PullPrefetched
  <2>2. Enqueue(Head(prefetched))
    BY <1>6 DEF PullPrefetched
  <2>3. sent' \in Seq(0 .. Len(wire)) /\ demand' \in BOOLEAN
    BY <2>1, <2>2, EnqueueTypes
  <2> QED  BY <1>6, <2>1, <2>3 DEF PullPrefetched, validatorVars, upstreamVars
<1>7. CASE Pull
  BY <1>7 DEF Pull, transportVars, validatorVars, clientVars, upstreamVars
<1>8. CASE PullEvent
  <2> USE <1>8 DEF PullEvent, upstreamVars
  <2>1. CASE ~Passes
    <3>1. FailStream /\ UNCHANGED <<wire, profile, prefetched, sawChunk, sawDone>>
      BY <2>1
    <3>2. taken' \in 0 .. received
      BY <2>1 DEF HasEvent
    <3> HIDE DEF PullEvent
    <3> QED  BY <3>1, <3>2, FailTypes DEF FailStream
  <2>2. CASE Passes
    <3>1. /\ taken' \in 1 .. received /\ taken' = taken + 1
          /\ taken + 1 \in 0 .. Len(wire)
          /\ sawChunk' \in BOOLEAN /\ sawDone' \in BOOLEAN
      BY <2>2, TakeTypes DEF TakeEvent, HasEvent
    <3>2. sent' \in Seq(0 .. Len(wire)) /\ demand' \in BOOLEAN
      BY <2>2, <3>1, EnqueueTypes
    <3>3. pc' \in {"idle", "scan", "drop"} /\ transport' \in Transports
      BY <2>2
    <3>4. UNCHANGED <<wire, profile, received, partial, upstreamDone,
                      prefetched, aborted, closed, cancelled>>
      BY <2>2
    <3> HIDE DEF PullEvent
    <3> QED  BY <3>1, <3>2, <3>3, <3>4
  <2> QED  BY <2>1, <2>2
<1>9. CASE PullDrained
  <2> USE <1>9 DEF PullDrained, transportVars, validatorVars, clientVars, upstreamVars
  <2>1. CASE partial > MaxEvent
    <3>1. FailStream /\ UNCHANGED <<wire, profile, taken, prefetched, sawChunk, sawDone>>
      BY <2>1, MaxEventAssumption
    <3> HIDE DEF PullDrained
    <3> QED  BY <3>1, FailTypes DEF FailStream
  <2>2. CASE partial <= MaxEvent
    <3>1. sent' \in Seq(0 .. Len(wire)) /\ demand' \in BOOLEAN
      BY <2>2, EnqueueTypes, MaxEventAssumption DEF Failure
    <3>2. pc' \in {"idle", "read"} /\ closed' \in BOOLEAN
      <4>1. CASE upstreamDone
        <5>1. ~(partial > MaxEvent)
          BY <2>2, MaxEventAssumption
        <5>2. pc' = "idle" /\ closed' = TRUE
          BY <4>1, <5>1, Zenon
        <5> QED  BY <5>2
      <4>2. CASE ~upstreamDone
        BY <2>2, <4>2, MaxEventAssumption
      <4> QED  BY <4>1, <4>2
    <3>3. UNCHANGED <<wire, profile, received, partial, transport, taken, sawChunk,
                      sawDone, upstreamDone, prefetched, aborted, cancelled>>
      BY <2>2, MaxEventAssumption
    <3> HIDE DEF PullDrained
    <3> QED  BY <3>1, <3>2, <3>3
  <2> QED  BY <2>1, <2>2, MaxEventAssumption
<1>10. CASE PullRead
  BY <1>10, ReadTypes DEF PullRead, validatorVars, clientVars, upstreamVars
<1>11. CASE PullReadAfterCancel
  BY <1>11 DEF PullReadAfterCancel, transportVars, validatorVars, clientVars, upstreamVars
<1>12. CASE PullReadRejects
  BY <1>12, FailTypes DEF PullReadRejects, FailStream, validatorVars, upstreamVars
<1>13. CASE Close
  BY <1>13 DEF Close, transportVars, validatorVars, upstreamVars
<1>14. CASE ClientRead
  BY <1>14 DEF ClientRead, transportVars, validatorVars, upstreamVars
<1>15. CASE ClientCancel
  BY <1>15 DEF ClientCancel, validatorVars, upstreamVars
<1>16. CASE ConnectionFails
  BY <1>16 DEF ConnectionFails, validatorVars, upstreamVars
<1>17. CASE UNCHANGED vars
  BY <1>17 DEF vars
<1> QED  BY <1>1, <1>2, <1>3, <1>4, <1>5, <1>6, <1>7, <1>8, <1>9, <1>10, <1>11,
            <1>12, <1>13, <1>14, <1>15, <1>16, <1>17 DEF Next, Gateway, Upstream

(* The state of the relay is always well typed, for every upstream. *)
THEOREM TypeCorrect == Spec => []TypeOK
<1>1. Init => TypeOK
  BY InitIInv DEF IInv
<1> QED  BY <1>1, TypeStep, PTL DEF Spec

--------------------------------------------------------------------------------
(* How the outputs evolve. *)

(* What was or will be handed over is a sequence of positions and          *)
(* failures.                                                               *)
LEMMA OutputsType == TypeOK => Outputs \in Seq(0 .. Len(wire))
<1> SUFFICES ASSUME TypeOK PROVE Outputs \in Seq(0 .. Len(wire))
  OBVIOUS
<1>1. prefetched \in Seq(0 .. Len(wire)) /\ sent \in Seq(0 .. Len(wire))
  BY DEF TypeOK
<1> QED  BY <1>1, ConcatProperties DEF Outputs

(* An event that is enqueued when nothing is prefetched. *)
LEMMA OutputsEnqueue ==
  ASSUME TypeOK, NEW x \in 0 .. Len(wire), prefetched = <<>>,
         sent' = Append(sent, x), prefetched' = prefetched
  PROVE  Outputs' = Append(Outputs, x)
<1>1. Append(sent, x) \in Seq(0 .. Len(wire)) /\ sent \in Seq(0 .. Len(wire))
  BY AppendProperties DEF TypeOK
<1>2. Outputs = sent
  BY <1>1, ConcatEmptySeq DEF Outputs
<1>3. Outputs' = Append(sent, x)
  BY <1>1, ConcatEmptySeq DEF Outputs
<1> QED  BY <1>2, <1>3

(* An event that is queued by the prefetch. *)
LEMMA OutputsPrefetch ==
  ASSUME TypeOK, NEW x \in 0 .. Len(wire),
         sent' = sent, prefetched' = Append(prefetched, x)
  PROVE  Outputs' = Append(Outputs, x)
<1>1. prefetched \in Seq(0 .. Len(wire)) /\ sent \in Seq(0 .. Len(wire))
  BY DEF TypeOK
<1> QED  BY <1>1, ConcatAppend DEF Outputs

(* A failure event exists only in a stream that is ending. *)
LEMMA NoFailure ==
  ASSUME TypeOK, Ending, pc # "drop", ~closed, ~cancelled
  PROVE  /\ ~Failed
         /\ \A k \in 1 .. Len(Outputs) : Outputs[k] # Failure
<1>1. \A k \in 1 .. Len(sent) : sent[k] # Failure
  BY DEF Ending, Terminal
<1>2. \A k \in 1 .. Len(prefetched) : prefetched[k] # Failure
  BY DEF TypeOK, Failure
<1>3. prefetched \in Seq(0 .. Len(wire)) /\ sent \in Seq(0 .. Len(wire))
  BY DEF TypeOK
<1>4. /\ Len(Outputs) = Len(sent) + Len(prefetched)
      /\ \A k \in 1 .. Len(sent) + Len(prefetched) :
           Outputs[k] = IF k <= Len(sent) THEN sent[k] ELSE prefetched[k - Len(sent)]
  BY <1>3, ConcatProperties DEF Outputs
<1>5. Len(sent) \in Nat /\ Len(prefetched) \in Nat
  BY <1>3
<1>6. ASSUME NEW k \in 1 .. Len(Outputs) PROVE Outputs[k] # Failure
  <2>1. CASE k <= Len(sent)
    BY <1>1, <1>4, <1>5, <2>1
  <2>2. CASE ~(k <= Len(sent))
    BY <1>2, <1>4, <1>5, <2>2
  <2> QED  BY <2>1, <2>2
<1> QED  BY <1>1, <1>6 DEF Failed

(* The next event passes the validator and is shown. *)
LEMMA ShowStep ==
  ASSUME TypeOK, InOrder, Validated, Flags, HasEvent, Passes, TakeEvent,
         Shown(NextEvent, profile), wire' = wire, profile' = profile,
         \A k \in 1 .. Len(Outputs) : Outputs[k] # Failure,
         Outputs' = Append(Outputs, taken + 1)
  PROVE  InOrder' /\ Validated' /\ (AllShown => AllShown')
<1> DEFINE n == Len(Outputs)
           O == Outputs
           P == Outputs'
<1>1. O \in Seq(0 .. Len(wire)) /\ n \in Nat
  BY OutputsType
<1>2. taken + 1 \in 1 .. Len(wire) /\ taken' = taken + 1 /\ taken \in Nat
  BY DEF TypeOK, HasEvent, TakeEvent
<1>3. /\ Len(P) = n + 1
      /\ \A k \in 1 .. n : P[k] = O[k]
      /\ P[n + 1] = taken + 1
  BY <1>1, <1>2, AppendProperties
<1>4. \A k \in 1 .. n : O[k] \in 0 .. Len(wire) /\ O[k] <= taken /\ O[k] # Failure
  BY <1>1 DEF Validated
<1>5. InOrder'
  <2> SUFFICES ASSUME NEW j \in 1 .. n + 1, NEW k \in 1 .. n + 1, j < k
               PROVE  P[j] # Failure /\ P[j] < P[k]
    BY <1>3 DEF InOrder
  <2>1. j \in 1 .. n /\ P[j] = O[j]
    BY <1>1, <1>3
  <2>2. CASE k = n + 1
    BY <1>2, <1>3, <1>4, <2>1, <2>2
  <2>3. CASE k # n + 1
    BY <1>1, <1>3, <1>4, <2>1, <2>3 DEF InOrder
  <2> QED  BY <2>2, <2>3
<1>6. Validated'
  <2> SUFFICES ASSUME NEW k \in 1 .. n + 1, P[k] # Failure
               PROVE  LET e == wire[P[k]]
                      IN  /\ P[k] <= taken + 1
                          /\ Shown(e, profile)
                          /\ ~Oversized(e)
                          /\ e.kind # "bad"
                          /\ e.kind = "done" =>
                               \E i \in 1 .. P[k] - 1 : IsChunk(wire[i])
    BY <1>2, <1>3 DEF Validated, Shown, Oversized, IsChunk
  <2>1. CASE k = n + 1
    <3>1. P[k] = taken + 1 /\ wire[P[k]] = NextEvent
      BY <1>3, <2>1 DEF NextEvent
    <3>2. ~Oversized(NextEvent) /\ NextEvent.kind # "bad"
      BY DEF Passes, Accepts, IsChunk
    <3>3. NextEvent.kind = "done" => \E i \in 1 .. taken : IsChunk(wire[i])
      BY DEF Passes, Accepts, IsChunk, Flags
    <3> QED  BY <1>2, <3>1, <3>2, <3>3
  <2>2. CASE k # n + 1
    <3>1. k \in 1 .. n /\ P[k] = O[k] /\ O[k] # Failure
      BY <1>1, <1>3, <1>4, <2>2
    <3> QED  BY <1>2, <1>4, <3>1 DEF Validated
  <2> QED  BY <2>1, <2>2
<1>7. ASSUME AllShown PROVE AllShown'
  <2> SUFFICES ASSUME NEW i \in 1 .. taken + 1, Shown(wire[i], profile)
               PROVE  \E k \in 1 .. n + 1 : P[k] = i
    BY <1>2, <1>3 DEF AllShown, Shown
  <2>1. CASE i = taken + 1
    BY <1>1, <1>3, <2>1
  <2>2. CASE i # taken + 1
    <3>1. PICK k \in 1 .. n : O[k] = i
      BY <1>2, <1>7, <2>2 DEF AllShown
    <3> QED  BY <1>1, <1>3, <3>1
  <2> QED  BY <2>1, <2>2
<1> QED  BY <1>5, <1>6, <1>7

(* The next event passes the validator, and the profile hides it. *)
LEMMA HideStep ==
  ASSUME TypeOK, InOrder, Validated, HasEvent, TakeEvent,
         ~Shown(NextEvent, profile), wire' = wire, profile' = profile,
         Outputs' = Outputs
  PROVE  InOrder' /\ Validated' /\ (AllShown => AllShown')
<1>1. taken' = taken + 1 /\ taken \in Nat /\ Outputs \in Seq(0 .. Len(wire))
  BY OutputsType DEF TypeOK, HasEvent, TakeEvent
<1>2. InOrder'
  BY DEF InOrder
<1>3. Validated'
  <2> SUFFICES ASSUME NEW k \in 1 .. Len(Outputs), Outputs[k] # Failure
               PROVE  Outputs[k] <= taken + 1
    BY <1>1 DEF Validated, Shown, Oversized, IsChunk
  <2> QED  BY <1>1 DEF Validated
<1>4. ASSUME AllShown PROVE AllShown'
  <2> SUFFICES ASSUME NEW i \in 1 .. taken + 1, Shown(wire[i], profile)
               PROVE  \E k \in 1 .. Len(Outputs) : Outputs[k] = i
    BY <1>1 DEF AllShown, Shown
  <2>1. i \in 1 .. taken
    BY <1>1 DEF NextEvent
  <2> QED  BY <1>4, <2>1 DEF AllShown
<1> QED  BY <1>2, <1>3, <1>4

(* The stream fails. *)
LEMMA FailOutputs ==
  ASSUME TypeOK, InOrder, Validated, wire' = wire, profile' = profile,
         taken' \in Nat, taken <= taken',
         Outputs' = Append(Outputs, Failure)
  PROVE  InOrder' /\ Validated'
<1> DEFINE n == Len(Outputs)
           O == Outputs
           P == Outputs'
<1>1. O \in Seq(0 .. Len(wire)) /\ n \in Nat /\ Failure \in 0 .. Len(wire)
  BY OutputsType DEF Failure, TypeOK
<1>2. /\ Len(P) = n + 1
      /\ \A k \in 1 .. n : P[k] = O[k]
      /\ P[n + 1] = Failure
  BY <1>1, AppendProperties
<1>3. \A k \in 1 .. n + 1 : P[k] # Failure => k \in 1 .. n /\ P[k] = O[k]
  BY <1>1, <1>2
<1>4. InOrder'
  <2> SUFFICES ASSUME NEW j \in 1 .. n + 1, NEW k \in 1 .. n + 1, j < k, P[k] # Failure
               PROVE  P[j] # Failure /\ P[j] < P[k]
    BY <1>2 DEF InOrder
  <2>1. k \in 1 .. n /\ P[k] = O[k]
    BY <1>3
  <2>2. j \in 1 .. n /\ P[j] = O[j]
    BY <1>1, <1>2, <2>1
  <2> QED  BY <2>1, <2>2 DEF InOrder
<1>5. Validated'
  <2> SUFFICES ASSUME NEW k \in 1 .. n, P[k] = O[k], P[k] # Failure
               PROVE  LET e == wire[P[k]]
                      IN  /\ P[k] <= taken'
                          /\ Shown(e, profile)
                          /\ ~Oversized(e)
                          /\ e.kind # "bad"
                          /\ e.kind = "done" =>
                               \E i \in 1 .. P[k] - 1 : IsChunk(wire[i])
    BY <1>2, <1>3 DEF Validated, Shown, Oversized, IsChunk
  <2>1. O[k] \in 0 .. Len(wire) /\ taken \in Nat
    BY <1>1 DEF TypeOK
  <2> QED  BY <2>1 DEF Validated
<1> QED  BY <1>4, <1>5

(* Nothing happens to the outputs. *)
LEMMA SameOutputs ==
  ASSUME InOrder, Validated, Outputs' = Outputs,
         UNCHANGED <<wire, profile, taken>>
  PROVE  InOrder' /\ Validated' /\ (AllShown => AllShown')
<1>1. InOrder'
  BY DEF InOrder
<1>2. Validated'
  BY DEF Validated, Shown, Oversized, IsChunk
<1>3. AllShown => AllShown'
  BY DEF AllShown, Shown
<1> QED  BY <1>1, <1>2, <1>3

--------------------------------------------------------------------------------
(* Every action keeps each part of the invariant. *)

(* Every step keeps the relation between pc and the stages of a response. *)
LEMMA PhasesStep == IInv /\ [Next]_vars => Phases'
<1> SUFFICES ASSUME IInv, [Next]_vars PROVE Phases'
  OBVIOUS
<1> USE DEF IInv, TypeOK, Phases, Prefetching, Serving,
        transportVars, validatorVars, clientVars, upstreamVars
<1>1. CASE PrefetchRead
  BY <1>1 DEF PrefetchRead, ReadFulfils, BytesArrive, BodyEnds, AfterRead
<1>2. CASE PrefetchReadRejects
  BY <1>2 DEF PrefetchReadRejects
<1>3. CASE PrefetchEvent
  <2>1. CASE ~Passes
    BY <1>3, <2>1 DEF PrefetchEvent
  <2>2. CASE Passes
    <3>1. ~sawChunk /\ ~sawDone /\ NextEvent.kind # "done"
      BY <1>3, <2>2 DEF PrefetchEvent, Passes, Accepts, IsChunk
    <3>3. /\ pc' = IF sawChunk' \/ sawDone' THEN "idle" ELSE "scan0"
          /\ UNCHANGED <<sent, closed, cancelled, demand>>
      BY <1>3, <2>2 DEF PrefetchEvent
    <3>4. ~sawDone'
      BY <1>3, <2>2, <3>1 DEF PrefetchEvent, TakeEvent
    <3>5. sent = <<>> /\ ~closed /\ ~cancelled /\ ~demand
      BY <1>3 DEF PrefetchEvent
    <3> QED  BY <3>3, <3>4, <3>5
  <2> QED  BY <2>1, <2>2
<1>4. CASE PrefetchDrained
  BY <1>4 DEF PrefetchDrained
<1>5. CASE Refuse
  BY <1>5 DEF Refuse
<1>6. CASE PullPrefetched
  BY <1>6 DEF PullPrefetched, Enqueue
<1>7. CASE Pull
  BY <1>7 DEF Pull
<1>8. CASE PullEvent
  <2>1. sawChunk' /\ prefetched' = <<>> /\ ~closed' /\ ~cancelled'
    <3>1. sawChunk /\ prefetched = <<>> /\ ~closed /\ ~cancelled
      BY <1>8 DEF PullEvent
    <3>2. sawChunk' = sawChunk \/ sawChunk' = (sawChunk \/ IsChunk(NextEvent))
      BY <1>8, Zenon DEF PullEvent, TakeEvent
    <3>3. UNCHANGED <<prefetched, closed, cancelled>>
      BY <1>8 DEF PullEvent, FailStream
    <3> QED  BY <3>1, <3>2, <3>3
  <2>2. pc' \in {"drop", "idle"} \/ UNCHANGED <<pc, demand>>
    BY <1>8 DEF PullEvent, FailStream
  <2>3. pc = "scan" /\ demand
    BY <1>8 DEF PullEvent
  <2> HIDE DEF TypeOK
  <2> QED  BY <2>1, <2>2, <2>3
<1>9. CASE PullDrained
  <2>1. sawChunk' /\ prefetched' = <<>>
    BY <1>9 DEF PullDrained
  <2>2. pc' \in {"drop", "idle"} \/ (pc' = "read" /\ demand' /\ ~closed')
    <3>1. pc = "scan" /\ demand /\ ~closed
      BY <1>9 DEF PullDrained
    <3> QED  BY <1>9, <3>1 DEF PullDrained, FailStream
  <2> HIDE DEF TypeOK
  <2> QED  BY <2>1, <2>2
<1>10. CASE PullRead
  BY <1>10 DEF PullRead, ReadFulfils, BytesArrive, BodyEnds, Connection
<1>11. CASE PullReadAfterCancel
  BY <1>11 DEF PullReadAfterCancel
<1>12. CASE PullReadRejects
  BY <1>12 DEF PullReadRejects, FailStream, Enqueue
<1>13. CASE Close
  BY <1>13 DEF Close
<1>14. CASE ClientRead
  BY <1>14 DEF ClientRead
<1>15. CASE ClientCancel
  BY <1>15 DEF ClientCancel, Running
<1>16. CASE ConnectionFails
  BY <1>16 DEF ConnectionFails
<1>17. CASE UNCHANGED vars
  BY <1>17 DEF vars
<1> QED  BY <1>1, <1>2, <1>3, <1>4, <1>5, <1>6, <1>7, <1>8, <1>9, <1>10, <1>11, <1>12, <1>13, <1>14, <1>15, <1>16, <1>17
            DEF Next, Gateway, Upstream

(* A step that sends nothing leaves open whether the response failed. *)
LEMMA SameFailed == sent' = sent => (Failed' <=> Failed)
BY DEF Failed

(* A response has failed after an output iff it had or the output is a     *)
(* failure.                                                                *)
LEMMA EnqueueFailed ==
  ASSUME TypeOK, NEW x \in 1 .. Len(wire), sent' = Append(sent, x), Failed'
  PROVE  Failed
<1>1. /\ sent \in Seq(0 .. Len(wire))
      /\ Len(sent') = Len(sent) + 1 /\ Len(sent) \in Nat
      /\ \A k \in 1 .. Len(sent) : sent'[k] = sent[k]
      /\ sent'[Len(sent) + 1] = x
  BY AppendProperties DEF TypeOK
<1>2. PICK k \in 1 .. Len(sent') : sent'[k] = Failure
  BY DEF Failed
<1>3. k # Len(sent) + 1
  BY <1>1, <1>2 DEF Failure
<1> QED  BY <1>1, <1>2, <1>3 DEF Failed

(* Every step keeps the relation between the response and its upstream     *)
(* connection.                                                             *)
LEMMA ConnectionStep == IInv /\ [Next]_vars => Connection'
<1> SUFFICES ASSUME IInv, [Next]_vars PROVE Connection'
  OBVIOUS
<1> USE SameFailed DEF IInv, Connection, Phases, Prefetching, Serving,
        transportVars, validatorVars, clientVars, upstreamVars
<1>1. CASE PrefetchRead
  BY <1>1 DEF PrefetchRead, ReadFulfils, BytesArrive, BodyEnds, AfterRead
<1>2. CASE PrefetchReadRejects
  BY <1>2 DEF PrefetchReadRejects
<1>3. CASE PrefetchEvent
  BY <1>3 DEF PrefetchEvent, TakeEvent
<1>4. CASE PrefetchDrained
  BY <1>4 DEF PrefetchDrained
<1>5. CASE Refuse
  BY <1>5 DEF Refuse
<1>6. CASE PullPrefetched
  <2>1. Failed' => Failed
    <3>1. Head(prefetched) \in 1 .. Len(wire)
      BY <1>6, HeadTailProperties DEF PullPrefetched, TypeOK
    <3> QED  BY <1>6, <3>1, EnqueueFailed DEF PullPrefetched, Enqueue
  <2> QED  BY <1>6, <2>1 DEF PullPrefetched
<1>7. CASE Pull
  BY <1>7 DEF Pull
<1>8. CASE PullEvent
  <2>1. CASE ~Passes
    BY <1>8, <2>1 DEF PullEvent, FailStream
  <2>2. CASE Passes
    <3>1. Failed' => Failed
      <4>1. CASE Shown(NextEvent, profile)
        <5>1. taken + 1 \in 1 .. Len(wire) /\ sent' = Append(sent, taken + 1)
          BY <1>8, <2>2, <4>1 DEF PullEvent, HasEvent, Enqueue, TypeOK
        <5> QED  BY <5>1, EnqueueFailed
      <4>2. CASE ~Shown(NextEvent, profile)
        BY <1>8, <2>2, <4>2 DEF PullEvent
      <4> QED  BY <4>1, <4>2
    <3>2. /\ ~closed /\ ~cancelled /\ pc = "scan"
          /\ UNCHANGED <<closed, cancelled, upstreamDone, aborted>>
      BY <1>8, <2>2 DEF PullEvent
    <3>3. \/ pc' = "drop" /\ transport' = "cancelled"
          \/ pc' \in {"idle", "scan"} /\ transport' = transport
      BY <1>8, <2>2 DEF PullEvent
    <3> QED  BY <3>1, <3>2, <3>3
  <2> QED  BY <2>1, <2>2
<1>9. CASE PullDrained
  <2>1. \/ FailStream
        \/ upstreamDone /\ pc' = "idle" /\ UNCHANGED <<transport, upstreamDone, cancelled>>
        \/ pc' = "read" /\ UNCHANGED <<transport, upstreamDone, sent, aborted, closed, cancelled>>
    BY <1>9 DEF PullDrained
  <2>2. CASE FailStream
    BY <2>2 DEF FailStream
  <2>3. CASE upstreamDone /\ pc' = "idle" /\ UNCHANGED <<transport, upstreamDone, cancelled>>
    BY <2>3
  <2>4. CASE pc' = "read" /\ UNCHANGED <<transport, upstreamDone, sent, aborted, closed, cancelled>>
    BY <2>4
  <2> QED  BY <2>1, <2>2, <2>3, <2>4
<1>10. CASE PullRead
  BY <1>10 DEF PullRead, ReadFulfils, BytesArrive, BodyEnds, AfterRead
<1>11. CASE PullReadAfterCancel
  BY <1>11 DEF PullReadAfterCancel
<1>12. CASE PullReadRejects
  BY <1>12 DEF PullReadRejects, FailStream, Enqueue
<1>13. CASE Close
  BY <1>13 DEF Close
<1>14. CASE ClientRead
  BY <1>14 DEF ClientRead
<1>15. CASE ClientCancel
  BY <1>15 DEF ClientCancel
<1>16. CASE ConnectionFails
  BY <1>16 DEF ConnectionFails
<1>17. CASE UNCHANGED vars
  BY <1>17 DEF vars
<1> QED  BY <1>1, <1>2, <1>3, <1>4, <1>5, <1>6, <1>7, <1>8, <1>9, <1>10, <1>11, <1>12, <1>13, <1>14, <1>15, <1>16, <1>17
            DEF Next, Gateway, Upstream

(* The validator's flags follow the events it takes. *)
LEMMA TakeFlags ==
  ASSUME TypeOK, Flags, HasEvent, TakeEvent, wire' = wire
  PROVE  sawChunk' => \E i \in 1 .. taken' : IsChunk(wire[i])'
<1> SUFFICES ASSUME sawChunk' PROVE \E i \in 1 .. taken + 1 : IsChunk(wire[i])
  BY DEF TakeEvent, IsChunk
<1>1. sawChunk \/ IsChunk(NextEvent)
  BY DEF TakeEvent
<1>2. taken \in Nat
  BY DEF TypeOK
<1>3. CASE sawChunk
  BY <1>2, <1>3 DEF Flags
<1>4. CASE IsChunk(NextEvent)
  BY <1>2, <1>4 DEF NextEvent
<1> QED  BY <1>1, <1>3, <1>4

(* A step that takes no event keeps the validator's view of the events     *)
(* taken.                                                                  *)
LEMMA SameFlags ==
  ASSUME Flags, UNCHANGED <<wire, taken, sawChunk>>
  PROVE  sawChunk' => \E i \in 1 .. taken' : IsChunk(wire[i])'
BY DEF Flags, IsChunk

(* A bad event leaves the buffer without changing the flags. *)
LEMMA DropFlags ==
  ASSUME TypeOK, Flags, taken' \in {taken, taken + 1}, UNCHANGED <<wire, sawChunk>>
  PROVE  sawChunk' => \E i \in 1 .. taken' : IsChunk(wire[i])'
BY DEF Flags, IsChunk, TypeOK

(* Every step keeps the validator's flags true to the events taken. *)
LEMMA FlagsStep == IInv /\ [Next]_vars => Flags'
<1> SUFFICES ASSUME IInv, [Next]_vars PROVE Flags'
  OBVIOUS
<1> DEFINE Seen == sawChunk' => \E i \in 1 .. taken' : IsChunk(wire[i])'
           Over == sawDone' => /\ prefetched' = <<>>
                               /\ pc' = "drop" \/ closed' \/ cancelled'
<1> SUFFICES Seen /\ Over
  BY DEF Flags
<1> USE DEF IInv, Phases, Flags, transportVars, validatorVars, clientVars, upstreamVars
<1>1. CASE PrefetchRead
  <2>1. Seen
    BY <1>1, SameFlags DEF PrefetchRead
  <2>2. Over
    BY <1>1 DEF PrefetchRead
  <2> QED  BY <2>1, <2>2
<1>2. CASE PrefetchReadRejects
  <2>1. Seen
    BY <1>2, SameFlags DEF PrefetchReadRejects
  <2>2. Over
    BY <1>2 DEF PrefetchReadRejects
  <2> QED  BY <2>1, <2>2
<1>3. CASE PrefetchEvent
  <2>1. Seen
    <3>1. CASE ~Passes
      BY <1>3, <3>1, DropFlags DEF PrefetchEvent
    <3>2. CASE Passes
      BY <1>3, <3>2, TakeFlags DEF PrefetchEvent
    <3> QED  BY <3>1, <3>2
  <2>2. ~sawDone'
    <3>1. ~sawChunk /\ ~sawDone
      BY <1>3 DEF PrefetchEvent
    <3>2. CASE ~Passes
      BY <1>3, <3>1, <3>2 DEF PrefetchEvent
    <3>3. CASE Passes
      <4>1. NextEvent.kind # "done"
        BY <3>1, <3>3 DEF Passes, Accepts, IsChunk
      <4> QED  BY <1>3, <3>1, <3>3, <4>1 DEF PrefetchEvent, TakeEvent
    <3> QED  BY <3>2, <3>3
  <2> QED  BY <2>1, <2>2
<1>4. CASE PrefetchDrained
  <2>1. Seen
    BY <1>4, SameFlags DEF PrefetchDrained
  <2>2. Over
    BY <1>4 DEF PrefetchDrained
  <2> QED  BY <2>1, <2>2
<1>5. CASE Refuse
  <2>1. Seen
    BY <1>5, SameFlags DEF Refuse
  <2>2. Over
    BY <1>5 DEF Refuse
  <2> QED  BY <2>1, <2>2
<1>6. CASE PullPrefetched
  <2>1. Seen
    BY <1>6, SameFlags DEF PullPrefetched
  <2>2. Over
    BY <1>6 DEF PullPrefetched
  <2> QED  BY <2>1, <2>2
<1>7. CASE Pull
  <2>1. Seen
    BY <1>7, SameFlags DEF Pull
  <2>2. Over
    BY <1>7 DEF Pull
  <2> QED  BY <2>1, <2>2
<1>8. CASE PullEvent
  <2>1. Seen
    <3>1. CASE ~Passes
      BY <1>8, <3>1, DropFlags DEF PullEvent, FailStream
    <3>2. CASE Passes
      BY <1>8, <3>2, TakeFlags DEF PullEvent
    <3> QED  BY <3>1, <3>2
  <2>2. Over
    <3>1. prefetched' = <<>> /\ ~sawDone
      BY <1>8 DEF PullEvent
    <3>2. CASE ~Passes
      BY <1>8, <3>1, <3>2 DEF PullEvent
    <3>3. CASE Passes
      <4>1. sawDone' => Shown(NextEvent, profile)
        BY <1>8, <3>1, <3>3 DEF PullEvent, TakeEvent, Shown
      <4> QED  BY <1>8, <3>1, <3>3, <4>1 DEF PullEvent
    <3> QED  BY <3>2, <3>3
  <2> QED  BY <2>1, <2>2
<1>9. CASE PullDrained
  <2>1. Seen
    BY <1>9, SameFlags DEF PullDrained, FailStream
  <2>2. Over
    BY <1>9 DEF PullDrained
  <2> QED  BY <2>1, <2>2
<1>10. CASE PullRead
  <2>1. Seen
    BY <1>10, SameFlags DEF PullRead
  <2>2. Over
    BY <1>10 DEF PullRead
  <2> QED  BY <2>1, <2>2
<1>11. CASE PullReadAfterCancel
  <2>1. Seen
    BY <1>11, SameFlags DEF PullReadAfterCancel
  <2>2. Over
    BY <1>11 DEF PullReadAfterCancel
  <2> QED  BY <2>1, <2>2
<1>12. CASE PullReadRejects
  <2>1. Seen
    BY <1>12, SameFlags DEF PullReadRejects, FailStream
  <2>2. Over
    BY <1>12 DEF PullReadRejects, FailStream
  <2> QED  BY <2>1, <2>2
<1>13. CASE Close
  <2>1. Seen
    BY <1>13, SameFlags DEF Close
  <2>2. Over
    BY <1>13 DEF Close
  <2> QED  BY <2>1, <2>2
<1>14. CASE ClientRead
  <2>1. Seen
    BY <1>14, SameFlags DEF ClientRead
  <2>2. Over
    BY <1>14 DEF ClientRead
  <2> QED  BY <2>1, <2>2
<1>15. CASE ClientCancel
  <2>1. Seen
    BY <1>15, SameFlags DEF ClientCancel
  <2>2. Over
    BY <1>15 DEF ClientCancel
  <2> QED  BY <2>1, <2>2
<1>16. CASE ConnectionFails
  <2>1. Seen
    BY <1>16, SameFlags DEF ConnectionFails
  <2>2. Over
    BY <1>16 DEF ConnectionFails
  <2> QED  BY <2>1, <2>2
<1>17. CASE UNCHANGED vars
  <2>1. Seen
    BY <1>17, SameFlags DEF vars
  <2>2. Over
    BY <1>17 DEF vars
  <2> QED  BY <2>1, <2>2
<1> QED  BY <1>1, <1>2, <1>3, <1>4, <1>5, <1>6, <1>7, <1>8, <1>9, <1>10, <1>11, <1>12, <1>13, <1>14, <1>15, <1>16, <1>17
            DEF Next, Gateway, Upstream

(* An output added to a stream with none that is terminal. *)
LEMMA EndingEnqueue ==
  ASSUME TypeOK, Ending, NEW x \in 0 .. Len(wire), sent' = Append(sent, x),
         pc # "drop", ~closed, ~cancelled, wire' = wire,
         Terminal(x) => pc' = "drop" \/ closed'
  PROVE  /\ \A k \in 1 .. Len(sent') :
              Terminal(sent[k])' => k = Len(sent') /\ (pc' = "drop" \/ closed' \/ cancelled')
         /\ sent' # <<>>
         /\ Terminal(sent[Len(sent)])' <=> Terminal(x)
<1>1. /\ sent \in Seq(0 .. Len(wire))
      /\ Len(sent') = Len(sent) + 1 /\ Len(sent) \in Nat
      /\ \A k \in 1 .. Len(sent) : sent'[k] = sent[k]
      /\ sent'[Len(sent) + 1] = x
      /\ sent' # <<>>
  BY AppendProperties DEF TypeOK
<1>2. /\ \A k \in 1 .. Len(sent') : Terminal(sent[k])' <=> Terminal(sent'[k])
      /\ Terminal(sent[Len(sent)])' <=> Terminal(sent'[Len(sent')])
  BY DEF Terminal
<1>3. ASSUME NEW k \in 1 .. Len(sent'), Terminal(sent'[k])
      PROVE  k = Len(sent') /\ (pc' = "drop" \/ closed' \/ cancelled')
  <2>1. k = Len(sent) + 1
    <3>1. ASSUME k \in 1 .. Len(sent) PROVE FALSE
      BY <1>1, <1>3, <3>1 DEF Ending
    <3> QED  BY <1>1, <3>1
  <2> QED  BY <1>1, <1>3, <2>1
<1> QED  BY <1>1, <1>2, <1>3

(* A failure event ends a stream that had no ending yet. *)
LEMMA EndingFail ==
  ASSUME TypeOK, Ending, FailStream, pc # "drop", ~closed, ~cancelled,
         UNCHANGED <<wire, prefetched>>
  PROVE  Ending'
<1>1. Failure \in 0 .. Len(wire) /\ sent' = Append(sent, Failure) /\ pc' = "drop"
  BY DEF Failure, TypeOK, FailStream, Enqueue
<1>2. Terminal(Failure)
  BY DEF Terminal
<1>3. \A k \in 1 .. Len(prefetched') : wire'[prefetched'[k]].kind # "done"
  BY DEF Ending
<1> QED  BY <1>1, <1>2, <1>3, EndingEnqueue DEF Ending

(* Nothing is enqueued, and no ending is undone. *)
LEMMA SameEnding ==
  ASSUME Ending, UNCHANGED <<wire, sent, prefetched>>,
         pc = "drop" \/ closed \/ cancelled => pc' = "drop" \/ closed' \/ cancelled',
         pc' = "drop" \/ closed' => pc = "drop" \/ closed
  PROVE  Ending'
BY DEF Ending, Terminal

(* Every step keeps the ending of the stream unique and last. *)
LEMMA EndingStep == IInv /\ [Next]_vars => Ending'
<1> SUFFICES ASSUME IInv, [Next]_vars PROVE Ending'
  OBVIOUS
<1> USE DEF IInv, transportVars, validatorVars, clientVars, upstreamVars
<1>1. CASE PrefetchRead
  BY <1>1, SameEnding DEF PrefetchRead
<1>2. CASE PrefetchReadRejects
  BY <1>2, SameEnding DEF PrefetchReadRejects
<1>3. CASE PrefetchEvent
  <2>1. CASE ~Passes
    BY <1>3, <2>1, SameEnding DEF PrefetchEvent, Phases, Prefetching
  <2>2. CASE Passes
    <3>1. /\ sent' = <<>> /\ pc' # "drop" /\ ~closed'
          /\ NextEvent.kind # "done" /\ wire' = wire
      BY <1>3, <2>2 DEF PrefetchEvent, Phases, Prefetching, Passes, Accepts, IsChunk
    <3>2. CASE Shown(NextEvent, profile)
      <4>1. prefetched' = Append(prefetched, taken + 1) /\ taken + 1 \in 1 .. Len(wire)
        BY <1>3, <2>2, <3>2 DEF PrefetchEvent, HasEvent, TypeOK
      <4>2. /\ Len(prefetched') = Len(prefetched) + 1 /\ Len(prefetched) \in Nat
            /\ \A k \in 1 .. Len(prefetched) : prefetched'[k] = prefetched[k]
            /\ prefetched'[Len(prefetched) + 1] = taken + 1
        BY <4>1, AppendProperties DEF TypeOK
      <4>3. \A k \in 1 .. Len(prefetched') : wire[prefetched'[k]].kind # "done"
        BY <3>1, <4>2 DEF Ending, NextEvent
      <4> QED  BY <3>1, <4>3 DEF Ending
    <3>3. CASE ~Shown(NextEvent, profile)
      <4>1. prefetched' = prefetched
        BY <1>3, <2>2, <3>3 DEF PrefetchEvent
      <4> QED  BY <3>1, <4>1 DEF Ending
    <3> QED  BY <3>2, <3>3
  <2> QED  BY <2>1, <2>2
<1>4. CASE PrefetchDrained
  BY <1>4, SameEnding DEF PrefetchDrained
<1>5. CASE Refuse
  BY <1>5, SameEnding DEF Refuse
<1>6. CASE PullPrefetched
  <2>1. /\ ~closed /\ ~cancelled /\ pc = "idle" /\ ~sawDone /\ prefetched # <<>>
        /\ pc' = "idle" /\ ~closed' /\ ~cancelled' /\ wire' = wire
        /\ sent' = Append(sent, Head(prefetched)) /\ prefetched' = Tail(prefetched)
    BY <1>6 DEF PullPrefetched, Flags, Enqueue
  <2>2. /\ Head(prefetched) \in 1 .. Len(wire)
        /\ Head(prefetched) = prefetched[1]
        /\ Len(Tail(prefetched)) = Len(prefetched) - 1 /\ Len(prefetched) \in Nat \ {0}
        /\ \A k \in 1 .. Len(Tail(prefetched)) : Tail(prefetched)[k] = prefetched[k + 1]
    BY <2>1, HeadTailProperties DEF TypeOK
  <2>3. ~Terminal(Head(prefetched))
    BY <2>2 DEF Ending, Terminal, Failure
  <2>4. \A k \in 1 .. Len(prefetched') : wire'[prefetched'[k]].kind # "done"
    BY <2>1, <2>2 DEF Ending
  <2>5. \A k \in 1 .. Len(sent') :
          Terminal(sent[k])' => k = Len(sent') /\ (pc' = "drop" \/ closed' \/ cancelled')
    BY <2>1, <2>2, <2>3, EndingEnqueue
  <2> QED  BY <2>1, <2>4, <2>5 DEF Ending
<1>7. CASE Pull
  BY <1>7, SameEnding DEF Pull
<1>8. CASE PullEvent
  <2>1. /\ ~closed /\ ~cancelled /\ pc = "scan" /\ UNCHANGED <<wire, prefetched>>
    BY <1>8 DEF PullEvent, Phases
  <2>2. CASE ~Passes
    BY <1>8, <2>1, <2>2, EndingFail DEF PullEvent
  <2>3. CASE Passes /\ Shown(NextEvent, profile)
    <3>1. /\ taken + 1 \in 0 .. Len(wire) /\ taken + 1 # Failure
          /\ sent' = Append(sent, taken + 1)
          /\ pc' = IF sawDone' THEN "drop" ELSE "idle"
          /\ UNCHANGED <<closed, cancelled>>
          /\ ~sawDone
      BY <1>8, <2>1, <2>3 DEF PullEvent, HasEvent, TypeOK, Enqueue, Failure, Flags
    <3>2. sawDone' <=> Terminal(taken + 1)
      BY <1>8, <2>3, <3>1 DEF PullEvent, TakeEvent, Terminal, NextEvent
    <3>3. \A k \in 1 .. Len(prefetched') : wire'[prefetched'[k]].kind # "done"
      BY <2>1 DEF Ending
    <3> QED  BY <2>1, <3>1, <3>2, <3>3, EndingEnqueue DEF Ending
  <2>4. CASE Passes /\ ~Shown(NextEvent, profile)
    BY <1>8, <2>4, SameEnding DEF PullEvent
  <2> QED  BY <2>2, <2>3, <2>4
<1>9. CASE PullDrained
  <2>1. /\ ~closed /\ ~cancelled /\ pc = "scan" /\ ~sawDone
        /\ UNCHANGED <<wire, prefetched>>
    BY <1>9 DEF PullDrained, Phases, Flags
  <2>2. CASE FailStream
    BY <2>1, <2>2, EndingFail
  <2>3. CASE Enqueue(Failure) /\ closed' = TRUE /\ pc' = "idle" /\ UNCHANGED cancelled
    <3>1. Failure \in 0 .. Len(wire) /\ sent' = Append(sent, Failure)
      BY <2>3 DEF Failure, TypeOK, Enqueue
    <3>2. Terminal(Failure)
      BY DEF Terminal
    <3>3. \A k \in 1 .. Len(prefetched') : wire'[prefetched'[k]].kind # "done"
      BY <2>1 DEF Ending
    <3> QED  BY <2>1, <2>3, <3>1, <3>2, <3>3, EndingEnqueue DEF Ending
  <2>4. CASE pc' = "read" /\ UNCHANGED <<sent, closed, cancelled>>
    BY <2>1, <2>4, SameEnding
  <2> QED  BY <1>9, <2>1, <2>2, <2>3, <2>4 DEF PullDrained
<1>10. CASE PullRead
  BY <1>10, SameEnding DEF PullRead
<1>11. CASE PullReadAfterCancel
  BY <1>11, SameEnding DEF PullReadAfterCancel
<1>12. CASE PullReadRejects
  BY <1>12, EndingFail DEF PullReadRejects, Phases
<1>13. CASE Close
  <2>1. pc' = "idle" /\ (closed' <=> ~cancelled) /\ UNCHANGED <<wire, sent, prefetched, cancelled>> /\ pc = "drop"
    BY <1>13 DEF Close
  <2> QED  BY <2>1 DEF Ending, Terminal
<1>14. CASE ClientRead
  BY <1>14, SameEnding DEF ClientRead
<1>15. CASE ClientCancel
  BY <1>15, SameEnding DEF ClientCancel
<1>16. CASE ConnectionFails
  BY <1>16, SameEnding DEF ConnectionFails
<1>17. CASE UNCHANGED vars
  BY <1>17, SameEnding DEF vars
<1> QED  BY <1>1, <1>2, <1>3, <1>4, <1>5, <1>6, <1>7, <1>8, <1>9, <1>10, <1>11, <1>12, <1>13, <1>14, <1>15, <1>16, <1>17
            DEF Next, Gateway, Upstream

(* Nothing is enqueued and no event is taken. *)
LEMMA QuietStep ==
  ASSUME InOrder, Validated, Kept, UNCHANGED <<wire, profile, taken, sent, prefetched>>,
         pc' \in {"read0", "scan0"} \cup Serving => pc \in {"read0", "scan0"} \cup Serving
  PROVE  InOrder' /\ Validated' /\ Kept'
<1>1. Outputs' = Outputs
  BY DEF Outputs
<1>2. InOrder' /\ Validated' /\ (AllShown => AllShown')
  BY <1>1, SameOutputs
<1>3. Kept'
  BY <1>2, SameFailed DEF Kept
<1> QED  BY <1>2, <1>3

(* A bad event is taken from the buffer and goes nowhere. *)
LEMMA SkipOutputs ==
  ASSUME TypeOK, InOrder, Validated, taken' \in {taken, taken + 1},
         UNCHANGED <<wire, profile>>, Outputs' = Outputs
  PROVE  InOrder' /\ Validated'
<1>1. taken \in Nat /\ Outputs \in Seq(0 .. Len(wire))
  BY OutputsType DEF TypeOK
<1>2. InOrder'
  BY DEF InOrder
<1>3. \A k \in 1 .. Len(Outputs) :
        Outputs[k] # Failure /\ Outputs[k] <= taken => Outputs[k] <= taken'
  BY <1>1
<1>4. Validated'
  BY <1>3 DEF Validated, Shown, Oversized, IsChunk
<1> QED  BY <1>2, <1>4

(* A failure event leaves the outputs before it as they are. *)
LEMMA FailStep ==
  ASSUME TypeOK, InOrder, Validated, sent' = Append(sent, Failure),
         prefetched = <<>>, UNCHANGED <<wire, profile, prefetched>>,
         taken' \in {taken, taken + 1}
  PROVE  InOrder' /\ Validated' /\ Kept'
<1>1. Failure \in 0 .. Len(wire)
  BY DEF Failure, TypeOK
<1>2. Outputs' = Append(Outputs, Failure)
  BY <1>1, OutputsEnqueue
<1>3. taken' \in Nat /\ taken <= taken'
  BY DEF TypeOK
<1>4. Failed'
  <2>1. /\ Len(sent') = Len(sent) + 1 /\ Len(sent) \in Nat
        /\ sent'[Len(sent) + 1] = Failure
    BY <1>1, AppendProperties DEF TypeOK
  <2> QED  BY <2>1 DEF Failed
<1> QED  BY <1>2, <1>3, <1>4, FailOutputs DEF Kept

(* Every step keeps the outputs ordered, validated and complete. *)
LEMMA OutputsStep == IInv /\ [Next]_vars => InOrder' /\ Validated' /\ Kept'
<1> SUFFICES ASSUME IInv, [Next]_vars PROVE InOrder' /\ Validated' /\ Kept'
  OBVIOUS
<1> USE DEF IInv, transportVars, validatorVars, clientVars, upstreamVars
<1>1. CASE PrefetchRead
  BY <1>1, QuietStep DEF PrefetchRead, Serving
<1>2. CASE PrefetchReadRejects
  BY <1>2, QuietStep DEF PrefetchReadRejects, Serving
<1>3. CASE PrefetchEvent
  <2>1. /\ pc = "scan0" /\ HasEvent /\ UNCHANGED <<wire, profile, sent>>
        /\ ~closed /\ ~cancelled
    BY <1>3 DEF PrefetchEvent, Phases, Prefetching
  <2>2. ~Failed /\ \A k \in 1 .. Len(Outputs) : Outputs[k] # Failure
    BY <2>1, NoFailure
  <2>3. AllShown
    BY <2>1, <2>2 DEF Kept
  <2>4. CASE ~Passes
    <3>1. /\ taken' \in {taken, taken + 1} /\ pc' = "drop0"
          /\ UNCHANGED prefetched
      BY <1>3, <2>4 DEF PrefetchEvent
    <3>2. Outputs' = Outputs
      BY <2>1, <3>1 DEF Outputs
    <3>3. InOrder' /\ Validated'
      BY <2>1, <3>1, <3>2, SkipOutputs
    <3> QED  BY <3>1, <3>3 DEF Kept, Serving
  <2>5. CASE Passes /\ Shown(NextEvent, profile)
    <3>1. TakeEvent /\ prefetched' = Append(prefetched, taken + 1)
      BY <1>3, <2>5 DEF PrefetchEvent
    <3>2. taken + 1 \in 0 .. Len(wire)
      BY <2>1 DEF HasEvent, TypeOK
    <3>3. Outputs' = Append(Outputs, taken + 1)
      BY <2>1, <3>1, <3>2, OutputsPrefetch
    <3> QED  BY <2>1, <2>2, <2>3, <2>5, <3>1, <3>3, ShowStep DEF Kept
  <2>6. CASE Passes /\ ~Shown(NextEvent, profile)
    <3>1. TakeEvent /\ Outputs' = Outputs
      BY <1>3, <2>1, <2>6 DEF PrefetchEvent, Outputs
    <3> QED  BY <2>1, <2>3, <2>6, <3>1, HideStep DEF Kept
  <2> QED  BY <2>4, <2>5, <2>6
<1>4. CASE PrefetchDrained
  BY <1>4, QuietStep DEF PrefetchDrained, Serving
<1>5. CASE Refuse
  BY <1>5, QuietStep DEF Refuse, Serving
<1>6. CASE PullPrefetched
  <2>1. /\ pc = "idle" /\ prefetched # <<>> /\ ~closed /\ ~cancelled
        /\ sent' = Append(sent, Head(prefetched)) /\ prefetched' = Tail(prefetched)
        /\ UNCHANGED <<wire, profile, taken>>
    BY <1>6 DEF PullPrefetched, Enqueue
  <2>2. sent \in Seq(0 .. Len(wire)) /\ prefetched \in Seq(0 .. Len(wire))
    BY DEF TypeOK
  <2>3. Outputs' = Outputs
    BY <2>1, <2>2, MoveHead DEF Outputs
  <2>4. ~Failed
    BY <2>1, NoFailure
  <2>5. AllShown
    BY <2>1, <2>4 DEF Kept, Serving
  <2> QED  BY <2>1, <2>3, <2>5, SameOutputs DEF Kept
<1>7. CASE Pull
  BY <1>7, QuietStep DEF Pull, Serving
<1>8. CASE PullEvent
  <2>1. /\ pc = "scan" /\ HasEvent /\ UNCHANGED <<wire, profile, prefetched>>
        /\ ~closed /\ ~cancelled /\ prefetched = <<>>
    BY <1>8 DEF PullEvent, Phases
  <2>2. ~Failed /\ \A k \in 1 .. Len(Outputs) : Outputs[k] # Failure
    BY <2>1, NoFailure
  <2>3. AllShown
    BY <2>1, <2>2 DEF Kept, Serving
  <2>4. CASE ~Passes
    <3>1. sent' = Append(sent, Failure) /\ taken' \in {taken, taken + 1}
      BY <1>8, <2>4 DEF PullEvent, FailStream, Enqueue
    <3> QED  BY <2>1, <3>1, FailStep
  <2>5. CASE Passes /\ Shown(NextEvent, profile)
    <3>1. TakeEvent /\ sent' = Append(sent, taken + 1)
      BY <1>8, <2>5 DEF PullEvent, Enqueue
    <3>2. taken + 1 \in 0 .. Len(wire)
      BY <2>1 DEF HasEvent, TypeOK
    <3>3. Outputs' = Append(Outputs, taken + 1)
      BY <2>1, <3>1, <3>2, OutputsEnqueue
    <3> QED  BY <2>1, <2>2, <2>3, <2>5, <3>1, <3>3, ShowStep DEF Kept
  <2>6. CASE Passes /\ ~Shown(NextEvent, profile)
    <3>1. TakeEvent /\ Outputs' = Outputs
      BY <1>8, <2>1, <2>6 DEF PullEvent, Outputs
    <3> QED  BY <2>1, <2>3, <2>6, <3>1, HideStep DEF Kept
  <2> QED  BY <2>4, <2>5, <2>6
<1>9. CASE PullDrained
  <2>1. /\ pc = "scan" /\ prefetched = <<>>
        /\ UNCHANGED <<wire, profile, taken, prefetched>> /\ ~sawDone
    BY <1>9 DEF PullDrained, Phases, Flags
  <2>2. CASE Enqueue(Failure)
    BY <2>1, <2>2, FailStep DEF Enqueue
  <2>3. CASE UNCHANGED sent
    BY <2>1, <2>3, QuietStep DEF Serving
  <2> QED  BY <1>9, <2>1, <2>2, <2>3 DEF PullDrained, FailStream
<1>10. CASE PullRead
  BY <1>10, QuietStep DEF PullRead, Serving
<1>11. CASE PullReadAfterCancel
  BY <1>11, QuietStep DEF PullReadAfterCancel, Serving
<1>12. CASE PullReadRejects
  BY <1>12, FailStep DEF PullReadRejects, FailStream, Enqueue, Phases
<1>13. CASE Close
  BY <1>13, QuietStep DEF Close, Serving
<1>14. CASE ClientRead
  BY <1>14, QuietStep DEF ClientRead, Serving
<1>15. CASE ClientCancel
  BY <1>15, QuietStep DEF ClientCancel, Serving
<1>16. CASE ConnectionFails
  BY <1>16, QuietStep DEF ConnectionFails, Serving
<1>17. CASE UNCHANGED vars
  BY <1>17, QuietStep DEF vars, Serving
<1> QED  BY <1>1, <1>2, <1>3, <1>4, <1>5, <1>6, <1>7, <1>8, <1>9, <1>10, <1>11, <1>12, <1>13, <1>14, <1>15, <1>16, <1>17
            DEF Next, Gateway, Upstream

--------------------------------------------------------------------------------
(* The invariant is inductive. *)
LEMMA IInvStep == IInv /\ [Next]_vars => IInv'
BY TypeStep, PhasesStep, FlagsStep, EndingStep, ConnectionStep, OutputsStep DEF IInv

(* The inductive invariant holds in every state of every behaviour. *)
LEMMA IInvCorrect == Spec => []IInv
BY InitIInv, IInvStep, PTL DEF Spec

(* A closed stream ended with a [DONE], and nothing follows a [DONE]. *)
THEOREM EndsWithDoneCorrect == Spec => []EndsWithDone
<1>1. IInv => EndsWithDone
  BY DEF IInv, Ending, EndsWithDone
<1> QED  BY <1>1, IInvCorrect, PTL

(* What the client receives is a faithful prefix of the upstream's stream. *)
THEOREM FaithfulPrefixCorrect == Spec => []FaithfulPrefix
<1>1. IInv => FaithfulPrefix
  BY DEF IInv, FaithfulPrefix, NoneLost, Kept, AllShown
<1> QED  BY <1>1, IInvCorrect, PTL

(* A response that is over holds no upstream connection. *)
THEOREM UpstreamReleasedCorrect == Spec => []UpstreamReleased
<1>1. IInv => UpstreamReleased
  <2> SUFFICES ASSUME IInv PROVE UpstreamReleased
    OBVIOUS
  <2>1. Failed => pc = "drop" \/ closed \/ cancelled
    BY DEF IInv, Failed, Ending, Terminal
  <2> QED  BY <2>1 DEF IInv, Connection, UpstreamReleased
<1> QED  BY <1>1, IInvCorrect, PTL

(* A pull that was suspended when the stream ended adds nothing to it. *)
THEOREM QuietAfterEndCorrect == Spec => QuietAfterEnd
<1>1. IInv /\ [Next]_vars => [closed \/ cancelled => sent' = sent]_vars
  <2> SUFFICES ASSUME IInv, Next, closed \/ cancelled PROVE sent' = sent
    OBVIOUS
  <2> USE DEF IInv, Phases, Prefetching, clientVars
  <2>1. CASE Upstream \/ ClientRead \/ ClientCancel \/ ConnectionFails
    BY <2>1 DEF Upstream, PrefetchRead, PullRead, ClientRead, ClientCancel, ConnectionFails
  <2>2. CASE Gateway
    <3>1. pc \notin {"scan", "read0", "scan0", "drop0", "throw0"}
      OBVIOUS
    <3>2. ~PullEvent /\ ~PullDrained /\ ~PullPrefetched /\ ~PullReadRejects
      BY <3>1 DEF PullEvent, PullDrained, PullPrefetched, PullReadRejects
    <3> QED  BY <2>2, <3>1, <3>2 DEF Gateway, PrefetchReadRejects, PrefetchEvent,
               PrefetchDrained, Refuse, Pull, PullReadAfterCancel, Close
  <2> QED  BY <2>1, <2>2 DEF Next
<1> QED  BY <1>1, IInvCorrect, PTL DEF Spec, QuietAfterEnd

--------------------------------------------------------------------------------
(* A read is awaited only with a drained buffer. *)
Drained ==
  /\ pc \in {"read0", "read"} => taken = received
  /\ pc = "read" => partial <= MaxEvent

(* Every step keeps: a suspended read finds no whole event in the buffer. *)
LEMMA DrainedStep == TypeOK /\ Drained /\ [Next]_vars => Drained'
<1> SUFFICES ASSUME TypeOK, Drained, [Next]_vars PROVE Drained'
  OBVIOUS
<1> USE DEF Drained, transportVars, validatorVars, clientVars, upstreamVars
<1>1. CASE PrefetchRead
  BY <1>1 DEF PrefetchRead
<1>2. CASE PrefetchReadRejects
  BY <1>2 DEF PrefetchReadRejects
<1>3. CASE PrefetchEvent
  BY <1>3 DEF PrefetchEvent
<1>4. CASE PrefetchDrained
  BY <1>4 DEF PrefetchDrained, HasEvent, TypeOK
<1>5. CASE Refuse
  BY <1>5 DEF Refuse
<1>6. CASE PullPrefetched
  BY <1>6 DEF PullPrefetched
<1>7. CASE Pull
  BY <1>7 DEF Pull
<1>8. CASE PullEvent
  BY <1>8 DEF PullEvent, FailStream
<1>9. CASE PullDrained
  BY <1>9 DEF PullDrained, FailStream, HasEvent, TypeOK
<1>10. CASE PullRead
  BY <1>10 DEF PullRead
<1>11. CASE PullReadAfterCancel
  BY <1>11 DEF PullReadAfterCancel
<1>12. CASE PullReadRejects
  BY <1>12 DEF PullReadRejects, FailStream
<1>13. CASE Close
  BY <1>13 DEF Close
<1>14. CASE ClientRead
  BY <1>14 DEF ClientRead
<1>15. CASE ClientCancel
  BY <1>15 DEF ClientCancel
<1>16. CASE ConnectionFails
  BY <1>16 DEF ConnectionFails
<1>17. CASE UNCHANGED vars
  BY <1>17 DEF vars
<1> QED  BY <1>1, <1>2, <1>3, <1>4, <1>5, <1>6, <1>7, <1>8, <1>9, <1>10, <1>11, <1>12, <1>13, <1>14, <1>15, <1>16, <1>17
            DEF Next, Gateway, Upstream

--------------------------------------------------------------------------------
(* While the relay goes on, what it took is legal, and the validator's     *)
(* flags say exactly which kinds; and an event that arrived in part is not *)
(* a whole one.                                                            *)
GoesOn ==
  \/ pc \in {"read0", "scan0", "scan", "read"}
  \/ pc = "idle" /\ ~closed /\ ~cancelled

Exact ==
  GoesOn => /\ sawChunk <=> \E i \in 1 .. taken : IsChunk(wire[i])
            /\ sawDone <=> \E i \in 1 .. taken : wire[i].kind = "done"
            /\ Contract!LegalPrefix(taken)

InPart == partial \in Partials(received)

(* Nothing is taken, and the relay does not take up again what it gave up. *)
LEMMA SameExact ==
  ASSUME Exact, UNCHANGED <<wire, taken, sawChunk, sawDone>>, GoesOn' => GoesOn
  PROVE  Exact'
BY DEF Exact, IsChunk, Contract!LegalPrefix, Contract!IsChunk, Contract!Oversized

(* An event that passes continues a legal prefix. *)
LEMMA TakeLegal ==
  ASSUME TypeOK, Exact, GoesOn, Passes
  PROVE  Contract!LegalPrefix(taken + 1)
<1>1. /\ taken \in Nat
      /\ \A i \in 1 .. taken + 1 : i \in 1 .. taken \/ i = taken + 1
      /\ (taken + 1) - 1 = taken
  BY DEF TypeOK
<1>2. /\ sawChunk <=> \E j \in 1 .. taken : IsChunk(wire[j])
      /\ sawDone <=> \E j \in 1 .. taken : wire[j].kind = "done"
      /\ Contract!LegalPrefix(taken)
  BY DEF Exact
<1>3. /\ ~Oversized(wire[taken + 1])
      /\ wire[taken + 1].kind # "bad"
      /\ IsChunk(wire[taken + 1]) => ~sawDone
      /\ wire[taken + 1].kind = "done" => sawChunk /\ ~sawDone
  BY DEF Passes, Accepts, NextEvent, IsChunk
<1> QED  BY <1>1, <1>2, <1>3
            DEF Contract!LegalPrefix, Contract!IsChunk, Contract!Oversized, IsChunk, Oversized

(* An event that passes is told by the flags from then on. *)
LEMMA TakeExact ==
  ASSUME TypeOK, Exact, GoesOn, Passes, HasEvent, TakeEvent, wire' = wire
  PROVE  Exact'
<1>1. /\ taken \in Nat /\ taken' = taken + 1
      /\ \A i \in 1 .. taken' : i \in 1 .. taken \/ i = taken + 1
      /\ \A i \in 1 .. taken : i \in 1 .. taken'
      /\ taken + 1 \in 1 .. taken'
  BY DEF TypeOK, TakeEvent
<1>2. /\ sawChunk' <=> sawChunk \/ IsChunk(wire[taken + 1])
      /\ sawDone' <=> sawDone \/ wire[taken + 1].kind = "done"
  BY DEF TakeEvent, NextEvent
<1>3. /\ sawChunk <=> \E i \in 1 .. taken : IsChunk(wire[i])
      /\ sawDone <=> \E i \in 1 .. taken : wire[i].kind = "done"
  BY DEF Exact
<1>4. sawChunk' <=> \E i \in 1 .. taken' : IsChunk(wire[i])
  BY <1>1, <1>2, <1>3
<1>5. sawDone' <=> \E i \in 1 .. taken' : wire[i].kind = "done"
  BY <1>1, <1>2, <1>3
<1>6. Contract!LegalPrefix(taken)'
  <2>1. Contract!LegalPrefix(taken + 1)
    BY TakeLegal
  <2> QED  BY <1>1, <2>1
              DEF Contract!LegalPrefix, Contract!IsChunk, Contract!Oversized
<1> QED  BY <1>4, <1>5, <1>6 DEF Exact, IsChunk

(* The network delivers a part that is smaller than the whole. *)
LEMMA ReadInPart ==
  ASSUME InPart, ReadFulfils, wire' = wire
  PROVE  InPart'
BY DEF InPart, ReadFulfils, BytesArrive, BodyEnds, Partials

(* What did not arrive is as it was. *)
LEMMA SameInPart ==
  ASSUME InPart, UNCHANGED <<wire, received, partial>>
  PROVE  InPart'
BY DEF InPart, Partials

(* Every step keeps the flags exact. *)
LEMMA ExactStep == IInv /\ Exact /\ InPart /\ [Next]_vars => Exact' /\ InPart'
<1> SUFFICES ASSUME IInv, Exact, InPart, [Next]_vars PROVE Exact' /\ InPart'
  OBVIOUS
<1> USE DEF IInv, transportVars, validatorVars, clientVars, upstreamVars
<1>1. CASE PrefetchRead
  BY <1>1, SameExact, ReadInPart DEF PrefetchRead, GoesOn
<1>2. CASE PrefetchReadRejects
  BY <1>2, SameExact, SameInPart DEF PrefetchReadRejects, GoesOn
<1>3. CASE PrefetchEvent
  <2>1. pc = "scan0" /\ HasEvent /\ wire' = wire /\ InPart' /\ GoesOn
    BY <1>3, SameInPart DEF PrefetchEvent, GoesOn
  <2>2. CASE Passes /\ TakeEvent
    BY <2>1, <2>2, TakeExact
  <2>3. CASE pc' = "drop0"
    BY <2>1, <2>3 DEF Exact, GoesOn
  <2> QED  BY <1>3, <2>1, <2>2, <2>3 DEF PrefetchEvent
<1>4. CASE PrefetchDrained
  BY <1>4, SameExact, SameInPart DEF PrefetchDrained, GoesOn
<1>5. CASE Refuse
  BY <1>5, SameExact, SameInPart DEF Refuse, GoesOn
<1>6. CASE PullPrefetched
  BY <1>6, SameExact, SameInPart DEF PullPrefetched, GoesOn
<1>7. CASE Pull
  BY <1>7, SameExact, SameInPart DEF Pull, GoesOn
<1>8. CASE PullEvent
  <2>1. pc = "scan" /\ HasEvent /\ wire' = wire /\ GoesOn
    BY <1>8 DEF PullEvent, GoesOn
  <2>2. InPart'
    BY <1>8, SameInPart DEF PullEvent, FailStream
  <2>3. CASE Passes /\ TakeEvent
    BY <2>1, <2>2, <2>3, TakeExact
  <2>4. CASE FailStream
    BY <2>1, <2>2, <2>4 DEF Exact, GoesOn, FailStream
  <2> QED  BY <1>8, <2>3, <2>4 DEF PullEvent
<1>9. CASE PullDrained
  <2>1. InPart' /\ pc = "scan" /\ UNCHANGED <<wire, taken, sawChunk, sawDone>>
    BY <1>9, SameInPart DEF PullDrained, FailStream
  <2>2. GoesOn
    BY <2>1 DEF GoesOn
  <2> QED  BY <2>1, <2>2, SameExact
<1>10. CASE PullRead
  BY <1>10, SameExact, ReadInPart DEF PullRead, GoesOn
<1>11. CASE PullReadAfterCancel
  BY <1>11, SameExact, SameInPart DEF PullReadAfterCancel, GoesOn
<1>12. CASE PullReadRejects
  BY <1>12, SameExact, SameInPart DEF PullReadRejects, FailStream, GoesOn
<1>13. CASE Close
  BY <1>13, SameExact, SameInPart DEF Close, GoesOn
<1>14. CASE ClientRead
  BY <1>14, SameExact, SameInPart DEF ClientRead, GoesOn
<1>15. CASE ClientCancel
  BY <1>15, SameExact, SameInPart DEF ClientCancel, GoesOn
<1>16. CASE ConnectionFails
  BY <1>16, SameExact, SameInPart DEF ConnectionFails, GoesOn
<1>17. CASE UNCHANGED vars
  BY <1>17, SameExact, SameInPart DEF vars, GoesOn
<1> QED  BY <1>1, <1>2, <1>3, <1>4, <1>5, <1>6, <1>7, <1>8, <1>9, <1>10, <1>11, <1>12, <1>13, <1>14, <1>15, <1>16, <1>17
            DEF Next, Gateway, Upstream

(* At the start nothing was taken and nothing arrived. *)
LEMMA InitExact == Init => Exact /\ InPart
<1> SUFFICES ASSUME Init  PROVE Exact /\ InPart
  OBVIOUS
<1>1. Exact
  BY DEF Init, Exact, Contract!LegalPrefix
<1>2. wire \in Seq(Event) /\ received = 0 /\ partial = 0
  BY WiresAssumption DEF Init
<1>3. CASE Len(wire) = 0
  <2>1. Partials(0) = 0 .. 0
    BY <1>3 DEF Partials
  <2> QED  BY <1>1, <1>2, <2>1 DEF InPart
<1>4. CASE Len(wire) # 0
  <2>1. wire[1] \in Event /\ 0 + 1 = 1
    BY <1>2, <1>4
  <2>2. wire[1].size + Separator - 1 \in Nat
    BY <2>1, SeparatorAssumption DEF Event
  <2>3. 0 \in 0 .. wire[0 + 1].size + Separator - 1
    BY <2>1, <2>2
  <2>4. Partials(0) = 0 .. wire[0 + 1].size + Separator - 1
    BY <1>4 DEF Partials
  <2> QED  BY <1>1, <1>2, <2>3, <2>4 DEF InPart
<1> QED  BY <1>1, <1>3, <1>4

(* Before the first chunk, all that arrived whole and was taken is comments. *)
LEMMA OnlyComments ==
  ASSUME IInv, Exact, pc = "read0", taken = received
  PROVE  \A i \in 1 .. received : wire[i].kind = "comment"
<1>1. /\ \A i \in 1 .. taken : ~IsChunk(wire[i])
      /\ Contract!LegalPrefix(taken)
  BY DEF Exact, GoesOn, IInv, Phases
<1>2. ASSUME NEW i \in 1 .. taken PROVE wire[i].kind = "comment"
  <2>1. wire[i].kind \in Kinds
    <3>1. wire \in Seq(Event) /\ i \in 1 .. Len(wire)
      BY DEF IInv, TypeOK
    <3>2. wire[i] \in Event
      BY <3>1
    <3> QED  BY <3>2 DEF Event
  <2>2. wire[i].kind # "bad" /\ ~IsChunk(wire[i])
    BY <1>1 DEF Contract!LegalPrefix
  <2>3. wire[i].kind # "done"
    <3>1. ASSUME wire[i].kind = "done" PROVE FALSE
      <4>1. PICK j \in 1 .. i - 1 : IsChunk(wire[j])
        BY <1>1, <3>1 DEF Contract!LegalPrefix, Contract!IsChunk, IsChunk
      <4> QED  BY <1>1, <4>1 DEF IInv, TypeOK
    <3> QED  BY <3>1
  <2> QED  BY <2>1, <2>2, <2>3 DEF Kinds, IsChunk
<1> QED  BY <1>2

(* A suspended pull has handed over all that its client may see. *)
LEMMA AllHandedOver ==
  ASSUME IInv, pc = "read", transport = "open", taken = received
  PROVE  \A i \in 1 .. received : Shown(wire[i], profile) => HandedOver(i)
<1>1. prefetched = <<>> /\ ~closed /\ ~cancelled
  BY DEF IInv, Phases, Connection
<1>2. ~Failed
  BY <1>1 DEF Failed, IInv, Ending, Terminal
<1>3. Outputs = sent
  BY <1>1 DEF Outputs, IInv, TypeOK
<1> QED  BY <1>2, <1>3 DEF IInv, Kept, Serving, AllShown, HandedOver

(* The gateway takes in bytes only for a client that waits, when it has    *)
(* handed over all that this client may see, with a buffer within the      *)
(* limit; before the first chunk, only when nothing but comments came.     *)
THEOREM ReadsOnDemandCorrect == Spec => ReadsOnDemand
<1>1. Init => Drained /\ Exact /\ InPart
  BY InitExact DEF Init, Drained
<1>2. Spec => [](Drained /\ Exact)
  BY <1>1, TypeCorrect, IInvCorrect, DrainedStep, ExactStep, PTL DEF Spec
<1>3. IInv /\ Drained /\ Exact /\ [Next]_vars =>
        [TakesBytes =>
           \/ /\ demand /\ partial <= MaxEvent
              /\ \A i \in 1 .. received : Shown(wire[i], profile) => HandedOver(i)
           \/ \A i \in 1 .. received : wire[i].kind = "comment"]_vars
  <2> SUFFICES ASSUME IInv, Drained, Exact, Next, TakesBytes
               PROVE  \/ /\ demand /\ partial <= MaxEvent
                         /\ \A i \in 1 .. received :
                              Shown(wire[i], profile) => HandedOver(i)
                      \/ \A i \in 1 .. received : wire[i].kind = "comment"
    OBVIOUS
  <2>1. PrefetchRead \/ PullRead
    BY DEF TakesBytes, Next, Gateway, Upstream, PrefetchReadRejects, PrefetchEvent,
       PrefetchDrained, Refuse, PullPrefetched, Pull, PullEvent, PullDrained,
       PullReadAfterCancel, PullReadRejects, FailStream, Close, ClientRead,
       ClientCancel, ConnectionFails, transportVars
  <2>2. CASE PrefetchRead
    BY <2>2, OnlyComments DEF PrefetchRead, Drained
  <2>3. CASE PullRead
    <3>1. pc = "read" /\ transport = "open" /\ taken = received /\ partial <= MaxEvent
      BY <2>3 DEF PullRead, ReadFulfils, BytesArrive, BodyEnds, Drained
    <3> QED  BY <3>1, AllHandedOver DEF IInv, Phases
  <2> QED  BY <2>1, <2>2, <2>3
<1> QED  BY <1>2, <1>3, IInvCorrect, PTL DEF Spec, ReadsOnDemand

(* An event that does not pass is illegal. *)
LEMMA NotPassed ==
  ASSUME TypeOK, Exact, GoesOn, HasEvent, ~Passes
  PROVE  taken + 1 \in 1 .. Len(wire) /\ Illegal(taken + 1)
<1> DEFINE before == {wire[j].kind : j \in 1 .. (taken + 1) - 1}
<1>1. taken + 1 \in 1 .. Len(wire) /\ (taken + 1) - 1 = taken /\ wire[taken + 1] \in Event
  BY DEF TypeOK, HasEvent
<1>2. CASE Oversized(NextEvent)
  <2>1. wire[taken + 1].size \in Nat /\ wire[taken + 1].size > MaxEvent
    BY <1>1, <1>2 DEF Event, Oversized, NextEvent
  <2>2. wire[taken + 1].size + Separator > MaxEvent + 1
    BY <2>1, SeparatorAssumption, MaxEventAssumption
  <2> QED  BY <1>1, <2>2 DEF Illegal
<1>3. CASE ~Accepts(NextEvent, sawChunk, sawDone)
  <2>1. before \cap {"text", "reasoning"} # {} <=> sawChunk
    BY <1>1 DEF Exact, IsChunk
  <2>2. "done" \in before <=> sawDone
    BY <1>1 DEF Exact
  <2> HIDE DEF before
  <2>3. ~Accepts(wire[taken + 1], before \cap {"text", "reasoning"} # {}, "done" \in before)
    BY <1>3, <2>1, <2>2 DEF Accepts, NextEvent
  <2> QED  BY <1>1, <2>3 DEF Illegal, before
<1> QED  BY <1>2, <1>3 DEF Passes

(* A part that exceeds the limit belongs to an event that is illegal. *)
LEMMA OversizedPart ==
  ASSUME wire \in Seq(Event), NEW r \in 0 .. Len(wire), NEW p \in Partials(r), p > MaxEvent
  PROVE  r + 1 \in 1 .. Len(wire) /\ Illegal(r + 1)
<1>1. r # Len(wire)
  BY MaxEventAssumption DEF Partials
<1>2. r + 1 \in 1 .. Len(wire) /\ wire[r + 1] \in Event
  BY <1>1
<1>3. p \in Nat /\ p <= wire[r + 1].size + Separator - 1 /\ wire[r + 1].size \in Nat
  BY <1>1, <1>2, SeparatorAssumption DEF Partials, Event
<1>4. wire[r + 1].size + Separator > MaxEvent + 1
  BY <1>3, SeparatorAssumption, MaxEventAssumption
<1> QED  BY <1>2, <1>4 DEF Illegal

(* Appending to the outputs sent changes them. *)
LEMMA AppendChanges ==
  ASSUME TypeOK, NEW x \in 0 .. Len(wire)
  PROVE  /\ Append(sent, x) # sent
         /\ Append(sent, x) = Append(sent, Failure) => x = Failure
<1>1. sent \in Seq(0 .. Len(wire)) /\ Failure \in 0 .. Len(wire)
  BY DEF TypeOK, Failure
<1>2. /\ Len(Append(sent, x)) = Len(sent) + 1 /\ Len(sent) \in Nat
      /\ Append(sent, x)[Len(sent) + 1] = x
      /\ Append(sent, Failure)[Len(sent) + 1] = Failure
      /\ Len(Append(sent, Failure)) = Len(sent) + 1
  BY <1>1, AppendProperties
<1> QED  BY <1>2

(* The relay gives up only after an illegal event. *)
LEMMA AlarmLemma ==
  ASSUME IInv, Exact, InPart, Next, GivesUp, transport # "error", InPart'
  PROVE  \E i \in 1 .. Len(wire) : i <= taken + 1 /\ Illegal(i)
<1> USE DEF IInv, transportVars, validatorVars, clientVars, upstreamVars
<1>0. /\ wire \in Seq(Event) /\ taken \in Nat /\ received \in 0 .. Len(wire)
      /\ taken <= received /\ received \in Nat
      /\ Append(sent, Failure) # sent
  BY AppendChanges DEF TypeOK, Failure
<1>1. CASE PrefetchRead
  <2>1. /\ taken = received' /\ partial' > MaxEvent /\ wire' = wire
    BY <1>1 DEF PrefetchRead, GivesUp
  <2>2. partial' \in Partials(taken)
    BY <2>1 DEF InPart, Partials
  <2>3. taken \in 0 .. Len(wire)
    BY <1>0
  <2>4. taken + 1 \in 1 .. Len(wire) /\ Illegal(taken + 1)
    BY <1>0, <2>1, <2>2, <2>3, OversizedPart
  <2> QED  BY <1>0, <2>4
<1>2. CASE PrefetchEvent
  <2>1. ~Passes /\ HasEvent /\ GoesOn
    BY <1>2 DEF PrefetchEvent, GivesUp, GoesOn
  <2> QED  BY <1>0, <2>1, NotPassed
<1>3. CASE PullPrefetched
  <2>1. Head(prefetched) \in 1 .. Len(wire) /\ sent' = Append(sent, Head(prefetched))
        /\ pc' # "drop0"
    BY <1>3, HeadTailProperties DEF PullPrefetched, Enqueue, TypeOK
  <2>2. Head(prefetched) \in 0 .. Len(wire) /\ Head(prefetched) # Failure
    BY <2>1 DEF Failure
  <2> QED  BY <2>1, <2>2, AppendChanges DEF GivesUp
<1>4. CASE PullEvent
  <2>1. HasEvent /\ GoesOn /\ pc' # "drop0"
    BY <1>4 DEF PullEvent, GoesOn, FailStream
  <2>2. CASE ~Passes
    BY <1>0, <2>1, <2>2, NotPassed
  <2>3. CASE Passes
    <3>1. taken + 1 \in 0 .. Len(wire) /\ taken + 1 # Failure
      BY <1>0, <2>1 DEF HasEvent, Failure
    <3>2. sent' \in {sent, Append(sent, taken + 1)}
      BY <1>4, <2>3 DEF PullEvent, Enqueue
    <3> QED  BY <1>0, <2>1, <3>1, <3>2, AppendChanges DEF GivesUp
  <2> QED  BY <2>2, <2>3
<1>5. CASE PullDrained
  <2>1. partial > MaxEvent /\ ~HasEvent
    BY <1>5 DEF PullDrained, GivesUp
  <2>2. received + 1 \in 1 .. Len(wire) /\ Illegal(received + 1)
    BY <1>0, <2>1, OversizedPart DEF InPart
  <2>3. taken = received
    BY <1>0, <2>1 DEF HasEvent
  <2> QED  BY <1>0, <2>2, <2>3
<1>6. CASE PrefetchReadRejects \/ PrefetchDrained \/ Refuse \/ Pull
           \/ PullReadAfterCancel \/ PullReadRejects \/ Close \/ PullRead
  BY <1>6 DEF PrefetchReadRejects, PrefetchDrained, Refuse, Pull, PullReadAfterCancel,
     PullReadRejects, Close, PullRead, GivesUp
<1>7. CASE ClientRead \/ ClientCancel \/ ConnectionFails
  BY <1>0, <1>7 DEF ClientRead, ClientCancel, ConnectionFails, GivesUp
<1> QED  BY <1>1, <1>2, <1>3, <1>4, <1>5, <1>6, <1>7 DEF Next, Gateway, Upstream

(* The relay refuses or fails a response only for an event that is illegal *)
(* or too long, or because the connection broke.                           *)
THEOREM NoFalseAlarmCorrect == Spec => NoFalseAlarm
<1>1. Init => Exact /\ InPart
  BY InitExact
<1>2. IInv /\ Exact /\ InPart /\ [Next]_vars =>
        [GivesUp /\ transport # "error" =>
           \E i \in 1 .. Len(wire) : i <= taken + 1 /\ Illegal(i)]_vars
  BY ExactStep, AlarmLemma
<1> QED  BY <1>1, <1>2, ExactStep, IInvCorrect, PTL DEF Spec, NoFalseAlarm

--------------------------------------------------------------------------------
(* The contract. *)

(* Being served is what the contract calls streaming, until a terminal     *)
(* output or the client's leave.                                           *)
LEMMA OutcomeServing ==
  ASSUME TypeOK, Ending, pc \in {"idle", "scan", "read"}, ~closed, ~cancelled
  PROVE  Outcome = "streaming"
<1>1. Len(sent) \in Nat /\ (sent # <<>> => Len(sent) \in 1 .. Len(sent))
  BY DEF TypeOK
<1>2. sent # <<>> => ~Terminal(sent[Len(sent)])
  BY <1>1 DEF Ending
<1> QED  BY <1>2 DEF Outcome, Prefetching

(* The outcome depends on the client's view and on the phase only. *)
LEMMA SameOutcome ==
  ASSUME UNCHANGED <<wire, sent, cancelled>>,
         pc' \in Prefetching <=> pc \in Prefetching, pc' = "refused" <=> pc = "refused"
  PROVE  Outcome' = Outcome
BY DEF Outcome, Terminal

(* After an output the stream is over if that was a terminal one. *)
LEMMA OutcomeEnqueue ==
  ASSUME TypeOK, NEW x \in 0 .. Len(wire), sent' = Append(sent, x), wire' = wire,
         pc' \in Serving, ~cancelled'
  PROVE  Outcome' = IF Terminal(x) THEN "ended" ELSE "streaming"
<1>1. sent' # <<>> /\ sent'[Len(sent')] = x
  <2>1. sent \in Seq(0 .. Len(wire))
    BY DEF TypeOK
  <2>2. /\ Append(sent, x) # <<>> /\ Len(Append(sent, x)) = Len(sent) + 1
        /\ Append(sent, x)[Len(sent) + 1] = x
    BY <2>1, AppendProperties
  <2> QED  BY <2>2
<1> QED  BY <1>1 DEF Outcome, Prefetching, Serving, Terminal

(* The next output is the next visible event. *)
LEMMA DeliverStep ==
  ASSUME TypeOK, Ending, Exact, GoesOn, pc \in {"idle", "scan"},
         NEW i \in 1 .. Len(wire), sent' = Append(sent, i),
         UNCHANGED <<wire, profile>>, pc' \in Serving, ~cancelled', ~closed, ~cancelled,
         Contract!LegalPrefix(i), Shown(wire[i], profile), Contract!LastSent < i,
         \A j \in 1 .. i - 1 : Shown(wire[j], profile) => j <= Contract!LastSent
  PROVE  Contract!Deliver
<1>1. Outcome = "streaming"
  BY OutcomeServing
<1>2. i # Failure /\ i \in 0 .. Len(wire)
  BY DEF Failure
<1>3. Outcome' = IF wire[i].kind = "done" THEN "ended" ELSE "streaming"
  BY <1>2, OutcomeEnqueue DEF Terminal
<1>4. Contract!LastSent \in Nat
  BY DEF Contract!LastSent, TypeOK
<1>5. i \in Contract!LastSent + 1 .. Len(wire)
  BY <1>4 DEF TypeOK
<1>6. \A j \in Contract!LastSent + 1 .. i - 1 : ~Contract!Shown(wire[j], profile)
  BY <1>4 DEF Contract!Shown, Shown
<1>7. Contract!Shown(wire[i], profile)
  BY DEF Contract!Shown, Shown
<1> QED  BY <1>1, <1>3, <1>5, <1>6, <1>7 DEF Contract!Deliver

(* A failure event ends the stream. *)
LEMMA FailContract ==
  ASSUME TypeOK, Ending, pc \in {"scan", "read"}, ~closed, ~cancelled,
         sent' = Append(sent, Failure), UNCHANGED <<wire, profile>>,
         pc' \in Serving, ~cancelled'
  PROVE  Contract!Fail
<1>1. Failure \in 0 .. Len(wire) /\ Failure = 0
  BY DEF Failure, TypeOK
<1>2. Outcome' = "ended"
  BY <1>1, OutcomeEnqueue DEF Terminal
<1> QED  BY <1>1, <1>2, OutcomeServing DEF Contract!Fail

(* Of a stream that goes on with an empty queue, every visible event that  *)
(* was taken comes no later than what was sent last.                       *)
LEMMA LastOfPrefix ==
  ASSUME TypeOK, InOrder, AllShown, Ending, ~closed, ~cancelled, pc # "drop",
         prefetched = <<>>
  PROVE  \A j \in 1 .. taken : Shown(wire[j], profile) => j <= Contract!LastSent
<1>1. Outputs = sent /\ sent \in Seq(0 .. Len(wire)) /\ Len(sent) \in Nat
  BY ConcatEmptySeq DEF Outputs, TypeOK
<1>2. \A k \in 1 .. Len(sent) : sent[k] # Failure
  BY <1>1, NoFailure
<1> SUFFICES ASSUME NEW j \in 1 .. taken, Shown(wire[j], profile)
             PROVE  j <= Contract!LastSent
  OBVIOUS
<1>3. PICK k \in 1 .. Len(sent) : sent[k] = j
  BY <1>1 DEF AllShown
<1>4. sent # <<>> /\ Contract!LastSent = sent[Len(sent)] /\ Len(sent) \in 1 .. Len(sent)
  BY <1>1, <1>3 DEF Contract!LastSent
<1>5. CASE k = Len(sent)
  BY <1>3, <1>4, <1>5
<1>6. CASE k < Len(sent)
  <2>1. sent[k] < sent[Len(sent)]
    BY <1>1, <1>2, <1>4, <1>6 DEF InOrder
  <2>2. j \in Int /\ sent[Len(sent)] \in Int
    BY <1>1, <1>4
  <2> QED  BY <1>3, <1>4, <2>1, <2>2
<1> QED  BY <1>1, <1>5, <1>6

(* The head of the queue comes after what was sent, and no visible event   *)
(* is between them.                                                        *)
LEMMA HeadIsNext ==
  ASSUME TypeOK, InOrder, AllShown, Ending, ~closed, ~cancelled, pc # "drop",
         prefetched # <<>>, Head(prefetched) <= taken
  PROVE  /\ Contract!LastSent < Head(prefetched)
         /\ \A j \in 1 .. Head(prefetched) - 1 :
              Shown(wire[j], profile) => j <= Contract!LastSent
<1> DEFINE n == Len(sent)
           h == Head(prefetched)
<1>1. /\ sent \in Seq(0 .. Len(wire)) /\ prefetched \in Seq(0 .. Len(wire))
      /\ n \in Nat /\ h \in 1 .. Len(wire) /\ h = prefetched[1] /\ Len(prefetched) \in Nat \ {0}
      /\ taken \in Nat
  BY HeadTailProperties DEF TypeOK
<1>2. /\ Outputs \in Seq(0 .. Len(wire))
      /\ Len(Outputs) = n + Len(prefetched)
      /\ \A k \in 1 .. Len(Outputs) :
           Outputs[k] = IF k <= n THEN sent[k] ELSE prefetched[k - n]
  BY <1>1, ConcatProperties, OutputsType DEF Outputs
<1>3. n + 1 \in 1 .. Len(Outputs) /\ Outputs[n + 1] = h
  <2>1. n + 1 \in 1 .. Len(Outputs) /\ ~(n + 1 <= n) /\ (n + 1) - n = 1
    <3>1. /\ n \in Nat /\ Len(prefetched) \in Nat \ {0}
          /\ Len(Outputs) = n + Len(prefetched)
      BY <1>1, <1>2
    <3> HIDE DEF n
    <3> QED  BY <3>1
  <2>2. Outputs[n + 1] = prefetched[(n + 1) - n]
    BY <1>2, <2>1
  <2> QED  BY <1>1, <2>1, <2>2
<1>4. \A k \in 1 .. Len(Outputs) : Outputs[k] # Failure
  BY NoFailure
<1>5. \A k, m \in 1 .. Len(Outputs) : k < m => Outputs[k] < Outputs[m]
  BY <1>4 DEF InOrder
<1>6. \A k \in 1 .. Len(Outputs) : Outputs[k] \in Nat
  BY <1>2
<1>7. CASE sent = <<>>
  <2>1. n = 0 /\ Contract!LastSent = 0
    BY <1>7 DEF Contract!LastSent
  <2>2. ASSUME NEW j \in 1 .. h - 1, Shown(wire[j], profile)  PROVE FALSE
    <3>1. PICK k \in 1 .. Len(Outputs) : Outputs[k] = j
      BY <1>1, <2>2 DEF AllShown
    <3>2. k = 1 \/ 1 < k
      BY <1>2
    <3>3. Outputs[1] = h /\ 1 \in 1 .. Len(Outputs)
      BY <1>3, <2>1
    <3>4. h <= j
      BY <1>1, <1>5, <1>6, <3>1, <3>2, <3>3
    <3> QED  BY <1>1, <3>4
  <2> QED  BY <1>1, <2>1, <2>2
<1>8. CASE sent # <<>>
  <2>1. /\ n \in 1 .. Len(Outputs) /\ n < n + 1 /\ Contract!LastSent = Outputs[n]
    <3>1. n # 0 /\ Contract!LastSent = sent[n]
      BY <1>1, <1>8, EmptySeq DEF Contract!LastSent
    <3>2. n \in 1 .. Len(Outputs) /\ n <= n /\ n < n + 1
      <4>1. n \in Nat \ {0} /\ Len(prefetched) \in Nat /\ Len(Outputs) = n + Len(prefetched)
        BY <1>1, <1>2, <3>1
      <4> HIDE DEF n
      <4> QED  BY <4>1
    <3>3. Outputs[n] = sent[n]
      BY <1>2, <3>2
    <3> QED  BY <3>1, <3>2, <3>3
  <2>2. Contract!LastSent < h
    BY <1>3, <1>5, <2>1
  <2>3. ASSUME NEW j \in 1 .. h - 1, Shown(wire[j], profile)
        PROVE  j <= Contract!LastSent
    <3>1. PICK k \in 1 .. Len(Outputs) : Outputs[k] = j
      BY <1>1, <2>3 DEF AllShown
    <3>2. k < n + 1
      <4>1. CASE k = n + 1
        BY <1>1, <1>3, <3>1, <4>1
      <4>2. CASE n + 1 < k
        <5>1. h < j
          BY <1>3, <1>5, <3>1, <4>2
        <5> QED  BY <1>1, <5>1
      <4>3. k \in Nat /\ n \in Nat
        BY <1>1, <1>2
      <4> HIDE DEF n
      <4>4. k < n + 1 \/ k = n + 1 \/ n + 1 < k
        BY <4>3
      <4> QED  BY <4>1, <4>2, <4>4, Zenon
    <3>3. CASE k = n
      BY <2>1, <3>1, <3>3, <1>1
    <3>4. CASE k < n
      <4>1. j < Contract!LastSent
        BY <1>5, <2>1, <3>1, <3>4
      <4> QED  BY <1>6, <2>1, <3>1, <4>1
    <3> QED  BY <1>1, <1>2, <3>2, <3>3, <3>4
  <2> QED  BY <2>2, <2>3
<1> QED  BY <1>7, <1>8

(* Every step of the relay is one of the contract or invisible.            *)
LEMMA ContractStep ==
  IInv /\ Exact /\ [Next]_vars => [Contract!CNext]_(Contract!cvars)
<1> SUFFICES ASSUME IInv, Exact, [Next]_vars
             PROVE  Contract!CNext \/ UNCHANGED Contract!cvars
  OBVIOUS
<1> USE DEF IInv, transportVars, validatorVars, clientVars, upstreamVars
<1>1. ASSUME UNCHANGED <<wire, profile, sent, cancelled>>,
             pc' \in Prefetching <=> pc \in Prefetching, pc' = "refused" <=> pc = "refused"
      PROVE  UNCHANGED Contract!cvars
  BY <1>1, SameOutcome DEF Contract!cvars
<1>2. ASSUME UNCHANGED <<wire, profile, sent, cancelled>>,
             pc \in Prefetching, pc' = "refused"
      PROVE  Contract!CNext
  BY <1>2 DEF Contract!CNext, Contract!RefuseUpstream, Outcome, Prefetching
<1>3. ASSUME pc \in {"scan", "read"}, ~cancelled, sent' = Append(sent, Failure),
             UNCHANGED <<wire, profile, cancelled>>, pc' \in Serving
      PROVE  Contract!CNext
  BY <1>3, FailContract DEF Phases, Contract!CNext
<1>4. CASE PrefetchEvent
  <2>1. pc = "scan0" /\ HasEvent /\ ~sawChunk /\ ~sawDone /\ GoesOn
        /\ sent = <<>> /\ ~cancelled /\ UNCHANGED <<wire, profile, sent, cancelled>>
    BY <1>4 DEF PrefetchEvent, Phases, Prefetching, GoesOn
  <2>2. CASE pc' \in {"drop0", "scan0"}
    BY <1>1, <2>1, <2>2 DEF Prefetching
  <2>3. CASE pc' = "idle"
    <3>1. Passes /\ TakeEvent /\ (sawChunk' \/ sawDone')
      BY <1>4, <2>3 DEF PrefetchEvent
    <3>2. IsChunk(wire[taken + 1])
      BY <2>1, <3>1 DEF Passes, Accepts, TakeEvent, NextEvent, IsChunk
    <3>3. taken + 1 \in 1 .. Len(wire) /\ Contract!LegalPrefix(taken + 1)
      BY <2>1, <3>1, TakeLegal DEF HasEvent, TypeOK
    <3>4. Outcome = "pending" /\ Outcome' = "streaming"
      BY <2>1, <2>3 DEF Outcome, Prefetching
    <3> QED  BY <2>1, <3>2, <3>3, <3>4 DEF Contract!CNext, Contract!Open, Contract!IsChunk, IsChunk
  <2> QED  BY <1>4, <2>2, <2>3 DEF PrefetchEvent
<1>5. CASE PullPrefetched
  <2> DEFINE h == Head(prefetched)
  <2>1. /\ pc = "idle" /\ ~closed /\ ~cancelled /\ prefetched # <<>>
        /\ sent' = Append(sent, h) /\ UNCHANGED <<wire, profile, cancelled>>
        /\ pc' \in Serving
    BY <1>5 DEF PullPrefetched, Enqueue, Serving
  <2>2. GoesOn /\ Contract!LegalPrefix(taken) /\ taken \in Nat /\ ~Failed
    BY <2>1, NoFailure DEF GoesOn, Exact, TypeOK
  <2>3. h \in 1 .. Len(wire) /\ h = prefetched[1] /\ 1 \in 1 .. Len(prefetched)
    BY <2>1, HeadTailProperties DEF TypeOK
  <2>4. \E k \in 1 .. Len(Outputs) : Outputs[k] = h
    <3>1. /\ sent \in Seq(0 .. Len(wire)) /\ prefetched \in Seq(0 .. Len(wire))
          /\ Len(sent) \in Nat /\ Len(prefetched) \in Nat \ {0}
      BY <2>3 DEF TypeOK
    <3>2. /\ Len(Outputs) = Len(sent) + Len(prefetched)
          /\ \A k \in 1 .. Len(sent) + Len(prefetched) :
               Outputs[k] = IF k <= Len(sent) THEN sent[k] ELSE prefetched[k - Len(sent)]
      BY <3>1, ConcatProperties DEF Outputs
    <3>3. Len(sent) + 1 \in 1 .. Len(Outputs) /\ (Len(sent) + 1) - Len(sent) = 1
          /\ ~(Len(sent) + 1 <= Len(sent))
      BY <3>1, <3>2
    <3>4. Outputs[Len(sent) + 1] = prefetched[(Len(sent) + 1) - Len(sent)]
      BY <3>2, <3>3
    <3> QED  BY <2>3, <3>3, <3>4
  <2>5. h <= taken /\ Shown(wire[h], profile)
    BY <2>3, <2>4 DEF Validated, Failure
  <2>6. Contract!LegalPrefix(h)
    BY <2>2, <2>3, <2>5 DEF Contract!LegalPrefix
  <2>7. AllShown
    BY <2>1, <2>2 DEF Kept, Serving
  <2>8. /\ Contract!LastSent < h
        /\ \A j \in 1 .. h - 1 : Shown(wire[j], profile) => j <= Contract!LastSent
    BY <2>1, <2>5, <2>7, HeadIsNext
  <2> HIDE DEF h
  <2>9. Contract!Deliver
    BY <2>1, <2>2, <2>3, <2>5, <2>6, <2>8, DeliverStep
  <2> QED  BY <2>9 DEF Contract!CNext
<1>6. CASE PullEvent
  <2>1. /\ pc = "scan" /\ HasEvent /\ GoesOn /\ ~closed /\ ~cancelled /\ prefetched = <<>>
        /\ UNCHANGED <<wire, profile>>
    BY <1>6 DEF PullEvent, Phases, GoesOn
  <2>2. CASE FailStream
    BY <1>3, <2>1, <2>2 DEF FailStream, Enqueue, Serving
  <2>3. CASE Passes /\ Shown(NextEvent, profile)
    <3>1. sent' = Append(sent, taken + 1) /\ pc' \in Serving /\ cancelled' = cancelled
      BY <1>6, <2>3 DEF PullEvent, Enqueue, Serving
    <3>2. taken + 1 \in 1 .. Len(wire) /\ taken \in Nat /\ (taken + 1) - 1 = taken
      BY <2>1 DEF HasEvent, TypeOK
    <3>3. Contract!LegalPrefix(taken + 1)
      BY <2>1, <2>3, TakeLegal
    <3>4. AllShown
      BY <2>1, NoFailure DEF Kept, Serving
    <3>5. \A j \in 1 .. taken : Shown(wire[j], profile) => j <= Contract!LastSent
      BY <2>1, <3>4, LastOfPrefix
    <3>6. Contract!LastSent < taken + 1
      <4>1. CASE sent = <<>>
        BY <3>2, <4>1 DEF Contract!LastSent
      <4>2. CASE sent # <<>>
        <5>1. Outputs = sent /\ Len(sent) \in 1 .. Len(sent)
          BY <2>1, <4>2, ConcatEmptySeq DEF Outputs, TypeOK
        <5>2. sent[Len(sent)] # Failure
          BY <2>1, <5>1, NoFailure
        <5>3. sent[Len(sent)] <= taken /\ sent[Len(sent)] \in Int
          BY <5>1, <5>2 DEF Validated, TypeOK
        <5> QED  BY <3>2, <4>2, <5>3 DEF Contract!LastSent
      <4> QED  BY <4>1, <4>2
    <3>7. Contract!Deliver
      BY <2>1, <2>3, <3>1, <3>2, <3>3, <3>5, <3>6, DeliverStep DEF NextEvent
    <3> QED  BY <3>7 DEF Contract!CNext
  <2>4. CASE Passes /\ ~Shown(NextEvent, profile)
    BY <1>1, <1>6, <2>1, <2>4 DEF PullEvent
  <2> QED  BY <1>6, <2>2, <2>3, <2>4 DEF PullEvent
<1>7. CASE PullDrained
  <2>1. pc = "scan" /\ ~cancelled /\ ~closed /\ UNCHANGED <<wire, profile, cancelled>>
    BY <1>7 DEF PullDrained, Phases, FailStream
  <2>2. pc' \in Serving /\ sent' \in {sent, Append(sent, Failure)}
    BY <1>7 DEF PullDrained, FailStream, Enqueue, Serving
  <2> QED  BY <1>1, <1>3, <2>1, <2>2 DEF Serving, Prefetching
<1>8. CASE PullReadRejects
  BY <1>3, <1>8 DEF PullReadRejects, FailStream, Enqueue, Serving
<1>9. CASE ClientCancel
  <2>1. /\ pc \in Serving /\ ~closed /\ ~cancelled /\ cancelled' = TRUE
        /\ UNCHANGED <<wire, profile, sent, pc>>
    BY <1>9 DEF ClientCancel
  <2>2. Outcome \in {"ended", "streaming"}
        /\ Outcome' = IF Outcome = "ended" THEN "ended" ELSE "cancelled"
    BY <2>1 DEF Outcome, Serving, Prefetching, Terminal
  <2> QED  BY <2>1, <2>2 DEF Contract!CNext, Contract!Cancel, Contract!cvars
<1>10. CASE PrefetchDrained
  BY <1>1, <1>2, <1>10 DEF PrefetchDrained, Prefetching
<1>11. CASE Refuse
  BY <1>2, <1>11 DEF Refuse, Prefetching
<1>12. CASE PrefetchRead \/ PrefetchReadRejects
  BY <1>1, <1>12 DEF PrefetchRead, PrefetchReadRejects, Prefetching
<1>13. CASE Pull \/ PullRead \/ PullReadAfterCancel \/ Close
  BY <1>1, <1>13 DEF Pull, PullRead, PullReadAfterCancel, Close, Prefetching
<1>14. CASE ClientRead \/ ConnectionFails \/ UNCHANGED vars
  BY <1>1, <1>14 DEF ClientRead, ConnectionFails, vars
<1> QED  BY <1>4, <1>5, <1>6, <1>7, <1>8, <1>9, <1>10, <1>11, <1>12, <1>13, <1>14
            DEF Next, Gateway, Upstream

(* The relay implements the safety part of what a client is promised: the  *)
(* next visible event of a legal prefix, one by one, or one failure.       *)
THEOREM ImplementsContractSafety == Spec => Contract!CSafety
<1>1. Init => Contract!CInit
  BY DEF Init, Contract!CInit, Outcome, Prefetching, Contract!Profiles, Profiles
<1>2. Spec => []Exact
  <2>1. Init => Exact /\ InPart
    BY InitExact
  <2> QED  BY <2>1, ExactStep, IInvCorrect, PTL DEF Spec
<1> QED  BY <1>1, <1>2, ContractStep, IInvCorrect, PTL DEF Spec, Contract!CSafety

--------------------------------------------------------------------------------
(* A response comes to its end. *)

(* What a read waits for can still come: the upstream was neither at its   *)
(* end nor cancelled by the gateway, which cancels it only on the way out. *)
ReadsSettle ==
  pc \in {"read0", "read"} /\ ~cancelled => transport \in {"open", "error"}

Settling ==
  /\ transport = "eof" => upstreamDone
  /\ pc \in {"read0", "read"} /\ ~cancelled => ~upstreamDone
  /\ pc \in {"read0", "scan0", "idle", "scan", "read"} /\ ~closed /\ ~cancelled =>
       transport # "cancelled"
  /\ pc = "drop" => ~closed

(* Every step keeps it: a drained buffer is read into only before the end. *)
LEMMA SettlingStep == IInv /\ Settling /\ [Next]_vars => Settling'
<1> SUFFICES ASSUME IInv, Settling, [Next]_vars PROVE Settling'
  OBVIOUS
<1> USE DEF IInv, Phases, Settling, transportVars, validatorVars, clientVars, upstreamVars
<1>0. ReadFulfils => /\ transport = "open" /\ ~upstreamDone /\ AfterRead \in {"open", "eof"}
                     /\ AfterRead = "open" => ~upstreamDone'
                     /\ AfterRead = "eof" => upstreamDone'
  BY DEF ReadFulfils, BytesArrive, BodyEnds, AfterRead, Connection, TypeOK
<1>1. CASE Upstream
  BY <1>0, <1>1 DEF Upstream, PrefetchRead, PullRead
<1>2. CASE PrefetchReadRejects \/ PrefetchDrained \/ Refuse
  BY <1>2 DEF PrefetchReadRejects, PrefetchDrained, Refuse
<1>3. CASE PrefetchEvent
  BY <1>3 DEF PrefetchEvent
<1>4. CASE PullPrefetched
  BY <1>4 DEF PullPrefetched
<1>5. CASE Pull \/ PullReadAfterCancel \/ Close
  BY <1>5 DEF Pull, PullReadAfterCancel, Close
<1>6. CASE PullEvent
  <2>1. pc = "scan" /\ UNCHANGED <<upstreamDone, closed, cancelled>>
    BY <1>6 DEF PullEvent, FailStream
  <2>2. \/ pc' = "drop" /\ transport' = "cancelled"
        \/ pc' \in {"scan", "idle"} /\ transport' = transport
    BY <1>6 DEF PullEvent, FailStream
  <2> QED  BY <2>1, <2>2
<1>7. CASE PullDrained
  <2>1. pc = "scan" /\ UNCHANGED <<upstreamDone, cancelled>>
    BY <1>7 DEF PullDrained, FailStream
  <2>2. \/ pc' = "drop" /\ transport' = "cancelled" /\ UNCHANGED closed
        \/ pc' = "idle" /\ transport' = transport /\ closed'
        \/ pc' = "read" /\ transport' = transport /\ UNCHANGED closed /\ ~upstreamDone
    BY <1>7 DEF PullDrained, FailStream
  <2> QED  BY <2>1, <2>2
<1>8. CASE PullReadRejects
  BY <1>8 DEF PullReadRejects, FailStream
<1>9. CASE ClientRead \/ ClientCancel \/ ConnectionFails
  BY <1>9 DEF ClientRead, ClientCancel, ConnectionFails
<1>10. CASE UNCHANGED vars
  BY <1>10 DEF vars
<1> QED  BY <1>1, <1>2, <1>3, <1>4, <1>5, <1>6, <1>7, <1>8, <1>9, <1>10 DEF Next, Gateway

LEMMA SettlingCorrect == Spec => []Settling
<1>1. Init => Settling
  BY DEF Init, Settling
<1> QED  BY <1>1, SettlingStep, IInvCorrect, PTL DEF Spec

(* What is left to do, but for bytes that have not arrived: the two ends   *)
(* of the connection, of the stream and of the client, the events in the   *)
(* wire and in the queue, and the way from here to the next read or output.*)
Lives == IF transport = "open" THEN 2 ELSE IF transport = "cancelled" THEN 0 ELSE 1

ToClose == IF closed THEN 0 ELSE 1

ToLeave == IF cancelled THEN 0 ELSE 1

ToAsk == IF demand THEN 0 ELSE 1

Backlog == 2 * (Len(wire) - taken) + Len(prefetched)

Load == Lives + Backlog + ToClose + ToLeave

Way ==
  IF pc \in {"scan0", "scan"} THEN 3
  ELSE IF pc \in {"read0", "read"} THEN 2
  ELSE IF pc \in {"drop0", "throw0", "drop"} THEN 1
  ELSE IF pc = "idle" /\ ~closed /\ ~cancelled THEN 4 ELSE 0

Effort == 6 * Load + Way + ToAsk

(* Bytes come one after the other, and each only once. *)
Forth == received' > received \/ (received' = received /\ partial' > partial)

(* These are natural numbers, and their bounds.                            *)
Measured ==
  /\ Load \in Nat /\ Way \in 0 .. 4 /\ ToAsk \in 0 .. 1 /\ Effort \in Nat
  /\ Backlog \in Nat /\ Lives \in 0 .. 2 /\ ToClose \in 0 .. 1 /\ ToLeave \in 0 .. 1
  /\ Len(wire) \in Nat /\ Len(prefetched) \in Nat /\ taken \in 0 .. Len(wire)

LEMMA TypesMeasured == TypeOK => Measured
<1> SUFFICES ASSUME TypeOK  PROVE Measured
  OBVIOUS
<1>1. /\ Len(wire) \in Nat /\ Len(prefetched) \in Nat /\ taken \in 0 .. Len(wire)
  <2>1. wire \in Seq(Event) /\ prefetched \in Seq(1 .. Len(wire))
    BY DEF TypeOK
  <2>2. Len(wire) \in Nat /\ Len(prefetched) \in Nat
    BY <2>1, LenProperties
  <2> QED  BY <2>2 DEF TypeOK
<1>2. Lives \in 0 .. 2 /\ Way \in 0 .. 4
  BY DEF Lives, Way
<1>3. ToAsk \in 0 .. 1 /\ ToClose \in 0 .. 1 /\ ToLeave \in 0 .. 1
  BY DEF ToClose, ToLeave, ToAsk
<1> QED  BY <1>1, <1>2, <1>3 DEF Measured, Backlog, Load, Effort

(* Two sums, of which the parts of the first are not above the second's.   *)
LEMMA SumDrops ==
  ASSUME NEW a \in Nat, NEW b \in Nat, NEW c \in Nat, NEW d \in Nat,
         NEW x \in Nat, NEW y \in Nat, NEW u \in Nat, NEW v \in Nat,
         a <= x, b <= y, c <= u, d <= v
  PROVE  /\ a + b + c + d <= x + y + u + v
         /\ a < x \/ b < y \/ c < u \/ d < v => a + b + c + d < x + y + u + v
  OBVIOUS

(* What is multiplied outweighs what is only added.                        *)
LEMMA Outweighs ==
  ASSUME NEW l \in Nat, NEW k \in Nat, NEW w \in 0 .. 4, NEW v \in 0 .. 4,
         NEW a \in 0 .. 1, NEW b \in 0 .. 1
  PROVE  /\ l < k => 6 * l + w + a < 6 * k + v + b
         /\ l = k /\ w <= v /\ a <= b /\ (w < v \/ a < b) => 6 * l + w + a < 6 * k + v + b
         /\ l <= k /\ w <= v + 1 /\ a = b => 6 * l + w + a <= 6 * k + v + b + 1
  OBVIOUS

(* Something of the load is done, and nothing of it undone. *)
LEMMA LoadDrops ==
  ASSUME Measured, Measured', wire' = wire,
         Backlog' <= Backlog, Lives' <= Lives, closed => closed', cancelled => cancelled',
         \/ Lives' < Lives
         \/ Backlog' < Backlog
         \/ closed' /\ ~closed
         \/ cancelled' /\ ~cancelled
  PROVE  Effort' < Effort
<1>1. /\ ToClose' <= ToClose /\ ToLeave' <= ToLeave
      /\ closed' /\ ~closed => ToClose' < ToClose
      /\ cancelled' /\ ~cancelled => ToLeave' < ToLeave
  BY DEF ToClose, ToLeave
<1>2. /\ Lives \in Nat /\ Backlog \in Nat /\ ToClose \in Nat /\ ToLeave \in Nat
      /\ Lives' \in Nat /\ Backlog' \in Nat /\ ToClose' \in Nat /\ ToLeave' \in Nat
  BY DEF Measured
<1>3. Load' < Load
  <2>1. Lives' < Lives \/ Backlog' < Backlog \/ ToClose' < ToClose \/ ToLeave' < ToLeave
    BY <1>1
  <2>2. Lives' + Backlog' + ToClose' + ToLeave' < Lives + Backlog + ToClose + ToLeave
    BY <1>1, <1>2, <2>1, SumDrops
  <2> QED  BY <2>2 DEF Load
<1>4. /\ Load \in Nat /\ Way \in 0 .. 4 /\ ToAsk \in 0 .. 1
      /\ Load' \in Nat /\ Way' \in 0 .. 4 /\ ToAsk' \in 0 .. 1
  BY DEF Measured
<1> QED  BY <1>3, <1>4, Outweighs DEF Effort

(* The load stays and the way gets shorter. *)
LEMMA WayDrops ==
  ASSUME Measured, Measured',
         UNCHANGED <<wire, taken, prefetched, transport, closed, cancelled>>,
         \/ Way' < Way /\ UNCHANGED demand
         \/ Way' = Way /\ ~demand /\ demand'
  PROVE  Effort' < Effort
<1>1. Load' = Load
  BY DEF Load, Backlog, Lives, ToClose, ToLeave
<1>2. /\ Load \in Nat /\ Way \in 0 .. 4 /\ ToAsk \in 0 .. 1
      /\ Way' \in 0 .. 4 /\ ToAsk' \in 0 .. 1
  BY DEF Measured
<1>3. \/ Way' < Way /\ ToAsk' = ToAsk
      \/ Way' = Way /\ ToAsk' < ToAsk
  BY DEF ToAsk
<1>4. Way' <= Way /\ ToAsk' <= ToAsk /\ (Way' < Way \/ ToAsk' < ToAsk)
  BY <1>2, <1>3
<1> QED  BY <1>1, <1>2, <1>4, Outweighs DEF Effort

(* An event that passed, with or without an output for the queue. *)
LEMMA TakeDrops ==
  ASSUME Measured, Measured', wire' = wire, taken' = taken + 1,
         Len(prefetched)' \in {Len(prefetched), Len(prefetched) + 1},
         Lives' <= Lives, UNCHANGED <<closed, cancelled>>
  PROVE  Effort' < Effort
<1>1. Backlog' < Backlog /\ Backlog' <= Backlog
  BY DEF Backlog, Measured
<1> QED  BY <1>1, LoadDrops DEF Measured

(* A failure drops the upstream, which the gateway had not done yet. *)
LEMMA DropDrops ==
  ASSUME IInv, Measured, Measured', Settling, transport' = "cancelled", wire' = wire,
         UNCHANGED <<prefetched, closed, cancelled>>, taken' \in {taken, taken + 1},
         pc \in {"scan0", "scan", "read"}, ~closed, ~cancelled
  PROVE  Effort' < Effort
<1>1. Lives' < Lives
  BY DEF Settling, Lives
<1>2. Backlog' <= Backlog
  BY DEF Backlog, Measured
<1>3. Lives' <= Lives
  BY <1>1 DEF Measured
<1> QED  BY <1>1, <1>2, <1>3, LoadDrops

(* A step that takes in no bytes. *)
LEMMA EffortStep ==
  ASSUME IInv, Measured, Measured', Settling, Next, ~Upstream
  PROVE  UNCHANGED <<received, partial>> /\ Effort' < Effort
<1> USE DEF IInv, Phases, transportVars, validatorVars, clientVars, upstreamVars,
            Prefetching, Serving
<1>1. CASE PrefetchReadRejects
  BY <1>1, WayDrops DEF PrefetchReadRejects, Way
<1>2. CASE PrefetchEvent
  <2>1. UNCHANGED <<received, partial, wire, closed, cancelled>> /\ pc = "scan0"
        /\ ~closed /\ ~cancelled
    BY <1>2 DEF PrefetchEvent
  <2>2. CASE Passes
    <3>1. taken' = taken + 1 /\ transport' = transport
          /\ prefetched' \in {prefetched, Append(prefetched, taken + 1)}
      BY <1>2, <2>2 DEF PrefetchEvent, TakeEvent
    <3>2. Len(prefetched)' \in {Len(prefetched), Len(prefetched) + 1}
      <4>1. taken + 1 \in 1 .. Len(wire) /\ prefetched \in Seq(1 .. Len(wire))
        BY <1>2 DEF PrefetchEvent, HasEvent, TypeOK, Measured
      <4> QED  BY <3>1, <4>1, AppendProperties
    <3>3. Lives' <= Lives
      BY <3>1 DEF Lives, Measured
    <3> QED  BY <2>1, <3>1, <3>2, <3>3, TakeDrops
  <2>3. CASE ~Passes
    <3>1. transport' = "cancelled" /\ taken' \in {taken, taken + 1} /\ UNCHANGED prefetched
      BY <1>2, <2>3 DEF PrefetchEvent
    <3> QED  BY <2>1, <3>1, DropDrops
  <2> QED  BY <2>2, <2>3
<1>3. CASE PrefetchDrained
  BY <1>3, WayDrops DEF PrefetchDrained, Way
<1>4. CASE Refuse
  BY <1>4, WayDrops DEF Refuse, Way
<1>5. CASE PullPrefetched
  <2>1. /\ UNCHANGED <<received, partial, wire, taken, closed, cancelled>>
        /\ transport' \in {transport, "cancelled"}
    BY <1>5 DEF PullPrefetched
  <2>2. Len(prefetched)' = Len(prefetched) - 1
    BY <1>5, HeadTailProperties DEF PullPrefetched, TypeOK
  <2>3. Lives' <= Lives
    BY <2>1 DEF Lives
  <2>4. Backlog' < Backlog /\ Backlog' <= Backlog
    BY <2>1, <2>2 DEF Backlog, Measured
  <2> QED  BY <2>1, <2>3, <2>4, LoadDrops DEF Measured
<1>6. CASE Pull
  BY <1>6, WayDrops DEF Pull, Way
<1>7. CASE PullEvent
  <2>1. UNCHANGED <<received, partial, wire, closed, cancelled, prefetched>> /\ pc = "scan"
    BY <1>7 DEF PullEvent, FailStream
  <2>2. CASE Passes
    <3>1. taken' = taken + 1 /\ transport' \in {transport, "cancelled"}
      BY <1>7, <2>2 DEF PullEvent, TakeEvent
    <3>2. Lives' <= Lives
      BY <3>1 DEF Lives
    <3> QED  BY <2>1, <3>1, <3>2, TakeDrops
  <2>3. CASE ~Passes
    <3>1. transport' = "cancelled" /\ taken' \in {taken, taken + 1}
      BY <1>7, <2>3 DEF PullEvent, FailStream
    <3> QED  BY <2>1, <3>1, DropDrops
  <2> QED  BY <2>2, <2>3
<1>8. CASE PullDrained
  <2>1. UNCHANGED <<received, partial, wire, taken, prefetched>> /\ pc = "scan"
    BY <1>8 DEF PullDrained, FailStream
  <2>2. CASE FailStream
    BY <2>1, <2>2, DropDrops DEF FailStream
  <2>3. CASE UNCHANGED <<transport, cancelled>> /\ closed'
    <3>1. ~closed /\ Lives' <= Lives /\ Backlog' <= Backlog
      BY <2>1, <2>3 DEF Lives, Backlog, Measured
    <3> QED  BY <2>1, <2>3, <3>1, LoadDrops
  <2>4. CASE pc' = "read" /\ UNCHANGED <<transport, closed, cancelled, demand>>
    BY <2>1, <2>4, WayDrops DEF Way
  <2> QED  BY <1>8, <2>2, <2>3, <2>4 DEF PullDrained
<1>9. CASE PullReadAfterCancel
  BY <1>9, WayDrops DEF PullReadAfterCancel, Way
<1>10. CASE PullReadRejects
  BY <1>10, DropDrops DEF PullReadRejects, FailStream
<1>11. CASE Close
  <2>1. /\ UNCHANGED <<received, partial, wire, taken, prefetched, transport, cancelled, demand>>
        /\ pc = "drop" /\ pc' = "idle" /\ closed' = ~cancelled
    BY <1>11 DEF Close
  <2>2. closed = FALSE
    BY <2>1 DEF Settling, TypeOK
  <2>3. CASE cancelled
    <3>1. closed' = FALSE /\ cancelled'
      BY <2>1, <2>3, Zenon
    <3>2. Way' < Way
      BY <2>1, <3>1 DEF Way
    <3> QED  BY <2>1, <2>2, <3>1, <3>2, WayDrops
  <2>4. CASE ~cancelled
    <3>1. closed'
      BY <2>1, <2>4, Zenon
    <3>2. Lives' <= Lives /\ Backlog' <= Backlog
      BY <2>1 DEF Lives, Backlog, Measured
    <3> QED  BY <2>1, <2>2, <3>1, <3>2, LoadDrops
  <2> QED  BY <2>3, <2>4
<1>12. CASE ClientRead
  BY <1>12, WayDrops DEF ClientRead, Way
<1>13. CASE ClientCancel
  <2>1. /\ UNCHANGED <<received, partial, wire, taken, prefetched, closed>>
        /\ transport' = "cancelled" /\ ~cancelled /\ cancelled'
    BY <1>13 DEF ClientCancel
  <2>2. Lives' <= Lives /\ Backlog' <= Backlog
    BY <2>1 DEF Lives, Backlog, Measured
  <2> QED  BY <2>1, <2>2, LoadDrops
<1>14. CASE ConnectionFails
  <2>1. /\ UNCHANGED <<received, partial, wire, taken, prefetched, closed, cancelled>>
        /\ transport = "open" /\ transport' = "error"
    BY <1>14 DEF ConnectionFails
  <2>2. Lives' < Lives /\ Lives' <= Lives /\ Backlog' <= Backlog
    BY <2>1 DEF Lives, Backlog, Measured
  <2> QED  BY <2>1, <2>2, LoadDrops
<1> QED  BY <1>1, <1>2, <1>3, <1>4, <1>5, <1>6, <1>7, <1>8, <1>9, <1>10, <1>11, <1>12, <1>13, <1>14
            DEF Next, Gateway

(* A read that delivers bytes goes forward in the wire; the one that finds *)
(* the end of the body has one life less.                                  *)
LEMMA ReadForward ==
  ASSUME IInv, InPart, Measured, Measured', Upstream
  PROVE  \/ Forth /\ Effort' <= Effort + 1
         \/ UNCHANGED <<received, partial>> /\ Effort' < Effort
<1> USE DEF IInv, Phases, Prefetching, transportVars, validatorVars, clientVars, upstreamVars
<1>1. /\ ReadFulfils /\ transport = "open" /\ ~upstreamDone /\ pc \in {"read0", "read"}
      /\ UNCHANGED <<wire, taken, prefetched, closed, cancelled, demand>>
      /\ pc' \in {"scan0", "drop0", "scan"} /\ transport' \in {AfterRead, "cancelled"}
  BY DEF Upstream, PrefetchRead, PullRead, ReadFulfils, BytesArrive, BodyEnds, Connection, TypeOK
<1>2. CASE BytesArrive
  <2>1. Forth
    <3>1. PICK r \in received .. Len(wire) : \E p \in Partials(r) :
                 (r = received => p > partial) /\ received' = r /\ partial' = p
      BY <1>2 DEF BytesArrive
    <3> QED  BY <3>1 DEF Forth, TypeOK
  <2>2. Lives' <= Lives
    BY <1>1 DEF Lives, AfterRead
  <2>3. Load' <= Load
    <3>1. Backlog' = Backlog /\ ToClose' = ToClose /\ ToLeave' = ToLeave
      BY <1>1 DEF Backlog, ToClose, ToLeave
    <3>2. /\ Lives \in Nat /\ Backlog \in Nat /\ ToClose \in Nat /\ ToLeave \in Nat
          /\ Lives' \in Nat /\ Backlog' \in Nat /\ ToClose' \in Nat /\ ToLeave' \in Nat
      BY DEF Measured
    <3>3. Backlog' <= Backlog /\ ToClose' <= ToClose /\ ToLeave' <= ToLeave
      BY <3>1, <3>2
    <3> QED  BY <2>2, <3>2, <3>3, SumDrops DEF Load
  <2>4. Way' <= Way + 1 /\ ToAsk' = ToAsk
    BY <1>1 DEF Way, ToAsk
  <2>5. /\ Load \in Nat /\ Way \in 0 .. 4 /\ ToAsk \in 0 .. 1
        /\ Load' \in Nat /\ Way' \in 0 .. 4 /\ ToAsk' \in 0 .. 1
    BY DEF Measured
  <2> QED  BY <2>1, <2>3, <2>4, <2>5, Outweighs DEF Effort
<1>3. CASE BodyEnds
  <2>1. transport' # "open" /\ UNCHANGED <<received, partial>>
    BY <1>1, <1>3 DEF BodyEnds, AfterRead
  <2>2. Lives' < Lives /\ Lives' <= Lives /\ Backlog' <= Backlog
    BY <1>1, <2>1 DEF Lives, Backlog, Measured
  <2> QED  BY <1>1, <2>1, <2>2, LoadDrops
<1> QED  BY <1>1, <1>2, <1>3 DEF ReadFulfils

(* A step of anyone takes in bytes, in their order and no more than the    *)
(* wire has, or takes something from a natural number to which a read adds *)
(* at most one.                                                            *)
Ends ==
  \/ Forth /\ Effort' <= Effort + 1
  \/ UNCHANGED <<received, partial>> /\ Effort' < Effort

(* Whatever the upstream sends, however the network cuts it and whoever    *)
(* leaves, no read waits for an upstream that ended or that the gateway    *)
(* cancelled, and a response takes no more steps than the bytes of its     *)
(* wire and the initial effort allow: the loops over the buffer, between   *)
(* reads and between pulls all come to their end.  With the fairness of    *)
(* FairSpec this is why no stream stays open for ever.                     *)
THEOREM ResponseIsFinite ==
  Spec => /\ []ReadsSettle
          /\ [](received \in 0 .. Len(wire) /\ partial \in Partials(received) /\ Effort \in Nat)
          /\ [][Ends]_vars
<1>1. Spec => [](Exact /\ InPart)
  BY InitExact, ExactStep, IInvCorrect, PTL DEF Spec
<1>2. IInv => Measured
  BY TypesMeasured DEF IInv
<1>3. IInv /\ Settling => ReadsSettle
  BY DEF IInv, Settling, ReadsSettle, TypeOK, Transports, Phases, Prefetching
<1>4. IInv /\ InPart /\ Measured =>
        received \in 0 .. Len(wire) /\ partial \in Partials(received) /\ Effort \in Nat
  BY DEF IInv, InPart, Measured, TypeOK
<1>5. IInv /\ InPart /\ Settling /\ Measured /\ Measured' /\ [Next]_vars => [Ends]_vars
  BY EffortStep, ReadForward DEF Ends
<1> QED  BY <1>1, <1>2, <1>3, <1>4, <1>5, IInvCorrect, SettlingCorrect, PTL DEF Spec

================================================================================
