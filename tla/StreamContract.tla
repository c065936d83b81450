----------------------------- MODULE StreamContract -----------------------------
(***************************************************************************)
(* What a client of a streamed Chat Completions request is promised        *)
(* (docs/OPENAI_COMPATIBILITY.md): either an HTTP error and no stream, or  *)
(* the visible events of a legal prefix of the upstream's stream, one by   *)
(* one and in order, ended by the upstream's [DONE] or by one failure      *)
(* event, and no part of an illegal event.  Nothing is said of buffers,    *)
(* reads, the prefetch or the upstream connection: StreamRelay implements  *)
(* this.                                                                   *)
(***************************************************************************)
EXTENDS StreamEvents

CONSTANT Wires

VARIABLES
  wire, profile,
  sent,         \* what the client got: positions in wire, 0 for a failure
  outcome       \* pending, refused, streaming, ended or cancelled

cvars == <<wire, profile, sent, outcome>>

LegalPrefix(n) ==
  \A i \in 1 .. n :
    /\ ~Oversized(wire[i])
    /\ wire[i].kind # "bad"
    /\ IsChunk(wire[i]) => \A j \in 1 .. i - 1 : wire[j].kind # "done"
    /\ wire[i].kind = "done" =>
         /\ \E j \in 1 .. i - 1 : IsChunk(wire[j])
         /\ \A j \in 1 .. i - 1 : wire[j].kind # "done"

LastSent == IF sent = <<>> THEN 0 ELSE sent[Len(sent)]

CInit ==
  /\ wire \in Wires
  /\ profile \in Profiles
  /\ sent = <<>>
  /\ outcome = "pending"

(* A stream is opened only on the evidence of one legal chunk. *)
Open ==
  /\ outcome = "pending"
  /\ \E n \in 1 .. Len(wire) : LegalPrefix(n) /\ IsChunk(wire[n])
  /\ outcome' = "streaming"
  /\ UNCHANGED <<wire, profile, sent>>

RefuseUpstream ==
  /\ outcome = "pending"
  /\ outcome' = "refused"
  /\ UNCHANGED <<wire, profile, sent>>

Deliver ==
  /\ outcome = "streaming"
  /\ \E i \in LastSent + 1 .. Len(wire) :
       /\ LegalPrefix(i)
       /\ Shown(wire[i], profile)
       /\ \A j \in LastSent + 1 .. i - 1 : ~Shown(wire[j], profile)
       /\ sent' = Append(sent, i)
       /\ outcome' = IF wire[i].kind = "done" THEN "ended" ELSE "streaming"
  /\ UNCHANGED <<wire, profile>>

Fail ==
  /\ outcome = "streaming"
  /\ sent' = Append(sent, 0)
  /\ outcome' = "ended"
  /\ UNCHANGED <<wire, profile>>

Cancel ==
  /\ outcome = "streaming"
  /\ outcome' = "cancelled"
  /\ UNCHANGED <<wire, profile, sent>>

CNext == Open \/ RefuseUpstream \/ Deliver \/ Fail \/ Cancel

CSafety == CInit /\ [][CNext]_cvars

CSpec == CSafety /\ WF_cvars(CNext)

=================================================================================
