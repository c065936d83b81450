------------------------------ MODULE StreamEvents ------------------------------
(***************************************************************************)
(* The Server-Sent Events of a Chat Completions stream, as far as the      *)
(* relay in src/proxy/openaiCompatibility.ts tells them apart, and the     *)
(* verdict of ChatCompletionStreamValidator on one of them.                *)
(*                                                                         *)
(* An event is its kind and its length.  Lengths count abstract units, and *)
(* MaxEvent is MAX_SSE_EVENT_LENGTH in those units.                        *)
(*   "text"       a well-formed chunk of the requested model with          *)
(*                something a client may see (a visible delta, a finish    *)
(*                reason or usage)                                         *)
(*   "reasoning"  a well-formed chunk of which the universal profile       *)
(*                leaves nothing after stripping reasoning fields          *)
(*   "comment"    an event of comment and empty lines only, or of nothing  *)
(*   "done"       data: [DONE]                                             *)
(*   "bad"        anything else: other SSE fields, malformed JSON, an      *)
(*                invalid chunk, a chunk of another model                  *)
(***************************************************************************)
EXTENDS Integers, Sequences

CONSTANT MaxEvent

ASSUME MaxEventAssumption == MaxEvent \in Nat

Kinds == {"text", "reasoning", "comment", "done", "bad"}

Profiles == {"plain", "universal"}

Event == [kind : Kinds, size : Nat]

IsChunk(e) == e.kind \in {"text", "reasoning"}

Oversized(e) == e.size > MaxEvent

(* A mistake to be noticed: [DONE] passes although no chunk came before. *)
AcceptsDoneFirst(e, sawChunk, sawDone) ==
  \/ e.kind = "comment"
  \/ e.kind # "bad" /\ ~sawDone

(* Whether the validator passes e, given what it passed before. *)
Accepts(e, sawChunk, sawDone) ==
  \/ e.kind = "comment"
  \/ IsChunk(e) /\ ~sawDone
  \/ e.kind = "done" /\ sawChunk /\ ~sawDone

(* Whether an event that passed produces output under the key's profile. *)
Shown(e, profile) ==
  \/ e.kind \in {"text", "done"}
  \/ profile = "plain"

=================================================================================
