------------------------------ MODULE MCGateway ------------------------------
(* Two requests with one key: lists, completions whole, streamed or with a *)
(* format, invalid ones, and other paths with and without a model.         *)
EXTENDS Gateway

CONSTANTS gemma

Asking(path, valid, stream, schema, model) ==
  [path |-> path, valid |-> valid, stream |-> stream, schema |-> schema, model |-> model]

SomeAsks ==
  {Asking("list", TRUE, FALSE, FALSE, None),
   Asking("chat", FALSE, FALSE, FALSE, None),
   Asking("chat", TRUE, FALSE, TRUE, gemma),
   Asking("chat", TRUE, TRUE, FALSE, gemma),
   Asking("other", TRUE, FALSE, FALSE, Apple),
   Asking("other", TRUE, FALSE, FALSE, None)}

(* Every model; every model with one configured; one model alone. *)
SomeGrants ==
  {[all |-> TRUE, allowed |-> {}, model |-> None, strict |-> FALSE],
   [all |-> TRUE, allowed |-> {}, model |-> gemma, strict |-> TRUE],
   [all |-> FALSE, allowed |-> {gemma}, model |-> None, strict |-> FALSE]}

==============================================================================
