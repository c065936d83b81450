----------------------------- MODULE MCStreamRelay -----------------------------
(* Every upstream of at most MaxEvents events from a representative set.   *)
(* With MaxEvent = 2 and Separator = 2, an event of size 1 can be cut      *)
(* anywhere and fits the limit with its separator, one of size 2 is at the *)
(* limit, one of size 3 is over it and may be found out before it is whole;*)
(* the comment is an empty event, nothing but its separator.               *)
EXTENDS StreamRelay

CONSTANTS MaxEvents, Sizes

SampleEvents ==
  [kind : {"text"}, size : Sizes]
    \cup [kind : {"reasoning", "bad", "done"}, size : {1}]
    \cup [kind : {"comment"}, size : {0}]

ShortWires == UNION {[1 .. n -> SampleEvents] : n \in 0 .. MaxEvents}

=================================================================================
