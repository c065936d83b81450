----------------------------- MODULE MCRateLimiter -----------------------------
(* Two configurations that differ in rate and in burst.  A token of Unit = *)
(* 4 fractions takes four ticks at rate 1; at rate 3 it is not a whole     *)
(* number of ticks, so that waits are rounded.                             *)
EXTENDS RateLimiter

SampleConfigs == {[rpm |-> 1, burst |-> 2], [rpm |-> 3, burst |-> 1]}

=================================================================================
