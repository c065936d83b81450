-------------------------------- MODULE MCSetup --------------------------------
(* Two runs; ports at both ends of the range and past them. *)
EXTENDS Setup

Option(port, host, pull) == [port |-> port, host |-> host, pull |-> pull]
SomeOptions == {Option(MaxPort, "http", TRUE), Option(MaxPort + 1, "http", FALSE),
                Option(0, "http", FALSE), Option(1, "ftp", FALSE)}
SomeEnvironments == {[port |-> 1, host |-> "http"], [port |-> 0, host |-> "http"]}
SomeHandwritten == {[port |-> 1, host |-> "http"], [port |-> 0, host |-> "http"]}
================================================================================
