------------------------------- MODULE WatchMC -------------------------------
(* Instances of Watch for TLC. *)
EXTENDS Watch

CONSTANT b1

OneAddress == <<"lan">>
AllAtB1    == [j \in 1 .. MaxJobs |-> b1]
=============================================================================
