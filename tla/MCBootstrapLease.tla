--------------------------- MODULE MCBootstrapLease ---------------------------
(* Values of the constants of BootstrapLease for TLC.  One unit of time is a *)
(* heartbeat interval.                                                       *)
EXTENDS BootstrapLease, TLC

CONSTANTS a1, a2, s1, s2

\* As in the code, the first delay is longer than a run may work.
OneDelay == <<5>>

TwoDelays == <<3, 3>>

Symmetry == Permutations(Approver) \cup Permutations(Sweeper)
==============================================================================
