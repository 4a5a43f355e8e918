--------------------------- MODULE MCNativeRequests ---------------------------
(* Small instances of NativeRequests for TLC.                              *)
EXTENDS NativeRequests, TLC

CONSTANTS u1, u2, t1, t2, k1, k2, h1, p1

Open == [enabled |-> TRUE, perms |-> {p1}, maxTtl |-> 2, lifetime |-> 2, host |-> h1]
Narrow == [enabled |-> TRUE, perms |-> {}, maxTtl |-> 1, lifetime |-> 2, host |-> h1]

OneCeiling == {Open}
TwoCeilings == {Open, Narrow}

TabSymmetry == Permutations({t1, t2})
UserTabSymmetry == Permutations({t1, t2}) \cup Permutations({u1, u2})
=============================================================================
