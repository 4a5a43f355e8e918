-------------------------- MODULE MCNativeDelegation --------------------------
(* Small instances of NativeDelegation for TLC.                            *)
EXTENDS NativeDelegation, TLC

CONSTANTS u1, u2, c1, c2, g1, g2, n1, n2, h1, h2, p1

\* ttl / 4 is the renewal interval, as it is at the smallest ttl the code accepts.
Long == [enabled |-> TRUE, perms |-> {p1}, maxTtl |-> 4, lifetime |-> 5, host |-> h1]
Short == [enabled |-> TRUE, perms |-> {p1}, maxTtl |-> 3, lifetime |-> 3, host |-> h1]

\* In minutes: the smallest ttl and an eight minute grant, beside the code's own 60 s
\* interval, 300 s access token and 300 s cutoff.
Real == [enabled |-> TRUE, perms |-> {p1}, maxTtl |-> 5, lifetime |-> 8, host |-> h1]

RealCeiling == {Real}
OneCeiling == {Long}
TwoCeilings == {Long, Short}

RenewerSymmetry == Permutations({n1, n2})
ExchangeSymmetry == Permutations({c1, c2}) \cup Permutations({g1, g2})
=============================================================================
