-------------------------- MODULE MCPreparedHandoffs --------------------------
(* Values of the constants of PreparedHandoffs for TLC. *)
EXTENDS PreparedHandoffs, TLC

CONSTANTS t1, t2, n1, n2, x1, x2, x3, b1, b2, k1, k2, p1, p2, s1, s2

Symmetry ==
  Permutations(Ticket) \cup Permutations(Nonce) \cup Permutations(Context)
    \cup Permutations(Bytes) \cup Permutations(Preparer) \cup Permutations(Signer)

Busy(calls) == Cardinality({i \in DOMAIN calls : calls[i].stage # "idle"})

\* Two claims are in flight while nothing was prepared; one claim meets every other call,
\* one at a time.
Focus ==
  \/ Busy(claim) = 0
  \/ claim[k2].stage = "idle" /\ Busy(prepare) + Busy(sign) <= 1
  \/ Busy(prepare) = 0 /\ \A x \in Context : ctx[x].stage = "unused"
===============================================================================
