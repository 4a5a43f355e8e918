------------------------- MODULE MCDeviceAuthorization -------------------------
(* Values of the constants of DeviceAuthorization for TLC. *)
EXTENDS DeviceAuthorization, TLC

CONSTANTS t1, t2, p1, p2, c1, c2, s1, s2

Symmetry ==
  Permutations(Transaction) \cup Permutations(Page) \cup Permutations(Call)
    \cup Permutations(Starter)

\* The run looks at two kinds of behaviours: every race of two pages and two calls on one
\* transaction, and start calls over several transactions with one page and one call in
\* progress at a time.
Busy(stages) == Cardinality({i \in DOMAIN stages : stages[i].stage # "idle"})

Focus ==
  \/ /\ Cardinality({t \in Transaction : row[t].status # "absent"}) <= 1
     /\ \A s \in Starter : start[s].stage = "idle"
  \/ /\ now <= 3 /\ Busy(page) + Busy(call) <= 1
     /\ Cardinality({t \in Transaction : row[t].status \notin {"absent", "pending"}}) <= 1
================================================================================
