--------------------------- MODULE MCMcpConnection ---------------------------
(* Values of the constants of McpConnection for TLC. *)
EXTENDS McpConnection, TLC

CONSTANTS s1, t1, t2, c1, r1, r2, w1, mcp

Symmetry == Permutations(Token) \cup Permutations(Refresher)

\* No renewal by the web application is in progress.
WebIdle == \A w \in WebUse : web[w].stage = "idle"

\* Access tokens are revoked while no other request is in progress; where the provider
\* deleted a consent, neither is one revoked, nor the client disabled, nor the web
\* application used, and only one request is in progress.
Focus ==
  /\ revoked # {} => WebIdle /\ \A r \in Refresher : call[r].stage = "idle"
  /\ consent.again > consent.cut =>
       /\ revoked = {} /\ ~ disabled /\ WebIdle
       /\ \A r, q \in Refresher : r = q \/ call[r].stage = "idle" \/ call[q].stage = "idle"
==============================================================================
