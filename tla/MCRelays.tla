------------------------------- MODULE MCRelays -------------------------------
(* Values of the constants of ApprovalResults, DelegationCodes and WidgetFlows for TLC.  They *)
(* share nothing but the clock of the first two, so one of them runs in each behaviour. *)
EXTENDS ApprovalResults, DelegationCodes, WidgetFlows, TLC

CONSTANTS q1, p1, p2, x1, x2, f1, f2, a1, a2, c1, d1, k1, k2, s1, r1, r2, w1, w2

VARIABLE part

Symmetry == Permutations(Page) \cup Permutations(Fetcher) \cup Permutations(Ack)
              \cup Permutations(Claim) \cup Permutations(Redeemer)

Init ==
  /\ ApprovalInit /\ CodeInit /\ WidgetInit
  /\ part \in {"approval", "code", "widget"}

Next ==
  \/ part = "approval" /\ ApprovalNext /\ UNCHANGED <<part, codeVars, widgetVars>>
  \/ part = "code" /\ CodeNext /\ UNCHANGED <<part, approvalVars, widgetVars>>
  \/ part = "widget" /\ WidgetNext /\ UNCHANGED <<part, now, approvalVars, codeVars>>

Spec == Init /\ [][Next]_<<now, approvalVars, codeVars, widgetVars, part>>
===============================================================================
