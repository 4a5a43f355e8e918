------------------------------- MODULE OneResult -------------------------------
(***************************************************************************)
(* What every one-time handoff promises.  An exchange waits for a decision, *)
(* has at most one result, and is over for good once it was refused,       *)
(* acknowledged or left until its retention ended.  A result never changes *)
(* and is not kept past the end of its exchange.                           *)
(***************************************************************************)
CONSTANTS
  Exchange,
  Result,
  NoResult

VARIABLES
  phase,   \* where each exchange stands
  result   \* what can still be fetched

Init ==
  /\ phase = [e \in Exchange |-> "open"]
  /\ result = [e \in Exchange |-> NoResult]

\* The owner approves, and the result is stored with the decision.
Decide(e) ==
  /\ phase[e] = "open"
  /\ phase' = [phase EXCEPT ![e] = "available"]
  /\ result'[e] \in Result
  /\ result' = [result EXCEPT ![e] = result'[e]]

\* The owner refuses, the client acknowledges, or the retention ends.
Close(e) ==
  /\ phase[e] # "over"
  /\ phase' = [phase EXCEPT ![e] = "over"]
  /\ result' = [result EXCEPT ![e] = NoResult]

\* Results that nobody took are cleared together.
CloseAll(E) ==
  /\ \A e \in E : phase[e] = "available"
  /\ phase' = [e \in Exchange |-> IF e \in E THEN "over" ELSE phase[e]]
  /\ result' = [e \in Exchange |-> IF e \in E THEN NoResult ELSE result[e]]

Next ==
  \/ \E e \in Exchange : Decide(e) \/ Close(e)
  \/ \E E \in SUBSET Exchange : CloseAll(E)

Spec == Init /\ [][Next]_<<phase, result>>
=============================================================================
