------------------------------ MODULE DecisionLog ------------------------------
(***************************************************************************)
(* What the operation engine promises its clients: every accepted request  *)
(* is a decision register.  It is open from the moment it is accepted, is  *)
(* decided at most once, and the decision and its entry in the audit log   *)
(* become durable together.  Accepting a request may decide others, but    *)
(* only by cancelling them.                                                *)
(***************************************************************************)
EXTENDS Naturals

CONSTANTS Requests,   \* identities of accepted requests
          Decisions,  \* how a request can end
          Cancelled   \* the decision forced on a superseded request

VARIABLES decision,   \* "none", "open" or the decision of each request
          entries     \* audit entries of each request

Init ==
    /\ decision = [q \in Requests |-> "none"]
    /\ entries = [q \in Requests |-> 0]

Accept(q, S) ==
    /\ decision[q] = "none"
    /\ \A p \in S : decision[p] = "open"
    /\ decision' = [p \in Requests |-> IF p = q THEN "open"
                                       ELSE IF p \in S THEN Cancelled
                                       ELSE decision[p]]
    /\ entries' = [p \in Requests |-> IF p \in S THEN entries[p] + 1 ELSE entries[p]]

Decide(q, d) ==
    /\ decision[q] = "open"
    /\ decision' = [decision EXCEPT ![q] = d]
    /\ entries' = [entries EXCEPT ![q] = @ + 1]

Next ==
    \/ \E q \in Requests, S \in SUBSET Requests : Accept(q, S)
    \/ \E q \in Requests, d \in Decisions : Decide(q, d)

Spec == Init /\ [][Next]_<<decision, entries>>
=============================================================================
