--------------------------- MODULE AbstractRequest ---------------------------
(***************************************************************************)
(* What the Actions transport promises of one request, whatever jobs,      *)
(* comments and failures there are: one execution is granted; it has at    *)
(* most one effect, and none once something was said about it; what the    *)
(* Issue's receipts say of the effect is true and stays true; the outcome  *)
(* is one that was said, and it is final.                                  *)
(***************************************************************************)
EXTENDS Naturals

CONSTANTS Executions, NoValue

VARIABLES
  effectful,  \* does success mean an effect?
  standing,   \* what the journal says of the request
  owner,      \* the execution that was granted, or NoValue
  effects,    \* how often it had its effect
  said        \* what the receipts on the Issue say

vars == <<effectful, standing, owner, effects, said>>

Open == {"executing", "ambiguous"}

Outcomes == {"succeeded", "rejected"}

Init ==
  /\ effectful \in BOOLEAN
  /\ standing = "unknown"
  /\ owner = NoValue
  /\ effects = 0
  /\ said = {}

Accept ==
  /\ standing = "unknown"
  /\ standing' = "accepted"
  /\ UNCHANGED <<effectful, owner, effects, said>>

Claim(execution) ==
  /\ standing = "accepted"
  /\ standing' = "executing"
  /\ owner' = execution
  /\ UNCHANGED <<effectful, effects, said>>

(* A request in doubt may still have its effect, but never a second one.    *)
Doubt ==
  /\ standing = "executing"
  /\ standing' = "ambiguous"
  /\ UNCHANGED <<effectful, owner, effects, said>>

Act ==
  /\ effectful
  /\ standing \in Open
  /\ effects = 0
  /\ said = {}
  /\ effects' = 1
  /\ UNCHANGED <<effectful, standing, owner, said>>

Say(outcome) ==
  /\ standing \in Open \cup Outcomes
  /\ effectful => (outcome = "succeeded" <=> effects = 1)
  /\ said' = said \cup {outcome}
  /\ UNCHANGED <<effectful, standing, owner, effects>>

Settle(outcome) ==
  /\ standing \in Open
  /\ outcome \in said
  /\ standing' = outcome
  /\ UNCHANGED <<effectful, owner, effects, said>>

Next ==
  \/ Accept
  \/ \E execution \in Executions : Claim(execution)
  \/ Doubt
  \/ Act
  \/ \E outcome \in Outcomes : Say(outcome) \/ Settle(outcome)

Spec == Init /\ [][Next]_vars
=============================================================================
