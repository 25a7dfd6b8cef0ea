---------------------------- MODULE AbstractLedger ----------------------------
(***************************************************************************)
(* What the webhook service promises of a request, whatever threads,       *)
(* deliveries, leases and failures there are: it is bound to one Issue     *)
(* once, decided once, its decision announced in one comment, and that     *)
(* comment recorded.                                                       *)
(***************************************************************************)
EXTENDS Naturals

CONSTANTS Requests, Digests, Issues, Receipts, RequestOf, NoValue

VARIABLES
  bound,      \* bound[r]: the canonical request and Issue, or NoValue
  decision,   \* decision[r]: the terminal receipt, or NoValue
  announced,  \* announced[r]: the comments on GitHub that carry a receipt
  recorded    \* recorded[r]: the comment known to be the announcement, or 0

vars == <<bound, decision, announced, recorded>>

Init ==
  /\ bound = [r \in Requests |-> NoValue]
  /\ decision = [r \in Requests |-> NoValue]
  /\ announced = [r \in Requests |-> {}]
  /\ recorded = [r \in Requests |-> 0]

Bind(d, i) ==
  LET r == RequestOf[d] IN
  /\ bound[r] = NoValue
  /\ \A q \in Requests : bound[q] # NoValue => bound[q].issue # i
  /\ bound' = [bound EXCEPT ![r] = [digest |-> d, issue |-> i]]
  /\ UNCHANGED <<decision, announced, recorded>>

Decide(r, receipt) ==
  /\ bound[r] # NoValue
  /\ decision[r] = NoValue
  /\ decision' = [decision EXCEPT ![r] = receipt]
  /\ UNCHANGED <<bound, announced, recorded>>

(* GitHub chooses the id of the comment.                                    *)
Announce(r) ==
  /\ decision[r] # NoValue
  /\ announced[r] = {}
  /\ \E c \in announced'[r] :
       /\ c.issue = bound[r].issue
       /\ c.receipt = decision[r]
       /\ announced' = [announced EXCEPT ![r] = {c}]
  /\ UNCHANGED <<bound, decision, recorded>>

RecordComment(r) ==
  /\ recorded[r] = 0
  /\ \E c \in announced[r] : recorded' = [recorded EXCEPT ![r] = c.id]
  /\ UNCHANGED <<bound, decision, announced>>

Next ==
  \/ \E d \in Digests, i \in Issues : Bind(d, i)
  \/ \E r \in Requests :
       \/ \E receipt \in Receipts : Decide(r, receipt)
       \/ Announce(r)
       \/ RecordComment(r)

Spec == Init /\ [][Next]_vars
=============================================================================
