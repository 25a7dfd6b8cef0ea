--------------------------- MODULE AbstractJournal ----------------------------
(***************************************************************************)
(* What docs/actions-transport.md promises of the durable journal: one     *)
(* record per request that is frozen when accepted and then moves through  *)
(* its life one atomic step at a time, one request at a time, with at most *)
(* one execution granted, and only while the record is executing.          *)
(***************************************************************************)
EXTENDS Sequences

CONSTANTS Requests, Identities, Metas, Executions, Codes, NoValue

VARIABLES
  records,  \* records[r]: the durable record, or NoValue
  grants    \* grants[r]: the executions that were told to run

vars == <<records, grants>>

Init ==
  /\ records = [r \in Requests |-> NoValue]
  /\ grants = [r \in Requests |-> << >>]

Store(r, rec) ==
  /\ records' = [records EXCEPT ![r] = rec]
  /\ UNCHANGED grants

In(r, states) == records[r] # NoValue /\ records[r].state \in states

Accept(r) ==
  /\ records[r] = NoValue
  /\ \E identity \in Identities, meta \in Metas :
       Store(r, [identity |-> identity, meta |-> meta, state |-> "accepted",
                 execution_id |-> NoValue, terminal_code |-> NoValue])

Claim(r) ==
  /\ In(r, {"accepted"})
  /\ \E e \in Executions :
       Store(r, [records[r] EXCEPT !.state = "executing", !.execution_id = e])

Grant(r) ==
  /\ In(r, {"executing"})
  /\ grants[r] = << >>
  /\ grants' = [grants EXCEPT ![r] = <<records[r].execution_id>>]
  /\ UNCHANGED records

LoseTrack(r) ==
  /\ In(r, {"executing"})
  /\ Store(r, [records[r] EXCEPT !.state = "ambiguous"])

(* An executing record is completed by its owner, an ambiguous one by       *)
(* reconciliation; a terminal record never changes again.                   *)
Settle(r) ==
  /\ In(r, {"executing", "ambiguous"})
  /\ \E state \in {"succeeded", "rejected"}, code \in Codes :
       Store(r, [records[r] EXCEPT !.state = state, !.terminal_code = code])

Next ==
  \E r \in Requests :
    Accept(r) \/ Claim(r) \/ Grant(r) \/ LoseTrack(r) \/ Settle(r)

Spec == Init /\ [][Next]_vars
=============================================================================
