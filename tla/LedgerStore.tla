----------------------------- MODULE LedgerStore -----------------------------
(***************************************************************************)
(* src/src/ledger/store.rs: the SQLite outbox of the webhook service.      *)
(*                                                                         *)
(* Every operation is one BEGIN IMMEDIATE transaction, so it is one atomic *)
(* step.  The canonical request, its identity and its request id are       *)
(* functions of the request digest (a SHA-256 of the canonical request,    *)
(* which contains the id): a digest stands for all of them.                *)
(***************************************************************************)
EXTENDS Integers

CONSTANTS
  Digests,           \* canonical requests
  Requests,          \* request ids
  RequestOf,         \* the request id inside each canonical request
  Issues, Deliveries,
  Instances,         \* instance identities of service processes
  ExecutionLease,    \* EXECUTION_LEASE_SECONDS
  PublicationLease,  \* PUBLICATION_LEASE_SECONDS
  MaxTime,           \* the last value of the clock, where times saturate
  NoValue            \* NULL, and the absent row

ASSUME StoreAssumption ==
  /\ RequestOf \in [Digests -> Requests]
  /\ ExecutionLease \in Nat /\ PublicationLease \in Nat /\ MaxTime \in Nat
  /\ NoValue \notin Digests \cup Instances

Time == 0..MaxTime

(* A webhook that passed the signature and envelope checks.                 *)
Event == [delivery: Deliveries, digest: Digests, issue: Issues]

Verdicts == {"succeeded", "rejected"}
Receipts == Verdicts \cup {"request-time-invalid", "ambiguous-recovery"}

ASSUME NoReceiptAssumption == NoValue \notin Receipts

(* A row of transactions.  comment_id is a position in the sequence of all  *)
(* comments the service has asked GitHub for, or 0.                         *)
Row ==
  [digest: Digests, issue: Issues,
   state: {"executing", "recovering", "terminal"},
   owner: Instances, lease_until: Time,
   receipt: Receipts \cup {NoValue},
   publication_state: {"pending", "sending", "sent"},
   publication_owner: Instances \cup {NoValue}, publication_lease_until: Time,
   comment_id: Nat]

ASSUME NoRowAssumption ==
  /\ NoValue \notin Row
  /\ NoValue \notin [digest: Digests, issue: Issues]

VARIABLES
  transactions,  \* transactions[r]: the row of a request
  bindings,      \* bindings[i]: the digest an Issue is frozen to
  deliveries     \* deliveries[d]: what a delivery id was first seen with

storeVars == <<transactions, bindings, deliveries>>

StoreTypeOK ==
  /\ transactions \in [Requests -> Row \cup {NoValue}]
  /\ bindings \in [Issues -> Digests \cup {NoValue}]
  /\ deliveries \in
       [Deliveries -> [digest: Digests, issue: Issues] \cup {NoValue}]

StoreInit ==
  /\ transactions = [r \in Requests |-> NoValue]
  /\ bindings = [i \in Issues |-> NoValue]
  /\ deliveries = [d \in Deliveries |-> NoValue]

RowOf(e) == transactions[RequestOf[e.digest]]

\* Mutant: the sum is not saturated.
LeaseUntilUnsaturated(now, seconds) == now + seconds

(* saturating_add, with MaxTime for the largest i64.                        *)
LeaseUntil(now, seconds) ==
  IF now + seconds > MaxTime THEN MaxTime ELSE now + seconds

-----------------------------------------------------------------------------
(* claim                                                                    *)

DeliveryConflict(e) ==
  deliveries[e.delivery] \notin {NoValue, [digest |-> e.digest, issue |-> e.issue]}

IssueFrozen(e) == bindings[e.issue] \notin {NoValue, e.digest}

RequestConflict(e) ==
  RowOf(e) # NoValue /\ (RowOf(e).digest # e.digest \/ RowOf(e).issue # e.issue)

(* A transaction without its Issue binding, or the reverse, is an error.    *)
Torn(e) == (RowOf(e) = NoValue) # (bindings[e.issue] = NoValue)

\* Mutant: an expired lease lets the executor start again.
ClaimOutcomeRestarting(e, now) ==
  IF DeliveryConflict(e) \/ IssueFrozen(e) \/ RequestConflict(e) \/ Torn(e)
    THEN "refused"
  ELSE IF RowOf(e) = NoValue THEN "execute"
  ELSE IF RowOf(e).state = "terminal" THEN "replay"
  ELSE IF RowOf(e).lease_until > now THEN "in_flight"
  ELSE "execute"

\* Mutant: the lease is not consulted.
ClaimOutcomeImpatient(e, now) ==
  IF DeliveryConflict(e) \/ IssueFrozen(e) \/ RequestConflict(e) \/ Torn(e)
    THEN "refused"
  ELSE IF RowOf(e) = NoValue THEN "execute"
  ELSE IF RowOf(e).state = "terminal" THEN "replay"
  ELSE "recover"

\* Mutant: a request under recovery is never recovered again.
ClaimOutcomeOneRecovery(e, now) ==
  IF DeliveryConflict(e) \/ IssueFrozen(e) \/ RequestConflict(e) \/ Torn(e)
    THEN "refused"
  ELSE IF RowOf(e) = NoValue THEN "execute"
  ELSE IF RowOf(e).state = "terminal" THEN "replay"
  ELSE IF RowOf(e).lease_until > now \/ RowOf(e).state = "recovering"
    THEN "in_flight"
  ELSE "recover"

ClaimOutcome(e, now) ==
  IF DeliveryConflict(e) \/ IssueFrozen(e) \/ RequestConflict(e) \/ Torn(e)
    THEN "refused"
  ELSE IF RowOf(e) = NoValue THEN "execute"
  ELSE IF RowOf(e).state = "terminal" THEN "replay"
  ELSE IF RowOf(e).lease_until > now THEN "in_flight"
  ELSE "recover"

EnsureDelivery(e) ==
  deliveries' = [deliveries EXCEPT ![e.delivery] =
                   [digest |-> e.digest, issue |-> e.issue]]

Store(e, row) ==
  transactions' = [transactions EXCEPT ![RequestOf[e.digest]] = row]

\* Mutant: the Issue is not bound.
InsertUnbound(e, instance, now) ==
  /\ UNCHANGED bindings
  /\ Store(e, [digest |-> e.digest, issue |-> e.issue, state |-> "executing",
               owner |-> instance, lease_until |-> LeaseUntil(now, ExecutionLease),
               receipt |-> NoValue, publication_state |-> "pending",
               publication_owner |-> NoValue, publication_lease_until |-> 0,
               comment_id |-> 0])
  /\ EnsureDelivery(e)

InsertTransaction(e, instance, now) ==
  /\ bindings' = [bindings EXCEPT ![e.issue] = e.digest]
  /\ Store(e, [digest |-> e.digest, issue |-> e.issue, state |-> "executing",
               owner |-> instance, lease_until |-> LeaseUntil(now, ExecutionLease),
               receipt |-> NoValue, publication_state |-> "pending",
               publication_owner |-> NoValue, publication_lease_until |-> 0,
               comment_id |-> 0])
  /\ EnsureDelivery(e)

RecoverTransaction(e, instance, now) ==
  /\ Store(e, [RowOf(e) EXCEPT
                 !.state = "recovering", !.owner = instance,
                 !.lease_until = LeaseUntil(now, ExecutionLease)])
  /\ EnsureDelivery(e)
  /\ UNCHANGED bindings

-----------------------------------------------------------------------------
(* complete                                                                 *)

\* Mutant: whoever finishes writes, terminal or not, owner or not.
CanCompleteAnyone(e, instance) == RowOf(e) # NoValue /\ RowOf(e).digest = e.digest

CanComplete(e, instance) ==
  /\ RowOf(e) # NoValue
  /\ RowOf(e).digest = e.digest
  /\ RowOf(e).owner = instance
  /\ RowOf(e).state \in {"executing", "recovering"}

CompleteTransaction(e, receipt) ==
  /\ Store(e, [RowOf(e) EXCEPT
                 !.state = "terminal", !.lease_until = 0, !.receipt = receipt,
                 !.publication_state = "pending", !.publication_owner = NoValue,
                 !.publication_lease_until = 0, !.comment_id = 0])
  /\ UNCHANGED <<bindings, deliveries>>

-----------------------------------------------------------------------------
(* The publication outbox.                                                  *)

Publishable(e) ==
  /\ RowOf(e) # NoValue
  /\ RowOf(e).digest = e.digest
  /\ RowOf(e).state = "terminal"

\* Mutant: an expired publication lease permits another POST.
PublicationOutcomeRetrying(e, now) ==
  IF RowOf(e).publication_state = "sent" THEN "sent"
  ELSE IF RowOf(e).publication_state = "pending" THEN "publish"
  ELSE IF RowOf(e).publication_lease_until > now THEN "in_flight"
  ELSE "publish"

\* Mutant: a publication once started is in flight for ever.
PublicationOutcomeStuck(e, now) ==
  IF RowOf(e).publication_state = "sent" THEN "sent"
  ELSE IF RowOf(e).publication_state = "pending" THEN "publish"
  ELSE "in_flight"

PublicationOutcome(e, now) ==
  IF RowOf(e).publication_state = "sent" THEN "sent"
  ELSE IF RowOf(e).publication_state = "pending" THEN "publish"
  ELSE IF RowOf(e).publication_lease_until > now THEN "in_flight"
  ELSE "reconcile"

ClaimPublication(e, instance, now) ==
  /\ Store(e, [RowOf(e) EXCEPT
                 !.publication_state = "sending", !.publication_owner = instance,
                 !.publication_lease_until = LeaseUntil(now, PublicationLease)])
  /\ UNCHANGED <<bindings, deliveries>>

(* mark_reconciled; mark_published also wants the instance that claimed.    *)
CanMark(e, instance, via) ==
  /\ Publishable(e)
  /\ RowOf(e).publication_state = "sending"
  /\ via = "publish" => RowOf(e).publication_owner = instance

AlreadyMarked(e, comment) ==
  /\ RowOf(e) # NoValue
  /\ RowOf(e).publication_state = "sent"
  /\ RowOf(e).comment_id = comment

Mark(e, comment) ==
  /\ Store(e, [RowOf(e) EXCEPT
                 !.publication_state = "sent", !.comment_id = comment,
                 !.publication_owner = NoValue, !.publication_lease_until = 0])
  /\ UNCHANGED <<bindings, deliveries>>
=============================================================================
