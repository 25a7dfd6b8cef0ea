---------------------------- MODULE WebhookProofs ----------------------------
(***************************************************************************)
(* Proofs about the webhook service, for any number of threads, processes, *)
(* requests, Issues and deliveries, and any leases.                        *)
(***************************************************************************)
EXTENDS WebhookLedger, TLAPS

-----------------------------------------------------------------------------
(* Types of what a step reads.                                              *)

(* A thread past its receipt holds a typed event.                           *)
LEMMA JobFacts ==
  ASSUME TypeOK, ThreadsHold, NEW t \in Threads, pc[t] # "idle"
  PROVE  /\ job[t] \in Job
         /\ Ev(t) \in Event
         /\ Ev(t).digest \in Digests /\ Ev(t).issue \in Issues
         /\ Ev(t).delivery \in Deliveries
         /\ Req(t) \in Requests
         /\ Owner(t) \in Instances
         /\ job[t].now \in Time
         /\ job[t].receipt \in Receipts \cup {NoValue}
         /\ job[t].comment \in Nat
<1>1. job[t] \in Job
  BY DEF ThreadsHold, ThreadHolds
<1>2. Ev(t) \in Event
  BY <1>1 DEF Job, Ev
<1>3. Ev(t).digest \in Digests /\ Ev(t).issue \in Issues /\ Ev(t).delivery \in Deliveries
  BY <1>2 DEF Event
<1>4. Req(t) \in Requests /\ Owner(t) \in Instances
  BY <1>3, StoreAssumption, ServiceAssumption DEF Req, Owner
<1> QED BY <1>1, <1>2, <1>3, <1>4 DEF Job

(* A stored row has typed fields.                                           *)
LEMMA RowFacts ==
  ASSUME StoreTypeOK, NEW r \in Requests, transactions[r] # NoValue
  PROVE  /\ transactions[r] \in Row
         /\ transactions[r].digest \in Digests
         /\ transactions[r].issue \in Issues
         /\ transactions[r].comment_id \in Nat
         /\ transactions[r].receipt \in Receipts \cup {NoValue}
         /\ transactions[r].lease_until \in Time
BY DEF StoreTypeOK, Row

(* A lease of a time ends at a time, and not before it.                     *)
LEMMA LeaseFacts ==
  ASSUME NEW now \in Time, NEW seconds \in Nat
  PROVE  LeaseUntil(now, seconds) \in Time /\ now <= LeaseUntil(now, seconds)
BY StoreAssumption DEF Time, LeaseUntil

(* What handle's jump to a label changes.                                   *)
LEMMA GotoFacts ==
  ASSUME TypeOK, NEW t \in Threads, NEW label \in PCs, NEW local \in Job \cup {NoValue},
         Goto(t, label, local)
  PROVE  /\ pc' \in [Threads -> PCs] /\ job' \in [Threads -> Job \cup {NoValue}]
         /\ pc'[t] = label /\ job'[t] = local
         /\ \A u \in Threads \ {t} : pc'[u] = pc[u] /\ job'[u] = job[u]
BY DEF TypeOK, Goto

(* What writing a row changes.                                              *)
LEMMA StoreFacts ==
  ASSUME StoreTypeOK, NEW e, e.digest \in Digests, NEW row \in Row, Store(e, row)
  PROVE  /\ RequestOf[e.digest] \in Requests
         /\ transactions' \in [Requests -> Row \cup {NoValue}]
         /\ transactions'[RequestOf[e.digest]] = row
         /\ \A r \in Requests \ {RequestOf[e.digest]} :
              transactions'[r] = transactions[r]
<1>1. RequestOf[e.digest] \in Requests
  BY StoreAssumption
<1> QED BY <1>1 DEF StoreTypeOK, Store

(* What remembering a delivery changes.                                     *)
LEMMA DeliveryFacts ==
  ASSUME StoreTypeOK, NEW e \in Event, EnsureDelivery(e)
  PROVE  /\ deliveries' \in
              [Deliveries -> [digest: Digests, issue: Issues] \cup {NoValue}]
         /\ deliveries'[e.delivery].digest = e.digest
         /\ deliveries'[e.delivery].issue = e.issue
         /\ \A d \in Deliveries \ {e.delivery} : deliveries'[d] = deliveries[d]
BY DEF StoreTypeOK, EnsureDelivery, Event

-----------------------------------------------------------------------------
(* The operations of the store.                                             *)

(* An inserted row is new in every field.                                   *)
LEMMA InsertFacts ==
  ASSUME StoreTypeOK, NEW e \in Event, NEW instance \in Instances, NEW now \in Time,
         InsertTransaction(e, instance, now)
  PROVE  /\ StoreTypeOK'
         /\ transactions'[RequestOf[e.digest]] \in Row
         /\ transactions'[RequestOf[e.digest]] =
              [digest |-> e.digest, issue |-> e.issue, state |-> "executing",
               owner |-> instance, lease_until |-> LeaseUntil(now, ExecutionLease),
               receipt |-> NoValue, publication_state |-> "pending",
               publication_owner |-> NoValue, publication_lease_until |-> 0,
               comment_id |-> 0]
         /\ \A r \in Requests \ {RequestOf[e.digest]} :
              transactions'[r] = transactions[r]
         /\ bindings'[e.issue] = e.digest
         /\ \A i \in Issues \ {e.issue} : bindings'[i] = bindings[i]
<1> DEFINE row == [digest |-> e.digest, issue |-> e.issue, state |-> "executing",
               owner |-> instance, lease_until |-> LeaseUntil(now, ExecutionLease),
               receipt |-> NoValue, publication_state |-> "pending",
               publication_owner |-> NoValue, publication_lease_until |-> 0,
               comment_id |-> 0]
<1>1. LeaseUntil(now, ExecutionLease) \in Time /\ 0 \in Time
  <2>1. 0 \in Time
    BY StoreAssumption DEF Time
  <2> QED BY <2>1, LeaseFacts, StoreAssumption
<1>2. e.digest \in Digests /\ e.issue \in Issues
  BY DEF Event
<1>3. row \in Row
  BY <1>1, <1>2 DEF Row
<1>4. Store(e, row) /\ EnsureDelivery(e)
  BY DEF InsertTransaction
<1> HIDE DEF row
<1>5. /\ transactions' \in [Requests -> Row \cup {NoValue}]
      /\ transactions'[RequestOf[e.digest]] = row
      /\ \A r \in Requests \ {RequestOf[e.digest]} : transactions'[r] = transactions[r]
  BY <1>2, <1>3, <1>4, StoreFacts
<1>6. deliveries' \in [Deliveries -> [digest: Digests, issue: Issues] \cup {NoValue}]
  BY <1>4, DeliveryFacts
<1>7. /\ bindings' \in [Issues -> Digests \cup {NoValue}]
      /\ bindings'[e.issue] = e.digest
      /\ \A i \in Issues \ {e.issue} : bindings'[i] = bindings[i]
  BY <1>2 DEF InsertTransaction, StoreTypeOK
<1> QED BY <1>3, <1>5, <1>6, <1>7 DEF StoreTypeOK, row

-----------------------------------------------------------------------------
(* What a step of each kind changes, in the terms of the invariants.        *)

OthersKept(t) == \A u \in Threads \ {t} : pc'[u] = pc[u] /\ job'[u] = job[u]

RowsKept(r) == \A q \in Requests \ {r} : transactions'[q] = transactions[q]

(* A claim that inserts finds no row and no binding.                        *)
LEMMA ExecuteClaimFacts ==
  ASSUME NEW t \in Threads, TypeOK, ThreadsHold, Claims(t, "execute")
  PROVE  /\ transactions[Req(t)] = NoValue
         /\ bindings[Ev(t).issue] = NoValue
         /\ pc[t] = "claiming"
BY DEF Claims, ClaimOutcome, Torn, RowOf, Req

(* Any other claim that is not refused finds the row of its own event.      *)
LEMMA OtherClaimFacts ==
  ASSUME NEW t \in Threads, TypeOK, ThreadsHold, NEW outcome \in {"replay", "in_flight", "recover"},
         Claims(t, outcome)
  PROVE  /\ pc[t] = "claiming"
         /\ RowOf(Ev(t)) # NoValue
         /\ RowOf(Ev(t)).digest = Ev(t).digest
         /\ RowOf(Ev(t)).issue = Ev(t).issue
         /\ bindings[Ev(t).issue] = Ev(t).digest
         /\ outcome = "replay" => RowOf(Ev(t)).state = "terminal"
         /\ outcome # "replay" => RowOf(Ev(t)).state # "terminal"
         /\ outcome = "recover" => RowOf(Ev(t)).lease_until <= job[t].now
<1>1. pc[t] = "claiming" /\ ClaimOutcome(Ev(t), job[t].now) = outcome
  BY DEF Claims
<1>2. /\ ~IssueFrozen(Ev(t)) /\ ~RequestConflict(Ev(t)) /\ ~Torn(Ev(t))
      /\ RowOf(Ev(t)) # NoValue
      /\ outcome = "replay" => RowOf(Ev(t)).state = "terminal"
      /\ outcome # "replay" => RowOf(Ev(t)).state # "terminal"
      /\ outcome = "recover" => ~(RowOf(Ev(t)).lease_until > job[t].now)
  BY <1>1 DEF ClaimOutcome
<1>3. RowOf(Ev(t)).lease_until \in Time /\ job[t].now \in Time
  BY <1>1, <1>2, JobFacts, RowFacts DEF RowOf, Req, TypeOK
<1>4. ~(RowOf(Ev(t)).lease_until > job[t].now) => RowOf(Ev(t)).lease_until <= job[t].now
  BY <1>3, StoreAssumption DEF Time
<1> QED BY <1>1, <1>2, <1>4 DEF IssueFrozen, RequestConflict, Torn

(* The typed effect of a thread's move to a label.                          *)
Moved(t, label) ==
  /\ pc' \in [Threads -> PCs] /\ job' \in [Threads -> Job \cup {NoValue}]
  /\ pc'[t] = label
  /\ OthersKept(t)

(* Moved, from a jump to a label with well-typed local variables.           *)
LEMMA GotoMoves ==
  ASSUME TypeOK, NEW t \in Threads, NEW label \in PCs, NEW local \in Job \cup {NoValue},
         Goto(t, label, local)
  PROVE  Moved(t, label) /\ job'[t] = local
BY GotoFacts DEF Moved, OthersKept

(* Finishing forgets the local variables.                                   *)
LEMMA FinishMoves ==
  ASSUME TypeOK, NEW t \in Threads, Finish(t)
  PROVE  Moved(t, "idle")
BY GotoMoves DEF Finish, PCs

(* A new connection.                                                        *)
LEMMA ReceiveStep ==
  ASSUME TypeOK, NEW t \in Threads, NEW e \in Event, Receive(t, e)
  PROVE  /\ Moved(t, "claiming") /\ job'[t] \in Job
         /\ job'[t].event = e /\ job'[t].now = clock
<1> DEFINE local == [event |-> e, now |-> clock, receipt |-> NoValue, comment |-> 0,
                     via |-> "publish"]
<1>1. local \in Job
  BY DEF TypeOK, Job
<1>2. Goto(t, "claiming", local)
  BY DEF Receive
<1>3. local.event = e /\ local.now = clock
  OBVIOUS
<1> HIDE DEF local
<1>4. "claiming" \in PCs
  BY DEF PCs
<1>5. Moved(t, "claiming") /\ job'[t] = local
  BY <1>1, <1>2, <1>4, GotoMoves
<1> QED BY <1>1, <1>3, <1>5

(* The two steps that insert.                                               *)
LEMMA InsertStep ==
  ASSUME TypeOK, ThreadsHold, NEW t \in Threads, Execute(t) \/ RejectLate(t)
  PROVE  /\ pc[t] = "claiming" /\ job'[t] \in Job
         /\ transactions[Req(t)] = NoValue /\ bindings[Ev(t).issue] = NoValue
         /\ job'[t].event = job[t].event /\ job'[t].now = job[t].now
         /\ Execute(t) => Moved(t, "validating")
         /\ RejectLate(t) =>
              Moved(t, "completing") /\ job'[t].receipt = "request-time-invalid"
         /\ InsertTransaction(Ev(t), Owner(t), job[t].now)
<1>1. Claims(t, "execute") /\ InsertTransaction(Ev(t), Owner(t), job[t].now)
  BY DEF Execute, RejectLate
<1>2. /\ transactions[Req(t)] = NoValue /\ bindings[Ev(t).issue] = NoValue
      /\ pc[t] = "claiming" /\ job[t] \in Job
  BY <1>1, ExecuteClaimFacts, JobFacts
<1> DEFINE local == [job[t] EXCEPT !.receipt = "request-time-invalid"]
<1>3. /\ local \in Job /\ local.event = job[t].event /\ local.now = job[t].now
      /\ local.receipt = "request-time-invalid"
  BY <1>2 DEF Job, Receipts
<1>4. Execute(t) => Moved(t, "validating") /\ job'[t] = job[t]
  BY <1>2, GotoMoves DEF Execute, PCs
<1>5. RejectLate(t) => Goto(t, "completing", local)
  BY DEF RejectLate
<1> HIDE DEF local
<1>6. RejectLate(t) => Moved(t, "completing") /\ job'[t] = local
  BY <1>3, <1>5, GotoMoves DEF PCs
<1> QED BY <1>1, <1>2, <1>3, <1>4, <1>6

(* Recovery.                                                                *)
LEMMA TakeOverStep ==
  ASSUME TypeOK, ThreadsHold, NEW t \in Threads, TakeOver(t)
  PROVE  /\ pc[t] = "claiming" /\ Moved(t, "completing") /\ job'[t] \in Job
         /\ job'[t].event = job[t].event /\ job'[t].now = job[t].now
         /\ job'[t].receipt = "ambiguous-recovery"
         /\ RecoverTransaction(Ev(t), Owner(t), job[t].now)
         /\ RowOf(Ev(t)) # NoValue
         /\ RowOf(Ev(t)).digest = Ev(t).digest /\ RowOf(Ev(t)).issue = Ev(t).issue
         /\ bindings[Ev(t).issue] = Ev(t).digest
         /\ RowOf(Ev(t)).state # "terminal"
         /\ RowOf(Ev(t)).lease_until <= job[t].now
<1>1. Claims(t, "recover")
  BY DEF TakeOver
<1>2. pc[t] = "claiming" /\ job[t] \in Job
  BY <1>1, OtherClaimFacts, JobFacts
<1> DEFINE local == [job[t] EXCEPT !.receipt = "ambiguous-recovery"]
<1>3. /\ local \in Job /\ local.event = job[t].event /\ local.now = job[t].now
      /\ local.receipt = "ambiguous-recovery"
  BY <1>2 DEF Job, Receipts
<1>4. Goto(t, "completing", local)
  BY DEF TakeOver
<1> HIDE DEF local
<1>5. Moved(t, "completing") /\ job'[t] = local
  BY <1>3, <1>4, GotoMoves DEF PCs
<1>6. RecoverTransaction(Ev(t), Owner(t), job[t].now)
  BY DEF TakeOver
<1> QED BY <1>1, <1>2, <1>3, <1>5, <1>6, OtherClaimFacts

(* Replay of a stored receipt.                                              *)
LEMMA ReplayStep ==
  ASSUME TypeOK, ThreadsHold, NEW t \in Threads, ReplayTerminal(t)
  PROVE  /\ pc[t] = "claiming" /\ Moved(t, "publishing") /\ job'[t] \in Job
         /\ job'[t].event = job[t].event /\ job'[t].now = clock
         /\ job'[t].receipt = RowOf(Ev(t)).receipt
         /\ RowOf(Ev(t)) # NoValue
         /\ RowOf(Ev(t)).digest = Ev(t).digest /\ RowOf(Ev(t)).issue = Ev(t).issue
         /\ bindings[Ev(t).issue] = Ev(t).digest
         /\ RowOf(Ev(t)).state = "terminal"
         /\ EnsureDelivery(Ev(t))
<1>1. Claims(t, "replay") /\ EnsureDelivery(Ev(t))
  BY DEF ReplayTerminal
<1>2. pc[t] = "claiming" /\ job[t] \in Job /\ Req(t) \in Requests
  BY <1>1, OtherClaimFacts, JobFacts
<1>3. RowOf(Ev(t)).receipt \in Receipts \cup {NoValue}
  BY <1>1, <1>2, OtherClaimFacts, RowFacts DEF TypeOK, RowOf, Req
<1> DEFINE local == [job[t] EXCEPT !.receipt = RowOf(Ev(t)).receipt, !.now = clock]
<1>4. /\ local \in Job /\ local.event = job[t].event /\ local.now = clock
      /\ local.receipt = RowOf(Ev(t)).receipt
  BY <1>2, <1>3 DEF Job, TypeOK
<1>5. Goto(t, "publishing", local)
  BY DEF ReplayTerminal
<1> HIDE DEF local
<1>6. Moved(t, "publishing") /\ job'[t] = local
  BY <1>4, <1>5, GotoMoves DEF PCs
<1> QED BY <1>1, <1>2, <1>4, <1>6, OtherClaimFacts

(* The verdict.                                                             *)
LEMMA ValidateStep ==
  ASSUME TypeOK, ThreadsHold, NEW t \in Threads, Validate(t)
  PROVE  /\ pc[t] = "validating" /\ Moved(t, "completing") /\ job'[t] \in Job
         /\ job'[t].event = job[t].event /\ job'[t].now = job[t].now
         /\ job'[t].receipt \in Verdicts
<1>1. pc[t] = "validating" /\ job[t] \in Job
  BY JobFacts DEF Validate
<1>2. PICK verdict \in Verdicts :
        Goto(t, "completing", [job[t] EXCEPT !.receipt = verdict])
  BY DEF Validate
<1> DEFINE local == [job[t] EXCEPT !.receipt = verdict]
<1>3. /\ local \in Job /\ local.event = job[t].event /\ local.now = job[t].now
      /\ local.receipt = verdict
  BY <1>1 DEF Job, Receipts
<1> HIDE DEF local
<1>4. Moved(t, "completing") /\ job'[t] = local
  BY <1>2, <1>3, GotoMoves DEF PCs, local
<1> QED BY <1>1, <1>3, <1>4

(* The terminal receipt.                                                    *)
LEMMA CompleteStep ==
  ASSUME TypeOK, ThreadsHold, NEW t \in Threads, Complete(t)
  PROVE  /\ pc[t] = "completing" /\ Moved(t, "publishing") /\ job'[t] \in Job
         /\ job'[t].event = job[t].event /\ job'[t].now = clock
         /\ job'[t].receipt = job[t].receipt /\ job[t].receipt \in Receipts
         /\ RowOf(Ev(t)) # NoValue /\ RowOf(Ev(t)).owner = Owner(t)
         /\ RowOf(Ev(t)).state \in {"executing", "recovering"}
         /\ CompleteTransaction(Ev(t), job[t].receipt)
<1>1. /\ pc[t] = "completing" /\ job[t] \in Job /\ job[t].receipt # NoValue
      /\ job[t].receipt \in Receipts \cup {NoValue}
  BY JobFacts DEF Complete, ThreadsHold, ThreadHolds
<1> DEFINE local == [job[t] EXCEPT !.now = clock]
<1>2. /\ local \in Job /\ local.event = job[t].event /\ local.now = clock
      /\ local.receipt = job[t].receipt
  BY <1>1 DEF Job, TypeOK
<1>3. Goto(t, "publishing", local)
  BY DEF Complete
<1> HIDE DEF local
<1>4. Moved(t, "publishing") /\ job'[t] = local
  BY <1>2, <1>3, GotoMoves DEF PCs
<1> QED BY <1>1, <1>2, <1>4 DEF Complete, CanComplete

(* The permission to send.                                                  *)
LEMMA ClaimPostStep ==
  ASSUME TypeOK, ThreadsHold, NEW t \in Threads, ClaimPost(t)
  PROVE  /\ pc[t] = "publishing" /\ Moved(t, "posting")
         /\ job'[t] = job[t] /\ job[t] \in Job
         /\ RowOf(Ev(t)) # NoValue
         /\ RowOf(Ev(t)).publication_state = "pending"
         /\ ClaimPublication(Ev(t), Owner(t), job[t].now)
<1>1. /\ pc[t] = "publishing" /\ job[t] \in Job /\ RowOf(Ev(t)) # NoValue
      /\ PublicationOutcome(Ev(t), job[t].now) = "publish"
  BY JobFacts DEF ClaimPost, Publishes, Publishable
<1>2. RowOf(Ev(t)).publication_state = "pending"
  BY <1>1 DEF PublicationOutcome
<1>3. Goto(t, "posting", job[t]) /\ ClaimPublication(Ev(t), Owner(t), job[t].now)
  BY DEF ClaimPost
<1>4. Moved(t, "posting") /\ job'[t] = job[t]
  BY <1>1, <1>3, GotoMoves DEF PCs
<1> QED BY <1>1, <1>2, <1>3, <1>4

(* The turn to reconciliation.                                              *)
LEMMA ClaimReconcileStep ==
  ASSUME TypeOK, ThreadsHold, NEW t \in Threads, ClaimReconcile(t)
  PROVE  /\ pc[t] = "publishing" /\ Moved(t, "reconciling") /\ job'[t] \in Job
         /\ job'[t].event = job[t].event /\ job'[t].now = job[t].now
         /\ job'[t].receipt = job[t].receipt
<1>1. pc[t] = "publishing" /\ job[t] \in Job
  BY JobFacts DEF ClaimReconcile, Publishes
<1> DEFINE local == [job[t] EXCEPT !.via = "reconcile"]
<1>2. /\ local \in Job /\ local.event = job[t].event /\ local.now = job[t].now
      /\ local.receipt = job[t].receipt
  BY <1>1 DEF Job
<1>3. Goto(t, "reconciling", local)
  BY DEF ClaimReconcile
<1> HIDE DEF local
<1>4. Moved(t, "reconciling") /\ job'[t] = local
  BY <1>2, <1>3, GotoMoves DEF PCs
<1> QED BY <1>1, <1>2, <1>4

(* The comment leaves.                                                      *)
LEMMA PostStep ==
  ASSUME TypeOK, ThreadsHold, RowsWellFormed, NEW t \in Threads, Post(t)
  PROVE  /\ pc[t] = "posting" /\ Moved(t, "posted") /\ job'[t] \in Job
         /\ job'[t].event = job[t].event /\ job'[t].now = job[t].now
         /\ job'[t].receipt = job[t].receipt
         /\ job'[t].comment = Len(posts) + 1
         /\ Len(posts) \in Nat /\ Len(posts') = Len(posts) + 1
         /\ posts' \in Seq(Comment)
         /\ \A p \in 1..Len(posts) : posts'[p] = posts[p]
         /\ posts'[Len(posts) + 1].issue = Ev(t).issue
         /\ posts'[Len(posts) + 1].digest = Ev(t).digest
         /\ posts'[Len(posts) + 1].receipt = job[t].receipt
<1>1. /\ pc[t] = "posting" /\ job[t] \in Job
      /\ Ev(t).digest \in Digests /\ Ev(t).issue \in Issues /\ Req(t) \in Requests
      /\ job[t].receipt \in Receipts \cup {NoValue}
  BY JobFacts DEF Post
<1>2. RowOf(Ev(t)) # NoValue /\ RowOf(Ev(t)).state = "terminal"
      /\ RowOf(Ev(t)).receipt = job[t].receipt
  BY <1>1 DEF ThreadsHold, ThreadHolds, Held, Publishing, PCs
<1>3. job[t].receipt \in Receipts
  BY <1>1, <1>2 DEF RowsWellFormed, RowOf, Req
<1> DEFINE sent == [issue |-> Ev(t).issue, digest |-> Ev(t).digest,
                       receipt |-> job[t].receipt]
           local == [job[t] EXCEPT !.comment = Len(posts) + 1]
<1>4. sent \in Comment
  BY <1>1, <1>3 DEF Comment
<1>5. posts' = Append(posts, sent) /\ posts \in Seq(Comment)
  BY DEF Post, TypeOK
<1>6. /\ local \in Job /\ local.event = job[t].event /\ local.now = job[t].now
      /\ local.receipt = job[t].receipt /\ local.comment = Len(posts) + 1
  BY <1>1, <1>5 DEF Job
<1>7. Goto(t, "posted", local)
  BY DEF Post
<1> HIDE DEF local, sent
<1>8. Moved(t, "posted") /\ job'[t] = local
  BY <1>6, <1>7, GotoMoves DEF PCs
<1>9. /\ Len(posts) \in Nat /\ Len(posts') = Len(posts) + 1 /\ posts' \in Seq(Comment)
      /\ \A p \in 1..Len(posts) : posts'[p] = posts[p]
      /\ posts'[Len(posts) + 1] = sent
  BY <1>4, <1>5
<1>10. /\ posts'[Len(posts) + 1].issue = Ev(t).issue
       /\ posts'[Len(posts) + 1].digest = Ev(t).digest
       /\ posts'[Len(posts) + 1].receipt = job[t].receipt
  BY <1>9 DEF sent
<1> QED BY <1>1, <1>6, <1>8, <1>9, <1>10

(* The answer with the comment's id.                                        *)
LEMMA AnswerStep ==
  ASSUME TypeOK, ThreadsHold, NEW t \in Threads, Answer(t)
  PROVE  /\ pc[t] = "posted" /\ Moved(t, "closing")
         /\ job'[t] = job[t] /\ job[t] \in Job /\ job[t].comment \in landed
<1>1. pc[t] = "posted" /\ job[t] \in Job /\ job[t].comment \in landed
  BY JobFacts DEF Answer
<1> QED BY <1>1, GotoMoves DEF Answer, PCs

(* A reconciled comment is the one comment that says what is stored.        *)
LEMMA ReconcileStep ==
  ASSUME TypeOK, ThreadsHold, NEW t \in Threads, Reconcile(t)
  PROVE  /\ pc[t] = "reconciling" /\ Moved(t, "closing") /\ job'[t] \in Job
         /\ job'[t].event = job[t].event /\ job'[t].now = job[t].now
         /\ job'[t].receipt = job[t].receipt
         /\ job'[t].comment \in landed /\ job'[t].comment \in 1..Len(posts)
         /\ posts[job'[t].comment].digest = Ev(t).digest
<1>1. pc[t] = "reconciling" /\ job[t] \in Job
  BY JobFacts DEF Reconcile
<1>2. PICK p \in Matching(t) : Goto(t, "closing", [job[t] EXCEPT !.comment = p])
  BY DEF Reconcile
<1>3. /\ p \in landed /\ p \in 1..Len(posts) /\ p \in Nat
      /\ posts[p].digest = Ev(t).digest
  BY DEF Matching, TypeOK
<1> DEFINE local == [job[t] EXCEPT !.comment = p]
<1>4. /\ local \in Job /\ local.event = job[t].event /\ local.now = job[t].now
      /\ local.receipt = job[t].receipt /\ local.comment = p
  BY <1>1, <1>3 DEF Job
<1> HIDE DEF local
<1>5. Moved(t, "closing") /\ job'[t] = local
  BY <1>2, <1>4, GotoMoves DEF PCs, local
<1> QED BY <1>1, <1>3, <1>4, <1>5

(* The Issue is closed.                                                     *)
LEMMA CloseStep ==
  ASSUME TypeOK, ThreadsHold, NEW t \in Threads, Close(t)
  PROVE  /\ pc[t] = "closing" /\ Moved(t, "recording")
         /\ job'[t] = job[t] /\ job[t] \in Job
         /\ closed' = closed \cup {Ev(t).issue} /\ Ev(t).issue \in Issues
<1>1. pc[t] = "closing" /\ job[t] \in Job /\ Ev(t).issue \in Issues
  BY JobFacts DEF Close
<1> QED BY <1>1, GotoMoves DEF Close, PCs

(* The comment id is bound to the row, or was already.                      *)
LEMMA RecordStep ==
  ASSUME TypeOK, ThreadsHold, NEW t \in Threads, Record(t)
  PROVE  /\ pc[t] = "recording" /\ Moved(t, "idle")
         /\ RowOf(Ev(t)) # NoValue
         /\ answered' = answered \cup {Req(t)}
         /\ \/ /\ Mark(Ev(t), job[t].comment)
               /\ RowOf(Ev(t)).publication_state = "sending"
            \/ /\ RowOf(Ev(t)).publication_state = "sent"
               /\ UNCHANGED storeVars
<1>1. Moved(t, "idle")
  BY FinishMoves DEF Record
<1> QED BY <1>1 DEF Record, CanMark, AlreadyMarked, Publishable, Answer200

-----------------------------------------------------------------------------
(* The row each storing step leaves.                                        *)

(* An inserted row.                                                         *)
LEMMA InsertRow ==
  ASSUME TypeOK, ThreadsHold, NEW t \in Threads, Execute(t) \/ RejectLate(t)
  PROVE  /\ Req(t) \in Requests /\ transactions[Req(t)] = NoValue
         /\ transactions'[Req(t)] \in Row
         /\ transactions'[Req(t)].digest = Ev(t).digest
         /\ transactions'[Req(t)].issue = Ev(t).issue
         /\ transactions'[Req(t)].state = "executing"
         /\ transactions'[Req(t)].owner = Owner(t)
         /\ transactions'[Req(t)].lease_until = LeaseUntil(job[t].now, ExecutionLease)
         /\ transactions'[Req(t)].receipt = NoValue
         /\ transactions'[Req(t)].publication_state = "pending"
         /\ transactions'[Req(t)].comment_id = 0
         /\ RowsKept(Req(t))
         /\ bindings'[Ev(t).issue] = Ev(t).digest
         /\ \A i \in Issues \ {Ev(t).issue} : bindings'[i] = bindings[i]
<1>1. /\ transactions[Req(t)] = NoValue
      /\ InsertTransaction(Ev(t), Owner(t), job[t].now)
      /\ pc[t] # "idle"
  BY InsertStep
<1>2. /\ Ev(t) \in Event /\ Owner(t) \in Instances /\ job[t].now \in Time
      /\ Req(t) \in Requests /\ Req(t) = RequestOf[Ev(t).digest]
  BY <1>1, JobFacts DEF Req
<1>3. /\ transactions'[Req(t)] \in Row
      /\ transactions'[Req(t)] =
              [digest |-> Ev(t).digest, issue |-> Ev(t).issue, state |-> "executing",
               owner |-> Owner(t),
               lease_until |-> LeaseUntil(job[t].now, ExecutionLease),
               receipt |-> NoValue, publication_state |-> "pending",
               publication_owner |-> NoValue, publication_lease_until |-> 0,
               comment_id |-> 0]
      /\ RowsKept(Req(t))
      /\ bindings'[Ev(t).issue] = Ev(t).digest
      /\ \A i \in Issues \ {Ev(t).issue} : bindings'[i] = bindings[i]
  BY <1>1, <1>2, InsertFacts DEF TypeOK, RowsKept
<1> QED BY <1>1, <1>2, <1>3

(* A recovered row.                                                         *)
LEMMA TakeOverRow ==
  ASSUME TypeOK, ThreadsHold, NEW t \in Threads, TakeOver(t)
  PROVE  /\ StoreTypeOK'
         /\ Req(t) \in Requests /\ RowOf(Ev(t)) = transactions[Req(t)]
         /\ transactions[Req(t)] \in Row /\ transactions'[Req(t)] \in Row
         /\ transactions'[Req(t)] =
              [transactions[Req(t)] EXCEPT
                 !.state = "recovering", !.owner = Owner(t),
                 !.lease_until = LeaseUntil(job[t].now, ExecutionLease)]
         /\ RowsKept(Req(t))
<1>1. /\ StoreTypeOK /\ 0 \in Time
      /\ Ev(t) \in Event /\ Ev(t).digest \in Digests
      /\ Owner(t) \in Instances /\ job[t].now \in Time
      /\ job[t].comment \in Nat /\ Req(t) \in Requests
      /\ RowOf(Ev(t)) = transactions[Req(t)]
  BY TakeOverStep, JobFacts, StoreAssumption DEF RowOf, Req, TypeOK, Time
<1>2. transactions[Req(t)] \in Row 
  BY <1>1, TakeOverStep DEF StoreTypeOK
<1> DEFINE row ==
              [transactions[Req(t)] EXCEPT
                 !.state = "recovering", !.owner = Owner(t),
                 !.lease_until = LeaseUntil(job[t].now, ExecutionLease)]
<1>3. Store(Ev(t), row) /\ EnsureDelivery(Ev(t)) /\ UNCHANGED bindings
  BY <1>1, TakeOverStep DEF RecoverTransaction
<1>4. row \in Row
  BY <1>1, <1>2, LeaseFacts, StoreAssumption DEF Row
<1> HIDE DEF row
<1>5. /\ transactions' \in [Requests -> Row \cup {NoValue}]
      /\ transactions'[Req(t)] = row
      /\ RowsKept(Req(t))
  BY <1>1, <1>3, <1>4, StoreFacts DEF Req, RowsKept
<1>6. StoreTypeOK'
  BY <1>1, <1>3, <1>5, DeliveryFacts DEF StoreTypeOK
<1> QED BY <1>1, <1>2, <1>4, <1>5, <1>6 DEF row

(* A completed row.                                                         *)
LEMMA CompleteRow ==
  ASSUME TypeOK, ThreadsHold, NEW t \in Threads, Complete(t)
  PROVE  /\ StoreTypeOK'
         /\ Req(t) \in Requests /\ RowOf(Ev(t)) = transactions[Req(t)]
         /\ transactions[Req(t)] \in Row /\ transactions'[Req(t)] \in Row
         /\ transactions'[Req(t)] =
              [transactions[Req(t)] EXCEPT
                 !.state = "terminal", !.lease_until = 0, !.receipt = job[t].receipt,
                 !.publication_state = "pending", !.publication_owner = NoValue,
                 !.publication_lease_until = 0, !.comment_id = 0]
         /\ RowsKept(Req(t))
<1>1. /\ StoreTypeOK /\ 0 \in Time
      /\ Ev(t) \in Event /\ Ev(t).digest \in Digests
      /\ Owner(t) \in Instances /\ job[t].now \in Time
      /\ job[t].comment \in Nat /\ Req(t) \in Requests
      /\ RowOf(Ev(t)) = transactions[Req(t)]
  BY CompleteStep, JobFacts, StoreAssumption DEF RowOf, Req, TypeOK, Time
<1>2. transactions[Req(t)] \in Row /\ job[t].receipt \in Receipts
  BY <1>1, CompleteStep DEF StoreTypeOK
<1> DEFINE row ==
              [transactions[Req(t)] EXCEPT
                 !.state = "terminal", !.lease_until = 0, !.receipt = job[t].receipt,
                 !.publication_state = "pending", !.publication_owner = NoValue,
                 !.publication_lease_until = 0, !.comment_id = 0]
<1>3. Store(Ev(t), row) /\ UNCHANGED <<bindings, deliveries>>
  BY <1>1, CompleteStep DEF CompleteTransaction
<1>4. row \in Row
  BY <1>1, <1>2, LeaseFacts, StoreAssumption DEF Row
<1> HIDE DEF row
<1>5. /\ transactions' \in [Requests -> Row \cup {NoValue}]
      /\ transactions'[Req(t)] = row
      /\ RowsKept(Req(t))
  BY <1>1, <1>3, <1>4, StoreFacts DEF Req, RowsKept
<1>6. StoreTypeOK'
  BY <1>1, <1>3, <1>5, DeliveryFacts DEF StoreTypeOK
<1> QED BY <1>1, <1>2, <1>4, <1>5, <1>6 DEF row

(* A row claimed for publication.                                           *)
LEMMA ClaimPostRow ==
  ASSUME TypeOK, ThreadsHold, NEW t \in Threads, ClaimPost(t)
  PROVE  /\ StoreTypeOK'
         /\ Req(t) \in Requests /\ RowOf(Ev(t)) = transactions[Req(t)]
         /\ transactions[Req(t)] \in Row /\ transactions'[Req(t)] \in Row
         /\ transactions'[Req(t)] =
              [transactions[Req(t)] EXCEPT
                 !.publication_state = "sending", !.publication_owner = Owner(t),
                 !.publication_lease_until = LeaseUntil(job[t].now, PublicationLease)]
         /\ RowsKept(Req(t))
<1>1. /\ StoreTypeOK /\ 0 \in Time
      /\ Ev(t) \in Event /\ Ev(t).digest \in Digests
      /\ Owner(t) \in Instances /\ job[t].now \in Time
      /\ job[t].comment \in Nat /\ Req(t) \in Requests
      /\ RowOf(Ev(t)) = transactions[Req(t)]
  BY ClaimPostStep, JobFacts, StoreAssumption DEF RowOf, Req, TypeOK, Time
<1>2. transactions[Req(t)] \in Row 
  BY <1>1, ClaimPostStep DEF StoreTypeOK
<1> DEFINE row ==
              [transactions[Req(t)] EXCEPT
                 !.publication_state = "sending", !.publication_owner = Owner(t),
                 !.publication_lease_until = LeaseUntil(job[t].now, PublicationLease)]
<1>3. Store(Ev(t), row) /\ UNCHANGED <<bindings, deliveries>>
  BY <1>1, ClaimPostStep DEF ClaimPublication
<1>4. row \in Row
  BY <1>1, <1>2, LeaseFacts, StoreAssumption DEF Row
<1> HIDE DEF row
<1>5. /\ transactions' \in [Requests -> Row \cup {NoValue}]
      /\ transactions'[Req(t)] = row
      /\ RowsKept(Req(t))
  BY <1>1, <1>3, <1>4, StoreFacts DEF Req, RowsKept
<1>6. StoreTypeOK'
  BY <1>1, <1>3, <1>5, DeliveryFacts DEF StoreTypeOK
<1> QED BY <1>1, <1>2, <1>4, <1>5, <1>6 DEF row

(* A row whose comment is recorded.                                         *)
LEMMA MarkRow ==
  ASSUME TypeOK, ThreadsHold, NEW t \in Threads, Record(t), Mark(Ev(t), job[t].comment)
  PROVE  /\ StoreTypeOK'
         /\ Req(t) \in Requests /\ RowOf(Ev(t)) = transactions[Req(t)]
         /\ transactions[Req(t)] \in Row /\ transactions'[Req(t)] \in Row
         /\ transactions'[Req(t)] =
              [transactions[Req(t)] EXCEPT
                 !.publication_state = "sent", !.comment_id = job[t].comment,
                 !.publication_owner = NoValue, !.publication_lease_until = 0]
         /\ RowsKept(Req(t))
<1>1. /\ StoreTypeOK /\ 0 \in Time
      /\ Ev(t) \in Event /\ Ev(t).digest \in Digests
      /\ Owner(t) \in Instances /\ job[t].now \in Time
      /\ job[t].comment \in Nat /\ Req(t) \in Requests
      /\ RowOf(Ev(t)) = transactions[Req(t)]
  BY RecordStep, JobFacts, StoreAssumption DEF RowOf, Req, TypeOK, Time
<1>2. transactions[Req(t)] \in Row 
  BY <1>1, RecordStep DEF StoreTypeOK
<1> DEFINE row ==
              [transactions[Req(t)] EXCEPT
                 !.publication_state = "sent", !.comment_id = job[t].comment,
                 !.publication_owner = NoValue, !.publication_lease_until = 0]
<1>3. Store(Ev(t), row) /\ UNCHANGED <<bindings, deliveries>>
  BY <1>1, RecordStep DEF Mark
<1>4. row \in Row
  BY <1>1, <1>2, LeaseFacts, StoreAssumption DEF Row
<1> HIDE DEF row
<1>5. /\ transactions' \in [Requests -> Row \cup {NoValue}]
      /\ transactions'[Req(t)] = row
      /\ RowsKept(Req(t))
  BY <1>1, <1>3, <1>4, StoreFacts DEF Req, RowsKept
<1>6. StoreTypeOK'
  BY <1>1, <1>3, <1>5, DeliveryFacts DEF StoreTypeOK
<1> QED BY <1>1, <1>2, <1>4, <1>5, <1>6 DEF row

-----------------------------------------------------------------------------
(* Type correctness.                                                        *)

(* The first state has the types.                                           *)
LEMMA TypeInit == Init => TypeOK
<1> SUFFICES ASSUME Init PROVE TypeOK
  OBVIOUS
<1>1. StoreTypeOK
  BY DEF Init, StoreInit, StoreTypeOK
<1>2. clock \in Time
  BY StoreAssumption DEF Init, Time
<1>3. posts \in Seq(Comment) /\ landed \subseteq 1..Len(posts)
  BY DEF Init
<1> QED BY <1>1, <1>2, <1>3 DEF Init, TypeOK, PCs

(* Every step keeps the types.                                              *)
LEMMA TypeStep ==
  ASSUME TypeOK, ThreadsHold, RowsWellFormed, [Next]_vars
  PROVE  TypeOK'
<1> USE DEF storeVars, threadVars, githubVars, historyVars
<1>1. CASE UNCHANGED vars
  BY <1>1 DEF vars, TypeOK, StoreTypeOK
<1>2. ASSUME NEW t \in Threads, NEW e \in Event, Receive(t, e)
      PROVE  TypeOK'
  BY <1>2, ReceiveStep DEF Receive, TypeOK, StoreTypeOK, Moved
<1>3. ASSUME NEW t \in Threads, Execute(t) \/ RejectLate(t)
      PROVE  TypeOK'
  <2>1. pc[t] = "claiming" /\ InsertTransaction(Ev(t), Owner(t), job[t].now)
    BY <1>3, InsertStep
  <2>2. StoreTypeOK'
    BY <2>1, JobFacts, InsertFacts DEF TypeOK
  <2>3. pc' \in [Threads -> PCs] /\ job' \in [Threads -> Job \cup {NoValue}]
    BY <1>3, InsertStep DEF Moved
  <2>4. validations' \in [Requests -> Nat]
    BY <1>3, <2>1, JobFacts DEF TypeOK, Execute, RejectLate
  <2> QED BY <1>3, <2>2, <2>3, <2>4 DEF Execute, RejectLate, TypeOK
<1>4. ASSUME NEW t \in Threads, TakeOver(t)
      PROVE  TypeOK'
  <2>1. StoreTypeOK'
    BY <1>4, TakeOverRow DEF TypeOK
  <2> QED BY <1>4, <2>1, TakeOverStep DEF TakeOver, TypeOK, Moved
<1>5. ASSUME NEW t \in Threads, ReplayTerminal(t)
      PROVE  TypeOK'
  <2>1. StoreTypeOK'
    BY <1>5, ReplayStep, JobFacts, DeliveryFacts DEF TypeOK, StoreTypeOK, ReplayTerminal
  <2> QED BY <1>5, <2>1, ReplayStep DEF ReplayTerminal, TypeOK, Moved
<1>6. ASSUME NEW t \in Threads, Decline(t)
      PROVE  TypeOK'
  <2>1. pc[t] = "claiming"
    BY <1>6 DEF Decline, Claims
  <2>2. StoreTypeOK'
    BY <1>6, <2>1, JobFacts, DeliveryFacts DEF Decline, TypeOK, StoreTypeOK
  <2> QED BY <1>6, <2>2, FinishMoves DEF Decline, TypeOK, Moved
<1>7. ASSUME NEW t \in Threads, Validate(t)
      PROVE  TypeOK'
  BY <1>7, ValidateStep DEF Validate, TypeOK, StoreTypeOK, Moved
<1>8. ASSUME NEW t \in Threads, Complete(t)
      PROVE  TypeOK'
  <2>1. StoreTypeOK'
    BY <1>8, CompleteRow DEF TypeOK
  <2> QED BY <1>8, <2>1, CompleteStep DEF Complete, TypeOK, Moved
<1>9. ASSUME NEW t \in Threads, ClaimPost(t)
      PROVE  TypeOK'
  <2>1. StoreTypeOK'
    BY <1>9, ClaimPostRow DEF TypeOK
  <2> QED BY <1>9, <2>1, ClaimPostStep DEF ClaimPost, TypeOK, Moved
<1>10. ASSUME NEW t \in Threads, ClaimReconcile(t)
       PROVE  TypeOK'
  BY <1>10, ClaimReconcileStep DEF ClaimReconcile, TypeOK, StoreTypeOK, Moved
<1>11. ASSUME NEW t \in Threads, Skip(t)
       PROVE  TypeOK'
  <2>1. pc[t] # "idle"
    BY <1>11 DEF Skip, Publishes
  <2>2. answered' \subseteq Requests
    BY <1>11, <2>1, JobFacts DEF Skip, Answer200, TypeOK
  <2> QED BY <1>11, <2>2, FinishMoves DEF Skip, TypeOK, StoreTypeOK, Moved
<1>12. ASSUME NEW t \in Threads, Post(t)
       PROVE  TypeOK'
  <2>1. landed' \subseteq 1..Len(posts')
    BY <1>12, PostStep DEF Post, TypeOK
  <2> QED BY <1>12, <2>1, PostStep DEF Post, TypeOK, StoreTypeOK, Moved
<1>13. ASSUME NEW t \in Threads, Answer(t)
       PROVE  TypeOK'
  BY <1>13, AnswerStep DEF Answer, TypeOK, StoreTypeOK, Moved
<1>14. ASSUME NEW t \in Threads, Reconcile(t)
       PROVE  TypeOK'
  BY <1>14, ReconcileStep DEF Reconcile, TypeOK, StoreTypeOK, Moved
<1>15. ASSUME NEW t \in Threads, Close(t)
       PROVE  TypeOK'
  BY <1>15, CloseStep DEF Close, TypeOK, StoreTypeOK, Moved
<1>16. ASSUME NEW t \in Threads, Record(t)
       PROVE  TypeOK'
  <2>1. pc[t] # "idle" /\ RowOf(Ev(t)) # NoValue
    BY <1>16, RecordStep
  <2>2. StoreTypeOK'
    <3>1. CASE Mark(Ev(t), job[t].comment)
      BY <1>16, <3>1, MarkRow
    <3>2. CASE UNCHANGED storeVars
      BY <3>2 DEF TypeOK, StoreTypeOK
    <3> QED BY <1>16, <3>1, <3>2, RecordStep
  <2>3. answered' \subseteq Requests
    BY <1>16, <2>1, RecordStep, JobFacts DEF TypeOK
  <2> QED BY <1>16, <2>2, <2>3, RecordStep DEF Record, TypeOK, Moved
<1>17. ASSUME NEW t \in Threads, Fail(t)
       PROVE  TypeOK'
  BY <1>17, FinishMoves DEF Fail, TypeOK, StoreTypeOK, Moved
<1>18. ASSUME NEW p \in 1..Len(posts), Land(p)
       PROVE  TypeOK'
  BY <1>18 DEF Land, TypeOK, StoreTypeOK
<1>19. CASE Tick
  <2>1. clock' \in Time
    BY <1>19, StoreAssumption DEF Tick, TypeOK, Time
  <2> QED BY <1>19, <2>1 DEF Tick, TypeOK, StoreTypeOK
<1> QED
  BY <1>1, <1>2, <1>3, <1>4, <1>5, <1>6, <1>7, <1>8, <1>9, <1>10, <1>11, <1>12,
     <1>13, <1>14, <1>15, <1>16, <1>17, <1>18, <1>19 DEF Next, Step

-----------------------------------------------------------------------------
(* How rows, comments and Issues move.                                      *)

(* A row stays, appears, or keeps its identity, its receipt once terminal,  *)
(* its place in the outbox, and everything once its comment is recorded.    *)
Evolves(old, new) ==
  \/ new = old
  \/ /\ new \in Row
     /\ old # NoValue =>
          /\ new.digest = old.digest /\ new.issue = old.issue
          /\ new.state # "executing"
          /\ old.state = "terminal" => new.state = "terminal" /\ new.receipt = old.receipt
          /\ old.publication_state # "pending" => new.publication_state # "pending"
          /\ old.publication_state = "sent" => new = old

(* The steps that write a row.                                              *)
Storing(t) ==
  \/ Execute(t) \/ RejectLate(t) \/ TakeOver(t) \/ Complete(t) \/ ClaimPost(t)
  \/ /\ Record(t)
     /\ Mark(Ev(t), job[t].comment)
     /\ RowOf(Ev(t)).publication_state = "sending"

(* No other step does.                                                      *)
LEMMA StoringSteps ==
  ASSUME TypeOK, ThreadsHold, [Next]_vars
  PROVE  UNCHANGED transactions \/ \E t \in Threads : Storing(t)
<1>1. ASSUME NEW t \in Threads, Record(t)
      PROVE  UNCHANGED transactions \/ Storing(t)
  BY <1>1, RecordStep DEF Storing, storeVars
<1>2. \/ UNCHANGED transactions
      \/ \E t \in Threads :
           \/ Execute(t) \/ RejectLate(t) \/ TakeOver(t) \/ Complete(t)
           \/ ClaimPost(t) \/ Record(t)
  BY DEF Next, Step, vars, storeVars, Receive, ReplayTerminal, Decline, Validate,
     ClaimReconcile, Skip, Post, Answer, Reconcile, Close, Fail, Land, Tick
<1> QED BY <1>1, <1>2 DEF Storing

(* Every step lets every row evolve.                                        *)
LEMMA RowsEvolve ==
  ASSUME TypeOK, ThreadsHold, RowsWellFormed, [Next]_vars, NEW r \in Requests
  PROVE  Evolves(transactions[r], transactions'[r])
<1>1. CASE UNCHANGED transactions
  BY <1>1 DEF Evolves
<1>2. ASSUME NEW t \in Threads, Execute(t) \/ RejectLate(t)
      PROVE  Evolves(transactions[r], transactions'[r])
  BY <1>2, InsertRow DEF Evolves, RowsKept
<1>3. ASSUME NEW t \in Threads, TakeOver(t)
      PROVE  Evolves(transactions[r], transactions'[r])
  <2>1. /\ transactions[Req(t)] # NoValue
        /\ transactions[Req(t)].publication_state = "pending"
        /\ transactions[Req(t)].state # "terminal"
    <3>1. /\ Req(t) \in Requests /\ RowOf(Ev(t)) = transactions[Req(t)]
          /\ transactions[Req(t)] \in Row
      BY <1>3, TakeOverRow
    <3>2. RowOf(Ev(t)).state # "terminal"
      BY <1>3, TakeOverStep
    <3> QED BY <3>1, <3>2, NoRowAssumption DEF RowsWellFormed, Terminal
  <2>2. Evolves(transactions[Req(t)], transactions'[Req(t)])
    BY <1>3, <2>1, TakeOverRow DEF Evolves, Row
  <2> QED BY <1>3, <2>2, TakeOverRow DEF Evolves, RowsKept
<1>4. ASSUME NEW t \in Threads, Complete(t)
      PROVE  Evolves(transactions[r], transactions'[r])
  <2>1. /\ transactions[Req(t)] # NoValue
        /\ transactions[Req(t)].publication_state = "pending"
        /\ transactions[Req(t)].state # "terminal"
    <3>1. /\ Req(t) \in Requests /\ RowOf(Ev(t)) = transactions[Req(t)]
          /\ transactions[Req(t)] \in Row
      BY <1>4, CompleteRow
    <3>2. RowOf(Ev(t)).state # "terminal"
      BY <1>4, CompleteStep
    <3> QED BY <3>1, <3>2, NoRowAssumption DEF RowsWellFormed, Terminal
  <2>2. Evolves(transactions[Req(t)], transactions'[Req(t)])
    BY <1>4, <2>1, CompleteRow DEF Evolves, Row
  <2> QED BY <1>4, <2>2, CompleteRow DEF Evolves, RowsKept
<1>5. ASSUME NEW t \in Threads, ClaimPost(t)
      PROVE  Evolves(transactions[r], transactions'[r])
  <2>1. /\ transactions[Req(t)] # NoValue
        /\ transactions[Req(t)].publication_state = "pending"
        /\ transactions[Req(t)].state = "terminal"
    BY <1>5, ClaimPostRow, ClaimPostStep,
       NoRowAssumption DEF RowsWellFormed, Terminal, ClaimPost, Publishes, Publishable
  <2>2. Evolves(transactions[Req(t)], transactions'[Req(t)])
    BY <1>5, <2>1, ClaimPostRow DEF Evolves, Row
  <2> QED BY <1>5, <2>2, ClaimPostRow DEF Evolves, RowsKept
<1>6. ASSUME NEW t \in Threads, Record(t), Mark(Ev(t), job[t].comment),
             RowOf(Ev(t)).publication_state = "sending"
      PROVE  Evolves(transactions[r], transactions'[r])
  <2>1. /\ transactions[Req(t)] # NoValue
        /\ transactions[Req(t)].publication_state = "sending"
        /\ transactions[Req(t)].state = "terminal"
    BY <1>6, MarkRow, RecordStep,
       NoRowAssumption DEF RowsWellFormed, Terminal
  <2>2. Evolves(transactions[Req(t)], transactions'[Req(t)])
    BY <1>6, <2>1, MarkRow DEF Evolves, Row
  <2> QED BY <1>6, <2>2, MarkRow DEF Evolves, RowsKept
<1> QED BY <1>1, <1>2, <1>3, <1>4, <1>5, <1>6, StoringSteps DEF Storing

(* Comments, landings and closed Issues are never taken back, and time does *)
(* not run backwards.                                                       *)
LEMMA GithubGrows ==
  ASSUME TypeOK, ThreadsHold, RowsWellFormed, [Next]_vars
  PROVE  /\ Len(posts) \in Nat /\ Len(posts') \in Nat /\ Len(posts) <= Len(posts')
         /\ \A p \in 1..Len(posts) : p \in 1..Len(posts') /\ posts'[p] = posts[p]
         /\ landed \subseteq landed' /\ closed \subseteq closed'
         /\ clock <= clock' /\ clock \in Nat /\ clock' \in Nat
<1> USE DEF storeVars, threadVars, githubVars, historyVars
<1>1. Len(posts) \in Nat /\ clock \in Nat
  BY DEF TypeOK, Time
<1>2. CASE \E t \in Threads : Post(t)
  BY <1>1, <1>2, PostStep DEF Post
<1>3. CASE UNCHANGED posts /\ ~ Tick
  <2>1. landed \subseteq landed' /\ closed \subseteq closed' /\ clock = clock'
    BY <1>3 DEF Next, Step, vars, Receive, Execute, RejectLate, TakeOver,
       ReplayTerminal, Decline, Validate, Complete, ClaimPost, ClaimReconcile,
       Skip, Post, Answer, Reconcile, Close, Record, Fail, Land
  <2> QED BY <1>1, <1>3, <2>1
<1>4. CASE Tick
  BY <1>1, <1>4 DEF Tick
<1>5. (\E t \in Threads : Post(t)) \/ UNCHANGED posts
  BY DEF Next, Step, vars, Receive, Execute, RejectLate, TakeOver,
       ReplayTerminal, Decline, Validate, Complete, ClaimPost, ClaimReconcile,
       Skip, Answer, Reconcile, Close, Record, Fail, Land, Tick
<1> QED BY <1>2, <1>3, <1>4, <1>5

-----------------------------------------------------------------------------
(* Threads keep what they hold.                                             *)

(* A thread moves by its own steps only.                                    *)
LEMMA ThreadMoves ==
  ASSUME TypeOK, ThreadsHold, RowsWellFormed, [Next]_vars, NEW u \in Threads
  PROVE  \/ pc'[u] = pc[u] /\ job'[u] = job[u]
         \/ \E e \in Event : Receive(u, e)
         \/ Step(u)
         \/ Fail(u)
<1>1. ASSUME NEW t \in Threads, NEW e \in Event, Receive(t, e)
      PROVE  OthersKept(t)
  BY <1>1, ReceiveStep DEF Moved
<1>2. ASSUME NEW t \in Threads, Step(t) \/ Fail(t)
      PROVE  OthersKept(t)
  BY <1>2, InsertStep, TakeOverStep, ReplayStep, ValidateStep, CompleteStep,
     ClaimPostStep, ClaimReconcileStep, PostStep, AnswerStep, ReconcileStep,
     CloseStep, RecordStep, FinishMoves DEF Moved, Step, Fail, Decline, Skip
<1> QED BY <1>1, <1>2 DEF Next, vars, threadVars, Land, Tick, OthersKept

(* A step that does not move a thread leaves it what it held: its row       *)
(* evolves, its comment stays where it is.                                  *)
LEMMA StandingThreadHolds ==
  ASSUME TypeOK, ThreadsHold, RowsWellFormed, [Next]_vars,
         NEW u \in Threads, pc'[u] = pc[u], job'[u] = job[u]
  PROVE  ThreadHolds(u)'
<1>1. CASE pc[u] = "idle"
  BY <1>1 DEF ThreadHolds, Held, Publishing
<1>2. CASE pc[u] # "idle"
  <2>1. ThreadHolds(u) /\ Req(u) \in Requests
    BY <1>2, JobFacts DEF ThreadsHold
  <2>2. Evolves(transactions[Req(u)], transactions'[Req(u)])
    BY <2>1, RowsEvolve
  <2>3. /\ Ev(u)' = Ev(u) /\ Req(u)' = Req(u)
        /\ RowOf(Ev(u)) = transactions[Req(u)] /\ RowOf(Ev(u))' = transactions'[Req(u)]
    BY DEF Ev, Req, RowOf
  <2>4. /\ pc'[u] \in Held =>
             /\ RowOf(Ev(u))' # NoValue
             /\ RowOf(Ev(u))'.digest = Ev(u)'.digest
             /\ RowOf(Ev(u))'.issue = Ev(u)'.issue
        /\ pc'[u] \in Publishing =>
             /\ RowOf(Ev(u))'.state = "terminal"
             /\ RowOf(Ev(u))'.receipt = job'[u].receipt
    BY <2>1, <2>2, <2>3, NoRowAssumption DEF ThreadHolds, Evolves, Publishing
  <2>5. pc'[u] \in {"posted", "closing", "recording"} =>
          /\ job'[u].comment \in 1..Len(posts')
          /\ RequestOfPost(job[u].comment)' = Req(u)'
    BY <2>1, <2>3, GithubGrows DEF ThreadHolds, RequestOfPost
  <2>6. /\ pc'[u] \in {"closing", "recording"} => job'[u].comment \in landed'
        /\ pc'[u] = "recording" => Ev(u)'.issue \in closed'
    BY <2>1, <2>3, GithubGrows DEF ThreadHolds
  <2>7. job'[u] \in Job /\ (pc'[u] = "completing" => job'[u].receipt # NoValue)
    BY <1>2, <2>1 DEF ThreadHolds
  <2> QED BY <2>4, <2>5, <2>6, <2>7 DEF ThreadHolds, RequestOfPost
<1> QED BY <1>1, <1>2

(* An idle thread holds nothing.                                            *)
LEMMA IdleThreadHolds ==
  ASSUME NEW t \in Threads, pc'[t] = "idle"
  PROVE  ThreadHolds(t)'
BY DEF ThreadHolds, Held, Publishing

(* A held row is still held when its thread goes on with the same event.    *)
LEMMA MovingThreadHolds ==
  ASSUME TypeOK, ThreadsHold, RowsWellFormed, [Next]_vars,
         NEW t \in Threads, pc[t] \in Held, job'[t].event = job[t].event
  PROVE  /\ Req(t) \in Requests /\ Ev(t)' = Ev(t) /\ Req(t)' = Req(t)
         /\ RowOf(Ev(t))' # NoValue
         /\ RowOf(Ev(t))'.digest = Ev(t)'.digest
         /\ RowOf(Ev(t))'.issue = Ev(t)'.issue
         /\ pc[t] \in Publishing =>
              RowOf(Ev(t))'.state = "terminal" /\ RowOf(Ev(t))'.receipt = job[t].receipt
<1>1. ThreadHolds(t) /\ Req(t) \in Requests
  BY JobFacts DEF ThreadsHold, Held
<1>2. Evolves(transactions[Req(t)], transactions'[Req(t)])
  BY <1>1, RowsEvolve
<1>3. /\ Ev(t)' = Ev(t) /\ Req(t)' = Req(t)
      /\ RowOf(Ev(t)) = transactions[Req(t)] /\ RowOf(Ev(t))' = transactions'[Req(t)]
  BY DEF Ev, Req, RowOf
<1> QED BY <1>1, <1>2, <1>3, NoRowAssumption DEF ThreadHolds, Evolves, Publishing

(* Every step leaves every thread what it holds.                            *)
LEMMA ThreadsHoldStep ==
  ASSUME TypeOK, ThreadsHold, RowsWellFormed, [Next]_vars
  PROVE  ThreadsHold'
<1>1. SUFFICES ASSUME NEW u \in Threads PROVE ThreadHolds(u)'
  BY DEF ThreadsHold
<1>2. CASE pc'[u] = pc[u] /\ job'[u] = job[u]
  BY <1>2, StandingThreadHolds
<1>3. ASSUME NEW e \in Event, Receive(u, e)
      PROVE  ThreadHolds(u)'
  BY <1>3, ReceiveStep DEF Moved, ThreadHolds, Held, Publishing
<1>4. ASSUME Execute(u) \/ RejectLate(u)
      PROVE  ThreadHolds(u)'
  <2>1. /\ job'[u] \in Job /\ job'[u].event = job[u].event
        /\ pc'[u] \in {"validating", "completing"}
        /\ pc'[u] = "completing" => job'[u].receipt # NoValue
    BY <1>4, InsertStep, NoReceiptAssumption DEF Moved, Receipts
  <2>2. /\ transactions'[Req(u)].digest = Ev(u).digest
        /\ transactions'[Req(u)].issue = Ev(u).issue
    BY <1>4, InsertRow
  <2>3. transactions'[Req(u)] # NoValue
    BY <1>4, InsertRow, NoRowAssumption
  <2>4. RowOf(Ev(u))' = transactions'[Req(u)] /\ Ev(u)' = Ev(u)
    BY <2>1 DEF RowOf, Ev, Req
  <2> QED BY <2>1, <2>2, <2>3, <2>4 DEF ThreadHolds, Publishing
<1>5. ASSUME TakeOver(u)
      PROVE  ThreadHolds(u)'
  <2>1. /\ job'[u] \in Job /\ job'[u].event = job[u].event
        /\ pc'[u] = "completing" /\ job'[u].receipt # NoValue
    BY <1>5, TakeOverStep, NoReceiptAssumption DEF Moved, Receipts
  <2>2. /\ transactions[Req(u)].digest = Ev(u).digest /\ transactions[Req(u)] # NoValue
        /\ transactions[Req(u)].issue = Ev(u).issue /\ Req(u) \in Requests
    BY <1>5, TakeOverRow, TakeOverStep
  <2>3. transactions'[Req(u)].digest = Ev(u).digest
        /\ transactions'[Req(u)].issue = Ev(u).issue /\ transactions'[Req(u)] # NoValue
    BY <2>2, RowsEvolve, NoRowAssumption DEF Evolves
  <2>4. RowOf(Ev(u))' = transactions'[Req(u)] /\ Ev(u)' = Ev(u)
    BY <2>1 DEF RowOf, Ev, Req
  <2> QED BY <2>1, <2>3, <2>4 DEF ThreadHolds, Publishing
<1>6. ASSUME ReplayTerminal(u)
      PROVE  ThreadHolds(u)'
  <2>1. /\ job'[u] \in Job /\ job'[u].event = job[u].event
        /\ pc'[u] = "publishing" /\ job'[u].receipt = RowOf(Ev(u)).receipt
        /\ RowOf(Ev(u)).digest = Ev(u).digest /\ RowOf(Ev(u)).issue = Ev(u).issue
        /\ RowOf(Ev(u)) # NoValue /\ RowOf(Ev(u)).state = "terminal"
    BY <1>6, ReplayStep DEF Moved
  <2>2. RowOf(Ev(u))' = RowOf(Ev(u)) /\ Ev(u)' = Ev(u)
    BY <1>6, <2>1 DEF ReplayTerminal, RowOf, Ev
  <2> QED BY <2>1, <2>2 DEF ThreadHolds
<1>7. ASSUME Decline(u) \/ Skip(u) \/ Record(u) \/ Fail(u)
      PROVE  ThreadHolds(u)'
  BY <1>7, FinishMoves, IdleThreadHolds DEF Decline, Skip, Record, Fail, Moved
<1>8. ASSUME Validate(u)
      PROVE  ThreadHolds(u)'
  BY <1>8, ValidateStep, MovingThreadHolds, NoReceiptAssumption
     DEF Moved, ThreadHolds, Held, PCs, Publishing, Receipts
<1>9. ASSUME Complete(u)
       PROVE  ThreadHolds(u)'
  <2>1. /\ pc[u] \in Held /\ pc'[u] = "publishing" /\ job'[u] \in Job
        /\ job'[u].event = job[u].event /\ job'[u].receipt = job[u].receipt
    BY <1>9, CompleteStep DEF Moved, Held, PCs
  <2>2. /\ transactions'[Req(u)].state = "terminal"
        /\ transactions'[Req(u)].receipt = job[u].receipt
    BY <1>9, CompleteRow DEF Row
  <2>3. RowOf(Ev(u))' = transactions'[Req(u)]
    BY <2>1 DEF RowOf, Ev, Req
  <2> QED BY <2>1, <2>2, <2>3, MovingThreadHolds DEF ThreadHolds
<1>10. ASSUME ClaimPost(u)
       PROVE  ThreadHolds(u)'
  BY <1>10, ClaimPostStep, MovingThreadHolds
     DEF Moved, ThreadHolds, Held, PCs, Publishing
<1>11. ASSUME ClaimReconcile(u)
       PROVE  ThreadHolds(u)'
  BY <1>11, ClaimReconcileStep, MovingThreadHolds
     DEF Moved, ThreadHolds, Held, PCs, Publishing
<1>12. ASSUME Post(u)
       PROVE  ThreadHolds(u)'
  <2>1. /\ pc[u] \in Held /\ pc[u] \in Publishing /\ pc'[u] = "posted"
        /\ job'[u] \in Job /\ job'[u].event = job[u].event
        /\ job'[u].receipt = job[u].receipt
        /\ job'[u].comment = Len(posts) + 1
        /\ Len(posts) \in Nat /\ Len(posts') = Len(posts) + 1
    BY <1>12, PostStep DEF Moved, Held, PCs, Publishing
  <2>2. posts'[Len(posts) + 1].digest = Ev(u).digest
    BY <1>12, PostStep
  <2>3. /\ job'[u].comment \in 1..Len(posts')
        /\ RequestOfPost(job[u].comment)' = Req(u)'
    BY <2>1, <2>2 DEF RequestOfPost, Req, Ev
  <2> QED BY <2>1, <2>3, MovingThreadHolds DEF ThreadHolds
<1>13. ASSUME Answer(u)
       PROVE  ThreadHolds(u)'
  <2>1. /\ pc[u] \in Held /\ pc[u] \in Publishing /\ pc'[u] = "closing"
        /\ job'[u] = job[u] /\ job[u] \in Job /\ job[u].comment \in landed
        /\ ThreadHolds(u) /\ pc[u] = "posted"
    BY <1>13, AnswerStep DEF Moved, Held, PCs, Publishing, ThreadsHold
  <2>2. /\ job'[u].comment \in 1..Len(posts') /\ job'[u].comment \in landed'
        /\ RequestOfPost(job[u].comment)' = Req(u)'
    BY <1>13, <2>1 DEF Answer, githubVars, ThreadHolds, RequestOfPost, Req, Ev
  <2> QED BY <2>1, <2>2, MovingThreadHolds DEF ThreadHolds
<1>14. ASSUME Reconcile(u)
       PROVE  ThreadHolds(u)'
  <2>1. /\ pc[u] \in Held /\ pc[u] \in Publishing /\ pc'[u] = "closing"
        /\ job'[u] \in Job /\ job'[u].event = job[u].event
        /\ job'[u].receipt = job[u].receipt
        /\ job'[u].comment \in landed /\ job'[u].comment \in 1..Len(posts)
        /\ posts[job'[u].comment].digest = Ev(u).digest
    BY <1>14, ReconcileStep DEF Moved, Held, PCs, Publishing
  <2>2. /\ job'[u].comment \in 1..Len(posts') /\ job'[u].comment \in landed'
        /\ RequestOfPost(job[u].comment)' = Req(u)'
    BY <1>14, <2>1 DEF Reconcile, githubVars, RequestOfPost, Req, Ev
  <2> QED BY <2>1, <2>2, MovingThreadHolds DEF ThreadHolds
<1>15. ASSUME Close(u)
       PROVE  ThreadHolds(u)'
  <2>1. /\ pc[u] \in Held /\ pc[u] \in Publishing /\ pc'[u] = "recording"
        /\ job'[u] = job[u] /\ job[u] \in Job
        /\ ThreadHolds(u) /\ pc[u] = "closing" /\ Ev(u).issue \in closed'
    BY <1>15, CloseStep DEF Moved, Held, PCs, Publishing, ThreadsHold
  <2>2. /\ job'[u].comment \in 1..Len(posts') /\ job'[u].comment \in landed'
        /\ RequestOfPost(job[u].comment)' = Req(u)' /\ Ev(u)' = Ev(u)
    BY <1>15, <2>1 DEF Close, ThreadHolds, RequestOfPost, Req, Ev
  <2> QED BY <2>1, <2>2, MovingThreadHolds DEF ThreadHolds
<1> QED
  BY <1>2, <1>3, <1>4, <1>5, <1>6, <1>7, <1>8, <1>9, <1>10, <1>11, <1>12, <1>13,
     <1>14, <1>15, ThreadMoves DEF Step

-----------------------------------------------------------------------------
(* The rows of the outbox.                                                  *)

(* A row has its receipt when it is terminal and not before, and the outbox *)
(* moves only then.                                                         *)
LEMMA RowsWellFormedStep ==
  ASSUME TypeOK, ThreadsHold, RowsWellFormed, [Next]_vars
  PROVE  RowsWellFormed'
<1> DEFINE Well(row) ==
             row # NoValue =>
               /\ row.state = "terminal" <=> row.receipt # NoValue
               /\ row.publication_state # "pending" => row.state = "terminal"
               /\ row.publication_state # "sent" => row.comment_id = 0
<1>1. SUFFICES ASSUME NEW r \in Requests PROVE Well(transactions'[r])
  BY DEF RowsWellFormed, Terminal
<1>2. \A q \in Requests : Well(transactions[q])
  BY DEF RowsWellFormed, Terminal
<1>3. CASE UNCHANGED transactions
  BY <1>2, <1>3
<1>4. ASSUME NEW q \in Requests, RowsKept(q), Well(transactions'[q])
      PROVE  Well(transactions'[r])
  BY <1>2, <1>4 DEF RowsKept
<1>5. ASSUME NEW t \in Threads, Execute(t) \/ RejectLate(t)
      PROVE  Well(transactions'[r])
  <2>1. Well(transactions'[Req(t)])
    BY <1>5, InsertRow
  <2>2. RowsKept(Req(t)) /\ Req(t) \in Requests
    BY <1>5, InsertRow
  <2> QED BY <1>4, <2>1, <2>2
<1>6. ASSUME NEW t \in Threads, TakeOver(t)
      PROVE  Well(transactions'[r])
  <2>1. Well(transactions[Req(t)]) /\ transactions[Req(t)] # NoValue
        /\ transactions[Req(t)].state # "terminal"
    <3>1. Req(t) \in Requests /\ RowOf(Ev(t)) = transactions[Req(t)]
      BY <1>6, TakeOverRow
    <3> QED BY <1>2, <1>6, <3>1, TakeOverStep
  <2>2. Well(transactions'[Req(t)])
    BY <1>6, <2>1, TakeOverRow DEF Row
  <2>3. RowsKept(Req(t)) /\ Req(t) \in Requests
    BY <1>6, TakeOverRow
  <2> QED BY <1>4, <2>2, <2>3
<1>7. ASSUME NEW t \in Threads, Complete(t)
      PROVE  Well(transactions'[r])
  <2>1. job[t].receipt # NoValue
    BY <1>7, CompleteStep, NoReceiptAssumption
  <2>2. Well(transactions'[Req(t)])
    BY <1>7, <2>1, CompleteRow DEF Row
  <2>3. RowsKept(Req(t)) /\ Req(t) \in Requests
    BY <1>7, CompleteRow
  <2> QED BY <1>4, <2>2, <2>3
<1>8. ASSUME NEW t \in Threads, ClaimPost(t)
      PROVE  Well(transactions'[r])
  <2>1. Well(transactions[Req(t)]) /\ transactions[Req(t)] # NoValue
        /\ transactions[Req(t)].publication_state = "pending"
        /\ transactions[Req(t)].state = "terminal"
    BY <1>2, <1>8, ClaimPostRow, ClaimPostStep DEF ClaimPost, Publishes, Publishable
  <2>2. Well(transactions'[Req(t)])
    BY <1>8, <2>1, ClaimPostRow DEF Row
  <2>3. RowsKept(Req(t)) /\ Req(t) \in Requests
    BY <1>8, ClaimPostRow
  <2> QED BY <1>4, <2>2, <2>3
<1>9. ASSUME NEW t \in Threads, Record(t), Mark(Ev(t), job[t].comment),
             RowOf(Ev(t)).publication_state = "sending"
      PROVE  Well(transactions'[r])
  <2>1. Well(transactions[Req(t)]) /\ transactions[Req(t)] # NoValue
        /\ transactions[Req(t)].publication_state = "sending"
    BY <1>2, <1>9, MarkRow, RecordStep
  <2>2. Well(transactions'[Req(t)])
    BY <1>9, <2>1, MarkRow DEF Row
  <2>3. RowsKept(Req(t)) /\ Req(t) \in Requests
    BY <1>9, MarkRow
  <2> QED BY <1>4, <2>2, <2>3
<1> QED BY <1>3, <1>5, <1>6, <1>7, <1>8, <1>9, StoringSteps DEF Storing

(* Bindings and deliveries change with a claim only.                        *)
LEMMA BindingSteps ==
  ASSUME TypeOK, ThreadsHold, [Next]_vars
  PROVE  /\ \/ UNCHANGED bindings
            \/ \E t \in Threads : Execute(t) \/ RejectLate(t)
         /\ \/ UNCHANGED deliveries
            \/ \E t \in Threads :
                 /\ EnsureDelivery(Ev(t))
                 /\ pc[t] = "claiming"
                 /\ \/ Execute(t) \/ RejectLate(t) \/ TakeOver(t)
                    \/ ReplayTerminal(t)
                    \/ Claims(t, "in_flight")
BY DEF Next, Step, vars, storeVars, Receive, Execute, RejectLate, TakeOver,
   ReplayTerminal, Decline, Validate, Complete, ClaimPost, ClaimReconcile, Skip,
   Post, Answer, Reconcile, Close, Record, Fail, Land, Tick, InsertTransaction,
   RecoverTransaction, CompleteTransaction, ClaimPublication, Mark, Claims

(* No step tears the tables apart.                                          *)
LEMMA ConsistencyStep ==
  ASSUME TypeOK, ThreadsHold, RowsWellFormed, StoreIsConsistent, [Next]_vars
  PROVE  StoreIsConsistent'
<1>1. \A r \in Requests : Evolves(transactions[r], transactions'[r])
  BY RowsEvolve
<1>2. StoreTypeOK /\ StoreTypeOK'
  BY TypeStep DEF TypeOK
<1>3. ASSUME NEW t \in Threads, Execute(t) \/ RejectLate(t)
      PROVE  /\ \A i \in Issues : bindings[i] # NoValue => bindings'[i] = bindings[i]
             /\ \A r \in Requests : transactions[r] # NoValue =>
                  transactions'[r] = transactions[r]
  BY <1>3, InsertRow, InsertStep DEF RowsKept
<1>4. \A i \in Issues : bindings[i] # NoValue => bindings'[i] = bindings[i]
  BY <1>3, BindingSteps
<1>5. ASSUME NEW r \in Requests, transactions'[r] # NoValue
      PROVE  /\ RequestOf[transactions'[r].digest] = r
             /\ bindings'[transactions'[r].issue] = transactions'[r].digest
  <2>1. CASE transactions[r] # NoValue
    <3>1. /\ transactions'[r].digest = transactions[r].digest
          /\ transactions'[r].issue = transactions[r].issue
      BY <1>1, <2>1 DEF Evolves
    <3>2. /\ RequestOf[transactions[r].digest] = r
          /\ bindings[transactions[r].issue] = transactions[r].digest
          /\ transactions[r].digest \in Digests /\ transactions[r].issue \in Issues
      BY <1>2, <2>1, RowFacts DEF StoreIsConsistent
    <3> QED BY <1>4, <3>1, <3>2, StoreAssumption
  <2>2. CASE transactions[r] = NoValue
    <3>1. PICK t \in Threads : Storing(t) /\ transactions'[r] # transactions[r]
      BY <1>5, <2>2, StoringSteps
    <3>2. Execute(t) \/ RejectLate(t)
      BY <2>2, <3>1, TakeOverRow, CompleteRow, ClaimPostRow, MarkRow, NoRowAssumption
         DEF Storing, RowsKept
    <3>3. r = Req(t)
      BY <3>1, <3>2, InsertRow DEF RowsKept
    <3> QED BY <3>2, <3>3, InsertRow DEF Req
  <2> QED BY <2>1, <2>2
<1>6. ASSUME NEW i \in Issues, bindings'[i] # NoValue
      PROVE  /\ transactions'[RequestOf[bindings'[i]]] # NoValue
             /\ transactions'[RequestOf[bindings'[i]]].issue = i
  <2>1. CASE bindings[i] # NoValue
    <3>1. /\ bindings'[i] = bindings[i] /\ bindings[i] \in Digests
          /\ RequestOf[bindings[i]] \in Requests
          /\ transactions[RequestOf[bindings[i]]] # NoValue
          /\ transactions[RequestOf[bindings[i]]].issue = i
      BY <1>2, <1>4, <2>1, StoreAssumption DEF StoreTypeOK, StoreIsConsistent
    <3> QED BY <1>1, <3>1, NoRowAssumption DEF Evolves
  <2>2. CASE bindings[i] = NoValue
    <3>1. PICK t \in Threads : Execute(t) \/ RejectLate(t)
      BY <1>6, <2>2, BindingSteps
    <3>2. i = Ev(t).issue /\ bindings'[i] = Ev(t).digest
      BY <1>6, <2>2, <3>1, InsertRow
    <3> QED BY <3>1, <3>2, InsertRow, NoRowAssumption DEF Req
  <2> QED BY <2>1, <2>2
<1>7. ASSUME NEW d \in Deliveries, deliveries'[d] # NoValue
      PROVE  /\ transactions'[RequestOf[deliveries'[d].digest]] # NoValue
             /\ bindings'[deliveries'[d].issue] = deliveries'[d].digest
  <2>1. CASE deliveries'[d] = deliveries[d]
    <3>1. /\ deliveries[d].digest \in Digests /\ deliveries[d].issue \in Issues
          /\ RequestOf[deliveries[d].digest] \in Requests
          /\ transactions[RequestOf[deliveries[d].digest]] # NoValue
          /\ bindings[deliveries[d].issue] = deliveries[d].digest
      BY <1>2, <1>7, <2>1, StoreAssumption DEF StoreTypeOK, StoreIsConsistent
    <3>2. transactions'[RequestOf[deliveries[d].digest]] # NoValue
      BY <1>1, <3>1, NoRowAssumption DEF Evolves
    <3> QED BY <1>4, <2>1, <3>1, <3>2, StoreAssumption
  <2>2. CASE deliveries'[d] # deliveries[d]
    <3>1. PICK t \in Threads :
            /\ EnsureDelivery(Ev(t)) /\ pc[t] = "claiming"
            /\ \/ Execute(t) \/ RejectLate(t) \/ TakeOver(t)
               \/ ReplayTerminal(t)
               \/ Claims(t, "in_flight")
      BY <2>2, BindingSteps
    <3>2. /\ deliveries'[d].digest = Ev(t).digest /\ deliveries'[d].issue = Ev(t).issue
          /\ Req(t) \in Requests /\ Ev(t).issue \in Issues /\ Ev(t).digest \in Digests
      BY <1>2, <2>2, <3>1, JobFacts, DeliveryFacts
    <3>3. CASE Execute(t) \/ RejectLate(t)
      BY <3>2, <3>3, InsertRow, NoRowAssumption DEF Req
    <3>4. CASE TakeOver(t) \/ ReplayTerminal(t) \/ Claims(t, "in_flight")
      <4>1. RowOf(Ev(t)) # NoValue /\ bindings[Ev(t).issue] = Ev(t).digest
        BY <3>4, OtherClaimFacts DEF TakeOver, ReplayTerminal
      <4>2. transactions'[Req(t)] # NoValue
        BY <1>1, <3>2, <4>1, NoRowAssumption DEF Evolves, RowOf, Req
      <4> QED BY <1>4, <3>2, <4>1, <4>2, StoreAssumption DEF Req
    <3> QED BY <3>1, <3>3, <3>4
  <2> QED BY <2>1, <2>2
<1> QED BY <1>5, <1>6, <1>7 DEF StoreIsConsistent

-----------------------------------------------------------------------------
(* Verdicts.                                                                *)

(* Only an execution runs the validator, and only for a request that had no *)
(* row.                                                                     *)
LEMMA ValidationSteps ==
  ASSUME TypeOK, ThreadsHold, [Next]_vars, NEW r \in Requests, validations'[r] # validations[r]
  PROVE  \E t \in Threads :
           /\ Execute(t) /\ r = Req(t)
           /\ transactions[r] = NoValue
           /\ validations'[r] = validations[r] + 1
<1>1. PICK t \in Threads : Execute(t)
  BY DEF Next, Step, vars, historyVars, Receive, RejectLate, TakeOver,
     ReplayTerminal, Decline, Validate, Complete, ClaimPost, ClaimReconcile, Skip,
     Post, Answer, Reconcile, Close, Record, Fail, Land, Tick
<1>2. validations' = [validations EXCEPT ![Req(t)] = @ + 1]
  BY <1>1 DEF Execute
<1>3. r = Req(t) /\ validations'[r] = validations[r] + 1
  BY <1>2 DEF TypeOK
<1> QED BY <1>1, <1>3, InsertStep

(* Only a completion makes a row terminal.                                  *)
LEMMA BecomesTerminal ==
  ASSUME TypeOK, ThreadsHold, RowsWellFormed, [Next]_vars, NEW r \in Requests,
         ~Terminal(r), Terminal(r)'
  PROVE  \E t \in Threads :
           /\ Complete(t) /\ r = Req(t)
           /\ transactions'[r].receipt = job[t].receipt
<1>1. PICK t \in Threads : Storing(t) /\ transactions'[r] # transactions[r]
  BY StoringSteps DEF Terminal
<1>2. r = Req(t)
  <2>1. CASE Execute(t) \/ RejectLate(t)
    BY <1>1, <2>1, InsertRow DEF RowsKept
  <2>2. CASE TakeOver(t)
    BY <1>1, <2>2, TakeOverRow DEF RowsKept
  <2>3. CASE Complete(t)
    BY <1>1, <2>3, CompleteRow DEF RowsKept
  <2>4. CASE ClaimPost(t)
    BY <1>1, <2>4, ClaimPostRow DEF RowsKept
  <2>5. CASE Record(t) /\ Mark(Ev(t), job[t].comment)
    BY <1>1, <2>5, MarkRow DEF RowsKept
  <2> QED BY <1>1, <2>1, <2>2, <2>3, <2>4, <2>5 DEF Storing
<1>3. ~(Execute(t) \/ RejectLate(t))
  BY <1>2, InsertRow DEF Terminal
<1>4. ~TakeOver(t)
  <2>1. ASSUME TakeOver(t) PROVE transactions'[r].state = "recovering"
    BY <1>2, <2>1, TakeOverRow DEF Row
  <2> QED BY <2>1 DEF Terminal
<1>5. ~ClaimPost(t)
  <2>1. ASSUME ClaimPost(t) PROVE Terminal(r)
    <3>1. RowOf(Ev(t)) = transactions[Req(t)] /\ RowOf(Ev(t)).state = "terminal"
      BY <2>1, ClaimPostRow DEF ClaimPost, Publishes, Publishable
    <3> QED BY <1>2, <2>1, <3>1, ClaimPostStep DEF Terminal
  <2> QED BY <2>1
<1>6. ~(Record(t) /\ Mark(Ev(t), job[t].comment))
  <2>1. ASSUME Record(t), Mark(Ev(t), job[t].comment) PROVE Terminal(r)
    <3>1. RowOf(Ev(t)) = transactions[Req(t)] /\ pc[t] = "recording"
      BY <2>1, MarkRow DEF Record
    <3>2. ThreadHolds(t) /\ pc[t] \in Held /\ pc[t] \in Publishing
      BY <3>1 DEF ThreadsHold, Held, PCs, Publishing
    <3> QED BY <1>2, <3>1, <3>2 DEF Terminal, ThreadHolds
  <2> QED BY <2>1
<1>7. Complete(t)
  BY <1>1, <1>3, <1>4, <1>5, <1>6 DEF Storing
<1>8. transactions'[r].receipt = job[t].receipt
  BY <1>2, <1>7, CompleteRow DEF Row
<1> QED BY <1>2, <1>7, <1>8

(* A verdict, or a rejection for time, on its way to the store is earned.   *)
LEMMA VerdictsEarnedStep ==
  ASSUME TypeOK, ThreadsHold, RowsWellFormed, VerdictsEarned, [Next]_vars
  PROVE  VerdictsEarned'
<1>1. ASSUME NEW r \in Requests, transactions'[r] = NoValue
      PROVE  validations'[r] = 0
  <2>1. transactions[r] = NoValue
    BY <1>1, RowsEvolve, NoRowAssumption DEF Evolves
  <2>2. validations'[r] = validations[r]
    BY <1>1, ValidationSteps, InsertRow, NoRowAssumption
  <2> QED BY <2>1, <2>2 DEF VerdictsEarned
<1> DEFINE Earned(u) ==
      /\ pc[u] = "validating" => validations[Req(u)] = 1
      /\ pc[u] = "completing" /\ job[u].receipt \in Verdicts =>
           validations[Req(u)] = 1
      /\ pc[u] = "completing" /\ job[u].receipt = "request-time-invalid" =>
           validations[Req(u)] = 0
<1>2. ASSUME NEW u \in Threads PROVE Earned(u)'
  <2>1. Earned(u)
    BY DEF VerdictsEarned
  <2>2. ASSUME pc[u] \in {"validating", "completing"}
        PROVE  validations'[Req(u)] = validations[Req(u)] /\ Req(u) \in Requests
    <3>1. RowOf(Ev(u)) # NoValue /\ Req(u) \in Requests
      BY <2>2, JobFacts DEF ThreadsHold, ThreadHolds, Held, PCs
    <3> QED BY <3>1, ValidationSteps DEF RowOf, Req
  <2>3. CASE pc'[u] = pc[u] /\ job'[u] = job[u]
    <3>1. Req(u)' = Req(u)
      BY <2>3 DEF Req, Ev
    <3> QED BY <2>1, <2>2, <2>3, <3>1
  <2>4. CASE Execute(u)
    <3>1. /\ pc'[u] = "validating" /\ transactions[Req(u)] = NoValue
          /\ Req(u)' = Req(u) /\ Req(u) \in Requests
      BY <2>4, InsertStep, InsertRow DEF Moved, Req, Ev
    <3>2. validations'[Req(u)] = 1
      BY <2>4, <3>1 DEF Execute, TypeOK, VerdictsEarned
    <3> QED BY <3>1, <3>2
  <2>5. CASE RejectLate(u)
    <3>1. /\ pc'[u] = "completing" /\ job'[u].receipt = "request-time-invalid"
          /\ transactions[Req(u)] = NoValue
          /\ Req(u)' = Req(u) /\ Req(u) \in Requests
      BY <2>5, InsertStep, InsertRow DEF Moved, Req, Ev
    <3>2. validations'[Req(u)] = 0
      BY <2>5, <3>1 DEF RejectLate, historyVars, VerdictsEarned
    <3> QED BY <3>1, <3>2 DEF Verdicts
  <2>6. CASE TakeOver(u)
    BY <2>6, TakeOverStep DEF Moved, Verdicts
  <2>7. CASE Validate(u)
    <3>1. /\ pc[u] = "validating" /\ pc'[u] = "completing"
          /\ job'[u].receipt \in Verdicts /\ Req(u)' = Req(u)
      BY <2>7, ValidateStep DEF Moved, Req, Ev
    <3> QED BY <2>1, <2>2, <3>1 DEF Verdicts
  <2>8. CASE pc'[u] \notin {"validating", "completing"}
    BY <2>8
  <2>9. ASSUME NEW e \in Event, Receive(u, e)
        PROVE  pc'[u] \notin {"validating", "completing"}
    BY <2>9, ReceiveStep DEF Moved
  <2>10. ASSUME \/ ReplayTerminal(u) \/ Decline(u) \/ Complete(u) \/ ClaimPost(u)
                \/ ClaimReconcile(u) \/ Skip(u) \/ Post(u) \/ Answer(u)
                \/ Reconcile(u) \/ Close(u) \/ Record(u) \/ Fail(u)
         PROVE  pc'[u] \notin {"validating", "completing"}
    BY <2>10, ReplayStep, CompleteStep, ClaimPostStep, ClaimReconcileStep, PostStep,
       AnswerStep, ReconcileStep, CloseStep, FinishMoves
       DEF Moved, Decline, Skip, Record, Fail
  <2> QED BY <2>3, <2>4, <2>5, <2>6, <2>7, <2>8, <2>9, <2>10, ThreadMoves DEF Step
<1> QED BY <1>1, <1>2 DEF VerdictsEarned

(* The validator runs once, and a stored verdict is that run's.             *)
LEMMA ValidatedOnceStep ==
  ASSUME TypeOK, ThreadsHold, RowsWellFormed, VerdictsEarned, ValidatedOnce, [Next]_vars
  PROVE  ValidatedOnce'
<1> SUFFICES ASSUME NEW r \in Requests
             PROVE  /\ validations'[r] <= 1
                    /\ Terminal(r)' /\ transactions'[r].receipt \in Verdicts =>
                         validations'[r] = 1
                    /\ Terminal(r)' /\ transactions'[r].receipt = "request-time-invalid" =>
                         validations'[r] = 0
  BY DEF ValidatedOnce
<1>1. validations'[r] <= 1
  BY ValidationSteps DEF ValidatedOnce, VerdictsEarned
<1>2. CASE Terminal(r)' /\ Terminal(r)
  <2>1. transactions'[r].receipt = transactions[r].receipt
    BY <1>2, RowsEvolve DEF Evolves, Terminal
  <2>2. validations'[r] = validations[r]
    BY <1>2, ValidationSteps DEF Terminal
  <2> QED BY <1>1, <1>2, <2>1, <2>2 DEF ValidatedOnce
<1>3. CASE Terminal(r)' /\ ~Terminal(r)
  <2>1. PICK t \in Threads :
          /\ Complete(t) /\ r = Req(t)
          /\ transactions'[r].receipt = job[t].receipt
    BY <1>3, BecomesTerminal
  <2>2. pc[t] = "completing" /\ RowOf(Ev(t)) # NoValue
    BY <2>1, CompleteStep
  <2>3. validations'[r] = validations[r]
    BY <2>1, <2>2, ValidationSteps DEF RowOf, Req
  <2> QED BY <1>1, <2>1, <2>2, <2>3 DEF VerdictsEarned
<1> QED BY <1>1, <1>2, <1>3

-----------------------------------------------------------------------------
(* Comments.                                                                *)

(* Only a sending thread sends a comment, and only one.                     *)
LEMMA PostsSteps ==
  ASSUME [Next]_vars
  PROVE  UNCHANGED posts \/ \E t \in Threads : Post(t)
BY DEF Next, Step, vars, githubVars, Receive, Execute, RejectLate, TakeOver,
   ReplayTerminal, Decline, Validate, Complete, ClaimPost, ClaimReconcile, Skip,
   Answer, Reconcile, Close, Record, Fail, Land, Tick

(* A thread that may send holds its row; no comment of its request exists.  *)
LEMMA PostingFacts ==
  ASSUME TypeOK, ThreadsHold, PostPermission, NEW t \in Threads, pc[t] = "posting"
  PROVE  /\ Req(t) \in Requests /\ Terminal(Req(t))
         /\ transactions[Req(t)].digest = Ev(t).digest
         /\ transactions[Req(t)].issue = Ev(t).issue
         /\ transactions[Req(t)].receipt = job[t].receipt
         /\ transactions[Req(t)].publication_state # "pending"
         /\ \A p \in 1..Len(posts) : RequestOfPost(p) # Req(t)
<1>1. RowOf(Ev(t)) = transactions[Req(t)]
  BY DEF RowOf, Req
<1>2. pc[t] \in Held /\ pc[t] \in Publishing /\ ThreadHolds(t)
  BY DEF Held, PCs, Publishing, ThreadsHold
<1> QED BY <1>1, <1>2, JobFacts DEF ThreadHolds, PostPermission, Terminal

(* At most one comment is sent for a request.                               *)
LEMMA OneTerminalPostStep ==
  ASSUME TypeOK, ThreadsHold, RowsWellFormed, PostPermission, OneTerminalPost,
         [Next]_vars
  PROVE  OneTerminalPost'
<1>1. CASE UNCHANGED posts
  BY <1>1 DEF OneTerminalPost, RequestOfPost
<1>2. ASSUME NEW t \in Threads, Post(t)
      PROVE  OneTerminalPost'
  <2>1. /\ pc[t] = "posting" /\ Len(posts) \in Nat /\ Len(posts') = Len(posts) + 1
        /\ \A p \in 1..Len(posts) : posts'[p] = posts[p]
        /\ RequestOf[posts'[Len(posts) + 1].digest] = Req(t)
    BY <1>2, PostStep DEF Req
  <2>2. \A p \in 1..Len(posts) : RequestOf[posts[p].digest] # Req(t)
    BY <2>1, PostingFacts DEF RequestOfPost
  <2>3. ASSUME NEW p \in 1..Len(posts'), NEW q \in 1..Len(posts'),
               RequestOf[posts'[p].digest] = RequestOf[posts'[q].digest]
        PROVE  p = q
    <3>1. CASE p \in 1..Len(posts) /\ q \in 1..Len(posts)
      BY <2>1, <2>3, <3>1 DEF OneTerminalPost, RequestOfPost
    <3>2. CASE p = Len(posts) + 1 \/ q = Len(posts) + 1
      BY <2>1, <2>2, <2>3, <3>2
    <3> QED BY <2>1, <3>1, <3>2
  <2> QED BY <2>3 DEF OneTerminalPost, RequestOfPost
<1> QED BY <1>1, <1>2, PostsSteps

(* What is sent is what is stored, and stays so.                            *)
LEMMA PostedIsStoredStep ==
  ASSUME TypeOK, ThreadsHold, RowsWellFormed, PostPermission, PostedIsStored,
         [Next]_vars
  PROVE  PostedIsStored'
<1> DEFINE Says(row, sent) ==
             /\ row # NoValue /\ row.state = "terminal"
             /\ row.receipt = sent.receipt
             /\ row.digest = sent.digest /\ row.issue = sent.issue
<1>1. ASSUME NEW p \in 1..Len(posts)
      PROVE  /\ RequestOf[posts[p].digest] \in Requests
             /\ Says(transactions[RequestOf[posts[p].digest]], posts[p])
  <2>1. posts[p] \in Comment
    BY DEF TypeOK
  <2> QED BY <2>1, StoreAssumption DEF PostedIsStored, RequestOfPost, Terminal, Comment
<1>2. ASSUME NEW r \in Requests, NEW sent, Says(transactions[r], sent)
      PROVE  Says(transactions'[r], sent)
  BY <1>2, RowsEvolve, NoRowAssumption DEF Evolves
<1>3. SUFFICES ASSUME NEW p \in 1..Len(posts')
               PROVE  Says(transactions'[RequestOf[posts'[p].digest]], posts'[p])
  BY DEF PostedIsStored, RequestOfPost, Terminal
<1>4. CASE p \in 1..Len(posts) /\ posts'[p] = posts[p]
  <2> HIDE DEF Says
  <2> QED BY <1>1, <1>2, <1>4
<1>5. ASSUME NEW t \in Threads, Post(t), p = Len(posts) + 1
      PROVE  Says(transactions'[RequestOf[posts'[p].digest]], posts'[p])
  <2>1. /\ pc[t] = "posting" /\ RequestOf[posts'[p].digest] = Req(t)
        /\ posts'[p].digest = Ev(t).digest /\ posts'[p].issue = Ev(t).issue
        /\ posts'[p].receipt = job[t].receipt
    BY <1>5, PostStep DEF Req
  <2>2. /\ Req(t) \in Requests /\ transactions[Req(t)] # NoValue
        /\ transactions[Req(t)].state = "terminal"
        /\ transactions[Req(t)].digest = Ev(t).digest
        /\ transactions[Req(t)].issue = Ev(t).issue
        /\ transactions[Req(t)].receipt = job[t].receipt
    BY <2>1, PostingFacts DEF Terminal
  <2>3. Says(transactions[Req(t)], posts'[p])
    BY <2>1, <2>2
  <2> HIDE DEF Says
  <2> QED BY <1>2, <2>1, <2>2, <2>3
<1>6. ASSUME NEW t \in Threads, Post(t)
      PROVE  (p \in 1..Len(posts) /\ posts'[p] = posts[p]) \/ p = Len(posts) + 1
  <2>1. /\ Len(posts) \in Nat /\ Len(posts') = Len(posts) + 1
        /\ \A q \in 1..Len(posts) : posts'[q] = posts[q]
    BY <1>6, PostStep
  <2> QED BY <2>1
<1> QED BY <1>4, <1>5, <1>6, PostsSteps

(* The permission to send is given once and used once.                      *)
LEMMA PostPermissionStep ==
  ASSUME TypeOK, ThreadsHold, RowsWellFormed, PostPermission, PostedIsStored,
         [Next]_vars
  PROVE  PostPermission'
<1>1. ASSUME NEW r \in Requests, transactions[r] # NoValue,
             transactions[r].publication_state # "pending"
      PROVE  transactions'[r].publication_state # "pending"
  BY <1>1, RowsEvolve DEF Evolves
<1>2. ASSUME NEW p \in 1..Len(posts)
      PROVE  /\ RequestOfPost(p) \in Requests
             /\ transactions[RequestOfPost(p)] # NoValue
             /\ transactions[RequestOfPost(p)].publication_state # "pending"
  <2>1. posts[p] \in Comment
    BY DEF TypeOK
  <2> QED BY <2>1, StoreAssumption
          DEF PostedIsStored, RequestOfPost, Terminal, Comment, PostPermission
<1>3. \A p \in 1..Len(posts') :
        transactions'[RequestOf[posts'[p].digest]].publication_state # "pending"
  <2>1. CASE UNCHANGED posts
    BY <1>1, <1>2, <2>1 DEF RequestOfPost
  <2>2. ASSUME NEW t \in Threads, Post(t), NEW p \in 1..Len(posts')
        PROVE  transactions'[RequestOf[posts'[p].digest]].publication_state # "pending"
    <3>1. /\ Len(posts) \in Nat /\ Len(posts') = Len(posts) + 1
          /\ \A q \in 1..Len(posts) : posts'[q] = posts[q]
          /\ RequestOf[posts'[Len(posts) + 1].digest] = Req(t)
          /\ pc[t] = "posting"
      BY <2>2, PostStep DEF Req
    <3>2. CASE p \in 1..Len(posts)
      BY <1>1, <1>2, <3>1, <3>2 DEF RequestOfPost
    <3>3. CASE p = Len(posts) + 1
      BY <1>1, <3>1, <3>3, PostingFacts DEF Terminal
    <3> QED BY <3>1, <3>2, <3>3
  <2> QED BY <2>1, <2>2, PostsSteps
<1>4. ASSUME NEW u \in Threads, pc'[u] = "posting"
      PROVE  \/ pc[u] = "posting" /\ job'[u] = job[u]
             \/ ClaimPost(u)
  <2>1. ASSUME NEW e \in Event, Receive(u, e) PROVE pc'[u] = "claiming"
    BY <2>1, ReceiveStep DEF Moved
  <2>2. ASSUME \/ Execute(u) \/ RejectLate(u) \/ TakeOver(u) \/ ReplayTerminal(u)
               \/ Decline(u) \/ Validate(u) \/ Complete(u)
               \/ ClaimReconcile(u) \/ Skip(u) \/ Post(u) \/ Answer(u)
               \/ Reconcile(u) \/ Close(u) \/ Record(u) \/ Fail(u)
        PROVE pc'[u] # "posting"
    BY <2>2, InsertStep, TakeOverStep, ReplayStep, ValidateStep, CompleteStep,
       ClaimReconcileStep, PostStep, AnswerStep, ReconcileStep, CloseStep, FinishMoves
       DEF Moved, Decline, Skip, Record, Fail
  <2> QED BY <1>4, <2>1, <2>2, ThreadMoves DEF Step
<1>5. ASSUME NEW u \in Threads, ClaimPost(u)
      PROVE  /\ Req(u) \in Requests /\ Req(u)' = Req(u)
             /\ transactions[Req(u)].publication_state = "pending"
             /\ transactions'[Req(u)].publication_state # "pending"
             /\ UNCHANGED posts
  <2>1. Req(u)' = Req(u) /\ UNCHANGED posts
    BY <1>5, ClaimPostStep DEF Req, Ev, ClaimPost, githubVars
  <2>2. Req(u) \in Requests /\ RowOf(Ev(u)) = transactions[Req(u)]
    BY <1>5, ClaimPostRow
  <2>3. transactions'[Req(u)].publication_state = "sending"
    BY <1>5, ClaimPostRow DEF Row
  <2> QED BY <1>5, <2>1, <2>2, <2>3, ClaimPostStep
<1>6. ASSUME NEW u \in Threads, pc[u] = "posting"
      PROVE  /\ Req(u) \in Requests /\ transactions[Req(u)] # NoValue
             /\ transactions[Req(u)].publication_state # "pending"
             /\ \A p \in 1..Len(posts) : RequestOfPost(p) # Req(u)
             /\ job'[u] = job[u] => Req(u)' = Req(u)
  BY <1>6, PostingFacts DEF Terminal, Req, Ev
<1>7. ASSUME NEW u \in Threads, pc'[u] = "posting"
      PROVE  /\ Req(u)' = Req(u) /\ Req(u) \in Requests
             /\ transactions'[Req(u)].publication_state # "pending"
  BY <1>1, <1>4, <1>5, <1>6, <1>7
<1>8. ASSUME NEW u \in Threads, pc'[u] = "posting", NEW p \in 1..Len(posts')
      PROVE  RequestOf[posts'[p].digest] # Req(u)
  <2>1. CASE UNCHANGED posts /\ pc[u] = "posting"
    BY <1>6, <1>8, <2>1 DEF RequestOfPost
  <2>2. CASE ClaimPost(u)
    BY <1>2, <1>5, <1>8, <2>2 DEF RequestOfPost
  <2>3. ASSUME NEW t \in Threads, Post(t), pc[u] = "posting"
        PROVE  RequestOf[posts'[p].digest] # Req(u)
    <3>1. /\ Len(posts) \in Nat /\ Len(posts') = Len(posts) + 1
          /\ \A q \in 1..Len(posts) : posts'[q] = posts[q]
          /\ RequestOf[posts'[Len(posts) + 1].digest] = Req(t)
          /\ pc[t] = "posting" /\ pc'[t] = "posted"
      BY <2>3, PostStep DEF Req, Moved
    <3>2. Req(t) # Req(u)
      BY <1>8, <2>3, <3>1 DEF PostPermission
    <3>3. CASE p \in 1..Len(posts)
      BY <1>6, <2>3, <3>1, <3>3 DEF RequestOfPost
    <3> QED BY <3>1, <3>2, <3>3
  <2> QED BY <1>4, <1>8, <2>1, <2>2, <2>3, PostsSteps
<1>9. ASSUME NEW u \in Threads, NEW v \in Threads, pc'[u] = "posting", pc'[v] = "posting",
             Req(u) = Req(v)
      PROVE  u = v
  <2>1. CASE pc[u] = "posting" /\ pc[v] = "posting"
    BY <1>9, <2>1 DEF PostPermission
  <2>2. CASE ClaimPost(u) /\ ClaimPost(v)
    BY <1>9, <2>2, ClaimPostStep DEF Moved, OthersKept
  <2>3. CASE pc[u] = "posting" /\ ClaimPost(v)
    BY <1>5, <1>6, <1>9, <2>3
  <2>4. CASE ClaimPost(u) /\ pc[v] = "posting"
    BY <1>5, <1>6, <1>9, <2>4
  <2> QED BY <1>4, <1>9, <2>1, <2>2, <2>3, <2>4
<1>10. ASSUME NEW u \in Threads, pc'[u] = "posting"
       PROVE  RowOf(Ev(u))'.publication_state # "pending"
  <2>1. RowOf(Ev(u))' = transactions'[Req(u)']
    BY DEF RowOf, Req, Ev
  <2> QED BY <1>7, <1>10, <2>1
<1>11. ASSUME NEW u \in Threads, NEW v \in Threads, pc'[u] = "posting",
              pc'[v] = "posting", Req(v)' = Req(u)'
       PROVE  v = u
  BY <1>7, <1>9, <1>11
<1>12. ASSUME NEW u \in Threads, pc'[u] = "posting", NEW p \in 1..Len(posts')
       PROVE  RequestOfPost(p)' # Req(u)'
  BY <1>7, <1>8, <1>12 DEF RequestOfPost
<1> QED BY <1>3, <1>10, <1>11, <1>12 DEF PostPermission, RequestOfPost

-----------------------------------------------------------------------------
(* What is recorded is published.                                           *)

Sent(r) == Terminal(r) /\ transactions[r].publication_state = "sent"

(* A recorded request stays as it is.                                       *)
LEMMA SentStays ==
  ASSUME TypeOK, ThreadsHold, RowsWellFormed, [Next]_vars, NEW r \in Requests, Sent(r)
  PROVE  transactions'[r] = transactions[r]
BY RowsEvolve DEF Evolves, Sent, Terminal

(* Only the recording of a comment marks a request.                         *)
LEMMA BecomesSent ==
  ASSUME TypeOK, ThreadsHold, RowsWellFormed, [Next]_vars, NEW r \in Requests,
         ~Sent(r), Sent(r)'
  PROVE  \E t \in Threads :
           /\ Record(t) /\ Mark(Ev(t), job[t].comment) /\ r = Req(t)
           /\ transactions'[r].comment_id = job[t].comment
<1>1. PICK t \in Threads : Storing(t) /\ transactions'[r] # transactions[r]
  BY StoringSteps DEF Sent, Terminal
<1>2. CASE Execute(t) \/ RejectLate(t)
  BY <1>1, <1>2, InsertRow DEF RowsKept, Sent, Terminal
<1>3. CASE TakeOver(t)
  <2>1. r = Req(t)
    BY <1>1, <1>3, TakeOverRow DEF RowsKept
  <2>2. transactions'[r].state = "recovering"
    BY <1>3, <2>1, TakeOverRow DEF Row
  <2> QED BY <2>2 DEF Sent, Terminal
<1>4. CASE Complete(t)
  <2>1. r = Req(t)
    BY <1>1, <1>4, CompleteRow DEF RowsKept
  <2>2. transactions'[r].publication_state = "pending"
    BY <1>4, <2>1, CompleteRow DEF Row
  <2> QED BY <2>2 DEF Sent
<1>5. CASE ClaimPost(t)
  <2>1. r = Req(t)
    BY <1>1, <1>5, ClaimPostRow DEF RowsKept
  <2>2. transactions'[r].publication_state = "sending"
    BY <1>5, <2>1, ClaimPostRow DEF Row
  <2> QED BY <2>2 DEF Sent
<1>6. CASE Record(t) /\ Mark(Ev(t), job[t].comment)
  <2>1. r = Req(t)
    BY <1>1, <1>6, MarkRow DEF RowsKept
  <2>2. transactions'[r].comment_id = job[t].comment
    BY <1>6, <2>1, MarkRow DEF Row
  <2> QED BY <1>6, <2>1, <2>2
<1> QED BY <1>1, <1>2, <1>3, <1>4, <1>5, <1>6 DEF Storing

(* Recording leaves the request recorded.                                   *)
LEMMA RecordMarks ==
  ASSUME TypeOK, ThreadsHold, NEW t \in Threads, Record(t), NEW r, r = Req(t)
  PROVE  r \in Requests /\ Sent(r)'
<1>1. pc[t] = "recording" /\ RowOf(Ev(t)) = transactions[r]
  BY DEF Record, RowOf, Req
<1>2. /\ r \in Requests /\ ThreadHolds(t)
      /\ pc[t] \in Held /\ pc[t] \in Publishing
  BY <1>1, JobFacts DEF ThreadsHold, Held, PCs, Publishing
<1>3. transactions[r] # NoValue /\ transactions[r].state = "terminal"
  BY <1>1, <1>2 DEF ThreadHolds
<1>4. CASE Mark(Ev(t), job[t].comment)
  <2>1. transactions'[r] \in Row
    BY <1>4, MarkRow
  <2>2. /\ transactions'[r].publication_state = "sent"
        /\ transactions'[r].state = transactions[r].state
    BY <1>4, MarkRow DEF Row
  <2> QED BY <1>2, <1>3, <2>1, <2>2, NoRowAssumption DEF Sent, Terminal
<1>5. CASE UNCHANGED storeVars /\ RowOf(Ev(t)).publication_state = "sent"
  BY <1>1, <1>2, <1>3, <1>5 DEF Sent, Terminal, storeVars
<1> QED BY <1>4, <1>5, <1>2, RecordStep

(* A request recorded as sent has its comment and its closed Issue.         *)
LEMMA SentIsPublishedStep ==
  ASSUME TypeOK, ThreadsHold, RowsWellFormed, SentIsPublished, [Next]_vars
  PROVE  SentIsPublished'
<1>1. ASSUME NEW r \in Requests, r \in answered'
      PROVE  Sent(r)'
  <2>1. CASE Sent(r)
    BY <2>1, SentStays DEF Sent, Terminal
  <2>2. CASE r \notin answered
    <3>1. PICK t \in Threads : Skip(t) \/ Record(t)
      BY <1>1, <2>2 DEF Next, Step, vars, historyVars, Receive, Execute, RejectLate,
         TakeOver, ReplayTerminal, Decline, Validate, Complete, ClaimPost,
         ClaimReconcile, Post, Answer, Reconcile, Close, Fail, Land, Tick
    <3>2. CASE Record(t)
      <4>1. r = Req(t)
        BY <1>1, <2>2, <3>2, RecordStep
      <4> QED BY <3>2, <4>1, RecordMarks
    <3>3. CASE Skip(t)
      <4>1. r = Req(t) /\ Publishes(t, "sent") /\ UNCHANGED transactions
        BY <1>1, <2>2, <3>3 DEF Skip, Answer200, storeVars
      <4>2. RowOf(Ev(t)) = transactions[r]
        BY <4>1 DEF RowOf, Req
      <4>3. transactions[r].publication_state = "sent"
        BY <4>1, <4>2 DEF Publishes, PublicationOutcome
      <4> QED BY <4>1, <4>2, <4>3 DEF Publishes, Publishable, Sent, Terminal
    <3> QED BY <3>1, <3>2, <3>3
  <2> QED BY <2>1, <2>2 DEF SentIsPublished, Sent
<1>2. ASSUME NEW r \in Requests, Sent(r)'
      PROVE  /\ transactions'[r].comment_id \in landed'
             /\ RequestOf[posts'[transactions'[r].comment_id].digest] = r
             /\ transactions'[r].issue \in closed'
  <2>1. CASE Sent(r)
    <3>1. /\ transactions[r].comment_id \in landed
          /\ RequestOf[posts[transactions[r].comment_id].digest] = r
          /\ transactions[r].issue \in closed
          /\ transactions[r].comment_id \in 1..Len(posts)
      BY <2>1 DEF SentIsPublished, Sent, RequestOfPost, TypeOK
    <3> QED BY <2>1, <3>1, SentStays, GithubGrows
  <2>2. CASE ~Sent(r)
    <3>1. PICK t \in Threads :
            /\ Record(t) /\ Mark(Ev(t), job[t].comment) /\ r = Req(t)
            /\ transactions'[r].comment_id = job[t].comment
      BY <1>2, <2>2, BecomesSent
    <3>2. /\ pc[t] = "recording" /\ ThreadHolds(t) /\ pc[t] \in Held
          /\ RowOf(Ev(t)) = transactions[r]
      BY <3>1 DEF Record, ThreadsHold, Held, PCs, RowOf, Req
    <3>3. /\ transactions'[r].issue = transactions[r].issue
      BY <3>1, MarkRow DEF Row
    <3>4. /\ job[t].comment \in landed /\ job[t].comment \in 1..Len(posts)
          /\ RequestOf[posts[job[t].comment].digest] = r
          /\ transactions[r].issue \in closed
      BY <3>1, <3>2 DEF ThreadHolds, RequestOfPost
    <3> QED BY <3>1, <3>3, <3>4, GithubGrows
  <2> QED BY <2>1, <2>2
<1> QED BY <1>1, <1>2 DEF SentIsPublished, Sent, Terminal, RequestOfPost

-----------------------------------------------------------------------------
(* Leases.                                                                  *)

(* A new executor starts from its own claim or goes on from its own         *)
(* validation.                                                              *)
LEMMA ExecutorMoves ==
  ASSUME TypeOK, ThreadsHold, RowsWellFormed, [Next]_vars, NEW u \in Threads,
         Executor(u)'
  PROVE  /\ job'[u].event = job[u].event /\ job'[u].now = job[u].now
         /\ \/ Executor(u) /\ UNCHANGED transactions /\ Validate(u)
            \/ Executor(u) /\ pc'[u] = pc[u]
            \/ Execute(u) \/ RejectLate(u)
<1>1. CASE pc'[u] = pc[u] /\ job'[u] = job[u]
  BY <1>1 DEF Executor
<1>2. CASE Execute(u) \/ RejectLate(u)
  BY <1>2, InsertStep
<1>3. CASE Validate(u)
  BY <1>3, ValidateStep DEF Executor, Validate, storeVars
<1>4. ASSUME NEW e \in Event, Receive(u, e)
      PROVE  FALSE
  BY <1>4, ReceiveStep DEF Moved, Executor
<1>5. CASE TakeOver(u)
  BY <1>5, TakeOverStep DEF Moved, Executor
<1>6. ASSUME \/ ReplayTerminal(u) \/ Decline(u) \/ Complete(u) \/ ClaimPost(u)
             \/ ClaimReconcile(u) \/ Skip(u) \/ Post(u) \/ Answer(u)
             \/ Reconcile(u) \/ Close(u) \/ Record(u) \/ Fail(u)
      PROVE  pc'[u] \notin {"validating", "completing"}
  BY <1>6, ReplayStep, CompleteStep, ClaimPostStep, ClaimReconcileStep, PostStep,
     AnswerStep, ReconcileStep, CloseStep, FinishMoves
     DEF Moved, Decline, Skip, Record, Fail
<1>7. pc'[u] \in {"validating", "completing"}
  BY DEF Executor
<1> QED BY <1>1, <1>2, <1>3, <1>4, <1>5, <1>6, <1>7, ThreadMoves DEF Step

(* Clock readings are from the past.                                        *)
LEMMA ReadingStep ==
  ASSUME TypeOK, ThreadsHold, RowsWellFormed, [Next]_vars, NEW u \in Threads,
         pc[u] # "idle" => job[u].now <= clock, pc'[u] # "idle"
  PROVE  job'[u].now <= clock'
<1>1. clock <= clock' /\ clock \in Nat /\ clock' \in Nat
  BY GithubGrows
<1>2. pc[u] # "idle" => job[u].now \in Nat
  BY JobFacts DEF Time
<1>3. \/ pc[u] # "idle" /\ job'[u].now = job[u].now
      \/ job'[u].now = clock
  <2>1. ASSUME NEW e \in Event, Receive(u, e) PROVE job'[u].now = clock
    BY <2>1, ReceiveStep
  <2>2. ASSUME ReplayTerminal(u) \/ Complete(u) PROVE job'[u].now = clock
    BY <2>2, ReplayStep, CompleteStep
  <2>3. ASSUME \/ Execute(u) \/ RejectLate(u) \/ TakeOver(u) \/ Validate(u)
               \/ ClaimPost(u) \/ ClaimReconcile(u) \/ Post(u) \/ Answer(u)
               \/ Reconcile(u) \/ Close(u)
        PROVE  pc[u] # "idle" /\ job'[u].now = job[u].now
    BY <2>3, InsertStep, TakeOverStep, ValidateStep, ClaimPostStep,
       ClaimReconcileStep, PostStep, AnswerStep, ReconcileStep, CloseStep
  <2>4. ASSUME Decline(u) \/ Skip(u) \/ Record(u) \/ Fail(u)
        PROVE  pc'[u] = "idle"
    BY <2>4, FinishMoves DEF Moved, Decline, Skip, Record, Fail
  <2> QED BY <2>1, <2>2, <2>3, <2>4, ThreadMoves DEF Step
<1> QED BY <1>1, <1>2, <1>3

(* An executor holds its lease until it has run out, whatever the others do.*)
LEMMA LeaseStep ==
  ASSUME TypeOK, ThreadsHold, RowsWellFormed, LeasesHold, [Next]_vars,
         NEW u \in Threads, Executor(u), pc'[u] # "publishing", Holding(u)
  PROVE  \/ transactions'[Req(u)] = transactions[Req(u)]
         \/ LeaseUntil(job[u].now, ExecutionLease) <= clock
<1>1. /\ pc[u] \in Held /\ ThreadHolds(u) /\ Req(u) \in Requests
      /\ RowOf(Ev(u)) = transactions[Req(u)]
  BY JobFacts DEF Executor, Held, PCs, ThreadsHold, RowOf, Req
<1>2. /\ transactions[Req(u)] # NoValue /\ transactions[Req(u)].state = "executing"
      /\ transactions[Req(u)].lease_until = LeaseUntil(job[u].now, ExecutionLease)
  BY <1>1 DEF ThreadHolds, Holding
<1>3. CASE transactions'[Req(u)] # transactions[Req(u)]
  <2>1. PICK t \in Threads : Storing(t)
    BY <1>3, StoringSteps
  <2>2. CASE Execute(t) \/ RejectLate(t)
    BY <1>1, <1>2, <1>3, <2>2, InsertRow DEF RowsKept
  <2>3. CASE TakeOver(t)
    <3>1. Req(t) = Req(u) /\ RowOf(Ev(t)) = transactions[Req(t)]
      BY <1>1, <1>3, <2>3, TakeOverRow DEF RowsKept
    <3>2. /\ RowOf(Ev(t)).lease_until <= job[t].now /\ pc[t] = "claiming"
          /\ job[t].now \in Nat /\ clock \in Nat
          /\ RowOf(Ev(t)).lease_until \in Nat
      BY <1>1, <1>2, <2>3, <3>1, TakeOverStep, JobFacts, RowFacts DEF TypeOK, Time
    <3>3. job[t].now <= clock
      BY <3>2 DEF LeasesHold
    <3> QED BY <1>2, <3>1, <3>2, <3>3
  <2>4. CASE Complete(t)
    <3>1. Req(t) = Req(u) /\ RowOf(Ev(t)) = transactions[Req(t)]
      BY <1>1, <1>3, <2>4, CompleteRow DEF RowsKept
    <3>2. pc[t] = "completing" /\ pc'[t] = "publishing"
      BY <2>4, CompleteStep DEF Moved
    <3>3. job[t].receipt # "ambiguous-recovery"
      BY <1>2, <3>1, <3>2 DEF LeasesHold
    <3>4. Executor(t)
      BY <3>2, <3>3 DEF Executor
    <3>5. t = u
      BY <3>1, <3>4 DEF LeasesHold
    <3> QED BY <3>2, <3>5
  <2>5. CASE ClaimPost(t)
    <3>1. Req(t) = Req(u) /\ RowOf(Ev(t)) = transactions[Req(t)]
      BY <1>1, <1>3, <2>5, ClaimPostRow DEF RowsKept
    <3> QED BY <1>2, <2>5, <3>1 DEF ClaimPost, Publishes, Publishable
  <2>6. CASE Record(t) /\ Mark(Ev(t), job[t].comment)
    <3>1. Req(t) = Req(u) /\ RowOf(Ev(t)) = transactions[Req(t)]
      BY <1>1, <1>3, <2>6, MarkRow DEF RowsKept
    <3>2. pc[t] \in Publishing /\ ThreadHolds(t)
      BY <2>6 DEF Record, Publishing, Held, PCs, ThreadsHold
    <3> QED BY <1>2, <3>1, <3>2 DEF ThreadHolds
  <2> QED BY <2>1, <2>2, <2>3, <2>4, <2>5, <2>6 DEF Storing
<1> QED BY <1>3

(* Every step leaves the leases with their holders.                         *)
LEMMA LeasesHoldStep ==
  ASSUME TypeOK, ThreadsHold, RowsWellFormed, LeasesHold, [Next]_vars
  PROVE  LeasesHold'
<1>1. clock <= clock' /\ clock \in Nat /\ clock' \in Nat
  BY GithubGrows
<1>2. ASSUME NEW u \in Threads, pc'[u] # "idle"
      PROVE  job'[u].now <= clock'
  BY <1>2, ReadingStep DEF LeasesHold
<1>3. ASSUME NEW u \in Threads, Executor(u)
      PROVE  /\ pc[u] # "idle" /\ Req(u) \in Requests /\ transactions[Req(u)] # NoValue
             /\ LeaseUntil(job[u].now, ExecutionLease) \in Nat
  <2>1. pc[u] \in Held /\ ThreadHolds(u) /\ pc[u] # "idle"
    BY <1>3 DEF Executor, Held, PCs, ThreadsHold
  <2>2. LeaseUntil(job[u].now, ExecutionLease) \in Time
    BY <2>1, JobFacts, LeaseFacts, StoreAssumption
  <2> QED BY <2>1, <2>2, JobFacts DEF ThreadHolds, RowOf, Req, Time
<1>4. ASSUME NEW u \in Threads, Executor(u)'
      PROVE  Holding(u)' \/ LeaseUntil(job'[u].now, ExecutionLease) <= clock'
  <2>1. /\ job'[u].event = job[u].event /\ job'[u].now = job[u].now
        /\ \/ Executor(u) /\ UNCHANGED transactions /\ Validate(u)
           \/ Executor(u) /\ pc'[u] = pc[u]
           \/ Execute(u) \/ RejectLate(u)
    BY <1>4, ExecutorMoves
  <2>2. Req(u)' = Req(u) /\ RowOf(Ev(u))' = transactions'[Req(u)]
        /\ RowOf(Ev(u)) = transactions[Req(u)] /\ Owner(u)' = Owner(u)
    BY <2>1 DEF Req, Ev, RowOf, Owner
  <2>3. CASE Execute(u) \/ RejectLate(u)
    BY <2>1, <2>2, <2>3, InsertRow DEF Holding
  <2>4. CASE Executor(u)
    <3>1. CASE LeaseUntil(job[u].now, ExecutionLease) <= clock
      BY <1>1, <1>3, <2>1, <2>4, <3>1
    <3>2. CASE Holding(u)
      <4>1. pc'[u] # "publishing"
        BY <1>4 DEF Executor
      <4>2. \/ transactions'[Req(u)] = transactions[Req(u)]
            \/ LeaseUntil(job[u].now, ExecutionLease) <= clock
        BY <2>4, <3>2, <4>1, LeaseStep
      <4> QED BY <2>1, <2>2, <3>1, <3>2, <4>2 DEF Holding
    <3> QED BY <2>4, <3>1, <3>2 DEF LeasesHold
  <2> QED BY <2>1, <2>3, <2>4
<1>5. ASSUME NEW u \in Threads, NEW v \in Threads, Executor(u)', Executor(v)',
             Req(u)' = Req(v)'
      PROVE  u = v
  <2>1. Req(u)' = Req(u) /\ Req(v)' = Req(v)
    BY <1>5, ExecutorMoves DEF Req, Ev
  <2>2. CASE Executor(u) /\ Executor(v)
    BY <1>5, <2>1, <2>2 DEF LeasesHold
  <2>3. CASE (Execute(u) \/ RejectLate(u)) /\ Executor(v)
    <3>1. transactions[Req(u)] = NoValue /\ transactions[Req(v)] # NoValue
      BY <1>3, <2>3, InsertStep
    <3> QED BY <1>5, <2>1, <3>1
  <2>4. CASE Executor(u) /\ (Execute(v) \/ RejectLate(v))
    <3>1. transactions[Req(v)] = NoValue /\ transactions[Req(u)] # NoValue
      BY <1>3, <2>4, InsertStep
    <3> QED BY <1>5, <2>1, <3>1
  <2>5. CASE (Execute(u) \/ RejectLate(u)) /\ (Execute(v) \/ RejectLate(v)) /\ u # v
    <3>1. pc[v] = "claiming" /\ pc'[v] = pc[v]
      BY <2>5, InsertStep DEF Moved, OthersKept
    <3> QED BY <1>5, <3>1 DEF Executor
  <2> QED BY <1>5, <2>2, <2>3, <2>4, <2>5, ExecutorMoves
<1>6. ASSUME NEW u \in Threads, pc'[u] = "completing",
             job'[u].receipt = "ambiguous-recovery"
      PROVE  RowOf(Ev(u))'.state # "executing"
  <2>1. CASE pc'[u] = pc[u] /\ job'[u] = job[u]
    <3>1. /\ RowOf(Ev(u))' = transactions'[Req(u)] /\ RowOf(Ev(u)) = transactions[Req(u)]
          /\ Req(u) \in Requests
      BY <1>6, <2>1, JobFacts DEF RowOf, Ev, Req
    <3>2. RowOf(Ev(u)) # NoValue /\ RowOf(Ev(u)).state # "executing"
      BY <1>6, <2>1 DEF LeasesHold, ThreadsHold, ThreadHolds, Held, PCs
    <3> QED BY <3>1, <3>2, RowsEvolve DEF Evolves
  <2>2. CASE TakeOver(u)
    <3>1. RowOf(Ev(u))' = transactions'[Req(u)]
      BY <2>2, TakeOverStep DEF RowOf, Ev, Req
    <3> QED BY <2>2, <3>1, TakeOverRow DEF Row
  <2>3. ~(Execute(u) \/ RejectLate(u)) /\ ~Validate(u)
    BY <1>6, InsertStep, ValidateStep DEF Moved, Verdicts
  <2>4. ASSUME NEW e \in Event, Receive(u, e)
        PROVE  FALSE
    BY <1>6, <2>4, ReceiveStep DEF Moved
  <2>5. ~(\/ ReplayTerminal(u) \/ Decline(u) \/ Complete(u) \/ ClaimPost(u)
          \/ ClaimReconcile(u) \/ Skip(u) \/ Post(u) \/ Answer(u)
          \/ Reconcile(u) \/ Close(u) \/ Record(u) \/ Fail(u))
    BY <1>6, ReplayStep, CompleteStep, ClaimPostStep, ClaimReconcileStep, PostStep,
       AnswerStep, ReconcileStep, CloseStep, FinishMoves
       DEF Moved, Decline, Skip, Record, Fail
  <2> QED BY <2>1, <2>2, <2>3, <2>4, <2>5, ThreadMoves DEF Step
<1> QED BY <1>2, <1>4, <1>5, <1>6 DEF LeasesHold

-----------------------------------------------------------------------------
(* The theorems.                                                            *)

(* The inductive invariant of the service holds in every reachable state.   *)
THEOREM LedgerInvariant == Spec => []LedgerInv
<1>1. Init => LedgerInv
  <2> SUFFICES ASSUME Init PROVE LedgerInv
    OBVIOUS
  <2>1. TypeOK
    BY TypeInit
  <2>2. posts = << >> /\ \A t \in Threads : pc[t] = "idle"
    BY DEF Init
  <2>3. ThreadsHold /\ LeasesHold
    BY <2>2 DEF ThreadsHold, ThreadHolds, LeasesHold, Held, Publishing, Executor
  <2>4. /\ \A r \in Requests : transactions[r] = NoValue /\ validations[r] = 0
        /\ \A i \in Issues : bindings[i] = NoValue
        /\ \A d \in Deliveries : deliveries[d] = NoValue
        /\ answered = {}
    BY DEF Init, StoreInit
  <2>5. /\ StoreIsConsistent /\ RowsWellFormed /\ VerdictsEarned /\ ValidatedOnce
        /\ SentIsPublished
    BY <2>2, <2>4 DEF StoreIsConsistent, RowsWellFormed, VerdictsEarned,
       ValidatedOnce, SentIsPublished, Terminal
  <2>6. PostPermission /\ OneTerminalPost /\ PostedIsStored
    BY <2>2 DEF PostPermission, OneTerminalPost, PostedIsStored
  <2> QED BY <2>1, <2>3, <2>5, <2>6 DEF LedgerInv
<1>2. LedgerInv /\ [Next]_vars => LedgerInv'
  BY TypeStep, ConsistencyStep, RowsWellFormedStep, ThreadsHoldStep,
     VerdictsEarnedStep, ValidatedOnceStep, PostPermissionStep, OneTerminalPostStep,
     PostedIsStoredStep, SentIsPublishedStep, LeasesHoldStep DEF LedgerInv
<1> QED BY <1>1, <1>2, PTL DEF Spec

(* Every variable of the service keeps its type.                            *)
THEOREM TypeCorrect == Spec => []TypeOK
<1>1. LedgerInv => TypeOK
  BY DEF LedgerInv
<1> QED BY <1>1, LedgerInvariant, PTL

(* The validator runs at most once for a request, and a stored verdict is   *)
(* that run's.                                                              *)
THEOREM OneValidation == Spec => []ValidatedOnce
<1>1. LedgerInv => ValidatedOnce
  BY DEF LedgerInv
<1> QED BY <1>1, LedgerInvariant, PTL

(* At most one terminal comment is ever sent for a request.                 *)
THEOREM OnePost == Spec => []OneTerminalPost
<1>1. LedgerInv => OneTerminalPost
  BY DEF LedgerInv
<1> QED BY <1>1, LedgerInvariant, PTL

(* What is sent says what the durable row says, for ever.                   *)
THEOREM PostsAreStored == Spec => []PostedIsStored
<1>1. LedgerInv => PostedIsStored
  BY DEF LedgerInv
<1> QED BY <1>1, LedgerInvariant, PTL

(* A request recorded as sent has its comment on GitHub and its Issue       *)
(* closed, and a 200 answer means so.                                       *)
THEOREM SentPublication == Spec => []SentIsPublished
<1>1. LedgerInv => SentIsPublished
  BY DEF LedgerInv
<1> QED BY <1>1, LedgerInvariant, PTL

(* The three tables are never torn apart.                                   *)
THEOREM StoreConsistency == Spec => []StoreIsConsistent
<1>1. LedgerInv => StoreIsConsistent
  BY DEF LedgerInv
<1> QED BY <1>1, LedgerInvariant, PTL

(* Until its lease runs out, an executor can complete its request.          *)
THEOREM LeaseHolding == Spec => []LiveLeaseHolds
<1>1. LedgerInv => LiveLeaseHolds
  <2> SUFFICES ASSUME LedgerInv, NEW t \in Threads, Executor(t),
                      LeaseUntil(job[t].now, ExecutionLease) > clock
               PROVE  CanComplete(Ev(t), Owner(t)) /\ RowOf(Ev(t)).state = "executing"
    BY DEF LiveLeaseHolds
  <2>1. pc[t] \in Held /\ ThreadHolds(t) /\ pc[t] # "idle"
    BY DEF Executor, Held, PCs, LedgerInv, ThreadsHold
  <2>2. LeaseUntil(job[t].now, ExecutionLease) \in Nat /\ clock \in Nat
    <3>1. LeaseUntil(job[t].now, ExecutionLease) \in Time
      BY <2>1, JobFacts, LeaseFacts, StoreAssumption DEF LedgerInv
    <3> QED BY <3>1 DEF LedgerInv, TypeOK, Time
  <2>3. ~(LeaseUntil(job[t].now, ExecutionLease) <= clock)
    BY <2>2
  <2>4. Holding(t)
    BY <2>3 DEF LedgerInv, LeasesHold
  <2> QED BY <2>1, <2>4 DEF Holding, CanComplete, ThreadHolds
<1> QED BY <1>1, LedgerInvariant, PTL

-----------------------------------------------------------------------------
(* The service implements its promise.                                      *)

(* A step that keeps what the row of a request says of it is none of the    *)
(* promise's business.                                                      *)
LEMMA RowKeepsPromise ==
  ASSUME NEW q \in Requests, RowsKept(q),
         transactions[q] # NoValue, transactions'[q] # NoValue,
         transactions'[q].digest = transactions[q].digest,
         transactions'[q].issue = transactions[q].issue
  PROVE  /\ BoundTo' = BoundTo
         /\ transactions'[q].receipt = transactions[q].receipt => Decision' = Decision
         /\ transactions'[q].comment_id = transactions[q].comment_id => Recorded' = Recorded
<1>1. BoundTo' = BoundTo
  BY DEF BoundTo, RowsKept
<1>2. ASSUME transactions'[q].receipt = transactions[q].receipt
      PROVE  Decision' = Decision
  BY <1>2 DEF Decision, RowsKept
<1>3. ASSUME transactions'[q].comment_id = transactions[q].comment_id
      PROVE  Recorded' = Recorded
  BY <1>3 DEF Recorded, RowsKept
<1> QED BY <1>1, <1>2, <1>3

(* The comments on GitHub change when one lands, and not when one is sent.  *)
LEMMA AnnouncedStays ==
  ASSUME TypeOK, ThreadsHold, RowsWellFormed, [Next]_vars, landed' = landed
  PROVE  Announced' = Announced
<1>1. \A p \in landed : posts'[p] = posts[p]
  BY GithubGrows DEF TypeOK
<1>2. \A r : {q \in landed : RequestOfPost(q)' = r} = {q \in landed : RequestOfPost(q) = r}
  BY <1>1 DEF RequestOfPost
<1>3. ASSUME NEW r \in Requests
      PROVE  {[id |-> p, issue |-> posts'[p].issue, receipt |-> posts'[p].receipt] :
                p \in {q \in landed' : RequestOf[posts'[q].digest] = r}}
             = {[id |-> p, issue |-> posts[p].issue, receipt |-> posts[p].receipt] :
                  p \in {q \in landed : RequestOf[posts[q].digest] = r}}
  BY <1>1
<1> QED BY <1>3 DEF Announced, RequestOfPost

(* An insertion binds the request.                                          *)
LEMMA InsertBinds ==
  ASSUME LedgerInv, [Next]_vars, NEW t \in Threads, Execute(t) \/ RejectLate(t)
  PROVE  Promise!Bind(Ev(t).digest, Ev(t).issue)
<1> USE DEF LedgerInv
<1>1. /\ Req(t) \in Requests /\ transactions[Req(t)] = NoValue
      /\ bindings[Ev(t).issue] = NoValue
      /\ Req(t) = RequestOf[Ev(t).digest]
  BY InsertStep, InsertRow DEF Req
<1>2. /\ transactions'[Req(t)] # NoValue /\ RowsKept(Req(t))
      /\ transactions'[Req(t)].digest = Ev(t).digest
      /\ transactions'[Req(t)].issue = Ev(t).issue
      /\ transactions'[Req(t)].receipt = NoValue
      /\ transactions'[Req(t)].comment_id = 0
  BY InsertRow, NoRowAssumption
<1>3. BoundTo[Req(t)] = NoValue
  BY <1>1 DEF BoundTo
<1>4. ASSUME NEW q \in Requests, BoundTo[q] # NoValue
      PROVE  BoundTo[q].issue # Ev(t).issue
  <2>1. transactions[q] # NoValue /\ BoundTo[q].issue = transactions[q].issue
    BY <1>4 DEF BoundTo
  <2>2. bindings[transactions[q].issue] = transactions[q].digest
        /\ transactions[q].digest \in Digests
    BY <2>1, RowFacts DEF StoreIsConsistent, TypeOK
  <2> QED BY <1>1, <2>1, <2>2, StoreAssumption
<1>5. BoundTo' = [BoundTo EXCEPT ![Req(t)] =
                    [digest |-> Ev(t).digest, issue |-> Ev(t).issue]]
  BY <1>1, <1>2 DEF BoundTo, RowsKept
<1>6. Decision' = Decision
  BY <1>1, <1>2 DEF Decision, RowsKept
<1>7. Recorded' = Recorded
  BY <1>1, <1>2 DEF Recorded, RowsKept
<1>8. Announced' = Announced
  BY AnnouncedStays DEF Execute, RejectLate, githubVars
<1> QED BY <1>1, <1>3, <1>4, <1>5, <1>6, <1>7, <1>8 DEF Promise!Bind

(* A completion decides it.                                                 *)
LEMMA CompleteDecides ==
  ASSUME LedgerInv, [Next]_vars, NEW t \in Threads, Complete(t)
  PROVE  job[t].receipt \in Receipts /\ Promise!Decide(Req(t), job[t].receipt)
<1> USE DEF LedgerInv
<1>1. /\ Req(t) \in Requests /\ transactions[Req(t)] \in Row
      /\ transactions'[Req(t)] \in Row /\ RowsKept(Req(t))
      /\ RowOf(Ev(t)) = transactions[Req(t)]
  BY CompleteRow
<1>2. /\ job[t].receipt \in Receipts /\ transactions[Req(t)] # NoValue
      /\ transactions[Req(t)].state # "terminal"
  BY <1>1, CompleteStep
<1>3. transactions[Req(t)].receipt = NoValue /\ transactions[Req(t)].comment_id = 0
  BY <1>1, <1>2 DEF RowsWellFormed, Terminal
<1>4. /\ transactions'[Req(t)].receipt = job[t].receipt
      /\ transactions'[Req(t)].comment_id = 0
      /\ transactions'[Req(t)].digest = transactions[Req(t)].digest
      /\ transactions'[Req(t)].issue = transactions[Req(t)].issue
  BY CompleteRow DEF Row
<1>5. BoundTo' = BoundTo /\ Recorded' = Recorded
  BY <1>1, <1>2, <1>3, <1>4, RowKeepsPromise, NoRowAssumption
<1>6. Announced' = Announced
  BY AnnouncedStays DEF Complete, githubVars
<1>7. BoundTo[Req(t)] # NoValue
  <2>1. BoundTo[Req(t)] \in [digest: Digests, issue: Issues]
    BY <1>1, <1>2 DEF BoundTo, Row
  <2> QED BY <2>1, NoRowAssumption
<1>8. Decision[Req(t)] = NoValue
  BY <1>1, <1>2, <1>3 DEF Decision
<1>9. Decision' = [Decision EXCEPT ![Req(t)] = job[t].receipt]
  BY <1>1, <1>4, NoRowAssumption DEF Decision, RowsKept
<1> QED BY <1>2, <1>5, <1>6, <1>7, <1>8, <1>9 DEF Promise!Decide

(* A landing announces it.                                                  *)
LEMMA LandAnnounces ==
  ASSUME LedgerInv, NEW p \in 1..Len(posts), Land(p)
  PROVE  RequestOfPost(p) \in Requests /\ Promise!Announce(RequestOfPost(p))
<1> USE DEF LedgerInv
<1> DEFINE r == RequestOfPost(p)
           c == [id |-> p, issue |-> posts[p].issue, receipt |-> posts[p].receipt]
<1>1. posts[p] \in Comment /\ p \notin landed /\ landed' = landed \cup {p}
      /\ UNCHANGED <<transactions, posts>> /\ landed \subseteq 1..Len(posts)
  BY DEF TypeOK, Land, storeVars
<1>2. r \in Requests /\ posts[p].receipt \in Receipts
  BY <1>1, StoreAssumption DEF Comment, RequestOfPost
<1>3. /\ transactions[r] # NoValue /\ transactions[r].receipt = posts[p].receipt
      /\ transactions[r].issue = posts[p].issue
  BY DEF PostedIsStored, Terminal
<1>4. {q \in landed : RequestOfPost(q) = r} = {}
  BY <1>1 DEF OneTerminalPost
<1>5. {q \in landed' : RequestOfPost(q) = r} = {p}
  BY <1>1, <1>4
<1>6. \A s \in Requests \ {r} :
        {q \in landed' : RequestOfPost(q) = s} = {q \in landed : RequestOfPost(q) = s}
  BY <1>1
<1>7. RequestOfPost(p)' = r /\ \A q : RequestOfPost(q)' = RequestOfPost(q)
  BY <1>1 DEF RequestOfPost
<1> HIDE DEF r
<1>8. Announced[r] = {}
  BY <1>2, <1>4 DEF Announced
<1>9. Announced' = [s \in Requests |->
             {[id |-> q, issue |-> posts[q].issue, receipt |-> posts[q].receipt] :
                q \in {x \in landed' : RequestOfPost(x) = s}}]
  BY <1>1 DEF Announced, RequestOfPost
<1>10. Announced' = [Announced EXCEPT ![r] = {c}] /\ Announced'[r] = {c}
  <2>1. {[id |-> q, issue |-> posts[q].issue, receipt |-> posts[q].receipt] :
           q \in {x \in landed' : RequestOfPost(x) = r}} = {c}
    BY <1>5
  <2>2. Announced'[r] = {c}
    BY <1>2, <1>9, <2>1
  <2>3. ASSUME NEW s \in Requests, s # r
        PROVE  Announced'[s] = Announced[s]
    <3>1. {x \in landed' : RequestOfPost(x) = s} = {x \in landed : RequestOfPost(x) = s}
      BY <1>6, <2>3
    <3> QED BY <1>9, <3>1 DEF Announced
  <2>4. Announced = [s \in Requests |-> Announced[s]]
    BY DEF Announced
  <2>5. Announced' = [s \in Requests |-> Announced'[s]]
    BY <1>9
  <2> QED BY <1>2, <2>2, <2>3, <2>4, <2>5
<1>11. /\ BoundTo[r].issue = c.issue /\ Decision[r] = c.receipt /\ Decision[r] # NoValue
  BY <1>2, <1>3, NoReceiptAssumption DEF BoundTo, Decision
<1>12. BoundTo' = BoundTo /\ Decision' = Decision /\ Recorded' = Recorded
  BY <1>1 DEF BoundTo, Decision, Recorded
<1> HIDE DEF c
<1>13. Promise!Announce(r)
  BY <1>8, <1>10, <1>11, <1>12 DEF Promise!Announce
<1> QED BY <1>2, <1>13 DEF r

(* A recording records it.                                                  *)
LEMMA RecordRecords ==
  ASSUME LedgerInv, [Next]_vars, NEW t \in Threads, Record(t),
         Mark(Ev(t), job[t].comment), RowOf(Ev(t)).publication_state = "sending"
  PROVE  Req(t) \in Requests /\ Promise!RecordComment(Req(t))
<1> USE DEF LedgerInv
<1>1. /\ Req(t) \in Requests /\ transactions[Req(t)] \in Row
      /\ transactions'[Req(t)] \in Row /\ RowsKept(Req(t))
      /\ RowOf(Ev(t)) = transactions[Req(t)]
  BY MarkRow
<1>2. /\ transactions'[Req(t)].receipt = transactions[Req(t)].receipt
      /\ transactions'[Req(t)].comment_id = job[t].comment
      /\ transactions'[Req(t)].digest = transactions[Req(t)].digest
      /\ transactions'[Req(t)].issue = transactions[Req(t)].issue
  BY MarkRow DEF Row
<1>3. transactions[Req(t)] # NoValue /\ transactions'[Req(t)] # NoValue
  BY <1>1, NoRowAssumption
<1>4. Recorded[Req(t)] = 0
  BY <1>1, <1>3 DEF Recorded, RowsWellFormed
<1>5. Recorded' = [Recorded EXCEPT ![Req(t)] = job[t].comment]
  BY <1>1, <1>2, <1>3 DEF Recorded, RowsKept
<1>6. BoundTo' = BoundTo /\ Decision' = Decision
  BY <1>1, <1>2, <1>3, RowKeepsPromise
<1>7. Announced' = Announced
  BY AnnouncedStays DEF Record, githubVars
<1>8. job[t].comment \in landed /\ RequestOfPost(job[t].comment) = Req(t)
  <2>1. pc[t] = "recording" /\ ThreadHolds(t)
    BY DEF Record, ThreadsHold
  <2> QED BY <2>1 DEF ThreadHolds
<1>9. \E c \in Announced[Req(t)] : c.id = job[t].comment
  <2> DEFINE c == [id |-> job[t].comment, issue |-> posts[job[t].comment].issue,
                   receipt |-> posts[job[t].comment].receipt]
  <2>1. c \in Announced[Req(t)]
    BY <1>1, <1>8 DEF Announced
  <2> QED BY <2>1
<1> QED BY <1>1, <1>4, <1>5, <1>6, <1>7, <1>9 DEF Promise!RecordComment

(* Every step is one of the promise's, or a stutter.                        *)
LEMMA StepKeepsPromise ==
  ASSUME LedgerInv, [Next]_vars
  PROVE  [Promise!Next]_(Promise!vars)
<1> USE DEF LedgerInv
<1>1. ASSUME NEW t \in Threads, Execute(t) \/ RejectLate(t)
      PROVE  Promise!Next
  <2>1. Ev(t).digest \in Digests /\ Ev(t).issue \in Issues
    BY <1>1, InsertStep, JobFacts
  <2> QED BY <1>1, <2>1, InsertBinds DEF Promise!Next
<1>2. ASSUME NEW t \in Threads, Complete(t)
      PROVE  Promise!Next
  BY <1>2, CompleteDecides, CompleteRow DEF Promise!Next
<1>3. ASSUME NEW t \in Threads, Record(t), Mark(Ev(t), job[t].comment),
             RowOf(Ev(t)).publication_state = "sending"
      PROVE  Promise!Next
  BY <1>3, RecordRecords DEF Promise!Next
<1>4. ASSUME NEW p \in 1..Len(posts), Land(p)
      PROVE  Promise!Next
  BY <1>4, LandAnnounces DEF Promise!Next
<1>5. landed' = landed \/ \E p \in 1..Len(posts) : Land(p)
  BY DEF Next, Step, vars, githubVars, Receive, Execute, RejectLate, TakeOver,
     ReplayTerminal, Decline, Validate, Complete, ClaimPost, ClaimReconcile, Skip,
     Post, Answer, Reconcile, Close, Record, Fail, Tick
<1>6. CASE UNCHANGED transactions /\ landed' = landed
  <2>1. BoundTo' = BoundTo /\ Decision' = Decision /\ Recorded' = Recorded
    BY <1>6 DEF BoundTo, Decision, Recorded
  <2> QED BY <1>6, <2>1, AnnouncedStays DEF Promise!vars
<1>7. ASSUME NEW t \in Threads, TakeOver(t), landed' = landed
      PROVE  UNCHANGED Promise!vars
  <2>1. /\ Req(t) \in Requests /\ RowsKept(Req(t))
        /\ transactions[Req(t)] \in Row /\ transactions'[Req(t)] \in Row
    BY <1>7, TakeOverRow
  <2>2. /\ transactions'[Req(t)].receipt = transactions[Req(t)].receipt
        /\ transactions'[Req(t)].comment_id = transactions[Req(t)].comment_id
        /\ transactions'[Req(t)].digest = transactions[Req(t)].digest
        /\ transactions'[Req(t)].issue = transactions[Req(t)].issue
    BY <1>7, TakeOverRow DEF Row
  <2>3. BoundTo' = BoundTo /\ Decision' = Decision /\ Recorded' = Recorded
    BY <2>1, <2>2, RowKeepsPromise, NoRowAssumption
  <2> QED BY <1>7, <2>3, AnnouncedStays DEF Promise!vars
<1>8. ASSUME NEW t \in Threads, ClaimPost(t), landed' = landed
      PROVE  UNCHANGED Promise!vars
  <2>1. /\ Req(t) \in Requests /\ RowsKept(Req(t))
        /\ transactions[Req(t)] \in Row /\ transactions'[Req(t)] \in Row
    BY <1>8, ClaimPostRow
  <2>2. /\ transactions'[Req(t)].receipt = transactions[Req(t)].receipt
        /\ transactions'[Req(t)].comment_id = transactions[Req(t)].comment_id
        /\ transactions'[Req(t)].digest = transactions[Req(t)].digest
        /\ transactions'[Req(t)].issue = transactions[Req(t)].issue
    BY <1>8, ClaimPostRow DEF Row
  <2>3. BoundTo' = BoundTo /\ Decision' = Decision /\ Recorded' = Recorded
    BY <2>1, <2>2, RowKeepsPromise, NoRowAssumption
  <2> QED BY <1>8, <2>3, AnnouncedStays DEF Promise!vars
<1> QED
  BY <1>1, <1>2, <1>3, <1>4, <1>5, <1>6, <1>7, <1>8, StoringSteps DEF Storing

(* The service implements the promise: every request is bound once, decided *)
(* once, announced in one comment, and that comment recorded.               *)
THEOREM Refinement == Spec => LedgerPromise
<1>1. Init => Promise!Init
  <2> SUFFICES ASSUME Init PROVE Promise!Init
    OBVIOUS
  <2>1. transactions = [r \in Requests |-> NoValue] /\ landed = {}
    BY DEF Init, StoreInit
  <2>2. /\ BoundTo = [r \in Requests |-> NoValue]
        /\ Decision = [r \in Requests |-> NoValue]
        /\ Recorded = [r \in Requests |-> 0]
    BY <2>1 DEF BoundTo, Decision, Recorded
  <2>3. Announced = [r \in Requests |-> {}]
    BY <2>1 DEF Announced
  <2> QED BY <2>2, <2>3 DEF Promise!Init
<1>2. LedgerInv /\ [Next]_vars => [Promise!Next]_(Promise!vars)
  BY StepKeepsPromise
<1> QED BY <1>1, <1>2, LedgerInvariant, PTL DEF Spec, LedgerPromise, Promise!Spec
=============================================================================
