---------------------------- MODULE WebhookLedger ----------------------------
(***************************************************************************)
(* The v1 ledger webhook service: src/src/ledger/mod.rs over the SQLite    *)
(* store, with the GitHub comments of src/src/ledger/publisher.rs.         *)
(*                                                                         *)
(* Every HTTP connection is a thread; all threads of a process share one   *)
(* instance identity and all processes one database.  A thread handles a   *)
(* webhook in the order of WebhookService::handle:                         *)
(*   Receive    read the clock, accept the (signed, canonical) event       *)
(*   Execute, RejectLate, TakeOver, ReplayTerminal or Decline              *)
(*              the claim and what handle does with its outcome            *)
(*   Validate   the validator returns a verdict                            *)
(*   Complete   store the terminal receipt, read the clock again           *)
(*   ClaimPost, ClaimReconcile or Skip                                     *)
(*              the publication claim                                      *)
(*   Post, Answer                                                          *)
(*              POST the comment and receive its id                        *)
(*   Reconcile  look for the comment instead                               *)
(*   Close      close the Issue                                            *)
(*   Record     bind the comment id to the outbox row.                     *)
(* Fail is every 503 and every death of a thread or of its process.        *)
(*                                                                         *)
(* A POST is a request to a remote server: it lands once, at any time      *)
(* after it was sent, or never; the thread may be gone by then (the curl   *)
(* child has no timeout and outlives a dead thread).                       *)
(***************************************************************************)
EXTENDS LedgerStore, Sequences

CONSTANTS
  Threads,
  InstanceOf,      \* the process each thread belongs to
  Created, Expires \* the time window of each canonical request

ASSUME ServiceAssumption ==
  /\ InstanceOf \in [Threads -> Instances]
  /\ Created \in [Digests -> Int] /\ Expires \in [Digests -> Int]

VARIABLES
  clock,
  pc,           \* pc[t]: where the thread is in handle
  job,          \* job[t]: its local variables
  posts,        \* the comments the service has sent, in order
  landed,       \* the positions in posts that GitHub has stored
  closed,       \* the Issues the service has closed
  validations,  \* history: how often the validator ran for a request
  answered      \* history: requests answered 200

threadVars == <<pc, job>>
githubVars == <<posts, landed, closed>>
historyVars == <<validations, answered>>
vars == <<storeVars, clock, threadVars, githubVars, historyVars>>

Comment == [issue: Issues, digest: Digests, receipt: Receipts]

(* now is the latest clock reading; via says how the comment was obtained.  *)
Job ==
  [event: Event, now: Time, receipt: Receipts \cup {NoValue},
   comment: Nat, via: {"publish", "reconcile"}]

PCs == {"idle", "claiming", "validating", "completing", "publishing", "posting",
        "posted", "reconciling", "closing", "recording"}

Ev(t) == job[t].event
Req(t) == RequestOf[Ev(t).digest]
Owner(t) == InstanceOf[t]

Init ==
  /\ StoreInit
  /\ clock = 0
  /\ pc = [t \in Threads |-> "idle"]
  /\ job = [t \in Threads |-> NoValue]
  /\ posts = << >>
  /\ landed = {}
  /\ closed = {}
  /\ validations = [r \in Requests |-> 0]
  /\ answered = {}

-----------------------------------------------------------------------------
Goto(t, label, local) ==
  /\ pc' = [pc EXCEPT ![t] = label]
  /\ job' = [job EXCEPT ![t] = local]

Finish(t) == Goto(t, "idle", NoValue)

Answer200(t) == answered' = answered \cup {Req(t)}

Receive(t, e) ==
  /\ pc[t] = "idle"
  /\ Goto(t, "claiming",
          [event |-> e, now |-> clock, receipt |-> NoValue, comment |-> 0,
           via |-> "publish"])
  /\ UNCHANGED <<storeVars, clock, githubVars, historyVars>>

Claims(t, outcome) == pc[t] = "claiming" /\ ClaimOutcome(Ev(t), job[t].now) = outcome

InWindow(digest, now) ==
  /\ Created[digest] < Expires[digest]
  /\ Created[digest] <= now /\ now <= Expires[digest]

Execute(t) ==
  /\ Claims(t, "execute")
  /\ InWindow(Ev(t).digest, job[t].now)
  /\ InsertTransaction(Ev(t), Owner(t), job[t].now)
  /\ validations' = [validations EXCEPT ![Req(t)] = @ + 1]
  /\ Goto(t, "validating", job[t])
  /\ UNCHANGED <<clock, githubVars, answered>>

RejectLate(t) ==
  /\ Claims(t, "execute")
  /\ ~InWindow(Ev(t).digest, job[t].now)
  /\ InsertTransaction(Ev(t), Owner(t), job[t].now)
  /\ Goto(t, "completing", [job[t] EXCEPT !.receipt = "request-time-invalid"])
  /\ UNCHANGED <<clock, githubVars, historyVars>>

TakeOver(t) ==
  /\ Claims(t, "recover")
  /\ RecoverTransaction(Ev(t), Owner(t), job[t].now)
  /\ Goto(t, "completing", [job[t] EXCEPT !.receipt = "ambiguous-recovery"])
  /\ UNCHANGED <<clock, githubVars, historyVars>>

ReplayTerminal(t) ==
  /\ Claims(t, "replay")
  /\ EnsureDelivery(Ev(t))
  /\ Goto(t, "publishing",
          [job[t] EXCEPT !.receipt = RowOf(Ev(t)).receipt, !.now = clock])
  /\ UNCHANGED <<transactions, bindings, clock, githubVars, historyVars>>

Decline(t) ==
  /\ \/ Claims(t, "refused") /\ UNCHANGED deliveries
     \/ Claims(t, "in_flight") /\ EnsureDelivery(Ev(t))
  /\ Finish(t)
  /\ UNCHANGED <<transactions, bindings, clock, githubVars, historyVars>>

Validate(t) ==
  /\ pc[t] = "validating"
  /\ \E verdict \in Verdicts :
       Goto(t, "completing", [job[t] EXCEPT !.receipt = verdict])
  /\ UNCHANGED <<storeVars, clock, githubVars, historyVars>>

\* Mutant: a thread that lost its request publishes its own receipt.
CompleteUnchecked(t) ==
  /\ pc[t] = "completing"
  /\ IF CanComplete(Ev(t), Owner(t))
     THEN CompleteTransaction(Ev(t), job[t].receipt)
     ELSE UNCHANGED storeVars
  /\ Goto(t, "publishing", [job[t] EXCEPT !.now = clock])
  /\ UNCHANGED <<clock, githubVars, historyVars>>

Complete(t) ==
  /\ pc[t] = "completing"
  /\ CanComplete(Ev(t), Owner(t))
  /\ CompleteTransaction(Ev(t), job[t].receipt)
  /\ Goto(t, "publishing", [job[t] EXCEPT !.now = clock])
  /\ UNCHANGED <<clock, githubVars, historyVars>>

Publishes(t, outcome) ==
  /\ pc[t] = "publishing"
  /\ Publishable(Ev(t))
  /\ PublicationOutcome(Ev(t), job[t].now) = outcome

ClaimPost(t) ==
  /\ Publishes(t, "publish")
  /\ ClaimPublication(Ev(t), Owner(t), job[t].now)
  /\ Goto(t, "posting", job[t])
  /\ UNCHANGED <<clock, githubVars, historyVars>>

ClaimReconcile(t) ==
  /\ Publishes(t, "reconcile")
  /\ Goto(t, "reconciling", [job[t] EXCEPT !.via = "reconcile"])
  /\ UNCHANGED <<storeVars, clock, githubVars, historyVars>>

Skip(t) ==
  /\ \/ Publishes(t, "sent") /\ Answer200(t)
     \/ Publishes(t, "in_flight") /\ UNCHANGED answered
  /\ Finish(t)
  /\ UNCHANGED <<storeVars, clock, githubVars, validations>>

Post(t) ==
  /\ pc[t] = "posting"
  /\ posts' = Append(posts, [issue |-> Ev(t).issue, digest |-> Ev(t).digest,
                             receipt |-> job[t].receipt])
  /\ Goto(t, "posted", [job[t] EXCEPT !.comment = Len(posts) + 1])
  /\ UNCHANGED <<storeVars, clock, landed, closed, historyVars>>

\* Mutant: a POST without an answer is taken for a success.
AnswerUnseen(t) ==
  /\ pc[t] = "posted"
  /\ Goto(t, "closing", job[t])
  /\ UNCHANGED <<storeVars, clock, githubVars, historyVars>>

Answer(t) ==
  /\ pc[t] = "posted"
  /\ job[t].comment \in landed
  /\ Goto(t, "closing", job[t])
  /\ UNCHANGED <<storeVars, clock, githubVars, historyVars>>

(* Comments are only ever appended, so what the page by page scan finds is  *)
(* what was there when it read the last page.                               *)
Matching(t) ==
  {p \in landed : posts[p] = [issue |-> Ev(t).issue, digest |-> Ev(t).digest,
                              receipt |-> job[t].receipt]}

Reconcile(t) ==
  /\ pc[t] = "reconciling"
  /\ \E p \in Matching(t) :
       /\ Matching(t) = {p}
       /\ Goto(t, "closing", [job[t] EXCEPT !.comment = p])
  /\ UNCHANGED <<storeVars, clock, githubVars, historyVars>>

Close(t) ==
  /\ pc[t] = "closing"
  /\ closed' = closed \cup {Ev(t).issue}
  /\ Goto(t, "recording", job[t])
  /\ UNCHANGED <<storeVars, clock, posts, landed, historyVars>>

Record(t) ==
  /\ pc[t] = "recording"
  /\ \/ CanMark(Ev(t), Owner(t), job[t].via) /\ Mark(Ev(t), job[t].comment)
     \/ /\ ~CanMark(Ev(t), Owner(t), job[t].via)
        /\ AlreadyMarked(Ev(t), job[t].comment)
        /\ UNCHANGED storeVars
  /\ Answer200(t)
  /\ Finish(t)
  /\ UNCHANGED <<clock, githubVars, validations>>

Fail(t) ==
  /\ pc[t] # "idle"
  /\ Finish(t)
  /\ UNCHANGED <<storeVars, clock, githubVars, historyVars>>

Land(p) ==
  /\ p \notin landed
  /\ landed' = landed \cup {p}
  /\ UNCHANGED <<storeVars, clock, threadVars, posts, closed, historyVars>>

Tick ==
  /\ clock < MaxTime
  /\ clock' = clock + 1
  /\ UNCHANGED <<storeVars, threadVars, githubVars, historyVars>>

Step(t) ==
  \/ Execute(t) \/ RejectLate(t) \/ TakeOver(t) \/ ReplayTerminal(t) \/ Decline(t)
  \/ Validate(t) \/ Complete(t)
  \/ ClaimPost(t) \/ ClaimReconcile(t) \/ Skip(t)
  \/ Post(t) \/ Answer(t) \/ Reconcile(t) \/ Close(t) \/ Record(t)

Next ==
  \/ \E t \in Threads, e \in Event : Receive(t, e)
  \/ \E t \in Threads : Step(t) \/ Fail(t)
  \/ \E p \in 1..Len(posts) : Land(p)
  \/ Tick

Spec == Init /\ [][Next]_vars

(* A webhook is delivered again and again, and the attempts do not all fail *)
(* at the same place: a step that is reached again and again is eventually  *)
(* taken.  Every connection has a thread of its own, so a thread that hangs *)
(* for ever is one that has failed.  Nothing is assumed of any one attempt, *)
(* of the validator, or of a POST that was sent.                            *)
Fairness ==
  /\ WF_vars(Tick)
  /\ \A t \in Threads : WF_vars(Step(t) \/ Fail(t))
  /\ \A e \in Event : SF_vars(\E t \in Threads : Receive(t, e))
  /\ SF_vars(\E t \in Threads : TakeOver(t) \/ ReplayTerminal(t))
  /\ SF_vars(\E t \in Threads : Complete(t))
  /\ SF_vars(\E t \in Threads : ClaimReconcile(t))
  /\ SF_vars(\E t \in Threads : Reconcile(t))
  /\ SF_vars(\E t \in Threads : Close(t))
  /\ SF_vars(\E t \in Threads : Record(t))

FairSpec == Spec /\ Fairness

-----------------------------------------------------------------------------
TypeOK ==
  /\ StoreTypeOK
  /\ clock \in Time
  /\ pc \in [Threads -> PCs]
  /\ job \in [Threads -> Job \cup {NoValue}]
  /\ posts \in Seq(Comment)
  /\ landed \subseteq 1..Len(posts)
  /\ closed \subseteq Issues
  /\ validations \in [Requests -> Nat]
  /\ answered \subseteq Requests

-----------------------------------------------------------------------------
(* Safety.                                                                  *)

RequestOfPost(p) == RequestOf[posts[p].digest]

Terminal(r) == transactions[r] # NoValue /\ transactions[r].state = "terminal"

(* The validator runs at most once for a request, over all redeliveries,    *)
(* crashes and recoveries, and a stored verdict is that run's: a request    *)
(* rejected for its time, or never validated, has no verdict.               *)
ValidatedOnce ==
  \A r \in Requests :
    /\ validations[r] <= 1
    /\ Terminal(r) /\ transactions[r].receipt \in Verdicts => validations[r] = 1
    /\ Terminal(r) /\ transactions[r].receipt = "request-time-invalid" =>
         validations[r] = 0

(* At most one terminal comment is ever sent for a request, however often   *)
(* it is redelivered, recovered or reconciled.                              *)
OneTerminalPost ==
  \A p, q \in 1..Len(posts) : RequestOfPost(p) = RequestOfPost(q) => p = q

(* A comment says, on the Issue of the request, what the durable receipt    *)
(* says: a thread that lost its request publishes nothing of its own, and a *)
(* receipt is final once a comment was sent.                                *)
PostedIsStored ==
  \A p \in 1..Len(posts) :
    /\ Terminal(RequestOfPost(p))
    /\ transactions[RequestOfPost(p)].receipt = posts[p].receipt
    /\ transactions[RequestOfPost(p)].digest = posts[p].digest
    /\ transactions[RequestOfPost(p)].issue = posts[p].issue

(* A request recorded as sent has its comment on GitHub and its Issue       *)
(* closed, and whoever was answered 200 had a request recorded as sent.     *)
SentIsPublished ==
  \A r \in Requests :
    /\ r \in answered => Terminal(r) /\ transactions[r].publication_state = "sent"
    /\ Terminal(r) /\ transactions[r].publication_state = "sent" =>
         /\ transactions[r].comment_id \in landed
         /\ RequestOfPost(transactions[r].comment_id) = r
         /\ transactions[r].issue \in closed

(* Issues, requests and deliveries stay bound one to one to a canonical     *)
(* request: no sequence of events tears the tables apart, so the two error  *)
(* branches of claim for a torn store are unreachable.                      *)
StoreIsConsistent ==
  /\ \A r \in Requests : transactions[r] # NoValue =>
       /\ RequestOf[transactions[r].digest] = r
       /\ bindings[transactions[r].issue] = transactions[r].digest
  /\ \A i \in Issues : bindings[i] # NoValue =>
       /\ transactions[RequestOf[bindings[i]]] # NoValue
       /\ transactions[RequestOf[bindings[i]]].issue = i
  /\ \A d \in Deliveries : deliveries[d] # NoValue =>
       /\ transactions[RequestOf[deliveries[d].digest]] # NoValue
       /\ bindings[deliveries[d].issue] = deliveries[d].digest

Executor(t) ==
  \/ pc[t] = "validating"
  \/ pc[t] = "completing" /\ job[t].receipt # "ambiguous-recovery"

(* An executor whose lease has not run out will not lose its result: until  *)
(* then nobody, not even a thread of the same process, recovers, completes  *)
(* or re-owns its request.                                                  *)
LiveLeaseHolds ==
  \A t \in Threads :
    Executor(t) /\ LeaseUntil(job[t].now, ExecutionLease) > clock =>
      CanComplete(Ev(t), Owner(t)) /\ RowOf(Ev(t)).state = "executing"

(* The service implements the promise of AbstractLedger: what a row is      *)
(* bound to, its receipt, the comments GitHub has stored for its request,   *)
(* and the comment the row records.                                         *)
BoundTo ==
  [r \in Requests |->
     IF transactions[r] = NoValue THEN NoValue
     ELSE [digest |-> transactions[r].digest, issue |-> transactions[r].issue]]

Decision ==
  [r \in Requests |->
     IF transactions[r] = NoValue THEN NoValue ELSE transactions[r].receipt]

Announced ==
  [r \in Requests |->
     {[id |-> p, issue |-> posts[p].issue, receipt |-> posts[p].receipt] :
        p \in {q \in landed : RequestOfPost(q) = r}}]

Recorded ==
  [r \in Requests |->
     IF transactions[r] = NoValue THEN 0 ELSE transactions[r].comment_id]

Promise ==
  INSTANCE AbstractLedger WITH
    bound <- BoundTo, decision <- Decision, announced <- Announced,
    recorded <- Recorded

LedgerPromise == Promise!Spec

-----------------------------------------------------------------------------
(* Liveness.                                                                *)

(* Every accepted request gets a terminal receipt, even if its executor or  *)
(* any number of its recoverers die.                                        *)
EventuallyTerminal ==
  \A r \in Requests : transactions[r] # NoValue ~> Terminal(r)

(* A comment that reached GitHub is eventually recorded, even if the thread *)
(* that sent it died before it could.                                       *)
LandedIsRecorded ==
  \A r \in Requests :
    (\E p \in landed : RequestOfPost(p) = r)
      ~> (Terminal(r) /\ transactions[r].publication_state = "sent")

-----------------------------------------------------------------------------
(* The inductive invariant behind the safety properties.                    *)

Held == PCs \ {"idle", "claiming"}
Publishing == Held \ {"validating", "completing"}

(* A thread past its claim has its row, past completion its final receipt,  *)
(* and a comment it goes on with is that of its request.                    *)
ThreadHolds(t) ==
  /\ pc[t] # "idle" => job[t] \in Job
  /\ pc[t] \in Held =>
       /\ RowOf(Ev(t)) # NoValue
       /\ RowOf(Ev(t)).digest = Ev(t).digest
       /\ RowOf(Ev(t)).issue = Ev(t).issue
  /\ pc[t] = "completing" => job[t].receipt # NoValue
  /\ pc[t] \in Publishing =>
       /\ RowOf(Ev(t)).state = "terminal"
       /\ RowOf(Ev(t)).receipt = job[t].receipt
  /\ pc[t] \in {"posted", "closing", "recording"} =>
       /\ job[t].comment \in 1..Len(posts)
       /\ RequestOfPost(job[t].comment) = Req(t)
  /\ pc[t] \in {"closing", "recording"} => job[t].comment \in landed
  /\ pc[t] = "recording" => Ev(t).issue \in closed

ThreadsHold == \A t \in Threads : ThreadHolds(t)

(* A row has its receipt when it is terminal and not before, and the outbox *)
(* moves only then.                                                         *)
RowsWellFormed ==
  \A r \in Requests : transactions[r] # NoValue =>
    /\ transactions[r].state = "terminal" <=> transactions[r].receipt # NoValue
    /\ transactions[r].publication_state # "pending" => Terminal(r)
    /\ transactions[r].publication_state # "sent" => transactions[r].comment_id = 0

(* Where a verdict, or a rejection for time, on its way to the store comes  *)
(* from.                                                                    *)
VerdictsEarned ==
  /\ \A r \in Requests : transactions[r] = NoValue => validations[r] = 0
  /\ \A t \in Threads :
       /\ pc[t] = "validating" => validations[Req(t)] = 1
       /\ pc[t] = "completing" /\ job[t].receipt \in Verdicts =>
            validations[Req(t)] = 1
       /\ pc[t] = "completing" /\ job[t].receipt = "request-time-invalid" =>
            validations[Req(t)] = 0

(* The permission to POST is given once, and used once.                     *)
PostPermission ==
  /\ \A t \in Threads : pc[t] = "posting" =>
       /\ RowOf(Ev(t)).publication_state # "pending"
       /\ \A p \in 1..Len(posts) : RequestOfPost(p) # Req(t)
       /\ \A u \in Threads : pc[u] = "posting" /\ Req(u) = Req(t) => u = t
  /\ \A p \in 1..Len(posts) :
       transactions[RequestOfPost(p)].publication_state # "pending"

(* The lease in the row is the executor's own until it has run out, and a   *)
(* recoverer never sees its request executing again.                        *)
Holding(t) ==
  /\ RowOf(Ev(t)).state = "executing"
  /\ RowOf(Ev(t)).owner = Owner(t)
  /\ RowOf(Ev(t)).lease_until = LeaseUntil(job[t].now, ExecutionLease)

LeasesHold ==
  \A t \in Threads :
    /\ pc[t] # "idle" => job[t].now <= clock
    /\ Executor(t) =>
         /\ Holding(t) \/ LeaseUntil(job[t].now, ExecutionLease) <= clock
         /\ \A u \in Threads : Executor(u) /\ Req(u) = Req(t) => u = t
    /\ pc[t] = "completing" /\ job[t].receipt = "ambiguous-recovery" =>
         RowOf(Ev(t)).state # "executing"

LedgerInv ==
  /\ TypeOK
  /\ StoreIsConsistent
  /\ RowsWellFormed
  /\ ThreadsHold
  /\ VerdictsEarned
  /\ ValidatedOnce
  /\ PostPermission
  /\ OneTerminalPost
  /\ PostedIsStored
  /\ SentIsPublished
  /\ LeasesHold
=============================================================================
