-------------------------- MODULE JournalCoordinator --------------------------
(***************************************************************************)
(* src/scripts/actions_journal_coordinator.py over the Git journal.        *)
(*                                                                         *)
(* A worker (a workflow job) makes one call at a time.  A call is          *)
(*   Begin    load: read the branch and pin its commit                     *)
(*   then either Return (the zach-actions child refuses the transition,    *)
(*   the owner does not match, or the answer needs no write),              *)
(*   Conflict (the branch moved since), Unchanged (the record is already   *)
(*   what the call would write) or Publish (create the commit, send the    *)
(*   ref update);                                                          *)
(*   Confirm  read the branch back; the call succeeds only if it names     *)
(*            the candidate.                                               *)
(* Fail is every other end of a call: a transport error, a timeout, the    *)
(* death of the job, or AmbiguousPublication from the readback.  A call is *)
(* never retried by the code; a later call starts again from Begin.        *)
(***************************************************************************)
EXTENDS GitJournal

CONSTANT Workers

VARIABLES
  pc,            \* pc[w]: "idle", "loaded" or "sent"
  call,          \* call[w]: the call in progress
  base,          \* base[w]: the commit pinned by its load
  candidate,     \* candidate[w]: the commit it published
  grants,        \* history: grants[r] the owners told GRANTED, in order
  accepted,      \* history: accepted[r] the identities told accepted
  settled        \* history: settled[r] the outcomes told recorded

callVars == <<pc, call, base, candidate>>
historyVars == <<grants, accepted, settled>>
vars == <<gitVars, callVars, historyVars>>

AcceptCall ==
  [op: {"accept"}, request: Requests, identity: Identities, meta: Metas]
ClaimCall ==
  [op: {"claim"}, request: Requests, execution_id: Executions]
AmbiguousCall ==
  [op: {"ambiguous"}, request: Requests, execution_id: Executions]
SettleCall ==
  [op: {"complete", "reconcile"}, request: Requests,
   execution_id: Executions, state: TerminalStates, code: Codes]

Call == AcceptCall \cup ClaimCall \cup AmbiguousCall \cup SettleCall

-----------------------------------------------------------------------------
(* The zach-actions transition of a call on the loaded record.              *)

Draft(rec, c) ==
  IF c.op = "accept" THEN New(c.identity, c.meta)
  ELSE IF c.op = "claim" THEN ClaimExecution(rec, c.execution_id)
  ELSE IF c.op = "ambiguous" THEN MarkAmbiguous(rec)
  ELSE Settle(rec, c.state, c.code)

Owns(rec, c) == rec # NoValue /\ rec.execution_id = c.execution_id

Permitted(rec, c) ==
  \/ c.op = "accept" /\ rec = NoValue
  \/ c.op = "claim" /\ rec # NoValue /\ ClaimOutcome(rec) = "granted"
  \/ c.op = "ambiguous" /\ Owns(rec, c) /\ CanMarkAmbiguous(rec)
  \/ c.op = "complete" /\ Owns(rec, c) /\ CanComplete(rec, c.state, c.code)
  \/ c.op = "reconcile" /\ Owns(rec, c) /\ CanReconcile(rec, c.state, c.code)

(* The stored record, if there is one, passes from_json.                    *)
Readable(rec) == rec # NoValue => Reloads(rec)

\* Mutant: the size of the new record is not checked.
ProceedsUnbounded(rec, c) == Readable(rec) /\ Permitted(rec, c)

(* The call goes on to publish: the transition is legal and the new record  *)
(* can be serialized.                                                       *)
Proceeds(rec, c) ==
  Readable(rec) /\ Permitted(rec, c) /\ Serializes(Draft(rec, c))

(* The call succeeds without a write: an exact acceptance replay, or a      *)
(* claim answered by "reconciliation required" or "terminal replay".        *)
Replays(rec, c) ==
  /\ rec # NoValue /\ Reloads(rec)
  /\ \/ c.op = "accept" /\ CheckReplay(rec, c.identity)
     \/ c.op = "claim" /\ ClaimOutcome(rec) # "granted"

-----------------------------------------------------------------------------
Init ==
  /\ GitInit
  /\ pc = [w \in Workers |-> "idle"]
  /\ call = [w \in Workers |-> NoValue]
  /\ base = [w \in Workers |-> NoCommit]
  /\ candidate = [w \in Workers |-> NoCommit]
  /\ grants = [r \in Requests |-> << >>]
  /\ accepted = [r \in Requests |-> {}]
  /\ settled = [r \in Requests |-> {}]

Loaded(w) == RecordAt(base[w], call[w].request)

Finish(w) ==
  /\ pc' = [pc EXCEPT ![w] = "idle"]
  /\ call' = [call EXCEPT ![w] = NoValue]
  /\ base' = [base EXCEPT ![w] = NoCommit]
  /\ candidate' = [candidate EXCEPT ![w] = NoCommit]

(* The result a successful call hands to its caller.                        *)
RecordAcceptance(c) ==
  accepted' = IF c.op = "accept"
              THEN [accepted EXCEPT ![c.request] = @ \cup {c.identity}]
              ELSE accepted

RecordGrant(c) ==
  grants' = IF c.op = "claim"
            THEN [grants EXCEPT ![c.request] = Append(@, c.execution_id)]
            ELSE grants

RecordOutcome(c) ==
  settled' = IF c.op \in {"complete", "reconcile"}
             THEN [settled EXCEPT
                     ![c.request] = @ \cup {[state |-> c.state, code |-> c.code]}]
             ELSE settled

Begin(w, c) ==
  /\ pc[w] = "idle"
  /\ pc' = [pc EXCEPT ![w] = "loaded"]
  /\ call' = [call EXCEPT ![w] = c]
  /\ base' = [base EXCEPT ![w] = Load]
  /\ UNCHANGED <<gitVars, candidate, historyVars>>

Refuse(w) ==
  /\ pc[w] = "loaded"
  /\ ~Proceeds(Loaded(w), call[w])
  /\ ~Replays(Loaded(w), call[w])
  /\ Finish(w)
  /\ UNCHANGED <<gitVars, historyVars>>

Replay(w) ==
  /\ pc[w] = "loaded"
  /\ ~Proceeds(Loaded(w), call[w])
  /\ Replays(Loaded(w), call[w])
  /\ RecordAcceptance(call[w])
  /\ Finish(w)
  /\ UNCHANGED <<gitVars, grants, settled>>

Conflict(w) ==
  /\ pc[w] = "loaded"
  /\ Proceeds(Loaded(w), call[w])
  /\ Load # base[w]
  /\ Finish(w)
  /\ UNCHANGED <<gitVars, historyVars>>

Succeed(w) ==
  /\ RecordAcceptance(call[w])
  /\ RecordGrant(call[w])
  /\ RecordOutcome(call[w])
  /\ Finish(w)

Unchanged(w) ==
  /\ pc[w] = "loaded"
  /\ Proceeds(Loaded(w), call[w])
  /\ Load = base[w]
  /\ Draft(Loaded(w), call[w]) = Loaded(w)
  /\ Succeed(w)
  /\ UNCHANGED gitVars

Publish(w) ==
  /\ pc[w] = "loaded"
  /\ Proceeds(Loaded(w), call[w])
  /\ Load = base[w]
  /\ Draft(Loaded(w), call[w]) # Loaded(w)
  /\ \E stamp \in Stamps :
       LET commit == Child(base[w], call[w].request,
                           Draft(Loaded(w), call[w]), stamp)
       IN  /\ SendUpdate(commit)
           /\ candidate' = [candidate EXCEPT ![w] = commit]
  /\ pc' = [pc EXCEPT ![w] = "sent"]
  /\ UNCHANGED <<call, base, historyVars>>

Confirm(w) ==
  /\ pc[w] = "sent"
  /\ ReadBack(candidate[w])
  /\ Succeed(w)
  /\ UNCHANGED gitVars

Fail(w) ==
  /\ pc[w] # "idle"
  /\ Finish(w)
  /\ UNCHANGED <<gitVars, historyVars>>

Update(commit) == ApplyUpdate(commit) /\ UNCHANGED <<callVars, historyVars>>

Next ==
  \/ \E w \in Workers, c \in Call : Begin(w, c)
  \/ \E w \in Workers :
       \/ Refuse(w) \/ Replay(w) \/ Conflict(w) \/ Unchanged(w)
       \/ Publish(w) \/ Confirm(w) \/ Fail(w)
  \/ \E commit \in inflight : Update(commit)

Spec == Init /\ [][Next]_vars

-----------------------------------------------------------------------------
TypeOK ==
  /\ head \in Commit
  /\ inflight \subseteq Commit
  /\ pc \in [Workers -> {"idle", "loaded", "sent"}]
  /\ call \in [Workers -> Call \cup {NoValue}]
  /\ base \in [Workers -> Commit]
  /\ candidate \in [Workers -> Commit]
  /\ grants \in [Requests -> Seq(Executions)]
  /\ accepted \in [Requests -> SUBSET Identities]
  /\ settled \in [Requests -> SUBSET [state: TerminalStates, code: Codes]]

-----------------------------------------------------------------------------
(* Safety.                                                                  *)

Stored == TreeOf(head)

(* A request is executed at most once: over all workers, crashes, lost and  *)
(* late ref updates, claim answers GRANTED at most once per request.  Holds *)
(* when no two equal commits are created in the same second.                *)
AtMostOneGrant == \A r \in Requests : Len(grants[r]) <= 1

(* Whoever was told GRANTED is, from then on, the durable owner: the branch *)
(* holds a record past acceptance that names exactly that execution, so a   *)
(* grant is never answered before its claim is published and no later       *)
(* publication hands the request to someone else.                           *)
GrantIsDurable ==
  \A r \in Requests : \A i \in 1..Len(grants[r]) :
    /\ Stored[r] # NoValue
    /\ Stored[r].state # "accepted"
    /\ Stored[r].execution_id = grants[r][i]

(* An outcome that some caller was told is recorded is the outcome, for     *)
(* good: no late update, repeated completion or reconciliation replaces it. *)
OutcomeIsFinal ==
  \A r \in Requests : \A o \in settled[r] :
    /\ Stored[r] # NoValue
    /\ Stored[r].state = o.state
    /\ Stored[r].terminal_code = o.code

(* The branch is never rewound: a revision read or reported once stays in   *)
(* its history, whatever updates arrive late or concurrently.               *)
HistoryOnlyGrows == [][IsPrefix(head, head')]_head

(* Everybody who was told that a request is accepted proposed the identity  *)
(* the journal has frozen: a request id is never shared by two Issues.      *)
AcceptanceIsFrozen ==
  \A r \in Requests : \A i \in accepted[r] :
    Stored[r] # NoValue /\ Stored[r].identity = i

(* Every record the journal ever stores passes the checks of the next load: *)
(* no sequence of legal transitions writes a record that bricks its request.*)
StoredRecordsReload ==
  \A r \in Requests : Stored[r] # NoValue => Reloads(Stored[r])

(* The branch implements the atomic journal of AbstractJournal.             *)
Abstract == INSTANCE AbstractJournal WITH records <- Stored
AtomicJournal == Abstract!Spec

-----------------------------------------------------------------------------
(* The inductive invariant behind these properties.                         *)

(* Every update in flight is one permitted transition away from head.       *)
InflightPermitted ==
  /\ head # NoCommit
  /\ \A commit \in inflight : \E c \in Call, stamp \in Stamps :
       /\ Proceeds(RecordAt(head, c.request), c)
       /\ commit = Child(head, c.request,
                         Draft(RecordAt(head, c.request), c), stamp)

(* A call in progress has pinned a commit; a sent one has published the     *)
(* transition it drafted from there.                                        *)
CallsPinned ==
  \A w \in Workers :
    /\ pc[w] # "idle" => call[w] \in Call /\ base[w] # NoCommit
    /\ pc[w] = "sent" =>
         /\ Proceeds(Loaded(w), call[w])
         /\ \E stamp \in Stamps :
              candidate[w] = Child(base[w], call[w].request,
                                   Draft(Loaded(w), call[w]), stamp)

(* What a call loaded has at most progressed since.                         *)
LoadedIsFrozen ==
  \A w \in Workers : pc[w] # "idle" /\ Loaded(w) # NoValue =>
    /\ Stored[call[w].request] # NoValue
    /\ Stored[call[w].request].identity = Loaded(w).identity

JournalInv ==
  /\ TypeOK
  /\ InflightPermitted
  /\ CallsPinned
  /\ LoadedIsFrozen
  /\ GrantIsDurable
  /\ AcceptanceIsFrozen
  /\ OutcomeIsFinal
  /\ StoredRecordsReload

(* The rest holds when no two equal commits are created in one second.      *)

(* Two sent calls never wait for the same commit.                           *)
CandidatesDistinct ==
  \A v, w \in Workers :
    v # w /\ pc[v] = "sent" /\ pc[w] = "sent" => candidate[v] # candidate[w]

(* A sent candidate is still in flight or belongs to the past.              *)
CandidatesSpent ==
  \A w \in Workers : pc[w] = "sent" =>
    candidate[w] \in inflight \/ Len(candidate[w]) <= Len(head)

(* No claim that is still open can be confirmed once one was granted.       *)
NoClaimAfterGrant ==
  \A w \in Workers :
    pc[w] = "sent" /\ call[w].op = "claim" /\ grants[call[w].request] # << >> =>
      candidate[w] # head

SingleClaim == CandidatesDistinct /\ CandidatesSpent /\ NoClaimAfterGrant
=============================================================================
