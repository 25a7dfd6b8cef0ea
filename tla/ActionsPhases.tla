----------------------------- MODULE ActionsPhases -----------------------------
(***************************************************************************)
(* The phases of one request: src/scripts/actions_request_handler.py as    *)
(* src/scripts/actions_phase_cli.py runs it, with the recipe dispatch of   *)
(* src/scripts/actions_recipe_dispatch.py as Control's effect.             *)
(*                                                                         *)
(* A job runs one phase, alone or beside other jobs:                       *)
(*   prepare            Accept, then (with durable checkpoints) the intent *)
(*                      comment or LoadIntent, Claim, Resume, and the      *)
(*                      prepare checkpoint; it ends by writing its result  *)
(*   control            the effect, then the receipt comment               *)
(*   control-reconcile  the observed effect, then the receipt comment      *)
(*   finalize           Observe the receipt, then Settle or MarkAmbiguous  *)
(*   handle_request     prepare, control and finalize in one process, with *)
(*                      control's result handed over in memory; without    *)
(*                      durable checkpoints only                           *)
(* Fail ends any job anywhere: an error, a timeout, the death of the job.  *)
(* What a dead job had sent may still take effect.  A phase that stops     *)
(* without a result is one that Fails.                                     *)
(*                                                                         *)
(* A result of prepare and a durable checkpoint serve any later job.       *)
(* Control's start is a matter of the workflow: it runs the control phase  *)
(* once for a granted bundle, unless ControlReruns.                        *)
(***************************************************************************)
EXTENDS RequestJournal, IssueComments

CONSTANTS
  Jobs,
  Operations,     \* "inspect", "recipe", "ledger" or "audit"
  Policy,         \* the optional parts of the trusted policy that are there
  ControlReruns,  \* may the control phase be run again on the same bundle?
  InProcess,      \* may a request be handled in one process?
  MaxRuns         \* bound: workflow runs dispatched

(* What a policy may leave out; verified closures want a publisher identity.*)
ValidPolicy ==
  /\ Policy \subseteq {"publisher_identity", "recipe", "ledger", "integration_producer"}
  /\ "integration_producer" \in Policy => {"ledger", "publisher_identity"} \subseteq Policy

ASSUME PhaseAssumption ==
  /\ Operations \subseteq {"inspect", "recipe", "ledger", "audit"}
  /\ ValidPolicy
  /\ ControlReruns \in BOOLEAN /\ InProcess \in BOOLEAN /\ MaxRuns \in Nat
  /\ 1..MaxPosts \subseteq Codes  \* a terminal code is the number of a comment

(* The publisher leaves its checkpoints on the Issue.                       *)
Durable == "publisher_identity" \in Policy

VARIABLES
  operation,   \* of the request
  runs,        \* how many workflow runs its dispatches have created
  files,       \* the results prepare jobs have written
  controlled,  \* the bundles control was run on, unless ControlReruns
  pc, job      \* each job's place and local variables

jobVars == <<pc, job>>
effectVars == <<operation, runs>>
phaseVars == <<history, commentVars, effectVars, files, controlled, jobVars>>

Dispositions == {"granted", "reconciliation_required"}

Bundle == [execution: Executions, accepted: Nat, claim: Nat]

BundleOf(execution, accepted, claim) ==
  [execution |-> execution, accepted |-> accepted, claim |-> claim]

Prepared == [bundle: Bundle, disposition: Dispositions]

Results == {"succeeded", "rejected", "candidate_ready"}

Intent(bundle) ==
  [kind |-> "intent", execution |-> bundle.execution, accepted |-> bundle.accepted]

Checkpoint(bundle, disposition) ==
  [kind |-> "prepare", execution |-> bundle.execution, bundle |-> bundle,
   disposition |-> disposition]

Receipt(bundle, outcome) ==
  [kind |-> "receipt", accepted |-> bundle.accepted, claim |-> bundle.claim,
   outcome |-> outcome]

-----------------------------------------------------------------------------
PhaseInit ==
  /\ JournalInit
  /\ CommentsInit
  /\ operation \in Operations
  /\ runs = 0
  /\ files = {}
  /\ controlled = {}
  /\ pc = [j \in Jobs |-> "idle"]
  /\ job = [j \in Jobs |-> NoValue]

Goto(j, label, local) ==
  /\ pc' = [pc EXCEPT ![j] = label]
  /\ job' = [job EXCEPT ![j] = local]

Finish(j) == Goto(j, "idle", NoValue)

(* Steps of one job that touch nothing others can see.                      *)
Local == UNCHANGED <<history, commentVars, effectVars, files, controlled>>

(* The local variables of a job.  state is that of the record it loaded;    *)
(* comment the comment it wants to exist; outcome and number the state to   *)
(* record and the comment that shows it.  looks: does control look for a    *)
(* receipt before the effect and again after it?  In control-reconcile and  *)
(* for a ledger request, which the two phases treat alike.  whole: does the *)
(* process go on with the next phase?                                       *)
Start(bundle, disposition) ==
  [bundle |-> bundle, disposition |-> disposition,
   state |-> NoValue, comment |-> NoValue, outcome |-> NoValue, number |-> 0,
   looks |-> FALSE, whole |-> FALSE]

(* Write the phase's result file.                                           *)
WriteResult(j, bundle, disposition) ==
  /\ files' = files \cup {[bundle |-> bundle, disposition |-> disposition]}
  /\ Finish(j)

-----------------------------------------------------------------------------
(* A publisher comment that must exist exactly once: look for it, post it   *)
(* if there is none, and accept the answer or, after an error, the only     *)
(* comment there is, if it says the same.                                   *)

Matching(j) ==
  PublisherComments(job[j].comment.kind, job[j].bundle.execution)

OnlyMatch(j) == {p \in Matching(j) : Matching(j) = {p} /\ posts[p] = job[j].comment}

Ensure(j, local, comment) == Goto(j, "ensure", [local EXCEPT !.comment = comment])

PostMissing(j) ==
  /\ pc[j] = "ensure"
  /\ Matching(j) = {}
  /\ SendComment(job[j].comment)
  /\ Goto(j, "posted", [job[j] EXCEPT !.number = Len(posts) + 1])
  /\ UNCHANGED <<history, effectVars, files, controlled>>

(* The comment an ensure step ends with: the only match or, once posted, the *)
(* one read back by its number.                                             *)
Ensured(j, kind) ==
  IF pc[j] \in {"ensure", "posted"} /\ job[j].comment.kind = kind
  THEN OnlyMatch(j) \cup (IF pc[j] = "posted" THEN landed \cap {job[j].number} ELSE {})
  ELSE {}

-----------------------------------------------------------------------------
(* prepare                                                                  *)

(* The request is settled: prepare only says so.                            *)
TerminalReplay == StoredState(TerminalStates)

Accept(j, execution, whole) ==
  /\ pc[j] = "idle"
  /\ ~TerminalReplay
  /\ whole => InProcess /\ ~Durable
  /\ \E identity \in Identities, meta \in Metas :
       PublishRecord(IF Current = NoValue THEN New(identity, meta) ELSE Current)
  /\ LET bundle == BundleOf(execution, Len(history'), 0)
         local == [Start(bundle, "granted") EXCEPT !.whole = whole]
     IN  \/ ~Durable /\ Goto(j, "claim", local)
         \/ /\ Durable /\ history'[Len(history')].state = "accepted"
            /\ Ensure(j, local, Intent(bundle))
         \/ /\ Durable /\ history'[Len(history')].state # "accepted"
            /\ Goto(j, "load", local)
  /\ UNCHANGED <<commentVars, effectVars, files, controlled>>

IntentEnsured(j) ==
  /\ Ensured(j, "intent") # {}
  /\ Goto(j, "claim", Start(job[j].bundle, "granted"))
  /\ Local

\* Mutant: a resumed job takes the revision it saw for the accepted one.
LoadIntentSkipped(j) ==
  /\ pc[j] = "load"
  /\ Goto(j, "claim", job[j])
  /\ Local

LoadIntent(j) ==
  /\ pc[j] = "load"
  /\ \E p \in PublisherComments("intent", job[j].bundle.execution) :
       /\ PublisherComments("intent", job[j].bundle.execution) = {p}
       /\ AcceptedAt(posts[p].accepted)
       /\ Goto(j, "claim", [job[j] EXCEPT !.bundle.accepted = posts[p].accepted])
  /\ Local

(* Control's local variables.                                               *)
Executing(bundle) ==
  [Start(bundle, NoValue) EXCEPT !.looks = operation = "ledger"]

Handoff(j, bundle, disposition) ==
  \/ /\ Durable
     /\ Ensure(j, Start(bundle, disposition), Checkpoint(bundle, disposition))
     /\ UNCHANGED files
  \/ ~Durable /\ ~job[j].whole /\ WriteResult(j, bundle, disposition)
  \/ /\ job[j].whole
     /\ Goto(j, "execute", [Executing(bundle) EXCEPT !.whole = TRUE])
     /\ UNCHANGED files

ClaimGranted(j) ==
  /\ pc[j] = "claim"
  /\ Current # NoValue /\ ClaimOutcome(Current) = "granted"
  /\ PublishRecord(ClaimExecution(Current, job[j].bundle.execution))
  /\ Handoff(j, [job[j].bundle EXCEPT !.claim = Len(history')], "granted")
  /\ UNCHANGED <<commentVars, effectVars, controlled>>

(* Claimed before, by this very execution: resume where it stopped.         *)
ClaimRepeated(j) ==
  /\ pc[j] = "claim" /\ Durable
  /\ ClaimOutcome(Current) = "reconciliation_required"
  /\ OwnedBy(job[j].bundle.execution)
  /\ Goto(j, "resume",
          [job[j] EXCEPT !.bundle.claim = HeadSha, !.state = Current.state])
  /\ Local

Resume(j) ==
  /\ pc[j] = "resume"
  /\ LET found == PublisherComments("prepare", job[j].bundle.execution)
     IN  \/ /\ found = {} /\ job[j].state = "executing"
            /\ Handoff(j, job[j].bundle, "reconciliation_required")
         \/ /\ \E p \in found :
                 /\ found = {p}
                 /\ WriteResult(j, posts[p].bundle, "reconciliation_required")
  /\ UNCHANGED <<history, commentVars, effectVars, controlled>>

CheckpointEnsured(j) ==
  /\ Ensured(j, "prepare") # {}
  /\ WriteResult(j, job[j].bundle, job[j].disposition)
  /\ UNCHANGED <<history, commentVars, effectVars, controlled>>

-----------------------------------------------------------------------------
(* What a later phase works on: a result file, or the only checkpoint.      *)

DurableCheckpoints ==
  {[bundle |-> posts[p].bundle, disposition |-> posts[p].disposition] :
     p \in {q \in landed :
              /\ posts[q].kind = "prepare"
              /\ PublisherComments("prepare", posts[q].execution) = {q}}}

Handoffs == files \cup DurableCheckpoints

-----------------------------------------------------------------------------
(* control and control-reconcile                                            *)

\* Mutant: control runs on any handoff.
MayControlAny(handoff) == ControlReruns \/ handoff.bundle \notin controlled

MayControl(handoff) ==
  /\ handoff.disposition = "granted"
  /\ ControlReruns \/ handoff.bundle \notin controlled

Control(j, handoff) ==
  /\ pc[j] = "idle"
  /\ MayControl(handoff)
  /\ controlled' = IF ControlReruns THEN controlled ELSE controlled \cup {handoff.bundle}
  /\ Goto(j, "execute", Executing(handoff.bundle))
  /\ UNCHANGED <<history, commentVars, effectVars, files>>

ControlReconcile(j, handoff) ==
  /\ pc[j] = "idle"
  /\ Goto(j, "execute", [Start(handoff.bundle, NoValue) EXCEPT !.looks = TRUE])
  /\ Local

NoReceiptSeen(j) == job[j].looks => Receipts = {}

PublishReceipt(j, state, run) ==
  Goto(j, "receipt",
       [job[j] EXCEPT !.comment = Receipt(job[j].bundle, [state |-> state, run |-> run])])

(* Neither executable nor configured.                                       *)
Unsupported(j) ==
  /\ pc[j] = "execute"
  /\ \/ operation = "audit"
     \/ operation = "ledger" /\ ("ledger" \notin Policy \/ job[j].whole)
  /\ NoReceiptSeen(j)
  /\ PublishReceipt(j, "rejected", 0)
  /\ Local

Inspect(j) ==
  /\ pc[j] = "execute" /\ operation = "inspect"
  /\ NoReceiptSeen(j)
  /\ \E state \in {"succeeded", "rejected"} : PublishReceipt(j, state, 0)
  /\ Local

(* Control dispatches, or looks for what was dispatched; without a policy of *)
(* recipes it fails.                                                        *)
Dispatches(j) ==
  pc[j] = "execute" /\ operation = "recipe" /\ "recipe" \in Policy /\ ~job[j].looks

Reconciles(j) ==
  pc[j] = "execute" /\ operation = "recipe" /\ "recipe" \in Policy /\ job[j].looks

(* A dispatch that was certainly not carried out: its parameters are not    *)
(* those of the recipe, the repository or the workflow not that of the      *)
(* policy; or it was answered 4xx.                                          *)
DispatchRefused(j) ==
  /\ Dispatches(j)
  /\ PublishReceipt(j, "rejected", 0)
  /\ Local

Dispatch(j) ==
  /\ Dispatches(j)
  /\ runs < MaxRuns
  /\ runs' = runs + 1
  /\ Goto(j, "dispatched", [job[j] EXCEPT !.number = runs + 1])
  /\ UNCHANGED <<operation, history, commentVars, files, controlled>>

\* Mutant: an error while reading the run back counts as a refusal.
RunReadBackOrRefused(j) ==
  /\ pc[j] = "dispatched"
  /\ \E state \in {"succeeded", "rejected"} : PublishReceipt(j, state, job[j].number)
  /\ Local

RunReadBack(j) ==
  /\ pc[j] = "dispatched"
  /\ PublishReceipt(j, "succeeded", job[j].number)
  /\ Local

\* Mutant: the title alone is expected, whether or not a run has it.
RunReconciledUnseen(j) ==
  /\ Reconciles(j)
  /\ NoReceiptSeen(j)
  /\ PublishReceipt(j, "succeeded", 1)
  /\ Local

(* Exactly one run carries the request's title and binding.                 *)
RunReconciled(j) ==
  /\ Reconciles(j)
  /\ NoReceiptSeen(j)
  /\ runs = 1
  /\ PublishReceipt(j, "succeeded", 1)
  /\ Local

(* Nobody depends on the answer to this POST, finalize looks for itself; but *)
(* the process that goes on with it.                                        *)
PostReceipt(j) ==
  /\ pc[j] = "receipt"
  /\ NoReceiptSeen(j)
  /\ SendComment(job[j].comment)
  /\ IF job[j].whole
     THEN Goto(j, "concluded", [job[j] EXCEPT !.number = Len(posts) + 1])
     ELSE Finish(j)
  /\ UNCHANGED <<history, effectVars, files, controlled>>

-----------------------------------------------------------------------------
(* finalize                                                                 *)

(* The journal holds what the bundle says: an acceptance, then a claim.      *)
Verified(bundle) ==
  /\ bundle.accepted <= bundle.claim
  /\ AcceptedAt(bundle.accepted)
  /\ ClaimedAt(bundle.claim, bundle.execution)

(* finalize of a bundle, on to the next step or to the end.                 *)
Finalizing(j, bundle, label) ==
  /\ Verified(bundle)
  /\ StoredState({"executing", "ambiguous"})
  /\ OwnedBy(bundle.execution)
  /\ Goto(j, label, [Start(bundle, NoValue) EXCEPT !.state = Current.state])
  /\ Local

Finalize(j, handoff) ==
  /\ pc[j] = "idle"
  /\ Finalizing(j, handoff.bundle, "observe")

(* handle_request, control's receipt being on the Issue for certain.        *)
FinalizeCertain(j) ==
  /\ pc[j] = "concluded"
  /\ job[j].number \in landed
  /\ Finalizing(j, job[j].bundle, "observe")

(* handle_request, control's result being ambiguous: an error of the        *)
(* dispatch or of the POST of the receipt.                                  *)
FinalizeAmbiguous(j) ==
  /\ job[j] # NoValue /\ job[j].whole
  /\ pc[j] \in {"dispatched", "concluded"} \/ Dispatches(j)
  /\ StoredState({"executing"})
  /\ Finalizing(j, job[j].bundle, "mark")

(* reconcile_request: of an ambiguous request, with the revisions its only  *)
(* receipt names.                                                           *)
ReconcileRequest(j) ==
  /\ StoredState({"ambiguous"})
  /\ \E p \in Receipts :
       /\ Receipts = {p}
       /\ Finalize(j, [bundle |-> BundleOf(Current.execution_id, posts[p].accepted,
                                           posts[p].claim),
                       disposition |-> "reconciliation_required"])

Bound(j, p) ==
  posts[p].accepted = job[j].bundle.accepted /\ posts[p].claim = job[j].bundle.claim

\* Mutant: the first receipt of the bundle is taken.
ObservedAny(j) == {p \in Receipts : Bound(j, p)}

(* The single receipt, if it is that of the bundle.                         *)
Observed(j) == {p \in Receipts : Receipts = {p} /\ Bound(j, p)}

\* Mutant: the receipt's reference is not kept.
ObserveUnreferenced(j) ==
  /\ pc[j] = "observe"
  /\ \E p \in Observed(j) : Goto(j, "settle", [job[j] EXCEPT !.outcome = posts[p].outcome.state])
  /\ Local

Observe(j) ==
  /\ pc[j] = "observe"
  /\ \E p \in Observed(j) :
       LET ready == posts[p].outcome.state = "candidate_ready"
       IN  /\ ready => {"publisher_identity", "ledger"} \subseteq Policy
           /\ Goto(j, IF ready THEN "publish" ELSE "settle",
                   [job[j] EXCEPT !.outcome = posts[p].outcome.state, !.number = p])
  /\ Local

ObserveNothing(j) ==
  /\ pc[j] = "observe"
  /\ Receipts = {}
  /\ job[j].state = "executing"
  /\ Goto(j, "mark", job[j])
  /\ Local

(* _safe_mark_ambiguous: its failure is ignored, and the phase fails anyway.*)
MarkAmbiguousNow(j) ==
  /\ pc[j] = "mark"
  /\ OwnedBy(job[j].bundle.execution) /\ CanMarkAmbiguous(Current)
  /\ PublishRecord(MarkAmbiguous(Current))
  /\ Finish(j)
  /\ UNCHANGED <<commentVars, effectVars, files, controlled>>

\* Mutant: an ambiguous request is not reconciled.
SettledExecuting(j, state, reference) ==
  /\ OwnedBy(job[j].bundle.execution)
  /\ CanComplete(Current, state, reference)
  /\ PublishRecord(Settle(Current, state, reference))

(* complete what was executing when it was loaded, reconcile what was       *)
(* ambiguous.                                                               *)
Settled(j, state, reference) ==
  /\ OwnedBy(job[j].bundle.execution)
  /\ IF job[j].state = "executing"
     THEN CanComplete(Current, state, reference)
     ELSE CanReconcile(Current, state, reference)
  /\ PublishRecord(Settle(Current, state, reference))

SettleNow(j) ==
  /\ pc[j] = "settle"
  /\ Settled(j, job[j].outcome, job[j].number)
  /\ Finish(j)
  /\ UNCHANGED <<commentVars, effectVars, files, controlled>>

-----------------------------------------------------------------------------
Fail(j) ==
  /\ pc[j] # "idle"
  /\ Finish(j)
  /\ Local

Others == OtherCommit /\ UNCHANGED <<commentVars, effectVars, files, controlled, jobVars>>

Land(p) ==
  LandComment(p) /\ UNCHANGED <<history, effectVars, files, controlled, jobVars>>

Begin(j) ==
  \/ \E execution \in Executions, whole \in BOOLEAN : Accept(j, execution, whole)
  \/ \E handoff \in Handoffs :
       Control(j, handoff) \/ ControlReconcile(j, handoff) \/ Finalize(j, handoff)
  \/ ReconcileRequest(j)

Continue(j) ==
  \/ PostMissing(j) \/ IntentEnsured(j) \/ LoadIntent(j) \/ ClaimGranted(j)
  \/ ClaimRepeated(j) \/ Resume(j) \/ CheckpointEnsured(j)
  \/ Unsupported(j) \/ Inspect(j) \/ DispatchRefused(j) \/ Dispatch(j) \/ RunReadBack(j)
  \/ RunReconciled(j) \/ PostReceipt(j)
  \/ FinalizeCertain(j) \/ FinalizeAmbiguous(j)
  \/ Observe(j) \/ ObserveNothing(j) \/ MarkAmbiguousNow(j) \/ SettleNow(j)

PhaseNext ==
  \/ \E j \in Jobs : Begin(j) \/ Continue(j) \/ Fail(j)
  \/ \E p \in 1..Len(posts) : Land(p)
  \/ Others

PhaseSpec == PhaseInit /\ [][PhaseNext]_phaseVars

(* A job ends, one way or another; a request that is not terminal is        *)
(* finalized or reconciled again and again, and a step of it that is        *)
(* attempted again and again, by whichever job, succeeds eventually.        *)
(* Nothing is assumed of the other phases, of one attempt, or of a comment  *)
(* that was sent.                                                           *)
PhaseFairness ==
  /\ \A j \in Jobs : WF_phaseVars(Continue(j) \/ Fail(j))
  /\ SF_phaseVars(\E j \in Jobs :
       ReconcileRequest(j) \/ \E handoff \in Handoffs : Finalize(j, handoff))
  /\ SF_phaseVars(\E j \in Jobs : Observe(j))
  /\ SF_phaseVars(\E j \in Jobs : SettleNow(j))

FairPhaseSpec == PhaseSpec /\ PhaseFairness

-----------------------------------------------------------------------------
(* Properties.                                                              *)

Labels == {"idle", "claim", "ensure", "posted", "load", "resume", "execute",
           "dispatched", "receipt", "concluded", "observe", "publish", "mark", "settle"}

HistoryTypeOK ==
  history \in Seq(Record \cup {NoValue}) /\ history # << >>

TypeOK ==
  /\ HistoryTypeOK
  /\ landed \subseteq DOMAIN posts
  /\ operation \in Operations /\ runs \in 0..MaxRuns
  /\ files \subseteq Prepared /\ controlled \subseteq Bundle
  /\ pc \in [Jobs -> Labels]
  /\ \A j \in Jobs : pc[j] # "idle" =>
       job[j].bundle \in Bundle /\ job[j].outcome \in Results \cup {NoValue}

(* A request's recipe is dispatched at most once, whatever jobs die or run  *)
(* beside each other (src/scripts/actions_request_handler.py:1835, with     *)
(* docs/actions-transport.md:229-231: an ambiguous dispatch is never        *)
(* repeated).                                                               *)
OneDispatch == runs <= 1

(* A request recorded as rejected has had no effect: a dispatch of unknown  *)
(* outcome is never reported as refused (actions_recipe_dispatch.py:394-412,*)
(* actions_request_handler.py:1845-1855).                                   *)
RejectedHadNoEffect == StoredState({"rejected"}) => runs = 0

(* A terminal record names a receipt that is on the Issue, says the same    *)
(* and carries the revisions of this request's acceptance and of its        *)
(* owner's claim; success means that the run it names exists                *)
(* (finalize, actions_request_handler.py:1384-1547).                        *)
TerminalIsEvidenced ==
  StoredState(TerminalStates) =>
    \E p \in Receipts :
      /\ Current.terminal_code = p
      /\ posts[p].outcome.state = Current.state
      /\ AcceptedAt(posts[p].accepted)
      /\ ClaimedAt(posts[p].claim, Current.execution_id)
      /\ operation = "recipe" /\ Current.state = "succeeded"
           => posts[p].outcome.run \in 1..runs

(* Whatever prepare hands over, however often it was interrupted and        *)
(* resumed, finalize can verify: the bundle names an acceptance and a claim *)
(* of the durable owner (_prepare_durable, actions_request_handler.py:1024, *)
(* against _verify_bundle_journal, :318).                                   *)
HandoffsVerify ==
  \A handoff \in Handoffs :
    Verified(handoff.bundle) /\ OwnedBy(handoff.bundle.execution)

(* Control is granted by one bundle only (docs/actions-transport.md:324-325:*)
(* a later attempt never grants a second execution).                        *)
OneGrantedBundle ==
  Cardinality({h.bundle : h \in {g \in Handoffs : g.disposition = "granted"}}) <= 1

(* What the journal and the Issue say of the request.                       *)
Standing == IF Current = NoValue THEN "unknown" ELSE Current.state
Owner == IF Current = NoValue THEN NoValue ELSE Current.execution_id
Said == {posts[p].outcome.state : p \in Receipts}

(* The phases keep the promise of AbstractRequest, with the runs dispatched *)
(* as the effects of a recipe: one grant, one effect and only before        *)
(* anything was said of it, nothing untrue said, one outcome among those    *)
(* said (docs/actions-transport.md:229-231, :310-325).                      *)
Promise ==
  INSTANCE AbstractRequest WITH
    effectful <- operation = "recipe", standing <- Standing, owner <- Owner,
    effects <- runs, said <- Said
RequestPromise == Promise!Spec

(* Somebody can settle the request: by a bundle, or, of an ambiguous        *)
(* request, by the record alone.                                            *)
Recoverable == Handoffs # {} \/ StoredState({"ambiguous"})

(* Once there is a receipt, and unless a second one appears, the request    *)
(* becomes terminal, whatever was marked ambiguous in between and whichever *)
(* process died (finalize and reconcile_request,                            *)
(* actions_request_handler.py:1384-1656).                                   *)
ReceiptSettles ==
  (Receipts # {} /\ Recoverable)
    ~> (StoredState(TerminalStates) \/ Cardinality(Receipts) > 1)
=============================================================================
