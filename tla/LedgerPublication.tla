--------------------------- MODULE LedgerPublication ---------------------------
(***************************************************************************)
(* A governance.ledger request: the phases of ActionsPhases, with the      *)
(* candidate as Control's effect and its publication on a task branch as   *)
(* part of finalize (src/scripts/actions_ledger_publication.py).           *)
(*                                                                         *)
(* The candidate of a request is derived by a pinned tool and is the same  *)
(* for every job; its commit is not, since it holds the time of its        *)
(* creation.  The branch moves by non-forced updates only, of this request *)
(* and of others; an update may be applied long after it was sent.         *)
(***************************************************************************)
EXTENDS ActionsPhases

CONSTANTS
  Commits,    \* commits the candidate may be built into, one per second
  base,       \* the commit the request was made against
  Changes,    \* does the candidate change anything?  the possible answers
  Owners,     \* does base say that the branch is its active task's?  likewise
  MaxForeign  \* bound: commits of others on the branch

ASSUME LedgerAssumption ==
  /\ base \notin Commits /\ Changes \subseteq BOOLEAN /\ Owners \subseteq BOOLEAN
  /\ MaxForeign \in Nat

VARIABLES
  changes,  \* does the candidate of this request change anything?
  owned,    \* is the branch, at base, that of its active task?
  branch,   \* the task branch, from base on
  patches   \* the commits an update of the branch was sent for

ledgerVars == <<changes, owned, branch, patches>>
vars == <<phaseVars, ledgerVars>>

foreign == "foreign"  \* a commit of somebody else

BranchHead == branch[Len(branch)]

Publication(bundle, commit) ==
  [kind |-> "publication", execution |-> bundle.execution, bundle |-> bundle,
   commit |-> commit]

Published(bundle, commit) ==
  [kind |-> "published", execution |-> bundle.execution, bundle |-> bundle,
   commit |-> commit]

Init ==
  /\ PhaseInit
  /\ changes \in Changes /\ owned \in Owners
  /\ branch = <<base>>
  /\ patches = {}

-----------------------------------------------------------------------------
(* control                                                                  *)

Produce(j) ==
  /\ pc[j] = "execute" /\ operation = "ledger" /\ "ledger" \in Policy /\ ~job[j].whole
  /\ NoReceiptSeen(j)
  /\ \E state \in {"candidate_ready", "rejected"} : PublishReceipt(j, state, 0)
  /\ Local /\ UNCHANGED ledgerVars

-----------------------------------------------------------------------------
(* finalize, from a candidate_ready receipt on                              *)

Checkpoints(j) == PublisherComments("publication", job[j].bundle.execution)

\* Mutant: the first checkpoint found is taken.
SomeCheckpoint(j, p) == p \in Checkpoints(j) /\ posts[p].bundle = job[j].bundle

(* The only checkpoint there is, if it is that of the bundle.               *)
OnlyCheckpoint(j, p) ==
  /\ Checkpoints(j) = {p}
  /\ posts[p].bundle = job[j].bundle

(* The local variables once the publication is checkpoint p.                *)
WithCheckpoint(j, p) == [job[j] EXCEPT !.comment = posts[p], !.number = p]

\* Mutant: recovery expects a branch that has not moved.
RecoverUnmoved(j) ==
  /\ pc[j] = "publish"
  /\ \E p \in Checkpoints(j) :
       OnlyCheckpoint(j, p) /\ Goto(j, "readback", WithCheckpoint(j, p))
  /\ BranchHead = base
  /\ Local /\ UNCHANGED ledgerVars

Recover(j) ==
  /\ pc[j] = "publish"
  /\ \E p \in Checkpoints(j) :
       OnlyCheckpoint(j, p) /\ Goto(j, "readback", WithCheckpoint(j, p))
  /\ Local /\ UNCHANGED ledgerVars

(* _owner: what base says of the task the branch belongs to.                *)
OwnedBranch == owned

(* Build the commit and post the checkpoint that names it.                  *)
Build(j) ==
  /\ pc[j] = "publish"
  /\ Checkpoints(j) = {}
  /\ BranchHead = base /\ OwnedBranch
  /\ \E commit \in IF changes THEN Commits ELSE {base} :
       Ensure(j, job[j], Publication(job[j].bundle, commit))
  /\ Local /\ UNCHANGED ledgerVars

(* The checkpoint is on the Issue: look it up again, alone and the same, and *)
(* the branch has not moved.                                                *)
CheckpointPublication(j) ==
  /\ \E p \in Ensured(j, "publication") :
       OnlyCheckpoint(j, p) /\ Goto(j, "patch", WithCheckpoint(j, p))
  /\ BranchHead = base
  /\ Local /\ UNCHANGED ledgerVars

(* One non-forced update, whatever it answers.                              *)
Patch(j) ==
  /\ pc[j] = "patch"
  /\ patches' = IF changes THEN patches \cup {job[j].comment.commit} ELSE patches
  /\ Goto(j, "readback", job[j])
  /\ Local /\ UNCHANGED <<changes, owned, branch>>

\* Mutant: the checkpoint is proof enough.
ReadBackNothing(j) ==
  /\ pc[j] = "readback"
  /\ OnlyCheckpoint(j, job[j].number)
  /\ Ensure(j, job[j], Published(job[j].bundle, job[j].comment.commit))
  /\ Local /\ UNCHANGED ledgerVars

(* The branch is at the commit; the checkpoint is still the only one.       *)
ReadBackEffect(j) ==
  /\ pc[j] = "readback"
  /\ BranchHead = job[j].comment.commit
  /\ OnlyCheckpoint(j, job[j].number)
  /\ Ensure(j, job[j], Published(job[j].bundle, job[j].comment.commit))
  /\ Local /\ UNCHANGED ledgerVars

\* Mutant: the published comment's number is not kept.
AnnouncedUnnumbered(j) ==
  /\ \E p \in Ensured(j, "published") :
       Goto(j, "settle", [job[j] EXCEPT !.comment = NoValue, !.outcome = "succeeded", !.number = 0])
  /\ Local /\ UNCHANGED ledgerVars

Announced(j) ==
  /\ \E p \in Ensured(j, "published") :
       /\ Matching(j) = {p}
       /\ Goto(j, "settle",
               [job[j] EXCEPT !.comment = NoValue, !.outcome = "succeeded", !.number = p])
  /\ Local /\ UNCHANGED ledgerVars

(* Any error from here on marks what was executing ambiguous.               *)
Publishing(j) ==
  \/ pc[j] \in {"publish", "patch", "readback"}
  \/ /\ pc[j] \in {"ensure", "posted"}
     /\ job[j].comment.kind \in {"publication", "published"}

PublishFails(j) ==
  /\ Publishing(j)
  /\ job[j].state = "executing"
  /\ Goto(j, "mark", Start(job[j].bundle, NoValue))
  /\ Local /\ UNCHANGED ledgerVars

-----------------------------------------------------------------------------
(* The branch.  An update of a commit whose parent is not the head is       *)
(* refused.                                                                 *)

ApplyPatch(commit) ==
  /\ BranchHead = base
  /\ branch' = Append(branch, commit)
  /\ UNCHANGED <<phaseVars, changes, owned, patches>>

Foreign ==
  /\ Cardinality({n \in DOMAIN branch : branch[n] = foreign}) < MaxForeign
  /\ branch' = Append(branch, foreign)
  /\ UNCHANGED <<phaseVars, changes, owned, patches>>

LedgerStep(j) ==
  \/ Produce(j) \/ Recover(j) \/ Build(j) \/ CheckpointPublication(j) \/ Patch(j)
  \/ ReadBackEffect(j) \/ Announced(j) \/ PublishFails(j)

Next ==
  \/ PhaseNext /\ UNCHANGED ledgerVars
  \/ \E j \in Jobs : LedgerStep(j)
  \/ \E commit \in patches : ApplyPatch(commit)
  \/ Foreign

Spec == Init /\ [][Next]_vars

(* As PhaseFairness; a comment sent is stored eventually.                   *)
Fairness ==
  /\ WF_vars(\E p \in 1..Len(posts) : Land(p) /\ UNCHANGED ledgerVars)
  /\ \A j \in Jobs :
       /\ WF_vars(LedgerStep(j) \/ ((Continue(j) \/ Fail(j)) /\ UNCHANGED ledgerVars))
       /\ SF_vars((\E handoff \in Handoffs : Finalize(j, handoff)) /\ UNCHANGED ledgerVars)
       /\ SF_vars(Observe(j) /\ UNCHANGED ledgerVars)
       /\ SF_vars(Recover(j))
       /\ SF_vars(ReadBackEffect(j))
       /\ SF_vars(PostMissing(j) /\ UNCHANGED ledgerVars)
       /\ SF_vars(Announced(j))
       /\ SF_vars(SettleNow(j) /\ UNCHANGED ledgerVars)

FairSpec == Spec /\ Fairness

-----------------------------------------------------------------------------
(* Properties.                                                              *)

CheckpointOf(p, commit) ==
  /\ p \in landed
  /\ posts[p].kind = "publication"
  /\ posts[p].commit = commit

LedgerTypeOK ==
  /\ HistoryTypeOK
  /\ landed \subseteq DOMAIN posts
  /\ pc \in [Jobs -> Labels \cup {"patch", "readback"}]
  /\ \A j \in Jobs : pc[j] # "idle" => job[j].bundle \in Bundle
  /\ branch \in Seq(Commits \cup {base, foreign}) /\ branch # << >>
  /\ patches \subseteq Commits

(* However many jobs finalize a request, at once or one after the other,    *)
(* only one commit is ever sent to the branch, and a checkpoint that names  *)
(* it was on the Issue before (actions_ledger_publication.py:201-212,       *)
(* docs/actions-transport.md:483-485).                                      *)
OneCheckpointedEffect ==
  /\ Cardinality(patches) <= 1
  /\ \A commit \in patches : \E p \in landed : CheckpointOf(p, commit)

(* A ledger request recorded as succeeded is published, on a branch that    *)
(* was its active task's: its reference is a published comment whose commit the     *)
(* branch contains and a checkpoint names (finalize,                        *)
(* actions_request_handler.py:1444-1516; recovery looks at no owner).       *)
SuccessIsPublished ==
  operation = "ledger" /\ StoredState({"succeeded"}) => OwnedBranch /\
    \E p \in landed :
      /\ Current.terminal_code = p
      /\ posts[p].kind = "published"
      /\ \E n \in DOMAIN branch : branch[n] = posts[p].commit
      /\ \E q \in landed : CheckpointOf(q, posts[p].commit)

(* A request recorded as rejected has sent nothing to the branch, and       *)
(* nothing of it will appear there (finalize, the same lines, with          *)
(* _existing_receipt, :1985).                                               *)
RejectedWasNotSent == StoredState({"rejected"}) => patches = {}

(* Comments of one kind twice: the phases refuse to choose between them.    *)
Wedged == \E p, q \in landed : p # q /\ posts[p].kind = posts[q].kind

(* An effect that took place is eventually recorded as a success, whichever *)
(* step the job that caused it died in, unless others have moved the branch *)
(* on or the comments contradict each other (_recover_publication,          *)
(* actions_ledger_publication.py:160-169).                                  *)
EffectIsRecorded ==
  (BranchHead \in Commits)
    ~> (StoredState({"succeeded"}) \/ BranchHead = foreign \/ Wedged)
=============================================================================
