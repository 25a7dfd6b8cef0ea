----------------------------- MODULE LedgerEvidence -----------------------------
(***************************************************************************)
(* Two requests about one task branch.  The first starts a run: Control    *)
(* collects what it finds of the branch (collect_startup_context of        *)
(* src/scripts/actions_ledger_startup.py) and Publisher commits.  The      *)
(* second records remote evidence of it: Control reads the published       *)
(* receipt, the commit, and for the terminal stage the CI run and the pull *)
(* request (collect_evidence_context of actions_ledger_evidence.py).  All  *)
(* that is collected is frozen, while the branch, CI and the pull requests *)
(* go on.                                                                  *)
(*                                                                         *)
(* That what Control froze reaches Publisher is LedgerProducer's, that a   *)
(* receipt is the only one is StableScan's, that CI's answer is about the  *)
(* newest run is CiInspection's.  A commit is the sequence of the labels of*)
(* its ancestry: "work" of anybody, "run" of the first request.            *)
(***************************************************************************)
EXTENDS Naturals, Sequences

CONSTANTS
  Projects,    \* where the task's branch is: "governance", "project"
  MaxCommits,  \* bound on the length of the branch
  MaxCiRuns,   \* bound: CI attempts
  MaxPulls     \* bound: pull requests

ASSUME EvidenceAssumption ==
  /\ Projects \subseteq {"governance", "project"}
  /\ MaxCommits \in Nat /\ MaxCiRuns \in Nat /\ MaxPulls \in Nat

VARIABLES
  project,      \* the repository of the first request's task
  base,         \* the commit the first request names
  branch,       \* the task branch
  ci,           \* the last CI attempt of the published commit and of other heads
  ciRuns,       \* how many there have been
  green,        \* the commits CI has ever been successful for, for the property
  pulls,        \* the pull requests of the branch, oldest first
  heads,        \* all the heads each of them has had, for the property
  startup,      \* the first request's context as far as it is collected
  publication,  \* its effect
  collector,    \* the second request's Control: where it is and what it has read
  evidence      \* what it froze

branchVars == <<project, base, branch, ci, ciRuns, green, pulls, heads>>
requestVars == <<startup, publication, collector, evidence>>
evidenceVars == <<branchVars, requestVars>>

Labels == {"work", "run"}
None == << >>

NoStartup == [at |-> "none", starting |-> None, exists |-> FALSE, pulls |-> 0]
NoCollector == [at |-> "idle", stage |-> "publication", base |-> None, ci |-> None, pull |-> None]

Extends(commit, ancestor) ==
  Len(ancestor) <= Len(commit) /\ SubSeq(commit, 1, Len(ancestor)) = ancestor

Root == <<"work">>

(* The commit the request names may have been pushed elsewhere first.       *)
EvidenceInit ==
  /\ project \in Projects
  /\ base \in {Root, Append(Root, "work")}
  /\ branch = Root
  /\ ci = [c \in {} |-> "none"] /\ ciRuns = 0 /\ green = {}
  /\ pulls = << >> /\ heads = << >>
  /\ startup = NoStartup /\ publication = None
  /\ collector = NoCollector /\ evidence = None

-----------------------------------------------------------------------------
(* The repository.                                                          *)

(* The head of an open pull request is that of the branch.                  *)
PullsFollow ==
  heads' = [n \in DOMAIN heads |->
              IF pulls[n].open THEN heads[n] \cup {branch'} ELSE heads[n]]

Work ==
  /\ Len(branch) < MaxCommits
  /\ branch' = Append(branch, "work")
  /\ PullsFollow
  /\ UNCHANGED <<project, base, ci, ciRuns, green, pulls, requestVars>>

(* CI of a head starts, again or for the first time, or ends.               *)
StartCi(commit) ==
  /\ ciRuns < MaxCiRuns
  /\ ciRuns' = ciRuns + 1
  /\ commit \in DOMAIN ci => ci[commit] # "running"
  /\ ci' = [c \in DOMAIN ci \cup {commit} |-> IF c = commit THEN "running" ELSE ci[c]]
  /\ UNCHANGED <<project, base, branch, green, pulls, heads, requestVars>>

EndCi(commit, conclusion) ==
  /\ ci[commit] = "running"
  /\ ci' = [ci EXCEPT ![commit] = conclusion]
  /\ green' = IF conclusion = "success" THEN green \cup {commit} ELSE green
  /\ UNCHANGED <<project, base, branch, ciRuns, pulls, heads, requestVars>>

OpenPull ==
  /\ Len(pulls) < MaxPulls
  /\ \A n \in DOMAIN pulls : ~pulls[n].open
  /\ pulls' = Append(pulls, [open |-> TRUE, head |-> None])
  /\ heads' = Append(heads, {branch})
  /\ UNCHANGED <<project, base, branch, ci, ciRuns, green, requestVars>>

ClosePull(n) ==
  /\ pulls[n].open
  /\ pulls' = [pulls EXCEPT ![n] = [open |-> FALSE, head |-> branch]]
  /\ UNCHANGED <<project, base, branch, ci, ciRuns, green, heads, requestVars>>

PullNow(n) ==
  [number |-> n, open |-> pulls[n].open,
   head |-> IF pulls[n].open THEN branch ELSE pulls[n].head]

-----------------------------------------------------------------------------
(* The first request: what it finds when it starts.                         *)

RunExists(commit) == \E n \in DOMAIN commit : commit[n] = "run"

(* The ref of the branch the task's page names, perhaps in a project's      *)
(* repository.                                                              *)
TaskBranch == IF project = "governance" THEN branch ELSE <<"elsewhere">>

(* The tree of its base, which does not change, and the branch's ref.       *)
ReadStart ==
  /\ startup.at = "none"
  /\ startup' = [NoStartup EXCEPT
       !.at = "refs", !.exists = RunExists(base), !.starting = TaskBranch]
  /\ UNCHANGED <<branchVars, publication, collector, evidence>>

(* At most one open pull request.                                           *)
ReadOpenPulls ==
  /\ startup.at = "refs"
  /\ \A m, n \in DOMAIN pulls : pulls[m].open /\ pulls[n].open => m = n
  /\ startup' = [startup EXCEPT
       !.at = "frozen", !.pulls = IF \E n \in DOMAIN pulls : pulls[n].open THEN 1 ELSE 0]
  /\ UNCHANGED <<branchVars, publication, collector, evidence>>

(* Publisher validates the frozen context and commits on the base, if the   *)
(* branch is there; it does not compare the base with where Control saw the *)
(* branch.                                                                  *)
PublishRun ==
  /\ startup.at = "frozen" /\ publication = None
  /\ branch = base
  /\ branch' = Append(base, "run")
  /\ publication' = [base |-> base, commit |-> branch']
  /\ PullsFollow
  /\ UNCHANGED <<project, base, ci, ciRuns, green, pulls, startup, collector, evidence>>

-----------------------------------------------------------------------------
(* The second request.                                                      *)

Stages == {"publication", "terminal"}

RepositoryKeeps == UNCHANGED <<branchVars, startup, publication>>

(* The published receipt, the producer observed twice, the candidate derived*)
(* from the context it holds; and the commit, with the base the request     *)
(* names: a commit the effect is in.                                        *)
LoadPublication(stage, commit) ==
  /\ collector.at = "idle" /\ evidence = None /\ publication # None
  /\ Extends(commit, publication.commit)
  /\ collector' = [NoCollector EXCEPT !.stage = stage, !.base = commit,
                     !.at = IF stage = "terminal" THEN "ci" ELSE "collected"]
  /\ UNCHANGED evidence /\ RepositoryKeeps

Inspected == publication.commit

(* inspect_ci.                                                              *)
InspectCi ==
  /\ collector.at = "ci"
  /\ Inspected \in DOMAIN ci
  /\ collector' = [collector EXCEPT !.ci = <<ci[Inspected]>>, !.at = "pulls"]
  /\ UNCHANGED evidence /\ RepositoryKeeps

\* Mutant: the open pull request of the task branch.
IsOpen(pull) == pull.open

(* Not the newest pull request of the branch, nor the open one: the one with*)
(* this very head.                                                          *)
IsSource(pull) == pull.head = publication.commit

(* _source_pr: it is chosen from the listing, and read again.               *)
ListPulls ==
  /\ collector.at = "pulls"
  /\ \E n \in DOMAIN pulls :
       /\ \A m \in DOMAIN pulls : IsSource(PullNow(m)) <=> m = n
       /\ collector' = [collector EXCEPT !.pull = PullNow(n), !.at = "pull"]
  /\ UNCHANGED evidence /\ RepositoryKeeps

ReadPull ==
  /\ collector.at = "pull"
  /\ PullNow(collector.pull.number) = collector.pull
  /\ collector' = [collector EXCEPT !.at = "collected"]
  /\ UNCHANGED evidence /\ RepositoryKeeps

\* Mutant: the effect may have been put on another commit.
FromAnyStart == project = "governance" /\ ~startup.exists

(* _normal: what the context of the first request must say, and its effect. *)
FromItsStart ==
  /\ project = "governance"
  /\ ~startup.exists
  /\ publication.base = startup.starting

(* _normal: what was read for the stage.                                    *)
FitsStage ==
  IF collector.stage = "publication"
  THEN collector.ci = None /\ collector.pull = None
  ELSE collector.ci = <<"success">> /\ IsSource(collector.pull)

Freeze ==
  /\ collector.at = "collected"
  /\ FromItsStart /\ FitsStage
  /\ evidence' = [before |-> publication.base, after |-> publication.commit,
                  base |-> collector.base, stage |-> collector.stage,
                  ci |-> collector.ci, pull |-> collector.pull]
  /\ collector' = NoCollector
  /\ RepositoryKeeps

EndCollector ==
  /\ collector.at # "idle"
  /\ collector' = NoCollector
  /\ UNCHANGED evidence /\ RepositoryKeeps

EvidenceNext ==
  \/ Work \/ StartCi(branch)
  \/ \E commit \in DOMAIN ci :
       \/ StartCi(commit)
       \/ \E conclusion \in {"success", "failure"} : EndCi(commit, conclusion)
  \/ OpenPull \/ \E n \in DOMAIN pulls : ClosePull(n)
  \/ ReadStart \/ ReadOpenPulls \/ PublishRun
  \/ \E stage \in Stages, n \in DOMAIN branch :
       LoadPublication(stage, SubSeq(branch, 1, n))
  \/ InspectCi \/ ListPulls \/ ReadPull \/ Freeze \/ EndCollector

EvidenceSpec == EvidenceInit /\ [][EvidenceNext]_evidenceVars

-----------------------------------------------------------------------------
HadHead(pull) == pull.number \in DOMAIN heads /\ pull.head \in heads[pull.number]

(* What is frozen as evidence of a run's start is what happened: the commit *)
(* was put on what Control had seen of the branch when the run was started, *)
(* the branch and the base of the request that records it still have it, and*)
(* at the terminal stage CI was successful for this very commit and the pull*)
(* request that is named had it, and no later one, for its head when it was *)
(* looked at, whatever became of branch, CI and pull requests before and    *)
(* since (actions_ledger_evidence.py:68-124, 136-218).                      *)
EvidenceHolds ==
  evidence # None =>
    /\ evidence.after = Append(startup.starting, "run")
    /\ evidence.before = startup.starting
    /\ Extends(branch, evidence.after) /\ Extends(evidence.base, evidence.after)
    /\ evidence.stage = "terminal" =>
         /\ evidence.ci = <<"success">> /\ evidence.after \in green
         /\ evidence.pull.head = evidence.after /\ HadHead(evidence.pull)
=============================================================================
