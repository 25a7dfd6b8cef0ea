------------------------------ MODULE CiInspection ------------------------------
(***************************************************************************)
(* inspect_ci of src/scripts/actions_ci_inspect.py: the CI runs of one     *)
(* commit, observed while runs appear, go on, are run again and are        *)
(* removed.  It lists the runs, takes the newest, lists the jobs of the    *)
(* attempt it saw, lists the runs again and reads the run it took again.   *)
(* Whatever it finds changed is an error, after which it may be asked anew.*)
(* The listings are paged and say how many items they have.                *)
(***************************************************************************)
EXTENDS Naturals, Paging

CONSTANTS
  MaxAttempts,  \* bound: attempts of all the commit's runs
  MaxJobs       \* bound: jobs of all the runs there are

ASSUME CiAssumption == MaxAttempts \in Nat /\ MaxJobs \in Nat

VARIABLES
  runs,      \* the commit's runs, newest first
  attempts,  \* how many of their attempts there have been
  jobs,      \* jobs[id]: the jobs of the run's last attempt, which of them are done
  step,      \* what the inspection does next
  ciPage,      \* the page it reads next
  total,     \* how many items the listing's first page said there are
  rows,      \* what it has read of this listing
  selected,  \* the newest run of the first listing
  found,     \* its jobs
  standing   \* the runs there all along since the last listing began, for the property

worldVars == <<runs, attempts, jobs>>
inspectVars == <<step, ciPage, total, rows, selected, found, standing>>
ciVars == <<worldVars, inspectVars>>

NoRun == [id |-> 0, attempt |-> 0, done |-> FALSE]

CiInit ==
  /\ runs = << >> /\ attempts = 0
  /\ jobs = [id \in 1..MaxAttempts |-> << >>]
  /\ step = "runs" /\ ciPage = 1 /\ total = 0 /\ rows = << >>
  /\ selected = NoRun /\ found = << >> /\ standing = {}

Ids(list) == {list[n].id : n \in DOMAIN list}

-----------------------------------------------------------------------------
(* The workflow.                                                            *)

NewRun ==
  /\ attempts < MaxAttempts
  /\ attempts' = attempts + 1
  /\ runs' = <<[id |-> attempts + 1, attempt |-> 1, done |-> FALSE]>> \o runs
  /\ UNCHANGED <<jobs, inspectVars>>

NewJob(run) ==
  /\ ~run.done /\ FoldSeq(+, 0, [id \in DOMAIN jobs |-> Len(jobs[id])]) < MaxJobs
  /\ jobs' = [jobs EXCEPT ![run.id] = Append(@, FALSE)]
  /\ UNCHANGED <<runs, attempts, inspectVars>>

EndJob(run, k) ==
  /\ ~jobs[run.id][k]
  /\ jobs' = [jobs EXCEPT ![run.id][k] = TRUE]
  /\ UNCHANGED <<runs, attempts, inspectVars>>

EndRun(n) ==
  /\ ~runs[n].done
  /\ \A k \in DOMAIN jobs[runs[n].id] : jobs[runs[n].id][k]
  /\ runs' = [runs EXCEPT ![n].done = TRUE]
  /\ UNCHANGED <<attempts, jobs, inspectVars>>

RunAgain(n) ==
  /\ runs[n].done
  /\ attempts < MaxAttempts
  /\ attempts' = attempts + 1
  /\ runs' = [runs EXCEPT ![n].attempt = @ + 1, ![n].done = FALSE]
  /\ jobs' = [jobs EXCEPT ![runs[n].id] = << >>]
  /\ UNCHANGED inspectVars

RemoveRun(n) ==
  /\ runs' = RemoveAt(runs, n)
  /\ jobs' = [jobs EXCEPT ![runs[n].id] = << >>]
  /\ standing' = standing \ {runs[n].id}
  /\ UNCHANGED <<attempts, step, ciPage, total, rows, selected, found>>

-----------------------------------------------------------------------------
(* The inspection.                                                          *)

PageRows(list) == PageOf(list, ciPage)

Listing == IF step = "jobs" THEN jobs[selected.id] ELSE runs

(* The jobs of an attempt that is not the run's last any more can still be  *)
(* listed, but only to find that the run has changed.                       *)
SameAttempt ==
  \E run \in ToSet(runs) : run.id = selected.id /\ run.attempt = selected.attempt

\* Mutant: the total is that of the last page read.
ExpectedAny == TRUE

(* The first page says how many there are, and a listing that would fill    *)
(* all the pages is refused; the last page of the jobs may be full.         *)
Expected ==
  IF ciPage > 1 THEN Len(Listing) = total
  ELSE Len(Listing) < PerPage * MaxPages + (IF step = "jobs" THEN 1 ELSE 0)

(* One page of a listing; there is another one if this is full and something*)
(* is missing.                                                              *)
NoRepeat(list) ==
  step # "jobs" => \A m, n \in DOMAIN list : list[m].id = list[n].id => m = n

ReadPage ==
  /\ step \in {"runs", "jobs", "again"}
  /\ ciPage < MaxPages
  /\ step = "jobs" => SameAttempt
  /\ Expected
  /\ Len(rows) + Len(PageRows(Listing)) < Len(Listing)
  /\ Len(PageRows(Listing)) = PerPage
  /\ NoRepeat(rows \o PageRows(Listing))
  /\ total' = Len(Listing)
  /\ rows' = rows \o PageRows(Listing)
  /\ ciPage' = ciPage + 1
  /\ standing' = IF step = "again" /\ ciPage = 1 THEN Ids(runs) ELSE standing
  /\ UNCHANGED <<worldVars, step, selected, found>>

(* The page that completes a listing, and the whole of it.                  *)
Completes(list) ==
  /\ Expected
  /\ list = rows \o PageRows(Listing)
  /\ Len(list) = Len(Listing)
  /\ NoRepeat(list)
  /\ ciPage' = 1 /\ total' = 0

Newest(list) == CHOOSE run \in ToSet(list) : \A other \in ToSet(list) : other.id <= run.id

RunsListed ==
  /\ step = "runs"
  /\ \E list \in {rows \o PageRows(runs)} :
       /\ Completes(list)
       /\ rows' = << >>
       /\ IF list = << >>
          THEN step' = "not_found" /\ UNCHANGED selected
          ELSE step' = "jobs" /\ selected' = Newest(list)
  /\ UNCHANGED <<worldVars, found, standing>>

JobsListed ==
  /\ step = "jobs" /\ SameAttempt
  /\ Completes(rows \o PageRows(Listing))
  /\ found' = rows \o PageRows(Listing)
  /\ rows' = << >>
  /\ step' = "again"
  /\ UNCHANGED <<worldVars, selected, standing>>

(* A newer run may have appeared, or this one have changed.                 *)
RunsListedAgain ==
  /\ step = "again"
  /\ \E list \in {rows \o PageRows(runs)} :
       /\ Completes(list)
       /\ list # << >> /\ Newest(list) = selected
       /\ rows' = list
  /\ step' = "exact"
  /\ standing' = IF ciPage = 1 THEN Ids(runs) ELSE standing
  /\ UNCHANGED <<worldVars, selected, found>>

\* Mutant: the run read last is reported.
ReadExactAnyway ==
  /\ step = "exact"
  /\ \E run \in ToSet(runs) : run.id = selected.id /\ selected' = run
  /\ step' = "found"
  /\ UNCHANGED <<worldVars, ciPage, total, rows, found, standing>>

ReadExact ==
  /\ step = "exact"
  /\ selected \in ToSet(runs)
  /\ step' = "found"
  /\ UNCHANGED <<worldVars, ciPage, total, rows, selected, found, standing>>

(* An error, at any point, or another inspection.                           *)
InspectAnew ==
  /\ step' = "runs" /\ ciPage' = 1 /\ total' = 0 /\ rows' = << >>
  /\ selected' = NoRun /\ found' = << >> /\ standing' = {}
  /\ UNCHANGED worldVars

CiNext ==
  \/ NewRun
  \/ \E n \in DOMAIN runs :
       \/ NewJob(runs[n])
       \/ \E k \in DOMAIN jobs[runs[n].id] : EndJob(runs[n], k)
       \/ EndRun(n) \/ RunAgain(n) \/ RemoveRun(n)
  \/ ReadPage \/ RunsListed \/ JobsListed \/ RunsListedAgain \/ ReadExact
  \/ InspectAnew

CiSpec == CiInit /\ [][CiNext]_ciVars

-----------------------------------------------------------------------------
(* Properties.                                                              *)

(* Every run there was all along since the last listing began is in the     *)
(* result, and none of them is newer than the run reported, however the     *)
(* pages shifted meanwhile (inspect_ci, actions_ci_inspect.py:399-452).     *)
FoundIsNewest ==
  step = "found" =>
    /\ standing \subseteq Ids(rows)
    /\ \A id \in standing : id <= selected.id

(* A run reported as completed comes with all the jobs of its attempt, all  *)
(* of them done (the same lines; actions_ledger_evidence.py takes such a    *)
(* report for the verdict of CI).                                           *)
CompletedHasFinalJobs ==
  step = "found" /\ selected.done =>
    /\ SameAttempt => found = jobs[selected.id]
    /\ \A k \in DOMAIN found : found[k]
=============================================================================
