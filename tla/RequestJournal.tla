---------------------------- MODULE RequestJournal ----------------------------
(***************************************************************************)
(* The journal as the request phases use it: one request, and the branch   *)
(* as the sequence of its revisions, each holding the record of that       *)
(* request.  Every coordinator call that publishes is one atomic step here *)
(* (what JournalCoordinator is shown to implement): a caller that dies     *)
(* right after it is one whose update was applied without its knowing.     *)
(* Commits of other requests repeat the record.                            *)
(***************************************************************************)
EXTENDS JournalRecord, Sequences, FiniteSets

CONSTANT MaxOthers  \* bound: commits of other requests

ASSUME OthersAssumption == MaxOthers \in Nat

VARIABLE history  \* history[n]: the request's record at revision n

Revision == 1..Len(history)

HeadSha == Len(history)

Current == history[HeadSha]

JournalInit == history = <<NoValue>>

StoredState(states) == Current # NoValue /\ Current.state \in states

(* An update that changes nothing makes no commit.                          *)
PublishRecord(rec) ==
  history' = IF rec = Current THEN history ELSE Append(history, rec)

OwnedBy(execution) == Current # NoValue /\ Current.execution_id = execution

AcceptedAt(revision) ==
  /\ revision \in Revision /\ history[revision] # NoValue
  /\ history[revision].state = "accepted"

ClaimedAt(revision, execution) ==
  /\ revision \in Revision /\ history[revision] # NoValue
  /\ history[revision].state = "executing"
  /\ history[revision].execution_id = execution

(* Before the acceptance and after the outcome such a commit would only     *)
(* shift the revisions nobody refers to yet, or any more.                   *)
OtherCommit ==
  /\ StoredState(States \ TerminalStates)
  /\ Cardinality({n \in 2..HeadSha : history[n] = history[n - 1]}) < MaxOthers
  /\ history' = Append(history, Current)
=============================================================================
