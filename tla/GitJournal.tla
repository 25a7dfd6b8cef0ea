------------------------------ MODULE GitJournal ------------------------------
(***************************************************************************)
(* src/scripts/actions_git_journal.py: the journal is one Git branch.      *)
(*                                                                         *)
(* Git names a commit by the content of its whole ancestry, so a commit is *)
(* modelled as the sequence of its ancestors' nodes followed by its own:   *)
(* two commits are the same commit exactly when these sequences are equal, *)
(* and an ancestor is a prefix.  A node holds the tree (one record per     *)
(* request), the commit message (the request id) and the second in which   *)
(* the commit object was created, which is all that distinguishes two      *)
(* commits of the same content on the same parent.                         *)
(*                                                                         *)
(* The branch moves only through non-forced updates.  An update that was   *)
(* sent may be applied at any later time, or never (it was lost); the      *)
(* client does not look at the response (publish swallows every exception) *)
(* and may by then have read the branch back, failed or died.  Once the    *)
(* branch has moved, GitHub can only refuse the updates it has overtaken.  *)
(***************************************************************************)
EXTENDS JournalRecord, Sequences, SequencesExt

CONSTANTS
  Requests,    \* request ids: each is a fixed path of the tree
  Stamps,      \* seconds in which commit objects are created
  SameSecond,  \* may two equal commits be created in the same second?
  MaxCommits   \* bound: length of the branch, its first commit included

ASSUME GitAssumption ==
  /\ SameSecond \in BOOLEAN
  /\ MaxCommits \in Nat

VARIABLES
  head,        \* the commit the fixed ref points at
  inflight     \* commits created on top of it, their ref update sent

gitVars == <<head, inflight>>

Tree == [Requests -> Record \cup {NoValue}]

Node ==
  [tree: Tree,
   message: Requests \cup {NoValue},
   stamp: Stamps \cup {NoValue}]

Commit == Seq(Node)

NoCommit == << >>

(* The branch is provisioned by hand and holds no record yet.               *)
Genesis ==
  <<[tree |-> [r \in Requests |-> NoValue],
     message |-> NoValue, stamp |-> NoValue]>>

TreeOf(commit) == commit[Len(commit)].tree

RecordAt(commit, request) == TreeOf(commit)[request]

(* What load returns: the ref is read once and everything else is read      *)
(* from immutable objects pinned by that commit.                            *)
Load == head

\* Mutant: the tree is built from the changed path alone.
ChildWithoutBaseTree(base, request, rec, stamp) ==
  Append(base,
    [tree |-> [r \in Requests |-> IF r = request THEN rec ELSE NoValue],
     message |-> request, stamp |-> stamp])

(* The single-parent commit that changes one path of the base's tree.       *)
Child(base, request, rec, stamp) ==
  Append(base,
    [tree |-> [TreeOf(base) EXCEPT ![request] = rec],
     message |-> request, stamp |-> stamp])

\* Mutant: the ref update is forced.
ForcedUpdate(tip, commit) == TRUE

(* A non-forced update is applied only when the branch is an ancestor.      *)
FastForward(tip, commit) == IsPrefix(tip, commit)

\* Mutant: only the commit object is read back, not the ref.
ReadBackObject(commit) == commit # NoCommit

(* The readback that proves an update: the ref names this very commit.      *)
ReadBack(commit) == head = commit

-----------------------------------------------------------------------------
GitInit ==
  /\ head = Genesis
  /\ inflight = {}

(* Create the objects of a commit on top of head and send the ref update.   *)
(* publish checks just before that the branch has not moved, so a commit    *)
(* equal to an earlier one can only be equal to one still in flight.        *)
SendUpdate(commit) ==
  /\ Len(commit) <= MaxCommits
  /\ commit \in inflight => SameSecond
  /\ inflight' = inflight \cup {commit}
  /\ UNCHANGED head

(* The updates the branch has overtaken will only be refused: they are      *)
(* forgotten at once.                                                       *)
ApplyUpdate(commit) ==
  /\ FastForward(head, commit)
  /\ head' = commit
  /\ inflight' = {c \in inflight \ {commit} : FastForward(commit, c)}
=============================================================================
