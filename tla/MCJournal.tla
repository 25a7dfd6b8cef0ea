------------------------------- MODULE MCJournal -------------------------------
(***************************************************************************)
(* Small instances of the journal.  bulky is an identity whose record fits *)
(* the size limit until a terminal code is added.                          *)
(***************************************************************************)
EXTENDS JournalCoordinator

CONSTANTS small, bulky

MCSize ==
  [p \in Identities \cup Executions \cup Codes |-> IF p = bulky THEN 3 ELSE 1]

MCSymmetry ==
  Permutations(Workers) \cup Permutations(Stamps) \cup
  Permutations(Executions) \cup Permutations(Requests)
=============================================================================
