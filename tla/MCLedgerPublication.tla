-------------------------- MODULE MCLedgerPublication --------------------------
(***************************************************************************)
(* Small instances of a governance.ledger request.                         *)
(***************************************************************************)
EXTENDS LedgerPublication, TLC

MCCodes == 1..MaxPosts

MCSize == [part \in Identities \cup Executions \cup Codes |-> 0]

MCSymmetry == Permutations(Jobs) \cup Permutations(Commits)
=============================================================================
