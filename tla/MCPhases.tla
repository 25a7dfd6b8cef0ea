------------------------------- MODULE MCPhases -------------------------------
(***************************************************************************)
(* Small instances of the phases of one request.  A terminal code is the   *)
(* number of the comment it refers to.                                     *)
(***************************************************************************)
EXTENDS ActionsPhases, TLC

MCCodes == 1..MaxPosts

MCSize == [part \in Identities \cup Executions \cup Codes |-> 0]

MCSymmetry == Permutations(Jobs) \cup Permutations(Executions)
=============================================================================
