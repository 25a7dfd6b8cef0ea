--------------------------------- MODULE Paging ---------------------------------
(***************************************************************************)
(* GitHub answers one page of a listing per request; every reader of the   *)
(* scripts asks for 100 items a page and for no more than ten pages        *)
(* (eleven of pull requests).                                              *)
(***************************************************************************)
EXTENDS Naturals, Sequences, SequencesExt

CONSTANTS PerPage, MaxPages

ASSUME PagingAssumption == PerPage \in Nat \ {0} /\ MaxPages \in Nat \ {0}

PageOf(list, page) ==
  SubSeq(list, (page - 1) * PerPage + 1,
         IF page * PerPage < Len(list) THEN page * PerPage ELSE Len(list))
=============================================================================
