------------------------------- MODULE MCWebhook -------------------------------
(***************************************************************************)
(* Small instances of the webhook service.                                 *)
(***************************************************************************)
EXTENDS WebhookLedger, TLC

CONSTANTS d1, d2, d3, r1, r2, t1, t2, t3, i1, i2

(* t1 and t2 are threads of one process, t3 of another.                     *)
MCInstanceOf == [t \in Threads |-> IF t = t3 THEN i2 ELSE i1]

(* d2 is an edit of d1 that kept its request id.                            *)
MCRequestOf == [d \in Digests |-> IF d = d3 THEN r2 ELSE r1]

MCCreated == [d \in Digests |-> 0]
MCExpires == [d \in Digests |-> 1]

MCSymmetry ==
  Permutations(Threads \ {t3}) \cup Permutations(Issues) \cup Permutations(Deliveries)
=============================================================================
