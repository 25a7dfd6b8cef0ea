---------------------------- MODULE JournalRecord ----------------------------
(***************************************************************************)
(* The pure record state machine of src/src/ledger/actions_journal.rs and  *)
(* of the zach-actions command line that wraps it.                         *)
(*                                                                         *)
(* A record is the frozen request plus its progress:                       *)
(*   identity       everything check_replay compares: repository, Issue,   *)
(*                  author, canonical request and digest (the request id   *)
(*                  is the key the record is stored under)                 *)
(*   meta           frozen but never compared: the sender, the acceptance  *)
(*                  time and the policy revision                           *)
(*   state, execution_id, terminal_code                                    *)
(* terminal_code stands for the pair terminal_code, terminal_reference:    *)
(* both are set, compared and frozen together.                             *)
(*                                                                         *)
(* A serialized record may not exceed 64 KiB.  Size gives the bytes each   *)
(* variable-length part adds, MaxBytes the limit.                          *)
(***************************************************************************)
EXTENDS Naturals

CONSTANTS
  Identities,  \* frozen request identities
  Metas,       \* sender, acceptance time and policy revision
  Executions,  \* execution ids
  Codes,       \* terminal code and reference
  Size,        \* bytes each identity, execution id or code contributes
  MaxBytes,    \* MAX_JOURNAL_BYTES
  NoValue      \* None, and the absent record

ASSUME SizeAssumption ==
  /\ Size \in [Identities \cup Executions \cup Codes -> Nat]
  /\ MaxBytes \in Nat

ASSUME NoValueAssumption == NoValue \notin Identities \cup Executions \cup Codes

TerminalStates == {"succeeded", "rejected"}
States == {"accepted", "executing", "ambiguous"} \cup TerminalStates

Record ==
  [identity: Identities,
   meta: Metas,
   state: States,
   execution_id: Executions \cup {NoValue},
   terminal_code: Codes \cup {NoValue}]

ASSUME NoRecordAssumption == NoValue \notin Record

-----------------------------------------------------------------------------
(* Persistence: what to_json refuses to write and from_json to read back.   *)

SizeOf(part) == IF part = NoValue THEN 0 ELSE Size[part]

Serializes(rec) ==
  SizeOf(rec.identity) + SizeOf(rec.execution_id) + SizeOf(rec.terminal_code)
    <= MaxBytes

StateFieldsConsistent(rec) ==
  /\ (rec.execution_id = NoValue) <=> (rec.state = "accepted")
  /\ (rec.terminal_code = NoValue) <=> (rec.state \notin TerminalStates)

Reloads(rec) == Serializes(rec) /\ StateFieldsConsistent(rec)

-----------------------------------------------------------------------------
(* Transitions.                                                             *)

\* Mutant: acceptance drops the frozen metadata.
NewWithoutMeta(identity, meta) ==
  [identity |-> identity, meta |-> NoValue, state |-> "accepted",
   execution_id |-> NoValue, terminal_code |-> NoValue]

New(identity, meta) ==
  [identity |-> identity, meta |-> meta, state |-> "accepted",
   execution_id |-> NoValue, terminal_code |-> NoValue]

\* Mutant: any Issue carrying the request id is taken for a replay.
CheckReplayByKey(rec, identity) == TRUE

CheckReplay(rec, identity) == rec.identity = identity

\* Mutant: a claim repeated before completion is granted again.
ClaimOutcomeReentrant(rec) ==
  IF rec.state \in TerminalStates THEN "terminal_replay" ELSE "granted"

ClaimOutcome(rec) ==
  IF rec.state = "accepted" THEN "granted"
  ELSE IF rec.state \in {"executing", "ambiguous"} THEN "reconciliation_required"
  ELSE "terminal_replay"

ClaimExecution(rec, execution) ==
  [rec EXCEPT !.state = "executing", !.execution_id = execution]

SameTerminal(rec, state, code) ==
  /\ rec.state \in TerminalStates
  /\ rec.state = state
  /\ rec.terminal_code = code

\* Mutant: completion replaces a different terminal outcome.
CanCompleteAgain(rec, state, code) ==
  rec.state = "executing" \/ rec.state \in TerminalStates

CanComplete(rec, state, code) ==
  rec.state = "executing" \/ SameTerminal(rec, state, code)

CanReconcile(rec, state, code) ==
  rec.state = "ambiguous" \/ SameTerminal(rec, state, code)

Settle(rec, state, code) ==
  [rec EXCEPT !.state = state, !.terminal_code = code]

\* Mutant: an outcome can be put in doubt.
CanMarkAmbiguousLate(rec) == rec.state # "accepted"

CanMarkAmbiguous(rec) == rec.state \in {"executing", "ambiguous"}

MarkAmbiguous(rec) == [rec EXCEPT !.state = "ambiguous"]
=============================================================================
