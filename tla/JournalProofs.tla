---------------------------- MODULE JournalProofs ----------------------------
(***************************************************************************)
(* Proofs about the journal, for any number of workers, requests,          *)
(* executions and commits.                                                 *)
(***************************************************************************)
EXTENDS JournalCoordinator, TLAPS

-----------------------------------------------------------------------------
(* The record state machine.                                                *)

(* A permitted transition turns a stored record, or none, into a record.    *)
LEMMA DraftType ==
  ASSUME NEW c \in Call, NEW rec \in Record \cup {NoValue}, Proceeds(rec, c)
  PROVE  Draft(rec, c) \in Record
BY NoRecordAssumption
   DEF Call, AcceptCall, ClaimCall, AmbiguousCall, SettleCall, Draft,
     Record, States, TerminalStates, Proceeds, Permitted, Owns, New,
     ClaimExecution, MarkAmbiguous, Settle

(* What a permitted transition preserves: the frozen identity, the owner    *)
(* once there is one, and everything once the record is terminal.           *)
LEMMA DraftPreserves ==
  ASSUME NEW c \in Call, NEW rec \in Record, Proceeds(rec, c)
  PROVE  /\ Draft(rec, c).identity = rec.identity
         /\ Draft(rec, c).meta = rec.meta
         /\ Draft(rec, c).state # "accepted"
         /\ rec.state # "accepted" => Draft(rec, c).execution_id = rec.execution_id
         /\ rec.state \in TerminalStates => Draft(rec, c) = rec
BY NoRecordAssumption
   DEF Call, AcceptCall, ClaimCall, AmbiguousCall, SettleCall, Draft,
     Record, States, TerminalStates, Proceeds, Permitted, Owns,
     ClaimExecution, MarkAmbiguous, Settle, ClaimOutcome, SameTerminal,
     CanComplete, CanReconcile, CanMarkAmbiguous

(* A record a permitted transition produces can be loaded again.            *)
LEMMA DraftReloads ==
  ASSUME NEW c \in Call, NEW rec \in Record \cup {NoValue}, Proceeds(rec, c)
  PROVE  Reloads(Draft(rec, c))
<1>1. Serializes(Draft(rec, c))
  BY DEF Proceeds
<1>2. StateFieldsConsistent(Draft(rec, c))
  BY NoRecordAssumption, NoValueAssumption
     DEF Call, AcceptCall, ClaimCall, AmbiguousCall, SettleCall, Draft,
       Record, States, TerminalStates, Proceeds, Readable, Permitted, Owns, New,
       ClaimExecution, MarkAmbiguous, Settle, ClaimOutcome, SameTerminal,
       CanComplete, CanReconcile, CanMarkAmbiguous, Reloads,
       StateFieldsConsistent
<1> QED BY <1>1, <1>2 DEF Reloads

(* What a granted claim publishes.                                          *)
LEMMA ClaimDraft ==
  ASSUME NEW c \in Call, NEW rec \in Record \cup {NoValue}, Proceeds(rec, c),
         c.op = "claim"
  PROVE  /\ rec \in Record
         /\ rec.state = "accepted"
         /\ Draft(rec, c).state = "executing"
         /\ Draft(rec, c).execution_id = c.execution_id
         /\ Draft(rec, c) # rec
BY NoRecordAssumption
   DEF Call, AcceptCall, ClaimCall, AmbiguousCall, SettleCall, Draft,
     Record, States, TerminalStates, Proceeds, Permitted, ClaimExecution,
     ClaimOutcome

(* What an accepted acceptance publishes.                                   *)
LEMMA AcceptDraft ==
  ASSUME NEW c \in Call, NEW rec \in Record \cup {NoValue}, Proceeds(rec, c),
         c.op = "accept"
  PROVE  rec = NoValue /\ Draft(rec, c).identity = c.identity
BY NoRecordAssumption
   DEF Call, AcceptCall, ClaimCall, AmbiguousCall, SettleCall, Draft,
     Proceeds, Permitted, New, Owns

(* What a completion or a reconciliation publishes.                         *)
LEMMA SettleDraft ==
  ASSUME NEW c \in Call, NEW rec \in Record \cup {NoValue}, Proceeds(rec, c),
         c.op \in {"complete", "reconcile"}
  PROVE  /\ Draft(rec, c).state = c.state
         /\ Draft(rec, c).terminal_code = c.code
         /\ c.state \in TerminalStates /\ c.code \in Codes
BY NoRecordAssumption
   DEF Call, AcceptCall, ClaimCall, AmbiguousCall, SettleCall, Draft,
     Record, Proceeds, Permitted, Settle, Owns

-----------------------------------------------------------------------------
(* Commits.                                                                 *)

(* Every commit but the missing one has a tree.                             *)
LEMMA TreeType ==
  ASSUME NEW b \in Commit, b # NoCommit
  PROVE  TreeOf(b) \in Tree
<1>1. Len(b) \in 1..Len(b)
  BY DEF Commit, NoCommit
<1>2. b[Len(b)] \in Node
  BY <1>1 DEF Commit
<1> QED BY <1>2 DEF Node, TreeOf

(* A child has its parent's tree but for one path.                          *)
LEMMA ChildFacts ==
  ASSUME NEW b \in Commit, b # NoCommit, NEW r \in Requests, NEW rec \in Record,
         NEW s \in Stamps
  PROVE  /\ TreeOf(b) \in Tree
         /\ Child(b, r, rec, s) \in Commit
         /\ Child(b, r, rec, s) # NoCommit
         /\ Len(Child(b, r, rec, s)) = Len(b) + 1
         /\ TreeOf(Child(b, r, rec, s)) = [TreeOf(b) EXCEPT ![r] = rec]
<1>1. TreeOf(b) \in Tree
  BY TreeType
<1> DEFINE node == [tree |-> [TreeOf(b) EXCEPT ![r] = rec],
                    message |-> r, stamp |-> s]
<1>2. node \in Node
  BY <1>1 DEF Node, Tree
<1>3. Child(b, r, rec, s) = Append(b, node)
  BY DEF Child
<1> HIDE DEF node
<1>4. /\ Append(b, node) \in Seq(Node)
      /\ Len(Append(b, node)) = Len(b) + 1
      /\ Append(b, node)[Len(b) + 1] = node
  BY <1>2 DEF Commit
<1>5. node.tree = [TreeOf(b) EXCEPT ![r] = rec]
  BY DEF node
<1>6. Len(b) \in Nat
  BY DEF Commit
<1>7. Child(b, r, rec, s) # NoCommit
  BY <1>3, <1>4, <1>6 DEF NoCommit
<1> QED BY <1>1, <1>3, <1>4, <1>5, <1>7 DEF TreeOf, Commit

(* A child determines its parent.                                           *)
LEMMA ChildInjective ==
  ASSUME NEW b1 \in Commit, NEW b2 \in Commit,
         NEW r1, NEW rec1, NEW s1, NEW r2, NEW rec2, NEW s2,
         Child(b1, r1, rec1, s1) = Child(b2, r2, rec2, s2)
  PROVE  b1 = b2
BY DEF Child, Commit
-----------------------------------------------------------------------------
(* Type correctness.                                                        *)

(* What a loaded worker goes by.                                            *)
LEMMA LoadedFacts ==
  ASSUME TypeOK, CallsPinned, NEW w \in Workers, pc[w] # "idle"
  PROVE  /\ call[w] \in Call
         /\ call[w].request \in Requests
         /\ base[w] \in Commit /\ base[w] # NoCommit
         /\ Loaded(w) \in Record \cup {NoValue}
<1>1. call[w] \in Call /\ base[w] \in Commit /\ base[w] # NoCommit
  BY DEF TypeOK, CallsPinned
<1>2. call[w].request \in Requests
  BY <1>1 DEF Call, AcceptCall, ClaimCall, AmbiguousCall, SettleCall
<1>3. TreeOf(base[w]) \in Tree
  BY <1>1, TreeType
<1> QED BY <1>1, <1>2, <1>3 DEF Loaded, RecordAt, Tree

(* The branch always holds a tree.                                          *)
LEMMA StoredType ==
  ASSUME TypeOK, InflightPermitted
  PROVE  Stored \in Tree /\ head \in Commit /\ head # NoCommit
BY TreeType DEF TypeOK, InflightPermitted, Stored

(* A commit in flight is a child of head that performs a permitted call.    *)
LEMMA InflightFacts ==
  ASSUME TypeOK, InflightPermitted, NEW commit \in inflight
  PROVE  \E c \in Call, stamp \in Stamps :
           /\ c.request \in Requests
           /\ Stored[c.request] \in Record \cup {NoValue}
           /\ Proceeds(Stored[c.request], c)
           /\ Draft(Stored[c.request], c) \in Record
           /\ commit = Child(head, c.request, Draft(Stored[c.request], c), stamp)
<1>1. PICK c \in Call, stamp \in Stamps :
        /\ Proceeds(RecordAt(head, c.request), c)
        /\ commit = Child(head, c.request,
                          Draft(RecordAt(head, c.request), c), stamp)
  BY DEF InflightPermitted
<1>2. c.request \in Requests
  BY DEF Call, AcceptCall, ClaimCall, AmbiguousCall, SettleCall
<1>3. Stored[c.request] \in Record \cup {NoValue}
  BY <1>2, StoredType DEF Tree
<1>4. RecordAt(head, c.request) = Stored[c.request]
  BY DEF RecordAt, Stored
<1>5. Draft(Stored[c.request], c) \in Record
  BY <1>1, <1>3, <1>4, DraftType
<1> QED BY <1>1, <1>2, <1>3, <1>4, <1>5

(* The first state.                                                         *)
LEMMA GenesisFacts ==
  /\ Genesis \in Commit
  /\ Genesis # NoCommit
  /\ TreeOf(Genesis) = [r \in Requests |-> NoValue]
BY DEF Genesis, Commit, Node, Tree, NoCommit, TreeOf

(* The first state has the types.                                           *)
LEMMA TypeInit == Init => TypeOK
BY GenesisFacts DEF Init, GitInit, TypeOK, NoCommit, Commit

(* What a call's result does to the histories.                              *)
LEMMA SucceedType ==
  ASSUME TypeOK, CallsPinned, NEW w \in Workers, pc[w] # "idle", Succeed(w)
  PROVE  /\ grants' \in [Requests -> Seq(Executions)]
         /\ accepted' \in [Requests -> SUBSET Identities]
         /\ settled' \in [Requests -> SUBSET [state: TerminalStates, code: Codes]]
<1>1. call[w] \in Call /\ call[w].request \in Requests
  BY LoadedFacts
<1>2. grants' \in [Requests -> Seq(Executions)]
  BY <1>1 DEF Succeed, RecordGrant, TypeOK, Call, AcceptCall, ClaimCall,
     AmbiguousCall, SettleCall
<1>3. accepted' \in [Requests -> SUBSET Identities]
  BY <1>1 DEF Succeed, RecordAcceptance, TypeOK, Call, AcceptCall, ClaimCall,
     AmbiguousCall, SettleCall
<1>4. settled' \in [Requests -> SUBSET [state: TerminalStates, code: Codes]]
  BY <1>1 DEF Succeed, RecordOutcome, TypeOK, Call, AcceptCall, ClaimCall,
     AmbiguousCall, SettleCall
<1> QED BY <1>2, <1>3, <1>4

(* The end of a call keeps the types.                                       *)
LEMMA FinishType ==
  ASSUME TypeOK, NEW w \in Workers, Finish(w)
  PROVE  /\ pc' \in [Workers -> {"idle", "loaded", "sent"}]
         /\ call' \in [Workers -> Call \cup {NoValue}]
         /\ base' \in [Workers -> Commit]
         /\ candidate' \in [Workers -> Commit]
BY DEF TypeOK, Finish, NoCommit, Commit

(* Every step keeps the types.                                              *)
LEMMA TypeStep ==
  ASSUME TypeOK, InflightPermitted, CallsPinned, [Next]_vars
  PROVE  TypeOK'
<1> USE DEF vars, gitVars, callVars, historyVars
<1>1. CASE UNCHANGED vars
  BY <1>1 DEF TypeOK
<1>2. ASSUME NEW w \in Workers, NEW c \in Call, Begin(w, c)
      PROVE  TypeOK'
  BY <1>2, StoredType DEF Begin, Load, TypeOK
<1>3. ASSUME NEW w \in Workers,
             Refuse(w) \/ Conflict(w) \/ Fail(w)
      PROVE  TypeOK'
  <2>1. Finish(w) /\ UNCHANGED <<gitVars, historyVars>>
    BY <1>3 DEF Refuse, Conflict, Fail
  <2> QED BY <2>1, FinishType DEF TypeOK
<1>4. ASSUME NEW w \in Workers, Replay(w)
      PROVE  TypeOK'
  <2>1. call[w] \in Call
    BY <1>4, LoadedFacts DEF Replay
  <2>2. accepted' \in [Requests -> SUBSET Identities]
    BY <1>4, <2>1 DEF Replay, RecordAcceptance, TypeOK, Call, AcceptCall,
       ClaimCall, AmbiguousCall, SettleCall
  <2> QED BY <1>4, <2>2, FinishType DEF Replay, TypeOK
<1>5. ASSUME NEW w \in Workers, Unchanged(w) \/ Confirm(w)
      PROVE  TypeOK'
  <2>1. Succeed(w) /\ UNCHANGED gitVars /\ pc[w] # "idle"
    BY <1>5 DEF Unchanged, Confirm
  <2>2. Finish(w)
    BY <2>1 DEF Succeed
  <2> QED BY <2>1, <2>2, FinishType, SucceedType DEF TypeOK
<1>6. ASSUME NEW w \in Workers, Publish(w)
      PROVE  TypeOK'
  <2>1. PICK stamp \in Stamps :
          LET commit == Child(base[w], call[w].request,
                              Draft(Loaded(w), call[w]), stamp)
          IN  SendUpdate(commit) /\ candidate' = [candidate EXCEPT ![w] = commit]
    BY <1>6 DEF Publish
  <2>2. Child(base[w], call[w].request, Draft(Loaded(w), call[w]), stamp) \in Commit
    BY <1>6, LoadedFacts, DraftType, ChildFacts DEF Publish
  <2> QED BY <1>6, <2>1, <2>2 DEF Publish, SendUpdate, TypeOK
<1>7. ASSUME NEW commit \in inflight, Update(commit)
      PROVE  TypeOK'
  BY <1>7 DEF Update, ApplyUpdate, TypeOK
<1> QED BY <1>1, <1>2, <1>3, <1>4, <1>5, <1>6, <1>7 DEF Next

-----------------------------------------------------------------------------
(* How the stored records move.                                             *)

(* A record stays, appears, or progresses by one permitted transition.      *)
Evolves(old, new) ==
  \/ new = old
  \/ /\ new \in Record /\ Reloads(new)
     /\ old # NoValue =>
          /\ new.identity = old.identity
          /\ new.state # "accepted"
          /\ old.state # "accepted" => new.execution_id = old.execution_id
          /\ old.state \in TerminalStates => new = old

(* A permitted transition lets its record evolve.                           *)
LEMMA DraftEvolves ==
  ASSUME NEW c \in Call, NEW rec \in Record \cup {NoValue}, Proceeds(rec, c)
  PROVE  Evolves(rec, Draft(rec, c))
BY DraftType, DraftReloads, DraftPreserves DEF Evolves

(* Only an applied update moves the branch, and then to a child.            *)
LEMMA OnlyUpdateMoves ==
  ASSUME [Next]_vars
  PROVE  \/ head' = head
         \/ \E commit \in inflight : Update(commit)
BY DEF Next, vars, gitVars, Begin, Refuse, Replay, Conflict, Unchanged, Publish,
   SendUpdate, Confirm, Fail, Update

(* An applied update stores the draft of one permitted call.                *)
LEMMA UpdateStores ==
  ASSUME TypeOK, InflightPermitted, NEW commit \in inflight, Update(commit)
  PROVE  \E c \in Call :
           /\ c.request \in Requests
           /\ Stored[c.request] \in Record \cup {NoValue}
           /\ Proceeds(Stored[c.request], c)
           /\ Stored' = [Stored EXCEPT ![c.request] = Draft(Stored[c.request], c)]
           /\ head' \in Commit /\ head' # NoCommit /\ Len(head') = Len(head) + 1
<1>1. PICK c \in Call, stamp \in Stamps :
        /\ c.request \in Requests
        /\ Stored[c.request] \in Record \cup {NoValue}
        /\ Proceeds(Stored[c.request], c)
        /\ Draft(Stored[c.request], c) \in Record
        /\ commit = Child(head, c.request, Draft(Stored[c.request], c), stamp)
  BY InflightFacts
<1>2. head' = commit
  BY DEF Update, ApplyUpdate
<1>3. /\ commit \in Commit /\ commit # NoCommit /\ Len(commit) = Len(head) + 1
      /\ TreeOf(commit) = [Stored EXCEPT ![c.request] = Draft(Stored[c.request], c)]
  BY <1>1, StoredType, ChildFacts DEF Stored
<1>4. Stored' = TreeOf(commit)
  BY <1>2 DEF Stored, TreeOf
<1> QED BY <1>1, <1>2, <1>3, <1>4

(* Every step lets every stored record evolve.                              *)
LEMMA StoredEvolves ==
  ASSUME TypeOK, InflightPermitted, [Next]_vars, NEW r \in Requests
  PROVE  Evolves(Stored[r], Stored'[r])
<1>1. CASE head' = head
  BY <1>1 DEF Stored, TreeOf, Evolves
<1>2. ASSUME NEW commit \in inflight, Update(commit)
      PROVE  Evolves(Stored[r], Stored'[r])
  <2>1. PICK c \in Call :
          /\ c.request \in Requests
          /\ Stored[c.request] \in Record \cup {NoValue}
          /\ Proceeds(Stored[c.request], c)
          /\ Stored' = [Stored EXCEPT ![c.request] = Draft(Stored[c.request], c)]
    BY <1>2, UpdateStores
  <2>2. Stored \in Tree
    BY StoredType
  <2>3. CASE r = c.request
    BY <2>1, <2>2, <2>3, DraftEvolves DEF Tree
  <2>4. CASE r # c.request
    BY <2>1, <2>2, <2>4 DEF Tree, Evolves
  <2> QED BY <2>3, <2>4
<1> QED BY <1>1, <1>2, OnlyUpdateMoves

-----------------------------------------------------------------------------
(* The inductive step of the journal's invariant, conjunct by conjunct.     *)

(* The updates in flight stay permitted: the others die when one is applied.*)
LEMMA InflightStep ==
  ASSUME TypeOK, InflightPermitted, CallsPinned, [Next]_vars
  PROVE  InflightPermitted'
<1>1. CASE UNCHANGED gitVars
  BY <1>1 DEF InflightPermitted, gitVars, RecordAt, TreeOf, Child
<1>2. ASSUME NEW w \in Workers, Publish(w)
      PROVE  InflightPermitted'
  <2>1. PICK stamp \in Stamps :
          /\ head' = head
          /\ inflight' = inflight \cup
               {Child(base[w], call[w].request, Draft(Loaded(w), call[w]), stamp)}
    BY <1>2 DEF Publish, SendUpdate
  <2>2. /\ call[w] \in Call
        /\ base[w] = head
        /\ Proceeds(Loaded(w), call[w])
        /\ Loaded(w) = RecordAt(head, call[w].request)
    BY <1>2, LoadedFacts DEF Publish, Load, Loaded
  <2> SUFFICES ASSUME NEW commit \in inflight'
               PROVE  \E c \in Call, s \in Stamps :
                        /\ Proceeds(RecordAt(head, c.request), c)
                        /\ commit = Child(head, c.request,
                                          Draft(RecordAt(head, c.request), c), s)
    BY <2>1 DEF InflightPermitted, RecordAt, TreeOf, Child
  <2>3. CASE commit \in inflight
    BY <2>3 DEF InflightPermitted
  <2>4. CASE commit = Child(base[w], call[w].request, Draft(Loaded(w), call[w]), stamp)
    BY <2>2, <2>4
  <2> QED BY <2>1, <2>3, <2>4
<1>3. ASSUME NEW commit \in inflight, Update(commit)
      PROVE  InflightPermitted'
  <2>1. head' # NoCommit /\ head' = commit
    BY <1>3, UpdateStores DEF Update, ApplyUpdate
  <2>2. ASSUME NEW c \in inflight
        PROVE  c \in Commit /\ Len(c) = Len(head) + 1
    BY <2>2, InflightFacts, ChildFacts, StoredType
  <2>3. ASSUME NEW c \in inflight \ {commit}
        PROVE  ~FastForward(commit, c)
    <3>1. /\ c \in Commit /\ commit \in Commit /\ Len(c) = Len(commit)
      BY <2>2
    <3>2. SubSeq(commit, 1, Len(commit)) = commit /\ SubSeq(c, 1, Len(c)) = c
      BY <3>1 DEF Commit
    <3> QED BY <3>1, <3>2 DEF FastForward, IsPrefix
  <2>4. inflight' = {}
    BY <1>3, <2>3 DEF Update, ApplyUpdate
  <2> QED BY <2>1, <2>4 DEF InflightPermitted
<1> QED BY <1>1, <1>2, <1>3 DEF Next, vars, Begin, Refuse, Replay, Conflict,
     Unchanged, Confirm, Fail, gitVars

(* What one step does to the call of a worker.                              *)
LEMMA CallStep ==
  ASSUME TypeOK, [Next]_vars, NEW v \in Workers
  PROVE  \/ pc'[v] = "idle"
         \/ /\ pc[v] = "idle" /\ pc'[v] = "loaded" /\ base'[v] = head
            /\ call'[v] \in Call /\ head' = head
         \/ pc[v] = "loaded" /\ pc'[v] = "sent" /\ Publish(v)
         \/ /\ pc'[v] = pc[v] /\ call'[v] = call[v]
            /\ base'[v] = base[v] /\ candidate'[v] = candidate[v]
<1>1. CASE UNCHANGED callVars
  BY <1>1 DEF callVars
<1>2. ASSUME NEW w \in Workers, NEW c \in Call, Begin(w, c)
      PROVE  \/ v # w /\ UNCHANGED <<pc[v], call[v], base[v], candidate[v]>>
             \/ /\ v = w /\ pc[v] = "idle" /\ pc'[v] = "loaded"
                /\ base'[v] = head /\ call'[v] \in Call /\ head' = head
  BY <1>2 DEF Begin, Load, TypeOK, gitVars
<1>3. ASSUME NEW w \in Workers, Finish(w)
      PROVE  \/ v # w /\ UNCHANGED <<pc[v], call[v], base[v], candidate[v]>>
             \/ v = w /\ pc'[v] = "idle"
  BY <1>3 DEF Finish, TypeOK
<1>4. ASSUME NEW w \in Workers, Publish(w)
      PROVE  \/ v # w /\ UNCHANGED <<pc[v], call[v], base[v], candidate[v]>>
             \/ v = w /\ pc[v] = "loaded" /\ pc'[v] = "sent"
  BY <1>4 DEF Publish, TypeOK
<1>5. ASSUME NEW w \in Workers,
             Refuse(w) \/ Replay(w) \/ Conflict(w) \/ Unchanged(w) \/ Confirm(w)
               \/ Fail(w)
      PROVE  Finish(w)
  BY <1>5 DEF Refuse, Replay, Conflict, Unchanged, Confirm, Succeed, Fail
<1>6. ASSUME NEW commit \in inflight, Update(commit)
      PROVE  UNCHANGED callVars
  BY <1>6 DEF Update
<1> QED BY <1>1, <1>2, <1>3, <1>4, <1>5, <1>6 DEF Next, vars, callVars

(* The pinned commit and the published candidate of a sent call.            *)
LEMMA PublishFacts ==
  ASSUME TypeOK, CallsPinned, NEW w \in Workers, Publish(w)
  PROVE  /\ base'[w] = base[w] /\ call'[w] = call[w]
         /\ base[w] = head /\ head' = head
         /\ Proceeds(Loaded(w), call[w])
         /\ \E stamp \in Stamps :
              /\ candidate'[w] = Child(base[w], call[w].request,
                                       Draft(Loaded(w), call[w]), stamp)
              /\ SendUpdate(candidate'[w])
<1>1. PICK stamp \in Stamps :
        LET commit == Child(base[w], call[w].request,
                            Draft(Loaded(w), call[w]), stamp)
        IN  SendUpdate(commit) /\ candidate' = [candidate EXCEPT ![w] = commit]
  BY DEF Publish
<1>2. candidate'[w] = Child(base[w], call[w].request,
                            Draft(Loaded(w), call[w]), stamp)
  BY <1>1 DEF TypeOK
<1> QED BY <1>1, <1>2 DEF Publish, Load, SendUpdate

(* Calls stay pinned to the commit they loaded.                             *)
LEMMA CallsStep ==
  ASSUME TypeOK, InflightPermitted, CallsPinned, [Next]_vars
  PROVE  CallsPinned'
<1> SUFFICES ASSUME NEW v \in Workers
             PROVE  /\ pc'[v] # "idle" => call'[v] \in Call /\ base'[v] # NoCommit
                    /\ pc'[v] = "sent" =>
                         /\ Proceeds(RecordAt(base'[v], call'[v].request), call'[v])
                         /\ \E stamp \in Stamps :
                              candidate'[v] =
                                Child(base'[v], call'[v].request,
                                      Draft(RecordAt(base'[v], call'[v].request),
                                            call'[v]), stamp)
  BY DEF CallsPinned, Loaded, RecordAt, TreeOf, Child
<1>1. CASE pc'[v] = "idle"
  BY <1>1
<1>2. CASE /\ pc[v] = "idle" /\ pc'[v] = "loaded" /\ base'[v] = head
           /\ call'[v] \in Call /\ head' = head
  BY <1>2 DEF InflightPermitted
<1>3. CASE pc[v] = "loaded" /\ pc'[v] = "sent" /\ Publish(v)
  BY <1>3, PublishFacts, LoadedFacts DEF Loaded
<1>4. CASE /\ pc'[v] = pc[v] /\ call'[v] = call[v]
           /\ base'[v] = base[v] /\ candidate'[v] = candidate[v]
  BY <1>4 DEF CallsPinned, Loaded
<1> QED BY <1>1, <1>2, <1>3, <1>4, CallStep

(* What a call loaded stays frozen.                                         *)
LEMMA LoadedStep ==
  ASSUME TypeOK, InflightPermitted, CallsPinned, LoadedIsFrozen, [Next]_vars
  PROVE  LoadedIsFrozen'
<1> SUFFICES ASSUME NEW v \in Workers, pc'[v] # "idle",
                    RecordAt(base'[v], call'[v].request) # NoValue
             PROVE  /\ Stored'[call'[v].request] # NoValue
                    /\ Stored'[call'[v].request].identity =
                         RecordAt(base'[v], call'[v].request).identity
  BY DEF LoadedIsFrozen, Loaded, RecordAt, TreeOf
<1>1. CASE /\ pc[v] = "idle" /\ pc'[v] = "loaded" /\ base'[v] = head
           /\ call'[v] \in Call /\ head' = head
  BY <1>1 DEF Stored, RecordAt, TreeOf
<1>2. CASE pc[v] # "idle" /\ call'[v] = call[v] /\ base'[v] = base[v]
  <2>1. /\ Stored[call[v].request] # NoValue
        /\ Stored[call[v].request].identity =
             RecordAt(base'[v], call'[v].request).identity
    BY <1>2 DEF LoadedIsFrozen, Loaded
  <2>2. Evolves(Stored[call[v].request], Stored'[call[v].request])
    BY <1>2, LoadedFacts, StoredEvolves
  <2> QED BY <1>2, <2>1, <2>2, NoRecordAssumption DEF Evolves
<1> QED BY <1>1, <1>2, CallStep, PublishFacts

(* What a step adds to the histories: nothing, or the result of one call    *)
(* that succeeds while the branch holds what it reports.                    *)
LEMMA ResultStep ==
  ASSUME TypeOK, InflightPermitted, CallsPinned, LoadedIsFrozen, [Next]_vars
  PROVE  \/ UNCHANGED historyVars
         \/ \E w \in Workers :
              /\ call[w] \in Call /\ call[w].request \in Requests
              /\ head' = head
              /\ \/ /\ call[w].op = "accept"
                    /\ Stored[call[w].request] # NoValue
                    /\ Stored[call[w].request].identity = call[w].identity
                    /\ RecordAcceptance(call[w]) /\ UNCHANGED <<grants, settled>>
                 \/ /\ call[w].op = "claim"
                    /\ Stored[call[w].request] \in Record
                    /\ Stored[call[w].request].state = "executing"
                    /\ Stored[call[w].request].execution_id = call[w].execution_id
                    /\ Confirm(w)
                    /\ RecordGrant(call[w]) /\ UNCHANGED <<accepted, settled>>
                 \/ /\ call[w].op \in {"complete", "reconcile"}
                    /\ Stored[call[w].request] # NoValue
                    /\ Stored[call[w].request].state = call[w].state
                    /\ Stored[call[w].request].terminal_code = call[w].code
                    /\ RecordOutcome(call[w]) /\ UNCHANGED <<accepted, grants>>
<1>1. CASE UNCHANGED historyVars
  BY <1>1
<1>2. ASSUME NEW w \in Workers, Replay(w), ~UNCHANGED historyVars
      PROVE  /\ call[w] \in Call /\ call[w].request \in Requests
             /\ head' = head
             /\ call[w].op = "accept"
             /\ Stored[call[w].request] # NoValue
             /\ Stored[call[w].request].identity = call[w].identity
             /\ RecordAcceptance(call[w]) /\ UNCHANGED <<grants, settled>>
  <2>1. call[w].op = "accept"
    BY <1>2 DEF Replay, RecordAcceptance, historyVars
  <2>2. Loaded(w) # NoValue /\ Loaded(w).identity = call[w].identity
    BY <1>2, <2>1 DEF Replay, Replays, CheckReplay
  <2> QED BY <1>2, <2>1, <2>2, LoadedFacts DEF Replay, LoadedIsFrozen, gitVars
<1>3. ASSUME NEW w \in Workers, Unchanged(w) \/ Confirm(w), ~UNCHANGED historyVars
      PROVE  /\ call[w] \in Call /\ call[w].request \in Requests
             /\ head' = head
             /\ \/ /\ call[w].op = "accept"
                   /\ Stored[call[w].request] # NoValue
                   /\ Stored[call[w].request].identity = call[w].identity
                   /\ RecordAcceptance(call[w]) /\ UNCHANGED <<grants, settled>>
                \/ /\ call[w].op = "claim"
                   /\ Stored[call[w].request] \in Record
                   /\ Stored[call[w].request].state = "executing"
                   /\ Stored[call[w].request].execution_id = call[w].execution_id
                   /\ Confirm(w)
                   /\ RecordGrant(call[w]) /\ UNCHANGED <<accepted, settled>>
                \/ /\ call[w].op \in {"complete", "reconcile"}
                   /\ Stored[call[w].request] # NoValue
                   /\ Stored[call[w].request].state = call[w].state
                   /\ Stored[call[w].request].terminal_code = call[w].code
                   /\ RecordOutcome(call[w]) /\ UNCHANGED <<accepted, grants>>
  <2>1. /\ call[w] \in Call /\ call[w].request \in Requests
        /\ base[w] \in Commit /\ base[w] # NoCommit
        /\ Loaded(w) \in Record \cup {NoValue}
    BY <1>3, LoadedFacts DEF Unchanged, Confirm
  <2>2. Proceeds(Loaded(w), call[w])
    BY <1>3 DEF Unchanged, Confirm, CallsPinned
  <2>3. Stored[call[w].request] = Draft(Loaded(w), call[w])
    <3>1. CASE Unchanged(w)
      BY <3>1 DEF Unchanged, Load, Loaded, RecordAt, Stored
    <3>2. CASE Confirm(w)
      <4>1. PICK stamp \in Stamps :
              head = Child(base[w], call[w].request,
                           Draft(Loaded(w), call[w]), stamp)
        BY <3>2 DEF Confirm, ReadBack, CallsPinned
      <4>2. Draft(Loaded(w), call[w]) \in Record
        BY <2>1, <2>2, DraftType
      <4>3. TreeOf(head) = [TreeOf(base[w]) EXCEPT
                              ![call[w].request] = Draft(Loaded(w), call[w])]
        BY <2>1, <4>1, <4>2, ChildFacts
      <4>4. TreeOf(base[w]) \in Tree
        BY <2>1, TreeType
      <4> QED BY <2>1, <4>3, <4>4 DEF Stored, Tree
    <3> QED BY <1>3, <3>1, <3>2
  <2>4. Draft(Loaded(w), call[w]) \in Record
    BY <2>1, <2>2, DraftType
  <2>5. Succeed(w) /\ head' = head
    BY <1>3 DEF Unchanged, Confirm, gitVars
  <2>6. CASE call[w].op = "accept"
    BY <2>1, <2>2, <2>3, <2>4, <2>5, <2>6, AcceptDraft, NoRecordAssumption
       DEF Succeed, RecordAcceptance, RecordGrant, RecordOutcome
  <2>7. CASE call[w].op = "claim"
    <3>1. Confirm(w)
      BY <1>3, <2>1, <2>2, <2>7, ClaimDraft DEF Unchanged
    <3> QED BY <2>1, <2>2, <2>3, <2>4, <2>5, <2>7, <3>1, ClaimDraft
       DEF Succeed, RecordAcceptance, RecordGrant, RecordOutcome
  <2>8. CASE call[w].op \in {"complete", "reconcile"}
    BY <2>1, <2>2, <2>3, <2>4, <2>5, <2>8, SettleDraft, NoRecordAssumption
       DEF Succeed, RecordAcceptance, RecordGrant, RecordOutcome
  <2>9. CASE call[w].op = "ambiguous"
    BY <1>3, <2>5, <2>9
       DEF Succeed, RecordAcceptance, RecordGrant, RecordOutcome, historyVars
  <2> QED BY <2>1, <2>5, <2>6, <2>7, <2>8, <2>9
     DEF Call, AcceptCall, ClaimCall, AmbiguousCall, SettleCall
<1> QED BY <1>1, <1>2, <1>3 DEF Next, vars, Begin, Refuse, Conflict, Publish,
     Fail, Update

(* Grants stay durable.                                                     *)
LEMMA GrantStep ==
  ASSUME TypeOK, InflightPermitted, CallsPinned, LoadedIsFrozen, GrantIsDurable,
         [Next]_vars
  PROVE  GrantIsDurable'
<1> SUFFICES ASSUME NEW r \in Requests, NEW i \in 1..Len(grants'[r])
             PROVE  /\ Stored'[r] # NoValue
                    /\ Stored'[r].state # "accepted"
                    /\ Stored'[r].execution_id = grants'[r][i]
  BY DEF GrantIsDurable
<1>1. CASE grants'[r] = grants[r]
  <2>1. /\ Stored[r] # NoValue /\ Stored[r].state # "accepted"
        /\ Stored[r].execution_id = grants[r][i]
    BY <1>1 DEF GrantIsDurable
  <2> QED BY <1>1, <2>1, StoredEvolves, NoRecordAssumption DEF Evolves
<1>2. ASSUME NEW w \in Workers,
             call[w] \in Call, call[w].request = r,
             head' = head,
             call[w].op = "claim",
             Stored[r] \in Record,
             Stored[r].state = "executing",
             Stored[r].execution_id = call[w].execution_id,
             RecordGrant(call[w])
      PROVE  /\ Stored'[r] # NoValue
             /\ Stored'[r].state # "accepted"
             /\ Stored'[r].execution_id = grants'[r][i]
  <2>1. Stored' = Stored
    BY <1>2 DEF Stored, TreeOf
  <2>2. grants'[r] = Append(grants[r], call[w].execution_id)
    BY <1>2 DEF RecordGrant, TypeOK
  <2>3. call[w].execution_id \in Executions /\ grants[r] \in Seq(Executions)
    BY <1>2 DEF Call, AcceptCall, ClaimCall, AmbiguousCall, SettleCall, TypeOK
  <2>4. \/ i \in 1..Len(grants[r]) /\ grants'[r][i] = grants[r][i]
        \/ grants'[r][i] = call[w].execution_id
    BY <2>2, <2>3
  <2> QED BY <1>2, <2>1, <2>4, NoRecordAssumption DEF GrantIsDurable
<1>3. ASSUME NEW w \in Workers, call[w] \in Call,
             RecordGrant(call[w]), call[w].request # r
      PROVE  grants'[r] = grants[r]
  BY <1>3 DEF RecordGrant, TypeOK
<1> QED BY <1>1, <1>2, <1>3, ResultStep DEF historyVars

(* Accepted identities stay frozen.                                         *)
LEMMA AcceptanceStep ==
  ASSUME TypeOK, InflightPermitted, CallsPinned, LoadedIsFrozen,
         AcceptanceIsFrozen, [Next]_vars
  PROVE  AcceptanceIsFrozen'
<1> SUFFICES ASSUME NEW r \in Requests, NEW i \in accepted'[r]
             PROVE  Stored'[r] # NoValue /\ Stored'[r].identity = i
  BY DEF AcceptanceIsFrozen
<1>1. CASE i \in accepted[r]
  BY <1>1, StoredEvolves, NoRecordAssumption DEF AcceptanceIsFrozen, Evolves
<1>2. ASSUME NEW w \in Workers, call[w] \in Call, call[w].request \in Requests,
             call[w].op = "accept",
             RecordAcceptance(call[w]), i \notin accepted[r]
      PROVE  call[w].request = r /\ i = call[w].identity
  BY <1>2 DEF RecordAcceptance, TypeOK
<1>3. ASSUME head' = head
      PROVE  Stored' = Stored
  BY <1>3 DEF Stored, TreeOf
<1> QED BY <1>1, <1>2, <1>3, ResultStep DEF historyVars

(* Reported outcomes stay final.                                            *)
LEMMA OutcomeStep ==
  ASSUME TypeOK, InflightPermitted, CallsPinned, LoadedIsFrozen, OutcomeIsFinal,
         [Next]_vars
  PROVE  OutcomeIsFinal'
<1> SUFFICES ASSUME NEW r \in Requests, NEW o \in settled'[r]
             PROVE  /\ Stored'[r] # NoValue
                    /\ Stored'[r].state = o.state
                    /\ Stored'[r].terminal_code = o.code
  BY DEF OutcomeIsFinal
<1>1. CASE o \in settled[r]
  <2>1. /\ Stored[r] # NoValue /\ Stored[r].state = o.state
        /\ Stored[r].terminal_code = o.code /\ o.state \in TerminalStates
    BY <1>1 DEF OutcomeIsFinal, TypeOK
  <2> QED BY <2>1, StoredEvolves, NoRecordAssumption DEF Evolves
<1>2. ASSUME NEW w \in Workers, call[w] \in Call, call[w].request \in Requests,
             call[w].op \in {"complete", "reconcile"},
             RecordOutcome(call[w]), o \notin settled[r]
      PROVE  call[w].request = r /\ o = [state |-> call[w].state, code |-> call[w].code]
  BY <1>2 DEF RecordOutcome, TypeOK
<1>3. ASSUME head' = head
      PROVE  Stored' = Stored
  BY <1>3 DEF Stored, TreeOf
<1> QED BY <1>1, <1>2, <1>3, ResultStep DEF historyVars

(* Stored records stay readable.                                            *)
LEMMA ReloadStep ==
  ASSUME TypeOK, InflightPermitted, StoredRecordsReload, [Next]_vars
  PROVE  StoredRecordsReload'
<1> SUFFICES ASSUME NEW r \in Requests, Stored'[r] # NoValue
             PROVE  Reloads(Stored'[r])
  BY DEF StoredRecordsReload, Reloads, Serializes, StateFieldsConsistent, SizeOf
<1> QED BY StoredEvolves DEF Evolves, StoredRecordsReload

-----------------------------------------------------------------------------
(* The theorems.                                                            *)

(* The invariant holds initially,                                           *)
LEMMA JournalInvInit == Init => JournalInv
<1> SUFFICES ASSUME Init
             PROVE  JournalInv
  OBVIOUS
<1>1. TypeOK
  BY TypeInit
<1>2. Stored = [r \in Requests |-> NoValue]
  BY GenesisFacts DEF Init, GitInit, Stored
<1>3. InflightPermitted
  BY GenesisFacts DEF Init, GitInit, InflightPermitted
<1>4. CallsPinned /\ LoadedIsFrozen
  BY DEF Init, CallsPinned, LoadedIsFrozen
<1>5. GrantIsDurable /\ AcceptanceIsFrozen /\ OutcomeIsFinal /\ StoredRecordsReload
  BY <1>2 DEF Init, GrantIsDurable, AcceptanceIsFrozen, OutcomeIsFinal,
     StoredRecordsReload
<1> QED BY <1>1, <1>3, <1>4, <1>5 DEF JournalInv

(* and every step preserves it.                                             *)
LEMMA JournalInvStep == JournalInv /\ [Next]_vars => JournalInv'
BY TypeStep, InflightStep, CallsStep, LoadedStep, GrantStep, AcceptanceStep,
   OutcomeStep, ReloadStep DEF JournalInv

(* The inductive invariant of the journal.                                  *)
THEOREM JournalInvariant == Spec => []JournalInv
BY JournalInvInit, JournalInvStep, PTL DEF Spec

(* Every variable keeps its type: the branch is always a commit whose tree  *)
(* holds a record or nothing for every request.                             *)
THEOREM TypeCorrect == Spec => []TypeOK
<1>1. JournalInv => TypeOK
  BY DEF JournalInv
<1> QED BY <1>1, JournalInvariant, PTL

(* A GRANTED answer names the durable owner for good, whatever updates are  *)
(* lost, late or concurrent, and whoever crashes.                           *)
THEOREM GrantDurability == Spec => []GrantIsDurable
<1>1. JournalInv => GrantIsDurable
  BY DEF JournalInv
<1> QED BY <1>1, JournalInvariant, PTL

(* A request id is never accepted for two identities.                       *)
THEOREM AcceptanceFreezing == Spec => []AcceptanceIsFrozen
<1>1. JournalInv => AcceptanceIsFrozen
  BY DEF JournalInv
<1> QED BY <1>1, JournalInvariant, PTL

(* A reported outcome is never replaced.                                    *)
THEOREM OutcomeFinality == Spec => []OutcomeIsFinal
<1>1. JournalInv => OutcomeIsFinal
  BY DEF JournalInv
<1> QED BY <1>1, JournalInvariant, PTL

(* Every stored record passes from_json again.                              *)
THEOREM RecordsReload == Spec => []StoredRecordsReload
<1>1. JournalInv => StoredRecordsReload
  BY DEF JournalInv
<1> QED BY <1>1, JournalInvariant, PTL

(* The branch is never rewound.                                             *)
THEOREM HistoryGrows == Spec => HistoryOnlyGrows
<1>1. [Next]_vars => [IsPrefix(head, head')]_head
  BY OnlyUpdateMoves DEF Update, ApplyUpdate, FastForward
<1> QED BY <1>1, PTL DEF Spec, HistoryOnlyGrows

-----------------------------------------------------------------------------
(* At most one grant, when equal commits never share a second.              *)

(* Publishing creates a commit nobody has seen.                             *)
LEMMA PublishFresh ==
  ASSUME JournalInv, ~SameSecond, NEW w \in Workers, Publish(w)
  PROVE  /\ candidate'[w] \notin inflight
         /\ candidate'[w] \in inflight'
         /\ Len(candidate'[w]) = Len(head) + 1
         /\ candidate'[w] # head
         /\ head' = head /\ inflight \subseteq inflight' /\ UNCHANGED grants
<1>1. PICK stamp \in Stamps :
        /\ candidate'[w] = Child(base[w], call[w].request,
                                 Draft(Loaded(w), call[w]), stamp)
        /\ SendUpdate(candidate'[w])
  BY PublishFacts DEF JournalInv
<1>2. base[w] = head /\ head' = head /\ Proceeds(Loaded(w), call[w])
  BY PublishFacts DEF JournalInv
<1>3. /\ call[w] \in Call /\ call[w].request \in Requests
      /\ base[w] \in Commit /\ base[w] # NoCommit
      /\ Loaded(w) \in Record \cup {NoValue}
  BY LoadedFacts DEF JournalInv, Publish
<1>4. Len(candidate'[w]) = Len(head) + 1
  BY <1>1, <1>2, <1>3, DraftType, ChildFacts
<1>5. Len(head) \in Nat
  BY <1>2, <1>3 DEF Commit
<1> QED BY <1>1, <1>2, <1>4, <1>5 DEF SendUpdate, Publish, historyVars

(* What one step does to a call that is sent afterwards.                    *)
LEMMA SentStep ==
  ASSUME TypeOK, [Next]_vars, NEW v \in Workers, pc'[v] = "sent"
  PROVE  \/ Publish(v)
         \/ pc[v] = "sent" /\ call'[v] = call[v] /\ candidate'[v] = candidate[v]
BY CallStep

(* At most one worker publishes in a step.                                  *)
LEMMA OnePublishes ==
  ASSUME TypeOK, NEW v \in Workers, NEW w \in Workers, v # w,
         Publish(v), Publish(w)
  PROVE  FALSE
<1>1. pc[w] = "loaded" /\ pc'[w] = "sent"
  BY DEF Publish, TypeOK
<1>2. pc'[w] = pc[w]
  BY DEF Publish, TypeOK
<1> QED BY <1>1, <1>2

(* Candidates in flight are applied, kept or overtaken, never revived.      *)
LEMMA CandidatesSpentStep ==
  ASSUME JournalInv, ~SameSecond, SingleClaim, [Next]_vars
  PROVE  CandidatesSpent'
<1> SUFFICES ASSUME NEW v \in Workers, pc'[v] = "sent"
             PROVE  candidate'[v] \in inflight' \/ Len(candidate'[v]) <= Len(head')
  BY DEF CandidatesSpent
<1>1. CASE Publish(v)
  BY <1>1, PublishFresh
<1>2. ASSUME pc[v] = "sent", candidate'[v] = candidate[v]
      PROVE  candidate'[v] \in inflight' \/ Len(candidate'[v]) <= Len(head')
  <2>1. candidate[v] \in inflight \/ Len(candidate[v]) <= Len(head)
    BY <1>2 DEF SingleClaim, CandidatesSpent
  <2>2. CASE head' = head /\ inflight \subseteq inflight'
    BY <1>2, <2>1, <2>2
  <2>3. ASSUME NEW commit \in inflight, Update(commit)
        PROVE  Len(candidate[v]) <= Len(head')
    <3>1. Len(head') = Len(head) + 1 /\ Len(head) \in Nat
      BY <2>3, UpdateStores, StoredType DEF JournalInv, Commit
    <3>2. candidate[v] \in inflight => Len(candidate[v]) = Len(head) + 1
      BY InflightFacts, StoredType, ChildFacts DEF JournalInv
    <3>3. Len(candidate[v]) \in Nat
      BY DEF JournalInv, TypeOK, Commit
    <3> QED BY <2>1, <3>1, <3>2, <3>3
  <2> QED BY <1>2, <2>2, <2>3 DEF Next, vars, gitVars, Begin, Refuse, Replay,
       Conflict, Unchanged, Publish, SendUpdate, Confirm, Fail
<1> QED BY <1>1, <1>2, SentStep DEF JournalInv

(* Candidates stay distinct: a new one is fresh and longer than the branch. *)
LEMMA CandidatesDistinctStep ==
  ASSUME JournalInv, ~SameSecond, SingleClaim, [Next]_vars
  PROVE  CandidatesDistinct'
<1> SUFFICES ASSUME NEW v \in Workers, NEW w \in Workers, v # w,
                    pc'[v] = "sent", pc'[w] = "sent"
             PROVE  candidate'[v] # candidate'[w]
  BY DEF CandidatesDistinct
<1>1. ASSUME NEW a \in Workers, NEW b \in Workers, Publish(a),
             pc[b] = "sent", candidate'[b] = candidate[b]
      PROVE  candidate'[a] # candidate'[b]
  <2>1. candidate[b] \in inflight \/ Len(candidate[b]) <= Len(head)
    BY <1>1 DEF SingleClaim, CandidatesSpent
  <2>2. Len(head) \in Nat
    BY StoredType DEF JournalInv, Commit
  <2> QED BY <1>1, <2>1, <2>2, PublishFresh
<1>2. CASE pc[v] = "sent" /\ candidate'[v] = candidate[v]
           /\ pc[w] = "sent" /\ candidate'[w] = candidate[w]
  BY <1>2 DEF SingleClaim, CandidatesDistinct
<1>3. ~(Publish(v) /\ Publish(w))
  BY OnePublishes DEF JournalInv
<1> QED BY <1>1, <1>2, <1>3, SentStep DEF JournalInv

(* A grant is the answer to a confirmed claim.                              *)
LEMMA GrantMove ==
  ASSUME JournalInv, [Next]_vars, grants' # grants
  PROVE  \E w \in Workers :
           /\ pc[w] = "sent" /\ pc'[w] = "idle" /\ candidate[w] = head
           /\ head' = head
           /\ call[w].op = "claim" /\ call[w].request \in Requests
           /\ call[w].execution_id \in Executions
           /\ grants' = [grants EXCEPT
                ![call[w].request] = Append(@, call[w].execution_id)]
<1>1. PICK w \in Workers :
        /\ call[w] \in Call /\ call[w].request \in Requests
        /\ call[w].op = "claim" /\ head' = head
        /\ Confirm(w) /\ RecordGrant(call[w])
  BY ResultStep DEF JournalInv, historyVars
<1>2. call[w].execution_id \in Executions
  BY <1>1 DEF Call, AcceptCall, ClaimCall, AmbiguousCall, SettleCall
<1>3. pc'[w] = "idle"
  BY <1>1 DEF Confirm, Succeed, Finish, JournalInv, TypeOK
<1> QED BY <1>1, <1>2, <1>3 DEF Confirm, ReadBack, RecordGrant

(* An update that would confirm a second claim would need an accepted       *)
(* record under it, and the grant excludes that.                            *)
LEMMA NoClaimAfterGrantStep ==
  ASSUME JournalInv, ~SameSecond, SingleClaim, [Next]_vars
  PROVE  NoClaimAfterGrant'
<1> SUFFICES ASSUME NEW v \in Workers, pc'[v] = "sent", call'[v].op = "claim",
                    grants'[call'[v].request] # << >>
             PROVE  candidate'[v] # head'
  BY DEF NoClaimAfterGrant
<1>1. CASE Publish(v)
  BY <1>1, PublishFresh
<1>2. ASSUME pc[v] = "sent", call'[v] = call[v], candidate'[v] = candidate[v]
      PROVE  candidate'[v] # head'
  <2>1. CASE grants' # grants
    <3>1. PICK w \in Workers :
            pc[w] = "sent" /\ pc'[w] = "idle" /\ candidate[w] = head /\ head' = head
      BY <2>1, GrantMove
    <3> QED BY <1>2, <3>1 DEF SingleClaim, CandidatesDistinct
  <2>2. CASE grants' = grants /\ head' = head
    BY <1>2, <2>2 DEF SingleClaim, NoClaimAfterGrant
  <2>3. ASSUME grants' = grants, NEW commit \in inflight, Update(commit),
               candidate[v] = commit
        PROVE  FALSE
    <3>1. PICK c \in Call, s \in Stamps :
            commit = Child(head, c.request, Draft(Stored[c.request], c), s)
      BY InflightFacts DEF JournalInv
    <3>2. PICK stamp \in Stamps :
            commit = Child(base[v], call[v].request,
                           Draft(Loaded(v), call[v]), stamp)
      BY <1>2, <2>3 DEF JournalInv, CallsPinned
    <3>3. /\ base[v] \in Commit /\ call[v] \in Call /\ call[v].request \in Requests
          /\ Loaded(v) \in Record \cup {NoValue} /\ Proceeds(Loaded(v), call[v])
      BY <1>2, LoadedFacts DEF JournalInv, CallsPinned
    <3>4. base[v] = head
      <4>1. head \in Commit
        BY DEF JournalInv, TypeOK
      <4>2. Child(base[v], call[v].request, Draft(Loaded(v), call[v]), stamp)
              = Child(head, c.request, Draft(Stored[c.request], c), s)
        BY <3>1, <3>2
      <4>3. base[v] \in Commit
        BY <3>3
      <4> HIDE DEF Stored
      <4> QED BY <4>1, <4>2, <4>3, ChildInjective
    <3>5. Stored[call[v].request].state = "accepted"
      BY <1>2, <3>3, <3>4, ClaimDraft DEF Loaded, RecordAt, Stored
    <3>6. /\ grants[call[v].request] \in Seq(Executions)
          /\ grants[call[v].request] # << >>
      BY <1>2, <2>3, <3>3 DEF JournalInv, TypeOK
    <3>7. 1 \in 1..Len(grants[call[v].request])
      BY <3>6
    <3> QED BY <3>3, <3>5, <3>7 DEF JournalInv, GrantIsDurable
  <2> QED BY <1>2, <2>1, <2>2, <2>3, OnlyUpdateMoves DEF Update, ApplyUpdate
<1> QED BY <1>1, <1>2, SentStep DEF JournalInv

(* The inductive invariant when equal commits never share a second.         *)
GrantInv == JournalInv /\ SingleClaim

(* It is an invariant.                                                      *)
LEMMA GrantInvariant == ASSUME ~SameSecond PROVE Spec => []GrantInv
<1>1. Init => SingleClaim
  BY DEF Init, SingleClaim, CandidatesDistinct, CandidatesSpent,
     NoClaimAfterGrant
<1>2. JournalInv /\ SingleClaim /\ [Next]_vars => SingleClaim'
  BY CandidatesDistinctStep, CandidatesSpentStep, NoClaimAfterGrantStep
     DEF SingleClaim
<1> QED BY <1>1, <1>2, JournalInvariant, PTL DEF Spec, GrantInv

(* So a claim is confirmed only while nothing was granted.                  *)
LEMMA AtMostOneGrantStep ==
  ASSUME JournalInv, SingleClaim, AtMostOneGrant, [Next]_vars
  PROVE  AtMostOneGrant'
<1> SUFFICES ASSUME NEW r \in Requests
             PROVE  Len(grants'[r]) <= 1
  BY DEF AtMostOneGrant
<1>1. CASE grants' = grants
  BY <1>1 DEF AtMostOneGrant
<1>2. CASE grants' # grants
  <2>1. PICK w \in Workers :
          /\ pc[w] = "sent" /\ candidate[w] = head
          /\ call[w].op = "claim" /\ call[w].request \in Requests
          /\ call[w].execution_id \in Executions
          /\ grants' = [grants EXCEPT
               ![call[w].request] = Append(@, call[w].execution_id)]
    BY <1>2, GrantMove
  <2>2. grants[call[w].request] = << >>
    BY <2>1 DEF SingleClaim, NoClaimAfterGrant
  <2>3. grants'[call[w].request] = <<call[w].execution_id>>
    BY <2>1, <2>2 DEF JournalInv, TypeOK
  <2>4. CASE r = call[w].request
    <3>1. Len(<<call[w].execution_id>>) = 1
      OBVIOUS
    <3>2. grants'[r] = <<call[w].execution_id>>
      BY <2>3, <2>4
    <3>3. Len(grants'[r]) = 1
      BY <3>1, <3>2
    <3> QED BY <3>3
  <2>5. CASE r # call[w].request
    BY <2>1, <2>5 DEF JournalInv, TypeOK, AtMostOneGrant
  <2> QED BY <2>4, <2>5
<1> QED BY <1>1, <1>2

(* A request is executed at most once.                                      *)
THEOREM OneGrant == ASSUME ~SameSecond PROVE Spec => []AtMostOneGrant
<1>1. Init => AtMostOneGrant
  BY DEF Init, AtMostOneGrant
<1>2. GrantInv /\ AtMostOneGrant /\ [Next]_vars => AtMostOneGrant'
  BY AtMostOneGrantStep DEF GrantInv
<1> QED BY <1>1, <1>2, GrantInvariant, PTL DEF Spec

-----------------------------------------------------------------------------
(* The branch implements the atomic journal.                                *)

(* One permitted transition of a record is one step of the atomic journal.  *)
LEMMA TransitionRefines ==
  ASSUME NEW c \in Call, c.request \in Requests, Stored \in Tree,
         Proceeds(Stored[c.request], c),
         Stored' = [Stored EXCEPT ![c.request] = Draft(Stored[c.request], c)],
         grants' = grants
  PROVE  Abstract!Next \/ Stored' = Stored
<1> DEFINE r == c.request
           rec == Stored[c.request]
<1>1. rec \in Record \cup {NoValue}
  BY DEF Tree
<1>2. CASE c.op = "accept"
  <2>1. c.identity \in Identities /\ c.meta \in Metas
    BY <1>2 DEF Call, AcceptCall, ClaimCall, AmbiguousCall, SettleCall
  <2>2. rec = NoValue
    BY <1>1, <1>2, AcceptDraft
  <2>3. Draft(rec, c) =
          [identity |-> c.identity, meta |-> c.meta, state |-> "accepted",
           execution_id |-> NoValue, terminal_code |-> NoValue]
    BY <1>2 DEF Draft, New
  <2>4. Abstract!Accept(r)
    BY <2>1, <2>2, <2>3 DEF Abstract!Accept, Abstract!Store
  <2> QED BY <2>4 DEF Abstract!Next
<1>3. CASE c.op = "claim"
  <2>1. c.execution_id \in Executions
    BY <1>3 DEF Call, AcceptCall, ClaimCall, AmbiguousCall, SettleCall
  <2>2. rec \in Record /\ rec.state = "accepted"
    BY <1>1, <1>3, ClaimDraft
  <2>3. Draft(rec, c) =
          [rec EXCEPT !.state = "executing", !.execution_id = c.execution_id]
    BY <1>3 DEF Draft, ClaimExecution
  <2>4. Abstract!Claim(r)
    BY <2>1, <2>2, <2>3, NoRecordAssumption
       DEF Abstract!Claim, Abstract!Store, Abstract!In
  <2> QED BY <2>4 DEF Abstract!Next
<1>4. CASE c.op = "ambiguous"
  <2>1. rec \in Record /\ rec.state \in {"executing", "ambiguous"}
    BY <1>1, <1>4 DEF Proceeds, Permitted, Owns, CanMarkAmbiguous
  <2>2. Draft(rec, c) = [rec EXCEPT !.state = "ambiguous"]
    BY <1>4 DEF Draft, MarkAmbiguous
  <2>3. CASE rec.state = "executing"
    <3>1. Abstract!LoseTrack(r)
      BY <2>1, <2>2, <2>3, NoRecordAssumption
         DEF Abstract!LoseTrack, Abstract!Store, Abstract!In
    <3> QED BY <3>1 DEF Abstract!Next
  <2>4. CASE rec.state = "ambiguous"
    <3>1. Draft(rec, c) = rec
      BY <2>1, <2>2, <2>4 DEF Record
    <3> QED BY <3>1 DEF Tree
  <2> QED BY <2>1, <2>3, <2>4
<1>5. CASE c.op \in {"complete", "reconcile"}
  <2>1. c.state \in {"succeeded", "rejected"} /\ c.code \in Codes
    BY <1>1, <1>5, SettleDraft DEF TerminalStates
  <2>2. /\ rec \in Record
        /\ rec.state \in {"executing", "ambiguous"} \cup TerminalStates
    BY <1>1, <1>5 DEF Proceeds, Permitted, Owns, CanComplete, CanReconcile,
       SameTerminal
  <2>3. Draft(rec, c) = [rec EXCEPT !.state = c.state, !.terminal_code = c.code]
    BY <1>5 DEF Draft, Settle
  <2>4. CASE rec.state \in {"executing", "ambiguous"}
    <3>1. Abstract!Settle(r)
      BY <2>1, <2>2, <2>3, <2>4, NoRecordAssumption
         DEF Abstract!Settle, Abstract!Store, Abstract!In
    <3> QED BY <3>1 DEF Abstract!Next
  <2>5. CASE rec.state \in TerminalStates
    <3>1. Draft(rec, c) = rec
      BY <2>2, <2>5, DraftPreserves
    <3> QED BY <3>1 DEF Tree
  <2> QED BY <2>2, <2>4, <2>5
<1> QED BY <1>2, <1>3, <1>4, <1>5
   DEF Call, AcceptCall, ClaimCall, AmbiguousCall, SettleCall

(* One granted claim is one grant of the atomic journal.                    *)
LEMMA GrantRefines ==
  ASSUME GrantInv, [Next]_vars, grants' # grants
  PROVE  Abstract!Next
<1>1. PICK w \in Workers :
        /\ call[w] \in Call /\ call[w].request \in Requests
        /\ head' = head
        /\ call[w].op = "claim"
        /\ Stored[call[w].request] \in Record
        /\ Stored[call[w].request].state = "executing"
        /\ Stored[call[w].request].execution_id = call[w].execution_id
        /\ Confirm(w)
        /\ RecordGrant(call[w])
  BY ResultStep DEF GrantInv, JournalInv, historyVars
<1> DEFINE r == call[w].request
<1>2. grants[r] = << >>
  BY <1>1 DEF GrantInv, SingleClaim, NoClaimAfterGrant, Confirm, ReadBack
<1>3. grants' = [grants EXCEPT ![r] = Append(<< >>, call[w].execution_id)]
  BY <1>1, <1>2 DEF RecordGrant
<1>4. Append(<< >>, call[w].execution_id) = <<call[w].execution_id>>
  OBVIOUS
<1>5. Stored' = Stored
  BY <1>1 DEF Stored, TreeOf
<1>6. Abstract!Grant(r)
  BY <1>1, <1>2, <1>3, <1>4, <1>5, NoRecordAssumption
     DEF Abstract!Grant, Abstract!In
<1> QED BY <1>1, <1>6 DEF Abstract!Next

(* Every step of the workers and of the branch is a step of the atomic      *)
(* journal or leaves it unchanged.                                          *)
LEMMA StepRefines ==
  ASSUME GrantInv, [Next]_vars
  PROVE  [Abstract!Next]_(Abstract!vars)
<1>1. CASE grants' # grants
  BY <1>1, GrantRefines
<1>2. CASE grants' = grants /\ head' = head
  BY <1>2 DEF Abstract!vars, Stored, TreeOf
<1>3. ASSUME grants' = grants, NEW commit \in inflight, Update(commit)
      PROVE  Abstract!Next \/ Stored' = Stored
  <2>1. PICK c \in Call :
          /\ c.request \in Requests
          /\ Proceeds(Stored[c.request], c)
          /\ Stored' = [Stored EXCEPT ![c.request] = Draft(Stored[c.request], c)]
    BY <1>3, UpdateStores DEF GrantInv, JournalInv
  <2> QED BY <1>3, <2>1, TransitionRefines, StoredType DEF GrantInv, JournalInv
<1> QED BY <1>1, <1>2, <1>3, OnlyUpdateMoves DEF Abstract!vars

(* The optimistic protocol over the branch implements the atomic journal:   *)
(* every record moves through its life as if by one atomic step at a time,  *)
(* and a request is granted once, while its record is executing.            *)
THEOREM Refinement == ASSUME ~SameSecond PROVE Spec => AtomicJournal
<1>1. Init => Abstract!Init
  BY GenesisFacts DEF Init, GitInit, Abstract!Init, Stored
<1>2. GrantInv /\ [Next]_vars => [Abstract!Next]_(Abstract!vars)
  BY StepRefines
<1> QED BY <1>1, <1>2, GrantInvariant, PTL DEF Spec, AtomicJournal, Abstract!Spec
=============================================================================
