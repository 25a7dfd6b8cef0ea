----------------------------- MODULE PhasesProofs -----------------------------
(***************************************************************************)
(* Proofs about the phases of a request, for any number of jobs, of        *)
(* executions, of comments and of commits of other requests, and for every *)
(* policy.                                                                 *)
(*                                                                         *)
(* The invariant comes in three layers.  HandInv: what is written down, in *)
(* the journal, in result files and in comments, and what a job carries,   *)
(* can be verified against the journal; it also holds of the ledger        *)
(* requests of LedgerPublication.  GrantInv: one bundle is granted.        *)
(* EffectInv: one job at a time, and only once, may have an effect.        *)
(***************************************************************************)
EXTENDS ActionsPhases, FiniteSetTheorems, SequenceTheorems, TLAPS

-----------------------------------------------------------------------------
(* What the journal vouches for.  Every set grows with the journal.         *)

Unclaimed == Current = NoValue \/ Current.state = "accepted"

(* Bundles that name an acceptance: without durable checkpoints, a revision *)
(* that has the request at all.                                             *)
Acceptances ==
  {b \in Bundle : /\ b.accepted \in Revision /\ history[b.accepted] # NoValue
                  /\ Durable => history[b.accepted].state = "accepted"}

(* Bundles finalize can verify.                                             *)
Verifiable == {b \in Bundle : Verified(b) /\ OwnedBy(b.execution)}

Intents == [kind : {"intent"}, execution : Executions, accepted : Nat]

SoundCheckpoints ==
  [kind : {"prepare"}, execution : Executions, bundle : Verifiable, disposition : Dispositions]

Outcomes == [state : Results, run : Nat]

SoundReceipts ==
  {c \in [kind : {"receipt"}, accepted : Nat, claim : Nat, outcome : Outcomes] :
     \E e \in Executions : BundleOf(e, c.accepted, c.claim) \in Verifiable}

-----------------------------------------------------------------------------
(* The first layer.                                                         *)

(* While nobody has claimed the request its records are acceptances.        *)
HistoryInv ==
  /\ HistoryTypeOK
  /\ Current # NoValue => (Current.execution_id = NoValue <=> Current.state = "accepted")
  /\ Unclaimed => \A n \in Revision : history[n] = NoValue \/ history[n].state = "accepted"

SoundPost(p) ==
  /\ posts[p].kind = "intent" => posts[p] \in Intents
  /\ posts[p].kind = "prepare" => posts[p] \in SoundCheckpoints
  /\ posts[p].kind = "receipt" => posts[p] \in SoundReceipts

CommentsInv ==
  /\ posts \in Seq({posts[p] : p \in DOMAIN posts})
  /\ Len(posts) <= MaxPosts
  /\ landed \subseteq DOMAIN posts
  /\ \A p \in DOMAIN posts : SoundPost(p)

SharedInv ==
  /\ operation \in Operations /\ runs \in 0..MaxRuns
  /\ files \subseteq [bundle : Verifiable, disposition : Dispositions]
  /\ controlled \subseteq Bundle

AllLabels == Labels \cup {"patch", "readback"}

(* The local variables of a job that wants the comment to exist.            *)
Locals(comment) ==
  [bundle : Bundle, disposition : Dispositions \cup {NoValue},
   state : States \cup {NoValue}, comment : {comment},
   outcome : Results \cup {NoValue}, number : Nat, looks : BOOLEAN, whole : BOOLEAN]

(* What prepare carries.                                                    *)
Preparing(j) ==
  /\ pc[j] = "claim" => job[j].bundle \in Acceptances
  /\ pc[j] \in {"claim", "load", "resume"} => (job[j].whole => ~Durable)
  /\ pc[j] \in {"load", "resume"} => Durable
  /\ pc[j] = "resume" /\ job[j].state = "executing" => job[j].bundle \in Verifiable

(* A job that makes sure of a comment.                                      *)
Ensuring(j) ==
  pc[j] \in {"ensure", "posted"} =>
    /\ job[j].comment.kind = "intent" =>
         job[j].bundle \in Acceptances /\ job[j].comment = Intent(job[j].bundle)
    /\ job[j].comment.kind # "intent" => job[j].bundle \in Verifiable
    /\ job[j].comment.kind = "prepare" =>
         /\ job[j].comment = Checkpoint(job[j].bundle, job[j].disposition)
         /\ job[j].disposition \in Dispositions
    /\ job[j].comment.kind # "receipt"

(* The later phases.                                                        *)
LaterLabels ==
  {"execute", "dispatched", "receipt", "concluded", "observe", "publish", "patch",
   "readback", "mark", "settle"}

Handling(j) ==
  /\ pc[j] \in LaterLabels => job[j].bundle \in Verifiable
  /\ pc[j] = "dispatched" => job[j].number \in 1..runs
  /\ pc[j] = "receipt" =>
       /\ job[j].comment = Receipt(job[j].bundle, job[j].comment.outcome)
       /\ job[j].comment.outcome \in Outcomes
  /\ pc[j] = "settle" =>
       job[j].number \in landed /\ job[j].outcome \in {"succeeded", "rejected"}

JobInv(j) ==
  /\ pc[j] # "idle" => job[j] \in Locals(job[j].comment)
  /\ Preparing(j) /\ Ensuring(j) /\ Handling(j)

JobsInv ==
  /\ pc \in [Jobs -> AllLabels] /\ job = [j \in Jobs |-> job[j]]
  /\ \A j \in Jobs : JobInv(j)

HandInv == HistoryInv /\ CommentsInv /\ SharedInv /\ JobsInv

-----------------------------------------------------------------------------
(* The second layer: the bundles that are granted, or on their way to be.   *)

GrantedFiles == {f \in files : f.disposition = "granted"}

GrantedPosts ==
  {p \in DOMAIN posts : posts[p].kind = "prepare" /\ posts[p].disposition = "granted"}

Granting(j) ==
  /\ pc[j] \in {"ensure", "posted"}
  /\ job[j].comment.kind = "prepare" /\ job[j].disposition = "granted"

Granted ==
  {f.bundle : f \in GrantedFiles} \cup {posts[p].bundle : p \in GrantedPosts}
    \cup {job[j].bundle : j \in {k \in Jobs : Granting(k)}}

GrantInv == \A a, b \in Granted : a = b

-----------------------------------------------------------------------------
(* The third layer.                                                         *)

(* A job that may have the effect, and a bundle control may still run on,   *)
(* or that may still be granted.                                            *)
Executor(j) == pc[j] = "execute" /\ ~job[j].looks

Unspent == Unclaimed \/ \E b \in Granted : b \notin controlled

(* A refusal is on the Issue, or may soon be.                               *)
Refused ==
  \/ \E p \in DOMAIN posts : posts[p].kind = "receipt" /\ posts[p].outcome.state = "rejected"
  \/ \E j \in Jobs : pc[j] = "receipt" /\ job[j].comment.outcome.state = "rejected"

EffectSpent == runs = 0 /\ ~Unspent /\ \A j \in Jobs : ~Executor(j)

EffectInv ==
  /\ runs <= 1
  /\ operation # "recipe" => runs = 0
  /\ \A j, k \in Jobs : Executor(j) /\ Executor(k) => j = k
  /\ \A j \in Jobs : Executor(j) => runs = 0
  /\ Unspent => runs = 0 /\ \A j \in Jobs : ~Executor(j)
  /\ operation = "recipe" /\ Refused => EffectSpent

(* Where what a receipt says comes from.                                    *)
TrueOutcome(outcome) ==
  operation = "recipe" /\ outcome.state = "succeeded" => outcome.run \in 1..runs

Truthful(outcome) == TrueOutcome(outcome) /\ outcome.state # "candidate_ready"

EvidencePosts == \A p \in DOMAIN posts : posts[p].kind = "receipt" => Truthful(posts[p].outcome)

EvidenceJob(j) ==
  /\ pc[j] \in Labels \ {"publish"}
  /\ pc[j] = "receipt" => Truthful(job[j].comment.outcome)
  /\ pc[j] = "settle" =>
       posts[job[j].number].kind = "receipt" /\ posts[job[j].number].outcome.state = job[j].outcome

EvidenceInv == EvidencePosts /\ (\A j \in Jobs : EvidenceJob(j)) /\ TerminalIsEvidenced

-----------------------------------------------------------------------------
(* The journal.                                                             *)

(* How the record of the request may change from one revision to the next.  *)
Follows(old, new) ==
  \/ new = old
  \/ old = NoValue /\ new.state = "accepted" /\ new.execution_id = NoValue
  \/ /\ old # NoValue /\ old.state = "accepted"
     /\ new.state = "executing" /\ new.execution_id \in Executions
  \/ /\ old # NoValue /\ old.state \in {"executing", "ambiguous"}
     /\ new.state \in {"ambiguous"} \cup TerminalStates
     /\ new.execution_id = old.execution_id

Advances ==
  \/ history' = history
  \/ \E rec \in Record : history' = Append(history, rec) /\ Follows(Current, rec)

(* The journal has a head, and what it says is a record or nothing.         *)
LEMMA HeadType ==
  ASSUME HistoryTypeOK
  PROVE  /\ Len(history) \in Nat \ {0}
         /\ HeadSha \in Revision
         /\ Current \in Record \cup {NoValue}
         /\ \A n \in Revision : history[n] \in Record \cup {NoValue}
<1>1. history \in Seq(Record \cup {NoValue}) /\ history # << >>
  BY DEF HistoryTypeOK
<1>2. Len(history) \in Nat /\ Len(history) # 0
  BY <1>1, EmptySeq, LenProperties
<1>3. HeadSha \in Revision
  BY <1>2 DEF HeadSha, Revision
<1>4. \A n \in Revision : history[n] \in Record \cup {NoValue}
  BY <1>1, ElementOfSeq DEF Revision
<1> QED BY <1>2, <1>3, <1>4 DEF Current

(* An append keeps every revision and puts a new one at the head.           *)
LEMMA AppendRecord ==
  ASSUME HistoryTypeOK, NEW rec \in Record, history' = Append(history, rec)
  PROVE  /\ HistoryTypeOK'
         /\ Len(history') = Len(history) + 1
         /\ \A n \in Revision : n \in Revision' /\ history'[n] = history[n]
         /\ \A n \in Revision' : n \in Revision \/ n = Len(history')
         /\ Current' = rec /\ history'[Len(history')] = rec
<1>1. history \in Seq(Record \cup {NoValue}) /\ rec \in Record \cup {NoValue}
  BY DEF HistoryTypeOK
<1>2. /\ history' \in Seq(Record \cup {NoValue}) /\ history' # << >>
      /\ Len(history') = Len(history) + 1
      /\ \A n \in 1..Len(history) : history'[n] = history[n]
      /\ history'[Len(history) + 1] = rec
  BY <1>1, AppendProperties
<1>3. Len(history) \in Nat
  BY HeadType
<1> QED BY <1>2, <1>3 DEF HistoryTypeOK, Revision, Current, HeadSha

(* A step of the journal keeps it well formed and rewrites nothing.         *)
LEMMA HistoryStep ==
  ASSUME HistoryInv, Advances
  PROVE  /\ HistoryInv'
         /\ Len(history) <= Len(history')
         /\ \A n \in Revision : n \in Revision' /\ history'[n] = history[n]
         /\ ~Unclaimed =>
              ~Unclaimed' /\ Current' # NoValue /\ Current'.execution_id = Current.execution_id
<1>1. CASE history' = history
  <2>1. Current' = Current /\ Revision' = Revision /\ HistoryTypeOK'
    BY <1>1 DEF Current, HeadSha, Revision, HistoryInv, HistoryTypeOK
  <2> QED
    BY <1>1, <2>1, HeadType DEF HistoryInv, Unclaimed
<1>2. ASSUME NEW rec \in Record, history' = Append(history, rec), Follows(Current, rec)
      PROVE  /\ HistoryInv'
             /\ Len(history) <= Len(history')
             /\ \A n \in Revision : n \in Revision' /\ history'[n] = history[n]
             /\ ~Unclaimed =>
                  ~Unclaimed' /\ Current' # NoValue /\ Current'.execution_id = Current.execution_id
  <2>1. /\ HistoryTypeOK' /\ Len(history') = Len(history) + 1
        /\ \A n \in Revision : n \in Revision' /\ history'[n] = history[n]
        /\ \A n \in Revision' : n \in Revision \/ n = Len(history')
        /\ Current' = rec /\ history'[Len(history')] = rec
    BY <1>2, AppendRecord DEF HistoryInv
  <2>2. rec # NoValue /\ NoValue \notin Executions
    BY NoRecordAssumption, NoValueAssumption
  <2>3. Current # NoValue => (Current.execution_id = NoValue <=> Current.state = "accepted")
    BY DEF HistoryInv
  <2>4. rec.execution_id = NoValue <=> rec.state = "accepted"
    BY <1>2, <2>2, <2>3 DEF Follows, TerminalStates
  <2>5. rec.state = "accepted" => Unclaimed
    BY <1>2, <2>2 DEF Follows, Unclaimed, TerminalStates
  <2>6. Unclaimed' <=> rec.state = "accepted"
    BY <2>1, <2>2 DEF Unclaimed
  <2>7. Unclaimed' => \A n \in Revision' : history'[n] = NoValue \/ history'[n].state = "accepted"
    BY <2>1, <2>5, <2>6 DEF HistoryInv
  <2>8. ~Unclaimed => rec.execution_id = Current.execution_id
    BY <1>2, <2>2 DEF Follows, Unclaimed, TerminalStates
  <2>9. Len(history) <= Len(history')
    BY <2>1, HeadType DEF HistoryInv
  <2> QED BY <2>1, <2>2, <2>4, <2>5, <2>6, <2>7, <2>8, <2>9 DEF HistoryInv
<1> QED BY <1>1, <1>2 DEF Advances

(* What the journal vouches for it vouches for ever.                        *)
LEMMA VouchersGrow ==
  ASSUME HistoryInv, Advances
  PROVE  /\ Acceptances \subseteq Acceptances'
         /\ Verifiable \subseteq Verifiable'
         /\ SoundCheckpoints \subseteq SoundCheckpoints'
         /\ SoundReceipts \subseteq SoundReceipts'
<1>1. /\ \A n \in Revision : n \in Revision' /\ history'[n] = history[n]
      /\ ~Unclaimed => Current' # NoValue /\ Current'.execution_id = Current.execution_id
  BY HistoryStep
<1>2. Acceptances \subseteq Acceptances'
  BY <1>1 DEF Acceptances, Durable
<1>3. ASSUME NEW b \in Verifiable PROVE b \in Verifiable'
  <2>1. /\ b \in Bundle /\ b.execution \in Executions
        /\ b.accepted <= b.claim
        /\ b.accepted \in Revision /\ history[b.accepted] # NoValue
        /\ history[b.accepted].state = "accepted"
        /\ b.claim \in Revision /\ history[b.claim] # NoValue
        /\ history[b.claim].state = "executing"
        /\ history[b.claim].execution_id = b.execution
        /\ Current # NoValue /\ Current.execution_id = b.execution
    BY DEF Verifiable, Verified, AcceptedAt, ClaimedAt, OwnedBy, Bundle
  <2>2. ~Unclaimed
    BY <2>1, NoValueAssumption DEF HistoryInv, Unclaimed
  <2> QED
    BY <1>1, <2>1, <2>2 DEF Verifiable, Verified, AcceptedAt, ClaimedAt, OwnedBy
<1>4. SoundCheckpoints \subseteq SoundCheckpoints'
  BY <1>3 DEF SoundCheckpoints
<1>5. SoundReceipts \subseteq SoundReceipts'
  BY <1>3 DEF SoundReceipts
<1> QED BY <1>2, <1>3, <1>4, <1>5

-----------------------------------------------------------------------------
(* Comments and jobs.                                                       *)

(* A sequence keeps its comments when one is added.                         *)
LEMMA AppendPost ==
  ASSUME posts \in Seq({posts[p] : p \in DOMAIN posts}), NEW c, posts' = Append(posts, c)
  PROVE  /\ posts' \in Seq({posts'[p] : p \in DOMAIN posts'})
         /\ Len(posts) \in Nat /\ Len(posts') = Len(posts) + 1
         /\ DOMAIN posts = 1..Len(posts) /\ DOMAIN posts' = 1..Len(posts')
         /\ \A p \in DOMAIN posts : posts'[p] = posts[p]
         /\ posts'[Len(posts')] = c
<1> DEFINE S == {posts[p] : p \in DOMAIN posts} \cup {c}
<1>1. posts \in Seq(S) /\ c \in S
  <2>1. {posts[p] : p \in DOMAIN posts} \subseteq S
    OBVIOUS
  <2> QED BY <2>1, SeqMonotonic
<1> HIDE DEF S
<1>2. /\ Append(posts, c) \in Seq(S)
      /\ Len(Append(posts, c)) = Len(posts) + 1
      /\ \A p \in 1..Len(posts) : Append(posts, c)[p] = posts[p]
      /\ Append(posts, c)[Len(posts) + 1] = c
  BY <1>1, AppendProperties
<1>3. /\ Len(posts) \in Nat /\ DOMAIN posts = 1..Len(posts)
      /\ DOMAIN Append(posts, c) = 1..Len(Append(posts, c))
  BY <1>1, <1>2, LenProperties
<1>4. posts' \in Seq({posts'[p] : p \in 1..Len(posts')})
  BY <1>2, IsASeq, LenProperties
<1> QED BY <1>2, <1>3, <1>4

(* The comments sent are numbered from one on.                              *)
LEMMA PostNumbers ==
  ASSUME CommentsInv
  PROVE  /\ Len(posts) \in Nat /\ DOMAIN posts = 1..Len(posts)
         /\ landed \subseteq 1..Len(posts)
         /\ Receipts \subseteq landed /\ landed \subseteq Nat
         /\ landed \subseteq 1..MaxPosts /\ landed \subseteq Codes
<1>1. /\ Len(posts) \in Nat /\ DOMAIN posts = 1..Len(posts)
      /\ landed \subseteq 1..Len(posts) /\ Len(posts) <= MaxPosts
  BY LenProperties DEF CommentsInv
<1>2. 1..Len(posts) \subseteq 1..MaxPosts /\ 1..MaxPosts \subseteq Codes
  BY <1>1, PostsAssumption, PhaseAssumption
<1> QED BY <1>1, <1>2 DEF Receipts

(* What a step of anybody may do to the journal, the comments and the runs. *)
Evolves ==
  /\ Advances
  /\ landed \subseteq landed' /\ runs <= runs' /\ operation' = operation

(* A job that does not move keeps what it carries: nothing it was told can  *)
(* be taken back.                                                           *)
LEMMA JobKept ==
  ASSUME HistoryInv, SharedInv, Evolves, runs' \in Nat, NEW j \in Jobs, JobInv(j),
         pc'[j] = pc[j], job'[j] = job[j]
  PROVE  JobInv(j)'
<1>1. Acceptances \subseteq Acceptances' /\ Verifiable \subseteq Verifiable'
  BY VouchersGrow DEF Evolves
<1>2. landed \subseteq landed' /\ runs <= runs' /\ runs \in Nat
  BY PhaseAssumption DEF Evolves, SharedInv
<1>3. 1..runs \subseteq 1..runs'
  BY <1>2
<1>4. Preparing(j)'
  BY <1>1 DEF JobInv, Preparing, Durable
<1>5. Ensuring(j)'
  BY <1>1 DEF JobInv, Ensuring
<1>6. Handling(j)'
  BY <1>1, <1>2, <1>3 DEF JobInv, Handling
<1> QED BY <1>4, <1>5, <1>6 DEF JobInv

(* Where a job goes, and that nobody else moves.                            *)
LEMMA GotoMoves ==
  ASSUME JobsInv, NEW j \in Jobs, NEW label \in AllLabels, NEW local, Goto(j, label, local)
  PROVE  /\ pc'[j] = label /\ job'[j] = local
         /\ \A k \in Jobs : k # j => pc'[k] = pc[k] /\ job'[k] = job[k]
         /\ pc' \in [Jobs -> AllLabels] /\ job' = [k \in Jobs |-> job'[k]]
<1>1. pc' = [pc EXCEPT ![j] = label] /\ pc \in [Jobs -> AllLabels]
  BY DEF Goto, JobsInv
<1>2. job' = [job EXCEPT ![j] = local] /\ DOMAIN job = Jobs
  BY DEF Goto, JobsInv
<1> QED BY <1>1, <1>2

(* It is enough to look at the job that moved, at what it posted and at the *)
(* result it wrote.                                                         *)
LEMMA HandStep ==
  ASSUME HandInv, Evolves, SharedInv', CommentsInv', NEW j \in Jobs,
         NEW label \in AllLabels, NEW local, Goto(j, label, local), JobInv(j)'
  PROVE  HandInv'
<1>1. HistoryInv'
  BY HistoryStep DEF HandInv, Evolves
<1>2. runs' \in Nat
  BY PhaseAssumption DEF SharedInv
<1>3. ASSUME NEW k \in Jobs PROVE JobInv(k)'
  <2>1. CASE k = j
    BY <2>1
  <2>2. CASE k # j
    <3>1. pc'[k] = pc[k] /\ job'[k] = job[k] /\ JobInv(k)
      BY <2>2, GotoMoves DEF HandInv, JobsInv
    <3> QED BY <1>2, <3>1, JobKept DEF HandInv
  <2> QED BY <2>1, <2>2
<1>4. JobsInv'
  BY <1>3, GotoMoves DEF HandInv, JobsInv
<1> QED BY <1>1, <1>4 DEF HandInv

(* Comments that are neither sent nor stored stay sound.                    *)
LEMMA CommentsKept ==
  ASSUME HandInv, Advances, UNCHANGED commentVars
  PROVE  CommentsInv'
<1>1. SoundCheckpoints \subseteq SoundCheckpoints' /\ SoundReceipts \subseteq SoundReceipts'
  BY VouchersGrow DEF HandInv
<1> QED BY <1>1 DEF HandInv, CommentsInv, SoundPost, commentVars

(* Nor does a sound result become unsound.                                  *)
LEMMA SharedKept ==
  ASSUME HandInv, Advances, UNCHANGED <<effectVars, files, controlled>>
  PROVE  SharedInv'
<1>1. Verifiable \subseteq Verifiable'
  BY VouchersGrow DEF HandInv
<1> QED BY <1>1 DEF HandInv, SharedInv, effectVars

(* A step of one job that leaves journal, comments, runs and results alone. *)
LEMMA LocalStep ==
  ASSUME HandInv, Local, NEW j \in Jobs, NEW label \in AllLabels, NEW local,
         Goto(j, label, local), JobInv(j)'
  PROVE  HandInv'
<1>1. Advances /\ UNCHANGED commentVars /\ UNCHANGED <<effectVars, files, controlled>>
  BY DEF Local, Advances
<1>2. Evolves
  BY <1>1, PhaseAssumption DEF Evolves, commentVars, effectVars, HandInv, SharedInv
<1>3. CommentsInv' /\ SharedInv'
  BY <1>1, CommentsKept, SharedKept
<1> QED BY <1>2, <1>3, HandStep

(* A step that also changes the record.                                     *)
LEMMA RecordStep ==
  ASSUME HandInv, Advances, UNCHANGED <<commentVars, effectVars, files, controlled>>,
         NEW j \in Jobs, NEW label \in AllLabels, NEW local,
         Goto(j, label, local), JobInv(j)'
  PROVE  HandInv'
<1>1. Evolves
  BY PhaseAssumption DEF Evolves, commentVars, effectVars, HandInv, SharedInv
<1>2. CommentsInv' /\ SharedInv'
  BY CommentsKept, SharedKept
<1> QED BY <1>1, <1>2, HandStep

(* A job that is done carries nothing.                                      *)
LEMMA IdleJob == ASSUME NEW j \in Jobs, pc'[j] = "idle" PROVE JobInv(j)'
BY DEF JobInv, Preparing, Ensuring, Handling, LaterLabels

(* A job on its way through the later phases.                               *)
LEMMA LaterJob ==
  ASSUME NEW j \in Jobs,
         pc'[j] \in LaterLabels \ {"dispatched", "receipt", "settle"},
         job'[j].bundle \in Verifiable', job'[j] \in Locals(job'[j].comment)
  PROVE  JobInv(j)'
BY DEF JobInv, Preparing, Ensuring, Handling, LaterLabels

-----------------------------------------------------------------------------
(* prepare.                                                                 *)

(* What a job begins a phase with.                                          *)
LEMMA StartType ==
  ASSUME NEW b \in Bundle, NEW d \in Dispositions \cup {NoValue}
  PROVE  /\ Start(b, d) \in Locals(NoValue)
         /\ Start(b, d).bundle = b /\ Start(b, d).disposition = d /\ ~Start(b, d).whole
BY DEF Start, Locals

(* A job that wants one of prepare's comments to exist.                     *)
LEMMA EnsureJob ==
  ASSUME NEW j \in Jobs, pc'[j] \in {"ensure", "posted"}, NEW c,
         job'[j] \in Locals(c), job'[j].comment = c,
         \/ job'[j].bundle \in Acceptances' /\ c = Intent(job'[j].bundle)
         \/ /\ job'[j].bundle \in Verifiable' /\ job'[j].disposition \in Dispositions
            /\ c = Checkpoint(job'[j].bundle, job'[j].disposition)
  PROVE  JobInv(j)'
<1>1. Handling(j)' /\ Preparing(j)'
  BY DEF Handling, Preparing, LaterLabels
<1>2. Ensuring(j)'
  BY DEF Ensuring, Intent, Checkpoint
<1> QED BY <1>1, <1>2 DEF JobInv

(* A result that can be verified is written.                                *)
LEMMA ResultStep ==
  ASSUME HandInv, Advances, UNCHANGED <<commentVars, effectVars, controlled>>,
         NEW j \in Jobs, NEW b \in Verifiable', NEW d \in Dispositions, WriteResult(j, b, d)
  PROVE  HandInv'
<1>1. /\ files' = files \cup {[bundle |-> b, disposition |-> d]}
      /\ Goto(j, "idle", NoValue)
  BY DEF WriteResult, Finish
<1>2. Verifiable \subseteq Verifiable'
  BY VouchersGrow DEF HandInv
<1>3. SharedInv'
  BY <1>1, <1>2 DEF HandInv, SharedInv, effectVars
<1>4. Evolves
  BY PhaseAssumption DEF Evolves, commentVars, effectVars, HandInv, SharedInv
<1>5. "idle" \in AllLabels
  BY DEF AllLabels, Labels
<1>6. JobInv(j)'
  BY <1>1, <1>5, GotoMoves, IdleJob DEF HandInv
<1> QED BY <1>1, <1>3, <1>4, <1>5, <1>6, CommentsKept, HandStep

(* A bundle that can be verified is handed over, one way or another.        *)
LEMMA HandoffStep ==
  ASSUME HandInv, Advances, UNCHANGED <<commentVars, effectVars, controlled>>,
         NEW j \in Jobs, NEW b \in Verifiable', NEW d \in Dispositions, Handoff(j, b, d)
  PROVE  HandInv'
<1>0. b \in Bundle
  BY DEF Verifiable
<1>1. CASE Ensure(j, Start(b, d), Checkpoint(b, d)) /\ UNCHANGED files
  <2> DEFINE c == Checkpoint(b, d)
             local == [Start(b, d) EXCEPT !.comment = c]
  <2>1. /\ local \in Locals(c) /\ local.comment = c
        /\ local.bundle = b /\ local.disposition = d
    BY <1>0 DEF Start, Locals
  <2>2. Goto(j, "ensure", local) /\ "ensure" \in AllLabels
    BY <1>1 DEF Ensure, AllLabels, Labels
  <2> HIDE DEF local
  <2>3. pc'[j] = "ensure" /\ job'[j] = local
    BY <2>2, GotoMoves DEF HandInv
  <2> HIDE DEF c
  <2>4. c = Checkpoint(job'[j].bundle, job'[j].disposition)
    BY <2>1, <2>3 DEF c
  <2>5. JobInv(j)'
    BY <2>1, <2>3, <2>4, EnsureJob
  <2> QED BY <1>1, <2>2, <2>5, RecordStep
<1>2. CASE WriteResult(j, b, d)
  BY <1>2, ResultStep
<1>3. CASE /\ Goto(j, "execute", [Executing(b) EXCEPT !.whole = TRUE])
           /\ UNCHANGED files
  <2> DEFINE local == [Executing(b) EXCEPT !.whole = TRUE]
  <2>1. local \in Locals(NoValue) /\ local.comment = NoValue /\ local.bundle = b
    BY <1>0 DEF Executing, Start, Locals
  <2>2. Goto(j, "execute", local) /\ "execute" \in AllLabels
    BY <1>3 DEF AllLabels, Labels
  <2> HIDE DEF local
  <2>3. pc'[j] = "execute" /\ job'[j] = local
    BY <2>2, GotoMoves DEF HandInv
  <2>4. JobInv(j)'
    BY <2>1, <2>3, LaterJob DEF LaterLabels
  <2> QED BY <1>3, <2>2, <2>4, RecordStep
<1> QED BY <1>1, <1>2, <1>3 DEF Handoff

(* What publishing a record that follows the current one does.              *)
LEMMA PublishAdvances ==
  ASSUME HistoryTypeOK, NEW rec \in Record, PublishRecord(rec), Follows(Current, rec)
  PROVE  Advances
BY DEF PublishRecord, Advances

(* Acceptance adds nothing to a request there is.                           *)
LEMMA AcceptAdvances ==
  ASSUME HandInv, NEW j \in Jobs, NEW execution \in Executions, NEW whole \in BOOLEAN,
         Accept(j, execution, whole)
  PROVE  /\ Advances /\ Current' # NoValue
         /\ Current' = Current \/ Current'.state = "accepted"
<1>1. HistoryTypeOK /\ Current \in Record \cup {NoValue}
  BY HeadType DEF HandInv, HistoryInv
<1>2. PICK identity \in Identities, meta \in Metas :
        PublishRecord(IF Current = NoValue THEN New(identity, meta) ELSE Current)
  BY DEF Accept
<1>3. CASE Current = NoValue
  <2>1. /\ New(identity, meta) \in Record /\ Follows(Current, New(identity, meta))
        /\ New(identity, meta).state = "accepted"
    BY <1>3 DEF New, Record, States, TerminalStates, Follows
  <2>2. New(identity, meta) # Current
    BY <1>3, <2>1, NoRecordAssumption
  <2>3. history' = Append(history, New(identity, meta))
    BY <1>2, <1>3, <2>2 DEF PublishRecord
  <2>4. Current' = New(identity, meta)
    BY <1>1, <2>1, <2>3, AppendRecord
  <2> QED BY <2>1, <2>2, <2>3, <2>4, <1>3 DEF Advances
<1>4. CASE Current # NoValue
  <2>1. history' = history
    BY <1>2, <1>4 DEF PublishRecord
  <2> QED BY <1>4, <2>1 DEF Advances, Current, HeadSha
<1> QED BY <1>3, <1>4

(* Acceptance: the request is in the journal, here or from before.          *)
LEMMA AcceptStep ==
  ASSUME HandInv, NEW j \in Jobs, NEW execution \in Executions, NEW whole \in BOOLEAN,
         Accept(j, execution, whole)
  PROVE  HandInv'
<1> DEFINE b == BundleOf(execution, Len(history'), 0)
           local == [Start(b, "granted") EXCEPT !.whole = whole]
<1>1. /\ UNCHANGED <<commentVars, effectVars, files, controlled>>
      /\ whole => ~Durable
  BY DEF Accept
<1>2. Advances /\ Current' # NoValue
  BY AcceptAdvances
<1>3. HistoryTypeOK'
  BY <1>2, HistoryStep DEF HandInv, HistoryInv
<1>4. /\ Len(history') \in Nat \ {0} /\ Len(history') \in Revision'
      /\ history'[Len(history')] = Current'
  <2>1. history' \in Seq(Record \cup {NoValue}) /\ history' # << >>
    BY <1>3 DEF HistoryTypeOK
  <2>2. Len(history') \in Nat \ {0}
    BY <2>1, EmptySeq, LenProperties
  <2> QED BY <2>2 DEF HeadSha, Current, Revision
<1>5. b \in Bundle /\ b.accepted = Len(history') /\ b.claim = 0
  BY <1>4 DEF BundleOf, Bundle
<1>6. ASSUME Durable => history'[Len(history')].state = "accepted"
      PROVE  b \in Acceptances'
  BY <1>2, <1>4, <1>5, <1>6 DEF Acceptances, Durable
<1>7. local \in Locals(NoValue) /\ local.bundle = b /\ local.whole = whole /\ local.comment = NoValue
  BY <1>5 DEF Start, Locals, Dispositions
<1>8. CASE ~Durable /\ Goto(j, "claim", local)
  <2> HIDE DEF b, local
  <2>1. "claim" \in AllLabels
    BY DEF AllLabels, Labels
  <2>2. pc'[j] = "claim" /\ job'[j] = local
    BY <1>8, <2>1, GotoMoves DEF HandInv
  <2>3. JobInv(j)'
    BY <1>6, <1>7, <1>8, <2>2
       DEF JobInv, Preparing, Ensuring, Handling, LaterLabels, Durable
  <2> QED BY <1>1, <1>2, <1>8, <2>1, <2>3, RecordStep
<1>9. CASE /\ Durable /\ history'[Len(history')].state = "accepted"
           /\ Ensure(j, local, Intent(b))
  <2> DEFINE c == Intent(b)
             wants == [local EXCEPT !.comment = c]
  <2>1. wants \in Locals(c) /\ wants.comment = c /\ wants.bundle = b
    BY <1>7 DEF Locals
  <2>2. Goto(j, "ensure", wants) /\ "ensure" \in AllLabels
    BY <1>9 DEF Ensure, AllLabels, Labels
  <2>3. b \in Acceptances'
    BY <1>6, <1>9
  <2> HIDE DEF wants, b, local
  <2>4. pc'[j] = "ensure" /\ job'[j] = wants
    BY <2>2, GotoMoves DEF HandInv
  <2>5. JobInv(j)'
    BY <2>1, <2>3, <2>4, EnsureJob
  <2> QED BY <1>1, <1>2, <2>2, <2>5, RecordStep
<1>10. CASE Durable /\ Goto(j, "load", local)
  <2> HIDE DEF b, local
  <2>1. "load" \in AllLabels
    BY DEF AllLabels, Labels
  <2>2. pc'[j] = "load" /\ job'[j] = local
    BY <1>10, <2>1, GotoMoves DEF HandInv
  <2>3. JobInv(j)'
    BY <1>1, <1>7, <1>10, <2>2
       DEF JobInv, Preparing, Ensuring, Handling, LaterLabels, Durable
  <2> QED BY <1>1, <1>2, <1>10, <2>1, <2>3, RecordStep
<1> QED BY <1>8, <1>9, <1>10 DEF Accept

(* A comment is sent that says what may be said.                            *)
LEMMA PostStep ==
  ASSUME HandInv, UNCHANGED <<history, effectVars, files, controlled>>,
         NEW c, SendComment(c),
         /\ c.kind = "intent" => c \in Intents
         /\ c.kind = "prepare" => c \in SoundCheckpoints
         /\ c.kind = "receipt" => c \in SoundReceipts,
         NEW j \in Jobs, NEW label \in AllLabels, NEW local, Goto(j, label, local), JobInv(j)'
  PROVE  HandInv'
<1>1. /\ posts' = Append(posts, c) /\ Len(posts) < MaxPosts /\ landed' = landed
      /\ posts \in Seq({posts[p] : p \in DOMAIN posts})
  BY DEF SendComment, HandInv, CommentsInv
<1>2. /\ posts' \in Seq({posts'[p] : p \in DOMAIN posts'})
      /\ Len(posts) \in Nat /\ Len(posts') = Len(posts) + 1
      /\ DOMAIN posts = 1..Len(posts) /\ DOMAIN posts' = 1..Len(posts')
      /\ \A p \in DOMAIN posts : posts'[p] = posts[p]
      /\ posts'[Len(posts')] = c
  BY <1>1, AppendPost
<1>3. Advances
  BY DEF Advances
<1>4. SoundCheckpoints \subseteq SoundCheckpoints' /\ SoundReceipts \subseteq SoundReceipts'
  BY <1>3, VouchersGrow DEF HandInv
<1>5. ASSUME NEW p \in DOMAIN posts' PROVE SoundPost(p)'
  <2>1. CASE p \in DOMAIN posts
    BY <1>2, <1>4, <2>1 DEF HandInv, CommentsInv, SoundPost
  <2>2. CASE p = Len(posts')
    BY <1>2, <1>4, <2>2 DEF SoundPost
  <2> QED BY <1>2, <2>1, <2>2
<1>6. CommentsInv'
  <2>1. landed' \subseteq DOMAIN posts'
    BY <1>1, <1>2 DEF HandInv, CommentsInv
  <2>2. Len(posts') <= MaxPosts
    BY <1>1, <1>2, PostsAssumption
  <2> QED BY <1>2, <1>5, <2>1, <2>2 DEF CommentsInv
<1>7. SharedInv'
  BY <1>3, SharedKept
<1>8. Evolves
  BY <1>1, <1>3, PhaseAssumption DEF Evolves, effectVars, HandInv, SharedInv
<1> QED BY <1>6, <1>7, <1>8, HandStep

(* prepare posts what it has made sure is missing.                          *)
LEMMA PostMissingStep == \A j \in Jobs : HandInv /\ PostMissing(j) => HandInv'
<1> SUFFICES ASSUME NEW j \in Jobs, HandInv, PostMissing(j) PROVE HandInv'
  OBVIOUS
<1> DEFINE c == job[j].comment
           local == [job[j] EXCEPT !.number = Len(posts) + 1]
<1>1. /\ pc[j] = "ensure" /\ SendComment(c) /\ Goto(j, "posted", local)
      /\ UNCHANGED <<history, effectVars, files, controlled>>
      /\ JobInv(j) /\ "posted" \in AllLabels
  BY DEF PostMissing, HandInv, JobsInv, AllLabels, Labels
<1>2. job[j] \in Locals(c) /\ Ensuring(j)
  BY <1>1 DEF JobInv
<1>3. Len(posts) \in Nat
  BY PostNumbers DEF HandInv
<1>4. /\ local \in Locals(c) /\ local.comment = c /\ local.bundle = job[j].bundle
      /\ local.disposition = job[j].disposition /\ job[j].bundle \in Bundle
  BY <1>2, <1>3 DEF Locals
<1>5. /\ c.kind = "intent" => c \in Intents
      /\ c.kind = "prepare" => c \in SoundCheckpoints
      /\ c.kind = "receipt" => c \in SoundReceipts
  BY <1>1, <1>2, <1>4
     DEF Ensuring, Intent, Intents, Checkpoint, SoundCheckpoints, Bundle
<1>6. Acceptances' = Acceptances /\ Verifiable' = Verifiable
  BY <1>1
     DEF Acceptances, Verifiable, Verified, AcceptedAt, ClaimedAt, OwnedBy, Revision, Current,
       HeadSha, Durable
<1> HIDE DEF local
<1>7. pc'[j] = "posted" /\ job'[j] = local
  BY <1>1, GotoMoves DEF HandInv
<1>8. JobInv(j)'
  <2>1. Ensuring(j)'
    BY <1>1, <1>2, <1>4, <1>6, <1>7 DEF Ensuring
  <2>2. job'[j] \in Locals(job'[j].comment)
    BY <1>4, <1>7
  <2> QED BY <1>7, <2>1, <2>2 DEF JobInv, Preparing, Handling, LaterLabels
<1> QED BY <1>1, <1>5, <1>7, <1>8, PostStep

(* The comments there are say what may be said.                             *)
LEMMA CommentsAreSound ==
  ASSUME HandInv
  PROVE  /\ \A kind, e : PublisherComments(kind, e) \subseteq DOMAIN posts
         /\ \A e, p : p \in PublisherComments("intent", e) => posts[p] \in Intents
         /\ \A e, p : p \in PublisherComments("prepare", e) => posts[p] \in SoundCheckpoints
         /\ \A p \in Receipts : p \in DOMAIN posts /\ posts[p] \in SoundReceipts
BY DEF HandInv, CommentsInv, SoundPost, PublisherComments, Receipts

(* Whatever a later phase is given can be verified.                         *)
LEMMA HandoffsSound ==
  ASSUME HandInv
  PROVE  Handoffs \subseteq [bundle : Verifiable, disposition : Dispositions]
<1>1. \A q \in landed : posts[q].kind = "prepare" => posts[q] \in SoundCheckpoints
  BY DEF HandInv, CommentsInv, SoundPost
<1>2. DurableCheckpoints \subseteq [bundle : Verifiable, disposition : Dispositions]
  BY <1>1 DEF DurableCheckpoints, SoundCheckpoints
<1> QED BY <1>2 DEF Handoffs, HandInv, SharedInv

(* Local steps leave what the journal vouches for.                          *)
LEMMA VouchersKept ==
  ASSUME UNCHANGED history
  PROVE  Acceptances' = Acceptances /\ Verifiable' = Verifiable
BY DEF Acceptances, Verifiable, Verified, AcceptedAt, ClaimedAt, OwnedBy, Revision, Current,
     HeadSha, Durable

(* The intent is on the Issue: on to the claim.                             *)
LEMMA IntentEnsuredStep ==
  ASSUME HandInv, NEW j \in Jobs, IntentEnsured(j)
  PROVE  HandInv'
<1> DEFINE local == Start(job[j].bundle, "granted")
<1>1. /\ Goto(j, "claim", local) /\ Local /\ "claim" \in AllLabels
      /\ pc[j] \in {"ensure", "posted"} /\ job[j].comment.kind = "intent"
  BY DEF IntentEnsured, Ensured, AllLabels, Labels
<1>2. job[j].bundle \in Acceptances /\ job[j].bundle \in Bundle
  BY <1>1 DEF HandInv, JobsInv, JobInv, Ensuring, Acceptances
<1>3. /\ local \in Locals(NoValue) /\ local.bundle = job[j].bundle /\ ~local.whole
      /\ local.comment = NoValue
  BY <1>2, StartType DEF Start, Dispositions
<1>4. Acceptances' = Acceptances
  BY <1>1, VouchersKept DEF Local
<1> HIDE DEF local
<1>5. pc'[j] = "claim" /\ job'[j] = local
  BY <1>1, GotoMoves DEF HandInv
<1>6. JobInv(j)'
  BY <1>2, <1>3, <1>4, <1>5 DEF JobInv, Preparing, Ensuring, Handling, LaterLabels
<1> QED BY <1>1, <1>6, LocalStep

(* A resumed job takes the accepted revision from the only intent.          *)
LEMMA LoadIntentStep ==
  ASSUME HandInv, NEW j \in Jobs, LoadIntent(j)
  PROVE  HandInv'
<1>1. PICK p \in PublisherComments("intent", job[j].bundle.execution) :
        /\ AcceptedAt(posts[p].accepted)
        /\ Goto(j, "claim", [job[j] EXCEPT !.bundle.accepted = posts[p].accepted])
  BY DEF LoadIntent
<1> DEFINE local == [job[j] EXCEPT !.bundle.accepted = posts[p].accepted]
<1>2. pc[j] = "load" /\ Local /\ "claim" \in AllLabels
  BY DEF LoadIntent, AllLabels, Labels
<1>3. job[j] \in Locals(job[j].comment) /\ (job[j].whole => ~Durable) /\ Durable
  BY <1>2 DEF HandInv, JobsInv, JobInv, Preparing
<1>4. posts[p].accepted \in Nat
  BY CommentsAreSound DEF Intents
<1>5. /\ local \in Locals(job[j].comment) /\ local.comment = job[j].comment
      /\ ~local.whole /\ local.bundle \in Bundle
      /\ local.bundle.accepted = posts[p].accepted
  BY <1>3, <1>4 DEF Locals, Bundle
<1>6. local.bundle \in Acceptances
  BY <1>1, <1>5 DEF Acceptances, AcceptedAt
<1>7. Acceptances' = Acceptances
  BY <1>2, VouchersKept DEF Local
<1> HIDE DEF local
<1>8. pc'[j] = "claim" /\ job'[j] = local /\ Goto(j, "claim", local)
  BY <1>1, <1>2, GotoMoves DEF HandInv, local
<1>9. JobInv(j)'
  <2>1. job'[j] \in Locals(job'[j].comment)
    BY <1>5, <1>8
  <2> QED
    BY <1>5, <1>6, <1>7, <1>8, <2>1 DEF JobInv, Preparing, Ensuring, Handling, LaterLabels
<1> QED BY <1>2, <1>8, <1>9, LocalStep

(* A granted claim makes the bundle verifiable: its acceptance was one, and *)
(* the claim is the new head.                                               *)
LEMMA ClaimVouches ==
  ASSUME HandInv, NEW j \in Jobs, ClaimGranted(j)
  PROVE  /\ Advances /\ ~Unclaimed'
         /\ [job[j].bundle EXCEPT !.claim = Len(history')] \in Verifiable'
         /\ Unclaimed
<1> DEFINE e == job[j].bundle.execution
           rec == ClaimExecution(Current, e)
           b == [job[j].bundle EXCEPT !.claim = Len(history')]
<1>1. /\ pc[j] = "claim" /\ Current # NoValue /\ Current.state = "accepted"
      /\ PublishRecord(rec)
  BY DEF ClaimGranted, ClaimOutcome
<1>2. /\ HistoryTypeOK /\ Current \in Record
      /\ \A n \in Revision : history[n] = NoValue \/ history[n].state = "accepted"
      /\ Len(history) \in Nat
  BY <1>1, HeadType DEF HandInv, HistoryInv, Unclaimed
<1>3. job[j].bundle \in Acceptances /\ job[j].bundle \in Bundle /\ e \in Executions
  BY <1>1 DEF HandInv, JobsInv, JobInv, Preparing, Acceptances, Bundle
<1>4. /\ rec \in Record /\ rec.state = "executing" /\ rec.execution_id = e
      /\ Follows(Current, rec)
  BY <1>1, <1>2, <1>3 DEF ClaimExecution, Record, States, Follows
<1> HIDE DEF rec
<1>5. history' = Append(history, rec)
  BY <1>1, <1>4 DEF PublishRecord
<1>6. /\ Len(history') = Len(history) + 1 /\ HistoryTypeOK'
      /\ \A n \in Revision : n \in Revision' /\ history'[n] = history[n]
      /\ Current' = rec /\ history'[Len(history')] = rec
  BY <1>2, <1>4, <1>5, AppendRecord
<1>7. b \in Bundle /\ b.execution = e /\ b.accepted = job[j].bundle.accepted
      /\ b.claim = Len(history')
  BY <1>2, <1>3, <1>6 DEF Bundle
<1> HIDE DEF b, e
<1>8. /\ b.accepted \in Revision /\ history[b.accepted] # NoValue
      /\ history[b.accepted].state = "accepted"
  BY <1>2, <1>3, <1>7 DEF Acceptances
<1>9. b.accepted <= b.claim /\ Len(history') \in Revision'
  BY <1>2, <1>6, <1>7, <1>8 DEF Revision
<1>10. rec # NoValue
  BY <1>4, NoRecordAssumption
<1>11. b \in Verifiable'
  BY <1>4, <1>6, <1>7, <1>8, <1>9, <1>10
     DEF Verifiable, Verified, AcceptedAt, ClaimedAt, OwnedBy
<1>12. Advances /\ ~Unclaimed' /\ Unclaimed
  BY <1>1, <1>4, <1>5, <1>6, <1>10 DEF Advances, Unclaimed
<1> QED BY <1>11, <1>12 DEF b

(* The claim, with what it hands over.                                      *)
LEMMA ClaimGrantedStep ==
  ASSUME HandInv, NEW j \in Jobs, ClaimGranted(j)
  PROVE  HandInv'
<1> DEFINE b == [job[j].bundle EXCEPT !.claim = Len(history')]
<1>1. Handoff(j, b, "granted") /\ UNCHANGED <<commentVars, effectVars, controlled>>
  BY DEF ClaimGranted
<1>2. Advances /\ b \in Verifiable'
  BY ClaimVouches
<1> HIDE DEF b
<1> QED BY <1>1, <1>2, HandoffStep DEF Dispositions

(* The owner's own claim, found in the journal.                             *)
LEMMA ClaimRepeatedStep ==
  ASSUME HandInv, NEW j \in Jobs, ClaimRepeated(j)
  PROVE  HandInv'
<1> DEFINE local == [job[j] EXCEPT !.bundle.claim = HeadSha, !.state = Current.state]
<1>1. /\ pc[j] = "claim" /\ Durable /\ OwnedBy(job[j].bundle.execution)
      /\ Goto(j, "resume", local) /\ Local /\ "resume" \in AllLabels
  BY DEF ClaimRepeated, AllLabels, Labels
<1>2. /\ job[j] \in Locals(job[j].comment) /\ job[j].bundle \in Acceptances
      /\ ~job[j].whole /\ Durable
  BY <1>1 DEF HandInv, JobsInv, JobInv, Preparing
<1>3. /\ HeadSha \in Revision /\ HeadSha \in Nat /\ Current \in Record /\ Current # NoValue
      /\ Current = history[HeadSha]
  BY <1>1, HeadType, NoRecordAssumption
     DEF HandInv, HistoryInv, OwnedBy, Current, HeadSha
<1>4. /\ local \in Locals(job[j].comment) /\ local.comment = job[j].comment
      /\ local.bundle \in Bundle /\ ~local.whole /\ local.state = Current.state
      /\ local.bundle.accepted = job[j].bundle.accepted
      /\ local.bundle.execution = job[j].bundle.execution
      /\ local.bundle.claim = HeadSha
  BY <1>2, <1>3 DEF Locals, Bundle, Record
<1> HIDE DEF local
<1>5. /\ local.bundle.accepted \in Revision /\ history[local.bundle.accepted] # NoValue
      /\ history[local.bundle.accepted].state = "accepted"
  BY <1>2, <1>4 DEF Acceptances
<1>6. local.bundle.accepted <= local.bundle.claim
  BY <1>4, <1>5, HeadType DEF Revision, HeadSha, HandInv, HistoryInv
<1>7. local.state = "executing" => local.bundle \in Verifiable
  BY <1>1, <1>3, <1>4, <1>5, <1>6
     DEF Verifiable, Verified, AcceptedAt, ClaimedAt, OwnedBy
<1>8. Verifiable' = Verifiable
  BY <1>1, VouchersKept DEF Local
<1>9. pc'[j] = "resume" /\ job'[j] = local
  BY <1>1, GotoMoves DEF HandInv
<1>10. JobInv(j)'
  <2>1. job'[j] \in Locals(job'[j].comment)
    BY <1>4, <1>9
  <2> QED
    BY <1>1, <1>4, <1>7, <1>8, <1>9, <2>1
       DEF JobInv, Preparing, Ensuring, Handling, LaterLabels, Durable
<1> QED BY <1>1, <1>10, LocalStep

(* What a resumed job hands over.                                           *)
LEMMA ResumeStep ==
  ASSUME HandInv, NEW j \in Jobs, Resume(j)
  PROVE  HandInv'
<1> DEFINE found == PublisherComments("prepare", job[j].bundle.execution)
<1>1. /\ pc[j] = "resume"
      /\ UNCHANGED <<history, commentVars, effectVars, controlled>>
      /\ \/ job[j].state = "executing" /\ Handoff(j, job[j].bundle, "reconciliation_required")
         \/ \E p \in found : WriteResult(j, posts[p].bundle, "reconciliation_required")
  BY DEF Resume
<1>2. Advances /\ Verifiable' = Verifiable
  BY <1>1, VouchersKept DEF Advances
<1>3. CASE job[j].state = "executing" /\ Handoff(j, job[j].bundle, "reconciliation_required")
  <2>1. job[j].bundle \in Verifiable'
    BY <1>1, <1>2, <1>3 DEF HandInv, JobsInv, JobInv, Preparing
  <2> QED BY <1>1, <1>2, <1>3, <2>1, HandoffStep DEF Dispositions
<1>4. ASSUME NEW p \in found, WriteResult(j, posts[p].bundle, "reconciliation_required")
      PROVE  HandInv'
  <2>1. posts[p].bundle \in Verifiable'
    BY <1>2, CommentsAreSound DEF SoundCheckpoints
  <2> QED BY <1>1, <1>2, <1>4, <2>1, ResultStep DEF Dispositions
<1> QED BY <1>1, <1>3, <1>4

(* The checkpoint is on the Issue: the result is written.                   *)
LEMMA CheckpointEnsuredStep ==
  ASSUME HandInv, NEW j \in Jobs, CheckpointEnsured(j)
  PROVE  HandInv'
<1>1. /\ pc[j] \in {"ensure", "posted"} /\ job[j].comment.kind = "prepare"
      /\ WriteResult(j, job[j].bundle, job[j].disposition)
      /\ UNCHANGED <<history, commentVars, effectVars, controlled>>
  BY DEF CheckpointEnsured, Ensured
<1>2. job[j].bundle \in Verifiable /\ job[j].disposition \in Dispositions
  BY <1>1 DEF HandInv, JobsInv, JobInv, Ensuring
<1>3. Advances /\ Verifiable' = Verifiable
  BY <1>1, VouchersKept DEF Advances
<1> QED BY <1>1, <1>2, <1>3, ResultStep

-----------------------------------------------------------------------------
(* control and control-reconcile.                                           *)

(* A job goes on to a later phase, or within one, with a bundle that can be *)
(* verified.                                                                *)
LEMMA LaterStep ==
  ASSUME HandInv, Local, NEW j \in Jobs,
         NEW label \in LaterLabels \ {"dispatched", "receipt", "settle"},
         NEW c, NEW local \in Locals(c), local.comment = c,
         local.bundle \in Verifiable, Goto(j, label, local)
  PROVE  HandInv'
<1>1. label \in AllLabels
  BY DEF LaterLabels, AllLabels, Labels
<1>2. pc'[j] = label /\ job'[j] = local
  BY <1>1, GotoMoves DEF HandInv
<1>3. Verifiable' = Verifiable
  BY VouchersKept DEF Local
<1>4. job'[j] \in Locals(job'[j].comment)
  BY <1>2
<1>5. JobInv(j)'
  BY <1>2, <1>3, <1>4, LaterJob
<1> QED BY <1>1, <1>5, LocalStep

(* What a job in a later phase carries.                                     *)
LEMMA LaterType ==
  ASSUME HandInv, NEW j \in Jobs, pc[j] \in LaterLabels
  PROVE  job[j] \in Locals(job[j].comment) /\ job[j].bundle \in Verifiable
BY DEF HandInv, JobsInv, JobInv, Handling, LaterLabels

(* Control takes a bundle, which it will not take again.                    *)
LEMMA ControlStep ==
  ASSUME HandInv, NEW j \in Jobs, NEW handoff \in Handoffs, Control(j, handoff)
  PROVE  HandInv'
<1> DEFINE b == handoff.bundle
           local == Executing(b)
<1>1. /\ controlled' = (IF ControlReruns THEN controlled ELSE controlled \cup {b})
      /\ Goto(j, "execute", local)
      /\ UNCHANGED <<commentVars, effectVars, history, files>>
      /\ "execute" \in AllLabels /\ "execute" \in LaterLabels \ {"dispatched", "receipt", "settle"}
  BY DEF Control, AllLabels, Labels, LaterLabels
<1>2. b \in Verifiable /\ b \in Bundle
  BY HandoffsSound DEF Verifiable
<1>3. local \in Locals(NoValue) /\ local.bundle = b /\ local.comment = NoValue
  BY <1>2 DEF Executing, Start, Locals
<1>4. Advances /\ Verifiable' = Verifiable
  BY <1>1, VouchersKept DEF Advances
<1>5. Evolves
  BY <1>1, <1>4, PhaseAssumption DEF Evolves, commentVars, effectVars, HandInv, SharedInv
<1>6. SharedInv' /\ CommentsInv'
  BY <1>1, <1>2, <1>4, CommentsKept DEF HandInv, SharedInv, effectVars
<1> HIDE DEF local, b
<1>7. pc'[j] = "execute" /\ job'[j] = local
  BY <1>1, GotoMoves DEF HandInv
<1>8. JobInv(j)'
  BY <1>1, <1>2, <1>3, <1>4, <1>7, LaterJob
<1> QED BY <1>1, <1>5, <1>6, <1>8, HandStep

(* control-reconcile takes any bundle.                                      *)
LEMMA ControlReconcileStep ==
  ASSUME HandInv, NEW j \in Jobs, NEW handoff \in Handoffs, ControlReconcile(j, handoff)
  PROVE  HandInv'
<1> DEFINE b == handoff.bundle
           local == [Start(b, NoValue) EXCEPT !.looks = TRUE]
<1>1. /\ Goto(j, "execute", local) /\ Local
      /\ "execute" \in LaterLabels \ {"dispatched", "receipt", "settle"}
  BY DEF ControlReconcile, LaterLabels
<1>2. b \in Verifiable /\ b \in Bundle
  BY HandoffsSound DEF Verifiable
<1>3. local \in Locals(NoValue) /\ local.bundle = b /\ local.comment = NoValue
  BY <1>2 DEF Start, Locals
<1> HIDE DEF local, b
<1> QED BY <1>1, <1>2, <1>3, LaterStep

(* A receipt of the job's own bundle is on its way.                         *)
LEMMA PublishReceiptStep ==
  ASSUME HandInv, Local, NEW j \in Jobs, pc[j] \in LaterLabels,
         NEW state \in Results, NEW run \in Nat, PublishReceipt(j, state, run)
  PROVE  HandInv'
<1> DEFINE o == [state |-> state, run |-> run]
           c == Receipt(job[j].bundle, o)
           local == [job[j] EXCEPT !.comment = c]
<1>1. Goto(j, "receipt", local) /\ "receipt" \in AllLabels
  BY DEF PublishReceipt, AllLabels, Labels
<1>2. job[j] \in Locals(job[j].comment) /\ job[j].bundle \in Verifiable
  BY LaterType
<1>3. local \in Locals(c) /\ local.comment = c /\ local.bundle = job[j].bundle
  BY <1>2 DEF Locals
<1>4. c = Receipt(local.bundle, c.outcome) /\ c.outcome \in Outcomes
  BY <1>3 DEF Receipt, Outcomes
<1>5. Verifiable' = Verifiable
  BY VouchersKept DEF Local
<1> HIDE DEF local, c
<1>6. pc'[j] = "receipt" /\ job'[j] = local
  BY <1>1, GotoMoves DEF HandInv
<1>7. Handling(j)'
  BY <1>2, <1>3, <1>4, <1>5, <1>6 DEF Handling, LaterLabels
<1>8. JobInv(j)'
  <2>1. job'[j] \in Locals(job'[j].comment)
    BY <1>3, <1>6
  <2> QED BY <1>6, <1>7, <2>1 DEF JobInv, Preparing, Ensuring
<1> QED BY <1>1, <1>8, LocalStep

(* The steps that decide on a receipt.                                      *)
LEMMA DecidingSteps ==
  ASSUME HandInv, NEW j \in Jobs,
         Unsupported(j) \/ Inspect(j) \/ DispatchRefused(j) \/ RunReadBack(j) \/ RunReconciled(j)
  PROVE  HandInv'
<1>1. pc[j] \in LaterLabels /\ Local
  BY DEF Unsupported, Inspect, DispatchRefused, Dispatches, RunReadBack, RunReconciled,
       Reconciles, LaterLabels
<1>2. pc[j] = "dispatched" => job[j].number \in Nat
  BY PhaseAssumption DEF HandInv, JobsInv, JobInv, Handling, SharedInv
<1>3. \E state \in Results, run \in Nat : PublishReceipt(j, state, run)
  BY <1>2 DEF Unsupported, Inspect, DispatchRefused, Dispatches, RunReadBack, RunReconciled, Results
<1> QED BY <1>1, <1>3, PublishReceiptStep

(* A dispatch creates a run whose number the job knows.                     *)
LEMMA DispatchStep ==
  ASSUME HandInv, NEW j \in Jobs, Dispatch(j)
  PROVE  HandInv'
<1> DEFINE local == [job[j] EXCEPT !.number = runs + 1]
<1>1. /\ pc[j] = "execute" /\ runs < MaxRuns /\ runs' = runs + 1
      /\ Goto(j, "dispatched", local)
      /\ UNCHANGED <<operation, history, commentVars, files, controlled>>
      /\ "dispatched" \in AllLabels /\ pc[j] \in LaterLabels
  BY DEF Dispatch, Dispatches, AllLabels, Labels, LaterLabels
<1>2. job[j] \in Locals(job[j].comment) /\ job[j].bundle \in Verifiable
  BY <1>1, LaterType
<1>3. runs \in Nat /\ MaxRuns \in Nat
  BY PhaseAssumption DEF HandInv, SharedInv
<1>4. /\ local \in Locals(job[j].comment) /\ local.comment = job[j].comment
      /\ local.bundle = job[j].bundle /\ local.number \in 1..runs'
  BY <1>1, <1>2, <1>3 DEF Locals
<1>5. Advances /\ Verifiable' = Verifiable
  BY <1>1, VouchersKept DEF Advances
<1>6. Evolves
  BY <1>1, <1>3, <1>5 DEF Evolves, commentVars
<1>7. SharedInv' /\ CommentsInv'
  BY <1>1, <1>3, <1>5, CommentsKept DEF HandInv, SharedInv
<1> HIDE DEF local
<1>8. pc'[j] = "dispatched" /\ job'[j] = local
  BY <1>1, GotoMoves DEF HandInv
<1>9. JobInv(j)'
  <2>1. job'[j] \in Locals(job'[j].comment)
    BY <1>4, <1>8
  <2> QED
    BY <1>2, <1>4, <1>5, <1>8, <2>1 DEF JobInv, Preparing, Ensuring, Handling, LaterLabels
<1> QED BY <1>1, <1>6, <1>7, <1>9, HandStep

(* The receipt is posted; it says what its job's bundle says.               *)
LEMMA PostReceiptStep ==
  ASSUME HandInv, NEW j \in Jobs, PostReceipt(j)
  PROVE  HandInv'
<1> DEFINE c == job[j].comment
           local == [job[j] EXCEPT !.number = Len(posts) + 1]
<1>1. /\ pc[j] = "receipt" /\ SendComment(c)
      /\ UNCHANGED <<history, effectVars, files, controlled>>
      /\ Goto(j, "concluded", local) \/ Goto(j, "idle", NoValue)
      /\ "concluded" \in AllLabels /\ "idle" \in AllLabels
      /\ pc[j] \in LaterLabels /\ "concluded" \in LaterLabels \ {"dispatched", "receipt", "settle"}
  BY DEF PostReceipt, Finish, AllLabels, Labels, LaterLabels
<1>2. /\ job[j] \in Locals(c) /\ job[j].bundle \in Verifiable
      /\ c = Receipt(job[j].bundle, c.outcome) /\ c.outcome \in Outcomes
  BY <1>1, LaterType DEF HandInv, JobsInv, JobInv, Handling
<1>3. c.kind = "receipt" /\ c \in SoundReceipts
  <2>1. /\ job[j].bundle \in Bundle
        /\ c \in [kind : {"receipt"}, accepted : Nat, claim : Nat, outcome : Outcomes]
        /\ c.accepted = job[j].bundle.accepted /\ c.claim = job[j].bundle.claim
        /\ c.kind = "receipt"
    BY <1>2 DEF Receipt, Verifiable, Bundle
  <2>2. /\ BundleOf(job[j].bundle.execution, c.accepted, c.claim) = job[j].bundle
        /\ job[j].bundle.execution \in Executions
    BY <2>1 DEF BundleOf, Bundle
  <2> HIDE DEF c
  <2> QED BY <1>2, <2>1, <2>2 DEF SoundReceipts
<1>4. Len(posts) \in Nat
  BY PostNumbers DEF HandInv
<1>5. local \in Locals(c) /\ local.comment = c /\ local.bundle = job[j].bundle
  BY <1>2, <1>4 DEF Locals
<1>6. Verifiable' = Verifiable
  BY <1>1, VouchersKept
<1> HIDE DEF local, c
<1>7. CASE Goto(j, "concluded", local)
  <2>1. pc'[j] = "concluded" /\ job'[j] = local
    BY <1>1, <1>7, GotoMoves DEF HandInv
  <2>2. JobInv(j)'
    <3>1. job'[j] \in Locals(job'[j].comment)
      BY <1>5, <2>1
    <3> QED BY <1>1, <1>2, <1>5, <1>6, <2>1, <3>1, LaterJob
  <2> QED BY <1>1, <1>3, <1>7, <2>2, PostStep
<1>8. CASE Goto(j, "idle", NoValue)
  <2>1. JobInv(j)'
    BY <1>1, <1>8, GotoMoves, IdleJob DEF HandInv
  <2> QED BY <1>1, <1>3, <1>8, <2>1, PostStep
<1> QED BY <1>1, <1>7, <1>8

-----------------------------------------------------------------------------
(* finalize.                                                                *)

(* finalize checks a bundle against the journal and goes on with it.        *)
LEMMA FinalizingStep ==
  ASSUME HandInv, NEW j \in Jobs, NEW b \in Bundle, NEW label \in {"observe", "mark"},
         Finalizing(j, b, label)
  PROVE  HandInv' /\ b \in Verifiable
<1> DEFINE local == [Start(b, NoValue) EXCEPT !.state = Current.state]
<1>1. /\ Verified(b) /\ OwnedBy(b.execution) /\ Goto(j, label, local) /\ Local
      /\ label \in LaterLabels \ {"dispatched", "receipt", "settle"}
  BY DEF Finalizing, LaterLabels
<1>2. b \in Verifiable
  BY <1>1 DEF Verifiable
<1>3. Current \in Record
  BY <1>1, HeadType, NoRecordAssumption DEF HandInv, HistoryInv, OwnedBy
<1>4. local \in Locals(NoValue) /\ local.bundle = b /\ local.comment = NoValue
  BY <1>3 DEF Start, Locals, Record
<1> HIDE DEF local
<1> QED BY <1>1, <1>2, <1>4, LaterStep

(* finalize of a result or a checkpoint.                                    *)
LEMMA FinalizeStep ==
  ASSUME HandInv, NEW j \in Jobs, NEW handoff \in Handoffs, Finalize(j, handoff)
  PROVE  HandInv'
<1>1. handoff.bundle \in Bundle
  BY HandoffsSound DEF Verifiable
<1> QED BY <1>1, FinalizingStep DEF Finalize

(* finalize in the process that ran control.                                *)
LEMMA FinalizeOwnStep ==
  ASSUME HandInv, NEW j \in Jobs, FinalizeCertain(j) \/ FinalizeAmbiguous(j)
  PROVE  HandInv'
<1>1. pc[j] \in LaterLabels
  BY DEF FinalizeCertain, FinalizeAmbiguous, Dispatches, LaterLabels
<1>2. job[j].bundle \in Bundle
  BY <1>1, LaterType DEF Verifiable
<1> QED BY <1>2, FinalizingStep DEF FinalizeCertain, FinalizeAmbiguous

(* The record's owner is an execution once the request is claimed.          *)
LEMMA OwnerType ==
  ASSUME HandInv, Current # NoValue, Current.state # "accepted"
  PROVE  Current \in Record /\ Current.execution_id \in Executions
BY HeadType DEF HandInv, HistoryInv, Record

(* reconcile_request: the revisions are those of the only receipt.          *)
LEMMA ReconcileRequestStep ==
  ASSUME HandInv, NEW j \in Jobs, ReconcileRequest(j)
  PROVE  HandInv'
<1>1. PICK p \in Receipts :
        Finalize(j, [bundle |-> BundleOf(Current.execution_id, posts[p].accepted, posts[p].claim),
                     disposition |-> "reconciliation_required"])
  BY DEF ReconcileRequest
<1> DEFINE b == BundleOf(Current.execution_id, posts[p].accepted, posts[p].claim)
<1>2. Current.execution_id \in Executions
  BY OwnerType DEF ReconcileRequest, StoredState
<1>3. posts[p].accepted \in Nat /\ posts[p].claim \in Nat
  BY CommentsAreSound DEF SoundReceipts
<1>4. b \in Bundle
  BY <1>2, <1>3 DEF Bundle, BundleOf
<1>5. Finalizing(j, b, "observe")
  BY <1>1 DEF Finalize
<1> HIDE DEF b
<1> QED BY <1>4, <1>5, FinalizingStep

(* The single receipt of the bundle says what is to be recorded.            *)
LEMMA ObserveStep ==
  ASSUME HandInv, NEW j \in Jobs, Observe(j)
  PROVE  HandInv'
<1>1. PICK p \in Observed(j) :
        Goto(j, IF posts[p].outcome.state = "candidate_ready" THEN "publish" ELSE "settle",
             [job[j] EXCEPT !.outcome = posts[p].outcome.state, !.number = p])
  BY DEF Observe
<1> DEFINE local == [job[j] EXCEPT !.outcome = posts[p].outcome.state, !.number = p]
<1>2. /\ pc[j] = "observe" /\ Local /\ p \in Receipts /\ p \in landed
      /\ "settle" \in AllLabels /\ pc[j] \in LaterLabels
      /\ "publish" \in LaterLabels \ {"dispatched", "receipt", "settle"}
  BY DEF Observe, Observed, Receipts, AllLabels, Labels, LaterLabels
<1>3. posts[p].outcome.state \in Results /\ p \in Nat
  BY <1>2, CommentsAreSound, PostNumbers DEF SoundReceipts, Outcomes, HandInv
<1>4. job[j] \in Locals(job[j].comment) /\ job[j].bundle \in Verifiable
  BY <1>2, LaterType
<1>5. /\ local \in Locals(job[j].comment) /\ local.comment = job[j].comment
      /\ local.bundle = job[j].bundle /\ local.number = p
      /\ local.outcome = posts[p].outcome.state
  BY <1>3, <1>4 DEF Locals
<1> HIDE DEF local
<1>6. CASE posts[p].outcome.state = "candidate_ready"
  <2>1. Goto(j, "publish", local)
    BY <1>1, <1>6 DEF local
  <2> QED BY <1>2, <1>4, <1>5, <2>1, LaterStep
<1>7. CASE posts[p].outcome.state # "candidate_ready"
  <2>1. Goto(j, "settle", local)
    BY <1>1, <1>7 DEF local
  <2>2. pc'[j] = "settle" /\ job'[j] = local
    BY <1>2, <2>1, GotoMoves DEF HandInv
  <2>3. Verifiable' = Verifiable /\ landed' = landed
    BY <1>2, VouchersKept DEF Local, commentVars
  <2>4. Handling(j)'
    BY <1>2, <1>3, <1>4, <1>5, <1>7, <2>2, <2>3 DEF Handling, LaterLabels, Results
  <2>5. JobInv(j)'
    <3>1. job'[j] \in Locals(job'[j].comment)
      BY <1>5, <2>2
    <3> QED BY <2>2, <2>4, <3>1 DEF JobInv, Preparing, Ensuring
  <2> QED BY <1>2, <2>1, <2>5, LocalStep
<1> QED BY <1>6, <1>7

(* No receipt: the request is ambiguous.                                    *)
LEMMA ObserveNothingStep ==
  ASSUME HandInv, NEW j \in Jobs, ObserveNothing(j)
  PROVE  HandInv'
<1>1. /\ pc[j] \in LaterLabels /\ Local /\ Goto(j, "mark", job[j])
      /\ "mark" \in LaterLabels \ {"dispatched", "receipt", "settle"}
  BY DEF ObserveNothing, LaterLabels
<1>2. job[j] \in Locals(job[j].comment) /\ job[j].bundle \in Verifiable
  BY <1>1, LaterType
<1> QED BY <1>1, <1>2, LaterStep

(* A step that records something and ends its job.                          *)
LEMMA RecordingStep ==
  ASSUME HandInv, Advances, NEW j \in Jobs, Finish(j),
         UNCHANGED <<commentVars, effectVars, files, controlled>>
  PROVE  HandInv'
<1>1. Goto(j, "idle", NoValue) /\ "idle" \in AllLabels
  BY DEF Finish, AllLabels, Labels
<1>2. JobInv(j)'
  BY <1>1, GotoMoves, IdleJob DEF HandInv
<1> QED BY <1>1, <1>2, RecordStep

(* A publication by the owner of a claimed request.                         *)
LEMMA OwnerAdvances ==
  ASSUME HandInv, Current # NoValue, NEW rec \in Record, PublishRecord(rec),
         \/ rec = Current
         \/ /\ Current.state \in {"executing", "ambiguous"}
            /\ rec.state \in {"ambiguous"} \cup TerminalStates
            /\ rec.execution_id = Current.execution_id
  PROVE  Advances
BY DEF PublishRecord, Advances, Follows

(* The request is marked ambiguous.                                         *)
LEMMA MarkStep ==
  ASSUME HandInv, NEW j \in Jobs, MarkAmbiguousNow(j)
  PROVE  HandInv' /\ Advances
<1> DEFINE rec == MarkAmbiguous(Current)
<1>1. /\ Current # NoValue /\ Current.state \in {"executing", "ambiguous"}
      /\ PublishRecord(rec) /\ Finish(j)
      /\ UNCHANGED <<commentVars, effectVars, files, controlled>>
  BY DEF MarkAmbiguousNow, OwnedBy, CanMarkAmbiguous
<1>2. Current \in Record
  BY <1>1, OwnerType
<1>3. rec \in Record /\ rec.state = "ambiguous" /\ rec.execution_id = Current.execution_id
  BY <1>2 DEF MarkAmbiguous, Record, States
<1> HIDE DEF rec
<1>4. Advances
  BY <1>1, <1>3, OwnerAdvances
<1> QED BY <1>1, <1>4, RecordingStep

(* What settling writes.                                                    *)
LEMMA SettlesRecord ==
  ASSUME HandInv, NEW j \in Jobs, SettleNow(j)
  PROVE  /\ Advances /\ Current' # NoValue /\ Current # NoValue
         /\ Current'.state = job[j].outcome /\ Current'.terminal_code = job[j].number
         /\ Current'.execution_id = Current.execution_id
         /\ Current.state # "accepted"
<1> DEFINE rec == Settle(Current, job[j].outcome, job[j].number)
<1>1. /\ pc[j] = "settle" /\ Current # NoValue /\ PublishRecord(rec)
      /\ \/ Current.state \in {"executing", "ambiguous"}
         \/ SameTerminal(Current, job[j].outcome, job[j].number)
      /\ UNCHANGED <<commentVars, effectVars, files, controlled>>
  BY DEF SettleNow, Settled, OwnedBy, CanComplete, CanReconcile
<1>2. HistoryTypeOK /\ Current \in Record
  BY <1>1, HeadType DEF HandInv, HistoryInv
<1>3. job[j].number \in Codes /\ job[j].outcome \in {"succeeded", "rejected"}
  BY <1>1, PostNumbers DEF HandInv, JobsInv, JobInv, Handling
<1>4. /\ rec \in Record /\ rec.state = job[j].outcome /\ rec.terminal_code = job[j].number
      /\ rec.execution_id = Current.execution_id /\ rec # NoValue
  BY <1>2, <1>3, NoRecordAssumption DEF Settle, Record, States, TerminalStates
<1>5. Current.state \notin {"executing", "ambiguous"} => rec = Current
  BY <1>1, <1>2 DEF SameTerminal, Settle, Record
<1>6. Current.state # "accepted"
  BY <1>1 DEF SameTerminal, TerminalStates
<1> HIDE DEF rec
<1>7. Advances
  BY <1>1, <1>3, <1>4, <1>5, OwnerAdvances DEF TerminalStates
<1>8. Current' = rec
  <2>1. CASE rec = Current
    BY <1>1, <2>1 DEF PublishRecord, Current, HeadSha
  <2>2. CASE rec # Current
    <3>1. history' = Append(history, rec)
      BY <1>1, <2>2 DEF PublishRecord
    <3> QED BY <1>2, <1>4, <3>1, AppendRecord
  <2> QED BY <2>1, <2>2
<1> QED BY <1>1, <1>4, <1>6, <1>7, <1>8

(* The outcome is recorded.                                                 *)
LEMMA SettleStep ==
  ASSUME HandInv, NEW j \in Jobs, SettleNow(j)
  PROVE  HandInv'
BY SettlesRecord, RecordingStep DEF SettleNow

(* A job fails.                                                             *)
LEMMA FailStep ==
  ASSUME HandInv, NEW j \in Jobs, Fail(j)
  PROVE  HandInv'
BY RecordingStep DEF Fail, Local, Advances

(* A commit of another request.                                             *)
LEMMA OthersStep == HandInv /\ Others => HandInv' /\ Evolves /\ Current' = Current
<1> SUFFICES ASSUME HandInv, Others PROVE HandInv' /\ Evolves /\ Current' = Current
  OBVIOUS
<1>1. /\ history' = Append(history, Current) /\ Current # NoValue
      /\ UNCHANGED commentVars /\ UNCHANGED <<effectVars, files, controlled>>
      /\ UNCHANGED jobVars
  BY DEF Others, OtherCommit, StoredState
<1>2. Current \in Record /\ HistoryTypeOK
  BY <1>1, HeadType DEF HandInv, HistoryInv
<1>3. Advances /\ Current' = Current
  BY <1>1, <1>2, AppendRecord DEF Advances, Follows
<1>4. Evolves /\ runs' \in Nat
  BY <1>1, <1>3, PhaseAssumption DEF Evolves, commentVars, effectVars, HandInv, SharedInv
<1>5. HistoryInv' /\ CommentsInv' /\ SharedInv'
  BY <1>1, <1>3, HistoryStep, CommentsKept, SharedKept DEF HandInv
<1>6. JobsInv'
  BY <1>1, <1>4, JobKept DEF HandInv, JobsInv, jobVars
<1> QED BY <1>3, <1>4, <1>5, <1>6 DEF HandInv

(* A comment that was sent is stored.                                       *)
LEMMA LandStep ==
  ASSUME HandInv, NEW p \in 1..Len(posts), Land(p)
  PROVE  HandInv' /\ Evolves
<1>1. /\ landed' = landed \cup {p} /\ posts' = posts
      /\ UNCHANGED <<history, effectVars, files, controlled, jobVars>>
  BY DEF Land, LandComment
<1>2. Advances
  BY <1>1 DEF Advances
<1>3. Evolves /\ runs' \in Nat
  BY <1>1, <1>2, PhaseAssumption DEF Evolves, effectVars, HandInv, SharedInv
<1>4. SoundCheckpoints \subseteq SoundCheckpoints' /\ SoundReceipts \subseteq SoundReceipts'
  BY <1>2, VouchersGrow DEF HandInv
<1>5. CommentsInv'
  <2>1. DOMAIN posts = 1..Len(posts)
    BY PostNumbers DEF HandInv
  <2> QED BY <1>1, <1>4, <2>1 DEF HandInv, CommentsInv, SoundPost
<1>6. HistoryInv' /\ SharedInv'
  BY <1>1, <1>2, HistoryStep, SharedKept DEF HandInv
<1>7. JobsInv'
  BY <1>1, <1>3, JobKept DEF HandInv, JobsInv, jobVars
<1> QED BY <1>3, <1>5, <1>6, <1>7 DEF HandInv

(* Every step keeps the first layer.                                        *)
LEMMA HandNext == HandInv /\ [PhaseNext]_phaseVars => HandInv'
<1> SUFFICES ASSUME HandInv, [PhaseNext]_phaseVars PROVE HandInv'
  OBVIOUS
<1>1. ASSUME NEW j \in Jobs, Begin(j) PROVE HandInv'
  BY <1>1, AcceptStep, ControlStep, ControlReconcileStep, FinalizeStep, ReconcileRequestStep
     DEF Begin
<1>2. ASSUME NEW j \in Jobs, Continue(j) PROVE HandInv'
  BY <1>2, PostMissingStep, IntentEnsuredStep, LoadIntentStep, ClaimGrantedStep,
     ClaimRepeatedStep, ResumeStep, CheckpointEnsuredStep, DecidingSteps, DispatchStep,
     PostReceiptStep, FinalizeOwnStep, ObserveStep, ObserveNothingStep, MarkStep, SettleStep
     DEF Continue
<1>3. CASE UNCHANGED phaseVars
  <2>1. Evolves /\ UNCHANGED jobVars /\ UNCHANGED commentVars
        /\ UNCHANGED <<effectVars, files, controlled>> /\ history' = history
    BY <1>3, PhaseAssumption
       DEF phaseVars, Evolves, Advances, commentVars, effectVars, HandInv, SharedInv
  <2>2. HistoryInv' /\ CommentsInv' /\ SharedInv' /\ runs' \in Nat
    BY <2>1, HistoryStep, CommentsKept, SharedKept, PhaseAssumption
       DEF HandInv, Evolves, SharedInv
  <2>3. JobsInv'
    BY <2>1, <2>2, JobKept DEF HandInv, JobsInv, jobVars
  <2> QED BY <2>2, <2>3 DEF HandInv
<1> QED BY <1>1, <1>2, <1>3, FailStep, OthersStep, LandStep DEF PhaseNext

(* The first layer holds at the start.                                      *)
LEMMA HandInit == PhaseInit => HandInv
<1> SUFFICES ASSUME PhaseInit PROVE HandInv
  OBVIOUS
<1>1. history = <<NoValue>> /\ Len(history) = 1 /\ Current = NoValue
  BY DEF PhaseInit, JournalInit, Current, HeadSha
<1>2. HistoryInv
  BY <1>1 DEF HistoryInv, HistoryTypeOK, Revision
<1>3. CommentsInv
  <2>1. posts = << >> /\ landed = {}
    BY DEF PhaseInit, CommentsInit
  <2>2. posts \in Seq({posts[p] : p \in DOMAIN posts}) /\ Len(posts) = 0 /\ DOMAIN posts = {}
    BY <2>1, EmptySeq
  <2> QED BY <2>1, <2>2, PostsAssumption DEF CommentsInv
<1>4. SharedInv
  BY PhaseAssumption DEF PhaseInit, SharedInv
<1>5. JobsInv
  BY DEF PhaseInit, JobsInv, JobInv, Preparing, Ensuring, Handling, LaterLabels, AllLabels, Labels
<1> QED BY <1>2, <1>3, <1>4, <1>5 DEF HandInv

(* The invariant of the first layer, of any number of jobs.                 *)
THEOREM HandInvariant == PhaseSpec => []HandInv
BY HandInit, HandNext, PTL DEF PhaseSpec

(* Whatever prepare hands over, finalize can verify.                        *)
THEOREM HandoffsVerified == PhaseSpec => []HandoffsVerify
<1>1. HandInv => HandoffsVerify
  BY HandoffsSound DEF HandoffsVerify, Verifiable
<1> QED BY <1>1, HandInvariant, PTL

-----------------------------------------------------------------------------
(* What a step leaves behind, of whichever job.                             *)

(* Where a job goes, whatever the label.                                    *)
LEMMA GotoPlace ==
  ASSUME JobsInv, NEW j \in Jobs, NEW label, NEW local, Goto(j, label, local)
  PROVE  /\ pc'[j] = label /\ job'[j] = local
         /\ \A k \in Jobs : k # j => pc'[k] = pc[k] /\ job'[k] = job[k]
<1>1. pc' = [pc EXCEPT ![j] = label] /\ DOMAIN pc = Jobs
  BY DEF Goto, JobsInv
<1>2. job' = [job EXCEPT ![j] = local] /\ DOMAIN job = Jobs
  BY DEF Goto, JobsInv
<1> QED BY <1>1, <1>2

(* Jobs other than j stay where they are.                                   *)
OthersStay(j) == \A k \in Jobs : k # j => pc'[k] = pc[k] /\ job'[k] = job[k]

(* Where the steps that write no result and send no comment leave the job   *)
(* that takes them.                                                         *)
QuietLabels == {"idle", "claim", "load", "resume", "receipt", "dispatched", "observe", "publish",
                "mark", "settle"}

Quiet(j) ==
  \/ IntentEnsured(j) \/ LoadIntent(j) \/ ClaimRepeated(j)
  \/ Unsupported(j) \/ Inspect(j) \/ DispatchRefused(j) \/ Dispatch(j) \/ RunReadBack(j)
  \/ RunReconciled(j) \/ FinalizeCertain(j) \/ FinalizeAmbiguous(j)
  \/ Observe(j) \/ ObserveNothing(j) \/ MarkAmbiguousNow(j) \/ SettleNow(j)
  \/ ReconcileRequest(j) \/ (\E handoff \in Handoffs : Finalize(j, handoff))
  \/ Fail(j)

(* They leave comments, results and controlled bundles alone.               *)
LEMMA QuietStep ==
  ASSUME HandInv, NEW j \in Jobs, Quiet(j)
  PROVE  /\ OthersStay(j) /\ pc'[j] \in QuietLabels
         /\ UNCHANGED <<commentVars, files, controlled, operation>>
<1> USE DEF QuietLabels, OthersStay, HandInv
<1>1. CASE IntentEnsured(j)
  BY <1>1, GotoPlace DEF IntentEnsured, Local, effectVars
<1>2. CASE LoadIntent(j)
  BY <1>2, GotoPlace DEF LoadIntent, Local, effectVars
<1>3. CASE ClaimRepeated(j)
  BY <1>3, GotoPlace DEF ClaimRepeated, Local, effectVars
<1>4. CASE Unsupported(j) \/ Inspect(j) \/ DispatchRefused(j) \/ RunReadBack(j) \/ RunReconciled(j)
  BY <1>4, GotoPlace
     DEF Unsupported, Inspect, DispatchRefused, RunReadBack, RunReconciled, PublishReceipt,
       Local, effectVars
<1>5. CASE Dispatch(j)
  BY <1>5, GotoPlace DEF Dispatch
<1>6. ASSUME NEW b, NEW label \in {"observe", "mark"}, Finalizing(j, b, label)
      PROVE  /\ OthersStay(j) /\ pc'[j] \in QuietLabels
             /\ UNCHANGED <<commentVars, files, controlled, operation>>
  BY <1>6, GotoPlace DEF Finalizing, Local, effectVars
<1>7. CASE \/ FinalizeCertain(j) \/ FinalizeAmbiguous(j)
           \/ ReconcileRequest(j) \/ \E handoff \in Handoffs : Finalize(j, handoff)
  BY <1>6, <1>7 DEF FinalizeCertain, FinalizeAmbiguous, Finalize, ReconcileRequest
<1>8. CASE Observe(j)
  <2>1. PICK p \in Observed(j) :
          Goto(j, IF posts[p].outcome.state = "candidate_ready" THEN "publish" ELSE "settle",
               [job[j] EXCEPT !.outcome = posts[p].outcome.state, !.number = p])
    BY <1>8 DEF Observe
  <2>2. Local
    BY <1>8 DEF Observe
  <2> DEFINE local == [job[j] EXCEPT !.outcome = posts[p].outcome.state, !.number = p]
  <2>3. Goto(j, "publish", local) \/ Goto(j, "settle", local)
    BY <2>1
  <2> HIDE DEF local
  <2> QED BY <2>2, <2>3, GotoPlace DEF Local, effectVars
<1>9. CASE ObserveNothing(j)
  BY <1>9, GotoPlace DEF ObserveNothing, Local, effectVars
<1>10. CASE MarkAmbiguousNow(j) \/ SettleNow(j)
  BY <1>10, GotoPlace DEF MarkAmbiguousNow, SettleNow, Finish, effectVars
<1>11. CASE Fail(j)
  BY <1>11, GotoPlace DEF Fail, Finish, Local, effectVars
<1> QED
  BY <1>1, <1>2, <1>3, <1>4, <1>5, <1>7, <1>8, <1>9, <1>10, <1>11 DEF Quiet

(* Every step of a job is one of these.                                     *)
LEMMA JobSteps ==
  ASSUME NEW j \in Jobs, Begin(j) \/ Continue(j) \/ Fail(j)
  PROVE  \/ Quiet(j)
         \/ \E execution \in Executions, whole \in BOOLEAN : Accept(j, execution, whole)
         \/ \E handoff \in Handoffs : Control(j, handoff) \/ ControlReconcile(j, handoff)
         \/ PostMissing(j) \/ PostReceipt(j)
         \/ ClaimGranted(j) \/ Resume(j) \/ CheckpointEnsured(j)
BY DEF Begin, Continue, Quiet

(* Every step moves the journal forward and takes nothing back; the record  *)
(* becomes terminal only by being settled.                                  *)
LEMMA StepEvolves ==
  ASSUME HandInv, [PhaseNext]_phaseVars
  PROVE  /\ Evolves
         /\ \/ Current' = Current
            \/ Current' # NoValue /\ Current'.state \in {"accepted", "executing", "ambiguous"}
            \/ \E j \in Jobs : SettleNow(j)
<1> DEFINE Fresh == Current' # NoValue /\ Current'.state \in {"accepted", "executing", "ambiguous"}
<1>1. runs <= runs
  BY PhaseAssumption DEF HandInv, SharedInv
<1>2. ASSUME UNCHANGED history, landed' = landed, runs' = runs, operation' = operation
      PROVE  Evolves /\ Current' = Current
  BY <1>1, <1>2 DEF Evolves, Advances, Current, HeadSha
<1>3. ASSUME NEW j \in Jobs, NEW execution \in Executions, NEW whole \in BOOLEAN,
             Accept(j, execution, whole)
      PROVE  Evolves /\ (Current' = Current \/ Fresh)
  BY <1>1, <1>3, AcceptAdvances DEF Accept, Evolves, commentVars, effectVars
<1>4. ASSUME NEW j \in Jobs, ClaimGranted(j)
      PROVE  Evolves /\ Fresh
  <2>1. Advances /\ ~Unclaimed' /\ UNCHANGED <<commentVars, effectVars>> /\ Unclaimed
    BY <1>4, ClaimVouches DEF ClaimGranted
  <2>2. Current' # NoValue /\ Current'.state # "accepted"
    BY <2>1 DEF Unclaimed
  <2>3. Current # NoValue /\ Current.state = "accepted"
    BY <1>4, <2>1 DEF ClaimGranted, Unclaimed
  <2>4. CASE history' = history
    BY <2>2, <2>3, <2>4 DEF Current, HeadSha
  <2>5. ASSUME NEW rec \in Record, history' = Append(history, rec), Follows(Current, rec)
        PROVE  Current'.state = "executing"
    <3>1. Current' = rec
      BY <2>5, AppendRecord DEF HandInv, HistoryInv
    <3> QED BY <2>2, <2>3, <2>5, <3>1 DEF Follows
  <2> QED BY <1>1, <2>1, <2>2, <2>4, <2>5 DEF Advances, Evolves, commentVars, effectVars
<1>5. ASSUME NEW j \in Jobs, MarkAmbiguousNow(j)
      PROVE  Evolves /\ Fresh
  <2> DEFINE rec == MarkAmbiguous(Current)
  <2>1. /\ Current # NoValue /\ Current.state \in {"executing", "ambiguous"}
        /\ PublishRecord(rec) /\ UNCHANGED <<commentVars, effectVars>>
    BY <1>5 DEF MarkAmbiguousNow, OwnedBy, CanMarkAmbiguous
  <2>2. rec \in Record /\ rec.state = "ambiguous"
    BY <2>1, OwnerType DEF MarkAmbiguous, Record, States
  <2> HIDE DEF rec
  <2>3. Current' = rec
    <3>1. CASE rec = Current
      BY <2>1, <3>1 DEF PublishRecord, Current, HeadSha
    <3>2. CASE rec # Current
      <4>1. history' = Append(history, rec)
        BY <2>1, <3>2 DEF PublishRecord
      <4> QED BY <2>2, <4>1, AppendRecord DEF HandInv, HistoryInv
    <3> QED BY <3>1, <3>2
  <2>4. Fresh
    BY <2>2, <2>3, NoRecordAssumption
  <2>5. Advances
    BY <1>5, MarkStep
  <2> QED BY <1>1, <2>1, <2>4, <2>5 DEF Evolves, commentVars, effectVars
<1>6. ASSUME NEW j \in Jobs, SettleNow(j)
      PROVE  Evolves
  BY <1>1, <1>6, SettlesRecord DEF Evolves, SettleNow, commentVars, effectVars
<1>7. ASSUME NEW j \in Jobs, Dispatch(j)
      PROVE  Evolves /\ Current' = Current
  <2>1. runs \in Nat /\ runs' = runs + 1
    BY <1>7, PhaseAssumption DEF Dispatch, HandInv, SharedInv
  <2> QED BY <1>7, <2>1 DEF Dispatch, Evolves, Advances, Current, HeadSha, commentVars
<1>8. ASSUME NEW j \in Jobs, Begin(j) \/ Continue(j) \/ Fail(j),
             ~\E execution \in Executions, whole \in BOOLEAN : Accept(j, execution, whole),
             ~ClaimGranted(j), ~MarkAmbiguousNow(j), ~SettleNow(j), ~Dispatch(j)
      PROVE  Evolves /\ Current' = Current
  <2> USE DEF Local, commentVars, effectVars
  <2>1. CASE \/ IntentEnsured(j) \/ LoadIntent(j) \/ ClaimRepeated(j) \/ Unsupported(j)
             \/ Inspect(j) \/ DispatchRefused(j) \/ RunReadBack(j) \/ RunReconciled(j)
    BY <1>2, <2>1 DEF IntentEnsured, LoadIntent, ClaimRepeated, Unsupported, Inspect,
                      DispatchRefused, RunReadBack, RunReconciled
  <2>2. CASE \/ FinalizeCertain(j) \/ FinalizeAmbiguous(j) \/ ReconcileRequest(j)
             \/ \E handoff \in Handoffs : Finalize(j, handoff)
    BY <1>2, <2>2
       DEF FinalizeCertain, FinalizeAmbiguous, ReconcileRequest, Finalize, Finalizing
  <2>3. CASE Observe(j) \/ ObserveNothing(j) \/ Fail(j)
    BY <1>2, <2>3 DEF Observe, ObserveNothing, Fail
  <2>4. CASE \E handoff \in Handoffs : Control(j, handoff) \/ ControlReconcile(j, handoff)
    BY <1>2, <2>4 DEF Control, ControlReconcile
  <2>5. CASE PostMissing(j) \/ PostReceipt(j)
    BY <1>2, <2>5 DEF PostMissing, PostReceipt, SendComment
  <2>6. CASE Resume(j) \/ CheckpointEnsured(j)
    BY <1>2, <2>6 DEF Resume, CheckpointEnsured
  <2> QED BY <1>8, <2>1, <2>2, <2>3, <2>4, <2>5, <2>6 DEF Begin, Continue
<1>9. ASSUME NEW p \in 1..Len(posts), Land(p)
      PROVE  Evolves /\ Current' = Current
  BY <1>9, LandStep DEF Land, Current, HeadSha
<1>10. CASE UNCHANGED phaseVars
  BY <1>2, <1>10 DEF phaseVars, commentVars, effectVars
<1> QED
  BY <1>3, <1>4, <1>5, <1>6, <1>7, <1>8, <1>9, <1>10, OthersStep DEF PhaseNext

-----------------------------------------------------------------------------
(* The second layer: who grants.                                            *)

(* Every granted bundle can be verified, so that there is none before the   *)
(* claim.                                                                   *)
LEMMA GrantedVerifiable ==
  ASSUME HandInv
  PROVE  Granted \subseteq Verifiable /\ (Unclaimed => Granted = {})
<1>1. \A f \in files : f.bundle \in Verifiable
  BY DEF HandInv, SharedInv
<1>2. \A p \in GrantedPosts : posts[p].bundle \in Verifiable
  BY DEF GrantedPosts, HandInv, CommentsInv, SoundPost, SoundCheckpoints
<1>3. \A j \in Jobs : Granting(j) => job[j].bundle \in Verifiable
  BY DEF Granting, HandInv, JobsInv, JobInv, Ensuring
<1>4. Granted \subseteq Verifiable
  BY <1>1, <1>2, <1>3 DEF Granted, GrantedFiles
<1>5. Verifiable # {} => ~Unclaimed
  BY NoValueAssumption
     DEF Verifiable, Verified, OwnedBy, Bundle, Unclaimed, HandInv, HistoryInv
<1> QED BY <1>4, <1>5

(* What a later phase is granted is granted.                                *)
LEMMA HandoffGranted ==
  ASSUME HandInv, NEW h \in Handoffs, h.disposition = "granted"
  PROVE  h.bundle \in Granted
<1>1. CASE h \in files
  BY <1>1 DEF Granted, GrantedFiles
<1>2. CASE h \in DurableCheckpoints
  <2>1. PICK p \in landed :
          /\ posts[p].kind = "prepare"
          /\ h = [bundle |-> posts[p].bundle, disposition |-> posts[p].disposition]
    BY <1>2 DEF DurableCheckpoints
  <2>2. p \in GrantedPosts /\ h.bundle = posts[p].bundle
    BY <2>1 DEF GrantedPosts, HandInv, CommentsInv
  <2> QED BY <2>2 DEF Granted
<1> QED BY <1>1, <1>2 DEF Handoffs

(* It is enough to look at the results written, the comments sent and the   *)
(* job that moved.                                                          *)
LEMMA GrantedBy ==
  ASSUME NEW j \in Jobs, OthersStay(j), NEW S,
         \A f \in files' : f \in files \/ f.disposition # "granted" \/ f.bundle \in S,
         \A p \in DOMAIN posts' :
           \/ p \in DOMAIN posts /\ posts'[p] = posts[p]
           \/ posts'[p].kind # "prepare" \/ posts'[p].disposition # "granted"
           \/ posts'[p].bundle \in S,
         Granting(j)' => job'[j].bundle \in S
  PROVE  Granted' \subseteq Granted \cup S
<1>1. \A f \in GrantedFiles' : f.bundle \in Granted \cup S
  BY DEF GrantedFiles, Granted
<1>2. \A p \in GrantedPosts' : posts'[p].bundle \in Granted \cup S
  BY DEF GrantedPosts, Granted
<1>3. ASSUME NEW k \in Jobs, Granting(k)' PROVE job'[k].bundle \in Granted \cup S
  <2>1. CASE k = j
    BY <1>3, <2>1
  <2>2. CASE k # j
    BY <1>3, <2>2 DEF OthersStay, Granting, Granted
  <2> QED BY <2>1, <2>2
<1> QED BY <1>1, <1>2, <1>3 DEF Granted

(* Steps that write no result and send no comment grant nothing.            *)
LEMMA GrantedQuietly ==
  ASSUME NEW j \in Jobs, OthersStay(j), UNCHANGED <<files, posts>>, ~Granting(j)'
  PROVE  Granted' \subseteq Granted
<1>1. Granted' \subseteq Granted \cup {}
  BY GrantedBy
<1> QED BY <1>1

(* A comment is sent.                                                       *)
LEMMA GrantedPosting ==
  ASSUME HandInv, NEW j \in Jobs, OthersStay(j), UNCHANGED files, NEW c, SendComment(c),
         c.kind = "prepare" /\ c.disposition = "granted" => c.bundle \in Granted,
         Granting(j)' => job'[j].bundle \in Granted
  PROVE  Granted' \subseteq Granted
<1>1. /\ posts \in Seq({posts[p] : p \in DOMAIN posts}) /\ posts' = Append(posts, c)
  BY DEF HandInv, CommentsInv, SendComment
<1>2. /\ Len(posts') = Len(posts) + 1 /\ Len(posts) \in Nat
      /\ DOMAIN posts = 1..Len(posts) /\ DOMAIN posts' = 1..Len(posts')
      /\ \A p \in DOMAIN posts : posts'[p] = posts[p]
      /\ posts'[Len(posts')] = c
  BY <1>1, AppendPost
<1>3. \A p \in DOMAIN posts' :
        \/ p \in DOMAIN posts /\ posts'[p] = posts[p]
        \/ posts'[p].kind # "prepare" \/ posts'[p].disposition # "granted"
        \/ posts'[p].bundle \in Granted
  <2> TAKE p \in DOMAIN posts'
  <2>1. p \in DOMAIN posts \/ p = Len(posts')
    BY <1>2
  <2> QED BY <1>2, <2>1
<1>4. Granted' \subseteq Granted \cup Granted
  BY <1>3, GrantedBy
<1> QED BY <1>4

(* The claim is what grants, and there was nothing to grant before it; what *)
(* the process that goes on claims for itself is granted to nobody else.    *)
LEMMA ClaimGrants ==
  ASSUME HandInv, NEW j \in Jobs, ClaimGranted(j)
  PROVE  /\ OthersStay(j) /\ Granted = {}
         /\ \A a, b \in Granted' : a = b
         /\ Executor(j)' => Granted' = {}
         /\ pc'[j] # "receipt"
<1> DEFINE b == [job[j].bundle EXCEPT !.claim = Len(history')]
<1>1. Handoff(j, b, "granted") /\ UNCHANGED <<commentVars, effectVars, controlled>>
  BY DEF ClaimGranted
<1>2. Granted = {} /\ JobsInv
  BY ClaimVouches, GrantedVerifiable DEF HandInv
<1>3. UNCHANGED posts
  BY <1>1 DEF commentVars
<1> HIDE DEF b
<1>4. CASE Ensure(j, Start(b, "granted"), Checkpoint(b, "granted")) /\ UNCHANGED files
  <2> DEFINE local == [Start(b, "granted") EXCEPT !.comment = Checkpoint(b, "granted")]
  <2>1. Goto(j, "ensure", local) /\ local.bundle = b
    BY <1>4 DEF Ensure, Start
  <2> HIDE DEF local
  <2>2. OthersStay(j) /\ pc'[j] = "ensure" /\ job'[j].bundle = b
    BY <1>2, <2>1, GotoPlace DEF OthersStay
  <2>3. Granted' \subseteq Granted \cup {b}
    BY <1>3, <1>4, <2>2, GrantedBy
  <2> QED BY <1>2, <2>2, <2>3 DEF Executor
<1>5. CASE WriteResult(j, b, "granted")
  <2>1. /\ Goto(j, "idle", NoValue)
        /\ files' = files \cup {[bundle |-> b, disposition |-> "granted"]}
    BY <1>5 DEF WriteResult, Finish
  <2>2. OthersStay(j) /\ pc'[j] = "idle"
    BY <1>2, <2>1, GotoPlace DEF OthersStay
  <2>3. \A f \in files' : f \in files \/ f.disposition # "granted" \/ f.bundle \in {b}
    BY <2>1
  <2>4. ~Granting(j)'
    BY <2>2 DEF Granting
  <2>5. Granted' \subseteq Granted \cup {b}
    BY <1>3, <2>2, <2>3, <2>4, GrantedBy
  <2> QED BY <1>2, <2>2, <2>5 DEF Executor
<1>6. CASE /\ Goto(j, "execute", [Executing(b) EXCEPT !.whole = TRUE])
           /\ UNCHANGED files
  <2>1. OthersStay(j) /\ pc'[j] = "execute"
    BY <1>2, <1>6, GotoPlace DEF OthersStay
  <2>2. ~Granting(j)'
    BY <2>1 DEF Granting
  <2>3. Granted' \subseteq Granted
    BY <1>3, <1>6, <2>1, <2>2, GrantedQuietly
  <2> QED BY <1>2, <2>1, <2>3
<1> QED BY <1>1, <1>4, <1>5, <1>6 DEF Handoff

(* No other step of a job grants anything.                                  *)
LEMMA GrantedStep ==
  ASSUME HandInv, NEW j \in Jobs, Begin(j) \/ Continue(j) \/ Fail(j), ~ClaimGranted(j)
  PROVE  OthersStay(j) /\ Granted' \subseteq Granted
<1> USE DEF OthersStay
<1>1. JobsInv /\ JobInv(j)
  BY DEF HandInv, JobsInv
<1>2. CASE Quiet(j)
  <2>1. /\ OthersStay(j) /\ pc'[j] \in QuietLabels
        /\ UNCHANGED <<commentVars, files>>
    BY <1>2, QuietStep
  <2>2. ~Granting(j)' /\ UNCHANGED <<files, posts>>
    BY <2>1 DEF QuietLabels, Granting, commentVars
  <2> QED BY <2>1, <2>2, GrantedQuietly
<1>3. ASSUME NEW execution \in Executions, NEW whole \in BOOLEAN, Accept(j, execution, whole)
      PROVE  OthersStay(j) /\ Granted' \subseteq Granted
  <2> DEFINE b == BundleOf(execution, Len(history'), 0)
             local == [Start(b, "granted") EXCEPT !.whole = whole]
             wants == [local EXCEPT !.comment = Intent(b)]
  <2>1. /\ \/ Goto(j, "claim", local) \/ Goto(j, "load", local) \/ Goto(j, "ensure", wants)
        /\ UNCHANGED <<files, posts>>
    BY <1>3 DEF Accept, Ensure, commentVars
  <2>2. wants.comment.kind = "intent"
    BY DEF Intent, Start
  <2> HIDE DEF local, wants
  <2>3. OthersStay(j) /\ ~Granting(j)'
    BY <1>1, <2>1, <2>2, GotoPlace DEF Granting
  <2> QED BY <2>1, <2>3, GrantedQuietly
<1>4. ASSUME NEW handoff \in Handoffs, Control(j, handoff) \/ ControlReconcile(j, handoff)
      PROVE  OthersStay(j) /\ Granted' \subseteq Granted
  <2>1. /\ \E local : Goto(j, "execute", local)
        /\ UNCHANGED <<files, posts>>
    BY <1>4 DEF Control, ControlReconcile, Local, commentVars
  <2>2. OthersStay(j) /\ ~Granting(j)'
    BY <1>1, <2>1, GotoPlace DEF Granting
  <2> QED BY <2>1, <2>2, GrantedQuietly
<1>5. CASE PostMissing(j)
  <2> DEFINE c == job[j].comment
             local == [job[j] EXCEPT !.number = Len(posts) + 1]
  <2>1. /\ pc[j] = "ensure" /\ SendComment(c) /\ Goto(j, "posted", local) /\ UNCHANGED files
        /\ job[j] \in Locals(c) /\ Ensuring(j)
    BY <1>1, <1>5 DEF PostMissing, JobInv
  <2>2. local.comment = c /\ local.bundle = job[j].bundle /\ local.disposition = job[j].disposition
    BY <2>1 DEF Locals
  <2>3. c.kind = "prepare" =>
          c.bundle = job[j].bundle /\ c.disposition = job[j].disposition
    BY <2>1 DEF Ensuring, Checkpoint
  <2>4. Granting(j) => job[j].bundle \in Granted
    BY DEF Granted
  <2>5. c.kind = "prepare" /\ c.disposition = "granted" => c.bundle \in Granted
    BY <2>1, <2>3, <2>4 DEF Granting
  <2> HIDE DEF local
  <2>6. OthersStay(j) /\ pc'[j] = "posted" /\ job'[j] = local
    BY <1>1, <2>1, GotoPlace
  <2>7. Granting(j)' => job'[j].bundle \in Granted
    BY <2>1, <2>2, <2>4, <2>6 DEF Granting
  <2> HIDE DEF c
  <2> QED BY <2>1, <2>5, <2>6, <2>7, GrantedPosting
<1>6. CASE PostReceipt(j)
  <2> DEFINE c == job[j].comment
  <2>1. /\ SendComment(c) /\ UNCHANGED files /\ pc[j] = "receipt"
        /\ \E label \in {"concluded", "idle"} : \E local : Goto(j, label, local)
    BY <1>6 DEF PostReceipt, Finish
  <2>2. c.kind = "receipt"
    BY <1>1, <2>1 DEF JobInv, Handling, Receipt
  <2>3. OthersStay(j) /\ ~Granting(j)'
    BY <1>1, <2>1, GotoPlace DEF Granting
  <2> HIDE DEF c
  <2> QED BY <2>1, <2>2, <2>3, GrantedPosting
<1>7. ASSUME NEW b, NEW d, WriteResult(j, b, d), UNCHANGED posts,
             d = "granted" => b \in Granted
      PROVE  OthersStay(j) /\ Granted' \subseteq Granted
  <2>1. /\ files' = files \cup {[bundle |-> b, disposition |-> d]}
        /\ Goto(j, "idle", NoValue)
    BY <1>7 DEF WriteResult, Finish
  <2>2. OthersStay(j) /\ ~Granting(j)'
    BY <1>1, <2>1, GotoPlace DEF Granting
  <2>3. \A f \in files' : f \in files \/ f.disposition # "granted" \/ f.bundle \in Granted
    BY <1>7, <2>1
  <2>4. Granted' \subseteq Granted \cup Granted
    BY <1>7, <2>2, <2>3, GrantedBy
  <2> QED BY <2>2, <2>4
<1>8. CASE CheckpointEnsured(j)
  <2>1. /\ WriteResult(j, job[j].bundle, job[j].disposition) /\ UNCHANGED posts
        /\ pc[j] \in {"ensure", "posted"} /\ job[j].comment.kind = "prepare"
    BY <1>8 DEF CheckpointEnsured, Ensured, commentVars
  <2>2. job[j].disposition = "granted" => job[j].bundle \in Granted
    BY <2>1 DEF Granted, Granting
  <2> QED BY <1>7, <2>1, <2>2
<1>9. CASE Resume(j)
  <2> DEFINE d == "reconciliation_required"
             b == job[j].bundle
             found == PublisherComments("prepare", job[j].bundle.execution)
  <2>1. /\ \/ Handoff(j, b, d)
           \/ \E p \in found : WriteResult(j, posts[p].bundle, d)
        /\ UNCHANGED posts
    BY <1>9 DEF Resume, commentVars
  <2>2. CASE Ensure(j, Start(b, d), Checkpoint(b, d)) /\ UNCHANGED files
    <3> DEFINE local == [Start(b, d) EXCEPT !.comment = Checkpoint(b, d)]
    <3>1. Goto(j, "ensure", local) /\ local.disposition # "granted"
      BY <2>2 DEF Ensure, Start
    <3> HIDE DEF local
    <3>2. OthersStay(j) /\ ~Granting(j)'
      BY <1>1, <3>1, GotoPlace DEF Granting
    <3> QED BY <2>1, <2>2, <3>2, GrantedQuietly
  <2>3. CASE /\ \E local : Goto(j, "execute", local)
             /\ UNCHANGED files
    <3>1. OthersStay(j) /\ ~Granting(j)'
      BY <1>1, <2>3, GotoPlace DEF Granting
    <3> QED BY <2>1, <2>3, <3>1, GrantedQuietly
  <2> QED BY <1>7, <2>1, <2>2, <2>3 DEF Handoff
<1> QED BY <1>2, <1>3, <1>4, <1>5, <1>6, <1>8, <1>9, JobSteps

(* Nor does a commit of another request or a comment that is stored.        *)
LEMMA GrantedElsewhere ==
  ASSUME UNCHANGED <<jobVars, files, posts>>
  PROVE  Granted' = Granted
BY DEF Granted, GrantedFiles, GrantedPosts, Granting, jobVars

(* Every step keeps the second layer.                                       *)
LEMMA GrantNext == HandInv /\ GrantInv /\ [PhaseNext]_phaseVars => GrantInv'
<1> SUFFICES ASSUME HandInv, GrantInv, [PhaseNext]_phaseVars PROVE GrantInv'
  OBVIOUS
<1>1. ASSUME NEW j \in Jobs, Begin(j) \/ Continue(j) \/ Fail(j) PROVE GrantInv'
  BY <1>1, GrantedStep, ClaimGrants DEF GrantInv
<1>2. ASSUME UNCHANGED <<jobVars, files, posts>> PROVE GrantInv'
  BY <1>2, GrantedElsewhere DEF GrantInv
<1>3. CASE \/ Others \/ (\E p \in 1..Len(posts) : Land(p)) \/ UNCHANGED phaseVars
  BY <1>2, <1>3 DEF Others, Land, LandComment, phaseVars, commentVars
<1> QED BY <1>1, <1>3 DEF PhaseNext

(* Nothing is granted at the start.                                         *)
LEMMA GrantInit == PhaseInit => GrantInv
<1> SUFFICES ASSUME PhaseInit PROVE GrantInv
  OBVIOUS
<1>1. HandInv /\ Unclaimed
  BY HandInit DEF PhaseInit, JournalInit, Unclaimed, Current, HeadSha
<1> QED BY <1>1, GrantedVerifiable DEF GrantInv

(* Control is granted by one bundle only, however often prepare is run.     *)
THEOREM OneGrant == PhaseSpec => []OneGrantedBundle
<1>1. PhaseSpec => [](HandInv /\ GrantInv)
  BY HandInit, HandNext, GrantInit, GrantNext, PTL DEF PhaseSpec
<1>2. ASSUME HandInv, GrantInv PROVE OneGrantedBundle
  <2> DEFINE S == {h.bundle : h \in {g \in Handoffs : g.disposition = "granted"}}
  <2>1. \A a, b \in S : a = b
    BY <1>2, HandoffGranted DEF GrantInv
  <2>2. S = {} \/ \E a : S = {a}
    BY <2>1
  <2>3. Cardinality(S) <= 1
    BY <2>2, FS_EmptySet, FS_Singleton
  <2> QED BY <2>3 DEF OneGrantedBundle
<1> QED BY <1>1, <1>2, PTL

-----------------------------------------------------------------------------
(* What receipts and terminal records rest on.                              *)

(* Comments stay, and the only one a step of a job adds is the one that job *)
(* wanted to post.                                                          *)
LEMMA Posted ==
  ASSUME HandInv, NEW j \in Jobs, Begin(j) \/ Continue(j) \/ Fail(j)
  PROVE  /\ \A p \in DOMAIN posts : p \in DOMAIN posts' /\ posts'[p] = posts[p]
         /\ \A p \in DOMAIN posts' :
              \/ p \in DOMAIN posts
              \/ /\ pc[j] = "ensure" /\ posts'[p] = job[j].comment
                 /\ posts'[p].kind # "receipt"
              \/ pc[j] = "receipt" /\ posts'[p] = job[j].comment
<1> DEFINE c == job[j].comment
<1>1. CASE posts' = posts
  BY <1>1
<1>2. ASSUME SendComment(c)
      PROVE  /\ \A p \in DOMAIN posts : p \in DOMAIN posts' /\ posts'[p] = posts[p]
             /\ \A p \in DOMAIN posts' : p \in DOMAIN posts \/ posts'[p] = c
  <2>1. /\ posts \in Seq({posts[p] : p \in DOMAIN posts}) /\ posts' = Append(posts, c)
    BY <1>2 DEF HandInv, CommentsInv, SendComment
  <2>2. /\ Len(posts') = Len(posts) + 1 /\ Len(posts) \in Nat
        /\ DOMAIN posts = 1..Len(posts) /\ DOMAIN posts' = 1..Len(posts')
        /\ \A p \in DOMAIN posts : posts'[p] = posts[p]
        /\ posts'[Len(posts')] = c
    BY <2>1, AppendPost
  <2>3. \A p \in DOMAIN posts' : p \in DOMAIN posts \/ p = Len(posts')
    BY <2>2
  <2> HIDE DEF c
  <2> QED BY <2>2, <2>3
<1>3. CASE PostMissing(j)
  <2>1. SendComment(c) /\ c.kind # "receipt" /\ pc[j] = "ensure"
    BY <1>3 DEF PostMissing, HandInv, JobsInv, JobInv, Ensuring
  <2> QED BY <1>2, <2>1
<1>4. CASE PostReceipt(j)
  <2>1. SendComment(c) /\ pc[j] = "receipt"
    BY <1>4 DEF PostReceipt
  <2> QED BY <1>2, <2>1
<1>5. CASE Quiet(j)
  BY <1>1, <1>5, QuietStep DEF commentVars
<1>6. CASE \/ \E execution \in Executions, whole \in BOOLEAN : Accept(j, execution, whole)
           \/ \E handoff \in Handoffs : Control(j, handoff) \/ ControlReconcile(j, handoff)
           \/ ClaimGranted(j) \/ Resume(j) \/ CheckpointEnsured(j)
  <2>1. UNCHANGED commentVars
    BY <1>6
       DEF Accept, Control, ControlReconcile, Local, ClaimGranted, Resume, CheckpointEnsured
  <2> QED BY <1>1, <2>1 DEF commentVars
<1> QED BY <1>3, <1>4, <1>5, <1>6, JobSteps

(* The labels a job may be at with nothing to say about a receipt.          *)
PlainLabels == Labels \ {"publish", "receipt", "settle"}

Deciding(j) ==
  Unsupported(j) \/ Inspect(j) \/ DispatchRefused(j) \/ RunReadBack(j) \/ RunReconciled(j)

(* What a job decides to report: success of a recipe is a run there is,     *)
(* and its rejection a refused dispatch.                                    *)
LEMMA Decided ==
  ASSUME HandInv, NEW j \in Jobs, Deciding(j)
  PROVE  /\ OthersStay(j) /\ pc'[j] = "receipt" /\ runs' = runs /\ operation' = operation
         /\ job'[j].comment.outcome.state \in {"succeeded", "rejected"}
         /\ operation = "recipe" /\ job'[j].comment.outcome.state = "succeeded"
              => job'[j].comment.outcome.run \in 1..runs
         /\ operation = "recipe" /\ job'[j].comment.outcome.state = "rejected"
              => DispatchRefused(j)
         /\ operation = "ledger" /\ job'[j].comment.outcome.state = "succeeded"
              => pc[j] = "dispatched"
<1>1. ASSUME NEW state, NEW run, PublishReceipt(j, state, run)
      PROVE  /\ OthersStay(j) /\ pc'[j] = "receipt"
             /\ job'[j].comment.outcome.state = state /\ job'[j].comment.outcome.run = run
  <2> DEFINE c == Receipt(job[j].bundle, [state |-> state, run |-> run])
             local == [job[j] EXCEPT !.comment = c]
  <2>1. Goto(j, "receipt", local)
    BY <1>1 DEF PublishReceipt
  <2>2. job[j] \in Locals(job[j].comment)
    <3>1. pc[j] # "idle"
      BY DEF Deciding, Unsupported, Inspect, DispatchRefused, Dispatches, RunReadBack,
             RunReconciled, Reconciles
    <3> QED BY <3>1 DEF HandInv, JobsInv, JobInv
  <2>3. local.comment = c
    BY <2>2 DEF Locals
  <2>4. c.outcome.state = state /\ c.outcome.run = run
    BY DEF Receipt
  <2> HIDE DEF local, c
  <2>5. OthersStay(j) /\ pc'[j] = "receipt" /\ job'[j] = local
    BY <2>1, GotoPlace DEF HandInv, OthersStay
  <2> QED BY <2>3, <2>4, <2>5
<1>2. runs' = runs /\ operation' = operation
  BY DEF Deciding, Unsupported, Inspect, DispatchRefused, RunReadBack, RunReconciled, Local,
         effectVars
<1>3. CASE Unsupported(j) \/ Inspect(j)
  <2>1. /\ operation # "recipe"
        /\ \E state \in {"succeeded", "rejected"} :
             PublishReceipt(j, state, 0) /\ (operation = "ledger" => state = "rejected")
    BY <1>3 DEF Unsupported, Inspect
  <2> QED BY <1>1, <1>2, <2>1
<1>4. CASE DispatchRefused(j)
  BY <1>1, <1>2, <1>4 DEF DispatchRefused
<1>5. CASE RunReadBack(j)
  <2>1. /\ PublishReceipt(j, "succeeded", job[j].number) /\ job[j].number \in 1..runs
        /\ pc[j] = "dispatched"
    BY <1>5 DEF RunReadBack, HandInv, JobsInv, JobInv, Handling
  <2> QED BY <1>1, <1>2, <2>1
<1>6. CASE RunReconciled(j)
  <2>1. PublishReceipt(j, "succeeded", 1) /\ 1 \in 1..runs /\ operation # "ledger"
    BY <1>6 DEF RunReconciled, Reconciles
  <2> QED BY <1>1, <1>2, <2>1
<1> QED BY <1>3, <1>4, <1>5, <1>6 DEF Deciding

(* A job that neither decides nor observes has nothing to say about one.    *)
LEMMA PlainStep ==
  ASSUME HandInv, NEW j \in Jobs, Begin(j) \/ Continue(j) \/ Fail(j), ~Deciding(j), ~Observe(j)
  PROVE  pc'[j] \in PlainLabels /\ (pc'[j] = "dispatched" => Dispatch(j))
<1> USE DEF HandInv, PlainLabels, Labels
<1>1. ASSUME NEW label, NEW local, Goto(j, label, local) PROVE pc'[j] = label
  BY <1>1, GotoPlace
<1>2. CASE \/ IntentEnsured(j) \/ LoadIntent(j) \/ ClaimRepeated(j) \/ Dispatch(j)
           \/ ObserveNothing(j) \/ MarkAmbiguousNow(j) \/ SettleNow(j) \/ Fail(j)
  BY <1>1, <1>2
     DEF IntentEnsured, LoadIntent, ClaimRepeated, Dispatch, ObserveNothing, MarkAmbiguousNow,
       SettleNow, Fail, Finish
<1>3. CASE \/ FinalizeCertain(j) \/ FinalizeAmbiguous(j)
           \/ ReconcileRequest(j) \/ \E handoff \in Handoffs : Finalize(j, handoff)
  <2>1. \E label \in {"observe", "mark"} : \E local : Goto(j, label, local)
    BY <1>3 DEF FinalizeCertain, FinalizeAmbiguous, ReconcileRequest, Finalize, Finalizing
  <2> QED BY <1>1, <2>1
<1>4. CASE \E execution \in Executions, whole \in BOOLEAN : Accept(j, execution, whole)
  <2>1. \E label \in {"claim", "ensure", "load"} : \E local : Goto(j, label, local)
    BY <1>4 DEF Accept, Ensure
  <2> QED BY <1>1, <2>1
<1>5. CASE \E handoff \in Handoffs : Control(j, handoff) \/ ControlReconcile(j, handoff)
  BY <1>1, <1>5 DEF Control, ControlReconcile
<1>6. CASE PostMissing(j) \/ PostReceipt(j)
  BY <1>1, <1>6 DEF PostMissing, PostReceipt, Finish
<1>7. ASSUME NEW b, NEW d, Handoff(j, b, d) PROVE pc'[j] \in PlainLabels \ {"dispatched"}
  <2>1. \E label \in {"ensure", "idle", "execute"} : \E local : Goto(j, label, local)
    BY <1>7 DEF Handoff, Ensure, WriteResult, Finish
  <2> QED BY <1>1, <2>1
<1>8. CASE ClaimGranted(j) \/ Resume(j) \/ CheckpointEnsured(j)
  BY <1>1, <1>7, <1>8 DEF ClaimGranted, Resume, CheckpointEnsured, WriteResult, Finish
<1> QED
  BY <1>2, <1>3, <1>4, <1>5, <1>6, <1>8, JobSteps DEF Quiet, Deciding

(* A job comes to want a comment of prepare, or goes on wanting the one it   *)
(* has posted.                                                              *)
LEMMA EnsuringStep ==
  ASSUME HandInv, NEW j \in Jobs, Begin(j) \/ Continue(j) \/ Fail(j),
         pc'[j] \in {"ensure", "posted"}
  PROVE  \/ job'[j].comment.kind \in {"intent", "prepare"}
         \/ pc[j] = "ensure" /\ job'[j].comment = job[j].comment
<1> USE DEF HandInv
<1>1. CASE Quiet(j)
  BY <1>1, QuietStep DEF QuietLabels
<1>2. ASSUME NEW execution \in Executions, NEW whole \in BOOLEAN, Accept(j, execution, whole)
      PROVE  job'[j].comment.kind \in {"intent", "prepare"}
  <2> DEFINE b == BundleOf(execution, Len(history'), 0)
             local == [Start(b, "granted") EXCEPT !.whole = whole]
             wants == [local EXCEPT !.comment = Intent(b)]
  <2>1. Goto(j, "claim", local) \/ Goto(j, "load", local) \/ Goto(j, "ensure", wants)
    BY <1>2 DEF Accept, Ensure
  <2>2. wants.comment.kind = "intent"
    BY DEF Intent, Start
  <2> HIDE DEF local, wants
  <2> QED BY <2>1, <2>2, GotoPlace
<1>3. CASE \E handoff \in Handoffs : Control(j, handoff) \/ ControlReconcile(j, handoff)
  BY <1>3, GotoPlace DEF Control, ControlReconcile
<1>4. CASE PostMissing(j)
  <2> DEFINE local == [job[j] EXCEPT !.number = Len(posts) + 1]
  <2>1. pc[j] = "ensure" /\ Goto(j, "posted", local) /\ job[j] \in Locals(job[j].comment)
    BY <1>4 DEF PostMissing, JobsInv, JobInv
  <2>2. local.comment = job[j].comment
    BY <2>1 DEF Locals
  <2> HIDE DEF local
  <2> QED BY <2>1, <2>2, GotoPlace
<1>5. CASE PostReceipt(j)
  BY <1>5, GotoPlace DEF PostReceipt, Finish
<1>6. ASSUME NEW b, NEW d, Handoff(j, b, d)
      PROVE  job'[j].comment.kind \in {"intent", "prepare"}
  <2> DEFINE wants == [Start(b, d) EXCEPT !.comment = Checkpoint(b, d)]
  <2>1. Goto(j, "ensure", wants) \/ \E label \in {"idle", "execute"} : \E local : Goto(j, label, local)
    BY <1>6 DEF Handoff, Ensure, WriteResult, Finish
  <2>2. wants.comment.kind = "prepare"
    BY DEF Checkpoint, Start
  <2> HIDE DEF wants
  <2> QED BY <2>1, <2>2, GotoPlace
<1>7. CASE ClaimGranted(j) \/ Resume(j) \/ CheckpointEnsured(j)
  BY <1>6, <1>7, GotoPlace DEF ClaimGranted, Resume, CheckpointEnsured, WriteResult, Finish
<1> QED BY <1>1, <1>2, <1>3, <1>4, <1>5, <1>7, JobSteps

(* The job that observes has the number of a receipt and what it says.      *)
LEMMA ObserveEvidenced ==
  ASSUME HandInv, EvidencePosts, NEW j \in Jobs, Observe(j)
  PROVE  EvidenceJob(j)'
<1>1. PICK p \in Observed(j) :
        Goto(j, IF posts[p].outcome.state = "candidate_ready" THEN "publish" ELSE "settle",
             [job[j] EXCEPT !.outcome = posts[p].outcome.state, !.number = p])
  BY DEF Observe
<1> DEFINE local == [job[j] EXCEPT !.outcome = posts[p].outcome.state, !.number = p]
<1>2. p \in DOMAIN posts /\ posts[p].kind = "receipt" /\ posts' = posts
  BY DEF Observed, Receipts, HandInv, CommentsInv, Observe, Local, commentVars
<1>3. posts[p].outcome.state # "candidate_ready"
  BY <1>2 DEF EvidencePosts, Truthful
<1>4. job[j] \in Locals(job[j].comment)
  BY DEF Observe, HandInv, JobsInv, JobInv
<1>5. local.outcome = posts[p].outcome.state /\ local.number = p
  BY <1>4 DEF Locals
<1>6. Goto(j, "settle", local)
  BY <1>1, <1>3
<1> HIDE DEF local
<1>7. pc'[j] = "settle" /\ job'[j] = local
  BY <1>6, GotoPlace DEF HandInv
<1> QED BY <1>2, <1>5, <1>7 DEF EvidenceJob, Labels

(* What is true of a receipt stays true.                                    *)
LEMMA TruthStays ==
  ASSUME HandInv, HandInv', Evolves
  PROVE  \A o : Truthful(o) =>
           /\ operation' = "recipe" /\ o.state = "succeeded" => o.run \in 1..runs'
           /\ o.state # "candidate_ready"
<1>1. runs \in Nat /\ runs' \in Nat /\ runs <= runs' /\ operation' = operation
  BY PhaseAssumption DEF HandInv, SharedInv, Evolves
<1>2. 1..runs \subseteq 1..runs'
  BY <1>1
<1> QED BY <1>1, <1>2 DEF Truthful, TrueOutcome

(* A receipt that is on the Issue and says what the record says goes on     *)
(* doing so.                                                                *)
LEMMA EvidenceStays ==
  ASSUME HandInv, HandInv', Evolves, Current' = Current, TerminalIsEvidenced,
         \A p \in DOMAIN posts : p \in DOMAIN posts' /\ posts'[p] = posts[p]
  PROVE  TerminalIsEvidenced'
<1> SUFFICES ASSUME StoredState(TerminalStates)' PROVE TerminalIsEvidenced'
  BY DEF TerminalIsEvidenced
<1>1. StoredState(TerminalStates)
  BY DEF StoredState
<1>2. PICK p \in Receipts :
        /\ Current.terminal_code = p
        /\ posts[p].outcome.state = Current.state
        /\ AcceptedAt(posts[p].accepted)
        /\ ClaimedAt(posts[p].claim, Current.execution_id)
        /\ operation = "recipe" /\ Current.state = "succeeded"
             => posts[p].outcome.run \in 1..runs
  BY <1>1 DEF TerminalIsEvidenced
<1>3. /\ p \in DOMAIN posts /\ posts'[p] = posts[p]
      /\ p \in landed' /\ operation' = operation
  BY <1>2 DEF Receipts, HandInv, CommentsInv, Evolves
<1>4. p \in Receipts'
  BY <1>2, <1>3 DEF Receipts
<1>5. \A n \in Revision : n \in Revision' /\ history'[n] = history[n]
  BY HistoryStep DEF HandInv, Evolves
<1>6. AcceptedAt(posts[p].accepted)' /\ ClaimedAt(posts[p].claim, Current.execution_id)'
  BY <1>2, <1>3, <1>5 DEF AcceptedAt, ClaimedAt
<1>7. runs \in Nat /\ runs' \in Nat /\ runs <= runs'
  BY PhaseAssumption DEF HandInv, SharedInv, Evolves
<1>8. 1..runs \subseteq 1..runs'
  BY <1>7
<1> QED BY <1>2, <1>3, <1>4, <1>6, <1>8 DEF TerminalIsEvidenced

(* Settling records what the receipt says.                                  *)
LEMMA SettleEvidenced ==
  ASSUME HandInv, HandInv', EvidenceInv, NEW j \in Jobs, SettleNow(j)
  PROVE  TerminalIsEvidenced'
<1>0. PICK p : p = job[j].number
  OBVIOUS
<1>1. /\ pc[j] = "settle" /\ UNCHANGED <<posts, landed, operation, runs>>
      /\ OwnedBy(job[j].bundle.execution)
  BY DEF SettleNow, Settled, commentVars, effectVars
<1>2. /\ Advances /\ Current' # NoValue
      /\ Current'.state = job[j].outcome /\ Current'.terminal_code = p
      /\ Current'.execution_id = Current.execution_id
  BY <1>0, SettlesRecord
<1>3. /\ p \in landed /\ p \in DOMAIN posts /\ posts[p].kind = "receipt"
      /\ posts[p].outcome.state = job[j].outcome /\ Truthful(posts[p].outcome)
  BY <1>0, <1>1 DEF HandInv, CommentsInv, JobsInv, JobInv, Handling, EvidenceInv, EvidenceJob, EvidencePosts
<1>4. posts[p] \in SoundReceipts
  BY <1>3 DEF HandInv, CommentsInv, SoundPost
<1>5. AcceptedAt(posts[p].accepted) /\ ClaimedAt(posts[p].claim, Current.execution_id)
  <2>1. PICK e \in Executions : BundleOf(e, posts[p].accepted, posts[p].claim) \in Verifiable
    BY <1>4 DEF SoundReceipts
  <2>2. /\ AcceptedAt(posts[p].accepted) /\ ClaimedAt(posts[p].claim, e) /\ OwnedBy(e)
    BY <2>1 DEF Verifiable, Verified, BundleOf
  <2> QED BY <2>2 DEF OwnedBy
<1>6. \A n \in Revision : n \in Revision' /\ history'[n] = history[n]
  BY <1>2, HistoryStep DEF HandInv
<1>7. AcceptedAt(posts[p].accepted)' /\ ClaimedAt(posts[p].claim, Current.execution_id)'
  BY <1>1, <1>2, <1>5, <1>6 DEF AcceptedAt, ClaimedAt
<1>8. p \in Receipts'
  BY <1>1, <1>3 DEF Receipts
<1>9. operation' = "recipe" /\ Current'.state = "succeeded" => posts'[p].outcome.run \in 1..runs'
  BY <1>1, <1>2, <1>3 DEF Truthful, TrueOutcome
<1> QED BY <1>1, <1>2, <1>3, <1>7, <1>8, <1>9 DEF TerminalIsEvidenced

(* It is enough to look at the job that moved and at what it posted.        *)
LEMMA EvidenceStep ==
  ASSUME HandInv, HandInv', EvidenceInv, Evolves, NEW j \in Jobs,
         Begin(j) \/ Continue(j) \/ Fail(j)
  PROVE  EvidencePosts' /\ \A k \in Jobs : EvidenceJob(k)'
<1>1. /\ \A p \in DOMAIN posts : p \in DOMAIN posts' /\ posts'[p] = posts[p]
      /\ \A p \in DOMAIN posts' :
           \/ p \in DOMAIN posts
           \/ posts'[p].kind # "receipt"
           \/ pc[j] = "receipt" /\ posts'[p] = job[j].comment
  BY Posted
<1>2. OthersStay(j)
  BY GrantedStep, ClaimGrants
<1>3. \A o : Truthful(o) =>
        /\ operation' = "recipe" /\ o.state = "succeeded" => o.run \in 1..runs'
        /\ o.state # "candidate_ready"
  BY TruthStays
<1>4. EvidencePosts'
  <2> SUFFICES ASSUME NEW p \in DOMAIN posts', posts'[p].kind = "receipt"
               PROVE  Truthful(posts'[p].outcome)
    BY <1>3 DEF EvidencePosts, Truthful, TrueOutcome
  <2> QED BY <1>1 DEF EvidenceInv, EvidencePosts, EvidenceJob
<1>5. ASSUME NEW k \in Jobs, k # j PROVE EvidenceJob(k)'
  <2>1. pc'[k] = pc[k] /\ job'[k] = job[k] /\ EvidenceJob(k)
    BY <1>2, <1>5 DEF OthersStay, EvidenceInv
  <2>2. pc[k] = "receipt" => Truthful(job[k].comment.outcome)'
    BY <1>3, <2>1 DEF EvidenceJob, Truthful, TrueOutcome
  <2>3. pc[k] = "settle" => posts'[job[k].number] = posts[job[k].number]
    BY <1>1 DEF HandInv, JobsInv, JobInv, Handling, CommentsInv
  <2> QED BY <2>1, <2>2, <2>3 DEF EvidenceJob
<1>6. EvidenceJob(j)'
  <2>1. CASE Deciding(j)
    BY <2>1, Decided DEF EvidenceJob, Labels, Truthful, TrueOutcome
  <2>2. CASE Observe(j)
    BY <2>2, ObserveEvidenced DEF EvidenceInv
  <2>3. CASE ~Deciding(j) /\ ~Observe(j)
    <3>1. pc'[j] \in PlainLabels
      BY <2>3, PlainStep
    <3> QED BY <3>1 DEF EvidenceJob, PlainLabels
  <2> QED BY <2>1, <2>2, <2>3
<1> QED BY <1>4, <1>5, <1>6

(* Every step keeps the evidence.                                           *)
LEMMA EvidenceNext == HandInv /\ EvidenceInv /\ [PhaseNext]_phaseVars => EvidenceInv'
<1> SUFFICES ASSUME HandInv, EvidenceInv, [PhaseNext]_phaseVars PROVE EvidenceInv'
  OBVIOUS
<1>1. HandInv' /\ Evolves
  BY HandNext, StepEvolves
<1>2. ASSUME NEW j \in Jobs, Begin(j) \/ Continue(j) \/ Fail(j)
      PROVE  EvidencePosts' /\ \A k \in Jobs : EvidenceJob(k)'
  BY <1>1, <1>2, EvidenceStep
<1>3. ASSUME UNCHANGED <<jobVars, posts, effectVars>>
      PROVE  EvidencePosts' /\ \A k \in Jobs : EvidenceJob(k)'
  BY <1>3
     DEF EvidenceInv, EvidencePosts, EvidenceJob, jobVars, effectVars, Truthful, TrueOutcome
<1>4. \/ \E j \in Jobs : Begin(j) \/ Continue(j) \/ Fail(j)
      \/ UNCHANGED <<jobVars, posts, effectVars>>
  BY DEF PhaseNext, Others, Land, LandComment, phaseVars, commentVars
<1>5. EvidencePosts' /\ \A k \in Jobs : EvidenceJob(k)'
  BY <1>2, <1>3, <1>4
<1>6. \A p \in DOMAIN posts : p \in DOMAIN posts' /\ posts'[p] = posts[p]
  BY <1>4, Posted
<1>7. TerminalIsEvidenced'
  <2>1. CASE Current' = Current
    BY <1>1, <1>6, <2>1, EvidenceStays DEF EvidenceInv
  <2>2. CASE Current' # NoValue /\ Current'.state \in {"accepted", "executing", "ambiguous"}
    BY <2>2 DEF TerminalIsEvidenced, StoredState, TerminalStates
  <2>3. CASE \E j \in Jobs : SettleNow(j)
    BY <1>1, <2>3, SettleEvidenced
  <2> QED BY <2>1, <2>2, <2>3, StepEvolves
<1> QED BY <1>5, <1>7 DEF EvidenceInv

(* There is nothing to be evidenced at the start.                           *)
LEMMA EvidenceInit == PhaseInit => EvidenceInv
<1> SUFFICES ASSUME PhaseInit PROVE EvidenceInv
  OBVIOUS
<1>1. ~StoredState(TerminalStates)
  BY DEF PhaseInit, JournalInit, StoredState, Current, HeadSha
<1>2. DOMAIN posts = {}
  BY DEF PhaseInit, CommentsInit
<1> QED
  BY <1>1, <1>2
     DEF PhaseInit, EvidenceInv, EvidencePosts, EvidenceJob, TerminalIsEvidenced, Labels

(* What every phase keeps in its variables, whatever the policy.            *)
THEOREM PhaseTypes == PhaseSpec => []TypeOK
<1>1. PhaseSpec => [](HandInv /\ EvidenceInv)
  BY HandInit, HandNext, EvidenceInit, EvidenceNext, PTL DEF PhaseSpec
<1>2. ASSUME HandInv, EvidenceInv PROVE TypeOK
  <2>1. HistoryTypeOK /\ landed \subseteq DOMAIN posts
    BY <1>2 DEF HandInv, HistoryInv, CommentsInv
  <2>2. Verifiable \subseteq Bundle
    BY DEF Verifiable
  <2>3. /\ operation \in Operations /\ runs \in 0..MaxRuns
        /\ files \subseteq Prepared /\ controlled \subseteq Bundle
    BY <1>2, <2>2 DEF HandInv, SharedInv, Prepared
  <2>4. pc \in [Jobs -> Labels]
    BY <1>2 DEF HandInv, JobsInv, EvidenceInv, EvidenceJob
  <2>5. \A j \in Jobs : pc[j] # "idle" =>
          job[j].bundle \in Bundle /\ job[j].outcome \in Results \cup {NoValue}
    BY <1>2 DEF HandInv, JobsInv, JobInv, Locals
  <2> QED BY <2>1, <2>3, <2>4, <2>5 DEF TypeOK
<1> QED BY <1>1, <1>2, PTL

(* A terminal record is evidenced by a receipt of this request, for any     *)
(* policy and however often phases are run, control included.               *)
THEOREM TerminalEvidence == PhaseSpec => []TerminalIsEvidenced
<1>1. PhaseSpec => [](HandInv /\ EvidenceInv)
  BY HandInit, HandNext, EvidenceInit, EvidenceNext, PTL DEF PhaseSpec
<1> QED BY <1>1, PTL DEF EvidenceInv

-----------------------------------------------------------------------------
(* The third layer: who has the effect, where the workflow runs control     *)
(* once for a bundle.                                                       *)

(* No step brings back the time before the claim.                           *)
LEMMA ClaimStays ==
  ASSUME HandInv, Advances
  PROVE  Unclaimed' => Unclaimed
BY HistoryStep DEF HandInv

(* A step that creates no run and lets nobody else have the effect.         *)
LEMMA CalmStep ==
  ASSUME HandInv, EffectInv, Advances, UNCHANGED effectVars, controlled \subseteq controlled',
         Granted' \subseteq Granted,
         \A k \in Jobs : Executor(k)' => Executor(k),
         operation = "recipe" /\ Refused' => Refused
  PROVE  EffectInv'
<1>1. runs' = runs /\ operation' = operation
  BY DEF effectVars
<1>2. Unspent' => Unspent
  BY ClaimStays DEF Unspent
<1> QED BY <1>1, <1>2 DEF EffectInv, EffectSpent

(* A refusal comes from a job that had decided on it.                       *)
LEMMA RefusedBefore ==
  ASSUME HandInv, NEW j \in Jobs, Begin(j) \/ Continue(j) \/ Fail(j), OthersStay(j),
         pc'[j] = "receipt" => job'[j].comment.outcome.state # "rejected", Refused'
  PROVE  Refused
<1>1. CASE \E p \in DOMAIN posts' :
             posts'[p].kind = "receipt" /\ posts'[p].outcome.state = "rejected"
  <2>1. PICK p \in DOMAIN posts' :
          posts'[p].kind = "receipt" /\ posts'[p].outcome.state = "rejected"
    BY <1>1
  <2>2. CASE p \in DOMAIN posts
    BY <2>1, <2>2, Posted DEF Refused
  <2>3. CASE pc[j] = "receipt" /\ posts'[p] = job[j].comment
    BY <2>1, <2>3 DEF Refused
  <2> QED BY <2>1, <2>2, <2>3, Posted
<1>2. CASE \E k \in Jobs : pc'[k] = "receipt" /\ job'[k].comment.outcome.state = "rejected"
  <2>1. PICK k \in Jobs : pc'[k] = "receipt" /\ job'[k].comment.outcome.state = "rejected"
    BY <1>2
  <2> QED BY <2>1 DEF OthersStay, Refused
<1> QED BY <1>1, <1>2 DEF Refused

(* Only the claim, for the process that goes on, and control make a job one *)
(* that may have the effect.                                                *)
LEMMA ExecutorBefore ==
  ASSUME HandInv, NEW j \in Jobs, Begin(j) \/ Continue(j) \/ Fail(j), ~ClaimGranted(j),
         ~\E handoff \in Handoffs : Control(j, handoff)
  PROVE  \A k \in Jobs : Executor(k)' => Executor(k)
<1>1. OthersStay(j)
  BY GrantedStep
<1>2. ~Executor(j)'
  <2> USE DEF HandInv
  <2>1. CASE Quiet(j)
    BY <2>1, QuietStep DEF QuietLabels, Executor
  <2>2. CASE \E execution \in Executions, whole \in BOOLEAN : Accept(j, execution, whole)
    <3>1. \E label \in {"claim", "ensure", "load"} : \E local : Goto(j, label, local)
      BY <2>2 DEF Accept, Ensure
    <3> QED BY <3>1, GotoPlace DEF Executor
  <2>3. ASSUME NEW handoff \in Handoffs, ControlReconcile(j, handoff) PROVE ~Executor(j)'
    <3> DEFINE local == [Start(handoff.bundle, NoValue) EXCEPT !.looks = TRUE]
    <3>1. Goto(j, "execute", local) /\ local.looks
      BY <2>3 DEF ControlReconcile, Start
    <3> HIDE DEF local
    <3> QED BY <3>1, GotoPlace DEF Executor
  <2>4. CASE PostMissing(j) \/ PostReceipt(j)
    <3>1. \E label \in {"posted", "concluded", "idle"} : \E local : Goto(j, label, local)
      BY <2>4 DEF PostMissing, PostReceipt, Finish
    <3> QED BY <3>1, GotoPlace DEF Executor
  <2>5. CASE Resume(j)
    <3>1. pc[j] = "resume" /\ JobInv(j)
      BY <2>5 DEF Resume, JobsInv
    <3>2. ~job[j].whole
      BY <3>1 DEF JobInv, Preparing
    <3>3. \E label \in {"ensure", "idle"} : \E local : Goto(j, label, local)
      BY <2>5, <3>2 DEF Resume, Handoff, Ensure, WriteResult, Finish
    <3> QED BY <3>3, GotoPlace DEF Executor
  <2>6. CASE CheckpointEnsured(j)
    <3>1. Goto(j, "idle", NoValue)
      BY <2>6 DEF CheckpointEnsured, WriteResult, Finish
    <3> QED BY <3>1, GotoPlace DEF Executor
  <2> QED BY <2>1, <2>2, <2>3, <2>4, <2>5, <2>6, JobSteps
<1>3. \A k \in Jobs : k # j => (Executor(k)' => Executor(k))
  BY <1>1 DEF OthersStay, Executor
<1> QED BY <1>2, <1>3

(* The claim: nothing had happened before it, and it leaves one right to    *)
(* the effect, in the bundle or in the process that goes on.                *)
LEMMA ClaimSpends ==
  ASSUME HandInv, EffectInv, NEW j \in Jobs, ClaimGranted(j)
  PROVE  EffectInv'
<1>1. /\ Unclaimed /\ ~Unclaimed' /\ UNCHANGED effectVars
  BY ClaimVouches DEF ClaimGranted
<1>2. OthersStay(j) /\ (Executor(j)' => Granted' = {}) /\ pc'[j] # "receipt"
  BY ClaimGrants
<1>3. runs = 0 /\ runs' = 0 /\ operation' = operation /\ \A k \in Jobs : ~Executor(k)
  BY <1>1 DEF EffectInv, Unspent, effectVars
<1>4. ~(operation = "recipe" /\ Refused)
  BY <1>1 DEF EffectInv, EffectSpent, Unspent
<1>5. ~(operation = "recipe" /\ Refused')
  BY <1>2, <1>4, RefusedBefore DEF Continue
<1>6. \A k \in Jobs : Executor(k)' => k = j
  BY <1>2, <1>3 DEF OthersStay, Executor
<1>7. Unspent' => \A k \in Jobs : ~Executor(k)'
  BY <1>1, <1>2, <1>6 DEF Unspent
<1> QED BY <1>3, <1>5, <1>6, <1>7 DEF EffectInv

(* Control spends the bundle it runs on, which is the only one granted.     *)
LEMMA ControlSpends ==
  ASSUME HandInv, GrantInv, EffectInv, ~ControlReruns, NEW j \in Jobs,
         NEW handoff \in Handoffs, Control(j, handoff)
  PROVE  EffectInv'
<1> DEFINE b == handoff.bundle
<1>1. /\ handoff.disposition = "granted" /\ b \notin controlled
      /\ controlled' = controlled \cup {b}
      /\ UNCHANGED <<history, effectVars>>
      /\ \E local : Goto(j, "execute", local)
  BY DEF Control, MayControl
<1>2. b \in Granted
  BY <1>1, HandoffGranted
<1>3. Unspent
  BY <1>1, <1>2 DEF Unspent
<1>4. runs = 0 /\ runs' = 0 /\ operation' = operation /\ \A k \in Jobs : ~Executor(k)
  BY <1>1, <1>3 DEF EffectInv, effectVars
<1>5. ~ClaimGranted(j)
  BY DEF Control, ClaimGranted
<1>6. OthersStay(j) /\ Granted' \subseteq Granted /\ pc'[j] = "execute"
  BY <1>1, <1>5, GrantedStep, GotoPlace DEF Begin, HandInv
<1>7. ~Unspent'
  <2>1. ~Unclaimed'
    BY <1>1, <1>2, GrantedVerifiable DEF Unclaimed, Current, HeadSha
  <2>2. Granted' \subseteq {b}
    BY <1>2, <1>6 DEF GrantInv
  <2> QED BY <1>1, <2>1, <2>2 DEF Unspent
<1>8. ~(operation = "recipe" /\ Refused)
  BY <1>3 DEF EffectInv, EffectSpent
<1>9. ~(operation = "recipe" /\ Refused')
  BY <1>6, <1>8, RefusedBefore DEF Begin
<1>10. \A k \in Jobs : Executor(k)' => k = j
  BY <1>4, <1>6 DEF OthersStay, Executor
<1> QED BY <1>4, <1>7, <1>9, <1>10 DEF EffectInv

(* The effect itself: the only one, by the only job that may have it.       *)
LEMMA DispatchSpends ==
  ASSUME HandInv, EffectInv, NEW j \in Jobs, Dispatch(j)
  PROVE  EffectInv'
<1>1. /\ Executor(j) /\ operation = "recipe" /\ runs' = runs + 1 /\ operation' = operation
      /\ UNCHANGED <<history, controlled>> /\ \E local : Goto(j, "dispatched", local)
  BY DEF Dispatch, Dispatches, Executor
<1>2. runs = 0 /\ ~Unspent /\ ~Refused /\ \A k \in Jobs : Executor(k) => k = j
  BY <1>1 DEF EffectInv, EffectSpent
<1>3. ~ClaimGranted(j) /\ pc'[j] = "dispatched"
  BY <1>1, GotoPlace DEF Executor, ClaimGranted, HandInv
<1>4. OthersStay(j) /\ Granted' \subseteq Granted
  BY <1>3, GrantedStep DEF Continue
<1>5. ~Unspent'
  BY <1>1, <1>2, <1>4 DEF Unspent, Unclaimed, Current, HeadSha
<1>6. ~Refused'
  BY <1>2, <1>3, <1>4, RefusedBefore DEF Continue
<1>7. \A k \in Jobs : ~Executor(k)'
  BY <1>2, <1>3, <1>4 DEF OthersStay, Executor
<1>8. runs' = 1
  BY <1>1, <1>2
<1> QED BY <1>1, <1>5, <1>6, <1>7, <1>8 DEF EffectInv

(* A refused dispatch: no run, and nobody left who could create one.        *)
LEMMA RefusalSpends ==
  ASSUME HandInv, EffectInv, NEW j \in Jobs, DispatchRefused(j)
  PROVE  EffectInv'
<1>1. /\ Executor(j) /\ operation = "recipe" /\ UNCHANGED <<effectVars, history, controlled>>
  BY DEF DispatchRefused, Dispatches, Executor, Local
<1>2. runs = 0 /\ ~Unspent /\ \A k \in Jobs : Executor(k) => k = j
  BY <1>1 DEF EffectInv
<1>3. ~ClaimGranted(j) /\ pc'[j] = "receipt"
  BY <1>1, Decided DEF Executor, ClaimGranted, Deciding
<1>4. OthersStay(j) /\ Granted' \subseteq Granted
  BY <1>3, GrantedStep DEF Continue
<1>5. ~Unspent'
  BY <1>1, <1>2, <1>4 DEF Unspent, Unclaimed, Current, HeadSha
<1>6. \A k \in Jobs : ~Executor(k)'
  BY <1>2, <1>3, <1>4 DEF OthersStay, Executor
<1>7. runs' = 0
  BY <1>1, <1>2 DEF effectVars
<1> QED BY <1>5, <1>6, <1>7 DEF EffectInv, EffectSpent

(* Every step keeps the third layer.                                        *)
LEMMA EffectNext ==
  HandInv /\ GrantInv /\ EffectInv /\ ~ControlReruns /\ [PhaseNext]_phaseVars => EffectInv'
<1> SUFFICES ASSUME HandInv, GrantInv, EffectInv, ~ControlReruns, [PhaseNext]_phaseVars
             PROVE  EffectInv'
  OBVIOUS
<1>1. Advances
  BY StepEvolves DEF Evolves
<1>2. ASSUME NEW j \in Jobs, Begin(j) \/ Continue(j) \/ Fail(j), ~ClaimGranted(j),
             ~(\E handoff \in Handoffs : Control(j, handoff)), ~Dispatch(j), ~DispatchRefused(j)
      PROVE  EffectInv'
  <2>1. OthersStay(j) /\ Granted' \subseteq Granted
    BY <1>2, GrantedStep
  <2>2. \A k \in Jobs : Executor(k)' => Executor(k)
    BY <1>2, ExecutorBefore
  <2>3. UNCHANGED <<effectVars, controlled>>
    <3>1. CASE Quiet(j)
      BY <1>2, <3>1
         DEF Quiet, IntentEnsured, LoadIntent, ClaimRepeated, Unsupported, Inspect, RunReadBack,
           RunReconciled, FinalizeCertain, FinalizeAmbiguous, Observe, ObserveNothing,
           MarkAmbiguousNow, SettleNow, ReconcileRequest, Finalize, Finalizing, Fail, Local
    <3>2. CASE \/ \E execution \in Executions, whole \in BOOLEAN : Accept(j, execution, whole)
               \/ \E handoff \in Handoffs : ControlReconcile(j, handoff)
               \/ PostMissing(j) \/ PostReceipt(j) \/ Resume(j) \/ CheckpointEnsured(j)
      BY <3>2
         DEF Accept, ControlReconcile, PostMissing, PostReceipt, Resume, CheckpointEnsured, Local
    <3> QED BY <1>2, <3>1, <3>2, JobSteps
  <2>4. operation = "recipe" /\ pc'[j] = "receipt" => job'[j].comment.outcome.state # "rejected"
    <3>1. CASE Deciding(j)
      BY <1>2, <3>1, Decided
    <3>2. CASE Observe(j)
      <4>1. \E label \in {"publish", "settle"} : pc'[j] = label
        <5>1. PICK p \in Observed(j) :
                Goto(j, IF posts[p].outcome.state = "candidate_ready" THEN "publish" ELSE "settle",
                     [job[j] EXCEPT !.outcome = posts[p].outcome.state, !.number = p])
          BY <3>2 DEF Observe
        <5> QED BY <5>1, GotoPlace DEF HandInv
      <4> QED BY <4>1
    <3>3. CASE ~Deciding(j) /\ ~Observe(j)
      BY <1>2, <3>3, PlainStep DEF PlainLabels
    <3> QED BY <3>1, <3>2, <3>3
  <2>5. operation = "recipe" /\ Refused' => Refused
    BY <1>2, <2>1, <2>4, RefusedBefore
  <2> QED BY <1>1, <2>1, <2>2, <2>3, <2>5, CalmStep
<1>3. ASSUME NEW j \in Jobs, Begin(j) \/ Continue(j) \/ Fail(j) PROVE EffectInv'
  BY <1>2, <1>3, ClaimSpends, ControlSpends, DispatchSpends, RefusalSpends
<1>4. ASSUME UNCHANGED <<jobVars, files, posts, controlled, effectVars>> PROVE EffectInv'
  <2>1. Granted' = Granted
    BY <1>4, GrantedElsewhere
  <2>2. \A k \in Jobs : Executor(k)' => Executor(k)
    BY <1>4 DEF jobVars, Executor
  <2>3. Refused' => Refused
    BY <1>4 DEF jobVars, Refused
  <2> QED BY <1>1, <1>4, <2>1, <2>2, <2>3, CalmStep
<1>5. \/ \E j \in Jobs : Begin(j) \/ Continue(j) \/ Fail(j)
      \/ UNCHANGED <<jobVars, files, posts, controlled, effectVars>>
  BY DEF PhaseNext, Others, Land, LandComment, phaseVars, commentVars
<1> QED BY <1>3, <1>4, <1>5

(* Nothing has happened at the start.                                       *)
LEMMA EffectInit == PhaseInit => EffectInv
<1> SUFFICES ASSUME PhaseInit PROVE EffectInv
  OBVIOUS
<1>1. runs = 0 /\ (\A j \in Jobs : pc[j] = "idle") /\ DOMAIN posts = {}
  BY DEF PhaseInit, CommentsInit
<1>2. ~Refused /\ \A j \in Jobs : ~Executor(j)
  BY <1>1 DEF Refused, Executor
<1> QED BY <1>1, <1>2 DEF EffectInv

(* The third layer holds where control is run once for a bundle; the rerun  *)
(* of it is the run phases_rerun.                                           *)
LEMMA EffectInvariant == ~ControlReruns => (PhaseSpec => [](HandInv /\ EffectInv))
<1> SUFFICES ASSUME ~ControlReruns PROVE PhaseSpec => [](HandInv /\ EffectInv)
  OBVIOUS
<1>1. ~ControlReruns
  OBVIOUS
<1>2. HandInv /\ GrantInv /\ EffectInv /\ [PhaseNext]_phaseVars
        => HandInv' /\ GrantInv' /\ EffectInv'
  BY <1>1, HandNext, GrantNext, EffectNext
<1>3. PhaseInit => HandInv /\ GrantInv /\ EffectInv
  BY HandInit, GrantInit, EffectInit
<1> QED BY <1>2, <1>3, PTL DEF PhaseSpec

(* A request's recipe is dispatched at most once, whatever jobs die or run  *)
(* beside each other, while control is run once for a granted bundle.       *)
THEOREM OneRun == ~ControlReruns => (PhaseSpec => []OneDispatch)
<1>1. HandInv /\ EffectInv => OneDispatch
  BY DEF EffectInv, OneDispatch
<1> QED BY <1>1, EffectInvariant, PTL

(* A request recorded as rejected has had no effect: its record names a     *)
(* receipt, and nobody reports a refusal who may have dispatched.           *)
THEOREM RejectionTruth == ~ControlReruns => (PhaseSpec => []RejectedHadNoEffect)
<1>1. ASSUME HandInv, EffectInv, EvidenceInv PROVE RejectedHadNoEffect
  <2> SUFFICES ASSUME StoredState({"rejected"}) PROVE runs = 0
    BY DEF RejectedHadNoEffect
  <2>1. PICK p \in Receipts : posts[p].outcome.state = "rejected"
    BY <1>1 DEF EvidenceInv, TerminalIsEvidenced, StoredState, TerminalStates
  <2>2. Refused
    BY <1>1, <2>1 DEF Refused, Receipts, HandInv, CommentsInv
  <2> QED BY <1>1, <2>2 DEF EffectInv, EffectSpent
<1>2. PhaseSpec => [](HandInv /\ EvidenceInv)
  BY HandInit, HandNext, EvidenceInit, EvidenceNext, PTL DEF PhaseSpec
<1> QED BY <1>1, <1>2, EffectInvariant, PTL

-----------------------------------------------------------------------------
(* The promise of AbstractRequest.                                          *)

(* How a step moves the request in the journal.                             *)
LEMMA StandingMoves ==
  ASSUME HandInv, Advances
  PROVE  \/ Standing' = Standing /\ Owner' = Owner
         \/ Standing = "unknown" /\ Standing' = "accepted" /\ Owner' = Owner
         \/ Standing = "accepted" /\ Standing' = "executing" /\ Owner' \in Executions
         \/ /\ Standing \in {"executing", "ambiguous"} /\ Owner' = Owner
            /\ Standing' \in {"ambiguous"} \cup TerminalStates
<1>1. CASE history' = history
  BY <1>1 DEF Standing, Owner, Current, HeadSha
<1>2. ASSUME NEW rec \in Record, history' = Append(history, rec), Follows(Current, rec)
      PROVE  \/ Standing' = Standing /\ Owner' = Owner
             \/ Standing = "unknown" /\ Standing' = "accepted" /\ Owner' = Owner
             \/ Standing = "accepted" /\ Standing' = "executing" /\ Owner' \in Executions
             \/ /\ Standing \in {"executing", "ambiguous"} /\ Owner' = Owner
                /\ Standing' \in {"ambiguous"} \cup TerminalStates
  <2>1. Current' = rec /\ rec # NoValue
    BY <1>2, AppendRecord, NoRecordAssumption DEF HandInv, HistoryInv
  <2>2. Standing' = rec.state /\ Owner' = rec.execution_id
    BY <2>1 DEF Standing, Owner
  <2>3. CASE rec = Current
    BY <2>1, <2>3 DEF Standing, Owner
  <2>4. CASE Current = NoValue /\ rec.state = "accepted" /\ rec.execution_id = NoValue
    BY <2>2, <2>4 DEF Standing, Owner
  <2>5. CASE /\ Current # NoValue /\ Current.state = "accepted"
             /\ rec.state = "executing" /\ rec.execution_id \in Executions
    BY <2>2, <2>5 DEF Standing
  <2>6. CASE /\ Current # NoValue /\ Current.state \in {"executing", "ambiguous"}
             /\ rec.state \in {"ambiguous"} \cup TerminalStates
             /\ rec.execution_id = Current.execution_id
    <3>1. Standing = Current.state /\ Owner = Current.execution_id
      BY <2>6 DEF Standing, Owner
    <3> QED BY <2>2, <2>6, <3>1
  <2> QED BY <1>2, <2>3, <2>4, <2>5, <2>6 DEF Follows
<1> QED BY <1>1, <1>2 DEF Advances

(* Only a dispatch makes a run, and only what lands is said.                *)
LEMMA JobsSayNothing ==
  ASSUME HandInv, NEW j \in Jobs, Begin(j) \/ Continue(j) \/ Fail(j)
  PROVE  Said' = Said /\ (runs' = runs \/ Dispatch(j))
<1>1. landed' = landed /\ (runs' = runs \/ Dispatch(j))
  <2>1. CASE Quiet(j)
    <3>1. landed' = landed
      BY <2>1, QuietStep DEF commentVars
    <3>2. runs' = runs \/ Dispatch(j)
      BY <2>1
         DEF Quiet, IntentEnsured, LoadIntent, ClaimRepeated, Unsupported, Inspect,
           DispatchRefused, RunReadBack, RunReconciled, FinalizeCertain, FinalizeAmbiguous,
           Observe, ObserveNothing, MarkAmbiguousNow, SettleNow, ReconcileRequest, Finalize,
           Finalizing, Fail, Local, effectVars
    <3> QED BY <3>1, <3>2
  <2>2. CASE \/ \E execution \in Executions, whole \in BOOLEAN : Accept(j, execution, whole)
             \/ \E handoff \in Handoffs : Control(j, handoff) \/ ControlReconcile(j, handoff)
             \/ PostMissing(j) \/ PostReceipt(j)
             \/ ClaimGranted(j) \/ Resume(j) \/ CheckpointEnsured(j)
    BY <2>2
       DEF Accept, Control, ControlReconcile, PostMissing, PostReceipt, SendComment, ClaimGranted,
         Resume, CheckpointEnsured, Local, commentVars, effectVars
  <2> QED BY <2>1, <2>2, JobSteps
<1>2. \A p \in landed : posts'[p] = posts[p]
  BY Posted DEF HandInv, CommentsInv
<1>3. Receipts' = Receipts /\ \A p \in Receipts : posts'[p] = posts[p]
  BY <1>1, <1>2 DEF Receipts
<1> QED BY <1>1, <1>3 DEF Said

(* What the receipts say of the effect is so.                               *)
LEMMA SaidIsTrue ==
  ASSUME HandInv, EffectInv, EvidenceInv,
         NEW p \in DOMAIN posts, posts[p].kind = "receipt"
  PROVE  /\ posts[p].outcome.state \in {"succeeded", "rejected"}
         /\ operation = "recipe" => (posts[p].outcome.state = "succeeded" <=> runs = 1)
         /\ Standing \in States \ {"accepted"}
<1>1. posts[p] \in SoundReceipts /\ Truthful(posts[p].outcome)
  BY DEF HandInv, CommentsInv, SoundPost, EvidenceInv, EvidencePosts
<1>2. posts[p].outcome.state \in {"succeeded", "rejected"}
  BY <1>1 DEF SoundReceipts, Outcomes, Results, Truthful
<1>3. runs \in Nat /\ runs <= 1
  BY PhaseAssumption DEF HandInv, SharedInv, EffectInv
<1>4. operation = "recipe" /\ posts[p].outcome.state = "succeeded" => runs = 1
  BY <1>1, <1>3 DEF Truthful, TrueOutcome
<1>5. operation = "recipe" /\ posts[p].outcome.state = "rejected" => runs = 0
  BY DEF EffectInv, EffectSpent, Refused
<1>6. Standing \in States \ {"accepted"}
  <2>1. Verifiable # {}
    BY <1>1 DEF SoundReceipts
  <2>2. Current # NoValue /\ Current.state # "accepted"
    BY <2>1, NoValueAssumption
       DEF Verifiable, Verified, OwnedBy, Bundle, HandInv, HistoryInv
  <2>3. Current \in Record
    BY <2>2, HeadType DEF HandInv, HistoryInv
  <2> QED BY <2>2, <2>3 DEF Standing, Record
<1> QED BY <1>2, <1>4, <1>5, <1>6

(* A comment that lands says something true, or nothing about the outcome.  *)
LEMMA LandingSays ==
  ASSUME HandInv, EffectInv, EvidenceInv, NEW p \in 1..Len(posts), Land(p)
  PROVE  [Promise!Next]_(Promise!vars)
<1>1. /\ history' = history /\ posts' = posts /\ landed' = landed \cup {p}
      /\ runs' = runs /\ operation' = operation
  BY DEF Land, LandComment, effectVars
<1>2. Standing' = Standing /\ Owner' = Owner
  BY <1>1 DEF Standing, Owner, Current, HeadSha
<1>3. p \in DOMAIN posts
  BY LenProperties DEF HandInv, CommentsInv
<1>4. CASE posts[p].kind = "receipt"
  <2>1. Said' = Said \cup {posts[p].outcome.state}
    BY <1>1, <1>4 DEF Said, Receipts
  <2>2. /\ posts[p].outcome.state \in {"succeeded", "rejected"}
        /\ operation = "recipe" => (posts[p].outcome.state = "succeeded" <=> runs = 1)
        /\ Standing \in States \ {"accepted"}
    BY <1>3, <1>4, SaidIsTrue
  <2>3. Promise!Say(posts[p].outcome.state)
    BY <1>1, <1>2, <2>1, <2>2
       DEF Promise!Say, Promise!Open, Promise!Outcomes, States, TerminalStates
  <2> QED BY <2>2, <2>3 DEF Promise!Next, Promise!Outcomes
<1>5. CASE posts[p].kind # "receipt"
  <2>1. Said' = Said
    BY <1>1, <1>5 DEF Said, Receipts
  <2> QED BY <1>1, <1>2, <2>1 DEF Promise!vars
<1> QED BY <1>4, <1>5

(* The dispatch is the effect: nothing was said, and nothing is settled.    *)
LEMMA DispatchActs ==
  ASSUME HandInv, EffectInv, EvidenceInv, NEW j \in Jobs, Dispatch(j)
  PROVE  Promise!Act
<1>1. /\ Executor(j) /\ operation = "recipe" /\ runs' = runs + 1
      /\ history' = history /\ operation' = operation
  BY DEF Dispatch, Dispatches, Executor
<1>2. runs = 0 /\ runs' = 1
  BY <1>1 DEF EffectInv
<1>3. ~Refused
  BY <1>1 DEF EffectInv, EffectSpent
<1>4. Receipts = {}
  <2> SUFFICES ASSUME NEW p \in Receipts PROVE FALSE
    OBVIOUS
  <2>1. p \in DOMAIN posts /\ posts[p].kind = "receipt"
    BY DEF Receipts, HandInv, CommentsInv
  <2>2. posts[p].outcome.state = "rejected"
    BY <1>1, <1>2, <2>1, SaidIsTrue
  <2> QED BY <1>3, <2>1, <2>2 DEF Refused
<1>5. Said = {} /\ Said' = Said
  <2>1. Said' = Said
    BY JobsSayNothing DEF Continue
  <2> QED BY <1>4, <2>1 DEF Said
<1>6. Standing' = Standing /\ Owner' = Owner
  BY <1>1 DEF Standing, Owner, Current, HeadSha
<1>7. Standing \in {"executing", "ambiguous"}
  <2>1. job[j].bundle \in Verifiable
    BY <1>1 DEF Executor, HandInv, JobsInv, JobInv, Handling, LaterLabels
  <2>2. Current # NoValue /\ Current.state # "accepted"
    BY <2>1, NoValueAssumption
       DEF Verifiable, Verified, OwnedBy, Bundle, HandInv, HistoryInv
  <2>3. ~StoredState(TerminalStates)
    BY <1>4 DEF EvidenceInv, TerminalIsEvidenced
  <2>4. Current \in Record
    BY <2>2, HeadType DEF HandInv, HistoryInv
  <2> QED BY <2>2, <2>3, <2>4 DEF Standing, StoredState, Record, States
<1> QED BY <1>1, <1>2, <1>5, <1>6, <1>7 DEF Promise!Act, Promise!Open

(* Every other step moves the request in the journal, or nothing; an        *)
(* outcome is one that was said.                                            *)
LEMMA JournalMoves ==
  ASSUME HandInv, HandInv', TerminalIsEvidenced', Advances,
         runs' = runs, operation' = operation, Said' = Said
  PROVE  [Promise!Next]_(Promise!vars)
<1>1. CASE Standing' = Standing /\ Owner' = Owner
  BY <1>1 DEF Promise!vars
<1>2. CASE Standing = "unknown" /\ Standing' = "accepted" /\ Owner' = Owner
  BY <1>2 DEF Promise!Next, Promise!Accept
<1>3. CASE Standing = "accepted" /\ Standing' = "executing" /\ Owner' \in Executions
  <2>1. Promise!Claim(Owner')
    BY <1>3 DEF Promise!Claim
  <2> QED BY <1>3, <2>1 DEF Promise!Next
<1>4. CASE Standing = "executing" /\ Owner' = Owner /\ Standing' = "ambiguous"
  BY <1>4 DEF Promise!Next, Promise!Doubt
<1>5. CASE Standing \in {"executing", "ambiguous"} /\ Owner' = Owner /\ Standing' \in TerminalStates
  <2>1. StoredState(TerminalStates)' /\ Standing' = Current'.state
    BY <1>5 DEF Standing, StoredState, TerminalStates
  <2>2. Standing' \in Said'
    BY <2>1 DEF TerminalIsEvidenced, Said
  <2>3. Promise!Settle(Standing')
    BY <1>5, <2>2 DEF Promise!Settle, Promise!Open
  <2> QED BY <1>5, <2>3 DEF Promise!Next, Promise!Outcomes, TerminalStates
<1> QED BY <1>1, <1>2, <1>3, <1>4, <1>5, StandingMoves

(* The phases implement AbstractRequest, for every policy, where control is *)
(* run once for a granted bundle: one grant, at most one effect and none    *)
(* after something was said of it, true receipts, one outcome that was said.*)
THEOREM RequestRefinement == ~ControlReruns => (PhaseSpec => RequestPromise)
<1> SUFFICES ASSUME ~ControlReruns PROVE PhaseSpec => RequestPromise
  OBVIOUS
<1>1. PhaseInit => Promise!Init
  <2> SUFFICES ASSUME PhaseInit PROVE Promise!Init
    OBVIOUS
  <2>1. Current = NoValue /\ landed = {} /\ runs = 0
    BY DEF PhaseInit, JournalInit, CommentsInit, Current, HeadSha
  <2>2. Standing = "unknown" /\ Owner = NoValue /\ Said = {}
    BY <2>1 DEF Standing, Owner, Said, Receipts
  <2>3. (operation = "recipe") \in BOOLEAN
    OBVIOUS
  <2> QED BY <2>1, <2>2, <2>3 DEF Promise!Init
<1>2. ASSUME HandInv, EffectInv, EvidenceInv, HandInv', EvidenceInv', [PhaseNext]_phaseVars
      PROVE  [Promise!Next]_(Promise!vars)
  <2>1. Advances /\ operation' = operation /\ TerminalIsEvidenced'
    BY <1>2, StepEvolves DEF Evolves, EvidenceInv
  <2>2. CASE \E p \in 1..Len(posts) : Land(p)
    BY <1>2, <2>2, LandingSays
  <2>3. CASE \E j \in Jobs : Begin(j) \/ Continue(j) \/ Fail(j)
    <3>1. PICK j \in Jobs : Begin(j) \/ Continue(j) \/ Fail(j)
      BY <2>3
    <3>2. Said' = Said /\ (runs' = runs \/ Dispatch(j))
      BY <1>2, <3>1, JobsSayNothing
    <3>3. CASE Dispatch(j)
      BY <1>2, <3>3, DispatchActs DEF Promise!Next
    <3> QED BY <1>2, <2>1, <3>2, <3>3, JournalMoves
  <2>4. CASE UNCHANGED phaseVars \/ Others
    <3>1. UNCHANGED <<posts, landed, runs>>
      BY <2>4 DEF phaseVars, Others, commentVars, effectVars
    <3>2. Said' = Said
      BY <3>1 DEF Said, Receipts
    <3> QED BY <1>2, <2>1, <3>1, <3>2, JournalMoves
  <2> QED BY <1>2, <2>2, <2>3, <2>4 DEF PhaseNext
<1>3. PhaseSpec => [](HandInv /\ EffectInv)
  BY EffectInvariant
<1>4. PhaseSpec => []EvidenceInv
  BY HandInit, HandNext, EvidenceInit, EvidenceNext, PTL DEF PhaseSpec
<1> QED BY <1>1, <1>2, <1>3, <1>4, PTL DEF PhaseSpec, RequestPromise, Promise!Spec
===============================================================================
