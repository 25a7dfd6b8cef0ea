--------------------------- MODULE PublicationProofs ---------------------------
(***************************************************************************)
(* Proofs about the publication of a ledger request, for any number of     *)
(* jobs, comments and commits, of the request and of others.               *)
(*                                                                         *)
(* The invariant has three parts beside the first layer of PhasesProofs.   *)
(* PublicationInv: what checkpoints and published comments say is so.      *)
(* TrackInv: no job is on its way to a publication while another is on its *)
(* way to a rejection.  SendInv: only one commit is ever sent.             *)
(***************************************************************************)
EXTENDS LedgerPublication, PhasesProofs

-----------------------------------------------------------------------------
(* What checkpoints and published comments say.                             *)

(* The commits a publication of this candidate may name.                    *)
Candidates == IF changes THEN Commits ELSE {base}

SoundPublications ==
  {c \in [kind : {"publication"}, execution : Executions, bundle : Verifiable,
          commit : Candidates] :
     c.execution = c.bundle.execution /\ owned}

OnBranch(commit) == \E n \in DOMAIN branch : branch[n] = commit

Checkpointed(commit) == \E p \in landed : CheckpointOf(p, commit)

SoundPublished ==
  {c \in [kind : {"published"}, execution : Executions, bundle : Verifiable,
          commit : Candidates] :
     OnBranch(c.commit) /\ Checkpointed(c.commit) /\ owned}

Sound(comment) ==
  /\ comment.kind = "publication" => comment \in SoundPublications
  /\ comment.kind = "published" => comment \in SoundPublished

(* A job on its way to the publication carries what it will say, or the     *)
(* checkpoint it found; one that settles with success the published comment.*)
PublishingJob(j) ==
  /\ pc[j] \in {"ensure", "posted"} => Sound(job[j].comment)
  /\ pc[j] \in {"patch", "readback"} =>
       /\ job[j].number \in landed /\ job[j].comment = posts[job[j].number]
       /\ posts[job[j].number].kind = "publication"
  /\ pc[j] = "settle" /\ job[j].outcome = "succeeded" /\ operation = "ledger" =>
       posts[job[j].number].kind = "published"

(* Control reports on a ledger request without having done anything.        *)
ReportingJob(j) ==
  operation = "ledger" =>
    /\ pc[j] # "dispatched"
    /\ pc[j] = "receipt" => job[j].comment.outcome.state # "succeeded"

BranchInv ==
  /\ branch \in Seq(Commits \cup {base, foreign}) /\ branch # << >>
  /\ patches \subseteq Commits /\ (~changes => patches = {})

PublicationInv ==
  /\ BranchInv
  /\ \A p \in DOMAIN posts :
       /\ Sound(posts[p])
       /\ operation = "ledger" /\ posts[p].kind = "receipt" =>
            posts[p].outcome.state # "succeeded"
  /\ \A j \in Jobs : PublishingJob(j) /\ ReportingJob(j)

-----------------------------------------------------------------------------
(* Publication or rejection.                                                *)

ReceiptSays(state) == \E p \in Receipts : posts[p].outcome.state = state

OnTrack == patches # {} \/ \E j \in Jobs : Publishing(j)

Rejecting ==
  \/ StoredState({"rejected"})
  \/ \E j \in Jobs : pc[j] = "settle" /\ job[j].outcome = "rejected"

TrackInv ==
  /\ OnTrack => ReceiptSays("candidate_ready")
  /\ Rejecting => ReceiptSays("rejected")
  /\ ~(OnTrack /\ Rejecting)

-----------------------------------------------------------------------------
(* The one commit.                                                          *)

(* The commits that were sent, or are about to be.                          *)
Sending == patches \cup {job[j].comment.commit : j \in {k \in Jobs : pc[k] = "patch"}}

SendInv ==
  /\ \A c \in Sending : Checkpointed(c)
  /\ \A b, c \in Sending : b = c

LedgerInv == HandInv /\ PublicationInv /\ TrackInv /\ SendInv /\ SuccessIsPublished

-----------------------------------------------------------------------------
(* The first layer.                                                         *)

(* A job on its way to the publication has a bundle that can be verified.   *)
LEMMA PublishingType ==
  ASSUME HandInv, NEW j \in Jobs, Publishing(j)
  PROVE  /\ job[j] \in Locals(job[j].comment) /\ job[j].bundle \in Verifiable
         /\ job[j].bundle \in Bundle /\ job[j].bundle.execution \in Executions
BY DEF Publishing, HandInv, JobsInv, JobInv, Ensuring, Handling, LaterLabels, Verifiable, Bundle

(* It wants one of the comments of a publication to exist.                  *)
LEMMA EnsurePublication ==
  ASSUME HandInv, Local, NEW j \in Jobs, Publishing(j), NEW c,
         c.kind \in {"publication", "published"}, Ensure(j, job[j], c)
  PROVE  /\ HandInv' /\ OthersStay(j)
         /\ pc'[j] = "ensure" /\ job'[j].comment = c /\ job'[j].bundle = job[j].bundle
<1> DEFINE local == [job[j] EXCEPT !.comment = c]
<1>1. Goto(j, "ensure", local) /\ "ensure" \in AllLabels
  BY DEF Ensure, AllLabels, Labels
<1>2. job[j] \in Locals(job[j].comment) /\ job[j].bundle \in Verifiable
  BY PublishingType
<1>3. local \in Locals(c) /\ local.comment = c /\ local.bundle = job[j].bundle
  BY <1>2 DEF Locals
<1> HIDE DEF local
<1>4. pc'[j] = "ensure" /\ job'[j] = local /\ OthersStay(j)
  BY <1>1, GotoMoves DEF HandInv, OthersStay
<1>5. Verifiable' = Verifiable
  BY VouchersKept DEF Local
<1>6. Ensuring(j)'
  BY <1>2, <1>3, <1>4, <1>5 DEF Ensuring
<1>7. JobInv(j)'
  <2>1. job'[j] \in Locals(job'[j].comment)
    BY <1>3, <1>4
  <2> QED BY <1>4, <1>6, <2>1 DEF JobInv, Preparing, Handling, LaterLabels
<1> QED BY <1>1, <1>3, <1>4, <1>7, LocalStep

(* It goes on with a checkpoint, or with what it had, or gives up.          *)
LEMMA PublishingGoesOn ==
  ASSUME HandInv, Local, NEW j \in Jobs, Publishing(j),
         NEW label \in {"patch", "readback", "mark"}, NEW c, NEW local \in Locals(c),
         local.comment = c, local.bundle = job[j].bundle, Goto(j, label, local)
  PROVE  HandInv' /\ OthersStay(j) /\ pc'[j] = label /\ job'[j] = local
<1>1. label \in LaterLabels \ {"dispatched", "receipt", "settle"}
  BY DEF LaterLabels
<1>2. job[j].bundle \in Verifiable
  BY PublishingType
<1>3. HandInv'
  BY <1>1, <1>2, LaterStep
<1> QED BY <1>3, GotoPlace DEF HandInv, OthersStay

(* A checkpoint that is looked at.                                          *)
LEMMA WithCheckpointType ==
  ASSUME HandInv, NEW j \in Jobs, Publishing(j), NEW p, OnlyCheckpoint(j, p)
  PROVE  /\ p \in landed /\ p \in DOMAIN posts /\ posts[p].kind = "publication"
         /\ posts[p].execution = job[j].bundle.execution
         /\ WithCheckpoint(j, p) \in Locals(posts[p])
         /\ WithCheckpoint(j, p).comment = posts[p] /\ WithCheckpoint(j, p).number = p
         /\ WithCheckpoint(j, p).bundle = job[j].bundle
<1>1. /\ p \in landed /\ p \in DOMAIN posts /\ posts[p].kind = "publication"
      /\ posts[p].execution = job[j].bundle.execution
  BY DEF OnlyCheckpoint, Checkpoints, PublisherComments, HandInv, CommentsInv
<1>2. job[j] \in Locals(job[j].comment) /\ p \in Nat
  BY <1>1, PublishingType, PostNumbers DEF HandInv
<1>3. /\ WithCheckpoint(j, p) \in Locals(posts[p])
      /\ WithCheckpoint(j, p).comment = posts[p] /\ WithCheckpoint(j, p).number = p
      /\ WithCheckpoint(j, p).bundle = job[j].bundle
  BY <1>2 DEF WithCheckpoint, Locals
<1> QED BY <1>1, <1>3

(* Control reports on a candidate.                                          *)
LEMMA ProduceStep ==
  ASSUME HandInv, NEW j \in Jobs, Produce(j)
  PROVE  /\ HandInv' /\ OthersStay(j) /\ pc'[j] = "receipt"
         /\ job'[j].comment.outcome.state \in {"candidate_ready", "rejected"}
<1>1. PICK state \in {"candidate_ready", "rejected"} : PublishReceipt(j, state, 0)
  BY DEF Produce
<1>2. /\ pc[j] \in LaterLabels /\ Local /\ job[j] \in Locals(job[j].comment)
      /\ state \in Results /\ 0 \in Nat
  BY LaterType DEF Produce, LaterLabels, Results
<1>3. HandInv'
  BY <1>1, <1>2, PublishReceiptStep
<1> DEFINE c == Receipt(job[j].bundle, [state |-> state, run |-> 0])
           local == [job[j] EXCEPT !.comment = c]
<1>4. Goto(j, "receipt", local)
  BY <1>1 DEF PublishReceipt
<1>5. local.comment = c /\ c.outcome.state = state
  BY <1>2 DEF Locals, Receipt
<1> HIDE DEF local, c
<1>6. OthersStay(j) /\ pc'[j] = "receipt" /\ job'[j] = local
  BY <1>4, GotoPlace DEF HandInv, OthersStay
<1> QED BY <1>3, <1>5, <1>6

(* Recovery looks at the only checkpoint.                                   *)
LEMMA RecoverStep ==
  ASSUME HandInv, NEW j \in Jobs, Recover(j)
  PROVE  /\ HandInv' /\ OthersStay(j) /\ Publishing(j)
         /\ \E p : /\ OnlyCheckpoint(j, p) /\ pc'[j] = "readback"
                   /\ job'[j] = WithCheckpoint(j, p)
<1>1. PICK p : OnlyCheckpoint(j, p) /\ Goto(j, "readback", WithCheckpoint(j, p))
  BY DEF Recover
<1>2. Publishing(j) /\ Local
  BY DEF Recover, Publishing
<1> QED BY <1>1, <1>2, WithCheckpointType, PublishingGoesOn

(* A commit is built, and a checkpoint wanted that names it.                *)
LEMMA BuildStep ==
  ASSUME HandInv, NEW j \in Jobs, Build(j)
  PROVE  /\ HandInv' /\ OthersStay(j) /\ Publishing(j) /\ pc'[j] = "ensure" /\ owned
         /\ \E commit \in Candidates : job'[j].comment = Publication(job[j].bundle, commit)
<1>1. PICK commit \in Candidates : Ensure(j, job[j], Publication(job[j].bundle, commit))
  BY DEF Build, Candidates
<1>2. Publishing(j) /\ Local /\ owned
  BY DEF Build, Publishing, OwnedBranch
<1>3. Publication(job[j].bundle, commit).kind \in {"publication", "published"}
  BY DEF Publication
<1> QED BY <1>1, <1>2, <1>3, EnsurePublication

(* The checkpoint is on the Issue.                                          *)
LEMMA CheckpointPublicationStep ==
  ASSUME HandInv, NEW j \in Jobs, CheckpointPublication(j)
  PROVE  /\ HandInv' /\ OthersStay(j) /\ Publishing(j)
         /\ \E p : /\ OnlyCheckpoint(j, p) /\ pc'[j] = "patch"
                   /\ job'[j] = WithCheckpoint(j, p)
<1>1. PICK p : OnlyCheckpoint(j, p) /\ Goto(j, "patch", WithCheckpoint(j, p))
  BY DEF CheckpointPublication
<1>2. Publishing(j) /\ Local
  BY DEF CheckpointPublication, Publishing, Ensured
<1> QED BY <1>1, <1>2, WithCheckpointType, PublishingGoesOn

(* The update is sent.                                                      *)
LEMMA PatchStep ==
  ASSUME HandInv, NEW j \in Jobs, Patch(j)
  PROVE  /\ HandInv' /\ OthersStay(j) /\ Publishing(j) /\ pc'[j] = "readback"
         /\ job'[j] = job[j]
<1>1. Publishing(j) /\ Local /\ Goto(j, "readback", job[j])
  BY DEF Patch, Publishing
<1>2. job[j] \in Locals(job[j].comment)
  BY <1>1, PublishingType
<1> QED BY <1>1, <1>2, PublishingGoesOn

(* The effect is there, and to be announced.                                *)
LEMMA ReadBackStep ==
  ASSUME HandInv, NEW j \in Jobs, ReadBackEffect(j)
  PROVE  /\ HandInv' /\ OthersStay(j) /\ Publishing(j) /\ pc'[j] = "ensure"
         /\ job'[j].comment = Published(job[j].bundle, job[j].comment.commit)
<1>1. /\ Publishing(j) /\ Local
      /\ Ensure(j, job[j], Published(job[j].bundle, job[j].comment.commit))
  BY DEF ReadBackEffect, Publishing
<1>2. Published(job[j].bundle, job[j].comment.commit).kind \in {"publication", "published"}
  BY DEF Published
<1> QED BY <1>1, <1>2, EnsurePublication

(* The publication is announced: it is to be settled.                       *)
LEMMA AnnouncedStep ==
  ASSUME HandInv, NEW j \in Jobs, Announced(j)
  PROVE  /\ HandInv' /\ OthersStay(j) /\ Publishing(j) /\ pc'[j] = "settle"
         /\ job'[j].outcome = "succeeded"
         /\ job'[j].number \in DOMAIN posts /\ posts[job'[j].number].kind = "published"
<1>1. PICK p \in Ensured(j, "published") :
        /\ Matching(j) = {p}
        /\ Goto(j, "settle",
                [job[j] EXCEPT !.comment = NoValue, !.outcome = "succeeded", !.number = p])
  BY DEF Announced
<1> DEFINE local == [job[j] EXCEPT !.comment = NoValue, !.outcome = "succeeded", !.number = p]
<1>2. Publishing(j) /\ Local /\ job[j].comment.kind = "published" /\ "settle" \in AllLabels
  BY DEF Announced, Publishing, Ensured, AllLabels, Labels
<1>3. p \in landed /\ p \in DOMAIN posts /\ p \in Nat /\ posts[p].kind = "published"
  BY <1>1, <1>2, PostNumbers DEF Matching, PublisherComments, HandInv, CommentsInv
<1>4. job[j] \in Locals(job[j].comment) /\ job[j].bundle \in Verifiable
  BY <1>2, PublishingType
<1>5. /\ local \in Locals(NoValue) /\ local.comment = NoValue /\ local.bundle = job[j].bundle
      /\ local.outcome = "succeeded" /\ local.number = p
  BY <1>3, <1>4 DEF Locals, Results
<1>6. Goto(j, "settle", local)
  BY <1>1
<1> HIDE DEF local
<1>7. pc'[j] = "settle" /\ job'[j] = local /\ OthersStay(j)
  BY <1>6, GotoPlace DEF HandInv, OthersStay
<1>8. Verifiable' = Verifiable /\ landed' = landed
  BY <1>2, VouchersKept DEF Local, commentVars
<1>9. JobInv(j)'
  <2>1. job'[j] \in Locals(job'[j].comment)
    BY <1>5, <1>7
  <2>2. Handling(j)'
    BY <1>3, <1>4, <1>5, <1>7, <1>8 DEF Handling
  <2> QED BY <1>7, <2>1, <2>2 DEF JobInv, Preparing, Ensuring
<1>10. HandInv'
  BY <1>2, <1>6, <1>9, LocalStep
<1> QED BY <1>2, <1>3, <1>5, <1>7, <1>10

(* The publication fails: the request is to be marked ambiguous.            *)
LEMMA PublishFailsStep ==
  ASSUME HandInv, NEW j \in Jobs, PublishFails(j)
  PROVE  HandInv' /\ OthersStay(j) /\ Publishing(j) /\ pc'[j] = "mark"
<1> DEFINE local == Start(job[j].bundle, NoValue)
<1>1. Publishing(j) /\ Local /\ Goto(j, "mark", local)
  BY DEF PublishFails
<1>2. job[j].bundle \in Bundle
  BY <1>1, PublishingType
<1>3. local \in Locals(NoValue) /\ local.comment = NoValue /\ local.bundle = job[j].bundle
  BY <1>2 DEF Start, Locals
<1> HIDE DEF local
<1> QED BY <1>1, <1>3, PublishingGoesOn

-----------------------------------------------------------------------------
(* Every step, in terms of what the rest of the proof needs to know of it.  *)

(* Where an observation leads, which sees one receipt only.                 *)
LEMMA ObserveResult ==
  ASSUME HandInv, NEW j \in Jobs, Observe(j)
  PROVE  \E p : /\ Receipts = {p} /\ p \in DOMAIN posts /\ posts[p].kind = "receipt"
                /\ \/ pc'[j] = "publish" /\ posts[p].outcome.state = "candidate_ready"
                   \/ /\ pc'[j] = "settle" /\ posts[p].outcome.state # "candidate_ready"
                      /\ job'[j].outcome = posts[p].outcome.state
<1>1. PICK p \in Observed(j) :
        Goto(j, IF posts[p].outcome.state = "candidate_ready" THEN "publish" ELSE "settle",
             [job[j] EXCEPT !.outcome = posts[p].outcome.state, !.number = p])
  BY DEF Observe
<1> DEFINE local == [job[j] EXCEPT !.outcome = posts[p].outcome.state, !.number = p]
<1>2. Receipts = {p} /\ p \in DOMAIN posts /\ posts[p].kind = "receipt"
  BY DEF Observed, Receipts, HandInv, CommentsInv
<1>3. job[j] \in Locals(job[j].comment)
  BY DEF Observe, HandInv, JobsInv, JobInv
<1>4. local.outcome = posts[p].outcome.state
  BY <1>3 DEF Locals
<1>5. \/ posts[p].outcome.state = "candidate_ready" /\ Goto(j, "publish", local)
      \/ posts[p].outcome.state # "candidate_ready" /\ Goto(j, "settle", local)
  BY <1>1
<1> HIDE DEF local
<1>6. \/ posts[p].outcome.state = "candidate_ready" /\ pc'[j] = "publish"
      \/ posts[p].outcome.state # "candidate_ready" /\ pc'[j] = "settle" /\ job'[j] = local
  BY <1>5, GotoPlace DEF HandInv
<1> QED BY <1>2, <1>4, <1>6

(* A job's step of the publication leaves journal and comments alone.       *)
LEMMA LedgerStepFrame ==
  ASSUME HandInv, NEW j \in Jobs, LedgerStep(j)
  PROVE  /\ HandInv' /\ OthersStay(j) /\ Evolves /\ Current' = Current
         /\ posts' = posts /\ landed' = landed /\ branch' = branch
         /\ changes' = changes /\ owned' = owned
<1>1. /\ Local /\ branch' = branch /\ changes' = changes /\ owned' = owned
  BY DEF LedgerStep, Produce, Recover, Build, CheckpointPublication, Patch, ReadBackEffect,
         Announced, PublishFails, ledgerVars
<1>2. HandInv' /\ OthersStay(j)
  BY ProduceStep, RecoverStep, BuildStep, CheckpointPublicationStep, PatchStep, ReadBackStep,
     AnnouncedStep, PublishFailsStep DEF LedgerStep
<1>3. Evolves /\ Current' = Current
  <2>1. runs <= runs
    BY PhaseAssumption DEF HandInv, SharedInv
  <2> QED BY <1>1, <2>1 DEF Local, Evolves, Advances, Current, HeadSha, commentVars, effectVars
<1> QED BY <1>1, <1>2, <1>3 DEF Local, commentVars

(* What every step keeps.                                                   *)
Keeps ==
  /\ Evolves
  /\ \A p \in DOMAIN posts : p \in DOMAIN posts' /\ posts'[p] = posts[p]
  /\ \A n \in DOMAIN branch : n \in DOMAIN branch' /\ branch'[n] = branch[n]
  /\ changes' = changes /\ owned' = owned

(* An appended commit keeps those before it.                                *)
LEMMA AppendCommit ==
  ASSUME BranchInv, NEW c \in Commits \cup {base, foreign}, branch' = Append(branch, c)
  PROVE  /\ \A n \in DOMAIN branch : n \in DOMAIN branch' /\ branch'[n] = branch[n]
         /\ branch' \in Seq(Commits \cup {base, foreign}) /\ branch' # << >>
<1>1. branch \in Seq(Commits \cup {base, foreign})
  BY DEF BranchInv
<1>2. /\ branch' \in Seq(Commits \cup {base, foreign}) /\ branch' # << >>
      /\ Len(branch') = Len(branch) + 1
      /\ \A n \in 1..Len(branch) : branch'[n] = branch[n]
  BY <1>1, AppendProperties
<1>3. Len(branch) \in Nat /\ DOMAIN branch = 1..Len(branch) /\ DOMAIN branch' = 1..Len(branch')
  BY <1>1, <1>2, LenProperties
<1> QED BY <1>2, <1>3

(* The branch moves.                                                        *)
BranchStep == (\E commit \in patches : ApplyPatch(commit)) \/ Foreign

(* Every step is one of these, and keeps the first layer and what is there. *)
LEMMA NextKeeps ==
  ASSUME HandInv, PublicationInv, [Next]_vars
  PROVE  /\ HandInv' /\ Keeps /\ BranchInv'
         /\ \/ \E j \in Jobs : (Begin(j) \/ Continue(j) \/ Fail(j)) /\ UNCHANGED ledgerVars
            \/ \E j \in Jobs : LedgerStep(j)
            \/ UNCHANGED <<jobVars, posts, patches, operation>> /\ Current' = Current
<1> USE DEF PublicationInv
<1>1. ASSUME NEW j \in Jobs, Begin(j) \/ Continue(j) \/ Fail(j), UNCHANGED ledgerVars
      PROVE  HandInv' /\ Keeps /\ BranchInv'
  <2>1. HandInv' /\ Evolves
    BY <1>1, HandNext, StepEvolves DEF PhaseNext
  <2> QED BY <1>1, <2>1, Posted DEF Keeps, ledgerVars, BranchInv
<1>2. ASSUME NEW j \in Jobs, LedgerStep(j)
      PROVE  HandInv' /\ Keeps /\ BranchInv'
  <2>1. HandInv' /\ Keeps
    BY <1>2, LedgerStepFrame DEF Keeps
  <2>2. patches' \subseteq Commits /\ (~changes => patches' = {})
    <3>1. CASE Patch(j)
      <4>1. job[j].comment \in SoundPublications
        BY <3>1 DEF Patch, PublishingJob, Sound, HandInv, CommentsInv
      <4>2. changes => job[j].comment.commit \in Commits
        BY <4>1 DEF SoundPublications, Candidates
      <4> QED BY <3>1, <4>2 DEF Patch, BranchInv
    <3>2. CASE ~Patch(j)
      <4>1. patches' = patches
        BY <1>2, <3>2
           DEF LedgerStep, Produce, Recover, Build, CheckpointPublication, ReadBackEffect,
             Announced, PublishFails, ledgerVars
      <4> QED BY <4>1 DEF BranchInv
    <3> QED BY <3>1, <3>2
  <2>3. branch' = branch /\ changes' = changes
    BY <1>2, LedgerStepFrame
  <2> QED BY <2>1, <2>2, <2>3 DEF BranchInv
<1>3. ASSUME UNCHANGED phaseVars, UNCHANGED <<changes, owned, patches>>,
             \/ branch' = branch
             \/ \E c \in Commits \cup {base, foreign} : branch' = Append(branch, c)
      PROVE  /\ HandInv' /\ Keeps /\ BranchInv'
             /\ UNCHANGED <<jobVars, posts, patches, operation>> /\ Current' = Current
  <2>1. HandInv' /\ Evolves
    BY <1>3, HandNext, StepEvolves
  <2>2. UNCHANGED <<jobVars, posts, operation>> /\ Current' = Current
    BY <1>3 DEF phaseVars, commentVars, effectVars, Current, HeadSha
  <2>3. \A n \in DOMAIN branch : n \in DOMAIN branch' /\ branch'[n] = branch[n]
    BY <1>3, AppendCommit
  <2>4. BranchInv'
    BY <1>3, AppendCommit DEF BranchInv
  <2> QED BY <1>3, <2>1, <2>2, <2>3, <2>4 DEF Keeps
<1>4. CASE BranchStep
  BY <1>3, <1>4 DEF BranchStep, ApplyPatch, Foreign, BranchInv
<1>5. CASE UNCHANGED vars
  BY <1>3, <1>5 DEF vars, ledgerVars
<1>6. ASSUME Others \/ \E p \in 1..Len(posts) : Land(p), UNCHANGED ledgerVars
      PROVE  /\ HandInv' /\ Keeps /\ BranchInv'
             /\ UNCHANGED <<jobVars, posts, patches, operation>> /\ Current' = Current
  <2>1. HandInv' /\ Evolves
    BY <1>6, OthersStep, LandStep
  <2>2. UNCHANGED <<jobVars, posts, operation>>
    BY <1>6 DEF Others, Land, LandComment, commentVars, effectVars
  <2>3. Current' = Current
    <3>1. CASE Others
      BY <3>1, OthersStep
    <3>2. CASE \E p \in 1..Len(posts) : Land(p)
      BY <3>2 DEF Land, Current, HeadSha
    <3> QED BY <1>6, <3>1, <3>2
  <2> QED BY <1>6, <2>1, <2>2, <2>3 DEF Keeps, ledgerVars, BranchInv
<1> QED
  BY <1>1, <1>2, <1>4, <1>5, <1>6 DEF Next, PhaseNext, BranchStep

-----------------------------------------------------------------------------
(* What checkpoints and published comments say.                             *)

(* What may be said may be said for ever.                                   *)
LEMMA SoundGrows ==
  ASSUME HandInv, Keeps
  PROVE  /\ SoundPublications \subseteq SoundPublications'
         /\ SoundPublished \subseteq SoundPublished'
         /\ \A c : Checkpointed(c) =>
              \E p \in landed' : posts'[p].kind = "publication" /\ posts'[p].commit = c
<1>1. Verifiable \subseteq Verifiable' /\ landed \subseteq landed' /\ landed \subseteq DOMAIN posts
  BY VouchersGrow DEF HandInv, CommentsInv, Keeps, Evolves
<1>2. Candidates' = Candidates /\ owned' = owned
  BY DEF Keeps, Candidates
<1>3. \A c : Checkpointed(c) =>
        \E p \in landed' : posts'[p].kind = "publication" /\ posts'[p].commit = c
  BY <1>1 DEF Keeps, Checkpointed, CheckpointOf
<1>4. \A c : OnBranch(c) => \E n \in DOMAIN branch' : branch'[n] = c
  BY DEF OnBranch, Keeps
<1>5. SoundPublications \subseteq SoundPublications'
  BY <1>1, <1>2 DEF SoundPublications
<1>6. SoundPublished \subseteq SoundPublished'
  BY <1>1, <1>2, <1>3, <1>4 DEF SoundPublished, OnBranch, Checkpointed, CheckpointOf
<1> QED BY <1>3, <1>5, <1>6

(* It is enough to look at the job that moved and at what it posted.        *)
LEMMA PublicationStep ==
  ASSUME HandInv, PublicationInv, Keeps, BranchInv', NEW j \in Jobs, OthersStay(j),
         PublishingJob(j)' /\ ReportingJob(j)',
         \A p \in DOMAIN posts' :
           \/ p \in DOMAIN posts
           \/ posts'[p] = job[j].comment /\ pc[j] \in {"ensure", "posted", "receipt"}
  PROVE  PublicationInv'
<1>1. /\ SoundPublications \subseteq SoundPublications'
      /\ SoundPublished \subseteq SoundPublished'
  BY SoundGrows
<1>2. /\ operation' = operation /\ landed \subseteq landed' /\ landed \subseteq DOMAIN posts
      /\ \A p \in DOMAIN posts : p \in DOMAIN posts' /\ posts'[p] = posts[p]
  BY DEF Keeps, Evolves, HandInv, CommentsInv
<1>3. ASSUME pc[j] = "receipt" PROVE job[j].comment.kind = "receipt"
  <2>1. PICK o : job[j].comment = Receipt(job[j].bundle, o)
    BY <1>3 DEF HandInv, JobsInv, JobInv, Handling
  <2> QED BY <2>1 DEF Receipt
<1>4. pc[j] \in {"ensure", "posted"} => job[j].comment.kind # "receipt"
  BY DEF HandInv, JobsInv, JobInv, Ensuring
<1>5. ASSUME NEW p \in DOMAIN posts'
      PROVE  /\ Sound(posts[p])'
             /\ operation' = "ledger" /\ posts'[p].kind = "receipt" =>
                  posts'[p].outcome.state # "succeeded"
  <2>1. CASE p \in DOMAIN posts
    BY <1>1, <1>2, <2>1 DEF PublicationInv, Sound
  <2>2. CASE posts'[p] = job[j].comment /\ pc[j] \in {"ensure", "posted"}
    BY <1>1, <1>4, <2>2 DEF PublicationInv, PublishingJob, Sound
  <2>3. CASE posts'[p] = job[j].comment /\ pc[j] = "receipt"
    BY <1>2, <1>3, <2>3 DEF PublicationInv, ReportingJob, Sound
  <2> QED BY <2>1, <2>2, <2>3
<1>6. ASSUME NEW k \in Jobs, k # j PROVE PublishingJob(k)' /\ ReportingJob(k)'
  <2>1. /\ pc'[k] = pc[k] /\ job'[k] = job[k] /\ PublishingJob(k) /\ ReportingJob(k)
    BY <1>6 DEF OthersStay, PublicationInv
  <2>2. pc[k] \in {"ensure", "posted"} => Sound(job[k].comment)'
    BY <1>1, <2>1 DEF PublishingJob, Sound
  <2>3. pc[k] = "settle" => job[k].number \in DOMAIN posts
    BY <1>2 DEF HandInv, JobsInv, JobInv, Handling
  <2>4. PublishingJob(k)'
    BY <1>2, <2>1, <2>2, <2>3 DEF PublishingJob
  <2>5. ReportingJob(k)'
    BY <1>2, <2>1 DEF ReportingJob
  <2> QED BY <2>4, <2>5
<1> QED BY <1>5, <1>6 DEF PublicationInv

(* A step of the phases: what it comes to want to say, it may say.          *)
LEMMA PhaseJob ==
  ASSUME HandInv, PublicationInv, Keeps, NEW j \in Jobs, Begin(j) \/ Continue(j) \/ Fail(j)
  PROVE  PublishingJob(j)' /\ ReportingJob(j)'
<1>1. /\ SoundPublications \subseteq SoundPublications'
      /\ SoundPublished \subseteq SoundPublished'
      /\ operation' = operation
  BY SoundGrows DEF Keeps, Evolves
<1>2. pc'[j] \in {"ensure", "posted"} => Sound(job[j].comment)'
  <2>1. CASE job'[j].comment.kind \in {"intent", "prepare"}
    BY <2>1 DEF Sound
  <2>2. CASE pc[j] = "ensure" /\ job'[j].comment = job[j].comment
    BY <1>1, <2>2 DEF PublicationInv, PublishingJob, Sound
  <2> QED BY <2>1, <2>2, EnsuringStep
<1>3. CASE Deciding(j)
  <2>1. /\ pc'[j] = "receipt"
        /\ operation = "ledger" /\ job'[j].comment.outcome.state = "succeeded"
             => pc[j] = "dispatched"
    BY <1>3, Decided
  <2> QED BY <1>1, <2>1 DEF PublishingJob, ReportingJob, PublicationInv
<1>4. CASE Observe(j)
  <2>1. PICK p : /\ Receipts = {p} /\ p \in DOMAIN posts /\ posts[p].kind = "receipt"
                 /\ \/ pc'[j] = "publish" /\ posts[p].outcome.state = "candidate_ready"
                    \/ /\ pc'[j] = "settle" /\ posts[p].outcome.state # "candidate_ready"
                       /\ job'[j].outcome = posts[p].outcome.state
    BY <1>4, ObserveResult
  <2>2. operation = "ledger" => posts[p].outcome.state # "succeeded"
    BY <2>1 DEF PublicationInv
  <2> QED BY <1>1, <2>1, <2>2 DEF PublishingJob, ReportingJob
<1>5. CASE ~Deciding(j) /\ ~Observe(j)
  <2>1. pc'[j] \in PlainLabels /\ (pc'[j] = "dispatched" => Dispatch(j))
    BY <1>5, PlainStep
  <2>2. operation = "ledger" => pc'[j] # "dispatched"
    BY <2>1 DEF Dispatch, Dispatches
  <2> QED BY <1>1, <1>2, <2>1, <2>2 DEF PublishingJob, ReportingJob, PlainLabels, Labels
<1> QED BY <1>3, <1>4, <1>5

(* A step of the publication: likewise.                                     *)
LEMMA LedgerJob ==
  ASSUME HandInv, PublicationInv, Keeps, NEW j \in Jobs, LedgerStep(j)
  PROVE  PublishingJob(j)' /\ ReportingJob(j)'
<1>1. /\ SoundPublications \subseteq SoundPublications'
      /\ SoundPublished \subseteq SoundPublished'
      /\ posts' = posts /\ landed' = landed
  BY SoundGrows, LedgerStepFrame
<1>2. ASSUME Publishing(j)
      PROVE  /\ job[j].bundle \in Verifiable /\ job[j].bundle.execution \in Executions
  BY <1>2, PublishingType
<1>3. CASE Produce(j)
  <2>1. pc'[j] = "receipt" /\ job'[j].comment.outcome.state \in {"candidate_ready", "rejected"}
    BY <1>3, ProduceStep
  <2> QED BY <2>1 DEF PublishingJob, ReportingJob
<1>4. ASSUME NEW p, OnlyCheckpoint(j, p), Publishing(j), pc'[j] \in {"patch", "readback"},
             job'[j] = WithCheckpoint(j, p)
      PROVE  PublishingJob(j)' /\ ReportingJob(j)'
  <2>1. /\ p \in landed /\ posts[p].kind = "publication"
        /\ job'[j].comment = posts[p] /\ job'[j].number = p
    BY <1>4, WithCheckpointType
  <2> QED BY <1>1, <1>4, <2>1 DEF PublishingJob, ReportingJob
<1>5. CASE Recover(j) \/ CheckpointPublication(j)
  BY <1>4, <1>5, RecoverStep, CheckpointPublicationStep
<1>6. CASE Build(j)
  <2>1. /\ Publishing(j) /\ pc'[j] = "ensure" /\ owned
        /\ \E commit \in Candidates : job'[j].comment = Publication(job[j].bundle, commit)
    BY <1>6, BuildStep
  <2>2. PICK commit \in Candidates : job'[j].comment = Publication(job[j].bundle, commit)
    BY <2>1
  <2>3. job'[j].comment.kind = "publication" /\ job'[j].comment \in SoundPublications
    BY <1>2, <2>1, <2>2 DEF Publication, SoundPublications
  <2>4. Sound(job[j].comment)'
    BY <1>1, <2>3 DEF Sound
  <2> QED BY <2>1, <2>4 DEF PublishingJob, ReportingJob
<1>7. CASE Patch(j)
  <2>1. pc[j] = "patch" /\ pc'[j] = "readback" /\ job'[j] = job[j]
    BY <1>7, PatchStep DEF Patch
  <2> QED BY <1>1, <2>1 DEF PublicationInv, PublishingJob, ReportingJob
<1>8. CASE ReadBackEffect(j)
  <2> DEFINE c == job[j].comment.commit
  <2>1. /\ Publishing(j) /\ pc'[j] = "ensure" /\ pc[j] = "readback" /\ BranchHead = c
        /\ job'[j].comment = Published(job[j].bundle, c)
    BY <1>8, ReadBackStep DEF ReadBackEffect
  <2>2. /\ job[j].number \in landed /\ job[j].comment = posts[job[j].number]
        /\ posts[job[j].number].kind = "publication" /\ job[j].number \in DOMAIN posts
    BY <2>1 DEF PublicationInv, PublishingJob, HandInv, CommentsInv
  <2>3. job[j].comment \in SoundPublications
    BY <2>2 DEF PublicationInv, Sound
  <2>4. c \in Candidates /\ owned /\ Checkpointed(c)
    BY <2>2, <2>3 DEF SoundPublications, Checkpointed, CheckpointOf
  <2>5. OnBranch(c)
    <3>1. Len(branch) \in DOMAIN branch
      BY EmptySeq, LenProperties DEF PublicationInv, BranchInv
    <3> QED BY <2>1, <3>1 DEF OnBranch, BranchHead
  <2> HIDE DEF c
  <2>6. job'[j].comment.kind = "published" /\ job'[j].comment \in SoundPublished
    BY <1>2, <2>1, <2>4, <2>5 DEF Published, SoundPublished
  <2>7. Sound(job[j].comment)'
    BY <1>1, <2>6 DEF Sound
  <2> QED BY <2>1, <2>7 DEF PublishingJob, ReportingJob
<1>9. CASE Announced(j)
  <2>1. /\ pc'[j] = "settle" /\ posts[job'[j].number].kind = "published"
    BY <1>9, AnnouncedStep
  <2> QED BY <1>1, <2>1 DEF PublishingJob, ReportingJob
<1>10. CASE PublishFails(j)
  BY <1>10, PublishFailsStep DEF PublishingJob, ReportingJob
<1> QED BY <1>3, <1>5, <1>6, <1>7, <1>8, <1>9, <1>10 DEF LedgerStep

(* Where no job moves and nothing is posted, nothing is to be said.         *)
LEMMA PublicationElsewhere ==
  ASSUME HandInv, PublicationInv, Keeps, BranchInv', UNCHANGED <<jobVars, posts>>
  PROVE  PublicationInv'
<1>1. /\ SoundPublications \subseteq SoundPublications'
      /\ SoundPublished \subseteq SoundPublished'
      /\ operation' = operation /\ landed \subseteq landed'
      /\ pc' = pc /\ job' = job /\ posts' = posts
  BY SoundGrows DEF Keeps, Evolves, jobVars
<1>2. \A p \in DOMAIN posts : Sound(posts[p])'
  BY <1>1 DEF PublicationInv, Sound
<1>3. \A k \in Jobs : pc[k] \in {"ensure", "posted"} => Sound(job[k].comment)'
  BY <1>1 DEF PublicationInv, PublishingJob, Sound
<1>4. \A k \in Jobs : PublishingJob(k)' /\ ReportingJob(k)'
  BY <1>1, <1>3 DEF PublicationInv, PublishingJob, ReportingJob
<1> QED BY <1>1, <1>2, <1>4 DEF PublicationInv

(* Every step keeps what comments say true.                                 *)
LEMMA PublicationNext == HandInv /\ PublicationInv /\ [Next]_vars => PublicationInv'
<1> SUFFICES ASSUME HandInv, PublicationInv, [Next]_vars PROVE PublicationInv'
  OBVIOUS
<1>1. HandInv' /\ Keeps /\ BranchInv'
  BY NextKeeps
<1>2. ASSUME NEW j \in Jobs, Begin(j) \/ Continue(j) \/ Fail(j) PROVE PublicationInv'
  <2>1. OthersStay(j)
    BY <1>2, GrantedStep, ClaimGrants
  <2>2. PublishingJob(j)' /\ ReportingJob(j)'
    BY <1>1, <1>2, PhaseJob
  <2> QED BY <1>1, <1>2, <2>1, <2>2, Posted, PublicationStep
<1>3. ASSUME NEW j \in Jobs, LedgerStep(j) PROVE PublicationInv'
  <2>1. OthersStay(j) /\ posts' = posts
    BY <1>3, LedgerStepFrame
  <2>2. PublishingJob(j)' /\ ReportingJob(j)'
    BY <1>1, <1>3, LedgerJob
  <2> QED BY <1>1, <1>3, <2>1, <2>2, PublicationStep
<1> QED BY <1>1, <1>2, <1>3, NextKeeps, PublicationElsewhere

-----------------------------------------------------------------------------
(* Publication or rejection.                                                *)

(* A receipt that was seen goes on saying what it says.                     *)
LEMMA ReceiptsStay ==
  ASSUME HandInv, Keeps, NEW state, ReceiptSays(state)
  PROVE  ReceiptSays(state)'
<1>1. PICK p \in Receipts : posts[p].outcome.state = state
  BY DEF ReceiptSays
<1>2. p \in DOMAIN posts /\ posts'[p] = posts[p] /\ p \in landed' /\ posts[p].kind = "receipt"
  BY <1>1 DEF Receipts, HandInv, CommentsInv, Keeps, Evolves
<1> QED BY <1>1, <1>2 DEF ReceiptSays, Receipts

(* Where a step of the phases leaves the job that takes it.                 *)
LEMMA PhasePlace ==
  ASSUME HandInv, NEW j \in Jobs, Begin(j) \/ Continue(j) \/ Fail(j)
  PROVE  /\ pc'[j] \notin {"patch", "readback"}
         /\ Publishing(j)' => Publishing(j) \/ (Observe(j) /\ pc'[j] = "publish")
         /\ pc'[j] = "settle" => Observe(j)
<1>1. CASE Deciding(j)
  <2>1. pc'[j] = "receipt"
    BY <1>1, Decided
  <2> QED BY <2>1 DEF Publishing
<1>2. CASE Observe(j)
  <2>1. pc'[j] \in {"publish", "settle"}
    BY <1>2, ObserveResult
  <2> QED BY <1>2, <2>1 DEF Publishing
<1>3. CASE ~Deciding(j) /\ ~Observe(j)
  <2>1. pc'[j] \in PlainLabels
    BY <1>3, PlainStep
  <2>2. pc'[j] \notin {"publish", "patch", "readback", "settle"}
    BY <2>1 DEF PlainLabels, Labels
  <2>3. ASSUME Publishing(j)' PROVE Publishing(j)
    <3>1. /\ pc'[j] \in {"ensure", "posted"}
          /\ job'[j].comment.kind \in {"publication", "published"}
      BY <2>2, <2>3 DEF Publishing
    <3>2. pc[j] = "ensure" /\ job'[j].comment = job[j].comment
      BY <3>1, EnsuringStep
    <3> QED BY <3>1, <3>2 DEF Publishing
  <2> QED BY <2>2, <2>3
<1> QED BY <1>1, <1>2, <1>3

(* Where a step of the publication leaves it; all but Control's are taken   *)
(* on the way to the publication.                                           *)
LEMMA LedgerPlace ==
  ASSUME HandInv, NEW j \in Jobs, LedgerStep(j)
  PROVE  /\ Publishing(j) \/ (pc'[j] = "receipt" /\ patches' = patches)
         /\ pc'[j] = "settle" => job'[j].outcome = "succeeded"
         /\ \/ /\ CheckpointPublication(j) /\ patches' = patches
               /\ \E p : OnlyCheckpoint(j, p) /\ job'[j] = WithCheckpoint(j, p)
            \/ pc'[j] # "patch" /\ patches' = patches
            \/ /\ pc[j] = "patch" /\ pc'[j] # "patch"
               /\ patches' \subseteq patches \cup {job[j].comment.commit}
<1>1. CASE Produce(j)
  BY <1>1, ProduceStep DEF Produce, ledgerVars
<1>2. CASE Recover(j)
  BY <1>2, RecoverStep DEF Recover, ledgerVars
<1>3. CASE Build(j)
  BY <1>3, BuildStep DEF Build, ledgerVars
<1>4. CASE CheckpointPublication(j)
  BY <1>4, CheckpointPublicationStep DEF CheckpointPublication, ledgerVars
<1>5. CASE Patch(j)
  BY <1>5, PatchStep DEF Patch
<1>6. CASE ReadBackEffect(j)
  BY <1>6, ReadBackStep DEF ReadBackEffect, ledgerVars
<1>7. CASE Announced(j)
  BY <1>7, AnnouncedStep DEF Announced, ledgerVars
<1>8. CASE PublishFails(j)
  BY <1>8, PublishFailsStep DEF PublishFails, ledgerVars
<1> QED BY <1>1, <1>2, <1>3, <1>4, <1>5, <1>6, <1>7, <1>8 DEF LedgerStep

(* A publication starts with the observation of a candidate.                *)
LEMMA TrackStarts ==
  ASSUME HandInv, PublicationInv, [Next]_vars, OnTrack'
  PROVE  OnTrack \/ \E j \in Jobs : Observe(j) /\ pc'[j] = "publish"
<1>1. ASSUME NEW j \in Jobs, Begin(j) \/ Continue(j) \/ Fail(j), UNCHANGED ledgerVars
      PROVE  OnTrack \/ \E k \in Jobs : Observe(k) /\ pc'[k] = "publish"
  <2>1. OthersStay(j) /\ patches' = patches
    BY <1>1, GrantedStep, ClaimGrants DEF ledgerVars
  <2>2. Publishing(j)' => Publishing(j) \/ (Observe(j) /\ pc'[j] = "publish")
    BY <1>1, PhasePlace
  <2>3. \A k \in Jobs : k # j /\ Publishing(k)' => Publishing(k)
    BY <2>1 DEF OthersStay, Publishing
  <2> QED BY <2>1, <2>2, <2>3 DEF OnTrack
<1>2. ASSUME NEW j \in Jobs, LedgerStep(j) PROVE OnTrack
  <2>1. OthersStay(j)
    BY <1>2, LedgerStepFrame
  <2>2. Publishing(j) \/ (pc'[j] = "receipt" /\ patches' = patches)
    BY <1>2, LedgerPlace
  <2>3. \A k \in Jobs : k # j /\ Publishing(k)' => Publishing(k)
    BY <2>1 DEF OthersStay, Publishing
  <2> QED BY <2>2, <2>3 DEF OnTrack, Publishing
<1>3. CASE UNCHANGED <<jobVars, posts, patches, operation>>
  BY <1>3 DEF OnTrack, Publishing, jobVars
<1> QED BY <1>1, <1>2, <1>3, NextKeeps

(* What is recorded was about to be recorded.                               *)
LEMMA StoredBefore ==
  ASSUME HandInv, PublicationInv, [Next]_vars, NEW state \in {"succeeded", "rejected"},
         StoredState({state})'
  PROVE  \/ Current' = Current /\ StoredState({state})
         \/ \E j \in Jobs : /\ SettleNow(j) /\ UNCHANGED ledgerVars
                            /\ pc[j] = "settle" /\ job[j].outcome = state
<1>1. CASE Current' = Current
  BY <1>1 DEF StoredState
<1>2. ASSUME NEW j \in Jobs, Begin(j) \/ Continue(j) \/ Fail(j), UNCHANGED ledgerVars,
             Current' # Current
      PROVE  \E k \in Jobs : /\ SettleNow(k) /\ UNCHANGED ledgerVars
                             /\ pc[k] = "settle" /\ job[k].outcome = state
  <2>1. \E k \in Jobs : SettleNow(k)
    BY <1>2, StepEvolves DEF PhaseNext, StoredState
  <2> QED BY <1>2, <2>1, SettlesRecord DEF SettleNow, StoredState
<1>3. ASSUME NEW j \in Jobs, LedgerStep(j) PROVE Current' = Current
  BY <1>3, LedgerStepFrame
<1> QED BY <1>1, <1>2, <1>3, NextKeeps

(* A rejection starts with the observation of one.                          *)
LEMMA RejectionStarts ==
  ASSUME HandInv, PublicationInv, [Next]_vars, Rejecting'
  PROVE  \/ Rejecting
         \/ \E j \in Jobs : Observe(j) /\ pc'[j] = "settle" /\ job'[j].outcome = "rejected"
<1>1. StoredState({"rejected"})' => Rejecting
  BY StoredBefore DEF Rejecting
<1>2. ASSUME NEW k \in Jobs, pc'[k] = "settle", job'[k].outcome = "rejected"
      PROVE  Rejecting \/ Observe(k)
  <2>1. ASSUME NEW j \in Jobs, Begin(j) \/ Continue(j) \/ Fail(j) PROVE Rejecting \/ Observe(k)
    <3>1. OthersStay(j)
      BY <2>1, GrantedStep, ClaimGrants
    <3>2. CASE k = j
      BY <1>2, <2>1, <3>2, PhasePlace
    <3>3. CASE k # j
      BY <1>2, <3>1, <3>3 DEF OthersStay, Rejecting
    <3> QED BY <3>2, <3>3
  <2>2. ASSUME NEW j \in Jobs, LedgerStep(j) PROVE Rejecting
    <3>1. OthersStay(j) /\ (pc'[j] = "settle" => job'[j].outcome = "succeeded")
      BY <2>2, LedgerStepFrame, LedgerPlace
    <3>2. k # j
      BY <1>2, <3>1
    <3> QED BY <1>2, <3>1, <3>2 DEF OthersStay, Rejecting
  <2>3. CASE UNCHANGED <<jobVars, posts, patches, operation>>
    BY <1>2, <2>3 DEF Rejecting, jobVars
  <2> QED BY <2>1, <2>2, <2>3, NextKeeps
<1> QED BY <1>1, <1>2 DEF Rejecting

(* Every step keeps publication and rejection apart: who starts either has  *)
(* seen the only receipt there is.                                          *)
LEMMA TrackNext == HandInv /\ PublicationInv /\ TrackInv /\ [Next]_vars => TrackInv'
<1> SUFFICES ASSUME HandInv, PublicationInv, TrackInv, [Next]_vars PROVE TrackInv'
  OBVIOUS
<1>1. /\ ReceiptSays("candidate_ready") => ReceiptSays("candidate_ready")'
      /\ ReceiptSays("rejected") => ReceiptSays("rejected")'
  BY NextKeeps, ReceiptsStay
<1>2. ASSUME NEW j \in Jobs, Observe(j), pc'[j] = "publish"
      PROVE  ReceiptSays("candidate_ready") /\ ~Rejecting
  <2>1. PICK p : Receipts = {p} /\ posts[p].outcome.state = "candidate_ready"
    BY <1>2, ObserveResult
  <2> QED BY <2>1 DEF ReceiptSays, TrackInv
<1>3. ASSUME NEW j \in Jobs, Observe(j), pc'[j] = "settle", job'[j].outcome = "rejected"
      PROVE  ReceiptSays("rejected") /\ ~OnTrack
  <2>1. PICK p : Receipts = {p} /\ posts[p].outcome.state = "rejected"
    BY <1>3, ObserveResult
  <2> QED BY <2>1 DEF ReceiptSays, TrackInv
<1>4. OnTrack' => ReceiptSays("candidate_ready")'
  BY <1>1, <1>2, TrackStarts DEF TrackInv
<1>5. Rejecting' => ReceiptSays("rejected")'
  BY <1>1, <1>3, RejectionStarts DEF TrackInv
<1>6. ASSUME OnTrack', Rejecting' PROVE FALSE
  <2>1. CASE OnTrack
    <3>1. ~Rejecting
      BY <2>1 DEF TrackInv
    <3> QED BY <1>3, <1>6, <2>1, <3>1, RejectionStarts
  <2>2. ASSUME ~OnTrack PROVE FALSE
    <3>1. PICK j \in Jobs : Observe(j) /\ pc'[j] = "publish"
      BY <1>6, <2>2, TrackStarts
    <3>2. ~Rejecting
      BY <1>2, <3>1
    <3>3. PICK k \in Jobs : Observe(k) /\ pc'[k] = "settle" /\ job'[k].outcome = "rejected"
      BY <1>6, <3>2, RejectionStarts
    <3>4. ReceiptSays("candidate_ready") /\ ReceiptSays("rejected") /\ \E p : Receipts = {p}
      BY <1>2, <1>3, <3>1, <3>3, ObserveResult
    <3> QED BY <3>4 DEF ReceiptSays
  <2> QED BY <2>1, <2>2
<1> QED BY <1>4, <1>5, <1>6 DEF TrackInv

-----------------------------------------------------------------------------
(* The one commit.                                                          *)

(* The only checkpoint of the owner's execution is the only one there is.   *)
LEMMA OneCheckpoint ==
  ASSUME HandInv, PublicationInv, NEW j \in Jobs, Publishing(j), NEW p, OnlyCheckpoint(j, p),
         NEW q \in landed, posts[q].kind = "publication"
  PROVE  q = p
<1>1. q \in DOMAIN posts
  BY DEF HandInv, CommentsInv
<1>2. posts[q] \in SoundPublications
  BY <1>1 DEF PublicationInv, Sound
<1>3. posts[q].execution = posts[q].bundle.execution /\ OwnedBy(posts[q].bundle.execution)
  BY <1>2 DEF SoundPublications, Verifiable
<1>4. OwnedBy(job[j].bundle.execution)
  BY PublishingType DEF Verifiable
<1>5. posts[q].execution = job[j].bundle.execution
  BY <1>3, <1>4 DEF OwnedBy
<1>6. q \in Checkpoints(j)
  BY <1>5 DEF Checkpoints, PublisherComments
<1> QED BY <1>6 DEF OnlyCheckpoint

(* What is sent was about to be sent, or is what the only checkpoint names. *)
LEMMA SendStarts ==
  ASSUME HandInv, PublicationInv, [Next]_vars, NEW c \in Sending'
  PROVE  \/ c \in Sending
         \/ \E j \in Jobs, p \in landed :
              Publishing(j) /\ OnlyCheckpoint(j, p) /\ c = posts[p].commit
<1>1. ASSUME NEW j \in Jobs, OthersStay(j), pc'[j] # "patch", patches' \subseteq Sending
      PROVE  c \in Sending
  <2>1. \A k \in Jobs : pc'[k] = "patch" => pc[k] = "patch" /\ job'[k] = job[k]
    BY <1>1 DEF OthersStay
  <2> QED BY <1>1, <2>1 DEF Sending
<1>2. ASSUME NEW j \in Jobs, Begin(j) \/ Continue(j) \/ Fail(j), UNCHANGED ledgerVars
      PROVE  c \in Sending
  <2>1. OthersStay(j) /\ patches' \subseteq Sending
    BY <1>2, GrantedStep, ClaimGrants DEF ledgerVars, Sending
  <2>2. pc'[j] # "patch"
    BY <1>2, PhasePlace
  <2> QED BY <1>1, <2>1, <2>2
<1>3. ASSUME NEW j \in Jobs, CheckpointPublication(j), patches' = patches,
             NEW p, OnlyCheckpoint(j, p), job'[j] = WithCheckpoint(j, p)
      PROVE  c \in Sending \/ (Publishing(j) /\ p \in landed /\ c = posts[p].commit)
  <2>1. OthersStay(j) /\ Publishing(j)
    BY <1>3, CheckpointPublicationStep
  <2>2. p \in landed /\ job'[j].comment = posts[p]
    BY <1>3, <2>1, WithCheckpointType
  <2>3. ASSUME NEW k \in Jobs, pc'[k] = "patch"
        PROVE  (pc[k] = "patch" /\ job'[k] = job[k]) \/ job'[k].comment.commit = posts[p].commit
    BY <2>1, <2>2, <2>3 DEF OthersStay
  <2> QED BY <1>3, <2>1, <2>2, <2>3 DEF Sending
<1>4. ASSUME NEW j \in Jobs, LedgerStep(j)
      PROVE  \/ c \in Sending
             \/ \E p \in landed : /\ Publishing(j) /\ OnlyCheckpoint(j, p)
                                  /\ c = posts[p].commit
  <2>1. OthersStay(j)
    BY <1>4, LedgerStepFrame
  <2>2. ASSUME pc'[j] # "patch", patches' = patches PROVE c \in Sending
    BY <1>1, <2>1, <2>2 DEF Sending
  <2>3. ASSUME pc[j] = "patch", pc'[j] # "patch",
               patches' \subseteq patches \cup {job[j].comment.commit}
        PROVE  c \in Sending
    <3>1. patches' \subseteq Sending
      BY <2>3 DEF Sending
    <3> QED BY <1>1, <2>1, <2>3, <3>1
  <2> QED BY <1>3, <1>4, <2>2, <2>3, LedgerPlace
<1>5. CASE UNCHANGED <<jobVars, posts, patches, operation>>
  BY <1>5 DEF Sending, jobVars
<1> QED BY <1>2, <1>4, <1>5, NextKeeps

(* Every step keeps the commit that is sent the only one.                   *)
LEMMA SendNext == HandInv /\ PublicationInv /\ SendInv /\ [Next]_vars => SendInv'
<1> SUFFICES ASSUME HandInv, PublicationInv, SendInv, [Next]_vars PROVE SendInv'
  OBVIOUS
<1>1. \A c : Checkpointed(c) => Checkpointed(c)'
  BY NextKeeps, SoundGrows DEF Checkpointed, CheckpointOf
<1>2. ASSUME NEW c \in Sending' PROVE Checkpointed(c)
  <2>1. ASSUME NEW j \in Jobs, NEW p \in landed, Publishing(j), OnlyCheckpoint(j, p),
               c = posts[p].commit
        PROVE  Checkpointed(c)
    BY <2>1, WithCheckpointType DEF Checkpointed, CheckpointOf
  <2> QED BY <2>1, SendStarts DEF SendInv
<1>3. ASSUME NEW j \in Jobs, NEW p \in landed, Publishing(j), OnlyCheckpoint(j, p),
             NEW c, Checkpointed(c)
      PROVE  c = posts[p].commit
  BY <1>3, OneCheckpoint DEF Checkpointed, CheckpointOf
<1>4. ASSUME NEW b \in Sending', NEW c \in Sending' PROVE b = c
  <2>1. Checkpointed(b) /\ Checkpointed(c)
    BY <1>2
  <2> QED BY <1>3, <2>1, SendStarts DEF SendInv
<1> QED BY <1>1, <1>2, <1>4 DEF SendInv

-----------------------------------------------------------------------------
(* Success.                                                                 *)

(* Every step keeps what a recorded success says of the branch.             *)
LEMMA SuccessNext == HandInv /\ PublicationInv /\ SuccessIsPublished /\ [Next]_vars => SuccessIsPublished'
<1> SUFFICES ASSUME HandInv, PublicationInv, SuccessIsPublished, [Next]_vars,
                    operation' = "ledger", StoredState({"succeeded"})'
             PROVE  (OwnedBranch /\
                       \E p \in landed :
                         /\ Current.terminal_code = p
                         /\ posts[p].kind = "published"
                         /\ \E n \in DOMAIN branch : branch[n] = posts[p].commit
                         /\ \E q \in landed : CheckpointOf(q, posts[p].commit))'
  BY DEF SuccessIsPublished
<1>1. /\ Keeps /\ operation = "ledger" /\ owned' = owned /\ landed \subseteq landed'
      /\ landed \subseteq DOMAIN posts
      /\ \A p \in DOMAIN posts : posts'[p] = posts[p]
      /\ \A n \in DOMAIN branch : n \in DOMAIN branch' /\ branch'[n] = branch[n]
  BY NextKeeps DEF Keeps, Evolves, HandInv, CommentsInv
<1>2. ASSUME NEW p \in landed, Current'.terminal_code = p, posts[p].kind = "published",
             OnBranch(posts[p].commit), Checkpointed(posts[p].commit), owned
      PROVE  (OwnedBranch /\
                \E r \in landed :
                  /\ Current.terminal_code = r
                  /\ posts[r].kind = "published"
                  /\ \E n \in DOMAIN branch : branch[n] = posts[r].commit
                  /\ \E q \in landed : CheckpointOf(q, posts[r].commit))'
  <2>1. /\ p \in landed' /\ posts'[p] = posts[p] /\ owned'
    BY <1>1, <1>2
  <2>2. \E n \in DOMAIN branch' : branch'[n] = posts'[p].commit
    BY <1>1, <1>2, <2>1 DEF OnBranch
  <2>3. \E q \in landed' : CheckpointOf(q, posts[p].commit)'
    BY <1>1, <1>2, <2>1 DEF Checkpointed, CheckpointOf
  <2> QED BY <1>2, <2>1, <2>2, <2>3 DEF OwnedBranch
<1>3. CASE Current' = Current /\ StoredState({"succeeded"})
  BY <1>1, <1>2, <1>3
     DEF SuccessIsPublished, OwnedBranch, OnBranch, Checkpointed
<1>4. ASSUME NEW j \in Jobs, SettleNow(j), pc[j] = "settle", job[j].outcome = "succeeded"
      PROVE  \E p \in landed : /\ Current'.terminal_code = p /\ posts[p].kind = "published"
                               /\ OnBranch(posts[p].commit) /\ Checkpointed(posts[p].commit)
                               /\ owned
  <2>1. PICK p : p = job[j].number
    OBVIOUS
  <2>2. Current'.terminal_code = p /\ p \in landed
    BY <1>4, <2>1, SettlesRecord DEF HandInv, JobsInv, JobInv, Handling
  <2>3. posts[p].kind = "published"
    BY <1>1, <1>4, <2>1 DEF PublicationInv, PublishingJob
  <2>4. posts[p] \in SoundPublished
    BY <1>1, <2>2, <2>3 DEF PublicationInv, Sound
  <2> QED BY <2>2, <2>3, <2>4 DEF SoundPublished
<1> QED BY <1>2, <1>3, <1>4, StoredBefore

-----------------------------------------------------------------------------
(* The invariant, and what it says.                                         *)

(* At the start nothing is published and nothing said.                      *)
LEMMA LedgerInit == Init => LedgerInv
<1> SUFFICES ASSUME Init PROVE LedgerInv
  OBVIOUS
<1>1. HandInv /\ Current = NoValue
  BY HandInit DEF Init, PhaseInit, JournalInit, Current, HeadSha
<1>2. /\ DOMAIN posts = {} /\ patches = {} /\ branch = <<base>>
      /\ \A j \in Jobs : pc[j] = "idle"
  BY DEF Init, PhaseInit, CommentsInit
<1>3. ~StoredState({"rejected"}) /\ ~StoredState({"succeeded"})
  BY <1>1 DEF StoredState
<1>4. BranchInv
  BY <1>2 DEF BranchInv
<1>5. PublicationInv
  BY <1>2, <1>4 DEF PublicationInv, PublishingJob, ReportingJob
<1>6. TrackInv
  BY <1>2, <1>3 DEF TrackInv, OnTrack, Rejecting, Publishing
<1>7. SendInv
  BY <1>2 DEF SendInv, Sending
<1>8. SuccessIsPublished
  BY <1>3 DEF SuccessIsPublished
<1> QED BY <1>1, <1>5, <1>6, <1>7, <1>8 DEF LedgerInv

(* Every step keeps the invariant.                                          *)
LEMMA LedgerNext == LedgerInv /\ [Next]_vars => LedgerInv'
<1> SUFFICES ASSUME LedgerInv, [Next]_vars PROVE LedgerInv'
  OBVIOUS
<1>1. HandInv /\ PublicationInv
  BY DEF LedgerInv
<1>2. HandInv'
  BY <1>1, NextKeeps
<1> QED
  BY <1>1, <1>2, PublicationNext, TrackNext, SendNext, SuccessNext DEF LedgerInv

(* The phases and the publication together keep what is written down        *)
(* verifiable, what is said true, publication and rejection apart and the   *)
(* commit that is sent the only one.                                        *)
THEOREM LedgerInvariant == Spec => []LedgerInv
BY LedgerInit, LedgerNext, PTL DEF Spec

(* What the publication keeps in its variables.                             *)
THEOREM LedgerTypes == Spec => []LedgerTypeOK
<1>1. ASSUME LedgerInv PROVE LedgerTypeOK
  <2>1. /\ HistoryTypeOK /\ landed \subseteq DOMAIN posts
        /\ pc \in [Jobs -> Labels \cup {"patch", "readback"}]
    BY <1>1 DEF LedgerInv, HandInv, HistoryInv, CommentsInv, JobsInv, AllLabels
  <2>2. \A j \in Jobs : pc[j] # "idle" => job[j].bundle \in Bundle
    BY <1>1 DEF LedgerInv, HandInv, JobsInv, JobInv, Locals
  <2>3. BranchInv
    BY <1>1 DEF LedgerInv, PublicationInv
  <2> QED BY <2>1, <2>2, <2>3 DEF LedgerTypeOK, BranchInv
<1> QED BY <1>1, LedgerInvariant, PTL

(* Only one commit is ever sent to the branch, whichever jobs die or run    *)
(* beside each other, and a checkpoint that names it was on the Issue.      *)
THEOREM OneEffect == Spec => []OneCheckpointedEffect
<1>1. ASSUME LedgerInv PROVE OneCheckpointedEffect
  <2>1. \A b, c \in patches : b = c /\ Checkpointed(c)
    BY <1>1 DEF LedgerInv, SendInv, Sending
  <2>2. patches = {} \/ \E c : patches = {c}
    BY <2>1
  <2>3. Cardinality(patches) <= 1
    <3>1. Cardinality(patches) \in {0, 1}
      BY <2>2, FS_EmptySet, FS_Singleton
    <3> QED BY <3>1
  <2> QED BY <2>1, <2>3 DEF OneCheckpointedEffect, Checkpointed
<1> QED BY <1>1, LedgerInvariant, PTL

(* A request recorded as rejected has sent nothing to the branch, and       *)
(* nothing of it will appear there.                                         *)
THEOREM RejectionSentNothing == Spec => []RejectedWasNotSent
<1>1. LedgerInv => RejectedWasNotSent
  BY DEF LedgerInv, TrackInv, OnTrack, Rejecting, RejectedWasNotSent
<1> QED BY <1>1, LedgerInvariant, PTL

(* A ledger request recorded as succeeded is published, on a branch that    *)
(* was its active task's: the record names a published comment whose commit *)
(* the branch contains and a checkpoint names.                              *)
THEOREM SuccessPublished == Spec => []SuccessIsPublished
<1>1. LedgerInv => SuccessIsPublished
  BY DEF LedgerInv
<1> QED BY <1>1, LedgerInvariant, PTL
===============================================================================
