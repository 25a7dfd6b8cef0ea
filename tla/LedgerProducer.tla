----------------------------- MODULE LedgerProducer -----------------------------
(***************************************************************************)
(* Where the bytes of a ledger publication come from: Control's job derives*)
(* a candidate, or lets the observer observe an integration, posts a       *)
(* receipt that names the bytes and uploads them as an artifact            *)
(* (actions_ledger_runtime.py, actions_integration_runtime.py,             *)
(* actions_ledger_candidate.py); Publisher looks the artifact up, observes *)
(* the job that made it, downloads and derives again, observes once more   *)
(* and publishes (actions_ledger_producer.py,                              *)
(* actions_ledger_publication.py).  Meanwhile the run may be run again,    *)
(* artifacts expire or are removed, what Control reads changes, and both   *)
(* jobs may die anywhere.                                                  *)
(*                                                                         *)
(* The publication itself (branch, owner, commit, PATCH) is that of        *)
(* LedgerPublication; here it is the one step Publish.                     *)
(***************************************************************************)
EXTENDS Naturals, FiniteSets

CONSTANTS
  MaxTime,      \* bound on the clock
  Lifetime,     \* how long an artifact is kept
  Expiry,       \* when the request expires
  MaxFacts,     \* bound: states of what Control reads
  MaxTries      \* bound: attempts of the run

ASSUME ProducerAssumption ==
  /\ MaxTime \in Nat /\ Lifetime \in Nat /\ Expiry \in Nat /\ MaxFacts \in Nat
  /\ MaxTries \in Nat \ {0}

Attempts == 1..MaxTries

VARIABLES
  closure,     \* task.complete_verified, whose artifact is an observation?
  clock,
  facts,       \* what Control reads, a version of it
  governed,    \* repository, workflow and revisions are those of the policy
  tries,       \* the Control job of each attempt
  receipt,     \* what the receipt names
  artifacts,   \* the run's artifacts of this name
  publisher,   \* the Publisher job
  checkpoint,  \* what its publication comment says
  sent         \* what was published

controlVars == <<tries, receipt, artifacts>>
publisherVars == <<publisher, checkpoint, sent>>
producerVars == <<closure, clock, facts, governed, controlVars, publisherVars>>

NotStarted == [state |-> "none", start |-> 0, end |-> 0,
               verified |-> 0, observed |-> 0, made |-> 0]
Idle == [at |-> "idle", now |-> 0, id |-> 0, digest |-> << >>, first |-> << >>]
Nothing == << >>

ProducerInit ==
  /\ closure \in BOOLEAN
  /\ clock = 0 /\ facts = 1 /\ governed = TRUE
  /\ tries = [a \in Attempts |-> NotStarted]
  /\ receipt = Nothing /\ artifacts = {}
  /\ publisher = Idle /\ checkpoint = Nothing /\ sent = Nothing

-----------------------------------------------------------------------------
(* The world.                                                               *)

Tick ==
  /\ clock < MaxTime
  /\ clock' = clock + 1
  /\ UNCHANGED <<closure, facts, governed, controlVars, publisherVars>>

FactsChange ==
  /\ facts < MaxFacts
  /\ facts' = facts + 1
  /\ UNCHANGED <<closure, clock, governed, controlVars, publisherVars>>

(* The workflow is disabled, or history rewritten, so that a revision of the*)
(* policy is not in the default branch any more; or that is undone.         *)
GovernanceChanges ==
  /\ governed' = ~governed
  /\ UNCHANGED <<closure, clock, facts, controlVars, publisherVars>>

ExpireArtifact(artifact) ==
  /\ clock >= artifact.expires
  /\ artifacts' = (artifacts \ {artifact}) \cup {[artifact EXCEPT !.expired = TRUE]}
  /\ UNCHANGED <<closure, clock, facts, governed, tries, receipt, publisherVars>>

RemoveArtifact(artifact) ==
  /\ artifacts' = artifacts \ {artifact}
  /\ UNCHANGED <<closure, clock, facts, governed, tries, receipt, publisherVars>>

-----------------------------------------------------------------------------
(* Control's job.                                                           *)

InState(a, states) == tries[a].state \in states

StartAttempt(a) ==
  /\ InState(a, {"none"})
  /\ \A b \in 1..(a - 1) : InState(b, {"success", "failure"})
  /\ tries' = [tries EXCEPT ![a].state = "started", ![a].start = clock]
  /\ UNCHANGED <<closure, clock, facts, governed, receipt, artifacts, publisherVars>>

(* The time of an observation is read before the observer is started.       *)
ReadVerifiedAt(a) ==
  /\ InState(a, {"started"}) /\ receipt = Nothing
  /\ tries' = [tries EXCEPT ![a].state = "observing", ![a].verified = clock]
  /\ UNCHANGED <<closure, clock, facts, governed, receipt, artifacts, publisherVars>>

(* The output file of an attempt is created once (O_EXCL).                  *)
Produce(a) ==
  /\ InState(a, {"observing"})
  /\ tries' = [tries EXCEPT ![a].state = "produced", ![a].observed = clock, ![a].made = facts]
  /\ UNCHANGED <<closure, clock, facts, governed, receipt, artifacts, publisherVars>>

(* The bytes: a candidate is a function of the request and of the context   *)
(* frozen in it, what Control has read; an observation also says when.      *)
CandidateOf(version) == <<version, 0>>
ObservationOf(version, time) == <<version, time>>

Bytes(a) ==
  IF closure THEN ObservationOf(tries[a].made, tries[a].verified)
             ELSE CandidateOf(tries[a].made)

(* ControlPhase posts a receipt if it has found none.  A POST whose answer  *)
(* is lost fails the job, and may land later.                               *)
PostReceipt(a) ==
  /\ InState(a, {"produced", "failure"}) /\ tries[a].made # 0
  /\ receipt = Nothing
  /\ receipt' = Bytes(a)
  /\ UNCHANGED <<closure, clock, facts, governed, tries, artifacts, publisherVars>>

(* The workflow's upload step.                                              *)
Upload(a) ==
  /\ InState(a, {"produced"}) /\ receipt = Bytes(a)
  /\ ~\E artifact \in artifacts : artifact.id = a
  /\ artifacts' = artifacts \cup
       {[id |-> a, content |-> Bytes(a), created |-> clock,
         expires |-> clock + Lifetime, expired |-> FALSE]}
  /\ UNCHANGED <<closure, clock, facts, governed, tries, receipt, publisherVars>>

(* It succeeds when its bytes are uploaded, or with a receipt it has found. *)
EndAttempt(a, conclusion) ==
  /\ InState(a, {"started", "observing", "produced"})
  /\ conclusion = "success" =>
       \/ InState(a, {"started"}) /\ receipt # Nothing
       \/ InState(a, {"produced"}) /\ \E artifact \in artifacts : artifact.id = a
  /\ tries' = [tries EXCEPT ![a].state = conclusion, ![a].end = clock]
  /\ UNCHANGED <<closure, clock, facts, governed, receipt, artifacts, publisherVars>>

-----------------------------------------------------------------------------
(* Publisher's job.                                                         *)

\* Mutant: the job of the run's last attempt.
LastAttempt ==
  CHOOSE a \in Attempts : (a = 1 \/ ~InState(a, {"none"})) /\
                          \A b \in Attempts : b > a => InState(b, {"none"})

(* The receipt's execution id names the first attempt.                      *)
ProducerAttempt == 1

ProducerJob == tries[ProducerAttempt]

(* Nothing else of this name is on any page of the run's artifacts; a      *)
(* listing that changes its length between two pages is an error.           *)
ListedAlone(artifact) == artifacts = {artifact}

(* _observe: what it makes sure of, and what it returns.                    *)
Observable(id, digest, now) ==
  /\ governed
  /\ ProducerJob.state = "success"
  /\ ProducerJob.end <= now
  /\ \E artifact \in artifacts :
       /\ ListedAlone(artifact) /\ artifact.id = id
       /\ ~artifact.expired /\ artifact.content = digest
       /\ artifact.created \in ProducerJob.start..ProducerJob.end
       /\ artifact.expires > now

Observation == <<ProducerJob.start, ProducerJob.end, artifacts>>

At(place) == publisher.at = place
GoTo(place) == publisher' = [publisher EXCEPT !.at = place]
PublisherKeeps == UNCHANGED <<closure, clock, facts, governed, controlVars>>

(* A recorded effect is recovered with the reference recorded; otherwise the*)
(* artifact is the only one with the name.  The clock is read once.         *)
Resolve ==
  /\ At("idle") /\ receipt # Nothing
  /\ IF checkpoint # Nothing
     THEN checkpoint.digest = receipt /\ GoTo("recover")
     ELSE \E artifact \in artifacts :
            /\ artifacts = {artifact}
            /\ publisher' = [Idle EXCEPT !.at = "resolved", !.now = clock, !.id = artifact.id,
                                         !.digest = artifact.content]
  /\ UNCHANGED <<checkpoint, sent>> /\ PublisherKeeps

ObserveProducer ==
  /\ At("resolved")
  /\ Observable(publisher.id, publisher.digest, publisher.now)
  /\ publisher' = [publisher EXCEPT !.at = "observed", !.first = Observation]
  /\ UNCHANGED <<checkpoint, sent>> /\ PublisherKeeps

(* _read_archive: a digest of the archive is one of its only file.          *)
ArchiveIs(artifact, digest) == artifact.content = digest

(* The artifact's bytes, by the digests of the archive and of its content.  *)
Downloaded(content) ==
  \E artifact \in artifacts :
    /\ artifact.id = publisher.id /\ ~artifact.expired
    /\ ArchiveIs(artifact, publisher.digest)
    /\ artifact.content = content /\ content = receipt

(* A candidate is what its own frozen context gives again.                  *)
DerivedAgain(content) == content = CandidateOf(content[1])

DownloadCandidate ==
  /\ At("observed") /\ ~closure
  /\ Downloaded(receipt) /\ DerivedAgain(receipt)
  /\ GoTo("derived")
  /\ UNCHANGED <<checkpoint, sent>> /\ PublisherKeeps

(* An observation is made into a candidate here; it was made when its job   *)
(* ran.                                                                     *)
ObservedThen(content) == content[2] \in ProducerJob.start..ProducerJob.end

DownloadObservation ==
  /\ At("observed") /\ closure
  /\ Downloaded(receipt) /\ ObservedThen(receipt)
  /\ GoTo("derived")
  /\ UNCHANGED <<checkpoint, sent>> /\ PublisherKeeps

FreshRequest == clock < Expiry

CheckRequest ==
  /\ At("derived") /\ FreshRequest
  /\ GoTo("checked")
  /\ UNCHANGED <<checkpoint, sent>> /\ PublisherKeeps

(* With the time of the first observation.                                  *)
ObserveAgain ==
  /\ At("checked")
  /\ Observable(publisher.id, publisher.digest, publisher.now)
  /\ Observation = publisher.first
  /\ GoTo("stable")
  /\ UNCHANGED <<checkpoint, sent>> /\ PublisherKeeps

Checkpoint ==
  /\ At("stable")
  /\ checkpoint' = [id |-> publisher.id, digest |-> publisher.digest]
  /\ GoTo("recorded")
  /\ UNCHANGED sent /\ PublisherKeeps

Publish ==
  /\ At("recorded") /\ FreshRequest
  /\ sent' = publisher.digest
  /\ GoTo("done")
  /\ UNCHANGED checkpoint /\ PublisherKeeps

(* _recover_publication looks for the effect and never makes it.            *)
Recover ==
  /\ At("recover") /\ sent = checkpoint.digest
  /\ GoTo("done")
  /\ UNCHANGED <<checkpoint, sent>> /\ PublisherKeeps

EndPublisher ==
  /\ ~At("idle")
  /\ publisher' = Idle
  /\ UNCHANGED <<checkpoint, sent>> /\ PublisherKeeps

ProducerNext ==
  \/ Tick \/ FactsChange \/ GovernanceChanges
  \/ \E artifact \in artifacts : ExpireArtifact(artifact) \/ RemoveArtifact(artifact)
  \/ \E a \in Attempts :
       \/ StartAttempt(a) \/ ReadVerifiedAt(a) \/ Produce(a) \/ PostReceipt(a) \/ Upload(a)
       \/ \E conclusion \in {"success", "failure"} : EndAttempt(a, conclusion)
  \/ Resolve \/ ObserveProducer \/ DownloadCandidate \/ DownloadObservation
  \/ CheckRequest \/ ObserveAgain \/ Checkpoint \/ Publish \/ Recover \/ EndPublisher

ProducerSpec == ProducerInit /\ [][ProducerNext]_producerVars

-----------------------------------------------------------------------------
(* What is recorded or published are the bytes the receipt names, made in   *)
(* the run's first attempt by a job that succeeded, whatever became of the  *)
(* artifact and of later attempts; Control read what they say while that job*)
(* ran, and not before the time they state                                  *)
(* (actions_ledger_producer.py:123-209,                                     *)
(* actions_integration_runtime.py:77-87, 119-123).                          *)
PublishedIsProduced ==
  \A published \in {sent, IF checkpoint = Nothing THEN Nothing ELSE checkpoint.digest} :
    published # Nothing =>
      /\ published = receipt /\ published = Bytes(1)
      /\ tries[1].state = "success"
      /\ tries[1].start <= tries[1].verified
      /\ tries[1].verified <= tries[1].observed /\ tries[1].observed <= tries[1].end
=============================================================================
