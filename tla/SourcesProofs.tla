----------------------------- MODULE SourcesProofs -----------------------------
(***************************************************************************)
(* Proofs about where a ledger publication comes from: the bytes Publisher *)
(* publishes, for any number of attempts of the run and of versions of what*)
(* Control reads and for every lifetime and expiry; and the evidence that  *)
(* is frozen of a published run, for any branch, any number of CI attempts *)
(* and of pull requests.                                                   *)
(***************************************************************************)
EXTENDS LedgerProducer, LedgerEvidence, SequenceTheorems, TLAPS

-----------------------------------------------------------------------------
(* The producer.                                                            *)

States == {"none", "started", "observing", "produced", "success", "failure"}

Try == [state : States, start : Nat, end : Nat, verified : Nat, observed : Nat, made : Nat]

(* What an attempt has done, in the order of its times.                     *)
TryInOrder(a) ==
  /\ tries[a].start <= clock
  /\ InState(a, {"none"}) => tries[a] = NotStarted
  /\ InState(a, {"none", "started", "observing"}) => tries[a].made = 0
  /\ InState(a, {"observing"}) =>
       tries[a].start <= tries[a].verified /\ tries[a].verified <= clock
  /\ tries[a].made # 0 =>
       /\ tries[a].start <= tries[a].verified /\ tries[a].verified <= tries[a].observed
       /\ tries[a].observed <= clock
       /\ InState(a, {"success", "failure"}) => tries[a].observed <= tries[a].end
  /\ InState(a, {"produced"}) => tries[a].made # 0

(* An attempt starts when those before it have ended.                       *)
OneAfterTheOther ==
  \A a, b \in Attempts : b < a /\ ~InState(a, {"none"}) => InState(b, {"success", "failure"})

TriesInv ==
  /\ closure \in BOOLEAN /\ clock \in Nat /\ facts \in Nat \ {0}
  /\ tries \in [Attempts -> Try]
  /\ \A a \in Attempts : TryInOrder(a)
  /\ OneAfterTheOther

(* The receipt names what one attempt has made, and so does every artifact; *)
(* if the first attempt succeeds it is what that one has made.              *)
ReceiptInv ==
  /\ receipt # Nothing => \E a \in Attempts : tries[a].made # 0 /\ receipt = Bytes(a)
  /\ \A artifact \in artifacts :
       /\ artifact.id \in Attempts /\ tries[artifact.id].made # 0
       /\ artifact.content = receipt /\ receipt = Bytes(artifact.id)
  /\ InState(1, {"success"}) => tries[1].made # 0 /\ receipt = Bytes(1)

(* What Publisher goes on with once it has observed the producer.           *)
Produced(content) == content = receipt /\ InState(1, {"success"})

PublisherInv ==
  /\ DOMAIN publisher = {"at", "now", "id", "digest", "first"}
  /\ publisher.at \in {"observed", "derived", "checked", "stable", "recorded"} =>
       Produced(publisher.digest)
  /\ checkpoint # Nothing => Produced(checkpoint.digest)
  /\ sent # Nothing => Produced(sent)

ProducerInv == TriesInv /\ ReceiptInv /\ PublisherInv

(* The first attempt is one.                                                *)
LEMMA FirstAttempt == 1 \in Attempts
BY ProducerAssumption DEF Attempts

(* What the producer starts from.                                           *)
LEMMA ProducerStarts == ProducerInit => ProducerInv
<1> SUFFICES ASSUME ProducerInit PROVE ProducerInv
  OBVIOUS
<1>1. NotStarted \in Try /\ NotStarted.made = 0 /\ NotStarted.start = 0 /\ NotStarted.state = "none"
  BY DEF NotStarted, Try, States
<1>2. /\ closure \in BOOLEAN /\ clock = 0 /\ facts = 1 /\ receipt = Nothing /\ artifacts = {}
      /\ checkpoint = Nothing /\ sent = Nothing /\ publisher.at = "idle"
      /\ tries \in [Attempts -> Try] /\ \A a \in Attempts : tries[a] = NotStarted
  BY <1>1 DEF ProducerInit, Idle
<1>3. \A a \in Attempts : tries[a].state = "none" /\ tries[a].made = 0 /\ tries[a].start = 0
  BY <1>1, <1>2
<1>4. \A a \in Attempts : TryInOrder(a)
  BY <1>2, <1>3 DEF TryInOrder, InState
<1>5. TriesInv
  BY <1>2, <1>3, <1>4 DEF TriesInv, OneAfterTheOther, InState
<1>6. ReceiptInv
  BY <1>2, <1>3, FirstAttempt DEF ReceiptInv, InState
<1>7. DOMAIN publisher = {"at", "now", "id", "digest", "first"}
  BY DEF ProducerInit, Idle
<1>8. PublisherInv
  BY <1>2, <1>7 DEF PublisherInv
<1> QED BY <1>5, <1>6, <1>8 DEF ProducerInv

(* An attempt moves from one state to another: what is to be shown of it.   *)
LEMMA TriesStep ==
  ASSUME ProducerInv, NEW a \in Attempts, NEW new \in Try,
         tries' = [tries EXCEPT ![a] = new], UNCHANGED <<closure, clock, facts>>,
         TryInOrder(a)',
         InState(a, {"none"}) \/ new.state # "none",
         InState(a, {"none"}) => \A b \in 1..(a - 1) : InState(b, {"success", "failure"}),
         InState(a, {"success", "failure"}) => new.state \in {"success", "failure"}
  PROVE  /\ TriesInv'
         /\ tries'[a] = new /\ \A b \in Attempts : b # a => tries'[b] = tries[b]
<1>1. /\ tries \in [Attempts -> Try] /\ OneAfterTheOther
      /\ \A b \in Attempts : TryInOrder(b)
  BY DEF ProducerInv, TriesInv
<1>2. /\ tries' \in [Attempts -> Try] /\ tries'[a] = new
      /\ \A b \in Attempts : b # a => tries'[b] = tries[b]
  BY <1>1
<1>3. ASSUME NEW b \in Attempts PROVE TryInOrder(b)'
  BY <1>1, <1>2 DEF TryInOrder, InState
<1>4. ASSUME NEW b \in Attempts, NEW c \in Attempts, c < b, ~InState(b, {"none"})'
      PROVE  InState(c, {"success", "failure"})'
  <2>1. InState(c, {"success", "failure"})
    <3>1. CASE b = a /\ InState(a, {"none"})
      <4>1. c \in 1..(a - 1)
        BY <1>4, <3>1, ProducerAssumption DEF Attempts
      <4> QED BY <3>1, <4>1
    <3>2. CASE ~InState(b, {"none"})
      BY <1>1, <1>4, <3>2 DEF OneAfterTheOther
    <3>3. CASE b # a
      BY <1>1, <1>2, <1>4, <3>3 DEF OneAfterTheOther, InState
    <3> QED BY <3>1, <3>2, <3>3
  <2> QED BY <1>2, <2>1 DEF InState
<1>5. OneAfterTheOther'
  BY <1>4 DEF OneAfterTheOther
<1> QED BY <1>2, <1>3, <1>5 DEF ProducerInv, TriesInv

(* What an attempt has made stays as it is.                                 *)
LEMMA BytesStay ==
  ASSUME ProducerInv, NEW a \in Attempts, NEW new \in Try,
         closure' = closure, tries'[a] = new, \A b \in Attempts : b # a => tries'[b] = tries[b],
         tries[a].made # 0 => new.made = tries[a].made /\ new.verified = tries[a].verified
  PROVE  \A b \in Attempts : tries[b].made # 0 => tries'[b].made # 0 /\ Bytes(b)' = Bytes(b)
BY DEF Bytes

(* Neither receipt nor artifacts nor publisher move with an attempt that    *)
(* does not succeed.                                                        *)
LEMMA AttemptKeeps ==
  ASSUME ProducerInv, TriesInv', NEW a \in Attempts, NEW new \in Try,
         closure' = closure, tries'[a] = new, \A b \in Attempts : b # a => tries'[b] = tries[b],
         UNCHANGED <<receipt, artifacts, publisherVars>>,
         tries[a].made # 0 => new.made = tries[a].made /\ new.verified = tries[a].verified,
         InState(a, {"success"}) => new.state = "success",
         new.state = "success" /\ a = 1 => new.made # 0 /\ receipt = Bytes(1)'
  PROVE  ProducerInv'
<1>1. \A b \in Attempts : tries[b].made # 0 => tries'[b].made # 0 /\ Bytes(b)' = Bytes(b)
  BY BytesStay
<1>2. InState(1, {"success"}) => InState(1, {"success"})'
  BY FirstAttempt DEF InState
<1>3. ReceiptInv'
  <2>1. receipt' # Nothing => \E b \in Attempts : tries'[b].made # 0 /\ receipt' = Bytes(b)'
    BY <1>1 DEF ProducerInv, ReceiptInv
  <2>2. ASSUME NEW artifact \in artifacts'
        PROVE  /\ artifact.id \in Attempts /\ tries'[artifact.id].made # 0
               /\ artifact.content = receipt' /\ receipt' = Bytes(artifact.id)'
    BY <1>1, <2>2 DEF ProducerInv, ReceiptInv
  <2>3. InState(1, {"success"})' => tries'[1].made # 0 /\ receipt' = Bytes(1)'
    <3>1. CASE a = 1
      BY <3>1 DEF InState
    <3>2. CASE a # 1
      <4>1. tries'[1] = tries[1]
        BY <3>2, FirstAttempt
      <4> QED BY <1>1, <4>1, FirstAttempt DEF InState, ProducerInv, ReceiptInv
    <3> QED BY <3>1, <3>2
  <2> QED BY <2>1, <2>2, <2>3 DEF ReceiptInv
<1>4. PublisherInv'
  BY <1>2 DEF ProducerInv, PublisherInv, Produced, publisherVars
<1> QED BY <1>3, <1>4 DEF ProducerInv

(* An attempt starts.                                                       *)
LEMMA StartAttemptStep ==
  ASSUME ProducerInv, NEW a \in Attempts, StartAttempt(a)
  PROVE  ProducerInv'
<1> DEFINE new == [tries[a] EXCEPT !.state = "started", !.start = clock]
<1>1. /\ InState(a, {"none"}) /\ \A b \in 1..(a - 1) : InState(b, {"success", "failure"})
      /\ tries' = [tries EXCEPT ![a] = new]
      /\ UNCHANGED <<closure, clock, facts, receipt, artifacts, publisherVars>>
  BY DEF StartAttempt, ProducerInv, TriesInv
<1>2. tries[a] \in Try /\ clock \in Nat /\ tries[a].made = 0
  BY <1>1 DEF ProducerInv, TriesInv, TryInOrder, InState
<1>3. new \in Try /\ new.state = "started" /\ new.start = clock /\ new.made = 0
  BY <1>2 DEF Try, States
<1> HIDE DEF new
<1>4. tries'[a] = new
  BY <1>1 DEF ProducerInv, TriesInv
<1>5. TryInOrder(a)'
  BY <1>1, <1>2, <1>3, <1>4 DEF TryInOrder, InState
<1>6. /\ TriesInv'
      /\ tries'[a] = new /\ \A b \in Attempts : b # a => tries'[b] = tries[b]
  <2>1. ~InState(a, {"success", "failure"}) /\ new.state # "none"
    BY <1>1, <1>3 DEF InState
  <2> QED BY <1>1, <1>3, <1>5, <2>1, TriesStep
<1> QED BY <1>1, <1>2, <1>3, <1>6, AttemptKeeps DEF InState

(* The time is read.                                                        *)
LEMMA ReadVerifiedAtStep ==
  ASSUME ProducerInv, NEW a \in Attempts, ReadVerifiedAt(a)
  PROVE  ProducerInv'
<1> DEFINE new == [tries[a] EXCEPT !.state = "observing", !.verified = clock]
<1>1. /\ InState(a, {"started"})
      /\ tries' = [tries EXCEPT ![a] = new]
      /\ UNCHANGED <<closure, clock, facts, receipt, artifacts, publisherVars>>
  BY DEF ReadVerifiedAt, ProducerInv, TriesInv
<1>2. tries[a] \in Try /\ clock \in Nat /\ tries[a].made = 0 /\ tries[a].start <= clock
  BY <1>1 DEF ProducerInv, TriesInv, TryInOrder, InState
<1>3. /\ new \in Try /\ new.state = "observing" /\ new.start = tries[a].start
      /\ new.verified = clock /\ new.made = 0
  BY <1>2 DEF Try, States
<1> HIDE DEF new
<1>4. tries'[a] = new
  BY <1>1 DEF ProducerInv, TriesInv
<1>5. TryInOrder(a)'
  BY <1>1, <1>2, <1>3, <1>4 DEF TryInOrder, InState
<1>6. /\ TriesInv'
      /\ tries'[a] = new /\ \A b \in Attempts : b # a => tries'[b] = tries[b]
  BY <1>1, <1>3, <1>5, TriesStep DEF InState
<1> QED BY <1>1, <1>2, <1>3, <1>6, AttemptKeeps DEF InState

(* The output file is written.                                              *)
LEMMA ProduceStep ==
  ASSUME ProducerInv, NEW a \in Attempts, Produce(a)
  PROVE  ProducerInv'
<1> DEFINE new == [tries[a] EXCEPT !.state = "produced", !.observed = clock, !.made = facts]
<1>1. /\ InState(a, {"observing"})
      /\ tries' = [tries EXCEPT ![a] = new]
      /\ UNCHANGED <<closure, clock, facts, receipt, artifacts, publisherVars>>
  BY DEF Produce, ProducerInv, TriesInv
<1>2. /\ tries[a] \in Try /\ clock \in Nat /\ facts \in Nat \ {0} /\ tries[a].made = 0
      /\ tries[a].start <= tries[a].verified /\ tries[a].verified <= clock
      /\ tries[a].start <= clock
  BY <1>1 DEF ProducerInv, TriesInv, TryInOrder, InState
<1>3. /\ new \in Try /\ new.state = "produced" /\ new.start = tries[a].start
      /\ new.verified = tries[a].verified /\ new.observed = clock /\ new.made = facts
  BY <1>2 DEF Try, States
<1> HIDE DEF new
<1>4. tries'[a] = new
  BY <1>1 DEF ProducerInv, TriesInv
<1>5. TryInOrder(a)'
  BY <1>1, <1>2, <1>3, <1>4 DEF TryInOrder, InState
<1>6. /\ TriesInv'
      /\ tries'[a] = new /\ \A b \in Attempts : b # a => tries'[b] = tries[b]
  BY <1>1, <1>3, <1>5, TriesStep DEF InState
<1> QED BY <1>1, <1>2, <1>3, <1>6, AttemptKeeps DEF InState

(* An attempt ends.  If the first one succeeds it is not by the receipt of  *)
(* another, since there is none yet.                                        *)
LEMMA EndAttemptStep ==
  ASSUME ProducerInv, NEW a \in Attempts, NEW conclusion \in {"success", "failure"},
         EndAttempt(a, conclusion)
  PROVE  ProducerInv'
<1> DEFINE new == [tries[a] EXCEPT !.state = conclusion, !.end = clock]
<1>1. /\ InState(a, {"started", "observing", "produced"})
      /\ tries' = [tries EXCEPT ![a] = new]
      /\ UNCHANGED <<closure, clock, facts, receipt, artifacts, publisherVars>>
  BY DEF EndAttempt, ProducerInv, TriesInv
<1>2. /\ tries[a] \in Try /\ clock \in Nat /\ TryInOrder(a)
  BY <1>1 DEF ProducerInv, TriesInv
<1>3. /\ new \in Try /\ new.state = conclusion /\ new.start = tries[a].start
      /\ new.verified = tries[a].verified /\ new.observed = tries[a].observed
      /\ new.made = tries[a].made /\ new.end = clock
  BY <1>2 DEF Try, States
<1> HIDE DEF new
<1>4. tries'[a] = new
  BY <1>1 DEF ProducerInv, TriesInv
<1>5. TryInOrder(a)'
  BY <1>1, <1>2, <1>3, <1>4 DEF TryInOrder, InState
<1>6. /\ TriesInv'
      /\ tries'[a] = new /\ \A b \in Attempts : b # a => tries'[b] = tries[b]
  BY <1>1, <1>3, <1>5, TriesStep DEF InState
<1>7. ASSUME conclusion = "success", a = 1
      PROVE  tries[1].made # 0 /\ receipt = Bytes(1)
  <2>1. CASE \E artifact \in artifacts : artifact.id = a
    BY <1>7, <2>1 DEF ProducerInv, ReceiptInv
  <2>2. CASE InState(a, {"started"}) /\ receipt # Nothing
    <3>1. PICK b \in Attempts : tries[b].made # 0
      BY <2>2 DEF ProducerInv, ReceiptInv
    <3>2. b # 1 /\ ~InState(b, {"none"}) /\ b \in Nat /\ 1 <= b
      BY <1>7, <2>2, <3>1, ProducerAssumption
         DEF ProducerInv, TriesInv, TryInOrder, InState, Attempts
    <3>3. InState(1, {"success", "failure"})
      BY <3>2, FirstAttempt DEF ProducerInv, TriesInv, OneAfterTheOther
    <3> QED BY <1>7, <2>2, <3>3 DEF InState
  <2> QED BY <1>7, <2>1, <2>2 DEF EndAttempt
<1>8. \A b \in Attempts : tries[b].made # 0 => tries'[b].made # 0 /\ Bytes(b)' = Bytes(b)
  BY <1>1, <1>3, <1>6, BytesStay
<1>9. new.state = "success" /\ a = 1 => new.made # 0 /\ receipt = Bytes(1)'
  BY <1>3, <1>7, <1>8
<1> QED BY <1>1, <1>3, <1>6, <1>9, AttemptKeeps DEF InState

(* The receipt appears, which then is the only one.                         *)
LEMMA PostReceiptStep ==
  ASSUME ProducerInv, NEW a \in Attempts, PostReceipt(a)
  PROVE  ProducerInv'
<1>1. /\ receipt = Nothing /\ receipt' = Bytes(a) /\ tries[a].made # 0
      /\ UNCHANGED <<closure, clock, facts, tries, artifacts, publisherVars>>
  BY DEF PostReceipt
<1>2. TriesInv'
  BY <1>1 DEF ProducerInv, TriesInv, TryInOrder, OneAfterTheOther, InState
<1>3. \A b \in Attempts : Bytes(b)' = Bytes(b) /\ Bytes(b) # Nothing
  BY <1>1 DEF Bytes, ObservationOf, CandidateOf, Nothing
<1>4. ~InState(1, {"success"}) /\ artifacts = {}
  BY <1>1, <1>3, FirstAttempt DEF ProducerInv, ReceiptInv
<1>5. ReceiptInv'
  BY <1>1, <1>3, <1>4 DEF ReceiptInv, InState
<1>6. PublisherInv'
  BY <1>1, <1>4 DEF ProducerInv, PublisherInv, Produced, publisherVars
<1> QED BY <1>2, <1>5, <1>6 DEF ProducerInv

(* The artifacts change.                                                    *)
LEMMA ArtifactsStep ==
  ASSUME ProducerInv, UNCHANGED <<closure, clock, facts, tries, receipt, publisherVars>>,
         \A artifact \in artifacts' :
           \/ \E known \in artifacts : artifact.id = known.id /\ artifact.content = known.content
           \/ /\ artifact.id \in Attempts /\ tries[artifact.id].made # 0
              /\ artifact.content = receipt /\ receipt = Bytes(artifact.id)
  PROVE  ProducerInv'
<1>1. TriesInv'
  BY DEF ProducerInv, TriesInv, TryInOrder, OneAfterTheOther, InState
<1>2. \A b \in Attempts : Bytes(b)' = Bytes(b)
  BY DEF Bytes
<1>3. ASSUME NEW artifact \in artifacts'
      PROVE  /\ artifact.id \in Attempts /\ tries'[artifact.id].made # 0
             /\ artifact.content = receipt' /\ receipt' = Bytes(artifact.id)'
  <2>1. /\ artifact.id \in Attempts /\ tries[artifact.id].made # 0
        /\ artifact.content = receipt /\ receipt = Bytes(artifact.id)
    BY DEF ProducerInv, ReceiptInv
  <2> QED BY <1>2, <2>1
<1>4. ReceiptInv'
  <2>1. receipt' # Nothing => \E a \in Attempts : tries'[a].made # 0 /\ receipt' = Bytes(a)'
    BY <1>2 DEF ProducerInv, ReceiptInv
  <2>2. InState(1, {"success"})' => tries'[1].made # 0 /\ receipt' = Bytes(1)'
    BY <1>2, FirstAttempt DEF ProducerInv, ReceiptInv, InState
  <2> QED BY <1>3, <2>1, <2>2 DEF ReceiptInv
<1>5. PublisherInv'
  BY DEF ProducerInv, PublisherInv, Produced, publisherVars, InState
<1> QED BY <1>1, <1>4, <1>5 DEF ProducerInv

(* The bytes are uploaded, an artifact expires or is removed.               *)
LEMMA ArtifactSteps ==
  ASSUME ProducerInv,
         \/ \E a \in Attempts : Upload(a)
         \/ \E artifact \in artifacts : ExpireArtifact(artifact) \/ RemoveArtifact(artifact)
  PROVE  ProducerInv'
<1>1. ASSUME NEW a \in Attempts, Upload(a) PROVE ProducerInv'
  <2> DEFINE new == [id |-> a, content |-> Bytes(a), created |-> clock,
                     expires |-> clock + Lifetime, expired |-> FALSE]
  <2>1. /\ InState(a, {"produced"}) /\ receipt = Bytes(a) /\ artifacts' = artifacts \cup {new}
        /\ UNCHANGED <<closure, clock, facts, tries, receipt, publisherVars>>
    BY <1>1 DEF Upload
  <2>2. tries[a].made # 0
    BY <2>1 DEF ProducerInv, TriesInv, TryInOrder
  <2>3. new.id = a /\ new.content = receipt
    BY <2>1
  <2> HIDE DEF new
  <2> QED BY <2>1, <2>2, <2>3, ArtifactsStep
<1>2. ASSUME NEW artifact \in artifacts, ExpireArtifact(artifact) PROVE ProducerInv'
  <2> DEFINE new == [artifact EXCEPT !.expired = TRUE]
  <2>1. /\ artifacts' = (artifacts \ {artifact}) \cup {new}
        /\ UNCHANGED <<closure, clock, facts, tries, receipt, publisherVars>>
    BY <1>2 DEF ExpireArtifact
  <2>2. new.id = artifact.id /\ new.content = artifact.content
    OBVIOUS
  <2> HIDE DEF new
  <2> QED BY <2>1, <2>2, ArtifactsStep
<1>3. ASSUME NEW artifact \in artifacts, RemoveArtifact(artifact) PROVE ProducerInv'
  BY <1>3, ArtifactsStep DEF RemoveArtifact
<1> QED BY <1>1, <1>2, <1>3

(* Publisher moves: what it holds and what it leaves behind.                *)
LEMMA PublisherStep ==
  ASSUME ProducerInv, UNCHANGED <<closure, clock, facts, governed, controlVars>>, PublisherInv'
  PROVE  ProducerInv'
<1>1. TriesInv'
  BY DEF ProducerInv, TriesInv, TryInOrder, OneAfterTheOther, InState, controlVars
<1>2. \A b \in Attempts : Bytes(b)' = Bytes(b)
  BY DEF Bytes, controlVars
<1>3. ReceiptInv'
  BY <1>2, FirstAttempt DEF ProducerInv, ReceiptInv, InState, controlVars
<1> QED BY <1>1, <1>3 DEF ProducerInv

(* What it has observed is what the first attempt, which succeeded, made.   *)
LEMMA ObservedIsProduced ==
  ASSUME ProducerInv, NEW id, NEW digest, NEW now, Observable(id, digest, now)
  PROVE  Produced(digest)
BY DEF Observable, ListedAlone, ProducerJob, ProducerAttempt, ProducerInv, ReceiptInv, Produced,
       InState

(* Publisher goes from one place to the next with what it holds.            *)
LEMMA PublisherSteps ==
  ASSUME ProducerInv,
         \/ Resolve \/ ObserveProducer \/ DownloadCandidate \/ DownloadObservation
         \/ CheckRequest \/ ObserveAgain \/ Checkpoint \/ Publish \/ Recover \/ EndPublisher
  PROVE  ProducerInv'
<1> DEFINE Holding == {"observed", "derived", "checked", "stable", "recorded"}
<1>1. /\ PublisherInv
      /\ UNCHANGED <<closure, clock, facts, governed, controlVars>>
  BY DEF ProducerInv, Resolve, ObserveProducer, DownloadCandidate, DownloadObservation,
         CheckRequest, ObserveAgain, Checkpoint, Publish, Recover, EndPublisher, PublisherKeeps
<1>2. \A content : Produced(content) => Produced(content)'
  BY <1>1 DEF Produced, InState, controlVars
<1>3. DOMAIN publisher = {"at", "now", "id", "digest", "first"}
  BY <1>1 DEF PublisherInv
<1>4. DOMAIN publisher' = {"at", "now", "id", "digest", "first"}
  <2>1. CASE Resolve \/ EndPublisher
    BY <1>3, <2>1 DEF Resolve, EndPublisher, GoTo, Idle
  <2>2. CASE ~Resolve /\ ~EndPublisher
    BY <1>3, <2>2 DEF ObserveProducer, DownloadCandidate, DownloadObservation,
                      CheckRequest, ObserveAgain, Checkpoint, Publish, Recover, GoTo
  <2> QED BY <2>1, <2>2
<1>5. \/ publisher'.at \notin Holding
      \/ Produced(publisher'.digest)
  <2>1. CASE ObserveProducer
    <3>1. Produced(publisher.digest)
      BY <2>1, ObservedIsProduced DEF ObserveProducer
    <3>2. publisher'.digest = publisher.digest
      BY <2>1 DEF ObserveProducer
    <3> QED BY <3>1, <3>2
  <2>2. CASE \/ DownloadCandidate \/ DownloadObservation \/ CheckRequest \/ ObserveAgain
             \/ Checkpoint
    <3>1. publisher.at \in Holding /\ publisher'.digest = publisher.digest
      BY <1>3, <2>2
         DEF DownloadCandidate, DownloadObservation, CheckRequest, ObserveAgain, Checkpoint,
             At, GoTo
    <3> QED BY <1>1, <3>1 DEF PublisherInv
  <2>3. CASE EndPublisher
    BY <2>3 DEF EndPublisher, Idle
  <2>4. CASE Resolve
    <3>1. publisher'.at \in {"recover", "resolved"}
      BY <1>3, <2>4 DEF Resolve, GoTo, Idle
    <3> QED BY <3>1
  <2>5. CASE Publish \/ Recover
    <3>1. publisher'.at = "done"
      BY <1>3, <2>5 DEF Publish, Recover, GoTo
    <3> QED BY <3>1
  <2> QED BY <2>1, <2>2, <2>3, <2>4, <2>5
<1>6. checkpoint' = checkpoint \/ Produced(checkpoint'.digest)
  <2>1. CASE Checkpoint
    <3>1. Produced(publisher.digest) /\ checkpoint'.digest = publisher.digest
      BY <1>1, <2>1 DEF Checkpoint, At, PublisherInv
    <3> QED BY <3>1
  <2>2. CASE ~Checkpoint
    BY <2>2 DEF Resolve, ObserveProducer, DownloadCandidate, DownloadObservation,
                CheckRequest, ObserveAgain, Publish, Recover, EndPublisher
  <2> QED BY <2>1, <2>2
<1>7. sent' = sent \/ Produced(sent')
  <2>1. CASE Publish
    BY <1>1, <2>1 DEF Publish, At, PublisherInv
  <2>2. CASE ~Publish
    BY <2>2 DEF Resolve, ObserveProducer, DownloadCandidate, DownloadObservation,
                CheckRequest, ObserveAgain, Checkpoint, Recover, EndPublisher
  <2> QED BY <2>1, <2>2
<1>8. PublisherInv'
  BY <1>1, <1>2, <1>5, <1>6, <1>7, <1>4 DEF PublisherInv
<1> QED BY <1>1, <1>8, PublisherStep

(* The world moves on.                                                      *)
LEMMA WorldSteps ==
  ASSUME ProducerInv, Tick \/ FactsChange \/ GovernanceChanges \/ UNCHANGED producerVars
  PROVE  ProducerInv'
<1>1. /\ clock' \in Nat /\ clock <= clock' /\ facts' \in Nat \ {0} /\ clock \in Nat
      /\ UNCHANGED <<closure, controlVars, publisherVars>>
  BY DEF Tick, FactsChange, GovernanceChanges, producerVars, ProducerInv, TriesInv
<1>2. /\ \A b \in Attempts : Bytes(b)' = Bytes(b) /\ TryInOrder(b)
      /\ tries \in [Attempts -> Try] /\ tries' = tries
  BY <1>1 DEF Bytes, controlVars, ProducerInv, TriesInv
<1>3. ASSUME NEW a \in Attempts PROVE TryInOrder(a)'
  <2>1. tries[a] \in Try
    BY <1>2
  <2>2. tries[a].start \in Nat /\ tries[a].verified \in Nat /\ tries[a].observed \in Nat
    BY <2>1 DEF Try
  <2> QED BY <1>1, <1>2, <2>2 DEF TryInOrder, InState
<1>4. TriesInv'
  BY <1>1, <1>2, <1>3 DEF ProducerInv, TriesInv, OneAfterTheOther, InState
<1>5. ReceiptInv'
  BY <1>1, <1>2, FirstAttempt DEF ProducerInv, ReceiptInv, InState, controlVars
<1>6. PublisherInv'
  BY <1>1 DEF ProducerInv, PublisherInv, Produced, InState, controlVars, publisherVars
<1> QED BY <1>4, <1>5, <1>6 DEF ProducerInv

(* Every step keeps the invariant.                                          *)
LEMMA ProducerSteps == ProducerInv /\ [ProducerNext]_producerVars => ProducerInv'
BY StartAttemptStep, ReadVerifiedAtStep, ProduceStep, EndAttemptStep, PostReceiptStep,
   ArtifactSteps, PublisherSteps, WorldSteps DEF ProducerNext

(* What is recorded or published are the bytes the receipt names, made by   *)
(* the first attempt, which succeeded, from what Control read while it ran  *)
(* and not before the time they state.                                      *)
THEOREM PublishedProduced == ProducerSpec => []PublishedIsProduced
<1>1. ASSUME ProducerInv PROVE PublishedIsProduced
  <2> SUFFICES ASSUME NEW content, Produced(content)
               PROVE  /\ content = receipt /\ content = Bytes(1)
                      /\ tries[1].state = "success"
                      /\ tries[1].start <= tries[1].verified
                      /\ tries[1].verified <= tries[1].observed
                      /\ tries[1].observed <= tries[1].end
    BY <1>1 DEF PublishedIsProduced, ProducerInv, PublisherInv
  <2>1. /\ content = receipt /\ tries[1].state = "success"
        /\ tries[1].made # 0 /\ receipt = Bytes(1)
    BY <1>1 DEF Produced, ProducerInv, ReceiptInv, InState
  <2>2. TryInOrder(1)
    BY <1>1, FirstAttempt DEF ProducerInv, TriesInv
  <2> QED BY <2>1, <2>2 DEF TryInOrder, InState
<1> QED BY <1>1, ProducerStarts, ProducerSteps, PTL DEF ProducerSpec

-----------------------------------------------------------------------------
(* The evidence.                                                            *)

Commit == Seq(Labels)

(* A commit CI was seen successful for is one it was successful for, and the*)
(* head a pull request shows is one it had.                                 *)
RepositoryInv ==
  /\ branch \in Commit /\ base \in Commit
  /\ ci = [c \in DOMAIN ci |-> ci[c]]
  /\ \A c \in DOMAIN ci : ci[c] = "success" => c \in green
  /\ pulls \in Seq([open : BOOLEAN, head : Commit])
  /\ heads \in Seq(SUBSET Commit) /\ Len(heads) = Len(pulls)
  /\ \A n \in DOMAIN pulls : PullNow(n).head \in heads[n]

(* Once the first request is published, its start is frozen, and the branch *)
(* goes on from its commit.                                                 *)
EffectInv ==
  /\ DOMAIN startup = {"at", "starting", "exists", "pulls"}
  /\ publication # None =>
       /\ startup.at = "frozen"
       /\ publication.commit \in Commit
       /\ publication.commit = Append(publication.base, "run")
       /\ Extends(branch, publication.commit)

(* What has been read of it goes on being so.                               *)
CollectorInv ==
  /\ DOMAIN collector = {"at", "stage", "base", "ci", "pull"}
  /\ collector.at # "idle" =>
       publication # None /\ Extends(collector.base, publication.commit)
  /\ collector.at \in {"pulls", "pull", "collected"} /\ collector.stage = "terminal" =>
       (collector.ci = <<"success">> => publication.commit \in green)
  /\ collector.at = "pull" => HadHead(collector.pull)
  /\ collector.at = "collected" /\ collector.stage = "terminal" => HadHead(collector.pull)

FrozenInv ==
  evidence # None =>
    /\ publication # None
    /\ evidence.after = publication.commit
    /\ evidence.after = Append(startup.starting, "run") /\ evidence.before = startup.starting
    /\ Extends(evidence.base, evidence.after)
    /\ evidence.stage = "terminal" =>
         /\ evidence.ci = <<"success">> /\ evidence.after \in green
         /\ evidence.pull.head = evidence.after /\ HadHead(evidence.pull)

EvidenceInv == RepositoryInv /\ EffectInv /\ CollectorInv /\ FrozenInv

(* A commit extends itself.                                                 *)
LEMMA ExtendsItself ==
  ASSUME NEW c \in Commit
  PROVE  Extends(c, c)
BY SubSeqFull, LenProperties DEF Commit, Extends

(* What a commit extends it extends whatever comes after.                   *)
LEMMA ExtendsOn ==
  ASSUME NEW c \in Commit, NEW a \in Commit, NEW label \in Labels, Extends(c, a)
  PROVE  Extends(Append(c, label), a) /\ Append(c, label) \in Commit
<1> DEFINE d == Append(c, label)
           s == SubSeq(d, 1, Len(a))
<1>1. /\ Len(c) \in Nat /\ Len(a) \in Nat /\ Len(a) <= Len(c) /\ SubSeq(c, 1, Len(a)) = a
      /\ \A i \in 1..Len(c) : c[i] \in Labels
  BY LenProperties, ElementOfSeq DEF Commit, Extends
<1>2. /\ d \in Commit /\ Len(d) = Len(c) + 1
      /\ \A i \in 1..Len(c) : d[i] = c[i]
  BY AppendProperties DEF Commit
<1> HIDE DEF d
<1>3. \A i \in 1..Len(a) : d[i] \in Labels /\ c[i] \in Labels
  BY <1>1, <1>2
<1>4. /\ s \in Commit /\ Len(s) = Len(a) /\ \A i \in 1..Len(a) : s[i] = d[i]
  BY <1>1, <1>3, SubSeqProperties DEF Commit
<1>5. \A i \in 1..Len(a) : a[i] = c[i]
  BY <1>1, <1>3, SubSeqProperties DEF Commit
<1>6. s = a
  <2>1. \A i \in 1..Len(s) : s[i] = a[i]
    BY <1>1, <1>2, <1>4, <1>5
  <2> HIDE DEF s
  <2> QED BY <1>4, <2>1, SeqEqual DEF Commit
<1> QED BY <1>1, <1>2, <1>6 DEF Extends, d

(* Nothing has been published or read at the start.                         *)
LEMMA EvidenceStarts == EvidenceInit => EvidenceInv
<1> SUFFICES ASSUME EvidenceInit PROVE EvidenceInv
  OBVIOUS
<1>1. Root \in Commit
  BY DEF Root, Commit, Labels
<1>2. Append(Root, "work") \in Commit
  BY <1>1, AppendProperties DEF Commit, Labels
<1>3. RepositoryInv
  <2>1. pulls \in Seq([open : BOOLEAN, head : Commit])
    BY EmptySeq DEF EvidenceInit
  <2>2. ci = [c \in DOMAIN ci |-> ci[c]] /\ DOMAIN ci = {}
    BY DEF EvidenceInit
  <2>3. /\ heads \in Seq(SUBSET Commit) /\ Len(heads) = Len(pulls)
        /\ \A n \in DOMAIN pulls : PullNow(n).head \in heads[n]
    <3>1. pulls = << >> /\ heads = << >>
      BY DEF EvidenceInit
    <3>2. heads \in Seq(SUBSET Commit)
      BY <3>1, EmptySeq
    <3>3. Len(pulls) = 0 /\ DOMAIN pulls = 1..Len(pulls)
      BY <2>1, <3>1, LenProperties
    <3> QED BY <3>1, <3>2, <3>3
  <2> QED BY <1>1, <1>2, <2>1, <2>2, <2>3 DEF EvidenceInit, RepositoryInv
<1> QED
  BY <1>3 DEF EvidenceInit, EvidenceInv, EffectInv, CollectorInv, FrozenInv, NoStartup, NoCollector

(* A pull request had the heads it had.                                     *)
HeadsKept ==
  /\ DOMAIN heads \subseteq DOMAIN heads'
  /\ \A n \in DOMAIN heads : heads[n] \subseteq heads'[n]

(* The repository goes on: what was read of it still holds.                 *)
LEMMA RepositoryStep ==
  ASSUME EvidenceInv, RepositoryInv', UNCHANGED requestVars, green \subseteq green',
         HeadsKept, \A c \in Commit : Extends(branch, c) => Extends(branch', c)
  PROVE  EvidenceInv'
<1>0. \A pull : HadHead(pull) => HadHead(pull)'
  BY DEF HadHead, HeadsKept
<1>1. EffectInv'
  BY DEF EvidenceInv, EffectInv, requestVars
<1>2. publication # None =>
        publication.commit \in Commit /\ Extends(branch, publication.commit)
  BY DEF EvidenceInv, EffectInv
<1>3. CollectorInv'
  BY <1>0, <1>2 DEF EvidenceInv, CollectorInv, requestVars
<1>4. FrozenInv'
  BY <1>0, <1>2 DEF EvidenceInv, FrozenInv, requestVars
<1> QED BY <1>1, <1>3, <1>4 DEF EvidenceInv

(* A commit on the branch becomes the head of its open pull requests.       *)
LEMMA BranchGrows ==
  ASSUME EvidenceInv, NEW label \in Labels, branch' = Append(branch, label), PullsFollow,
         UNCHANGED <<project, base, ci, green, pulls>>
  PROVE  /\ RepositoryInv' /\ HeadsKept
         /\ \A c \in Commit : Extends(branch, c) => Extends(branch', c)
<1>1. /\ branch \in Commit /\ heads \in Seq(SUBSET Commit) /\ Len(heads) = Len(pulls)
      /\ pulls \in Seq([open : BOOLEAN, head : Commit])
      /\ \A n \in DOMAIN pulls : PullNow(n).head \in heads[n]
  BY DEF EvidenceInv, RepositoryInv
<1>2. branch' \in Commit /\ \A c \in Commit : Extends(branch, c) => Extends(branch', c)
  BY <1>1, ExtendsOn, AppendProperties DEF Commit
<1>3. /\ Len(heads) \in Nat /\ DOMAIN heads = 1..Len(heads) /\ DOMAIN pulls = DOMAIN heads
      /\ \A n \in DOMAIN heads : heads[n] \in SUBSET Commit
  BY <1>1, LenProperties, ElementOfSeq
<1>4. /\ DOMAIN heads' = DOMAIN heads
      /\ \A n \in DOMAIN heads :
           heads'[n] = IF pulls[n].open THEN heads[n] \cup {branch'} ELSE heads[n]
  BY DEF PullsFollow
<1>5. heads' \in Seq(SUBSET Commit) /\ Len(heads') = Len(heads)
  <2>1. heads' = [n \in 1..Len(heads) |->
                    IF pulls[n].open THEN heads[n] \cup {branch'} ELSE heads[n]]
    BY <1>3 DEF PullsFollow
  <2>2. \A n \in 1..Len(heads) :
          (IF pulls[n].open THEN heads[n] \cup {branch'} ELSE heads[n]) \in SUBSET Commit
    BY <1>2, <1>3
  <2>3. heads' \in [1..Len(heads) -> SUBSET Commit]
    BY <2>1, <2>2
  <2>4. heads' \in Seq(SUBSET Commit)
    BY <1>3, <2>3, SeqDef
  <2>5. Len(heads') \in Nat /\ DOMAIN heads' = 1..Len(heads')
    BY <2>4, LenProperties
  <2> QED BY <1>3, <1>4, <2>4, <2>5
<1>6. ASSUME NEW n \in DOMAIN pulls PROVE PullNow(n)'.head \in heads'[n]
  <2>1. PullNow(n).head \in heads[n] /\ n \in DOMAIN heads
    BY <1>1, <1>3
  <2>2. CASE pulls[n].open
    BY <1>4, <2>1, <2>2 DEF PullNow
  <2>3. CASE ~pulls[n].open
    BY <1>4, <2>1, <2>3 DEF PullNow
  <2> QED BY <2>2, <2>3
<1>7. HeadsKept
  BY <1>4 DEF HeadsKept
<1>8. RepositoryInv'
  BY <1>1, <1>2, <1>5, <1>6 DEF EvidenceInv, RepositoryInv
<1> QED BY <1>2, <1>7, <1>8

(* Somebody works on the branch.                                            *)
LEMMA WorkStep ==
  ASSUME EvidenceInv, Work
  PROVE  EvidenceInv'
BY BranchGrows, RepositoryStep DEF Work, Labels

(* CI starts or ends.                                                       *)
LEMMA CiSteps ==
  ASSUME EvidenceInv,
         \/ StartCi(branch)
         \/ \E commit \in DOMAIN ci :
              \/ StartCi(commit)
              \/ \E conclusion \in {"success", "failure"} : EndCi(commit, conclusion)
  PROVE  EvidenceInv'
<1>1. UNCHANGED <<branch, base, pulls, heads, requestVars>> /\ green \subseteq green'
  BY DEF StartCi, EndCi
<1>2. /\ ci' = [c \in DOMAIN ci' |-> ci'[c]]
      /\ \A c \in DOMAIN ci' : ci'[c] = "success" => c \in green'
  <2>1. ASSUME NEW commit, StartCi(commit)
        PROVE  /\ ci' = [c \in DOMAIN ci' |-> ci'[c]]
               /\ \A c \in DOMAIN ci' : ci'[c] = "success" => c \in green'
    <3>1. /\ ci' = [c \in DOMAIN ci \cup {commit} |-> IF c = commit THEN "running" ELSE ci[c]]
          /\ green' = green
      BY <2>1 DEF StartCi
    <3> QED BY <3>1 DEF EvidenceInv, RepositoryInv
  <2>2. ASSUME NEW commit \in DOMAIN ci, NEW conclusion, EndCi(commit, conclusion)
        PROVE  /\ ci' = [c \in DOMAIN ci' |-> ci'[c]]
               /\ \A c \in DOMAIN ci' : ci'[c] = "success" => c \in green'
    <3>1. /\ ci' = [ci EXCEPT ![commit] = conclusion]
          /\ conclusion = "success" => green' = green \cup {commit}
      BY <2>2 DEF EndCi
    <3> QED BY <1>1, <3>1 DEF EvidenceInv, RepositoryInv
  <2> QED BY <2>1, <2>2
<1>3. RepositoryInv'
  BY <1>1, <1>2 DEF EvidenceInv, RepositoryInv, PullNow
<1>4. HeadsKept
  BY <1>1 DEF HeadsKept
<1> QED BY <1>1, <1>3, <1>4, RepositoryStep

(* A pull request is opened, with the branch for its head.                  *)
LEMMA OpenPullStep ==
  ASSUME EvidenceInv, OpenPull
  PROVE  EvidenceInv'
<1> DEFINE P == [open : BOOLEAN, head : Commit]
           new == [open |-> TRUE, head |-> None]
           first == {branch}
<1>1. /\ UNCHANGED <<branch, base, ci, green, requestVars>>
      /\ pulls' = Append(pulls, new) /\ heads' = Append(heads, first)
      /\ pulls \in Seq(P) /\ heads \in Seq(SUBSET Commit) /\ Len(heads) = Len(pulls)
  BY DEF OpenPull, EvidenceInv, RepositoryInv
<1>2. new \in P /\ new.open /\ first \in SUBSET Commit /\ branch \in first
  BY EmptySeq DEF None, Commit, EvidenceInv, RepositoryInv
<1> HIDE DEF new, P, first
<1>3. /\ pulls' \in Seq(P) /\ Len(pulls) \in Nat /\ Len(pulls') = Len(pulls) + 1
      /\ DOMAIN pulls = 1..Len(pulls) /\ DOMAIN pulls' = 1..Len(pulls')
      /\ \A n \in DOMAIN pulls : pulls'[n] = pulls[n]
      /\ pulls'[Len(pulls) + 1] = new
  BY <1>1, <1>2, AppendProperties, LenProperties
<1>4. /\ heads' \in Seq(SUBSET Commit) /\ Len(heads') = Len(heads) + 1
      /\ DOMAIN heads = 1..Len(heads) /\ DOMAIN heads' = 1..Len(heads')
      /\ \A n \in DOMAIN heads : heads'[n] = heads[n]
      /\ heads'[Len(heads) + 1] = first
  BY <1>1, <1>2, AppendProperties, LenProperties
<1>5. HeadsKept
  BY <1>1, <1>3, <1>4 DEF HeadsKept
<1>6. ASSUME NEW n \in DOMAIN pulls' PROVE PullNow(n)'.head \in heads'[n]
  <2>1. CASE n \in DOMAIN pulls
    <3>1. PullNow(n).head \in heads[n] /\ n \in DOMAIN heads
      BY <1>1, <1>3, <1>4, <2>1 DEF EvidenceInv, RepositoryInv
    <3> QED BY <1>1, <1>3, <1>4, <2>1, <3>1 DEF PullNow
  <2>2. CASE n = Len(pulls) + 1
    BY <1>1, <1>2, <1>3, <1>4, <2>2 DEF PullNow
  <2> QED BY <1>3, <2>1, <2>2
<1>7. RepositoryInv'
  BY <1>1, <1>3, <1>4, <1>6 DEF EvidenceInv, RepositoryInv, P
<1> QED BY <1>1, <1>5, <1>7, RepositoryStep

(* A pull request is closed or merged: its head is that of the branch then. *)
LEMMA ClosePullStep ==
  ASSUME EvidenceInv, NEW n \in DOMAIN pulls, ClosePull(n)
  PROVE  EvidenceInv'
<1> DEFINE P == [open : BOOLEAN, head : Commit]
           new == [open |-> FALSE, head |-> branch]
<1>1. /\ UNCHANGED <<branch, base, ci, green, heads, requestVars>>
      /\ pulls' = [pulls EXCEPT ![n] = new]
      /\ pulls \in Seq(P) /\ branch \in Commit /\ pulls[n].open
  BY DEF ClosePull, EvidenceInv, RepositoryInv
<1>2. new \in P /\ new.head = branch /\ ~new.open
  BY <1>1
<1> HIDE DEF new, P
<1>3. DOMAIN pulls = 1..Len(pulls)
  BY <1>1, LenProperties
<1>4. /\ pulls' \in Seq(P) /\ DOMAIN pulls' = DOMAIN pulls /\ Len(pulls') = Len(pulls)
      /\ pulls'[n] = new
      /\ \A m \in DOMAIN pulls : m # n => pulls'[m] = pulls[m]
  BY <1>1, <1>2, <1>3, ExceptSeq, LenProperties
<1>5. ASSUME NEW m \in DOMAIN pulls PROVE PullNow(m)'.head = PullNow(m).head
  BY <1>1, <1>2, <1>4 DEF PullNow
<1>6. RepositoryInv'
  BY <1>1, <1>4, <1>5 DEF EvidenceInv, RepositoryInv, P
<1>7. HeadsKept
  BY <1>1 DEF HeadsKept
<1> QED BY <1>1, <1>6, <1>7, RepositoryStep

(* Before the start is frozen nothing is published, read or frozen of it.   *)
LEMMA StartupSteps ==
  ASSUME EvidenceInv, ReadStart \/ ReadOpenPulls
  PROVE  EvidenceInv'
<1>1. /\ startup.at # "frozen" /\ UNCHANGED <<branchVars, publication, collector, evidence>>
  BY DEF ReadStart, ReadOpenPulls
<1>2. publication = None /\ collector.at = "idle" /\ evidence = None
  BY <1>1 DEF EvidenceInv, EffectInv, CollectorInv, FrozenInv
<1>3. DOMAIN startup' = {"at", "starting", "exists", "pulls"}
  BY DEF ReadStart, ReadOpenPulls, NoStartup, EvidenceInv, EffectInv
<1>4. RepositoryInv'
  BY <1>1 DEF EvidenceInv, RepositoryInv, PullNow, branchVars
<1> QED
  BY <1>1, <1>2, <1>3, <1>4 DEF EvidenceInv, EffectInv, CollectorInv, FrozenInv

(* Publisher commits.                                                       *)
LEMMA PublishRunStep ==
  ASSUME EvidenceInv, PublishRun
  PROVE  EvidenceInv'
<1>1. /\ startup.at = "frozen" /\ publication = None /\ branch = base
      /\ branch' = Append(branch, "run")
      /\ publication' = [base |-> base, commit |-> branch']
      /\ PullsFollow
      /\ UNCHANGED <<project, base, ci, ciRuns, green, pulls, startup, collector, evidence>>
  BY DEF PublishRun
<1>2. collector.at = "idle" /\ evidence = None
  BY <1>1 DEF EvidenceInv, CollectorInv, FrozenInv
<1>3. RepositoryInv' /\ branch' \in Commit
  <2>1. RepositoryInv'
    BY <1>1, BranchGrows DEF Labels
  <2> QED BY <2>1 DEF RepositoryInv
<1>4. Extends(branch', branch')
  BY <1>3, ExtendsItself
<1>5. /\ publication'.commit = branch' /\ publication'.base = base
  BY <1>1
<1>6. EffectInv'
  BY <1>1, <1>3, <1>4, <1>5 DEF EvidenceInv, EffectInv
<1>7. CollectorInv' /\ FrozenInv'
  BY <1>1, <1>2 DEF EvidenceInv, CollectorInv, FrozenInv
<1> QED BY <1>3, <1>6, <1>7 DEF EvidenceInv

(* The collector moves: what it goes on with is so.                         *)
LEMMA CollectorStep ==
  ASSUME EvidenceInv, UNCHANGED <<branchVars, startup, publication>>, CollectorInv', FrozenInv'
  PROVE  EvidenceInv'
BY DEF EvidenceInv, RepositoryInv, EffectInv, PullNow, branchVars

(* The collector reads one thing after the other.                           *)
LEMMA CollectorSteps ==
  ASSUME EvidenceInv,
         \/ \E stage \in Stages, n \in DOMAIN branch :
              LoadPublication(stage, SubSeq(branch, 1, n))
         \/ InspectCi \/ ListPulls \/ ReadPull \/ EndCollector
  PROVE  EvidenceInv'
<1> USE DEF RepositoryKeeps
<1>1. /\ UNCHANGED <<branchVars, startup, publication, evidence>>
      /\ DOMAIN collector = {"at", "stage", "base", "ci", "pull"}
  BY DEF LoadPublication, InspectCi, ListPulls, ReadPull, EndCollector, EvidenceInv, CollectorInv
<1>2. \A pull : HadHead(pull) <=> HadHead(pull)'
  BY <1>1 DEF HadHead, branchVars
<1>3. FrozenInv'
  BY <1>1, <1>2 DEF EvidenceInv, FrozenInv, branchVars
<1>4. ASSUME NEW stage \in Stages, NEW commit, LoadPublication(stage, commit)
      PROVE  CollectorInv'
  <2>1. /\ publication # None /\ Extends(commit, publication.commit)
        /\ collector' = [NoCollector EXCEPT !.stage = stage, !.base = commit,
                           !.at = IF stage = "terminal" THEN "ci" ELSE "collected"]
    BY <1>4 DEF LoadPublication
  <2>2. /\ collector'.stage = stage /\ collector'.base = commit
        /\ collector'.at = (IF stage = "terminal" THEN "ci" ELSE "collected")
        /\ DOMAIN collector' = {"at", "stage", "base", "ci", "pull"}
    BY <2>1 DEF NoCollector
  <2> QED BY <1>1, <2>1, <2>2 DEF CollectorInv
<1>5. CASE InspectCi
  <2>1. /\ collector.at = "ci" /\ publication.commit \in DOMAIN ci
        /\ collector' = [collector EXCEPT !.ci = <<ci[publication.commit]>>, !.at = "pulls"]
    BY <1>5 DEF InspectCi, Inspected
  <2>2. /\ collector'.at = "pulls" /\ collector'.ci = <<ci[publication.commit]>>
        /\ collector'.base = collector.base
        /\ DOMAIN collector' = {"at", "stage", "base", "ci", "pull"}
    BY <1>1, <2>1
  <2>3. collector'.ci = <<"success">> => ci[publication.commit] = "success"
    BY <2>2
  <2>4. collector'.ci = <<"success">> => publication.commit \in green
    BY <2>1, <2>3 DEF EvidenceInv, RepositoryInv
  <2>6. CollectorInv'
    BY <1>1, <2>1, <2>2, <2>4 DEF EvidenceInv, CollectorInv, branchVars
  <2> QED BY <1>1, <1>3, <2>6, CollectorStep
<1>6. CASE ListPulls
  <2>1. PICK n \in DOMAIN pulls :
          collector' = [collector EXCEPT !.pull = PullNow(n), !.at = "pull"]
    BY <1>6 DEF ListPulls
  <2>2. HadHead(PullNow(n))
    <3>1. PullNow(n).number = n
      BY DEF PullNow
    <3>2. DOMAIN pulls = DOMAIN heads /\ PullNow(n).head \in heads[n]
      BY LenProperties DEF EvidenceInv, RepositoryInv
    <3> QED BY <3>1, <3>2 DEF HadHead
  <2>3. /\ collector'.at = "pull" /\ collector'.pull = PullNow(n)
        /\ collector'.base = collector.base /\ collector'.stage = collector.stage
        /\ collector'.ci = collector.ci
        /\ DOMAIN collector' = {"at", "stage", "base", "ci", "pull"}
    BY <1>1, <2>1
  <2>4. collector.at = "pulls"
    BY <1>6 DEF ListPulls
  <2>5. HadHead(collector.pull)'
    BY <1>2, <2>2, <2>3
  <2>6. CollectorInv'
    BY <1>1, <2>3, <2>4, <2>5 DEF EvidenceInv, CollectorInv, branchVars
  <2> QED BY <1>1, <1>3, <2>6, CollectorStep
<1>7. CASE ReadPull
  <2>1. /\ collector.at = "pull" /\ PullNow(collector.pull.number) = collector.pull
        /\ collector' = [collector EXCEPT !.at = "collected"]
    BY <1>7 DEF ReadPull
  <2>2. /\ collector'.at = "collected"
        /\ collector'.base = collector.base /\ collector'.stage = collector.stage
        /\ collector'.ci = collector.ci
        /\ DOMAIN collector' = {"at", "stage", "base", "ci", "pull"}
    BY <1>1, <2>1
  <2>3. HadHead(collector.pull) /\ collector'.pull = collector.pull
    BY <1>1, <2>1 DEF EvidenceInv, CollectorInv
  <2>4. HadHead(collector.pull)'
    BY <1>2, <2>3
  <2>6. CollectorInv'
    BY <1>1, <2>1, <2>2, <2>4 DEF EvidenceInv, CollectorInv, branchVars
  <2> QED BY <1>1, <1>3, <2>6, CollectorStep
<1>8. CASE EndCollector
  <2>1. collector' = NoCollector
    BY <1>8 DEF EndCollector
  <2>6. CollectorInv'
    BY <1>1, <2>1 DEF CollectorInv, NoCollector
  <2> QED BY <1>1, <1>3, <2>6, CollectorStep
<1> QED
  BY <1>1, <1>3, <1>4, <1>5, <1>6, <1>7, <1>8, CollectorStep

(* The evidence is frozen.                                                  *)
LEMMA FreezeStep ==
  ASSUME EvidenceInv, Freeze
  PROVE  EvidenceInv'
<1>1. /\ collector.at = "collected" /\ publication.base = startup.starting
      /\ evidence' = [before |-> publication.base, after |-> publication.commit,
                      base |-> collector.base, stage |-> collector.stage,
                      ci |-> collector.ci, pull |-> collector.pull]
      /\ collector' = NoCollector
      /\ UNCHANGED <<branchVars, startup, publication>>
  BY DEF Freeze, FromItsStart, RepositoryKeeps
<1>2. /\ evidence'.before = publication.base /\ evidence'.after = publication.commit
      /\ evidence'.base = collector.base /\ evidence'.stage = collector.stage
      /\ evidence'.ci = collector.ci /\ evidence'.pull = collector.pull
  BY <1>1
<1>3. /\ publication # None /\ Extends(collector.base, publication.commit)
      /\ publication.commit = Append(publication.base, "run")
  BY <1>1 DEF EvidenceInv, CollectorInv, EffectInv
<1>4. collector.stage = "terminal" =>
        /\ collector.ci = <<"success">> /\ publication.commit \in green
        /\ collector.pull.head = publication.commit /\ HadHead(collector.pull)
  BY <1>1 DEF Freeze, FitsStage, IsSource, EvidenceInv, CollectorInv
<1>5. FrozenInv'
  <2>1. /\ startup' = startup /\ publication' = publication /\ green' = green
        /\ \A pull : HadHead(pull) <=> HadHead(pull)'
    BY <1>1 DEF branchVars, HadHead
  <2> QED BY <1>1, <1>2, <1>3, <1>4, <2>1 DEF FrozenInv
<1>6. CollectorInv'
  BY <1>1 DEF CollectorInv, NoCollector
<1> QED BY <1>1, <1>5, <1>6, CollectorStep

(* Every step keeps the invariant.                                          *)
LEMMA EvidenceSteps == EvidenceInv /\ [EvidenceNext]_evidenceVars => EvidenceInv'
<1> SUFFICES ASSUME EvidenceInv, [EvidenceNext]_evidenceVars PROVE EvidenceInv'
  OBVIOUS
<1>1. CASE UNCHANGED evidenceVars
  BY <1>1
     DEF evidenceVars, branchVars, requestVars, EvidenceInv, RepositoryInv, EffectInv,
       CollectorInv, FrozenInv, HadHead, PullNow
<1> QED
  BY <1>1, WorkStep, CiSteps, OpenPullStep, ClosePullStep, StartupSteps, PublishRunStep,
     CollectorSteps, FreezeStep
     DEF EvidenceNext

(* What is frozen as evidence of a run's start is what happened, and stays  *)
(* so whatever becomes of branch, CI and pull requests.                     *)
THEOREM EvidenceIsTrue == EvidenceSpec => []EvidenceHolds
<1>1. ASSUME EvidenceInv PROVE EvidenceHolds
  BY <1>1 DEF EvidenceInv, FrozenInv, EffectInv, EvidenceHolds
<1> QED BY <1>1, EvidenceStarts, EvidenceSteps, PTL DEF EvidenceSpec
===============================================================================
