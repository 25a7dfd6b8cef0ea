---------------------------- MODULE TransportProofs ----------------------------
(***************************************************************************)
(* Proofs about the two transports the rest of the system is built on: a   *)
(* call of the GitHub API and a child process run to its end.  For every   *)
(* size of archive, any number of pipes, and every limit and deadline.     *)
(***************************************************************************)
EXTENDS GithubApi, BoundedProcess, TLAPS

-----------------------------------------------------------------------------
(* A call of the API.                                                       *)

Replies ==
  [status : Statuses \cup {0, 404}, body : Bodies, sent : Nat, arrived : Nat, stated : BOOLEAN]

ApiTypeOK ==
  /\ call \in [method : Methods, fault : Faults]
  /\ request \in {"none", "sent", "done", "refused", "lost"}
  /\ applied \in BOOLEAN
  /\ reply \in Replies
  /\ hop \in {"check", "wait", "storage", "told"}
  /\ outcome \in [kind : {"none", "error", "value"}, status : Nat, length : Nat]

(* Only what GitHub has begun to carry out can have been applied.           *)
RequestInv ==
  /\ hop = "check" => request = "none" /\ reply = NoReply
  /\ request # "done" => ~applied
  /\ hop # "told" => outcome = NoOutcome

(* The answer a caller still waits for is that to its own request; once it  *)
(* follows a redirect its request is behind it.                             *)
ReplyInv ==
  /\ hop = "wait" /\ reply # NoReply =>
       /\ request \in {"done", "refused"}
       /\ reply.status \in 200..299 => request = "done" /\ applied
       /\ reply.status \in 400..499 => request = "refused"
  /\ hop = "storage" => call.method = "download" /\ request # "sent"

ApiInv == ApiTypeOK /\ RequestInv /\ ReplyInv /\ OutcomeIsTrue

(* The classes of the status codes.                                         *)
LEMMA StatusClasses ==
  ASSUME NEW status \in Statuses
  PROVE  /\ status \in Nat
         /\ IsSuccess(status) <=> status \in 200..299
         /\ status \div 100 \in {3, 4} <=> status \in 300..499
         /\ status \div 100 = 5 <=> status \in 500..599
BY DEF Statuses, IsSuccess

(* The invariant holds before anything is asked.                            *)
LEMMA ApiStarts == ApiInit => ApiInv
<1> SUFFICES ASSUME ApiInit PROVE ApiInv
  OBVIOUS
<1>1. NoReply \in Replies
  BY DEF NoReply, Replies, Bodies
<1>2. ApiTypeOK
  BY <1>1 DEF ApiInit, ApiTypeOK, NoOutcome
<1>3. RequestInv /\ ReplyInv /\ OutcomeIsTrue
  BY DEF ApiInit, RequestInv, ReplyInv, OutcomeIsTrue, NoOutcome
<1> QED BY <1>2, <1>3 DEF ApiInv

(* Telling an error or a value ends the call.                               *)
LEMMA ToldType ==
  ASSUME NEW kind \in {"error", "value"}, NEW status \in Nat, NEW length \in Nat,
         Tell(kind, status, length)
  PROVE  /\ outcome' \in [kind : {"none", "error", "value"}, status : Nat, length : Nat]
         /\ outcome'.kind = kind /\ outcome'.status = status /\ outcome'.length = length
         /\ hop' = "told"
BY DEF Tell

(* An error outside of 400..499 claims nothing.                             *)
LEMMA VagueError ==
  ASSUME ApiInv, NEW status \in Nat \ 400..499, ErrorOf(status),
         UNCHANGED <<call, request, applied, reply>>
  PROVE  ApiInv'
<1>1. /\ outcome' \in [kind : {"none", "error", "value"}, status : Nat, length : Nat]
      /\ outcome'.kind = "error" /\ outcome'.status = status
      /\ hop' = "told"
  BY ToldType DEF ErrorOf
<1>2. ApiTypeOK'
  BY <1>1 DEF ApiInv, ApiTypeOK
<1>3. RequestInv' /\ ReplyInv' /\ OutcomeIsTrue'
  BY <1>1 DEF ApiInv, RequestInv, ReplyInv, OutcomeIsTrue
<1> QED BY <1>2, <1>3 DEF ApiInv

(* What the caller takes for the answer to an effect or a reading.          *)
LEMMA TakeReplyStep == ApiInv /\ TakeReply => ApiInv'
<1> SUFFICES ASSUME ApiInv, TakeReply PROVE ApiInv'
  OBVIOUS
<1> DEFINE status == reply.status
<1>1. /\ hop = "wait" /\ call.method # "download" /\ reply # NoReply
      /\ UNCHANGED <<call, request, applied, reply>>
      /\ status \in Nat
  BY DEF TakeReply, ApiInv, ApiTypeOK, Replies, Statuses
<1>2. CASE ErrorOf(status)
  <2>1. CASE status \in 400..499
    <3>1. request = "refused" /\ ~applied
      BY <1>1, <2>1 DEF ApiInv, RequestInv, ReplyInv
    <3>2. /\ outcome' \in [kind : {"none", "error", "value"}, status : Nat, length : Nat]
          /\ outcome'.kind = "error"
          /\ hop' = "told"
      BY <1>1, <1>2, ToldType DEF ErrorOf
    <3> QED
      BY <1>1, <3>1, <3>2 DEF ApiInv, ApiTypeOK, RequestInv, ReplyInv, OutcomeIsTrue
  <2> QED BY <1>1, <1>2, <2>1, VagueError
<1>3. CASE Tell("value", status, 0) /\ status \in 200..299
  <2>1. request = "done" /\ applied
    BY <1>1, <1>3 DEF ApiInv, ReplyInv
  <2>2. /\ outcome' \in [kind : {"none", "error", "value"}, status : Nat, length : Nat]
        /\ outcome'.kind = "value"
        /\ hop' = "told"
    BY <1>1, <1>3, ToldType
  <2> QED
    BY <1>1, <2>1, <2>2 DEF ApiInv, ApiTypeOK, RequestInv, ReplyInv, OutcomeIsTrue
<1> QED
  BY <1>1, <1>2, <1>3 DEF TakeReply, Answered

(* What the caller takes for an archive.                                    *)
LEMMA TakeArchiveStep == ApiInv /\ TakeArchive => ApiInv'
<1> SUFFICES ASSUME ApiInv, TakeArchive PROVE ApiInv'
  OBVIOUS
<1>1. /\ hop = "storage" /\ UNCHANGED <<call, request, applied, reply>>
      /\ call.method = "download" /\ reply.arrived \in Nat
  BY DEF TakeArchive, ApiInv, ApiTypeOK, Replies, ReplyInv
<1>2. CASE /\ Tell("value", 200, reply.arrived)
           /\ reply.arrived \in 1..MaxArchive /\ LengthAgrees
  <2>1. /\ outcome' \in [kind : {"none", "error", "value"}, status : Nat, length : Nat]
        /\ outcome'.kind = "value" /\ outcome'.length = reply.arrived
        /\ hop' = "told"
    BY <1>1, <1>2, ToldType
  <2>2. outcome'.length <= MaxArchive /\ (reply.stated => outcome'.length = reply.sent)
    BY <1>2, <2>1, ApiAssumption DEF LengthAgrees
  <2> QED
    BY <1>1, <2>1, <2>2 DEF ApiInv, ApiTypeOK, RequestInv, ReplyInv, OutcomeIsTrue
<1>3. CASE ErrorOf(502)
  BY <1>1, <1>3, VagueError
<1> QED BY <1>2, <1>3 DEF TakeArchive

(* GitHub answers the request the caller waits for, or has given up on.     *)
LEMMA ServeStep ==
  ASSUME ApiInv, NEW status \in Statuses, NEW body \in Bodies, Serve(status, body)
  PROVE  ApiInv'
<1>1. /\ request = "sent" /\ request' \in {"done", "refused"}
      /\ UNCHANGED <<call, hop, outcome>> /\ hop \notin {"check", "storage"}
      /\ reply' = [NoReply EXCEPT !.status = status, !.body = body]
  BY DEF Serve, ApiInv, RequestInv, ReplyInv
<1>2. reply' \in Replies /\ reply'.status = status /\ ~reply'.stated
  BY <1>1 DEF Replies, NoReply
<1>3. /\ status \in 200..299 => request' = "done" /\ applied' = TRUE
      /\ status \in 400..499 => request' = "refused"
      /\ request' = "refused" => applied' = FALSE
      /\ applied' \in BOOLEAN
  <2>1. /\ IsSuccess(status) <=> status \in 200..299
        /\ status \div 100 \in {3, 4} <=> status \in 300..499
        /\ status \div 100 = 5 <=> status \in 500..599
        /\ status \in Nat
    BY StatusClasses
  <2>2. request' = IF status \in 300..499 THEN "refused" ELSE "done"
    BY <2>1 DEF Serve
  <2>3. status \in 200..299 => applied' = TRUE
    BY <2>1 DEF Serve
  <2>4. ASSUME status \in 300..499 PROVE applied' = FALSE
    <3>1. ~IsSuccess(status) /\ ~(status \div 100 = 5)
      BY <2>1, <2>4
    <3>2. applied' \in {FALSE}
      BY <3>1 DEF Serve
    <3> QED BY <3>2
  <2>5. applied' \in BOOLEAN
    BY DEF Serve
  <2>6. request' = "refused" => status \in 300..499
    BY <2>2
  <2>7. /\ status \in 200..299 => request' = "done"
        /\ status \in 400..499 => request' = "refused"
    BY <2>1, <2>2
  <2> QED BY <2>3, <2>4, <2>5, <2>6, <2>7
<1>4. outcome.kind # "value" \/ call.method = "download"
  BY <1>1 DEF ApiInv, OutcomeIsTrue
<1>5. ApiTypeOK'
  BY <1>1, <1>2, <1>3 DEF ApiInv, ApiTypeOK
<1>6. RequestInv' /\ ReplyInv'
  BY <1>1, <1>2, <1>3 DEF ApiInv, RequestInv, ReplyInv
<1>7. OutcomeIsTrue'
  BY <1>1, <1>2, <1>4 DEF ApiInv, OutcomeIsTrue
<1> QED BY <1>5, <1>6, <1>7 DEF ApiInv

(* Every step of a call, of GitHub and of the network keeps the invariant.  *)
LEMMA ApiStep == ApiInv /\ [ApiNext]_apiVars => ApiInv'
<1> SUFFICES ASSUME ApiInv, [ApiNext]_apiVars PROVE ApiInv'
  OBVIOUS
<1> USE DEF ApiInv
<1>1. CASE Reject
  <2> DEFINE status == IF call.fault = "outside" /\ call.method \in {"effect", "read"}
                       THEN 403 ELSE 400
  <2>1. ErrorOf(status) /\ hop = "check" /\ UNCHANGED <<call, request, applied, reply>>
    BY <1>1 DEF Reject
  <2>2. /\ outcome' \in [kind : {"none", "error", "value"}, status : Nat, length : Nat]
        /\ outcome'.kind = "error" /\ hop' = "told"
    BY <2>1, ToldType DEF ErrorOf
  <2>3. request = "none" /\ ~applied
    BY <2>1 DEF RequestInv
  <2> QED BY <2>1, <2>2, <2>3 DEF ApiTypeOK, RequestInv, ReplyInv, OutcomeIsTrue
<1>2. CASE Send
  BY <1>2 DEF Send, ApiTypeOK, RequestInv, ReplyInv, OutcomeIsTrue, NoOutcome
<1>3. ASSUME NEW status \in Statuses, NEW body \in Bodies, Serve(status, body)
      PROVE  ApiInv'
  BY <1>3, ServeStep
<1>4. CASE LoseRequest
  BY <1>4 DEF LoseRequest, ApiTypeOK, RequestInv, ReplyInv, OutcomeIsTrue
<1>5. CASE LoseReply
  <2>1. reply' = NoReply /\ UNCHANGED <<call, request, applied, hop, outcome>>
    BY <1>5 DEF LoseReply
  <2>2. NoReply \in Replies /\ ~NoReply.stated
    BY DEF NoReply, Replies, Bodies
  <2> QED BY <2>1, <2>2 DEF ApiTypeOK, RequestInv, ReplyInv, OutcomeIsTrue
<1>6. ASSUME NEW status \in {200, 404}, NEW length \in Lengths,
             NEW arrived \in Lengths \cup {0}, NEW stated \in BOOLEAN,
             ServeArchive(status, length, arrived, stated)
      PROVE  ApiInv'
  <2>1. reply' \in Replies
    BY <1>6, ApiAssumption DEF ServeArchive, Replies, Bodies, Statuses
  <2>2. hop = "storage" /\ UNCHANGED <<call, request, applied, hop, outcome>>
    BY <1>6 DEF ServeArchive
  <2> QED
    <3>1. ApiTypeOK' /\ RequestInv' /\ ReplyInv'
      BY <2>1, <2>2 DEF ApiTypeOK, RequestInv, ReplyInv
    <3>2. OutcomeIsTrue'
      BY <2>2 DEF RequestInv, OutcomeIsTrue, NoOutcome
    <3> QED BY <3>1, <3>2
<1>7. CASE TakeReply
  BY <1>7, TakeReplyStep
<1>8. CASE TakeRedirect
  <2>1. CASE ErrorOf(502) /\ UNCHANGED reply
    BY <1>8, <2>1, VagueError DEF TakeRedirect
  <2>2. CASE reply.status = 302 /\ hop' = "storage" /\ reply' = NoReply /\ UNCHANGED outcome
    BY <1>8, <2>2
       DEF TakeRedirect, ApiTypeOK, Replies, Bodies, RequestInv, ReplyInv, OutcomeIsTrue,
         NoReply, NoOutcome
  <2> QED BY <1>8, <2>1, <2>2 DEF TakeRedirect
<1>9. CASE TakeArchive
  BY <1>9, TakeArchiveStep
<1>10. CASE GiveUp
  BY <1>10, VagueError DEF GiveUp
<1>11. CASE UNCHANGED apiVars
  BY <1>11 DEF apiVars, ApiTypeOK, RequestInv, ReplyInv, OutcomeIsTrue
<1> QED
  BY <1>1, <1>2, <1>3, <1>4, <1>5, <1>6, <1>7, <1>8, <1>9, <1>10, <1>11 DEF ApiNext

(* What a caller of the API is told of its request is true, and stays so.   *)
THEOREM OutcomeTruth == ApiSpec => []OutcomeIsTrue
<1>1. ApiInv => OutcomeIsTrue
  BY DEF ApiInv
<1> QED BY <1>1, ApiStarts, ApiStep, PTL DEF ApiSpec

-----------------------------------------------------------------------------
(* A child process and the call that runs it.                               *)

ProcessTypeOK ==
  /\ child \in {"none", "running", "exited", "killed"}
  /\ holds \subseteq Pipes /\ descendant \subseteq Pipes
  /\ written \in [Pipes -> Nat] /\ pipe \in [Pipes -> Nat] /\ buffer \in [Pipes -> Nat]
  /\ caller \in {"idle", "reading", "waiting", "returned", "failing", "failed"}
  /\ registered \subseteq Pipes

(* Nothing is lost between a writer and the reader, and a reader that is    *)
(* not failing has not passed its limit.                                    *)
PipesConserve == \A p \in Pipes : written[p] = buffer[p] + pipe[p]

WithinLimits ==
  caller \in {"idle", "reading", "waiting", "returned"} =>
    \A p \in Pipes : buffer[p] <= Limit[p]

(* A child is never killed under a call that can still return.              *)
ChildLives ==
  /\ caller = "idle" => child = "none"
  /\ caller \in {"reading", "waiting"} => child \in {"running", "exited"}
  /\ caller = "returned" => child = "exited"

(* A pipe the call no longer reads is empty and has no writer any more; the *)
(* call waits only when that is so of every pipe.                           *)
Drained(p) == pipe[p] = 0 /\ ~HasWriter(p)

ClosedPipes ==
  /\ caller = "reading" => \A p \in Pipes \ registered : Drained(p)
  /\ caller \in {"waiting", "returned"} => \A p \in Pipes : Drained(p)

ProcessInv ==
  ProcessTypeOK /\ PipesConserve /\ WithinLimits /\ ChildLives /\ ClosedPipes

(* A read takes no more than there is, nor more than one byte too many.     *)
LEMMA ChunkBounds ==
  ASSUME ProcessInv, NEW p \in Pipes, caller = "reading"
  PROVE  Chunk(p) \in Nat /\ Chunk(p) <= pipe[p]
BY ProcessAssumption DEF ProcessInv, ProcessTypeOK, WithinLimits, Chunk, Least

(* One read moves bytes from the pipe to the buffer.                        *)
LEMMA ReadPipeStep ==
  ASSUME ProcessInv, NEW p \in Pipes, ReadPipe(p)
  PROVE  ProcessInv'
<1>1. /\ Chunk(p) \in Nat /\ Chunk(p) <= pipe[p]
      /\ buffer' = [buffer EXCEPT ![p] = @ + Chunk(p)]
      /\ pipe' = [pipe EXCEPT ![p] = @ - Chunk(p)]
      /\ caller = "reading"
      /\ UNCHANGED <<child, holds, descendant, written, registered, elapsed>>
  BY ChunkBounds DEF ReadPipe, childVars
<1>2. caller' = (IF buffer'[p] > Limit[p] THEN "failing" ELSE "reading") /\ p \in registered
  BY <1>1 DEF ReadPipe
<1>3. /\ ProcessTypeOK'
      /\ \A q \in Pipes : q # p => buffer'[q] = buffer[q] /\ pipe'[q] = pipe[q]
      /\ buffer'[p] = buffer[p] + Chunk(p) /\ pipe'[p] = pipe[p] - Chunk(p)
  BY <1>1, <1>2 DEF ProcessInv, ProcessTypeOK
<1>4. PipesConserve'
  BY <1>1, <1>3 DEF ProcessInv, ProcessTypeOK, PipesConserve
<1>5. WithinLimits'
  BY <1>1, <1>2, <1>3, ProcessAssumption DEF ProcessInv, ProcessTypeOK, WithinLimits
<1>6. ChildLives' /\ ClosedPipes'
  BY <1>1, <1>2, <1>3 DEF ProcessInv, ChildLives, ClosedPipes, Drained, HasWriter
<1> QED BY <1>3, <1>4, <1>5, <1>6 DEF ProcessInv

(* A pipe that is read no more is one nobody writes to.                     *)
LEMMA UnregisterStep ==
  ASSUME ProcessInv, NEW p \in Pipes, Unregister(p)
  PROVE  ProcessInv'
<1>1. /\ pipe[p] = 0 /\ ~HasWriter(p) /\ caller = "reading"
      /\ registered' = registered \ {p}
      /\ caller' = IF registered' = {} THEN "waiting" ELSE caller
      /\ UNCHANGED <<child, holds, descendant, written, pipe, buffer, elapsed>>
  BY DEF Unregister, AtEnd, childVars
<1>2. \A q \in Pipes \ registered' : Drained(q)
  BY <1>1 DEF ProcessInv, ClosedPipes, Drained
<1>3. ProcessTypeOK' /\ PipesConserve' /\ WithinLimits' /\ ChildLives'
  BY <1>1 DEF ProcessInv, ProcessTypeOK, PipesConserve, WithinLimits, ChildLives
<1>4. ClosedPipes'
  BY <1>1, <1>2 DEF ClosedPipes, Drained, HasWriter
<1> QED BY <1>3, <1>4 DEF ProcessInv

(* What a writer puts into a pipe is in it.                                 *)
LEMMA WriteStep ==
  ASSUME ProcessInv, NEW p \in Pipes, Write(p)
  PROVE  ProcessInv'
<1>1. /\ HasWriter(p)
      /\ written' = [written EXCEPT ![p] = @ + 1]
      /\ pipe' = [pipe EXCEPT ![p] = @ + 1]
      /\ UNCHANGED <<child, holds, descendant, caller, registered, buffer, elapsed>>
  BY DEF Write, callVars
<1>2. ProcessTypeOK' /\ PipesConserve' /\ WithinLimits' /\ ChildLives'
  BY <1>1 DEF ProcessInv, ProcessTypeOK, PipesConserve, WithinLimits, ChildLives
<1>3. ClosedPipes'
  BY <1>1 DEF ProcessInv, ClosedPipes, Drained, HasWriter
<1> QED BY <1>2, <1>3 DEF ProcessInv

(* Every step of the processes, of time and of the call keeps the invariant.*)
LEMMA ProcessStep == ProcessInv /\ [ProcessNext]_processVars => ProcessInv'
<1> SUFFICES ASSUME ProcessInv, [ProcessNext]_processVars PROVE ProcessInv'
  OBVIOUS
<1> USE DEF ProcessInv, ProcessTypeOK, PipesConserve, WithinLimits, ChildLives, ClosedPipes,
            Drained, HasWriter, childVars, callVars
<1>1. CASE StartProcess
  BY <1>1, ProcessAssumption DEF StartProcess
<1>2. ASSUME NEW p \in Pipes, Write(p) PROVE ProcessInv'
  BY <1>2, WriteStep
<1>3. CASE LeaveDescendant
  BY <1>3 DEF LeaveDescendant
<1>4. ASSUME NEW p \in Pipes, ClosePipe(p) PROVE ProcessInv'
  BY <1>4 DEF ClosePipe
<1>5. CASE EndDescendant
  BY <1>5 DEF EndDescendant
<1>6. CASE EndChild
  BY <1>6 DEF EndChild
<1>7. CASE TimePasses
  BY <1>7 DEF TimePasses
<1>8. ASSUME NEW p \in Pipes, ReadPipe(p) PROVE ProcessInv'
  BY <1>8, ReadPipeStep
<1>9. ASSUME NEW p \in Pipes, Unregister(p) PROVE ProcessInv'
  BY <1>9, UnregisterStep
<1>10. CASE Deadline
  BY <1>10 DEF Deadline
<1>11. CASE Return
  BY <1>11 DEF Return
<1>12. CASE KillChild
  BY <1>12 DEF KillChild
<1>13. CASE UNCHANGED processVars
  BY <1>13 DEF processVars
<1> QED
  BY <1>1, <1>2, <1>3, <1>4, <1>5, <1>6, <1>7, <1>8, <1>9, <1>10, <1>11, <1>12, <1>13
     DEF ProcessNext, CallStep

(* A result is whole: it holds everything that was ever written to any pipe,*)
(* within the limits, and comes from a child that ended by itself.          *)
THEOREM ResultWhole == ProcessSpec => []ResultIsWhole
<1>1. ASSUME ProcessInit PROVE ProcessInv
  <2>1. \A p \in Pipes : Limit[p] \in Nat
    BY ProcessAssumption
  <2>2. /\ written \in [Pipes -> Nat] /\ pipe \in [Pipes -> Nat] /\ buffer \in [Pipes -> Nat]
        /\ \A p \in Pipes : written[p] = 0 /\ pipe[p] = 0 /\ buffer[p] = 0
    BY <1>1 DEF ProcessInit
  <2>3. ProcessTypeOK /\ ChildLives /\ ClosedPipes
    BY <1>1, <2>2 DEF ProcessInit, ProcessTypeOK, ChildLives, ClosedPipes
  <2>4. PipesConserve /\ WithinLimits
    BY <2>1, <2>2 DEF PipesConserve, WithinLimits
  <2> QED BY <2>3, <2>4 DEF ProcessInv
<1>2. ProcessInv => ResultIsWhole
  BY DEF ProcessInv, ProcessTypeOK, PipesConserve, WithinLimits, ChildLives, ClosedPipes,
       Drained, ResultIsWhole
<1> QED BY <1>1, <1>2, ProcessStep, PTL DEF ProcessSpec
=============================================================================
