------------------------------- MODULE GithubApi --------------------------------
(***************************************************************************)
(* The transport of src/scripts/actions_github_api.py: what one call tells *)
(* its caller of what GitHub did.  A request may be lost, be carried out   *)
(* after the caller has given up, or be carried out and its answer lost;   *)
(* an answer may be cut short.                                             *)
(*                                                                         *)
(* External: GitHub carries out what it answers with 2xx, has not carried  *)
(* out and will not what it answers with 4xx, and may have when it answers *)
(* with 5xx.                                                               *)
(***************************************************************************)
EXTENDS Naturals

CONSTANTS
  Lengths,     \* lengths of an archive
  MaxArchive   \* MAX_ARTIFACT_ARCHIVE_BYTES

ASSUME ApiAssumption == Lengths \subseteq Nat \ {0} /\ MaxArchive \in Nat

VARIABLES
  call,     \* what is asked for, and what is wrong with the request
  request,  \* "none", "sent", "done", "refused" or "lost"
  applied,  \* has GitHub carried it out?
  reply,    \* GitHub's answer, under way
  hop,      \* how far the caller is
  outcome   \* what it was told

apiVars == <<call, request, applied, reply, hop, outcome>>

(* request, public_zach_get, download_artifact.                             *)
Methods == {"effect", "read", "public", "download"}
(* Method, path or body that cannot be sent; a path outside the namespace.  *)
Faults == {"none", "malformed", "outside"}

(* "good" and "empty": a JSON value, nothing at all; "damaged": not JSON,   *)
(* too large or cut short.                                                  *)
Bodies == {"good", "empty", "damaged"}

NoReply == [status |-> 0, body |-> "empty", sent |-> 0, arrived |-> 0, stated |-> FALSE]
NoOutcome == [kind |-> "none", status |-> 0, length |-> 0]

ApiInit ==
  /\ call \in [method : Methods, fault : Faults]
  /\ request = "none" /\ applied = FALSE
  /\ reply = NoReply
  /\ hop = "check" /\ outcome = NoOutcome

Tell(kind, status, length) ==
  /\ outcome' = [kind |-> kind, status |-> status, length |-> length]
  /\ hop' = "told"

ErrorOf(status) == Tell("error", status, 0)

-----------------------------------------------------------------------------
(* Before anything is sent.                                                 *)

(* _validate_path, the shape of the body, an artifact's reference.          *)
Reject ==
  /\ hop = "check" /\ call.fault # "none"
  /\ ErrorOf(IF call.fault = "outside" /\ call.method \in {"effect", "read"} THEN 403 ELSE 400)
  /\ UNCHANGED <<call, request, applied, reply>>

Send ==
  /\ hop = "check" /\ call.fault = "none"
  /\ request' = "sent" /\ hop' = "wait"
  /\ UNCHANGED <<call, applied, reply, outcome>>

-----------------------------------------------------------------------------
(* GitHub and the network.                                                  *)

Statuses == {200, 201, 202, 204, 206, 302, 403, 422, 500, 503}

IsSuccess(status) == status \div 100 = 2

(* A redirect and a refusal do nothing; a download's first answer should be *)
(* a redirect to the storage.                                               *)
Serve(status, body) ==
  /\ request = "sent"
  /\ applied' \in IF IsSuccess(status) THEN {TRUE}
                  ELSE IF status \div 100 = 5 THEN BOOLEAN ELSE {FALSE}
  /\ request' = IF status \div 100 \in {3, 4} THEN "refused" ELSE "done"
  /\ reply' = [NoReply EXCEPT !.status = status, !.body = body]
  /\ UNCHANGED <<call, hop, outcome>>

LoseRequest ==
  /\ request = "sent"
  /\ request' = "lost"
  /\ UNCHANGED <<call, applied, reply, hop, outcome>>

LoseReply ==
  /\ reply # NoReply
  /\ reply' = NoReply
  /\ UNCHANGED <<call, request, applied, hop, outcome>>

(* The storage sends an archive; it states its length, or not, and the      *)
(* connection may break before all of it is there.                          *)
ServeArchive(status, length, arrived, stated) ==
  /\ hop = "storage" /\ reply = NoReply
  /\ arrived <= length
  /\ reply' = [status |-> status, body |-> "good", sent |-> length,
               arrived |-> arrived, stated |-> stated]
  /\ UNCHANGED <<call, request, applied, hop, outcome>>

-----------------------------------------------------------------------------
(* What the caller is told.                                                 *)

Answered(status, body) ==
  IF call.method = "public" /\ status # 200 THEN ErrorOf(status)
  ELSE IF status = 204 /\ body = "empty" THEN Tell("value", status, 0)
  ELSE IF status \in {200, 201, 202} /\ body = "good" THEN Tell("value", status, 0)
  ELSE ErrorOf(status)

(* A redirect is refused, an error status and an unreadable answer are the  *)
(* error of that status.                                                    *)
TakeReply ==
  /\ hop = "wait" /\ call.method # "download" /\ reply # NoReply
  /\ Answered(reply.status, reply.body)
  /\ UNCHANGED <<call, request, applied, reply>>

(* Only one redirect, to the storage, is followed; where it may lead is not *)
(* modelled, it is followed or not.                                         *)
TakeRedirect ==
  /\ hop = "wait" /\ call.method = "download" /\ reply # NoReply
  /\ \/ reply.status = 302 /\ hop' = "storage" /\ reply' = NoReply /\ UNCHANGED outcome
     \/ ErrorOf(502) /\ UNCHANGED reply
  /\ UNCHANGED <<call, request, applied>>

LengthAgrees == reply.stated => reply.sent <= MaxArchive /\ reply.arrived = reply.sent

TakeArchive ==
  /\ hop = "storage" /\ reply # NoReply
  /\ IF /\ reply.status = 200
        /\ reply.arrived \in 1..MaxArchive
        /\ LengthAgrees
     THEN Tell("value", 200, reply.arrived)
     ELSE ErrorOf(502)
  /\ UNCHANGED <<call, request, applied, reply>>

\* Mutant: a timeout is a refusal.
GiveUpAsRefused ==
  /\ hop \in {"wait", "storage"}
  /\ ErrorOf(408)
  /\ UNCHANGED <<call, request, applied, reply>>

(* Timeout (504), or any failure of the network or of the reader (500).     *)
GiveUp ==
  /\ hop \in {"wait", "storage"}
  /\ IF call.method = "download" THEN ErrorOf(502)
     ELSE \E status \in {500, 504} : ErrorOf(status)
  /\ UNCHANGED <<call, request, applied, reply>>

ApiNext ==
  \/ Reject \/ Send
  \/ \E status \in Statuses, body \in Bodies : Serve(status, body)
  \/ LoseRequest \/ LoseReply
  \/ \E status \in {200, 404}, length \in Lengths, arrived \in Lengths \cup {0}, stated \in BOOLEAN :
       ServeArchive(status, length, arrived, stated)
  \/ TakeReply \/ TakeRedirect \/ TakeArchive \/ GiveUp

ApiSpec == ApiInit /\ [][ApiNext]_apiVars

-----------------------------------------------------------------------------
(* What a caller is told is true whenever it looks: after an error that     *)
(* dispatch_recipe takes for a refusal (400..499,                           *)
(* actions_recipe_dispatch.py:402-405) GitHub has not carried the request   *)
(* out and will not, a value means that it has, and an archive whose length *)
(* was stated is whole (actions_github_api.py:129-341).                     *)
OutcomeIsTrue ==
  /\ outcome.kind = "error" /\ outcome.status \in 400..499 =>
       ~applied /\ request \notin {"sent", "done"}
  /\ outcome.kind = "value" /\ call.method # "download" => applied /\ request = "done"
  /\ outcome.kind = "value" /\ call.method = "download" =>
       outcome.length <= MaxArchive /\ (reply.stated => outcome.length = reply.sent)
=============================================================================
