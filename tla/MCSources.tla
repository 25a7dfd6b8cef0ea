------------------------------- MODULE MCSources --------------------------------
(***************************************************************************)
(* Small instances of the parts that only tell the phases something: how a *)
(* listing is read, what CI and the transport answer, how a child process  *)
(* is run, and where the sources of a ledger publication come from.  They  *)
(* share nothing, so that each behaviour is one of one part.               *)
(***************************************************************************)
EXTENDS StableScan, CiInspection, BoundedProcess, GithubApi, LedgerProducer, LedgerEvidence

VARIABLE subject

Text(author, kind, mine, damage, bundle) ==
  [author |-> author, kind |-> kind, mine |-> mine, damage |-> damage, bundle |-> bundle]

MCContents ==
  {Text("publisher", kind, TRUE, "none", 1) : kind \in {"prepare", "publication", "published"}}
  \cup {Text("control", kind, TRUE, "none", 1) : kind \in {"receipt", "run"}}
  \cup {Text("publisher", "prepare", FALSE, "marker", 2)}

MCPipes == {"stdout", "stderr"}
MCLimit == [p \in MCPipes |-> IF p = "stdout" THEN 3 ELSE 1]

Others(part) ==
  /\ subject = part
  /\ part # "scan" => UNCHANGED scanVars
  /\ part # "ci" => UNCHANGED ciVars
  /\ part # "process" => UNCHANGED processVars
  /\ part # "api" => UNCHANGED apiVars
  /\ part # "producer" => UNCHANGED producerVars
  /\ part # "evidence" => UNCHANGED evidenceVars
  /\ UNCHANGED subject

Init ==
  /\ subject \in {"scan", "ci", "process", "api", "producer", "evidence"}
  /\ ScanInit /\ CiInit /\ ProcessInit /\ ApiInit /\ ProducerInit /\ EvidenceInit
  /\ subject # "scan" => query = "run"
  /\ subject # "api" => call = [method |-> "read", fault |-> "none"]
  /\ subject # "producer" => closure
  /\ subject # "evidence" => project = "governance" /\ base = Root

Next ==
  \/ ScanNext /\ Others("scan")
  \/ CiNext /\ Others("ci")
  \/ ProcessNext /\ Others("process")
  \/ ApiNext /\ Others("api")
  \/ ProducerNext /\ Others("producer")
  \/ EvidenceNext /\ Others("evidence")

vars == <<subject, scanVars, ciVars, processVars, apiVars, producerVars, evidenceVars>>

Fairness ==
  /\ WF_vars(TimePasses /\ Others("process"))
  /\ WF_vars(CallStep /\ Others("process"))

Spec == Init /\ [][Next]_vars /\ Fairness
=============================================================================
