----------------------------- MODULE BoundedProcess -----------------------------
(***************************************************************************)
(* _run_bounded_process of src/scripts/actions_journal_coordinator.py: a   *)
(* child process with two pipes, its output read up to a limit and until a *)
(* deadline.  The child may write, stop for ever, close a pipe and run on, *)
(* end, or leave a process of its own behind that still holds the pipes.   *)
(***************************************************************************)
EXTENDS Naturals, FiniteSets

CONSTANTS
  Pipes,      \* stdout and stderr
  Limit,      \* Limit[pipe]: what may be read from it
  Capacity,   \* what a pipe holds before a writer blocks
  Timeout,
  MaxWritten  \* bound: what is ever written to a pipe

ASSUME ProcessAssumption ==
  /\ Limit \in [Pipes -> Nat] /\ IsFiniteSet(Pipes)
  /\ Capacity \in Nat \ {0} /\ Timeout \in Nat \ {0} /\ MaxWritten \in Nat

VARIABLES
  child,       \* "none", "running", "exited" or "killed"
  holds,       \* the pipes it can write to
  descendant,  \* those a process it has left behind can write to
  written,     \* what has been written to each pipe
  pipe,        \* what is in it
  caller,      \* where the call is
  registered,  \* the pipes it still reads
  buffer,      \* what it has read of each
  elapsed      \* time since the start, up to the deadline

childVars == <<child, holds, descendant, written>>
callVars == <<caller, registered, buffer>>
processVars == <<childVars, pipe, callVars, elapsed>>

ProcessInit ==
  /\ child = "none" /\ holds = {} /\ descendant = {}
  /\ written = [p \in Pipes |-> 0]
  /\ pipe = [p \in Pipes |-> 0]
  /\ caller = "idle" /\ registered = {}
  /\ buffer = [p \in Pipes |-> 0]
  /\ elapsed = 0

HasWriter(p) == p \in holds \cup descendant

(* Popen may fail.                                                          *)
StartProcess ==
  /\ caller = "idle"
  /\ \/ child' = "running" /\ holds' = Pipes /\ caller' = "reading" /\ registered' = Pipes
     \/ caller' = "failed" /\ UNCHANGED <<child, holds, registered>>
  /\ UNCHANGED <<descendant, written, pipe, buffer, elapsed>>

-----------------------------------------------------------------------------
(* The processes.                                                           *)

Write(p) ==
  /\ HasWriter(p)
  /\ written[p] < MaxWritten /\ pipe[p] < Capacity
  /\ written' = [written EXCEPT ![p] = @ + 1]
  /\ pipe' = [pipe EXCEPT ![p] = @ + 1]
  /\ UNCHANGED <<child, holds, descendant, callVars, elapsed>>

(* A process closes a pipe, and may run on.                                 *)
ClosePipe(p) ==
  /\ \/ p \in holds /\ holds' = holds \ {p} /\ UNCHANGED descendant
     \/ p \in descendant /\ descendant' = descendant \ {p} /\ UNCHANGED holds
  /\ UNCHANGED <<child, written, pipe, callVars, elapsed>>

(* It inherits what the child still has open.                               *)
LeaveDescendant ==
  /\ child = "running"
  /\ descendant' = descendant \cup holds
  /\ UNCHANGED <<child, holds, written, pipe, callVars, elapsed>>

EndDescendant ==
  /\ descendant' = {}
  /\ UNCHANGED <<child, holds, written, pipe, callVars, elapsed>>

EndChild ==
  /\ child = "running"
  /\ child' = "exited" /\ holds' = {}
  /\ UNCHANGED <<descendant, written, pipe, callVars, elapsed>>

TimePasses ==
  /\ caller \in {"reading", "waiting"} /\ elapsed < Timeout
  /\ elapsed' = elapsed + 1
  /\ UNCHANGED <<childVars, pipe, callVars>>

-----------------------------------------------------------------------------
(* The call.  It looks at the clock before each round of reads; the reads of*)
(* the round it is in may still happen after the deadline.                  *)

Least(a, b) == IF a < b THEN a ELSE b

(* One byte more than the limit is asked for, to tell that it is exceeded.  *)
Chunk(p) == Least(pipe[p], Limit[p] - buffer[p] + 1)

ReadPipe(p) ==
  /\ caller = "reading" /\ p \in registered
  /\ pipe[p] > 0
  /\ buffer' = [buffer EXCEPT ![p] = @ + Chunk(p)]
  /\ pipe' = [pipe EXCEPT ![p] = @ - Chunk(p)]
  /\ caller' = IF buffer'[p] > Limit[p] THEN "failing" ELSE caller
  /\ UNCHANGED <<childVars, registered, elapsed>>

\* Mutant: a child that has ended has nothing more to say.
ChildIsGone(p) == child # "running"

(* An empty read: the pipe is empty and nobody can write to it any more,    *)
(* though the child may still run.                                          *)
AtEnd(p) == pipe[p] = 0 /\ ~HasWriter(p)

Unregister(p) ==
  /\ caller = "reading" /\ p \in registered
  /\ AtEnd(p)
  /\ registered' = registered \ {p}
  /\ caller' = IF registered' = {} THEN "waiting" ELSE caller
  /\ UNCHANGED <<childVars, pipe, buffer, elapsed>>

\* Mutant: process.wait has no timeout.
ReadDeadline ==
  /\ caller = "reading" /\ elapsed = Timeout
  /\ caller' = "failing"
  /\ UNCHANGED <<childVars, pipe, registered, buffer, elapsed>>

(* Before a round of reads, in select, before process.wait and in it.       *)
Deadline ==
  /\ caller \in {"reading", "waiting"} /\ elapsed = Timeout
  /\ caller' = "failing"
  /\ UNCHANGED <<childVars, pipe, registered, buffer, elapsed>>

(* process.wait returns the code of a child that has ended.                 *)
Return ==
  /\ caller = "waiting"
  /\ child # "running"
  /\ caller' = "returned"
  /\ UNCHANGED <<childVars, pipe, registered, buffer, elapsed>>

(* Every error ends in the finally clause, which leaves no child running.   *)
KillChild ==
  /\ caller = "failing"
  /\ caller' = "failed"
  /\ child' = (IF child = "running" THEN "killed" ELSE child) /\ holds' = {}
  /\ UNCHANGED <<descendant, written, pipe, registered, buffer, elapsed>>

CallStep ==
  \/ \E p \in Pipes : ReadPipe(p) \/ Unregister(p)
  \/ Deadline \/ Return \/ KillChild

ProcessNext ==
  \/ StartProcess
  \/ \E p \in Pipes : Write(p) \/ ClosePipe(p)
  \/ LeaveDescendant \/ EndDescendant \/ EndChild
  \/ TimePasses
  \/ CallStep

(* Time passes and the caller runs; nothing is asked of the child.          *)
ProcessFairness == WF_processVars(TimePasses) /\ WF_processVars(CallStep)

ProcessSpec == ProcessInit /\ [][ProcessNext]_processVars /\ ProcessFairness

-----------------------------------------------------------------------------
(* Properties.                                                              *)

(* A result holds all that was ever written, by the child and by whatever   *)
(* it left behind, within the limits; nobody can write any more, and the    *)
(* child, which may have outlived its pipes, ended by itself                *)
(* (actions_journal_coordinator.py:188-218).                                *)
ResultIsWhole ==
  caller = "returned" =>
    /\ child = "exited"
    /\ \A p \in Pipes :
         ~HasWriter(p) /\ buffer[p] = written[p] /\ buffer[p] <= Limit[p]

(* Whatever the child does, writing, holding its pipes or closing them and  *)
(* running on, the call ends, and leaves no child running (the deadlines of *)
(* the reads and of process.wait, and the finally clause, lines 186-234).   *)
CallEnds ==
  caller = "reading" ~> (caller \in {"returned", "failed"} /\ child # "running")
=============================================================================
