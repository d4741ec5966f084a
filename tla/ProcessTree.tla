------------------------------- MODULE ProcessTree -------------------------------
(***************************************************************************)
(* The termination of a command and of what it started (process_control.py): *)
(* on Windows by taskkill and repeated scans of the process table, elsewhere *)
(* by signals to its group.  The processes go on spawning and exiting while  *)
(* it works.                                                               *)
(***************************************************************************)
EXTENDS Integers, FiniteSets

CONSTANTS
  Pids,        \* process identifiers, numbers; none is used twice
  MaxScans,    \* scans of the table before the deadline
  Faults       \* a subset of {"table", "taskkill", "stubborn", "group", "unkillable"}:
               \* no process table, taskkill fails, SIGTERM is ignored, the group cannot be
               \* signalled, a process that was killed does not end

VARIABLES
  platform,    \* "nt" or "posix"
  parent,      \* pid -> pid of its parent, 0 when it has not been started
  alive,
  stubborn,    \* processes that ignore SIGTERM
  pc,
  tracked,     \* the family known to the scans
  remaining,
  scans,
  blind,       \* a scan found no table
  told         \* the log says what was left alive, or that the termination failed

vars == <<platform, parent, alive, stubborn, pc, tracked, remaining, scans, blind, told>>
system == <<parent, alive, stubborn>>
Root == 1

Init ==
  /\ platform \in {"nt", "posix"}
  /\ parent = [p \in Pids |-> IF p = Root THEN Root ELSE 0] /\ alive = {Root}
  /\ stubborn \in SUBSET (IF platform = "posix" /\ "stubborn" \in Faults THEN Pids ELSE {})
  /\ pc = "run" /\ tracked = {} /\ remaining = {}
  /\ scans = 0 /\ blind = FALSE /\ told = FALSE

(* --------------------------- the processes --------------------------- *)

Spawn(p, child) ==
  /\ p \in alive /\ parent[child] = 0 /\ pc # "done"
  /\ \A q \in Pids : q < child => parent[q] # 0        \* the next free identifier
  /\ parent' = [parent EXCEPT ![child] = p] /\ alive' = alive \cup {child}
  /\ UNCHANGED <<platform, stubborn, pc, tracked, remaining, scans, blind, told>>

Exit(p) ==
  /\ p \in alive /\ pc # "done"
  /\ alive' = alive \ {p}
  /\ UNCHANGED <<platform, parent, stubborn, pc, tracked, remaining, scans, blind, told>>

(* --------------------------- Windows --------------------------- *)

\* _windows_tracked_descendants: what the table shows below any process already known.
Expand(known) ==
  LET below[n \in 0 .. Cardinality(Pids)] ==
        IF n = 0 THEN known
        ELSE below[n - 1] \cup {p \in alive : parent[p] \in below[n - 1]}
  IN  below[Cardinality(Pids)]

\* taskkill /T ends the tree below a live process.
Killed(p) == IF p \in alive THEN alive \ Expand({p}) ELSE alive
TaskKill(p) == alive' \in {Killed(p)} \cup (IF "taskkill" \in Faults THEN {alive} ELSE {})

\* The table before the kill, empty when it cannot be had.
Cancel ==
  /\ pc = "run" /\ platform = "nt"
  /\ tracked' \in {Expand({Root})} \cup (IF "table" \in Faults THEN {{Root}} ELSE {})
  /\ pc' = "root"
  /\ UNCHANGED <<platform, system, remaining, scans, blind, told>>

KillRoot ==
  /\ pc = "root"
  /\ TaskKill(Root) /\ pc' = "scan"
  /\ UNCHANGED <<platform, parent, stubborn, tracked, remaining, scans, blind, told>>

\* One round of the loop reads the table; a failed one watches the command alone.
Scan ==
  /\ pc = "scan" /\ scans < MaxScans
  /\ scans' = scans + 1
  /\ \/ tracked' = Expand(tracked) /\ remaining' = tracked' \cap alive
     \/ "table" \in Faults /\ remaining' = {Root} \cap alive /\ UNCHANGED tracked
  /\ pc' = IF remaining' = {} THEN "final" ELSE "kill"
  /\ UNCHANGED <<platform, system, blind, told>>

KillOne ==
  /\ pc = "kill" /\ remaining # {}
  /\ LET p == CHOOSE p \in remaining : \A q \in remaining : q <= p IN
       remaining' = remaining \ {p} /\ TaskKill(p)
  /\ UNCHANGED <<platform, parent, stubborn, pc, tracked, scans, blind, told>>

\* process.kill, and whatever the system makes of it.
KillRootOnly == alive' \in {alive \ {Root}} \cup (IF "unkillable" \in Faults THEN {alive} ELSE {})

KillCommand ==
  /\ pc = "kill" /\ remaining = {}
  /\ KillRootOnly /\ pc' = "scan"
  /\ UNCHANGED <<platform, parent, stubborn, tracked, remaining, scans, blind, told>>

Deadline ==
  /\ pc = "scan" /\ scans > 0
  /\ KillRootOnly /\ told' = (Root \in alive') /\ pc' = "final"
  /\ UNCHANGED <<platform, parent, stubborn, tracked, remaining, scans, blind>>

Final ==
  /\ pc = "final" /\ pc' = "done"
  /\ \/ /\ tracked' = Expand(tracked) /\ told' = (told \/ tracked' \cap alive # {}) /\ UNCHANGED blind
     \/ "table" \in Faults /\ blind' = TRUE /\ UNCHANGED <<tracked, told>>
  /\ UNCHANGED <<platform, system, remaining, scans>>

(* --------------------------- elsewhere --------------------------- *)

\* SIGTERM to the group, unless the command has exited by itself.
Terminate ==
  /\ pc = "run" /\ platform = "posix"
  /\ IF Root \in alive THEN alive' = alive \cap stubborn /\ pc' = "wait"
     ELSE pc' = "done" /\ UNCHANGED alive
  /\ UNCHANGED <<platform, parent, stubborn, tracked, remaining, scans, blind, told>>

\* The command is waited for; when it ignores the signal, SIGKILL to the group.
Escalate ==
  /\ pc = "wait"
  /\ \/ Root \notin alive /\ UNCHANGED alive
     \/ Root \in alive /\ alive' \in {{}} \cup (IF "unkillable" \in Faults THEN SUBSET alive ELSE {})
  /\ told' = (Root \in alive') /\ pc' = "done"
  /\ UNCHANGED <<platform, parent, stubborn, tracked, remaining, scans, blind>>

\* The signal to the group raises: it is logged, and the command alone is asked to end,
Fallback ==
  /\ platform = "posix" /\ "group" \in Faults
  /\ pc \in {"run", "wait"} /\ Root \in alive
  /\ alive' = alive \ ({Root} \ stubborn) /\ told' = TRUE /\ pc' = "direct"
  /\ UNCHANGED <<platform, parent, stubborn, tracked, remaining, scans, blind>>

\* then killed, which nobody waits for.
KillDirectly ==
  /\ pc = "direct"
  /\ KillRootOnly /\ pc' = "done"
  /\ UNCHANGED <<platform, parent, stubborn, tracked, remaining, scans, blind, told>>

Work == \/ Cancel \/ KillRoot \/ Scan \/ KillOne \/ KillCommand \/ Deadline \/ Final
        \/ Terminate \/ Escalate \/ Fallback \/ KillDirectly
Next == Work \/ \E p \in Pids : Exit(p) \/ \E child \in Pids : Spawn(p, child)

Spec == Init /\ [][Next]_vars /\ WF_vars(Work)

(* --------------------------- properties --------------------------- *)

TypeOK ==
  /\ platform \in {"nt", "posix"} /\ parent \in [Pids -> Pids \cup {0}] /\ alive \subseteq Pids
  /\ pc \in {"run", "root", "scan", "kill", "final", "wait", "direct", "done"}
  /\ tracked \subseteq Pids /\ remaining \subseteq Pids /\ scans \in 0 .. MaxScans

\* "Walking only from the original root would miss those late descendants": on Windows, with a
\* process table at hand, nothing started by a process the scans had seen outlives the call
\* without a word in the log.
NoneOutlives ==
  pc = "done" /\ platform = "nt" /\ ~told /\ ~blind =>
    \A p \in alive : p \notin tracked /\ parent[p] \notin tracked

\* The command itself is gone when the call returns, on both platforms, or the log says why not.
CommandGone == pc = "done" => Root \notin alive \/ told

\* The call returns.
Terminating == pc \notin {"run", "done"}
Returns == Terminating ~> ~Terminating

\* No descendant outlives the call.  Does not hold: a process that starts another and exits between
\* two scans hides it, and elsewhere the group is left alone when the command is gone.
TreeGone == pc = "done" /\ ~told => alive = {}

(* The inductive invariant (ComponentProofs): the command was started first and is tracked as soon *)
(* as the table has been read; the last scan comes when it is dead, or the log says that it is not.*)
Started ==
  /\ parent[Root] = Root
  /\ pc \in {"root", "scan", "kill", "final"} => platform = "nt" /\ Root \in tracked
  /\ pc \in {"wait", "direct"} => platform = "posix"
  /\ pc \in {"run", "wait"} => ~told
  /\ pc = "direct" => told
  /\ pc = "final" => Root \notin alive \/ told
Inv == TypeOK /\ Started /\ NoneOutlives /\ CommandGone
================================================================================
