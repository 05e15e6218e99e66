------------------------------ MODULE ProcessTree ------------------------------
(***************************************************************************)
(* kill_process_tree (src/proc.rs): stop agy, read the process table, stop *)
(* every descendant found, read again until a read finds nothing new, then *)
(* kill everything stopped, agy last.  The processes of the tree fork and  *)
(* exit while it is being walked.                                          *)
(*                                                                         *)
(* /proc is read one entry at a time in the order of the pids, so a table  *)
(* is not a snapshot: a process forked behind the reader is missed.        *)
(*                                                                         *)
(* Pids are not used again during a walk; the source accepts that window.  *)
(* An operator named Mut... is a bug the model checker must notice: it is  *)
(* not part of the specification.                                          *)
(***************************************************************************)
EXTENDS Integers, FiniteSets

CONSTANTS
    MaxPid,       \* pids are 1 .. MaxPid: bounds the forks of a run
    Root,         \* agy's pid
    MaxScans      \* MAX_SCANS

ASSUME TreeAssumption ==
    /\ MaxPid \in Nat /\ Root \in 1 .. MaxPid
    /\ MaxScans \in Nat \ {0}

VARIABLES
    alive,      \* processes agy started, and agy, that have not died
    used,       \* pids that have been given out
    parent,     \* parent[p], NoPid once it is the init process
    suspended,  \* processes a SIGSTOP has reached
    pc,         \* where the killer is
    cursor,     \* the pid whose entry it reads next
    table,      \* the entries it has read: <<pid, ppid>>
    stopped,    \* its set of processes to kill
    foundNew,   \* a process was stopped since the table was read
    scans       \* scans started

treeVars == <<alive, used, parent, suspended>>
killerVars == <<pc, cursor, table, stopped, foundNew, scans>>
vars == <<treeVars, killerVars>>

Pids == 1 .. MaxPid
NoPid == 0
Pcs == {"idle", "read", "stop", "kill", "done"}

Init ==
    /\ alive = {Root}
    /\ used = {Root}
    /\ parent = [p \in Pids |-> NoPid]
    /\ suspended = {}
    /\ pc = "idle"
    /\ cursor = 1
    /\ table = {}
    /\ stopped = {}
    /\ foundNew = FALSE
    /\ scans = 0

Running(p) == p \in alive \ suspended

-----------------------------------------------------------------------------
(* agy and what it started. *)

Fork(p, c) ==
    /\ Running(p)
    /\ c \notin used
    /\ alive' = alive \cup {c}
    /\ used' = used \cup {c}
    /\ parent' = [parent EXCEPT ![c] = p]
    /\ UNCHANGED <<suspended, killerVars>>

(* The children of a dead process are init's. *)
Orphaned(dead) == [p \in Pids |-> IF parent[p] = dead THEN NoPid ELSE parent[p]]

Exit(p) ==
    /\ Running(p)
    /\ alive' = alive \ {p}
    /\ parent' = Orphaned(p)
    /\ UNCHANGED <<used, suspended, killerVars>>

-----------------------------------------------------------------------------
(* The killer: one synchronous function, but the tree runs beside it. *)

Suspend(p) == suspended \cup {p}

StartWalk ==
    /\ pc = "idle"
    /\ suspended' = Suspend(Root) \cap alive
    /\ stopped' = {Root}
    /\ pc' = "read"
    /\ scans' = 1
    /\ UNCHANGED <<alive, used, parent, cursor, table, foundNew>>

ReadEntry ==
    /\ pc = "read"
    /\ cursor <= MaxPid
    /\ table' = IF cursor \in alive THEN table \cup {<<cursor, parent[cursor]>>} ELSE table
    /\ cursor' = cursor + 1
    /\ UNCHANGED <<treeVars, pc, stopped, foundNew, scans>>

FinishTable ==
    /\ pc = "read"
    /\ cursor > MaxPid
    /\ pc' = "stop"
    /\ UNCHANGED <<treeVars, cursor, table, stopped, foundNew, scans>>

(* An empty table ends the walk: what is stopped so far is killed. *)
MutGivesUp ==
    /\ pc = "read" /\ cursor = 1
    /\ pc' = "done"
    /\ UNCHANGED <<treeVars, cursor, table, stopped, foundNew, scans>>
TableFails ==
    /\ pc = "read" /\ cursor = 1
    /\ pc' = "kill"
    /\ UNCHANGED <<treeVars, cursor, table, stopped, foundNew, scans>>

(* descendants: below[n] is what n levels of the table reach. *)
MutChildrenOnly == {e[1] : e \in {x \in table : x[2] = Root}}
Descendants ==
    LET below[n \in 0 .. MaxPid] ==
          IF n = 0 THEN {Root}
          ELSE LET above == below[n - 1] IN
               above \cup {e[1] : e \in {x \in table : x[2] \in above}}
    IN  below[MaxPid] \ {Root}

StopFound(p) ==
    /\ pc = "stop"
    /\ p \in Descendants \ stopped
    /\ stopped' = stopped \cup {p}
    /\ suspended' = Suspend(p) \cap alive
    /\ foundNew' = TRUE
    /\ UNCHANGED <<alive, used, parent, pc, cursor, table, scans>>

ScanAgain == foundNew /\ scans < MaxScans

EndScan ==
    /\ pc = "stop"
    /\ Descendants \subseteq stopped
    /\ IF ScanAgain
       THEN /\ pc' = "read"
            /\ scans' = scans + 1
            /\ foundNew' = FALSE
            /\ cursor' = 1
            /\ table' = {}
       ELSE /\ pc' = "kill"
            /\ UNCHANGED <<scans, foundNew, cursor, table>>
    /\ UNCHANGED <<treeVars, stopped>>

(* Everything stopped is killed in any order, agy last. *)
ToKill == IF stopped = {Root} THEN {Root} ELSE stopped \ {Root}

Kill(p) ==
    /\ pc = "kill"
    /\ p \in ToKill
    /\ alive' = alive \ {p}
    /\ suspended' = suspended \ {p}
    /\ parent' = Orphaned(p)
    /\ stopped' = stopped \ {p}
    /\ pc' = IF stopped = {p} THEN "done" ELSE "kill"
    /\ UNCHANGED <<used, cursor, table, foundNew, scans>>

-----------------------------------------------------------------------------
Tree == \E p \in Pids : Exit(p) \/ \E c \in Pids : Fork(p, c)
Killer ==
    \/ StartWalk \/ ReadEntry \/ FinishTable \/ TableFails \/ EndScan
    \/ \E p \in Pids : StopFound(p) \/ Kill(p)
Next == Tree \/ Killer

Spec == Init /\ [][Next]_vars

-----------------------------------------------------------------------------
(* Processes, the table and the killer's set stay in their types.          *)
TypeOK ==
    /\ alive \subseteq used /\ used \subseteq Pids
    /\ parent \in [Pids -> Pids \cup {NoPid}]
    /\ suspended \subseteq alive
    /\ pc \in Pcs
    /\ cursor \in 1 .. MaxPid + 1
    /\ table \subseteq Pids \X (Pids \cup {NoPid})
    /\ stopped \subseteq Pids
    /\ foundNew \in BOOLEAN
    /\ scans \in 0 .. MaxScans

(* What is still linked to agy by parents that live. *)
Linked ==
    LET below[n \in 0 .. MaxPid] ==
          IF n = 0 THEN {Root} \cap alive
          ELSE LET above == below[n - 1] IN above \cup {p \in alive : parent[p] \in above}
    IN  below[MaxPid]

(* Once a whole table turned up nothing new, no process linked to agy runs *)
(* any more and each is going to be killed, however the tree forked and    *)
(* lost members between and during the scans.                              *)
QuietScanMissesNothing ==
    pc = "kill" /\ ~foundNew /\ cursor > MaxPid => Linked \subseteq suspended \cap stopped

(* "a stop that never reached its kill would leave processes suspended":   *)
(* whatever was stopped is killed, even when the scans ran out or the      *)
(* table was unreadable, and agy is.                                       *)
NobodyIsLeftSuspended == pc = "done" => suspended = {} /\ Root \notin alive

=============================================================================
