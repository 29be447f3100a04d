--------------------------- MODULE TaskLifecycle ---------------------------
(***************************************************************************)
(* What the task subsystem promises its clients, as one atomic step per    *)
(* operation: a task moves only along the transitions of task/state.rs, it *)
(* gets a directory lock only when no held lock conflicts, and it gives    *)
(* its locks up in the very step that makes it terminal.  Scheduler.tla    *)
(* implements this as long as no two calls overlap in its windows.         *)
(***************************************************************************)
EXTENDS TaskState

CONSTANTS Task, Dir, DirOf

VARIABLES status, locks

lifecycleVars == <<status, locks>>

Compatible(d, mode) ==
    \A l \in locks : l.dir = d => mode = "shared" /\ l.mode = "shared"

Create(t) ==
    /\ status[t] = "absent"
    /\ status' = [status EXCEPT ![t] = "queued"]
    /\ UNCHANGED locks

Acquire(t, mode) ==
    /\ status[t] \notin Terminal \cup {"absent"}
    /\ Compatible(DirOf[t], mode)
    /\ locks' = locks \cup {[dir |-> DirOf[t], task |-> t, mode |-> mode]}
    /\ UNCHANGED status

Move(t, next) ==
    /\ ValidateTransition(status[t], next) = "changed"
    /\ status' = [status EXCEPT ![t] = next]
    /\ locks' = IF next \in Terminal THEN {l \in locks : l.task # t} ELSE locks

Init ==
    /\ status = [t \in Task |-> "absent"]
    /\ locks = {}

Next ==
    \E t \in Task :
        \/ Create(t)
        \/ \E mode \in {"exclusive", "shared"} : Acquire(t, mode)
        \/ \E next \in TaskStatus : Move(t, next)

Spec == Init /\ [][Next]_lifecycleVars

-----------------------------------------------------------------------------
TypeOK ==
    /\ status \in [Task -> TaskStatus \cup {"absent"}]
    /\ locks \subseteq [dir : Dir, task : Task, mode : {"exclusive", "shared"}]

(* An exclusive lock excludes every other lock on its directory, and a lock
   belongs to a task that is neither absent nor terminal. *)
LockDiscipline ==
    /\ \A k, l \in locks : k.dir = l.dir /\ k.mode = "exclusive" => k = l
    /\ \A l \in locks : status[l.task] \notin Terminal \cup {"absent"}

(* A terminal task stays as it is. *)
TerminalIsFinal ==
    [][\A t \in Task : status[t] \in Terminal => status'[t] = status[t]]_lifecycleVars

=============================================================================
