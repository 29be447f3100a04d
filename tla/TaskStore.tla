----------------------------- MODULE TaskStore -----------------------------
(***************************************************************************)
(* The tables of the task store (store/tasks.rs, store/sqlite.rs) and the  *)
(* statements that read and write them.  Every method of the store opens   *)
(* its own SQLite connection, so one statement, or one transaction, is one *)
(* atomic step; a method that reads and then writes is several steps, and  *)
(* the modules that EXTEND this one interleave them.                       *)
(***************************************************************************)
EXTENDS TaskState, Naturals, FiniteSets, FiniteSetsExt

CONSTANTS
    Task,     \* the task ids a run can hand out
    Dir,      \* directory grants
    DirOf     \* the directory grant each task is created for

ASSUME DirOfAssumption == DirOf \in [Task -> Dir]

VARIABLES
    status,   \* tasks.status, "absent" before the row exists
    events,   \* task_events: the rows of each task
    locks,    \* directory_locks: the rows whose status is 'held'
    results   \* tasks.result_json: the status recorded in it, "none" if NULL

storeVars == <<status, events, locks, results>>

Event == [seq : Nat, type : EventType]

DirectoryLock == [dir : Dir, task : Task, mode : {"exclusive", "shared"}]

StoreTypeOK ==
    /\ status \in [Task -> TaskStatus \cup {"absent"}]
    /\ events \in [Task -> SUBSET Event]
    /\ locks \subseteq DirectoryLock
    /\ results \in [Task -> TaskStatus \cup {"none"}]

StoreInit ==
    /\ status = [t \in Task |-> "absent"]
    /\ events = [t \in Task |-> {}]
    /\ locks = {}
    /\ results = [t \in Task |-> "none"]

-----------------------------------------------------------------------------
(* Reads. *)

SequencesOf(t) == {e.seq : e \in events[t]}

(* COALESCE(MAX(sequence), 0) + 1 *)
NextSequence(t) == IF events[t] = {} THEN 1 ELSE Max(SequencesOf(t)) + 1

ActiveLocks(d) == {l \in locks : l.dir = d}

(* Any held row conflicts with an exclusive request, and an exclusive row with
   any request: a row of the requesting task itself is not told apart.
   (Mutant: only the requested mode is looked at.) *)
LockConflict_RequestOnly(d, mode) == ActiveLocks(d) # {} /\ mode = "exclusive"

LockConflict(d, mode) ==
    \E l \in ActiveLocks(d) : mode = "exclusive" \/ l.mode = "exclusive"

-----------------------------------------------------------------------------
(* Writes. *)

(* UNIQUE(task_id, sequence): an insert with a taken number fails. *)
SequenceFree(t, n) == n \notin SequencesOf(t)

(* Mutant: the table has no UNIQUE constraint. *)
InsertEvent_NotUnique(t, n, type) ==
    events' = [events EXCEPT ![t] = @ \cup {[seq |-> n, type |-> type]}]

InsertEvent(t, n, type) ==
    /\ SequenceFree(t, n)
    /\ events' = [events EXCEPT ![t] = @ \cup {[seq |-> n, type |-> type]}]

(* Mutant: the release goes by directory instead of by task. *)
ReleaseLocks_WholeDirectory(t) == locks' = {l \in locks : l.dir # DirOf[t]}

ReleaseLocks(t) == locks' = {l \in locks : l.task # t}

(* TaskStore::create, one transaction. *)
CreateTask(t) ==
    /\ status[t] = "absent"
    /\ status' = [status EXCEPT ![t] = "queued"]
    /\ InsertEvent(t, 1, "queued")
    /\ UNCHANGED <<locks, results>>

(* Mutants of the next definition: the status is written outside the
   transaction, so a refused event leaves it; the locks are not released. *)
CommitTransition_NoRollback(t, n, next) ==
    /\ status' = [status EXCEPT ![t] = next]
    /\ \/ InsertEvent(t, n, EventTypeForStatus(next))
       \/ ~SequenceFree(t, n) /\ UNCHANGED events
    /\ UNCHANGED <<locks, results>>

CommitTransition_KeepsLocks(t, n, next) ==
    /\ InsertEvent(t, n, EventTypeForStatus(next))
    /\ status' = [status EXCEPT ![t] = next]
    /\ UNCHANGED <<locks, results>>

(* The transaction that ends TaskStore::transition: the new status, its event
   and, when the status is terminal, the release of the task's locks. *)
CommitTransition(t, n, next) ==
    /\ InsertEvent(t, n, EventTypeForStatus(next))
    /\ status' = [status EXCEPT ![t] = next]
    /\ IF next \in Terminal THEN ReleaseLocks(t) ELSE UNCHANGED locks
    /\ UNCHANGED results

(* INSERT OR REPLACE with PRIMARY KEY(directory_id, task_id). *)
InsertLockRow(d, t, mode) ==
    locks' = {l \in locks : ~(l.dir = d /\ l.task = t)}
             \cup {[dir |-> d, task |-> t, mode |-> mode]}

SaveExecutionResult(t, s) ==
    /\ results' = [results EXCEPT ![t] = s]
    /\ UNCHANGED <<status, events, locks>>

=============================================================================
