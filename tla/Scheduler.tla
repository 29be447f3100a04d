----------------------------- MODULE Scheduler -----------------------------
(***************************************************************************)
(* Task execution: SchedulerService (scheduler/service.rs) and             *)
(* TaskExecutionService (scheduler/execution.rs) over the task store.      *)
(*                                                                         *)
(* A process is one call in flight, on a tokio task of its own:            *)
(*   - an Executor runs execute_task for its target,                       *)
(*   - a Canceller runs cancel_task (the cancel route of the API and the   *)
(*     control plane's task_cancel),                                       *)
(*   - a Stopper runs cancel_running_task, which signals the provider.     *)
(* pc[p] names the next statement of the call.  The daemon's runtime is    *)
(* multi-threaded, so calls interleave at every statement.                 *)
(***************************************************************************)
EXTENDS TaskStore

CONSTANTS
    Executor, Canceller, Stopper,  \* the calls, by kind
    Caps,             \* required_capabilities of each task
    InitialPolicies,  \* lock policies a directory grant may start with
    MaxConcurrent,    \* SchedulerConfig::max_concurrent_tasks
    MaxOutput,        \* bound: output events of one provider run
    Disturbances      \* which of "crash", "store_error", "grant" may happen

Proc == Executor \cup Canceller \cup Stopper

ASSUME SchedulerAssumption ==
    /\ Executor \cap Canceller = {}
    /\ Executor \cap Stopper = {}
    /\ Canceller \cap Stopper = {}
    /\ Caps \in [Task -> SUBSET DirectoryCapability]
    /\ InitialPolicies \subseteq DirectoryLockPolicy
    /\ MaxConcurrent \in Nat
    /\ MaxOutput \in Nat
    /\ Disturbances \subseteq {"crash", "store_error", "grant"}

NoExecutor == "no executor"

ASSUME NoExecutorAssumption == NoExecutor \notin Executor

VARIABLES
    target,         \* the task each call is for
    pc,             \* the next statement of each call
    local,          \* its local variables
    policy,         \* lock_policy of each directory grant, or "deleted"
    cancellations,  \* LocalCliAdapter::cancellations: whose sender is registered
    signalled       \* executors whose cancel receiver has fired

callVars == <<target, pc, local>>
adapterVars == <<cancellations, signalled>>
vars == <<status, events, locks, results, target, pc, local, policy,
          cancellations, signalled>>

Label == {"idle", "capacity", "grant", "lookup", "insert", "prepare",
          "workspace", "launch", "provider", "drain", "outcome", "persist",
          "append", "result", "save", "validate", "sequence", "commit", "done"}

(* next: the status a transition moves to, or the outcome of the provider;
   then: the statement after the transition; seq: the sequence number read;
   mode: the lock mode computed; left: output events still to append. *)
Resume == {"prepare", "workspace", "launch", "result", "done"}

Locals == [next : TaskStatus, then : Resume, seq : Nat, mode : LockMode, left : Nat]

NoLocals == [next |-> "queued", then |-> "done", seq |-> 0, mode |-> "none", left |-> 0]

TypeOK ==
    /\ StoreTypeOK
    /\ target \in [Proc -> Task]
    /\ pc \in [Proc -> Label]
    /\ local \in [Proc -> Locals]
    /\ policy \in [Dir -> DirectoryLockPolicy \cup {"deleted"}]
    /\ cancellations \in [Task -> Executor \cup {NoExecutor}]
    /\ signalled \subseteq Executor

Init ==
    /\ StoreInit
    /\ target \in [Proc -> Task]
    /\ pc = [p \in Proc |-> "idle"]
    /\ local = [p \in Proc |-> NoLocals]
    /\ policy \in [Dir -> InitialPolicies]
    /\ cancellations = [t \in Task |-> NoExecutor]
    /\ signalled = {}

-----------------------------------------------------------------------------
(* Control flow. *)

DirectoryOf(p) == DirOf[target[p]]

At(p, l) == pc[p] = l

Goto(p, l) ==
    /\ pc' = [pc EXCEPT ![p] = l]
    /\ UNCHANGED local

(* The call returns, with a value or with an error: locals are gone. *)
Return(p) ==
    /\ pc' = [pc EXCEPT ![p] = "done"]
    /\ local' = [local EXCEPT ![p] = NoLocals]

Continue(p) == IF local[p].then = "done" THEN Return(p) ELSE Goto(p, local[p].then)

(* Call TaskStore::transition(target, next) and go on at l if it is Ok; every
   caller propagates its error with `?'. *)
Transition(p, next, l) ==
    /\ pc' = [pc EXCEPT ![p] = "validate"]
    /\ local' = [local EXCEPT ![p].next = next, ![p].then = l]

-----------------------------------------------------------------------------
(* TaskStore::transition, for whichever call is in it. *)

TransitionValidate(p) ==
    /\ At(p, "validate")
    /\ LET verdict == ValidateTransition(status[target[p]], local[p].next)
       IN  \/ verdict = "changed" /\ Goto(p, "sequence")
           \/ verdict = "idempotent" /\ Continue(p)
           \/ verdict \in {"already_terminal", "invalid_transition"} /\ Return(p)
    /\ UNCHANGED <<storeVars, target, policy, adapterVars>>

TransitionSequence(p) ==
    /\ At(p, "sequence")
    /\ pc' = [pc EXCEPT ![p] = "commit"]
    /\ local' = [local EXCEPT ![p].seq = NextSequence(target[p])]
    /\ UNCHANGED <<storeVars, target, policy, adapterVars>>

(* The transaction commits, or its insert meets a taken sequence number and
   rolls back.  Publishing the event and reading the task back follow: they
   change nothing the scheduler reads. *)
TransitionCommit(p) ==
    /\ At(p, "commit")
    /\ \/ CommitTransition(target[p], local[p].seq, local[p].next) /\ Continue(p)
       \/ ~SequenceFree(target[p], local[p].seq) /\ Return(p) /\ UNCHANGED storeVars
    /\ UNCHANGED <<target, policy, adapterVars>>

-----------------------------------------------------------------------------
(* execute_task. *)

(* A terminal task is refused; so is one whose profile, grant, provider
   manifest or available runtime is missing, which may happen to any task. *)
ExecuteTask(p) ==
    /\ p \in Executor /\ At(p, "idle")
    /\ status[target[p]] # "absent"
    /\ \/ /\ status[target[p]] \notin Terminal
          /\ policy[DirectoryOf(p)] # "deleted"
          /\ Goto(p, "capacity")
       \/ Return(p)
    /\ UNCHANGED <<storeVars, target, policy, adapterVars>>

RunningOrPreparing == {t \in Task : status[t] \in {"preparing", "running"}}

(* Mutant: the limit is off by one. *)
CheckCapacity_OneMore(p) ==
    /\ At(p, "capacity")
    /\ IF Cardinality(RunningOrPreparing) > MaxConcurrent
       THEN Transition(p, "waiting", "done")
       ELSE Goto(p, "grant")
    /\ UNCHANGED <<storeVars, target, policy, adapterVars>>

CheckCapacity(p) ==
    /\ At(p, "capacity")
    /\ IF Cardinality(RunningOrPreparing) >= MaxConcurrent
       THEN Transition(p, "waiting", "done")
       ELSE Goto(p, "grant")
    /\ UNCHANGED <<storeVars, target, policy, adapterVars>>

ReadGrant(p) ==
    /\ At(p, "grant")
    /\ LET mode == ModeForCapabilities(Caps[target[p]], policy[DirectoryOf(p)])
       IN  \/ policy[DirectoryOf(p)] = "deleted" /\ Return(p)
           \/ policy[DirectoryOf(p)] # "deleted" /\ mode = "none" /\ Goto(p, "prepare")
           \/ /\ policy[DirectoryOf(p)] # "deleted" /\ mode # "none"
              /\ pc' = [pc EXCEPT ![p] = "lookup"]
              /\ local' = [local EXCEPT ![p].mode = mode]
    /\ UNCHANGED <<storeVars, target, policy, adapterVars>>

(* Mutant: the directory's held rows are not consulted. *)
ReadActiveLocks_Ignored(p) ==
    /\ At(p, "lookup")
    /\ Goto(p, "insert")
    /\ UNCHANGED <<storeVars, target, policy, adapterVars>>

(* acquire_lock: the read of the held rows ... *)
ReadActiveLocks(p) ==
    /\ At(p, "lookup")
    /\ IF LockConflict(DirectoryOf(p), local[p].mode)
       THEN Transition(p, "waiting", "done")
       ELSE Goto(p, "insert")
    /\ UNCHANGED <<storeVars, target, policy, adapterVars>>

(* ... and the insert, on a connection of its own. *)
InsertLock(p) ==
    /\ At(p, "insert")
    /\ InsertLockRow(DirectoryOf(p), target[p], local[p].mode)
    /\ Transition(p, "waiting", "prepare")
    /\ UNCHANGED <<status, events, results, target, policy, adapterVars>>

(* prepare_workspace: a task that is not waiting is not marked preparing. *)
BeginPrepare(p) ==
    /\ At(p, "prepare")
    /\ \/ policy[DirectoryOf(p)] = "deleted" /\ Return(p)
       \/ /\ policy[DirectoryOf(p)] # "deleted"
          /\ IF status[target[p]] = "waiting"
             THEN Transition(p, "preparing", "workspace")
             ELSE Goto(p, "workspace")
    /\ UNCHANGED <<storeVars, target, policy, adapterVars>>

(* Mutant: a failed preparation returns without failing the task. *)
PrepareWorkspace_NoFail(p) ==
    /\ At(p, "workspace")
    /\ Transition(p, "running", "launch") \/ Return(p)
    /\ UNCHANGED <<storeVars, target, policy, adapterVars>>

(* The WorkspacePreparer is a trait: it may succeed or fail. *)
PrepareWorkspace(p) ==
    /\ At(p, "workspace")
    /\ \/ Transition(p, "running", "launch")
       \/ Transition(p, "failed", "done")
    /\ UNCHANGED <<storeVars, target, policy, adapterVars>>

-----------------------------------------------------------------------------
(* adapter.execute.  The sender registered for a task is a oneshot: replacing
   or removing it drops it, and a dropped sender fires the receiver of the
   executor that owns it exactly as a cancel does. *)

DroppedBy(p) == {cancellations[target[p]]} \ {p, NoExecutor}

(* The prepared directory, the prompt file, a template argument or the spawn
   itself may fail; only the last one happens after the registration. *)
LaunchProvider(p) ==
    /\ At(p, "launch")
    /\ \/ /\ Goto(p, "provider")
          /\ cancellations' = [cancellations EXCEPT ![target[p]] = p]
          /\ signalled' = signalled \cup DroppedBy(p)
       \/ /\ pc' = [pc EXCEPT ![p] = "outcome"]
          /\ local' = [local EXCEPT ![p].next = "failed", ![p].left = 0]
          /\ \/ UNCHANGED adapterVars
             \/ /\ cancellations' = [cancellations EXCEPT ![target[p]] = NoExecutor]
                /\ signalled' = signalled \cup DroppedBy(p)
    /\ UNCHANGED <<storeVars, target, policy>>

(* wait_for_child: the child exits, times out and is killed, or the cancel
   receiver fires; then the task's sender is removed, whoever owns it, so that a
   cancel that comes while the output is drained finds none. *)
ProviderReturns(p) ==
    /\ At(p, "provider")
    /\ \E outcome \in {"completed", "failed", "timed_out", "cancelled"} :
          /\ outcome = "cancelled" => p \in signalled
          /\ pc' = [pc EXCEPT ![p] = "drain"]
          /\ local' = [local EXCEPT ![p].next = outcome]
    /\ cancellations' = [cancellations EXCEPT ![target[p]] = NoExecutor]
    /\ signalled' = (signalled \ {p}) \cup DroppedBy(p)
    /\ UNCHANGED <<storeVars, target, policy>>

(* await_pipe of stdout and of stderr: both are read to their end, without a
   limit.  A descendant of the child that was waited for may keep one open. *)
OutputEnds(p) ==
    /\ At(p, "drain")
    /\ \E n \in 0..MaxOutput :
          /\ pc' = [pc EXCEPT ![p] = "outcome"]
          /\ local' = [local EXCEPT ![p].left = n]
    /\ UNCHANGED <<storeVars, target, policy, adapterVars>>

(* cancel_running_task: without a registered sender the request is dropped. *)
CancelRunningTask(p) ==
    /\ p \in Stopper /\ At(p, "idle")
    /\ status[target[p]] # "absent"
    /\ Return(p)
    /\ cancellations' = [cancellations EXCEPT ![target[p]] = NoExecutor]
    /\ signalled' = signalled \cup ({cancellations[target[p]]} \ {NoExecutor})
    /\ UNCHANGED <<storeVars, target, policy>>

-----------------------------------------------------------------------------
(* persist_outcome: append the outcome's events, record the terminal status,
   read the task back and save the result with the status just read. *)

(* Mutant: an event is appended although none is left. *)
AppendSequence_Unguarded(p) ==
    /\ At(p, "outcome") \/ At(p, "persist")
    /\ pc' = [pc EXCEPT ![p] = "append"]
    /\ local' = [local EXCEPT ![p].seq = NextSequence(target[p])]
    /\ UNCHANGED <<storeVars, target, policy, adapterVars>>

AppendSequence(p) ==
    /\ At(p, "outcome") \/ At(p, "persist")
    /\ local[p].left > 0
    /\ pc' = [pc EXCEPT ![p] = "append"]
    /\ local' = [local EXCEPT ![p].seq = NextSequence(target[p])]
    /\ UNCHANGED <<storeVars, target, policy, adapterVars>>

AppendEvent(p) ==
    /\ At(p, "append")
    /\ \/ /\ InsertEvent(target[p], local[p].seq, "output")
          /\ pc' = [pc EXCEPT ![p] = "persist"]
          /\ local' = [local EXCEPT ![p].left = @ - 1]
          /\ UNCHANGED <<status, locks, results>>
       \/ ~SequenceFree(target[p], local[p].seq) /\ Return(p) /\ UNCHANGED storeVars
    /\ UNCHANGED <<target, policy, adapterVars>>

(* Mutant: a timed-out provider's status is not persisted. *)
PersistStatus_NotOnTimeout(p) ==
    /\ At(p, "outcome") \/ At(p, "persist")
    /\ local[p].left = 0
    /\ IF local[p].next = "timed_out" THEN Return(p)
       ELSE Transition(p, local[p].next, "result")
    /\ UNCHANGED <<storeVars, target, policy, adapterVars>>

PersistStatus(p) ==
    /\ At(p, "outcome") \/ At(p, "persist")
    /\ local[p].left = 0
    /\ Transition(p, local[p].next, "result")
    /\ UNCHANGED <<storeVars, target, policy, adapterVars>>

ReadForResult(p) ==
    /\ At(p, "result")
    /\ pc' = [pc EXCEPT ![p] = "save"]
    /\ local' = [local EXCEPT ![p].next = status[target[p]]]
    /\ UNCHANGED <<storeVars, target, policy, adapterVars>>

SaveResult(p) ==
    /\ At(p, "save")
    /\ SaveExecutionResult(target[p], local[p].next)
    /\ Return(p)
    /\ UNCHANGED <<target, policy, adapterVars>>

-----------------------------------------------------------------------------
(* cancel_task: the status it reads only decides whether to call the store. *)
CancelTask(p) ==
    /\ p \in Canceller /\ At(p, "idle")
    /\ status[target[p]] # "absent"
    /\ IF status[target[p]] \in {"completed", "failed", "timed_out"}
       THEN Return(p)
       ELSE Transition(p, "cancelled", "done")
    /\ UNCHANGED <<storeVars, target, policy, adapterVars>>

-----------------------------------------------------------------------------
(* The surroundings of the calls. *)

(* Admission (enqueue_task) ends in one transaction. *)
Create(t) ==
    /\ CreateTask(t)
    /\ UNCHANGED <<callVars, policy, adapterVars>>

(* PATCH and DELETE of a directory grant.  A patch may change capabilities and
   lock policy together, so no policy is ruled out by the grant's validation. *)
ChangeGrant(d) ==
    /\ "grant" \in Disturbances
    /\ policy[d] # "deleted"
    /\ \E new \in DirectoryLockPolicy \cup {"deleted"} :
          policy' = [policy EXCEPT ![d] = new]
    /\ UNCHANGED <<storeVars, callVars, adapterVars>>

(* A statement fails (SQLITE_BUSY after the busy timeout, I/O): the call ends
   with TaskStoreError::Store and what it wrote before stays. *)
StoreError(p) ==
    /\ "store_error" \in Disturbances
    /\ pc[p] \notin {"idle", "provider", "drain", "done"}
    /\ Return(p)
    /\ UNCHANGED <<storeVars, target, policy, adapterVars>>

(* The daemon dies and restarts: the tables stay, every call is gone, and no
   startup code revisits what they left. *)
Crash ==
    /\ "crash" \in Disturbances
    /\ \E p \in Proc : pc[p] \notin {"idle", "done"}
    /\ pc' = [p \in Proc |-> IF pc[p] = "idle" THEN "idle" ELSE "done"]
    /\ local' = [p \in Proc |-> NoLocals]
    /\ cancellations' = [t \in Task |-> NoExecutor]
    /\ signalled' = {}
    /\ UNCHANGED <<storeVars, target, policy>>

(* Every task was created and every call has returned. *)
Quiescent ==
    /\ \A p \in Proc : pc[p] = "done"
    /\ \A t \in Task : status[t] # "absent"
    /\ UNCHANGED vars

-----------------------------------------------------------------------------
StoreTransition(p) == TransitionValidate(p) \/ TransitionSequence(p) \/ TransitionCommit(p)

TryAcquireDirectoryLock(p) ==
    CheckCapacity(p) \/ ReadGrant(p) \/ ReadActiveLocks(p) \/ InsertLock(p)

PersistOutcome(p) ==
    \/ AppendSequence(p) \/ AppendEvent(p) \/ PersistStatus(p)
    \/ ReadForResult(p) \/ SaveResult(p)

Step(p) ==
    \/ StoreTransition(p)
    \/ ExecuteTask(p) \/ TryAcquireDirectoryLock(p)
    \/ BeginPrepare(p) \/ PrepareWorkspace(p)
    \/ LaunchProvider(p) \/ ProviderReturns(p) \/ OutputEnds(p) \/ PersistOutcome(p)
    \/ CancelTask(p) \/ CancelRunningTask(p)

Next ==
    \/ \E p \in Proc : Step(p)
    \/ \E t \in Task : Create(t)
    \/ \E d \in Dir : ChangeGrant(d)
    \/ \E p \in Proc : StoreError(p)
    \/ Crash
    \/ Quiescent

Spec == Init /\ [][Next]_vars

(* The adapter has not returned: an HTTP provider is awaited without a timeout
   (runtime/http.rs), an ACP one for ever when a permission is undecided
   (RuntimeSession), and the output of a CLI one until every holder of its pipes
   has closed them. *)
InAdapter(p) == pc[p] \in {"provider", "drain"}

(* tokio polls every woken task: a started call that is not in its adapter takes
   its next step eventually.  Nothing obliges a provider to return, or anybody to
   start a call or to create a task. *)
Fairness == \A p \in Proc : WF_vars(pc[p] # "idle" /\ ~InAdapter(p) /\ Step(p))

FairSpec == Spec /\ Fairness

-----------------------------------------------------------------------------
(* Properties. *)

Lifecycle(t) == {e \in events[t] : e.type \in TaskStatus}

(* The sequence numbers of a task's events are exactly 1..MAX(sequence), each
   used once, although next_sequence is read outside the transaction that uses
   it: what the cursors of the event stream rely on. *)
GaplessLog ==
    \A t \in Task :
        /\ SequencesOf(t) = 1..(NextSequence(t) - 1)
        /\ \A d, e \in events[t] : d.seq = e.seq => d = e

(* The status column always equals the lifecycle event with the highest
   sequence number: replaying the log gives the state, whatever races. *)
StatusIsLastLifecycleEvent ==
    \A t \in Task : status[t] # "absent" =>
        \E e \in Lifecycle(t) :
            e.type = status[t] /\ \A d \in Lifecycle(t) : d.seq <= e.seq

(* Every lifecycle event was preceded in the log by one it may follow: no race
   makes a task run that was never prepared, or complete that never ran. *)
EventsAreJustified ==
    \A t \in Task : \A e \in Lifecycle(t) :
        \/ e.type = "queued" /\ e.seq = 1
        \/ \E d \in Lifecycle(t) : d.seq < e.seq /\ <<d.type, e.type>> \in AllowedTransitions

(* Why these three hold: a call that is about to write has read a sequence
   number no larger than the next free one, and a status from which its move is
   allowed; the rest keeps the types of what it goes on to write. *)
CallOK(p) ==
    /\ pc[p] \notin {"idle", "done"} => status[target[p]] # "absent"
    /\ p \notin Executor =>
           /\ pc[p] \in {"idle", "validate", "sequence", "commit", "done"}
           /\ local[p].then = "done"
    /\ pc[p] = "append" => local[p].left > 0
    /\ pc[p] \in {"lookup", "insert"} => local[p].mode # "none"
    /\ pc[p] \in {"commit", "append"} => local[p].seq \in 1..NextSequence(target[p])
    /\ pc[p] \in {"sequence", "commit"} =>
           \E e \in Lifecycle(target[p]) : <<e.type, local[p].next>> \in AllowedTransitions

CallInv == \A p \in Proc : CallOK(p)

(* A task that was never created has no events, and numbering starts at 1. *)
LogInv ==
    \A t \in Task :
        /\ NextSequence(t) \in Nat \ {0}
        /\ status[t] = "absent" => events[t] = {}

(* The inductive invariant: the three log properties of TaskStore together with
   what every call in flight has read, preserved by every step whatever fails. *)
IInv ==
    /\ TypeOK
    /\ GaplessLog
    /\ StatusIsLastLifecycleEvent
    /\ EventsAreJustified
    /\ CallInv
    /\ LogInv

(* The windows.  Between a read of execute_task or of TaskStore::transition and
   the write that relies on it no lock and no transaction is held: what follows
   says that no other call got between them.  Nothing ensures it on the daemon's
   multi-threaded runtime: the properties that name a window hold in the behaviours
   in which no two calls overlap there, and fail only after such an overlap. *)

(* find_active_locks and insert_lock: one call per directory is between them. *)
OneLocker ==
    \A p, q \in Proc :
        pc[p] = "insert" /\ pc[q] = "insert" /\ DirectoryOf(p) = DirectoryOf(q) => p = q

(* validate_transition and the transaction: one call per task is between them. *)
OneMover ==
    \A p, q \in Proc :
        /\ pc[p] \in {"sequence", "commit"} /\ pc[q] \in {"sequence", "commit"}
        /\ target[p] = target[q]
        => p = q

(* execute_task's read of the status and the insert of the lock: the task is not
   ended in between. *)
NoEndWhileLocking ==
    \A p, q \in Proc :
        /\ pc[p] \in {"capacity", "grant", "lookup", "insert"}
        /\ pc[q] = "commit" /\ local[q].next \in Terminal
        => target[p] # target[q]

(* Between acquire_lock and the commit of `preparing'. *)
InTransition(p) == pc[p] \in {"validate", "sequence", "commit"}

Holding(p) ==
    \/ pc[p] = "prepare"
    \/ InTransition(p) /\ (local[p].then = "prepare" \/ local[p].next = "preparing")

(* Between the count of running tasks and the commit of `preparing'. *)
Claiming(p) == pc[p] \in {"grant", "lookup", "insert"} \/ Holding(p)

(* The count and the commit of `preparing': one call of all is between them. *)
OneClaimer == \A p, q \in Proc : Claiming(p) /\ Claiming(q) => p = q

Windows == OneLocker /\ OneMover /\ NoEndWhileLocking /\ OneClaimer

(* Every grant asks for a lock: under the lock policy none a task that waited for
   a place is prepared without a row. *)
LocksAreRequired == \A d \in Dir : policy[d] # "none"

(* docs/tasks/phase-5-task-scheduler.md:107, "Terminal task states are
   immutable": a status that is terminal never changes.  Under OneMover only: run
   sched_terminal_overwrite shows two calls in the window break it. *)
TerminalIsFinal ==
    [][\A t \in Task : status[t] \in Terminal => status'[t] = status[t]]_vars

(* phase-5-task-scheduler.md:499, an exclusive lock means that "only one task
   may hold a lock for the directory" (under OneLocker). *)
ExclusiveLocks ==
    \A k, l \in locks : k.dir = l.dir /\ k.mode = "exclusive" => k = l

(* phase-5-task-scheduler.md:513, "Locks are released when a task reaches a
   terminal state": no held row belongs to a terminal task (under
   NoEndWhileLocking). *)
TerminalHoldsNoLock == \A l \in locks : status[l.task] \notin Terminal

(* phase-5-task-scheduler.md:991, "service enforces max_concurrent_tasks" (under
   OneMover and OneClaimer). *)
CapacityRespected == Cardinality(RunningOrPreparing) <= MaxConcurrent

(* A task that is preparing or running holds its directory's lock (under OneMover,
   as long as LocksAreRequired). *)
PreparedHoldsLock ==
    \A t \in RunningOrPreparing : \E l \in ActiveLocks(DirOf[t]) : l.task = t

(* A task enters running at most once, however often it is executed (under
   OneMover). *)
RunsAtMostOnce ==
    \A t \in Task : Cardinality({e \in events[t] : e.type = "running"}) <= 1

(* A task that is running and write-capable has its directory to itself: no other
   running task's provider is at work in it (under OneMover and OneLocker, as long
   as LocksAreRequired).  A task whose status a cancel has ended is not running,
   although its provider may still be at work. *)
WritersRunAlone ==
    \A p, q \in Executor :
        /\ p # q /\ DirectoryOf(p) = DirectoryOf(q)
        /\ \A r \in {p, q} : InAdapter(r) /\ status[target[r]] = "running"
        => ~WriteCapable(Caps[target[p]])

(* A running task reaches a terminal status, although the write of one call may
   be refused for the sequence number another call took, unless the adapter of
   its executor never returns: that may happen to every kind of provider, see
   InAdapter (at most one executor per task, no store error, no crash). *)
RunningEnds ==
    \A t \in Task : (status[t] = "running") ~>
        \/ status[t] \in Terminal
        \/ \E p \in Executor : target[p] = t /\ [](InAdapter(p))

(* A task that was marked preparing goes on to run or ends, whether its workspace
   can be prepared or not (no store error, no crash).  Under the lock policy none
   a queued task is never marked preparing and this says nothing of it. *)
PreparationLeadsOn ==
    \A t \in Task :
        (status[t] = "preparing") ~> (status[t] \in Terminal \cup {"running"})

(* Under OneLocker, OneMover and NoEndWhileLocking the scheduler implements the
   atomic lifecycle, statement by statement. *)
Promise == INSTANCE TaskLifecycle
ImplementsLifecycle == Promise!Spec

=============================================================================
