---------------------------- MODULE WindowProofs ----------------------------
(***************************************************************************)
(* What the scheduler guarantees on the multi-threaded daemon as long as   *)
(* no two calls overlap in one of the windows of Scheduler.tla.  Each      *)
(* theorem names the windows it needs and no other: a behaviour of the     *)
(* daemon that breaks the property has passed through an overlap in one of *)
(* them.                                                                   *)
(***************************************************************************)
EXTENDS SchedulerProofs, FiniteSetTheorems

(* A statement of one call moves no other call, and leaves the grants alone. *)
LEMMA StepMovesOneCall ==
    ASSUME TypeOK, NEW p \in Proc, Step(p)
    PROVE  /\ \A q \in Proc \ {p} : pc'[q] = pc[q] /\ local'[q] = local[q]
           /\ UNCHANGED <<target, policy>>
  <1>1. pc \in [Proc -> Label] /\ local \in [Proc -> Locals]
    BY DEF TypeOK
  <1> USE DEF At, Goto, Return, Continue, Transition
  <1>2. CASE StoreTransition(p)
    BY <1>1, <1>2 DEF StoreTransition, TransitionValidate, TransitionSequence, TransitionCommit
  <1>3. CASE ExecuteTask(p) \/ CancelTask(p) \/ CancelRunningTask(p)
    BY <1>1, <1>3 DEF ExecuteTask, CancelTask, CancelRunningTask
  <1>4. CASE TryAcquireDirectoryLock(p)
    BY <1>1, <1>4 DEF TryAcquireDirectoryLock, CheckCapacity, ReadGrant, ReadActiveLocks, InsertLock
  <1>5. CASE BeginPrepare(p) \/ PrepareWorkspace(p)
    BY <1>1, <1>5 DEF BeginPrepare, PrepareWorkspace
  <1>6. CASE LaunchProvider(p) \/ ProviderReturns(p) \/ OutputEnds(p)
    BY <1>1, <1>6 DEF LaunchProvider, ProviderReturns, OutputEnds
  <1>7. CASE PersistOutcome(p)
    BY <1>1, <1>7 DEF PersistOutcome, AppendSequence, AppendEvent, PersistStatus,
                      ReadForResult, SaveResult
  <1>8. QED
    BY <1>2, <1>3, <1>4, <1>5, <1>6, <1>7 DEF Step

(* Every statement but the insert of a lock and the transaction that ends a
   transition leaves statuses and locks alone, and only append_event an event. *)
LEMMA QuietSteps ==
    ASSUME TypeOK, NEW p \in Proc, Step(p), ~InsertLock(p), ~TransitionCommit(p)
    PROVE  UNCHANGED <<status, locks>> /\ (AppendEvent(p) \/ UNCHANGED events)
  <1> USE DEF storeVars
  <1>1. CASE StoreTransition(p)
    BY <1>1 DEF StoreTransition, TransitionValidate, TransitionSequence
  <1>2. CASE ExecuteTask(p) \/ CancelTask(p) \/ CancelRunningTask(p)
    BY <1>2 DEF ExecuteTask, CancelTask, CancelRunningTask
  <1>3. CASE TryAcquireDirectoryLock(p)
    BY <1>3 DEF TryAcquireDirectoryLock, CheckCapacity, ReadGrant, ReadActiveLocks
  <1>4. CASE BeginPrepare(p) \/ PrepareWorkspace(p)
    BY <1>4 DEF BeginPrepare, PrepareWorkspace
  <1>5. CASE LaunchProvider(p) \/ ProviderReturns(p) \/ OutputEnds(p)
    BY <1>5 DEF LaunchProvider, ProviderReturns, OutputEnds
  <1>6. CASE PersistOutcome(p)
    BY <1>6 DEF PersistOutcome, AppendSequence, AppendEvent, PersistStatus,
                ReadForResult, SaveResult, SaveExecutionResult
  <1>7. QED
    BY <1>1, <1>2, <1>3, <1>4, <1>5, <1>6 DEF Step

(* What happens outside the calls. *)
Outside ==
    \/ \E t \in Task : Create(t)
    \/ \E d \in Dir : ChangeGrant(d)
    \/ \E p \in Proc : StoreError(p)
    \/ Crash
    \/ UNCHANGED vars

(* It moves no call on, and no task but a new one. *)
LEMMA OutsideSteps ==
    ASSUME TypeOK, Outside
    PROVE  /\ UNCHANGED <<locks, target>>
           /\ \A q \in Proc : \/ pc'[q] = pc[q] /\ local'[q] = local[q]
                              \/ pc'[q] \in {"idle", "done"}
           /\ \A t \in Task : \/ status'[t] = status[t]
                              \/ status[t] = "absent" /\ status'[t] = "queued"
           /\ UNCHANGED <<status, events>> \/ \E t \in Task : Create(t)
  <1>1. /\ pc \in [Proc -> Label] /\ local \in [Proc -> Locals]
        /\ status \in [Task -> TaskStatus \cup {"absent"}]
    BY DEF TypeOK, StoreTypeOK
  <1>2. CASE \E t \in Task : Create(t)
    BY <1>1, <1>2 DEF Create, CreateTask, callVars
  <1>3. CASE \/ \E d \in Dir : ChangeGrant(d)
             \/ \E p \in Proc : StoreError(p)
             \/ Crash
             \/ UNCHANGED vars
    BY <1>1, <1>3 DEF ChangeGrant, StoreError, Crash, Return, callVars, storeVars, vars
  <1>4. QED
    BY <1>2, <1>3 DEF Outside

(* Every step is a statement of a call or happens outside. *)
LEMMA NextCases ==
    ASSUME [Next]_vars
    PROVE  (\E p \in Proc : Step(p)) \/ Outside
  BY DEF Next, Quiescent, Outside

-----------------------------------------------------------------------------
(* find_active_locks and insert_lock. *)

(* The read that found no conflict is still true when the row is inserted. *)
LockerInv ==
    /\ IInv
    /\ ExclusiveLocks
    /\ \A p \in Proc : pc[p] = "insert" => ~LockConflict(DirectoryOf(p), local[p].mode)

(* Only the read of the held rows leads to the insert. *)
LEMMA OnlyLookupLeadsToInsert ==
    ASSUME TypeOK, NEW p \in Proc, Step(p), ~ReadActiveLocks(p)
    PROVE  pc'[p] # "insert"
  <1>1. pc \in [Proc -> Label] /\ local \in [Proc -> Locals] /\ local[p].then \in Resume
    BY DEF TypeOK, Locals
  <1> USE DEF At, Goto, Return, Continue, Transition
  <1>2. CASE StoreTransition(p)
    BY <1>1, <1>2 DEF StoreTransition, TransitionValidate, TransitionSequence, TransitionCommit,
                      Resume
  <1>3. CASE ExecuteTask(p) \/ CancelTask(p) \/ CancelRunningTask(p)
    BY <1>1, <1>3 DEF ExecuteTask, CancelTask, CancelRunningTask
  <1>4. CASE TryAcquireDirectoryLock(p)
    BY <1>1, <1>4 DEF TryAcquireDirectoryLock, CheckCapacity, ReadGrant, InsertLock
  <1>5. CASE BeginPrepare(p) \/ PrepareWorkspace(p)
    BY <1>1, <1>5 DEF BeginPrepare, PrepareWorkspace
  <1>6. CASE LaunchProvider(p) \/ ProviderReturns(p) \/ OutputEnds(p)
    BY <1>1, <1>6 DEF LaunchProvider, ProviderReturns, OutputEnds
  <1>7. CASE PersistOutcome(p)
    BY <1>1, <1>7 DEF PersistOutcome, AppendSequence, AppendEvent, PersistStatus,
                      ReadForResult, SaveResult
  <1>8. QED
    BY <1>2, <1>3, <1>4, <1>5, <1>6, <1>7 DEF Step

(* With fewer rows there is no new conflict. *)
LEMMA FewerLocks ==
    ASSUME LockerInv, locks' \subseteq locks, UNCHANGED target,
           \A q \in Proc : pc'[q] = "insert" =>
               \/ pc[q] = "insert" /\ local'[q] = local[q]
               \/ ~LockConflict(DirectoryOf(q), local'[q].mode)
    PROVE  /\ ExclusiveLocks'
           /\ \A q \in Proc : pc'[q] = "insert" => ~LockConflict(DirectoryOf(q), local[q].mode)'
  BY DEF LockerInv, ExclusiveLocks, LockConflict, ActiveLocks, DirectoryOf

(* A held row is a record of three fields. *)
LEMMA LockFields ==
    ASSUME NEW l \in DirectoryLock, NEW d, NEW t, NEW m, l.dir = d, l.task = t, l.mode = m
    PROVE  l = [dir |-> d, task |-> t, mode |-> m]
  BY DEF DirectoryLock

(* The row excludes as its mode says, and it is a new row or one already held. *)
LEMMA InsertLockExcludes ==
    ASSUME LockerInv, NEW p \in Proc, InsertLock(p)
    PROVE  /\ ExclusiveLocks'
           /\ local[p].mode \in {"exclusive", "shared"}
           /\ \A l \in locks : l.dir = DirectoryOf(p) =>
                  local[p].mode = "shared" /\ l.mode = "shared"
           /\ locks' = locks \cup {[dir |-> DirectoryOf(p), task |-> target[p],
                                    mode |-> local[p].mode]}
  <1> DEFINE t == target[p]
             d == DirectoryOf(p)
             m == local[p].mode
             new == [dir |-> d, task |-> t, mode |-> m]
  <1>1. /\ local[p] \in Locals /\ locks \subseteq DirectoryLock /\ CallOK(p)
        /\ ~LockConflict(d, m) /\ pc[p] = "insert"
    BY DEF LockerInv, IInv, TypeOK, StoreTypeOK, CallInv, InsertLock, At
  <1>2. m \in {"exclusive", "shared"}
    BY <1>1 DEF CallOK, Locals, LockMode
  <1>3. \A l \in locks : l.dir = d => m = "shared" /\ l.mode = "shared"
    <2>1. TAKE l \in locks
    <2>2. HAVE l.dir = d
    <2>3. ~(m = "exclusive" \/ l.mode = "exclusive")
      BY <1>1, <2>1, <2>2 DEF LockConflict, ActiveLocks
    <2>4. l.mode \in {"exclusive", "shared"}
      BY <1>1, <2>1 DEF DirectoryLock
    <2>5. QED
      BY <1>2, <2>3, <2>4
  <1>4. locks' = locks \cup {new}
    <2>1. locks' = {l \in locks : ~(l.dir = d /\ l.task = t)} \cup {new}
      BY DEF InsertLock, InsertLockRow
    <2>2. ASSUME NEW l \in locks, l.dir = d, l.task = t PROVE l = new
      BY <1>1, <1>3, <2>2, LockFields
    <2> HIDE DEF new
    <2>3. QED
      BY <2>1, <2>2
  <1>5. new.dir = d /\ new.mode = m
    OBVIOUS
  <1>6. ExclusiveLocks'
    <2> HIDE DEF new, d, m
    <2>1. SUFFICES ASSUME NEW k \in locks \cup {new}, NEW l \in locks \cup {new},
                          k.dir = l.dir, k.mode = "exclusive"
                   PROVE  k = l
      BY <1>4 DEF ExclusiveLocks
    <2>2. CASE k \in locks /\ l \in locks
      BY <2>1, <2>2 DEF LockerInv, ExclusiveLocks
    <2>3. CASE k \in locks /\ l = new
      BY <1>3, <1>5, <2>1, <2>3
    <2>4. CASE k = new /\ l \in locks
      BY <1>3, <1>5, <2>1, <2>4
    <2>5. QED
      BY <2>1, <2>2, <2>3, <2>4
  <1>7. QED
    BY <1>2, <1>3, <1>4, <1>6

(* No other call is about to insert into the same directory. *)
LEMMA NextKeepsLockerInv ==
    ASSUME LockerInv, OneLocker, [Next]_vars
    PROVE  LockerInv'
  <1>1. TypeOK /\ IInv'
    BY NextKeepsIInv DEF LockerInv, IInv
  <1>2. ASSUME NEW p \in Proc, Step(p) PROVE LockerInv'
    <2>1. /\ \A q \in Proc \ {p} : pc'[q] = pc[q] /\ local'[q] = local[q]
          /\ UNCHANGED target
      BY <1>1, <1>2, StepMovesOneCall
    <2>2. CASE InsertLock(p)
      <3> DEFINE new == [dir |-> DirectoryOf(p), task |-> target[p], mode |-> local[p].mode]
      <3>1. ExclusiveLocks' /\ locks' = locks \cup {new} /\ new.dir = DirectoryOf(p)
        BY <2>2, InsertLockExcludes
      <3>2. pc[p] = "insert" /\ pc'[p] # "insert"
        BY <1>1, <2>2 DEF InsertLock, At, Transition, TypeOK
      <3> HIDE DEF new
      <3>3. ASSUME NEW q \in Proc, pc'[q] = "insert"
            PROVE  ~LockConflict(DirectoryOf(q), local[q].mode)'
        <4>1. q # p /\ pc[q] = "insert" /\ local'[q] = local[q]
          BY <2>1, <3>2, <3>3
        <4>2. DirectoryOf(q) # DirectoryOf(p)
          BY <3>2, <4>1 DEF OneLocker
        <4>3. ~LockConflict(DirectoryOf(q), local[q].mode)
          BY <4>1 DEF LockerInv
        <4>4. QED
          BY <2>1, <3>1, <4>1, <4>2, <4>3 DEF LockConflict, ActiveLocks, DirectoryOf
      <3>4. QED
        BY <1>1, <3>1, <3>3 DEF LockerInv
    <2>3. CASE ReadActiveLocks(p)
      <3>1. /\ UNCHANGED locks
            /\ pc'[p] = "insert" => /\ ~LockConflict(DirectoryOf(p), local[p].mode)
                                    /\ local'[p] = local[p]
        BY <1>1, <2>3 DEF ReadActiveLocks, At, Goto, Transition, storeVars, TypeOK
      <3>2. QED
        BY <1>1, <2>1, <3>1, FewerLocks DEF LockerInv
    <2>4. CASE ~InsertLock(p) /\ ~ReadActiveLocks(p)
      <3>1. pc'[p] # "insert"
        BY <1>1, <1>2, <2>4, OnlyLookupLeadsToInsert
      <3>2. locks' \subseteq locks
        <4>1. CASE TransitionCommit(p)
          BY <4>1 DEF TransitionCommit, CommitTransition, ReleaseLocks, storeVars
        <4>2. CASE ~TransitionCommit(p)
          BY <1>1, <1>2, <2>4, <4>2, QuietSteps
        <4>3. QED
          BY <4>1, <4>2
      <3>3. QED
        BY <1>1, <2>1, <3>1, <3>2, FewerLocks DEF LockerInv
    <2>5. QED
      BY <2>2, <2>3, <2>4
  <1>3. CASE Outside
    <2>1. /\ UNCHANGED <<locks, target>>
          /\ \A q \in Proc : pc'[q] = "insert" => pc[q] = "insert" /\ local'[q] = local[q]
      BY <1>1, <1>3, OutsideSteps
    <2>2. QED
      BY <1>1, <2>1, FewerLocks DEF LockerInv
  <1>4. QED
    BY <1>2, <1>3, NextCases

(* Before the first request no row is held and no call has started. *)
LEMMA InitEstablishesLockerInv == Init => LockerInv
  BY InitEstablishesIInv DEF Init, StoreInit, LockerInv, ExclusiveLocks

(* The conflict check of try_acquire_directory_lock is still true when the row is
   inserted, as long as one call per directory is between the two. *)
THEOREM LockerInductive == Spec /\ []OneLocker => []LockerInv
  <1>1. LockerInv /\ OneLocker /\ [Next]_vars => LockerInv'
    BY NextKeepsLockerInv
  <1>2. QED
    BY <1>1, InitEstablishesLockerInv, PTL DEF Spec

(* As long as no two calls are between find_active_locks and insert_lock of one
   directory, an exclusive lock is the only one on its directory, whatever else
   interleaves, fails or crashes. *)
THEOREM LocksExclude == Spec /\ []OneLocker => []ExclusiveLocks
  <1>1. LockerInv => ExclusiveLocks
    BY DEF LockerInv
  <1>2. QED
    BY <1>1, LockerInductive, PTL

-----------------------------------------------------------------------------
(* execute_task's read of the status and the insert of the lock. *)

Entry == {"capacity", "grant", "lookup", "insert"}

(* A call that goes on to insert a lock is for a task that has not ended. *)
EndInv ==
    /\ IInv
    /\ TerminalHoldsNoLock
    /\ \A p \in Proc : pc[p] \in Entry => status[target[p]] \notin Terminal

(* The way to the insert starts at the read of the status. *)
LEMMA OnlyExecuteLeadsToEntry ==
    ASSUME TypeOK, NEW p \in Proc, Step(p), pc'[p] \in Entry
    PROVE  pc[p] \in Entry \/ status[target[p]] \notin Terminal
  <1>1. pc \in [Proc -> Label] /\ local \in [Proc -> Locals] /\ local[p].then \in Resume
    BY DEF TypeOK, Locals
  <1> USE DEF At, Goto, Return, Continue, Transition, Entry
  <1>2. CASE StoreTransition(p)
    BY <1>1, <1>2 DEF StoreTransition, TransitionValidate, TransitionSequence, TransitionCommit,
                      Resume
  <1>3. CASE ExecuteTask(p) \/ CancelTask(p) \/ CancelRunningTask(p)
    BY <1>1, <1>3 DEF ExecuteTask, CancelTask, CancelRunningTask
  <1>4. CASE TryAcquireDirectoryLock(p)
    BY <1>1, <1>4 DEF TryAcquireDirectoryLock, CheckCapacity, ReadGrant, ReadActiveLocks, InsertLock
  <1>5. CASE BeginPrepare(p) \/ PrepareWorkspace(p)
    BY <1>1, <1>5 DEF BeginPrepare, PrepareWorkspace
  <1>6. CASE LaunchProvider(p) \/ ProviderReturns(p) \/ OutputEnds(p)
    BY <1>1, <1>6 DEF LaunchProvider, ProviderReturns, OutputEnds
  <1>7. CASE PersistOutcome(p)
    BY <1>1, <1>7 DEF PersistOutcome, AppendSequence, AppendEvent, PersistStatus,
                      ReadForResult, SaveResult
  <1>8. QED
    BY <1>2, <1>3, <1>4, <1>5, <1>6, <1>7 DEF Step

(* No commit ends a task that a call is about to lock for. *)
LEMMA NextKeepsEndInv ==
    ASSUME EndInv, NoEndWhileLocking, [Next]_vars
    PROVE  EndInv'
  <1>1. /\ TypeOK /\ IInv' /\ target \in [Proc -> Task]
        /\ status \in [Task -> TaskStatus \cup {"absent"}]
    BY NextKeepsIInv DEF EndInv, IInv, TypeOK, StoreTypeOK
  <1>2. ASSUME NEW p \in Proc, Step(p) PROVE EndInv'
    <2>1. /\ \A q \in Proc \ {p} : pc'[q] = pc[q] /\ local'[q] = local[q]
          /\ UNCHANGED target
      BY <1>1, <1>2, StepMovesOneCall
    <2>2. \A q \in Proc : pc'[q] \in Entry => pc[q] \in Entry \/ status[target[q]] \notin Terminal
      BY <1>1, <1>2, <2>1, OnlyExecuteLeadsToEntry
    <2>3. CASE InsertLock(p)
      <3> DEFINE new == [dir |-> DirectoryOf(p), task |-> target[p], mode |-> local[p].mode]
      <3>1. /\ UNCHANGED status /\ locks' \subseteq locks \cup {new} /\ new.task = target[p]
            /\ pc[p] \in Entry
        BY <2>3 DEF InsertLock, InsertLockRow, At, Entry
      <3> HIDE DEF new
      <3>2. TerminalHoldsNoLock'
        BY <3>1 DEF EndInv, TerminalHoldsNoLock
      <3>3. QED
        BY <1>1, <2>1, <2>2, <3>1, <3>2 DEF EndInv
    <2>4. CASE TransitionCommit(p)
      <3>1. pc[p] = "commit" /\ target[p] \in Task
        BY <1>1, <2>4 DEF TransitionCommit, At
      <3>2. CASE UNCHANGED storeVars
        BY <1>1, <2>1, <2>2, <3>2 DEF EndInv, TerminalHoldsNoLock, storeVars
      <3>3. CASE CommitTransition(target[p], local[p].seq, local[p].next)
        <4>1. /\ status' = [status EXCEPT ![target[p]] = local[p].next]
              /\ locks' = IF local[p].next \in Terminal THEN {l \in locks : l.task # target[p]}
                          ELSE locks
          BY <3>3 DEF CommitTransition, ReleaseLocks
        <4>2. TerminalHoldsNoLock'
          BY <1>1, <3>1, <4>1 DEF EndInv, TerminalHoldsNoLock
        <4>3. ASSUME NEW q \in Proc, pc'[q] \in Entry PROVE status'[target'[q]] \notin Terminal
          <5>1. status[target[q]] \notin Terminal
            BY <2>2, <4>3 DEF EndInv
          <5>2. CASE target[q] # target[p]
            BY <1>1, <2>1, <4>1, <5>1, <5>2
          <5>3. CASE target[q] = target[p] /\ local[p].next \notin Terminal
            BY <1>1, <2>1, <4>1, <5>3
          <5>4. CASE target[q] = target[p] /\ local[p].next \in Terminal
            <6>1. q # p
              <7>1. pc'[p] \in Resume
                BY <1>1, <2>4, ContinueMoves, ReturnMoves DEF TransitionCommit, Resume
              <7>2. QED
                BY <4>3, <7>1 DEF Resume, Entry
            <6>2. pc[q] \in Entry
              BY <2>1, <4>3, <6>1
            <6>3. QED
              BY <3>1, <5>4, <6>2 DEF NoEndWhileLocking, Entry
          <5>5. QED
            BY <5>2, <5>3, <5>4
        <4>4. QED
          BY <1>1, <4>2, <4>3 DEF EndInv
      <3>4. QED
        BY <2>4, <3>2, <3>3 DEF TransitionCommit
    <2>5. CASE ~InsertLock(p) /\ ~TransitionCommit(p)
      <3>1. UNCHANGED <<status, locks>>
        BY <1>1, <1>2, <2>5, QuietSteps
      <3>2. QED
        BY <1>1, <2>1, <2>2, <3>1 DEF EndInv, TerminalHoldsNoLock
    <2>6. QED
      BY <2>3, <2>4, <2>5
  <1>3. CASE Outside
    <2>1. /\ UNCHANGED <<locks, target>>
          /\ \A q \in Proc : pc'[q] \in Entry => pc[q] \in Entry
          /\ \A t \in Task : status[t] \notin Terminal => status'[t] \notin Terminal
      BY <1>1, <1>3, OutsideSteps DEF Entry, Terminal
    <2>2. \A l \in locks : l.task \in Task
      BY <1>1 DEF TypeOK, StoreTypeOK, DirectoryLock
    <2>3. TerminalHoldsNoLock'
      BY <2>1, <2>2 DEF EndInv, TerminalHoldsNoLock
    <2>4. QED
      BY <1>1, <2>1, <2>3 DEF EndInv
  <1>4. QED
    BY <1>2, <1>3, NextCases

(* Before the first request no call has started. *)
LEMMA InitEstablishesEndInv == Init => EndInv
  BY InitEstablishesIInv DEF Init, StoreInit, EndInv, TerminalHoldsNoLock, Entry

(* What execute_task read of the status is still true when it inserts the lock, as
   long as no commit ends the task meanwhile. *)
THEOREM EndInductive == Spec /\ []NoEndWhileLocking => []EndInv
  <1>1. EndInv /\ NoEndWhileLocking /\ [Next]_vars => EndInv'
    BY NextKeepsEndInv
  <1>2. QED
    BY <1>1, InitEstablishesEndInv, PTL DEF Spec

(* As long as no task is ended between the read of its status in execute_task and
   the insert of its lock, no lock outlives its task: TaskStore::transition releases
   every row a task holds when it ends, and none is inserted later. *)
THEOREM TerminalReleases == Spec /\ []NoEndWhileLocking => []TerminalHoldsNoLock
  <1>1. EndInv => TerminalHoldsNoLock
    BY DEF EndInv
  <1>2. QED
    BY <1>1, EndInductive, PTL

-----------------------------------------------------------------------------
(* What needs no window: the route of a call and the modes of the locks. *)

(* Where each caller of TaskStore::transition goes on: the status asked for and
   the statement after it belong together. *)
RouteOK(p) ==
    InTransition(p) =>
        /\ local[p].then = "prepare" => local[p].next = "waiting"
        /\ local[p].next = "preparing" => local[p].then = "workspace"
        /\ local[p].then = "launch" <=> local[p].next = "running"

(* The outcome a provider left, until it is persisted. *)
OutcomeOK(p) ==
    pc[p] \in {"drain", "outcome", "persist", "append"} => local[p].next \in Terminal

(* The lock mode a writer computed. *)
WriterMode(p) ==
    pc[p] \in {"lookup", "insert"} /\ WriteCapable(Caps[target[p]]) =>
        local[p].mode = "exclusive"

WritersLockExclusively ==
    \A l \in locks : WriteCapable(Caps[l.task]) => l.mode = "exclusive"

RouteInv ==
    /\ IInv
    /\ \A p \in Proc : RouteOK(p) /\ OutcomeOK(p) /\ WriterMode(p)
    /\ WritersLockExclusively

Launched(p) == pc[p] \in {"launch", "provider", "drain"}

(* What a statement of a call does to its own route. *)
OnRoute(p) == RouteOK(p)' /\ OutcomeOK(p)' /\ WriterMode(p)'

(* TaskStore::transition: it goes on where its caller asked, and claims nothing its
   caller had not claimed. *)
LEMMA TransitionRoute ==
    ASSUME RouteInv, NEW p \in Proc, TransitionValidate(p) \/ TransitionSequence(p)
    PROVE  /\ OnRoute(p) /\ UNCHANGED locks
           /\ Holding(p)' => Holding(p)
           /\ Claiming(p)' => Claiming(p)
           /\ ~Launched(p)'
  <1>1. /\ pc \in [Proc -> Label] /\ local \in [Proc -> Locals]
        /\ target \in [Proc -> Task] /\ RouteOK(p)
    BY DEF RouteInv, IInv, TypeOK
  <1>2. local[p].then \in Resume /\ local[p] \in Locals
    BY <1>1 DEF Locals
  <1> USE DEF At, storeVars, OnRoute, RouteOK, OutcomeOK, WriterMode, Holding, Claiming, Launched,
              InTransition
  <1>3. CASE TransitionValidate(p) /\ pc'[p] = "sequence"
    BY <1>1, <1>3 DEF TransitionValidate, Continue, Goto, Return
  <1>4. CASE TransitionValidate(p) /\ pc'[p] = "done"
    BY <1>1, <1>4 DEF TransitionValidate
  <1>5. CASE TransitionValidate(p) /\ pc'[p] \notin {"sequence", "done"}
    <2>1. /\ ValidateTransition(status[target[p]], local[p].next) = "idempotent"
          /\ pc'[p] = local[p].then
      BY <1>1, <1>5 DEF TransitionValidate, Continue, Goto, Return
    <2>2. local[p].next \in Terminal
      BY <2>1 DEF ValidateTransition
    <2>3. local[p].then \notin {"prepare", "launch"}
      BY <1>1, <1>5, <2>2 DEF TransitionValidate, Terminal
    <2>4. QED
      BY <1>2, <1>5, <2>1, <2>3 DEF TransitionValidate, Resume
  <1>6. CASE TransitionSequence(p)
    BY <1>1, <1>2, <1>6 DEF TransitionSequence, Locals
  <1>7. QED
    BY <1>3, <1>4, <1>5, <1>6

(* The transaction: the call goes on where it asked, or returns. *)
LEMMA CommitRoute ==
    ASSUME RouteInv, NEW p \in Proc, TransitionCommit(p)
    PROVE  /\ OnRoute(p) /\ locks' \subseteq locks
           /\ Holding(p)' => local[p].then = "prepare" /\ Holding(p) /\ local[p].next = "waiting"
           /\ Claiming(p)' => Holding(p)'
           /\ Launched(p)' => local[p].next = "running"
           /\ UNCHANGED storeVars => ~Holding(p)' /\ ~Launched(p)'
  <1>1. /\ TypeOK /\ pc \in [Proc -> Label] /\ local \in [Proc -> Locals] /\ RouteOK(p)
        /\ local[p].then \in Resume /\ pc[p] = "commit"
        /\ events \in [Task -> SUBSET Event] /\ target[p] \in Task
    BY DEF RouteInv, IInv, TypeOK, StoreTypeOK, Locals, TransitionCommit, At
  <1>2. CASE Return(p) /\ UNCHANGED storeVars
    <2>1. pc'[p] = "done"
      BY <1>1, <1>2, ReturnMoves
    <2>2. QED
      BY <1>2, <2>1 DEF OnRoute, RouteOK, OutcomeOK, WriterMode, Holding, Claiming, Launched,
                        InTransition, storeVars
  <1>3. CASE Continue(p) /\ CommitTransition(target[p], local[p].seq, local[p].next)
    <2>1. pc'[p] = local[p].then
      BY <1>1, <1>3, ContinueMoves
    <2>2. locks' \subseteq locks
      BY <1>3 DEF CommitTransition, ReleaseLocks
    <2>3. events' # events
      <3> DEFINE new == [seq |-> local[p].seq, type |-> EventTypeForStatus(local[p].next)]
      <3>1. new \in events'[target[p]] /\ new.seq = local[p].seq
        BY <1>1, <1>3 DEF CommitTransition, InsertEvent
      <3>2. \A e \in events[target[p]] : e.seq # local[p].seq
        BY <1>3 DEF CommitTransition, InsertEvent, SequenceFree, SequencesOf
      <3> HIDE DEF new
      <3>3. QED
        BY <3>1, <3>2
    <2>4. QED
      BY <1>1, <2>1, <2>2, <2>3
         DEF OnRoute, RouteOK, OutcomeOK, WriterMode, Holding, Claiming, Launched, InTransition,
             Resume, storeVars
  <1>4. QED
    BY <1>2, <1>3 DEF TransitionCommit

(* execute_task up to the launch, and cancel_task. *)
LEMMA ExecuteRoute ==
    ASSUME RouteInv, NEW p \in Proc,
           \/ ExecuteTask(p) \/ CheckCapacity(p) \/ ReadGrant(p) \/ ReadActiveLocks(p)
           \/ BeginPrepare(p) \/ PrepareWorkspace(p) \/ CancelTask(p)
    PROVE  /\ OnRoute(p) /\ UNCHANGED locks
           /\ Claiming(p)' => Claiming(p) \/ (CheckCapacity(p) /\ pc'[p] = "grant")
           /\ Holding(p)' => Holding(p) \/ (ReadGrant(p) /\ pc'[p] = "prepare")
           /\ ~Launched(p)'
  <1>1. /\ pc \in [Proc -> Label] /\ local \in [Proc -> Locals]
        /\ target \in [Proc -> Task] /\ RouteOK(p) /\ WriterMode(p)
    BY DEF RouteInv, IInv, TypeOK
  <1>2. local[p] \in Locals
    BY <1>1
  <1> USE DEF At, storeVars, OnRoute, RouteOK, OutcomeOK, WriterMode, Holding, Claiming, Launched,
              InTransition
  <1>3. CASE ExecuteTask(p)
    BY <1>1, <1>3 DEF ExecuteTask, Goto, Return
  <1>4. CASE CheckCapacity(p)
    BY <1>1, <1>2, <1>4 DEF CheckCapacity, Transition, Goto, Locals
  <1>5. CASE ReadGrant(p)
    <2>1. pc[p] = "grant" /\ UNCHANGED <<locks, target>>
      BY <1>5 DEF ReadGrant
    <2>2. CASE pc'[p] = "lookup"
      <3>1. /\ ModeForCapabilities(Caps[target[p]], policy[DirectoryOf(p)]) # "none"
            /\ local'[p].mode = ModeForCapabilities(Caps[target[p]], policy[DirectoryOf(p)])
        BY <1>1, <1>2, <1>5, <2>1, <2>2 DEF ReadGrant, Goto, Return, Locals
      <3>2. WriteCapable(Caps[target[p]]) => local'[p].mode = "exclusive"
        BY <3>1 DEF ModeForCapabilities
      <3>3. QED
        BY <2>1, <2>2, <3>2
    <2>3. CASE pc'[p] \in {"prepare", "done"}
      BY <1>5, <2>1, <2>3
    <2>4. QED
      BY <1>1, <1>5, <2>1, <2>2, <2>3 DEF ReadGrant, Goto, Return
  <1>6. CASE ReadActiveLocks(p)
    BY <1>1, <1>2, <1>6 DEF ReadActiveLocks, Goto, Transition, Locals
  <1>7. CASE BeginPrepare(p)
    BY <1>1, <1>2, <1>7 DEF BeginPrepare, Goto, Return, Transition, Locals
  <1>8. CASE PrepareWorkspace(p)
    BY <1>1, <1>2, <1>8 DEF PrepareWorkspace, Transition, Locals
  <1>9. CASE CancelTask(p)
    BY <1>1, <1>2, <1>9 DEF CancelTask, Return, Transition, Locals
  <1>10. QED
    BY <1>3, <1>4, <1>5, <1>6, <1>7, <1>8, <1>9

(* The adapter and persist_outcome. *)
LEMMA AdapterRoute ==
    ASSUME RouteInv, NEW p \in Proc,
           \/ LaunchProvider(p) \/ ProviderReturns(p) \/ OutputEnds(p) \/ CancelRunningTask(p)
           \/ PersistOutcome(p)
    PROVE  /\ OnRoute(p) /\ UNCHANGED locks /\ ~Claiming(p)'
           /\ Launched(p)' => Launched(p)
  <1>1. /\ pc \in [Proc -> Label] /\ local \in [Proc -> Locals]
        /\ target \in [Proc -> Task] /\ local[p] \in Locals /\ OutcomeOK(p)
    BY DEF RouteInv, IInv, TypeOK
  <1> USE DEF At, storeVars, OnRoute, RouteOK, OutcomeOK, WriterMode, Holding, Claiming, Launched,
              InTransition
  <1>2. CASE LaunchProvider(p)
    BY <1>1, <1>2 DEF LaunchProvider, Goto, Terminal, Locals
  <1>3. CASE ProviderReturns(p)
    BY <1>1, <1>3 DEF ProviderReturns, Terminal, Locals
  <1>4. CASE OutputEnds(p)
    BY <1>1, <1>4 DEF OutputEnds, Locals
  <1>5. CASE CancelRunningTask(p)
    BY <1>1, <1>5 DEF CancelRunningTask, Return
  <1>6. CASE AppendSequence(p) \/ ReadForResult(p)
    BY <1>1, <1>6 DEF AppendSequence, ReadForResult, Locals
  <1>7. CASE AppendEvent(p)
    <2>1. /\ pc[p] = "append" /\ UNCHANGED locks
          /\ pc'[p] \in {"persist", "done"}
          /\ pc'[p] = "persist" => local'[p].next = local[p].next
      BY <1>1, <1>7 DEF AppendEvent, Return, Locals
    <2>2. QED
      BY <1>1, <2>1
  <1>8. CASE PersistStatus(p)
    BY <1>1, <1>8 DEF PersistStatus, Transition, Locals, Terminal
  <1>9. CASE SaveResult(p)
    BY <1>1, <1>9 DEF SaveResult, SaveExecutionResult, Return
  <1>10. QED
    BY <1>2, <1>3, <1>4, <1>5, <1>6, <1>7, <1>8, <1>9 DEF PersistOutcome

(* acquire_lock: a writer's row is exclusive, and the call goes on to `waiting'. *)
LEMMA InsertLockRoute ==
    ASSUME RouteInv, NEW p \in Proc, InsertLock(p)
    PROVE  OnRoute(p) /\ Claiming(p) /\ ~Launched(p)' /\ WritersLockExclusively'
  <1>1. /\ pc \in [Proc -> Label] /\ local \in [Proc -> Locals]
        /\ target \in [Proc -> Task] /\ local[p] \in Locals /\ WriterMode(p)
    BY DEF RouteInv, IInv, TypeOK
  <1>2. pc[p] = "insert" /\ UNCHANGED target /\ Transition(p, "waiting", "prepare")
    BY DEF InsertLock, At
  <1>3. pc'[p] = "validate" /\ local'[p].next = "waiting" /\ local'[p].then = "prepare"
    BY <1>1, <1>2 DEF Transition, Locals
  <1>4. WritersLockExclusively'
    <2> DEFINE new == [dir |-> DirectoryOf(p), task |-> target[p], mode |-> local[p].mode]
    <2>1. new.task = target[p] /\ new.mode = local[p].mode
      OBVIOUS
    <2>2. locks' \subseteq locks \cup {new}
      BY DEF InsertLock, InsertLockRow
    <2>3. WriteCapable(Caps[new.task]) => new.mode = "exclusive"
      BY <1>1, <1>2, <2>1 DEF WriterMode
    <2> HIDE DEF new
    <2>4. QED
      BY <2>2, <2>3 DEF RouteInv, WritersLockExclusively
  <1>5. QED
    BY <1>2, <1>3, <1>4 DEF OnRoute, RouteOK, OutcomeOK, WriterMode, Claiming, Launched, InTransition

(* No window is needed for a call to stay on its route. *)
LEMMA NextKeepsRouteInv ==
    ASSUME RouteInv, [Next]_vars
    PROVE  RouteInv'
  <1>1. TypeOK /\ IInv'
    BY NextKeepsIInv DEF RouteInv, IInv
  <1>2. ASSUME NEW p \in Proc, Step(p) PROVE RouteInv'
    <2>1. /\ \A q \in Proc \ {p} : pc'[q] = pc[q] /\ local'[q] = local[q]
          /\ UNCHANGED target
      BY <1>1, <1>2, StepMovesOneCall
    <2>2. OnRoute(p)
      BY <1>2, TransitionRoute, CommitRoute, ExecuteRoute, AdapterRoute, InsertLockRoute
         DEF Step, StoreTransition, TryAcquireDirectoryLock
    <2>3. WritersLockExclusively'
      <3>1. InsertLock(p) \/ locks' \subseteq locks
        BY <1>2, TransitionRoute, CommitRoute, ExecuteRoute, AdapterRoute
           DEF Step, StoreTransition, TryAcquireDirectoryLock
      <3>2. QED
        BY <3>1, InsertLockRoute DEF RouteInv, WritersLockExclusively
    <2>4. ASSUME NEW q \in Proc \ {p} PROVE (RouteOK(q) /\ OutcomeOK(q) /\ WriterMode(q))'
      BY <2>1 DEF RouteInv, RouteOK, OutcomeOK, WriterMode, InTransition
    <2>5. QED
      BY <1>1, <2>2, <2>3, <2>4 DEF RouteInv, OnRoute
  <1>3. CASE Outside
    <2>1. /\ UNCHANGED <<locks, target>>
          /\ \A q \in Proc : \/ pc'[q] = pc[q] /\ local'[q] = local[q]
                             \/ pc'[q] \in {"idle", "done"}
      BY <1>1, <1>3, OutsideSteps
    <2>2. \A q \in Proc : (RouteOK(q) /\ OutcomeOK(q) /\ WriterMode(q))'
      BY <2>1 DEF RouteInv, RouteOK, OutcomeOK, WriterMode, InTransition
    <2>3. QED
      BY <1>1, <2>1, <2>2 DEF RouteInv, WritersLockExclusively
  <1>4. QED
    BY <1>2, <1>3, NextCases

(* Before the first request no call has started. *)
LEMMA InitEstablishesRouteInv == Init => RouteInv
  BY InitEstablishesIInv
     DEF Init, StoreInit, RouteInv, RouteOK, OutcomeOK, WriterMode, InTransition,
         WritersLockExclusively

-----------------------------------------------------------------------------
(* validate_transition and the transaction. *)

Moving == {"sequence", "commit"}

HasRun(t) == status[t] \in {"running"} \cup Terminal

(* The verdict of the validator is still true when the transaction commits. *)
FreshVerdict(p) ==
    pc[p] \in Moving => ValidateTransition(status[target[p]], local[p].next) = "changed"

(* A log has one event `running', and only of a task that ran. *)
RunEventsInv ==
    \A t \in Task : \A d \in events[t] : d.type = "running" =>
        HasRun(t) /\ \A e \in events[t] : e.type = "running" => d = e

(* A task has one executor at its provider. *)
LaunchInv ==
    /\ \A p \in Proc : Launched(p) => HasRun(target[p])
    /\ \A p, q \in Proc : Launched(p) /\ Launched(q) /\ target[p] = target[q] => p = q

MoverInv ==
    /\ RouteInv
    /\ \A p \in Proc : FreshVerdict(p)
    /\ RunEventsInv
    /\ LaunchInv

(* Only the validator leads to the transaction. *)
LEMMA OnlyValidateLeadsToMoving ==
    ASSUME TypeOK, NEW p \in Proc, Step(p), FreshVerdict(p), pc'[p] \in Moving
    PROVE  /\ UNCHANGED status
           /\ ValidateTransition(status[target[p]], local'[p].next) = "changed"
  <1>1. /\ pc \in [Proc -> Label] /\ local \in [Proc -> Locals] /\ local[p].then \in Resume
        /\ local[p] \in Locals
    BY DEF TypeOK, Locals
  <1> USE DEF At, Goto, Return, Continue, Transition, Moving
  <1>2. CASE TransitionValidate(p)
    BY <1>1, <1>2 DEF TransitionValidate, Resume, storeVars
  <1>3. CASE TransitionSequence(p)
    BY <1>1, <1>3 DEF TransitionSequence, FreshVerdict, storeVars, Locals
  <1>4. CASE TransitionCommit(p)
    BY <1>1, <1>4 DEF TransitionCommit, Resume
  <1>5. CASE ExecuteTask(p) \/ CancelTask(p) \/ CancelRunningTask(p)
    BY <1>1, <1>5 DEF ExecuteTask, CancelTask, CancelRunningTask
  <1>6. CASE TryAcquireDirectoryLock(p)
    BY <1>1, <1>6 DEF TryAcquireDirectoryLock, CheckCapacity, ReadGrant, ReadActiveLocks, InsertLock
  <1>7. CASE BeginPrepare(p) \/ PrepareWorkspace(p)
    BY <1>1, <1>7 DEF BeginPrepare, PrepareWorkspace
  <1>8. CASE LaunchProvider(p) \/ ProviderReturns(p) \/ OutputEnds(p)
    BY <1>1, <1>8 DEF LaunchProvider, ProviderReturns, OutputEnds
  <1>9. CASE PersistOutcome(p)
    BY <1>1, <1>9 DEF PersistOutcome, AppendSequence, AppendEvent, PersistStatus,
                      ReadForResult, SaveResult
  <1>10. QED
    BY <1>2, <1>3, <1>4, <1>5, <1>6, <1>7, <1>8, <1>9 DEF Step, StoreTransition

(* An event whose type is not `running' leaves the runs of a log as they are. *)
LEMMA OtherEventsKeepRuns ==
    ASSUME RunEventsInv, NEW t \in Task, NEW n, NEW type, type # "running",
           events \in [Task -> SUBSET Event],
           InsertEvent(t, n, type), \A u \in Task : HasRun(u) => HasRun(u)'
    PROVE  RunEventsInv'
  <1> DEFINE new == [seq |-> n, type |-> type]
  <1>1. /\ events'[t] = events[t] \cup {new}
        /\ \A u \in Task \ {t} : events'[u] = events[u]
    BY DEF InsertEvent
  <1>2. new.type # "running"
    OBVIOUS
  <1> HIDE DEF new
  <1>3. \A u \in Task : \A e \in events'[u] : e.type = "running" => e \in events[u]
    BY <1>1, <1>2
  <1>4. QED
    BY <1>3 DEF RunEventsInv

(* Nothing in the runs of the logs changes when the tables do not. *)
LEMMA SameRuns ==
    ASSUME RunEventsInv, UNCHANGED <<status, events>>
    PROVE  RunEventsInv'
  BY DEF RunEventsInv, HasRun

(* What a commit under OneMover does: it follows the table of transitions, so a task
   that commits `running' was preparing and has not run. *)
LEMMA CommitUnderOneMover ==
    ASSUME MoverInv, NEW p \in Proc, CommitTransition(target[p], local[p].seq, local[p].next),
           pc[p] = "commit", UNCHANGED target
    PROVE  /\ <<status[target[p]], local[p].next>> \in AllowedTransitions
           /\ status[target[p]] \notin Terminal
           /\ status' = [status EXCEPT ![target[p]] = local[p].next]
           /\ RunEventsInv'
           /\ \A t \in Task : HasRun(t) => HasRun(t)'
           /\ local[p].next = "running" => ~HasRun(target[p]) /\ HasRun(target[p])'
  <1> DEFINE t == target[p]
             next == local[p].next
             new == [seq |-> local[p].seq, type |-> next]
  <1>1. /\ t \in Task /\ status \in [Task -> TaskStatus \cup {"absent"}]
        /\ events \in [Task -> SUBSET Event] /\ RunEventsInv /\ next \in TaskStatus
    BY DEF MoverInv, RouteInv, IInv, TypeOK, StoreTypeOK, Locals
  <1>2. InsertEvent(t, local[p].seq, next) /\ status' = [status EXCEPT ![t] = next]
    BY DEF CommitTransition, EventTypeForStatus
  <1>3. <<status[t], next>> \in AllowedTransitions /\ status[t] \notin Terminal
    BY DEF MoverInv, FreshVerdict, Moving, ValidateTransition
  <1>4. \A u \in Task : HasRun(u) => HasRun(u)'
    BY <1>1, <1>2, <1>3 DEF HasRun, AllowedTransitions, Terminal
  <1>5. CASE next # "running"
    BY <1>1, <1>2, <1>3, <1>4, <1>5, OtherEventsKeepRuns
  <1>6. CASE next = "running"
    <2>1. /\ status[t] \notin {"running"} \cup Terminal
          /\ status'[t] \in {"running"} \cup Terminal
      BY <1>1, <1>2, <1>3, <1>6 DEF AllowedTransitions, Terminal
    <2>2. \A e \in events[t] : e.type # "running"
      BY <1>1, <2>1 DEF RunEventsInv, HasRun
    <2>3. /\ events'[t] = events[t] \cup {new}
          /\ \A u \in Task \ {t} : events'[u] = events[u]
      BY <1>1, <1>2 DEF InsertEvent
    <2>4. RunEventsInv'
      <3> HIDE DEF new
      <3> QED
        BY <1>1, <1>4, <2>1, <2>2, <2>3 DEF RunEventsInv, HasRun
    <2>5. ~HasRun(t) /\ HasRun(t)'
      BY <2>1 DEF HasRun
    <2>6. QED
      BY <1>2, <1>3, <1>4, <2>4, <2>5
  <1>7. QED
    BY <1>2, <1>3, <1>5, <1>4, <1>6

(* The transaction. *)
LEMMA CommitKeepsMoverInv ==
    ASSUME MoverInv, OneMover, RouteInv', NEW p \in Proc, Step(p), TransitionCommit(p)
    PROVE  MoverInv'
  <1>1. /\ TypeOK /\ target \in [Proc -> Task] /\ pc[p] = "commit"
        /\ status \in [Task -> TaskStatus \cup {"absent"}]
    BY DEF MoverInv, RouteInv, IInv, TypeOK, StoreTypeOK, TransitionCommit, At
  <1>2. /\ \A q \in Proc \ {p} : pc'[q] = pc[q] /\ local'[q] = local[q]
        /\ UNCHANGED target
    BY <1>1, StepMovesOneCall
  <1>3. pc'[p] \in Resume
    BY <1>1, ContinueMoves, ReturnMoves DEF TransitionCommit, Resume
  <1>4. CASE UNCHANGED storeVars
    <2>1. \A q \in Proc : FreshVerdict(q)'
      BY <1>2, <1>3, <1>4 DEF MoverInv, FreshVerdict, Moving, Resume, storeVars
    <2>2. LaunchInv'
      BY <1>2, <1>4, CommitRoute DEF MoverInv, LaunchInv, Launched, HasRun, storeVars
    <2>3. QED
      BY <1>4, <2>1, <2>2, SameRuns DEF MoverInv, storeVars
  <1>5. CASE CommitTransition(target[p], local[p].seq, local[p].next)
    <2>1. /\ status' = [status EXCEPT ![target[p]] = local[p].next]
          /\ RunEventsInv'
          /\ \A t \in Task : HasRun(t) => HasRun(t)'
          /\ local[p].next = "running" => ~HasRun(target[p]) /\ HasRun(target[p])'
      BY <1>1, <1>2, <1>5, CommitUnderOneMover
    <2>2. ASSUME NEW q \in Proc PROVE FreshVerdict(q)'
      <3>1. CASE q = p
        BY <1>3, <3>1 DEF FreshVerdict, Moving, Resume
      <3>2. CASE q # p /\ pc[q] \notin Moving
        BY <1>2, <3>2 DEF FreshVerdict
      <3>3. CASE q # p /\ pc[q] \in Moving
        <4>1. target[q] # target[p]
          BY <1>1, <3>3 DEF OneMover, Moving
        <4>2. QED
          BY <1>1, <1>2, <2>1, <3>3, <4>1 DEF MoverInv, FreshVerdict
      <3>4. QED
        BY <3>1, <3>2, <3>3
    <2>3. LaunchInv'
      <3>1. \A q \in Proc \ {p} : Launched(q)' = Launched(q)
        BY <1>2 DEF Launched
      <3>2. Launched(p)' => local[p].next = "running"
        BY CommitRoute DEF MoverInv
      <3>3. QED
        BY <1>1, <1>2, <2>1, <3>1, <3>2 DEF MoverInv, LaunchInv
    <2>4. QED
      BY <2>1, <2>2, <2>3 DEF MoverInv
  <1>6. QED
    BY <1>4, <1>5 DEF TransitionCommit

(* No other call moves a task whose move has been validated. *)
LEMMA NextKeepsMoverInv ==
    ASSUME MoverInv, OneMover, [Next]_vars
    PROVE  MoverInv'
  <1>1. /\ TypeOK /\ RouteInv' /\ target \in [Proc -> Task]
        /\ status \in [Task -> TaskStatus \cup {"absent"}]
        /\ events \in [Task -> SUBSET Event]
    BY NextKeepsRouteInv DEF MoverInv, RouteInv, IInv, TypeOK, StoreTypeOK
  <1>2. ASSUME NEW p \in Proc, Step(p), ~TransitionCommit(p) PROVE MoverInv'
    <2>1. /\ \A q \in Proc \ {p} : pc'[q] = pc[q] /\ local'[q] = local[q]
          /\ UNCHANGED target
      BY <1>1, <1>2, StepMovesOneCall
    <2>2. UNCHANGED status /\ (UNCHANGED events \/ AppendEvent(p))
      BY <1>1, <1>2, QuietSteps DEF InsertLock
    <2>3. RunEventsInv'
      <3>1. CASE UNCHANGED events
        BY <2>2, <3>1, SameRuns DEF MoverInv
      <3>2. CASE InsertEvent(target[p], local[p].seq, "output")
        BY <1>1, <2>2, <3>2, OtherEventsKeepRuns DEF MoverInv, HasRun
      <3>3. QED
        BY <2>2, <3>1, <3>2 DEF AppendEvent, storeVars
    <2>4. ASSUME NEW q \in Proc PROVE FreshVerdict(q)'
      <3>1. CASE q = p
        BY <1>1, <1>2, <2>1, <3>1, OnlyValidateLeadsToMoving DEF MoverInv, FreshVerdict
      <3>2. CASE q # p
        BY <2>1, <2>2, <3>2 DEF MoverInv, FreshVerdict
      <3>3. QED
        BY <3>1, <3>2
    <2>5. LaunchInv'
      <3>1. Launched(p)' => Launched(p)
        BY <1>2, TransitionRoute, ExecuteRoute, AdapterRoute, InsertLockRoute
           DEF MoverInv, Step, StoreTransition, TryAcquireDirectoryLock
      <3>2. \A q \in Proc : Launched(q)' => Launched(q)
        BY <2>1, <3>1 DEF Launched
      <3>3. QED
        BY <2>1, <2>2, <3>2 DEF MoverInv, LaunchInv, HasRun
    <2>6. QED
      BY <1>1, <2>3, <2>4, <2>5 DEF MoverInv
  <1>3. CASE Outside
    <2>1. /\ UNCHANGED target
          /\ \A q \in Proc : \/ pc'[q] = pc[q] /\ local'[q] = local[q]
                             \/ pc'[q] \in {"idle", "done"}
          /\ \A t \in Task : \/ status'[t] = status[t]
                             \/ status[t] = "absent" /\ status'[t] = "queued"
          /\ UNCHANGED <<status, events>> \/ \E t \in Task : Create(t)
      BY <1>1, <1>3, OutsideSteps
    <2>2. \A t \in Task : HasRun(t) => HasRun(t)'
      BY <2>1 DEF HasRun, Terminal
    <2>3. RunEventsInv'
      <3>1. CASE UNCHANGED <<status, events>>
        BY <3>1, SameRuns DEF MoverInv
      <3>2. ASSUME NEW t \in Task, Create(t) PROVE RunEventsInv'
        BY <1>1, <2>2, <3>2, OtherEventsKeepRuns DEF MoverInv, Create, CreateTask
      <3>3. QED
        BY <2>1, <3>1, <3>2
    <2>4. ASSUME NEW q \in Proc PROVE FreshVerdict(q)'
      <3>1. CASE pc'[q] \in {"idle", "done"}
        BY <3>1 DEF FreshVerdict, Moving
      <3>2. CASE pc'[q] = pc[q] /\ local'[q] = local[q]
        <4>1. pc[q] \in Moving => status[target[q]] # "absent"
          BY DEF Moving, MoverInv, RouteInv, IInv, CallInv, CallOK
        <4>2. QED
          BY <1>1, <2>1, <3>2, <4>1 DEF MoverInv, FreshVerdict
      <3>3. QED
        BY <2>1, <3>1, <3>2
    <2>5. LaunchInv'
      <3>1. \A q \in Proc : Launched(q)' => Launched(q)
        BY <2>1 DEF Launched
      <3>2. QED
        BY <1>1, <2>1, <2>2, <3>1 DEF MoverInv, LaunchInv
    <2>6. QED
      BY <1>1, <2>3, <2>4, <2>5 DEF MoverInv
  <1>4. QED
    BY <1>1, <1>2, <1>3, NextCases, CommitKeepsMoverInv

(* Before the first request nothing moves. *)
LEMMA InitEstablishesMoverInv == Init => MoverInv
  <1> SUFFICES ASSUME Init PROVE MoverInv
    OBVIOUS
  <1>1. RouteInv
    BY InitEstablishesRouteInv
  <1>2. /\ \A p \in Proc : pc[p] = "idle"
        /\ \A t \in Task : events[t] = {}
    BY DEF Init, StoreInit
  <1>3. QED
    BY <1>1, <1>2 DEF MoverInv, FreshVerdict, Moving, RunEventsInv, LaunchInv, Launched

(* What TaskStore::transition validated is still true when it commits, as long as
   one call per task is between the two. *)
THEOREM MoverInductive == Spec /\ []OneMover => []MoverInv
  <1>1. MoverInv /\ OneMover /\ [Next]_vars => MoverInv'
    BY NextKeepsMoverInv
  <1>2. QED
    BY <1>1, InitEstablishesMoverInv, PTL DEF Spec

(* As long as no two calls are between the validation and the transaction of
   TaskStore::transition for one task, a terminal status never changes. *)
THEOREM TerminalStays == Spec /\ []OneMover => TerminalIsFinal
  <1>1. MoverInv /\ [Next]_vars =>
            [\A t \in Task : status[t] \in Terminal => status'[t] = status[t]]_vars
    <2> SUFFICES ASSUME MoverInv, [Next]_vars, NEW t \in Task, status[t] \in Terminal
                 PROVE  status'[t] = status[t]
      OBVIOUS
    <2>1. TypeOK /\ status \in [Task -> TaskStatus \cup {"absent"}] /\ target \in [Proc -> Task]
      BY DEF MoverInv, RouteInv, IInv, TypeOK, StoreTypeOK
    <2>2. ASSUME NEW p \in Proc, TransitionCommit(p) PROVE status'[t] = status[t]
      <3>1. CASE UNCHANGED storeVars
        BY <3>1 DEF storeVars
      <3>2. CASE CommitTransition(target[p], local[p].seq, local[p].next)
        BY <2>1, <2>2, <3>2, CommitUnderOneMover DEF TransitionCommit, At
      <3>3. QED
        BY <2>2, <3>1, <3>2 DEF TransitionCommit
    <2>3. ASSUME NEW p \in Proc, Step(p), ~TransitionCommit(p) PROVE status'[t] = status[t]
      BY <2>1, <2>3, QuietSteps DEF InsertLock
    <2>4. CASE Outside
      BY <2>1, <2>4, OutsideSteps DEF Terminal
    <2>5. QED
      BY <2>2, <2>3, <2>4, NextCases
  <1>2. QED
    BY <1>1, MoverInductive, PTL DEF Spec, TerminalIsFinal

(* As long as no two calls are between the validation and the transaction of one
   task, it enters running at most once, however many executors it has. *)
THEOREM TasksRunOnce == Spec /\ []OneMover => []RunsAtMostOnce
  <1>1. MoverInv => RunsAtMostOnce
    <2> SUFFICES ASSUME MoverInv, NEW t \in Task
                 PROVE  Cardinality({e \in events[t] : e.type = "running"}) <= 1
      BY DEF RunsAtMostOnce
    <2> DEFINE R == {e \in events[t] : e.type = "running"}
    <2>1. \A d, e \in R : d = e
      BY DEF MoverInv, RunEventsInv
    <2>2. CASE R = {}
      BY <2>2, FS_EmptySet
    <2>3. CASE R # {}
      <3>1. PICK e \in R : TRUE
        BY <2>3
      <3>2. R = {e}
        BY <2>1, <3>1
      <3> HIDE DEF R
      <3>3. Cardinality(R) = 1
        BY <3>2, FS_Singleton
      <3>4. QED
        BY <3>3 DEF R
    <2>4. QED
      BY <2>2, <2>3
  <1>2. QED
    BY <1>1, MoverInductive, PTL

-----------------------------------------------------------------------------
(* The three windows together: the statements act as the atomic operations. *)

(* A statement, and what happens outside, is an abstract step or changes nothing. *)
LEMMA StepsAreAbstract ==
    ASSUME LockerInv, EndInv, MoverInv, [Next]_vars
    PROVE  [Promise!Next]_<<status, locks>>
  <1>1. /\ TypeOK /\ target \in [Proc -> Task] /\ local \in [Proc -> Locals]
        /\ status \in [Task -> TaskStatus \cup {"absent"}]
    BY DEF LockerInv, IInv, TypeOK, StoreTypeOK
  <1>2. ASSUME NEW p \in Proc, InsertLock(p) PROVE Promise!Next
    <2>1. /\ local[p].mode \in {"exclusive", "shared"}
          /\ \A l \in locks : l.dir = DirectoryOf(p) =>
                 local[p].mode = "shared" /\ l.mode = "shared"
          /\ locks' = locks \cup {[dir |-> DirectoryOf(p), task |-> target[p],
                                   mode |-> local[p].mode]}
      BY <1>2, InsertLockExcludes
    <2>2. status[target[p]] \notin Terminal \cup {"absent"} /\ UNCHANGED status
      BY <1>2 DEF InsertLock, At, EndInv, Entry, LockerInv, IInv, CallInv, CallOK
    <2>3. Promise!Acquire(target[p], local[p].mode)
      BY <2>1, <2>2 DEF Promise!Acquire, Promise!Compatible, Terminal, Promise!Terminal, DirectoryOf
    <2>4. QED
      BY <1>1, <2>1, <2>3 DEF Promise!Next
  <1>3. ASSUME NEW p \in Proc, TransitionCommit(p) PROVE Promise!Next \/ UNCHANGED <<status, locks>>
    <2>1. CASE UNCHANGED storeVars
      BY <2>1 DEF storeVars
    <2>2. CASE CommitTransition(target[p], local[p].seq, local[p].next)
      <3>1. ValidateTransition(status[target[p]], local[p].next) = "changed"
        BY <1>3 DEF MoverInv, FreshVerdict, Moving, TransitionCommit, At
      <3>2. /\ status' = [status EXCEPT ![target[p]] = local[p].next]
            /\ locks' = IF local[p].next \in Terminal THEN {l \in locks : l.task # target[p]}
                        ELSE locks
        BY <2>2 DEF CommitTransition, ReleaseLocks
      <3>3. Promise!Move(target[p], local[p].next)
        BY <3>1, <3>2 DEF Promise!Move, ValidateTransition, Promise!ValidateTransition,
             Terminal, Promise!Terminal, AllowedTransitions, Promise!AllowedTransitions
      <3>4. target[p] \in Task /\ local[p].next \in TaskStatus
        BY <1>1 DEF Locals
      <3>5. QED
        BY <3>3, <3>4 DEF Promise!Next, TaskStatus, Promise!TaskStatus, Terminal, Promise!Terminal
    <2>3. QED
      BY <1>3, <2>1, <2>2 DEF TransitionCommit
  <1>4. ASSUME NEW p \in Proc, Step(p), ~InsertLock(p), ~TransitionCommit(p)
        PROVE  UNCHANGED <<status, locks>>
    BY <1>1, <1>4, QuietSteps
  <1>5. CASE Outside
    <2>1. ASSUME NEW t \in Task, Create(t) PROVE Promise!Next
      BY <2>1 DEF Create, CreateTask, Promise!Next, Promise!Create
    <2>2. QED
      BY <1>1, <1>5, <2>1, OutsideSteps
  <1>6. QED
    BY <1>2, <1>3, <1>4, <1>5, NextCases

(* As long as no two calls overlap in one of the three windows, the scheduler of the
   multi-threaded daemon implements the atomic lifecycle, with failed statements,
   grant changes and crashes. *)
THEOREM SchedulerImplementsLifecycle ==
    Spec /\ []OneLocker /\ []OneMover /\ []NoEndWhileLocking => ImplementsLifecycle
  <1>1. Init => Promise!Init
    BY DEF Init, StoreInit, Promise!Init
  <1>2. LockerInv /\ EndInv /\ MoverInv /\ [Next]_vars => [Promise!Next]_<<status, locks>>
    BY StepsAreAbstract
  <1>3. QED
    BY <1>1, <1>2, LockerInductive, EndInductive, MoverInductive, PTL
       DEF Spec, ImplementsLifecycle, Promise!Spec, Promise!lifecycleVars

-----------------------------------------------------------------------------
(* The count of running tasks and the commit of `preparing'. *)

PlaceIsFree ==
    /\ Cardinality(RunningOrPreparing) \in Nat
    /\ Cardinality(RunningOrPreparing) < MaxConcurrent

(* The place a call counted on is still free. *)
CapacityInv ==
    /\ MoverInv
    /\ IsFiniteSet(RunningOrPreparing)
    /\ CapacityRespected
    /\ \A p \in Proc : Claiming(p) => PlaceIsFree

(* The tasks that are preparing or running after a status was replaced. *)
LEMMA PlacesAfterMove ==
    ASSUME NEW t \in Task, NEW next \in TaskStatus,
           status \in [Task -> TaskStatus \cup {"absent"}],
           status' = [status EXCEPT ![t] = next]
    PROVE  /\ next \in {"preparing", "running"} =>
                  RunningOrPreparing' = RunningOrPreparing \cup {t}
           /\ next \notin {"preparing", "running"} =>
                  RunningOrPreparing' = RunningOrPreparing \ {t}
  BY DEF RunningOrPreparing

(* Only `preparing' takes a place, and its call has counted on it. *)
LEMMA CommitKeepsCapacity ==
    ASSUME CapacityInv, NEW t \in Task, NEW next \in TaskStatus,
           status' = [status EXCEPT ![t] = next],
           <<status[t], next>> \in AllowedTransitions,
           next = "preparing" => PlaceIsFree
    PROVE  /\ IsFiniteSet(RunningOrPreparing)' /\ CapacityRespected'
           /\ next # "preparing" /\ PlaceIsFree => PlaceIsFree'
  <1> DEFINE S == RunningOrPreparing
  <1>1. /\ status \in [Task -> TaskStatus \cup {"absent"}]
        /\ IsFiniteSet(S) /\ Cardinality(S) <= MaxConcurrent
        /\ MaxConcurrent \in Nat
    BY SchedulerAssumption
       DEF CapacityInv, MoverInv, RouteInv, IInv, TypeOK, StoreTypeOK, CapacityRespected
  <1>2. Cardinality(S) \in Nat
    BY <1>1, FS_CardinalityType
  <1>3. CASE next = "preparing"
    <2>1. S' = S \cup {t} /\ t \notin S
      BY <1>1, <1>3, PlacesAfterMove DEF AllowedTransitions, RunningOrPreparing
    <2>2. IsFiniteSet(S') /\ Cardinality(S') = Cardinality(S) + 1
      BY <1>1, <2>1, FS_AddElement
    <2>3. Cardinality(S) < MaxConcurrent
      BY <1>3 DEF PlaceIsFree
    <2>4. QED
      BY <1>1, <1>2, <1>3, <2>2, <2>3 DEF CapacityRespected
  <1>4. CASE next = "running"
    <2>1. t \in S
      BY <1>1, <1>4 DEF AllowedTransitions, RunningOrPreparing
    <2>2. S' = S \cup {t}
      BY <1>1, <1>4, PlacesAfterMove
    <2>3. S' = S
      BY <2>1, <2>2
    <2>4. QED
      BY <1>1, <1>4, <2>3 DEF CapacityRespected, PlaceIsFree
  <1>5. CASE next \notin {"preparing", "running"}
    <2>1. S' = S \ {t}
      BY <1>1, <1>5, PlacesAfterMove
    <2>2. IsFiniteSet(S') /\ Cardinality(S') \in Nat /\ Cardinality(S') <= Cardinality(S)
      BY <1>1, <2>1, FS_Subset, FS_CardinalityType
    <2>3. PlaceIsFree => PlaceIsFree'
      BY <1>1, <1>2, <2>2 DEF PlaceIsFree
    <2>4. QED
      BY <1>1, <1>2, <2>2, <2>3 DEF CapacityRespected
  <1>6. QED
    BY <1>3, <1>4, <1>5

(* A statement that leaves the status column alone keeps the places. *)
LEMMA SamePlaces ==
    ASSUME CapacityInv, MoverInv', RunningOrPreparing' = RunningOrPreparing,
           \A q \in Proc : Claiming(q)' => Claiming(q) \/ PlaceIsFree
    PROVE  CapacityInv'
  BY DEF CapacityInv, CapacityRespected, PlaceIsFree

(* No other call counts on the place until `preparing' is committed. *)
LEMMA NextKeepsCapacityInv ==
    ASSUME CapacityInv, OneMover, OneClaimer, [Next]_vars
    PROVE  CapacityInv'
  <1>1. /\ TypeOK /\ RouteInv /\ MoverInv' /\ target \in [Proc -> Task] /\ local \in [Proc -> Locals]
        /\ status \in [Task -> TaskStatus \cup {"absent"}]
    BY NextKeepsMoverInv DEF CapacityInv, MoverInv, RouteInv, IInv, TypeOK, StoreTypeOK
  <1>2. ASSUME NEW p \in Proc, Step(p) PROVE CapacityInv'
    <2>1. /\ \A q \in Proc \ {p} : pc'[q] = pc[q] /\ local'[q] = local[q]
          /\ UNCHANGED target
      BY <1>1, <1>2, StepMovesOneCall
    <2>2. \A q \in Proc \ {p} : Claiming(q)' = Claiming(q)
      BY <2>1 DEF Claiming, Holding, InTransition
    <2>3. CASE TransitionCommit(p)
      <3>1. pc[p] = "commit" /\ target[p] \in Task /\ local[p].next \in TaskStatus
        BY <1>1, <2>3 DEF TransitionCommit, At, Locals
      <3>2. /\ Claiming(p)' => Claiming(p) /\ local[p].next = "waiting"
            /\ local[p].next = "preparing" => Claiming(p)
        BY <1>1, <2>3, <3>1, CommitRoute DEF Claiming, Holding, InTransition
      <3>3. CASE UNCHANGED storeVars
        BY <1>1, <2>2, <3>2, <3>3, SamePlaces DEF storeVars, RunningOrPreparing
      <3>4. CASE CommitTransition(target[p], local[p].seq, local[p].next)
        <4>1. /\ status' = [status EXCEPT ![target[p]] = local[p].next]
              /\ <<status[target[p]], local[p].next>> \in AllowedTransitions
          BY <2>1, <3>1, <3>4, CommitUnderOneMover DEF CapacityInv
        <4>2. local[p].next = "preparing" => PlaceIsFree
          BY <3>2 DEF CapacityInv
        <4>3. /\ IsFiniteSet(RunningOrPreparing)' /\ CapacityRespected'
              /\ local[p].next # "preparing" /\ PlaceIsFree => PlaceIsFree'
          BY <3>1, <4>1, <4>2, CommitKeepsCapacity
        <4>4. ASSUME NEW q \in Proc, Claiming(q)' PROVE PlaceIsFree'
          <5>1. Claiming(q)
            BY <2>2, <3>2, <4>4
          <5>2. local[p].next # "preparing"
            BY <2>2, <3>2, <4>4, <5>1 DEF OneClaimer
          <5>3. QED
            BY <4>3, <5>1, <5>2 DEF CapacityInv
        <4>5. QED
          BY <1>1, <4>3, <4>4 DEF CapacityInv
      <3>5. QED
        BY <2>3, <3>3, <3>4 DEF TransitionCommit
    <2>4. CASE ~TransitionCommit(p)
      <3>1. UNCHANGED status
        BY <1>1, <1>2, <2>4, QuietSteps DEF InsertLock
      <3>2. Claiming(p)' => Claiming(p) \/ (CheckCapacity(p) /\ pc'[p] = "grant")
        BY <1>1, <1>2, <2>4, TransitionRoute, ExecuteRoute, AdapterRoute, InsertLockRoute
           DEF Step, StoreTransition, TryAcquireDirectoryLock
      <3>3. CheckCapacity(p) /\ pc'[p] = "grant" => PlaceIsFree
        <4>1. Cardinality(RunningOrPreparing) \in Nat
          BY FS_CardinalityType DEF CapacityInv
        <4>2. CheckCapacity(p) /\ pc'[p] = "grant" =>
                  ~(Cardinality(RunningOrPreparing) >= MaxConcurrent)
          BY <1>1 DEF CheckCapacity, At, Transition, TypeOK
        <4>3. QED
          BY <4>1, <4>2, SchedulerAssumption DEF PlaceIsFree
      <3>4. RunningOrPreparing' = RunningOrPreparing
        BY <3>1 DEF RunningOrPreparing
      <3>5. QED
        BY <1>1, <2>2, <3>2, <3>3, <3>4, SamePlaces
    <2>5. QED
      BY <2>3, <2>4
  <1>3. CASE Outside
    <2>1. /\ \A q \in Proc : \/ pc'[q] = pc[q] /\ local'[q] = local[q]
                             \/ pc'[q] \in {"idle", "done"}
          /\ \A t \in Task : \/ status'[t] = status[t]
                             \/ status[t] = "absent" /\ status'[t] = "queued"
      BY <1>1, <1>3, OutsideSteps
    <2>2. RunningOrPreparing' = RunningOrPreparing
      BY <2>1 DEF RunningOrPreparing
    <2>3. \A q \in Proc : Claiming(q)' => Claiming(q)
      BY <2>1 DEF Claiming, Holding, InTransition
    <2>4. QED
      BY <1>1, <2>2, <2>3, SamePlaces
  <1>4. QED
    BY <1>2, <1>3, NextCases

(* Before the first request nothing is claimed. *)
LEMMA InitEstablishesCapacityInv == Init => CapacityInv
  <1> SUFFICES ASSUME Init PROVE CapacityInv
    OBVIOUS
  <1>1. MoverInv
    BY InitEstablishesMoverInv
  <1>2. /\ \A p \in Proc : pc[p] = "idle"
        /\ \A t \in Task : status[t] = "absent"
    BY DEF Init, StoreInit
  <1>3. RunningOrPreparing = {}
    BY <1>2 DEF RunningOrPreparing
  <1>4. \A p \in Proc : ~Claiming(p)
    BY <1>2 DEF Claiming, Holding, InTransition
  <1>5. QED
    BY <1>1, <1>3, <1>4, FS_EmptySet, SchedulerAssumption DEF CapacityInv, CapacityRespected

(* As long as one call at a time is between the count of list_running_or_preparing
   and the commit of `preparing' it leads to, and one per task between validation
   and transaction, no more tasks than max_concurrent_tasks are preparing or running,
   whatever else interleaves, fails or crashes. *)
THEOREM CapacityIsKept == Spec /\ []OneMover /\ []OneClaimer => []CapacityRespected
  <1>1. CapacityInv /\ OneMover /\ OneClaimer /\ [Next]_vars => CapacityInv'
    BY NextKeepsCapacityInv
  <1>2. CapacityInv => CapacityRespected
    BY DEF CapacityInv
  <1>3. QED
    BY <1>1, <1>2, InitEstablishesCapacityInv, PTL DEF Spec

-----------------------------------------------------------------------------
(* Locks, as long as every grant asks for one.  Grants may change otherwise. *)

Holders == {t \in Task : \E l \in ActiveLocks(DirOf[t]) : l.task = t}

Relying == {p \in Proc : Holding(p)}

(* A call relies on a lock its task holds, or on nothing: the task has ended. *)
LockedInv ==
    /\ MoverInv
    /\ \A p \in Relying : target[p] \in Holders \/ status[target[p]] \in Terminal
    /\ PreparedHoldsLock

(* Where every grant asks for a lock, prepare_workspace is reached only through
   acquire_lock. *)
LEMMA ReadersHold ==
    ASSUME RouteInv, LocksAreRequired, NEW p \in Proc, Step(p), ~TransitionCommit(p), ~InsertLock(p)
    PROVE  p \in Relying' => p \in Relying
  <1>1. /\ pc \in [Proc -> Label] /\ target \in [Proc -> Task]
    BY DEF RouteInv, IInv, TypeOK
  <1>2. Holding(p)' => Holding(p) \/ (ReadGrant(p) /\ pc'[p] = "prepare")
    BY TransitionRoute, ExecuteRoute, AdapterRoute
       DEF Step, StoreTransition, TryAcquireDirectoryLock, Claiming
  <1>3. ASSUME ReadGrant(p) PROVE pc'[p] # "prepare"
    <2>1. policy[DirectoryOf(p)] # "none"
      BY <1>1, DirOfAssumption DEF LocksAreRequired, DirectoryOf
    <2>2. ModeForCapabilities(Caps[target[p]], policy[DirectoryOf(p)]) # "none"
      BY <2>1 DEF ModeForCapabilities
    <2>3. QED
      BY <1>1, <1>3, <2>2 DEF ReadGrant, At, Return
  <1>4. QED
    BY <1>2, <1>3 DEF Relying

(* A step that takes away no lock and moves no existing task keeps the invariant if
   its call does not come to rely on a lock it has not taken. *)
LEMMA QuietLocks ==
    ASSUME LockedInv, MoverInv', UNCHANGED target,
           Holders \subseteq Holders',
           \A t \in Task : \/ status'[t] = status[t]
                           \/ status[t] = "absent" /\ status'[t] = "queued",
           \A p \in Relying' : p \in Relying \/ target[p] \in Holders'
    PROVE  LockedInv'
  <1>1. target \in [Proc -> Task]
    BY DEF LockedInv, MoverInv, RouteInv, IInv, TypeOK
  <1>2. PreparedHoldsLock'
    BY DEF LockedInv, PreparedHoldsLock, RunningOrPreparing, Holders
  <1>3. ASSUME NEW p \in Relying'
        PROVE  target[p] \in Holders' \/ status'[target'[p]] \in Terminal
    <2>1. CASE target[p] \in Holders'
      BY <2>1
    <2>2. CASE p \in Relying
      <3> DEFINE t == target[p]
      <3>1. t \in Task /\ (t \in Holders \/ status[t] \in Terminal)
        BY <1>1, <2>2 DEF LockedInv, Relying
      <3>2. status[t] \in Terminal => status'[t] \in Terminal
        BY <3>1 DEF Terminal
      <3>3. t \in Holders' => target[p] \in Holders'
        OBVIOUS
      <3>4. t \in Holders => t \in Holders'
        BY <3>1 DEF Holders
      <3>5. QED
        BY <3>1, <3>2, <3>3, <3>4
    <2>3. QED
      BY <1>3, <2>1, <2>2
  <1>4. QED
    BY <1>2, <1>3 DEF LockedInv

(* A commit moves a task to preparing or running only under its lock, and a
   terminal status takes away the locks of that task alone. *)
LEMMA CommitHolds ==
    ASSUME LockedInv, MoverInv', NEW p \in Proc, Step(p), TransitionCommit(p)
    PROVE  LockedInv'
  <1> DEFINE t == target[p]
             next == local[p].next
  <1>1. /\ TypeOK /\ target \in [Proc -> Task] /\ t \in Task /\ RouteInv
        /\ status \in [Task -> TaskStatus \cup {"absent"}]
        /\ pc[p] = "commit" /\ InTransition(p)
    BY DEF LockedInv, MoverInv, RouteInv, IInv, TypeOK, StoreTypeOK, TransitionCommit, At,
           InTransition
  <1>2. /\ \A q \in Proc \ {p} : pc'[q] = pc[q] /\ local'[q] = local[q]
        /\ UNCHANGED target
    BY <1>1, StepMovesOneCall
  <1>3. Relying' \subseteq Relying
    BY <1>1, <1>2, CommitRoute DEF Relying, Holding, InTransition
  <1>4. CASE UNCHANGED storeVars
    <2>1. Holders \subseteq Holders'
      BY <1>4 DEF Holders, ActiveLocks, storeVars
    <2>2. QED
      BY <1>2, <1>3, <1>4, <2>1, QuietLocks DEF storeVars
  <1>5. CASE CommitTransition(t, local[p].seq, next)
    <2>1. /\ status' = [status EXCEPT ![t] = next]
          /\ locks' = IF next \in Terminal THEN {l \in locks : l.task # t} ELSE locks
      BY <1>5 DEF CommitTransition, ReleaseLocks
    <2>2. <<status[t], next>> \in AllowedTransitions /\ status[t] \notin Terminal
      BY <1>1, <1>2, <1>5, CommitUnderOneMover DEF LockedInv
    <2>3. ASSUME NEW u \in Task, u \in Holders, u # t \/ next \notin Terminal
          PROVE  u \in Holders'
      BY <2>1, <2>3 DEF Holders, ActiveLocks
    <2>4. ASSUME NEW q \in Relying', NEW u \in Task, u = target[q]
          PROVE  u \in Holders' \/ status'[u] \in Terminal
      <3>1. u \in Holders \/ status[u] \in Terminal
        BY <1>3, <2>4 DEF LockedInv
      <3>2. CASE u # t
        BY <1>1, <2>1, <2>3, <3>1, <3>2
      <3>3. CASE u = t /\ next \in Terminal
        BY <1>1, <2>1, <3>3
      <3>4. CASE u = t /\ next \notin Terminal
        BY <2>2, <2>3, <3>1, <3>4
      <3>5. QED
        BY <3>2, <3>3, <3>4
    <2>5. (\A q \in Relying : target[q] \in Holders \/ status[target[q]] \in Terminal)'
      BY <1>1, <1>2, <2>4 DEF Relying
    <2>6. PreparedHoldsLock'
      <3> SUFFICES ASSUME NEW u \in Task, status'[u] \in {"preparing", "running"}
                   PROVE  u \in Holders'
        BY DEF PreparedHoldsLock, RunningOrPreparing, Holders
      <3>1. CASE u # t
        <4>1. u \in RunningOrPreparing
          BY <1>1, <2>1, <3>1 DEF RunningOrPreparing
        <4>2. QED
          BY <2>3, <3>1, <4>1 DEF LockedInv, PreparedHoldsLock, Holders
      <3>2. CASE u = t
        <4>1. next \in {"preparing", "running"} /\ next \notin Terminal
          BY <1>1, <2>1, <3>2 DEF Terminal
        <4>2. CASE next = "preparing"
          <5>1. t \in Holders
            BY <1>1, <2>2, <4>2 DEF LockedInv, Relying, Holding
          <5>2. QED
            BY <2>3, <3>2, <4>1, <5>1
        <4>3. CASE next = "running"
          <5>1. t \in RunningOrPreparing
            BY <1>1, <2>2, <4>3 DEF AllowedTransitions, RunningOrPreparing, Terminal
          <5>2. QED
            BY <1>1, <2>3, <3>2, <4>1, <5>1 DEF LockedInv, PreparedHoldsLock, Holders
        <4>4. QED
          BY <4>1, <4>2, <4>3
      <3>3. QED
        BY <3>1, <3>2
    <2>7. QED
      BY <2>5, <2>6 DEF LockedInv
  <1>6. QED
    BY <1>4, <1>5 DEF TransitionCommit

(* No step prepares a task without its directory's lock. *)
LEMMA NextKeepsLockedInv ==
    ASSUME LockedInv, OneMover, LocksAreRequired, [Next]_vars
    PROVE  LockedInv'
  <1>1. /\ TypeOK /\ RouteInv /\ MoverInv' /\ target \in [Proc -> Task]
    BY NextKeepsMoverInv DEF LockedInv, MoverInv, RouteInv, IInv, TypeOK
  <1>2. ASSUME NEW p \in Proc, Step(p), ~TransitionCommit(p) PROVE LockedInv'
    <2>1. /\ \A q \in Proc \ {p} : pc'[q] = pc[q] /\ local'[q] = local[q]
          /\ UNCHANGED target
      BY <1>1, <1>2, StepMovesOneCall
    <2>2. UNCHANGED status
      BY <1>1, <1>2, QuietSteps DEF InsertLock
    <2>3. Relying' \ {p} \subseteq Relying
      BY <2>1 DEF Relying, Holding, InTransition
    <2>4. CASE InsertLock(p)
      <3> DEFINE new == [dir |-> DirectoryOf(p), task |-> target[p], mode |-> local[p].mode]
      <3>1. locks' = {l \in locks : ~(l.dir = DirectoryOf(p) /\ l.task = target[p])} \cup {new}
        BY <2>4 DEF InsertLock, InsertLockRow
      <3>2. new.dir = DirOf[target[p]] /\ new.task = target[p]
        BY DEF DirectoryOf
      <3> HIDE DEF new
      <3>3. Holders \subseteq Holders'
        BY <3>1, <3>2 DEF Holders, ActiveLocks, DirectoryOf
      <3>4. target[p] \in Holders'
        BY <1>1, <2>1, <3>1, <3>2 DEF Holders, ActiveLocks
      <3>5. QED
        BY <1>1, <2>1, <2>2, <2>3, <3>3, <3>4, QuietLocks
    <2>5. CASE ~InsertLock(p)
      <3>1. UNCHANGED locks
        BY <1>1, <1>2, <2>5, QuietSteps
      <3>2. Holders \subseteq Holders'
        BY <3>1 DEF Holders, ActiveLocks
      <3>3. p \in Relying' => p \in Relying
        BY <1>1, <1>2, <2>5, ReadersHold
      <3>4. QED
        BY <1>1, <2>1, <2>2, <2>3, <3>2, <3>3, QuietLocks
    <2>6. QED
      BY <2>4, <2>5
  <1>3. CASE Outside
    <2>1. /\ UNCHANGED <<locks, target>>
          /\ \A q \in Proc : \/ pc'[q] = pc[q] /\ local'[q] = local[q]
                             \/ pc'[q] \in {"idle", "done"}
          /\ \A t \in Task : \/ status'[t] = status[t]
                             \/ status[t] = "absent" /\ status'[t] = "queued"
      BY <1>1, <1>3, OutsideSteps
    <2>2. Holders \subseteq Holders'
      BY <2>1 DEF Holders, ActiveLocks
    <2>3. Relying' \subseteq Relying
      BY <2>1 DEF Relying, Holding, InTransition
    <2>4. QED
      BY <1>1, <2>1, <2>2, <2>3, QuietLocks
  <1>4. QED
    BY <1>1, <1>2, <1>3, NextCases, CommitHolds

(* Before the first request no task is prepared. *)
LEMMA InitEstablishesLockedInv == Init => LockedInv
  <1> SUFFICES ASSUME Init PROVE LockedInv
    OBVIOUS
  <1>1. MoverInv
    BY InitEstablishesMoverInv
  <1>2. /\ \A p \in Proc : pc[p] = "idle"
        /\ \A t \in Task : status[t] = "absent"
    BY DEF Init, StoreInit
  <1>3. PreparedHoldsLock
    BY <1>2 DEF PreparedHoldsLock, RunningOrPreparing
  <1>4. Relying = {}
    BY <1>2 DEF Relying, Holding, InTransition
  <1>5. QED
    BY <1>1, <1>3, <1>4 DEF LockedInv

(* The lock a call took is its task's until the task ends. *)
THEOREM LockedInductive == Spec /\ []OneMover /\ []LocksAreRequired => []LockedInv
  <1>1. LockedInv /\ OneMover /\ LocksAreRequired /\ [Next]_vars => LockedInv'
    BY NextKeepsLockedInv
  <1>2. QED
    BY <1>1, InitEstablishesLockedInv, PTL DEF Spec

(* As long as every grant asks for a lock and one call per task is between the
   validation and the transaction of its move, a task is preparing or running only
   while it holds the lock of its directory, whatever fails and however grants are
   changed or deleted meanwhile. *)
THEOREM PreparedAreLocked == Spec /\ []OneMover /\ []LocksAreRequired => []PreparedHoldsLock
  <1>1. LockedInv => PreparedHoldsLock
    BY DEF LockedInv
  <1>2. QED
    BY <1>1, LockedInductive, PTL

(* With the lock window, too, the provider of a running, write-capable task has its
   directory to itself: its lock is exclusive, another running task would hold a
   second row, and the same task has one executor at its provider. *)
THEOREM WritersAreAlone ==
    Spec /\ []OneMover /\ []OneLocker /\ []LocksAreRequired => []WritersRunAlone
  <1>1. LockedInv /\ LockerInv => WritersRunAlone
    <2> SUFFICES ASSUME LockedInv, LockerInv, NEW p \in Executor, NEW q \in Executor,
                        p # q, DirectoryOf(p) = DirectoryOf(q),
                        \A r \in {p, q} : InAdapter(r) /\ status[target[r]] = "running",
                        WriteCapable(Caps[target[p]])
                 PROVE  FALSE
      BY DEF WritersRunAlone
    <2>1. p \in Proc /\ q \in Proc /\ target[p] \in Task /\ target[q] \in Task
      BY DEF Proc, LockerInv, IInv, TypeOK
    <2>2. target[p] # target[q]
      BY <2>1 DEF LockedInv, MoverInv, LaunchInv, Launched, InAdapter
    <2>3. PICK k \in locks : k.dir = DirectoryOf(p) /\ k.task = target[p]
      BY <2>1 DEF LockedInv, PreparedHoldsLock, RunningOrPreparing, ActiveLocks, DirectoryOf
    <2>4. PICK l \in locks : l.dir = DirectoryOf(q) /\ l.task = target[q]
      BY <2>1 DEF LockedInv, PreparedHoldsLock, RunningOrPreparing, ActiveLocks, DirectoryOf
    <2>5. k.mode = "exclusive"
      BY <2>3 DEF LockedInv, MoverInv, RouteInv, WritersLockExclusively
    <2>6. k = l
      BY <2>3, <2>4, <2>5 DEF LockerInv, ExclusiveLocks
    <2>7. QED
      BY <2>2, <2>3, <2>4, <2>6
  <1>2. QED
    BY <1>1, LockedInductive, LockerInductive, PTL

=============================================================================
