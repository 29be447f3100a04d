-------------------------- MODULE SchedulerProofs --------------------------
(***************************************************************************)
(* The event log of a task survives every race of the scheduler: proofs    *)
(* that IInv of Scheduler.tla is inductive, for any number of tasks,       *)
(* directories and calls, with store errors, grant changes and crashes.    *)
(***************************************************************************)
EXTENDS Scheduler, TLAPS

(* The largest element of an interval that starts at 1. *)
LEMMA MaxOfInterval ==
    ASSUME NEW n \in Nat \ {0}
    PROVE  Max(1..n) = n
  <1>1. n \in 1..n /\ \A y \in 1..n : n >= y
    OBVIOUS
  <1>2. \A x \in 1..n : (\A y \in 1..n : x >= y) => x = n
    <2>1. TAKE x \in 1..n
    <2>2. HAVE \A y \in 1..n : x >= y
    <2>3. QED
      BY <1>1, <2>2
  <1>3. QED
    BY <1>1, <1>2 DEF Max

(* What a successful insert does when its number was read as MAX + 1 at some
   earlier time: it takes the next number and moves MAX on by one. *)
LEMMA InsertTakesNext ==
    ASSUME TypeOK, GaplessLog,
           NEW t \in Task, NEW n \in 1..NextSequence(t), NEW type \in EventType,
           NextSequence(t) \in Nat \ {0},
           InsertEvent(t, n, type)
    PROVE  /\ n = NextSequence(t)
           /\ events' \in [Task -> SUBSET Event]
           /\ events'[t] = events[t] \cup {[seq |-> n, type |-> type]}
           /\ \A u \in Task \ {t} : events'[u] = events[u]
           /\ (SequencesOf(t))' = 1..n
           /\ (NextSequence(t))' = n + 1
  <1>1. n \notin 1..(NextSequence(t) - 1)
    BY DEF InsertEvent, SequenceFree, GaplessLog
  <1>2. n = NextSequence(t)
    BY <1>1
  <1>3. /\ events' \in [Task -> SUBSET Event]
        /\ events'[t] = events[t] \cup {[seq |-> n, type |-> type]}
        /\ \A u \in Task \ {t} : events'[u] = events[u]
    BY DEF InsertEvent, TypeOK, StoreTypeOK, Event
  <1>4. (SequencesOf(t))' = SequencesOf(t) \cup {n}
    <2> DEFINE new == [seq |-> n, type |-> type]
    <2>1. new.seq = n
      OBVIOUS
    <2>2. {e.seq : e \in events[t] \cup {new}} = {e.seq : e \in events[t]} \cup {new.seq}
      <3> HIDE DEF new
      <3> QED
        BY Zenon
    <2>3. QED
      BY <1>3, <2>1, <2>2 DEF SequencesOf
  <1>5. (SequencesOf(t))' = 1..n
    BY <1>2, <1>4 DEF GaplessLog
  <1>6. Max((SequencesOf(t))') = n
    BY <1>5, MaxOfInterval
  <1>7. (NextSequence(t))' = n + 1
    BY <1>3, <1>6 DEF NextSequence
  <1>8. QED
    BY <1>2, <1>3, <1>5, <1>7

(* Every log keeps its events and its numbers only go up. *)
LogsGrow ==
    \A t \in Task :
        /\ status[t] # "absent" => status'[t] # "absent"
        /\ (NextSequence(t))' \in Nat
        /\ (NextSequence(t))' >= NextSequence(t)
        /\ Lifecycle(t) \subseteq (Lifecycle(t))'

(* A call that does not move stays sound while the log of its task grows. *)
LEMMA OtherCalls ==
    ASSUME IInv, NEW q \in Proc,
           pc'[q] = pc[q], local'[q] = local[q], target' = target, LogsGrow
    PROVE  CallOK(q)'
  <1>1. target[q] \in Task /\ target'[q] = target[q]
    BY DEF IInv, TypeOK
  <1>2. CallOK(q) /\ NextSequence(target[q]) \in Nat
    BY <1>1 DEF IInv, CallInv, LogInv
  <1>3. local[q].seq \in 1..NextSequence(target[q]) =>
            local'[q].seq \in 1..(NextSequence(target[q]))'
    BY <1>1, <1>2 DEF LogsGrow
  <1>4. QED
    BY <1>1, <1>2, <1>3 DEF CallOK, LogsGrow

(* The parts of IInv that speak of the tables alone. *)
TablesInv == GaplessLog /\ StatusIsLastLifecycleEvent /\ EventsAreJustified /\ LogInv

(* They depend on the status column and on the log only. *)
LEMMA TablesUnchanged ==
    ASSUME IInv, UNCHANGED <<status, events>>
    PROVE  /\ TablesInv'
           /\ \A t \in Task : /\ (NextSequence(t))' = NextSequence(t)
                             /\ (Lifecycle(t))' = Lifecycle(t)
  <1>1. \A t \in Task : /\ (NextSequence(t))' = NextSequence(t)
                        /\ (SequencesOf(t))' = SequencesOf(t)
                        /\ (Lifecycle(t))' = Lifecycle(t)
    BY DEF NextSequence, SequencesOf, Lifecycle
  <1>2. QED
    BY <1>1 DEF IInv, TablesInv, GaplessLog, StatusIsLastLifecycleEvent,
                EventsAreJustified, LogInv

(* A step of one call that leaves status and log alone preserves IInv if it
   leaves that call sound and every variable of its type. *)
LEMMA QuietStep ==
    ASSUME IInv, NEW p \in Proc,
           UNCHANGED <<status, events, target>>,
           \A q \in Proc \ {p} : pc'[q] = pc[q] /\ local'[q] = local[q],
           TypeOK', CallOK(p)'
    PROVE  IInv'
  <1>1. TablesInv'
    BY TablesUnchanged
  <1>2. \A t \in Task : /\ (NextSequence(t))' = NextSequence(t)
                        /\ NextSequence(t) \in Nat
                        /\ (Lifecycle(t))' = Lifecycle(t)
    BY TablesUnchanged DEF IInv, LogInv
  <1>3. ASSUME NEW q \in Proc \ {p} PROVE CallOK(q)'
    BY <1>2, <1>3, OtherCalls DEF LogsGrow
  <1>4. CallInv'
    BY <1>3 DEF CallInv
  <1>5. QED
    BY <1>1, <1>4 DEF IInv, TablesInv

(* Only the call p moves, and its state keeps its type. *)
OnlyMoves(p) ==
    /\ pc' \in [Proc -> Label] /\ local' \in [Proc -> Locals]
    /\ \A q \in Proc \ {p} : pc'[q] = pc[q] /\ local'[q] = local[q]

(* The building blocks of a step: what each leaves in pc[p] and local[p]. *)
LEMMA GotoMoves ==
    ASSUME TypeOK, NEW p \in Proc, NEW l \in Label, Goto(p, l)
    PROVE  OnlyMoves(p) /\ pc'[p] = l /\ local'[p] = local[p]
  BY DEF TypeOK, Goto, OnlyMoves

(* A returned call keeps nothing: whatever it had read is gone. *)
LEMMA ReturnMoves ==
    ASSUME TypeOK, NEW p \in Proc, Return(p)
    PROVE  OnlyMoves(p) /\ pc'[p] = "done" /\ local'[p] = NoLocals
  <1>1. NoLocals \in Locals /\ "done" \in Label
    BY DEF NoLocals, Locals, TaskStatus, LockMode, Resume, Label
  <1>2. QED
    BY <1>1 DEF TypeOK, Return, OnlyMoves

(* After a transition that was Ok the call is at the statement it named. *)
LEMMA ContinueMoves ==
    ASSUME TypeOK, NEW p \in Proc, Continue(p)
    PROVE  /\ OnlyMoves(p) /\ pc'[p] = local[p].then /\ pc'[p] \in Resume
           /\ pc'[p] # "done" => local'[p] = local[p]
           /\ pc'[p] = "done" => local'[p] = NoLocals
  <1>1. local[p].then \in Resume /\ Resume \subseteq Label
    BY DEF TypeOK, Locals, Resume, Label
  <1>2. QED
    BY <1>1, GotoMoves, ReturnMoves DEF Continue

(* A call that enters TaskStore::transition has read nothing yet. *)
LEMMA TransitionMoves ==
    ASSUME TypeOK, NEW p \in Proc, NEW next \in TaskStatus, NEW l \in Resume,
           Transition(p, next, l)
    PROVE  OnlyMoves(p) /\ pc'[p] = "validate" /\ local'[p].then = l
  <1>1. "validate" \in Label
    BY DEF Label
  <1>2. QED
    BY <1>1 DEF TypeOK, Transition, OnlyMoves, Locals

(* Steps that only read the tables and end where nothing is pending. *)
LEMMA ReadersKeepIInv ==
    ASSUME IInv, NEW p \in Proc, UNCHANGED <<storeVars, target, policy>>,
           OnlyMoves(p), CallOK(p)',
           cancellations' \in [Task -> Executor \cup {NoExecutor}],
           signalled' \subseteq Executor
    PROVE  IInv'
  <1>1. TypeOK'
    BY DEF IInv, TypeOK, StoreTypeOK, storeVars, OnlyMoves
  <1>2. QED
    BY <1>1, QuietStep DEF storeVars, OnlyMoves

(* Labels at which a call holds nothing it will write blindly. *)
PlainLabel == Label \ {"append", "lookup", "insert", "sequence", "commit"}

(* A call at such a label is sound if its task exists. *)
LEMMA PlainCall ==
    ASSUME NEW p \in Proc, UNCHANGED <<status, target>>, pc'[p] \in PlainLabel,
           pc'[p] # "done" => status[target[p]] # "absent",
           p \notin Executor => pc'[p] \in {"validate", "done"} /\ local'[p].then = "done"
    PROVE  CallOK(p)'
  BY DEF CallOK, PlainLabel

(* Every step of a call that is past its start is on a task that exists, and
   only an executor is outside TaskStore::transition. *)
LEMMA StartedCall ==
    ASSUME IInv, NEW p \in Proc, pc[p] \notin {"idle", "done"}
    PROVE  /\ TypeOK /\ target[p] \in Task /\ status[target[p]] \in TaskStatus
           /\ status[target[p]] # "absent"
           /\ DirectoryOf(p) \in Dir
           /\ pc[p] \notin {"validate", "sequence", "commit"} => p \in Executor
           /\ p \notin Executor => local[p].then = "done"
           /\ local[p] \in Locals
           /\ cancellations \in [Task -> Executor \cup {NoExecutor}]
           /\ signalled \subseteq Executor
  BY DirOfAssumption DEF IInv, TypeOK, StoreTypeOK, CallInv, CallOK, DirectoryOf

(* The read of the status in TaskStore::transition: a move that passes the
   validator follows the last lifecycle event of the log. *)
LEMMA ValidateKeepsIInv ==
    ASSUME IInv, NEW p \in Proc, TransitionValidate(p)
    PROVE  IInv'
  <1> DEFINE verdict == ValidateTransition(status[target[p]], local[p].next)
  <1>1. pc[p] = "validate" /\ UNCHANGED <<storeVars, target, policy, adapterVars>>
    BY DEF TransitionValidate, At
  <1>2. /\ TypeOK /\ target[p] \in Task /\ status[target[p]] \in TaskStatus
        /\ status[target[p]] # "absent"
        /\ p \notin Executor => local[p].then = "done"
        /\ cancellations' \in [Task -> Executor \cup {NoExecutor}]
        /\ signalled' \subseteq Executor
        /\ UNCHANGED <<status, events, target>>
    BY <1>1, StartedCall DEF storeVars, adapterVars
  <1>3. CASE verdict = "changed" /\ Goto(p, "sequence")
    <2>1. OnlyMoves(p) /\ pc'[p] = "sequence" /\ local'[p] = local[p]
      BY <1>2, <1>3, GotoMoves DEF Label
    <2>2. PICK e \in Lifecycle(target[p]) : e.type = status[target[p]]
      BY <1>2 DEF IInv, StatusIsLastLifecycleEvent
    <2>3. <<e.type, local[p].next>> \in AllowedTransitions
      BY <1>3, <2>2 DEF ValidateTransition
    <2>4. (Lifecycle(target[p]))' = Lifecycle(target[p])
      BY <1>2 DEF Lifecycle
    <2>5. CallOK(p)'
      BY <1>2, <2>1, <2>3, <2>4 DEF CallOK
    <2>6. QED
      BY <1>1, <1>2, <2>1, <2>5, ReadersKeepIInv
  <1>4. CASE verdict = "idempotent" /\ Continue(p)
    <2>1. /\ OnlyMoves(p) /\ pc'[p] \in Resume /\ pc'[p] = local[p].then
          /\ pc'[p] = "done" => local'[p] = NoLocals
      BY <1>2, <1>4, ContinueMoves
    <2>2. CallOK(p)'
      BY <1>2, <2>1, PlainCall DEF Resume, PlainLabel, Label, NoLocals
    <2>3. QED
      BY <1>1, <1>2, <2>1, <2>2, ReadersKeepIInv
  <1>5. CASE Return(p)
    <2>1. OnlyMoves(p) /\ pc'[p] = "done" /\ local'[p] = NoLocals
      BY <1>2, <1>5, ReturnMoves
    <2>2. CallOK(p)'
      BY <1>2, <2>1, PlainCall DEF PlainLabel, Label, NoLocals
    <2>3. QED
      BY <1>1, <1>2, <2>1, <2>2, ReadersKeepIInv
  <1>6. QED
    BY <1>3, <1>4, <1>5 DEF TransitionValidate

(* The tables and the adapter's registry as they were, up to types. *)
Undisturbed ==
    /\ UNCHANGED <<storeVars, target, policy>>
    /\ cancellations' \in [Task -> Executor \cup {NoExecutor}]
    /\ signalled' \subseteq Executor

(* The three ways an undisturbing step can end: by going on ... *)
LEMMA PlainGoto ==
    ASSUME IInv, NEW p \in Executor, NEW l \in PlainLabel, Goto(p, l), Undisturbed,
           status[target[p]] # "absent"
    PROVE  IInv'
  <1>1. TypeOK /\ p \in Proc /\ l \in Label
    BY DEF IInv, Proc, PlainLabel
  <1>2. OnlyMoves(p) /\ pc'[p] = l
    BY <1>1, GotoMoves
  <1>3. CallOK(p)'
    BY <1>1, <1>2, PlainCall DEF Undisturbed, storeVars
  <1>4. QED
    BY <1>1, <1>2, <1>3, ReadersKeepIInv DEF Undisturbed

(* ... by returning, with or without an error ... *)
LEMMA PlainReturn ==
    ASSUME IInv, NEW p \in Proc, Return(p), Undisturbed
    PROVE  IInv'
  <1>1. OnlyMoves(p) /\ pc'[p] = "done" /\ local'[p] = NoLocals
    BY ReturnMoves DEF IInv
  <1>2. CallOK(p)'
    BY <1>1, PlainCall DEF PlainLabel, Label, NoLocals, Undisturbed, storeVars
  <1>3. QED
    BY <1>1, <1>2, ReadersKeepIInv DEF Undisturbed

(* ... or by calling TaskStore::transition. *)
LEMMA PlainTransition ==
    ASSUME IInv, NEW p \in Proc, NEW next \in TaskStatus, NEW l \in Resume,
           Transition(p, next, l), p \notin Executor => l = "done", Undisturbed,
           status[target[p]] # "absent"
    PROVE  IInv'
  <1>1. OnlyMoves(p) /\ pc'[p] = "validate" /\ local'[p].then = l
    BY TransitionMoves DEF IInv
  <1>2. CallOK(p)'
    BY <1>1, PlainCall DEF PlainLabel, Label, Undisturbed, storeVars
  <1>3. QED
    BY <1>1, <1>2, ReadersKeepIInv DEF Undisturbed

(* A step that leaves all of them alone disturbs nothing. *)
LEMMA IdleAdapter ==
    ASSUME IInv, UNCHANGED <<storeVars, target, policy, adapterVars>>
    PROVE  Undisturbed
  BY DEF Undisturbed, IInv, TypeOK, adapterVars

(* execute_task up to the lock table and around the workspace, and cancel_task. *)
LEMMA ClaimReadsKeepIInv ==
    ASSUME IInv, NEW p \in Proc,
           \/ ExecuteTask(p) \/ CheckCapacity(p) \/ BeginPrepare(p)
           \/ PrepareWorkspace(p) \/ CancelTask(p)
    PROVE  IInv'
  <1> USE DEF PlainLabel, Label, Resume, TaskStatus, Terminal, At
  <1>1. CASE ExecuteTask(p)
    BY <1>1, IdleAdapter, PlainGoto, PlainReturn DEF ExecuteTask
  <1>2. CASE CheckCapacity(p)
    BY <1>2, IdleAdapter, StartedCall, PlainGoto, PlainTransition DEF CheckCapacity
  <1>3. CASE BeginPrepare(p)
    BY <1>3, IdleAdapter, StartedCall, PlainGoto, PlainReturn, PlainTransition DEF BeginPrepare
  <1>4. CASE PrepareWorkspace(p)
    BY <1>4, IdleAdapter, StartedCall, PlainTransition DEF PrepareWorkspace
  <1>5. CASE CancelTask(p)
    BY <1>5, IdleAdapter, PlainReturn, PlainTransition DEF CancelTask
  <1>6. QED
    BY <1>1, <1>2, <1>3, <1>4, <1>5

(* Reading the next sequence number, in a transition or in append_event: it is
   in 1..NextSequence, and the log keeps the event that allows the move. *)
LEMMA SequenceReadsKeepIInv ==
    ASSUME IInv, NEW p \in Proc, TransitionSequence(p) \/ AppendSequence(p)
    PROVE  IInv'
  <1> DEFINE n == NextSequence(target[p])
  <1>1. /\ pc[p] \in {"sequence", "outcome", "persist"}
        /\ local' = [local EXCEPT ![p].seq = n]
        /\ \/ pc[p] = "sequence" /\ pc' = [pc EXCEPT ![p] = "commit"]
           \/ pc[p] # "sequence" /\ local[p].left > 0 /\ pc' = [pc EXCEPT ![p] = "append"]
        /\ UNCHANGED <<storeVars, target, policy, adapterVars>>
    BY DEF TransitionSequence, AppendSequence, At
  <1>2. /\ TypeOK /\ target[p] \in Task /\ status[target[p]] # "absent"
        /\ pc[p] # "sequence" => p \in Executor
        /\ p \notin Executor => local[p].then = "done"
        /\ local[p] \in Locals /\ Undisturbed /\ UNCHANGED <<status, events, target>>
    BY <1>1, StartedCall, IdleAdapter DEF storeVars
  <1>3. n \in Nat \ {0} /\ (NextSequence(target[p]))' = n
    BY <1>2, TablesUnchanged DEF IInv, LogInv
  <1>4. (Lifecycle(target[p]))' = Lifecycle(target[p])
    BY <1>2, TablesUnchanged
  <1>5. /\ OnlyMoves(p) /\ pc'[p] = (IF pc[p] = "sequence" THEN "commit" ELSE "append")
        /\ local'[p].seq = n /\ local'[p].next = local[p].next
        /\ local'[p].then = local[p].then /\ local'[p].left = local[p].left
    <2> HIDE DEF n
    <2> QED
      BY <1>1, <1>2, <1>3 DEF TypeOK, OnlyMoves, Locals, Label
  <1>6. pc[p] = "sequence" =>
            \E e \in Lifecycle(target[p]) : <<e.type, local[p].next>> \in AllowedTransitions
    BY DEF IInv, CallInv, CallOK
  <1>7. n \in 1..n
    BY <1>3
  <1>8. CallOK(p)'
    <2> HIDE DEF n
    <2> QED
      BY <1>1, <1>2, <1>3, <1>4, <1>5, <1>6, <1>7 DEF CallOK
  <1>9. QED
    BY <1>2, <1>5, <1>8, ReadersKeepIInv DEF Undisturbed

(* The grant's policy decides the lock mode; a call that goes on to the lock
   table holds a mode that asks for a row. *)
LEMMA ReadGrantKeepsIInv ==
    ASSUME IInv, NEW p \in Proc, ReadGrant(p)
    PROVE  IInv'
  <1> DEFINE mode == ModeForCapabilities(Caps[target[p]], policy[DirectoryOf(p)])
  <1>1. /\ pc[p] = "grant" /\ Undisturbed /\ UNCHANGED <<status, target>>
        /\ TypeOK /\ target[p] \in Task /\ status[target[p]] # "absent"
        /\ p \in Executor /\ local[p] \in Locals /\ DirectoryOf(p) \in Dir
    BY IdleAdapter, StartedCall DEF ReadGrant, At, storeVars
  <1>2. CASE Return(p)
    BY <1>1, <1>2, PlainReturn
  <1>3. CASE Goto(p, "prepare")
    BY <1>1, <1>3, PlainGoto DEF PlainLabel, Label
  <1>4. CASE /\ policy[DirectoryOf(p)] # "deleted" /\ mode # "none"
             /\ pc' = [pc EXCEPT ![p] = "lookup"]
             /\ local' = [local EXCEPT ![p].mode = mode]
    <2>1. policy[DirectoryOf(p)] \in DirectoryLockPolicy
      BY <1>1, <1>4 DEF TypeOK
    <2>2. mode \in LockMode
      BY <2>1 DEF ModeForCapabilities, LockMode, DirectoryLockPolicy
    <2>3. OnlyMoves(p) /\ pc'[p] = "lookup" /\ local'[p].mode = mode
      <3> HIDE DEF mode
      <3> QED
        BY <1>1, <1>4, <2>2 DEF TypeOK, OnlyMoves, Locals, Label
    <2>4. CallOK(p)'
      <3> HIDE DEF mode
      <3> QED
        BY <1>1, <1>4, <2>3 DEF CallOK
    <2>5. QED
      BY <1>1, <2>3, <2>4, ReadersKeepIInv DEF Undisturbed
  <1>5. QED
    BY <1>2, <1>3, <1>4 DEF ReadGrant

(* The read of the held rows keeps the mode it was made with. *)
LEMMA ReadActiveLocksKeepsIInv ==
    ASSUME IInv, NEW p \in Proc, ReadActiveLocks(p)
    PROVE  IInv'
  <1>1. /\ pc[p] = "lookup" /\ Undisturbed /\ UNCHANGED <<status, target>>
        /\ TypeOK /\ target[p] \in Task /\ status[target[p]] # "absent"
        /\ p \in Executor /\ local[p].mode # "none"
    BY IdleAdapter, StartedCall DEF ReadActiveLocks, At, storeVars, IInv, CallInv, CallOK
  <1>2. CASE Transition(p, "waiting", "done")
    BY <1>1, <1>2, PlainTransition DEF TaskStatus, Resume
  <1>3. CASE Goto(p, "insert")
    <2>1. OnlyMoves(p) /\ pc'[p] = "insert" /\ local'[p] = local[p]
      BY <1>1, <1>3, GotoMoves DEF Label
    <2>2. CallOK(p)'
      BY <1>1, <2>1 DEF CallOK
    <2>3. QED
      BY <1>1, <2>1, <2>2, ReadersKeepIInv DEF Undisturbed
  <1>4. QED
    BY <1>2, <1>3 DEF ReadActiveLocks

(* The insert of the lock row writes no status and no event. *)
LEMMA InsertLockKeepsIInv ==
    ASSUME IInv, NEW p \in Proc, InsertLock(p)
    PROVE  IInv'
  <1>1. /\ pc[p] = "insert" /\ UNCHANGED <<status, events, results, target, policy, adapterVars>>
        /\ Transition(p, "waiting", "prepare")
        /\ InsertLockRow(DirectoryOf(p), target[p], local[p].mode)
    BY DEF InsertLock, At
  <1>2. /\ TypeOK /\ target[p] \in Task /\ status[target[p]] # "absent"
        /\ p \in Executor /\ local[p] \in Locals /\ local[p].mode # "none"
        /\ DirectoryOf(p) \in Dir
    BY <1>1, StartedCall DEF IInv, CallInv, CallOK
  <1>3. OnlyMoves(p) /\ pc'[p] = "validate"
    BY <1>1, <1>2, TransitionMoves DEF TaskStatus, Resume
  <1>4. local[p].mode \in {"exclusive", "shared"}
    BY <1>2 DEF Locals, LockMode
  <1>5. locks' \subseteq DirectoryLock
    BY <1>1, <1>2, <1>4 DEF InsertLockRow, DirectoryLock, TypeOK, StoreTypeOK
  <1>6. TypeOK'
    BY <1>1, <1>2, <1>3, <1>5 DEF TypeOK, StoreTypeOK, OnlyMoves, adapterVars
  <1>7. CallOK(p)'
    BY <1>1, <1>2, <1>3, PlainCall DEF PlainLabel, Label
  <1>8. QED
    BY <1>1, <1>3, <1>6, <1>7, QuietStep DEF OnlyMoves

(* Registering, dropping and removing senders keeps the adapter's registry of
   its type; the provider's outcome is a status and a number of events. *)
LEMMA AdapterKeepsIInv ==
    ASSUME IInv, NEW p \in Proc,
           \/ LaunchProvider(p) \/ ProviderReturns(p) \/ OutputEnds(p)
           \/ CancelRunningTask(p)
    PROVE  IInv'
  <1>1. /\ TypeOK /\ target[p] \in Task /\ status[target[p]] # "absent"
        /\ UNCHANGED <<storeVars, target, policy>> /\ UNCHANGED <<status, target>>
        /\ pc[p] \in {"launch", "provider", "drain"} => p \in Executor
        /\ local[p] \in Locals
        /\ cancellations[target[p]] \in Executor \cup {NoExecutor}
    BY StartedCall DEF LaunchProvider, ProviderReturns, OutputEnds, CancelRunningTask, At,
                       storeVars, IInv, TypeOK
  <1>2. DroppedBy(p) \subseteq Executor
    BY <1>1 DEF DroppedBy
  <1>3. Undisturbed
    BY <1>1, <1>2 DEF LaunchProvider, ProviderReturns, OutputEnds, CancelRunningTask,
                      Undisturbed, TypeOK, adapterVars, At
  <1>4. CASE Return(p)
    BY <1>3, <1>4, PlainReturn
  <1>5. CASE p \in Executor /\ Goto(p, "provider")
    BY <1>1, <1>3, <1>5, PlainGoto DEF PlainLabel, Label
  <1>6. ASSUME NEW l \in {"drain", "outcome"}, p \in Executor,
               pc' = [pc EXCEPT ![p] = l], local' \in [Proc -> Locals],
               \A q \in Proc \ {p} : local'[q] = local[q]
        PROVE  IInv'
    <2>1. OnlyMoves(p) /\ pc'[p] = l
      BY <1>1, <1>6 DEF TypeOK, OnlyMoves, Label
    <2>2. CallOK(p)'
      BY <1>1, <1>6, <2>1, PlainCall DEF PlainLabel, Label
    <2>3. QED
      BY <1>1, <1>3, <2>1, <2>2, ReadersKeepIInv DEF Undisturbed
  <1>7. CASE LaunchProvider(p)
    <2>1. CASE Goto(p, "provider")
      BY <1>1, <1>5, <1>7, <2>1 DEF LaunchProvider, At
    <2>2. CASE /\ pc' = [pc EXCEPT ![p] = "outcome"]
               /\ local' = [local EXCEPT ![p].next = "failed", ![p].left = 0]
      <3>1. local' \in [Proc -> Locals] /\ \A q \in Proc \ {p} : local'[q] = local[q]
        BY <1>1, <2>2 DEF TypeOK, Locals, TaskStatus, Terminal
      <3>2. QED
        BY <1>1, <1>6, <1>7, <2>2, <3>1 DEF LaunchProvider, At
    <2>3. QED
      BY <1>7, <2>1, <2>2 DEF LaunchProvider
  <1>8. CASE ProviderReturns(p)
    BY <1>1, <1>6, <1>8 DEF ProviderReturns, At, TypeOK, Locals, TaskStatus, Terminal
  <1>9. CASE OutputEnds(p)
    BY <1>1, <1>6, <1>9, SchedulerAssumption DEF OutputEnds, At, TypeOK, Locals
  <1>10. QED
    BY <1>4, <1>7, <1>8, <1>9 DEF CancelRunningTask

(* The end of persist_outcome: the outcome's status goes to the transition, the
   status read back goes to the result. *)
LEMMA ResultKeepsIInv ==
    ASSUME IInv, NEW p \in Proc, PersistStatus(p) \/ ReadForResult(p) \/ SaveResult(p)
    PROVE  IInv'
  <1>1. /\ TypeOK /\ target[p] \in Task /\ status[target[p]] \in TaskStatus
        /\ status[target[p]] # "absent" /\ p \in Executor /\ local[p] \in Locals
        /\ UNCHANGED <<status, target>>
    BY StartedCall DEF PersistStatus, ReadForResult, SaveResult, At, storeVars,
                       SaveExecutionResult
  <1>2. CASE PersistStatus(p)
    BY <1>1, <1>2, IdleAdapter, PlainTransition DEF PersistStatus, Resume, Locals
  <1>3. CASE ReadForResult(p)
    <2>1. OnlyMoves(p) /\ pc'[p] = "save"
      BY <1>1, <1>3 DEF ReadForResult, TypeOK, OnlyMoves, Locals, Label
    <2>2. CallOK(p)'
      BY <1>1, <2>1, PlainCall DEF PlainLabel, Label
    <2>3. Undisturbed
      BY <1>3, IdleAdapter DEF ReadForResult
    <2>4. QED
      BY <2>1, <2>2, <2>3, ReadersKeepIInv DEF Undisturbed
  <1>4. CASE SaveResult(p)
    <2>1. OnlyMoves(p) /\ pc'[p] = "done" /\ local'[p] = NoLocals
      BY <1>1, <1>4, ReturnMoves DEF SaveResult
    <2>2. CallOK(p)'
      BY <1>1, <2>1, PlainCall DEF PlainLabel, Label
    <2>3. /\ results' = [results EXCEPT ![target[p]] = local[p].next]
          /\ UNCHANGED <<status, events, locks, target, policy, adapterVars>>
      BY <1>4 DEF SaveResult, SaveExecutionResult
    <2>4. TypeOK'
      BY <1>1, <2>1, <2>3 DEF TypeOK, StoreTypeOK, OnlyMoves, Locals, adapterVars
    <2>5. QED
      BY <2>1, <2>2, <2>3, <2>4, QuietStep DEF OnlyMoves
  <1>5. QED
    BY <1>2, <1>3, <1>4

(* An insert that succeeds either records the status it comes with, following
   an event that allows it or opening the log, or records no status at all.
   It keeps the log gapless, its last lifecycle event equal to the status and
   every event justified, and every log only grows. *)
LEMMA InsertKeepsTables ==
    ASSUME IInv, NEW t \in Task, NEW n \in 1..NextSequence(t), NEW type \in EventType,
           InsertEvent(t, n, type),
           \/ type \notin TaskStatus /\ status' = status /\ status[t] # "absent"
           \/ /\ type \in TaskStatus /\ status' = [status EXCEPT ![t] = type]
              /\ \/ type = "queued" /\ status[t] = "absent"
                 \/ \E e \in Lifecycle(t) : <<e.type, type>> \in AllowedTransitions
    PROVE  /\ TablesInv'
           /\ events' \in [Task -> SUBSET Event]
           /\ LogsGrow
  <1> DEFINE new == [seq |-> n, type |-> type]
  <1>1. /\ TypeOK /\ GaplessLog /\ NextSequence(t) \in Nat \ {0} /\ n \in Nat \ {0}
        /\ status \in [Task -> TaskStatus \cup {"absent"}]
        /\ events \in [Task -> SUBSET Event]
    BY DEF IInv, LogInv, TypeOK, StoreTypeOK
  <1>2. /\ n = NextSequence(t)
        /\ events' \in [Task -> SUBSET Event]
        /\ events'[t] = events[t] \cup {new}
        /\ \A u \in Task \ {t} : events'[u] = events[u]
        /\ (SequencesOf(t))' = 1..n
        /\ (NextSequence(t))' = n + 1
    BY <1>1, InsertTakesNext
  <1>3. \A u \in Task \ {t} : /\ (SequencesOf(u))' = SequencesOf(u)
                              /\ (NextSequence(u))' = NextSequence(u)
                              /\ (Lifecycle(u))' = Lifecycle(u)
                              /\ status'[u] = status[u]
    BY <1>1, <1>2 DEF SequencesOf, NextSequence, Lifecycle
  <1>4. new.seq = n /\ new.type = type
    OBVIOUS
  <1> HIDE DEF new
  <1>5. \A e \in events[t] : e.seq \in Nat /\ e.seq < n
    <2>1. TAKE e \in events[t]
    <2>2. e.seq \in SequencesOf(t)
      BY DEF SequencesOf
    <2>3. QED
      BY <1>1, <1>2, <2>2 DEF GaplessLog
  <1>6. (Lifecycle(t))' = IF type \in TaskStatus THEN Lifecycle(t) \cup {new} ELSE Lifecycle(t)
    BY <1>2, <1>4 DEF Lifecycle
  <1>7. Lifecycle(t) \subseteq events[t]
    BY DEF Lifecycle
  <1>8. \A u \in Task : /\ (NextSequence(u))' \in Nat \ {0}
                        /\ (NextSequence(u))' >= NextSequence(u)
                        /\ Lifecycle(u) \subseteq (Lifecycle(u))'
                        /\ status[u] # "absent" => status'[u] # "absent"
    <2>1. TAKE u \in Task
    <2>2. CASE u = t
      BY <1>1, <1>2, <1>6, <2>2 DEF TaskStatus, Terminal
    <2>3. CASE u # t
      BY <1>3, <2>3 DEF IInv, LogInv
    <2>4. QED
      BY <2>2, <2>3
  <1>9. GaplessLog'
    <2>1. ASSUME NEW u \in Task
          PROVE  /\ (SequencesOf(u))' = 1..((NextSequence(u))' - 1)
                 /\ \A d, e \in events'[u] : d.seq = e.seq => d = e
      <3>1. CASE u = t
        <4>1. (SequencesOf(t))' = 1..((NextSequence(t))' - 1)
          BY <1>1, <1>2
        <4>2. \A d, e \in events'[t] : d.seq = e.seq => d = e
          BY <1>1, <1>2, <1>4, <1>5 DEF GaplessLog
        <4>3. QED
          BY <3>1, <4>1, <4>2
      <3>2. CASE u # t
        BY <1>1, <1>2, <1>3, <3>2 DEF GaplessLog
      <3>3. QED
        BY <3>1, <3>2
    <2>2. QED
      BY <2>1 DEF GaplessLog
  <1>10. StatusIsLastLifecycleEvent'
    <2>1. ASSUME NEW u \in Task, status'[u] # "absent"
          PROVE  \E e \in (Lifecycle(u))' :
                     e.type = status'[u] /\ \A d \in (Lifecycle(u))' : d.seq <= e.seq
      <3>1. CASE u # t
        BY <1>3, <2>1, <3>1 DEF IInv, StatusIsLastLifecycleEvent
      <3>2. CASE u = t /\ type \notin TaskStatus
        BY <1>6, <2>1, <3>2 DEF IInv, StatusIsLastLifecycleEvent
      <3>3. CASE u = t /\ type \in TaskStatus
        <4>1. new \in (Lifecycle(t))' /\ new.type = status'[t]
          BY <1>1, <1>4, <1>6, <3>3
        <4>2. \A d \in (Lifecycle(t))' : d.seq <= new.seq
          BY <1>1, <1>4, <1>5, <1>6, <1>7, <3>3
        <4>3. QED
          BY <3>3, <4>1, <4>2
      <3>4. QED
        BY <3>1, <3>2, <3>3
    <2>2. QED
      BY <2>1 DEF StatusIsLastLifecycleEvent
  <1>11. EventsAreJustified'
    <2>1. ASSUME NEW u \in Task, NEW e \in (Lifecycle(u))'
          PROVE  \/ e.type = "queued" /\ e.seq = 1
                 \/ \E d \in (Lifecycle(u))' :
                        d.seq < e.seq /\ <<d.type, e.type>> \in AllowedTransitions
      <3>1. CASE e \in Lifecycle(u)
        BY <1>8, <3>1 DEF IInv, EventsAreJustified
      <3>2. CASE e \notin Lifecycle(u)
        <4>1. u = t /\ e = new /\ type \in TaskStatus
          BY <1>3, <1>6, <2>1, <3>2
        <4>2. CASE type = "queued" /\ status[t] = "absent"
          <5>1. events[t] = {}
            BY <4>2 DEF IInv, LogInv
          <5>2. n = 1
            BY <1>2, <5>1 DEF NextSequence
          <5>3. QED
            BY <1>4, <4>1, <4>2, <5>2
        <4>3. CASE \E d \in Lifecycle(t) : <<d.type, type>> \in AllowedTransitions
          BY <1>4, <1>5, <1>7, <1>8, <4>1, <4>3
        <4>4. QED
          BY <4>1, <4>2, <4>3
      <3>3. QED
        BY <3>1, <3>2
    <2>2. QED
      BY <2>1 DEF EventsAreJustified
  <1>12. LogInv'
    <2>1. \A u \in Task : status'[u] = "absent" => events'[u] = {}
      BY <1>1, <1>2, <1>3 DEF IInv, LogInv, TaskStatus, Terminal
    <2>2. QED
      BY <1>8, <2>1 DEF LogInv
  <1>13. QED
    BY <1>2, <1>8, <1>9, <1>10, <1>11, <1>12 DEF TablesInv, LogsGrow

(* The transaction that ends TaskStore::transition. *)
LEMMA CommitKeepsIInv ==
    ASSUME IInv, NEW p \in Proc, TransitionCommit(p)
    PROVE  IInv'
  <1> DEFINE t == target[p]
             n == local[p].seq
             next == local[p].next
  <1>1. pc[p] = "commit" /\ UNCHANGED <<target, policy, adapterVars>>
    BY DEF TransitionCommit, At
  <1>2. /\ TypeOK /\ t \in Task /\ status[t] # "absent" /\ local[p] \in Locals
        /\ p \notin Executor => local[p].then = "done"
        /\ n \in 1..NextSequence(t)
        /\ \E e \in Lifecycle(t) : <<e.type, next>> \in AllowedTransitions
    BY <1>1, StartedCall DEF IInv, CallInv, CallOK
  <1>3. next \in TaskStatus /\ next \in EventType
    BY <1>2 DEF Locals, EventType
  <1>4. CASE Return(p) /\ UNCHANGED storeVars
    BY <1>1, <1>4, IdleAdapter, PlainReturn
  <1>5. CASE CommitTransition(t, n, next) /\ Continue(p)
    <2>1. /\ InsertEvent(t, n, next) /\ status' = [status EXCEPT ![t] = next]
          /\ locks' \subseteq locks /\ results' = results
      BY <1>5 DEF CommitTransition, EventTypeForStatus, ReleaseLocks
    <2>2. TablesInv' /\ events' \in [Task -> SUBSET Event] /\ LogsGrow
      <3> HIDE DEF t, n, next
      <3> QED
        BY <1>2, <1>3, <2>1, InsertKeepsTables
    <2>3. /\ OnlyMoves(p) /\ pc'[p] \in Resume /\ pc'[p] = local[p].then
          /\ pc'[p] = "done" => local'[p] = NoLocals
      BY <1>2, <1>5, ContinueMoves
    <2>4. TypeOK'
      BY <1>1, <1>2, <1>3, <2>1, <2>2, <2>3 DEF TypeOK, StoreTypeOK, OnlyMoves, adapterVars
    <2>5. CallOK(p)'
      <3>1. status'[target'[p]] # "absent"
        BY <1>1, <1>2, <2>2 DEF LogsGrow
      <3>2. QED
        BY <1>2, <2>3, <3>1 DEF CallOK, Resume, NoLocals
    <2>6. ASSUME NEW q \in Proc \ {p} PROVE CallOK(q)'
      BY <1>1, <2>2, <2>3, OtherCalls DEF OnlyMoves
    <2>7. QED
      BY <2>2, <2>4, <2>5, <2>6 DEF IInv, TablesInv, CallInv
  <1>6. QED
    BY <1>4, <1>5 DEF TransitionCommit

(* append_event: an output event records no status. *)
LEMMA AppendKeepsIInv ==
    ASSUME IInv, NEW p \in Proc, AppendEvent(p)
    PROVE  IInv'
  <1> DEFINE t == target[p]
             n == local[p].seq
  <1>1. pc[p] = "append" /\ UNCHANGED <<target, policy, adapterVars>>
    BY DEF AppendEvent, At
  <1>2. /\ TypeOK /\ t \in Task /\ status[t] # "absent" /\ local[p] \in Locals
        /\ p \in Executor /\ n \in 1..NextSequence(t) /\ local[p].left > 0
    BY <1>1, StartedCall DEF IInv, CallInv, CallOK
  <1>3. "output" \in EventType /\ "output" \notin TaskStatus
    BY DEF EventType, TaskStatus, Terminal
  <1>4. CASE Return(p) /\ UNCHANGED storeVars
    BY <1>1, <1>4, IdleAdapter, PlainReturn
  <1>5. CASE /\ InsertEvent(t, n, "output")
             /\ pc' = [pc EXCEPT ![p] = "persist"]
             /\ local' = [local EXCEPT ![p].left = @ - 1]
             /\ UNCHANGED <<status, locks, results>>
    <2>1. TablesInv' /\ events' \in [Task -> SUBSET Event] /\ LogsGrow
      <3> HIDE DEF t, n
      <3> QED
        BY <1>2, <1>3, <1>5, InsertKeepsTables
    <2>2. OnlyMoves(p) /\ pc'[p] = "persist"
      BY <1>2, <1>5 DEF TypeOK, OnlyMoves, Locals, Label
    <2>3. TypeOK'
      BY <1>1, <1>2, <1>5, <2>1, <2>2 DEF TypeOK, StoreTypeOK, OnlyMoves, adapterVars
    <2>4. CallOK(p)'
      <3>1. status'[target'[p]] # "absent"
        BY <1>1, <1>2, <2>1 DEF LogsGrow
      <3>2. QED
        BY <1>2, <2>2, <3>1 DEF CallOK
    <2>5. ASSUME NEW q \in Proc \ {p} PROVE CallOK(q)'
      BY <1>1, <2>1, <2>2, OtherCalls DEF OnlyMoves
    <2>6. QED
      BY <2>1, <2>3, <2>4, <2>5 DEF IInv, TablesInv, CallInv
  <1>6. QED
    BY <1>4, <1>5 DEF AppendEvent

(* Admission opens a log with event 1. *)
LEMMA CreateKeepsIInv ==
    ASSUME IInv, NEW t \in Task, Create(t)
    PROVE  IInv'
  <1>1. /\ TypeOK /\ status[t] = "absent" /\ InsertEvent(t, 1, "queued")
        /\ status' = [status EXCEPT ![t] = "queued"]
        /\ UNCHANGED <<locks, results, target, pc, local, policy, cancellations, signalled>>
    BY DEF Create, CreateTask, callVars, adapterVars, IInv
  <1>2. 1 \in 1..NextSequence(t)
    BY DEF IInv, LogInv
  <1>3. "queued" \in TaskStatus /\ "queued" \in EventType
    BY DEF TaskStatus, EventType
  <1>4. TablesInv' /\ events' \in [Task -> SUBSET Event] /\ LogsGrow
    BY <1>1, <1>2, <1>3, InsertKeepsTables
  <1>5. TypeOK'
    BY <1>1, <1>3, <1>4 DEF TypeOK, StoreTypeOK
  <1>6. ASSUME NEW q \in Proc PROVE CallOK(q)'
    BY <1>1, <1>4, OtherCalls
  <1>7. QED
    BY <1>4, <1>5, <1>6 DEF IInv, TablesInv, CallInv

(* A grant change, a failed statement, a crash and a restart write nothing. *)
LEMMA SurroundingsKeepIInv ==
    ASSUME IInv,
           \/ \E d \in Dir : ChangeGrant(d)
           \/ \E p \in Proc : StoreError(p)
           \/ Crash
           \/ UNCHANGED vars
    PROVE  IInv'
  <1>1. CASE \E d \in Dir : ChangeGrant(d)
    <2>1. /\ UNCHANGED <<storeVars, callVars, adapterVars>>
          /\ policy' \in [Dir -> DirectoryLockPolicy \cup {"deleted"}]
      BY <1>1 DEF ChangeGrant, IInv, TypeOK
    <2>2. TypeOK'
      BY <2>1 DEF IInv, TypeOK, StoreTypeOK, storeVars, callVars, adapterVars
    <2>3. ASSUME NEW q \in Proc PROVE CallOK(q)'
      BY <2>1, OtherCalls, TablesUnchanged DEF LogsGrow, IInv, LogInv, storeVars, callVars
    <2>4. QED
      BY <2>1, <2>2, <2>3, TablesUnchanged DEF IInv, TablesInv, CallInv, storeVars
  <1>2. CASE \E p \in Proc : StoreError(p)
    BY <1>2, IdleAdapter, PlainReturn DEF StoreError
  <1>3. CASE Crash
    <2>1. /\ UNCHANGED <<status, events, locks, results, target, policy>>
          /\ pc' = [p \in Proc |-> IF pc[p] = "idle" THEN "idle" ELSE "done"]
          /\ local' = [p \in Proc |-> NoLocals]
          /\ cancellations' = [t \in Task |-> NoExecutor]
          /\ signalled' = {}
      BY <1>3 DEF Crash, storeVars
    <2>2. NoLocals \in Locals
      BY DEF NoLocals, Locals, TaskStatus, LockMode, Resume
    <2>3. TypeOK'
      BY <2>1, <2>2 DEF IInv, TypeOK, StoreTypeOK, Label
    <2>4. ASSUME NEW q \in Proc PROVE CallOK(q)'
      BY <2>1 DEF CallOK, NoLocals
    <2>5. QED
      BY <2>1, <2>3, <2>4, TablesUnchanged DEF IInv, TablesInv, CallInv
  <1>4. CASE UNCHANGED vars
    <2>1. TypeOK'
      BY <1>4 DEF IInv, TypeOK, StoreTypeOK, vars
    <2>2. ASSUME NEW q \in Proc PROVE CallOK(q)'
      BY <1>4, OtherCalls, TablesUnchanged DEF LogsGrow, IInv, LogInv, vars
    <2>3. QED
      BY <1>4, <2>1, <2>2, TablesUnchanged DEF IInv, TablesInv, CallInv, vars
  <1>5. QED
    BY <1>1, <1>2, <1>3, <1>4

(* Every step of the scheduler and of its surroundings preserves IInv. *)
LEMMA NextKeepsIInv ==
    ASSUME IInv, [Next]_vars
    PROVE  IInv'
  <1>1. ASSUME NEW p \in Proc, Step(p) PROVE IInv'
    <2>1. CASE StoreTransition(p)
      BY <2>1, ValidateKeepsIInv, SequenceReadsKeepIInv, CommitKeepsIInv DEF StoreTransition
    <2>2. CASE ExecuteTask(p) \/ BeginPrepare(p) \/ PrepareWorkspace(p) \/ CancelTask(p)
      BY <2>2, ClaimReadsKeepIInv
    <2>3. CASE TryAcquireDirectoryLock(p)
      BY <2>3, ClaimReadsKeepIInv, ReadGrantKeepsIInv, ReadActiveLocksKeepsIInv,
         InsertLockKeepsIInv DEF TryAcquireDirectoryLock
    <2>4. CASE \/ LaunchProvider(p) \/ ProviderReturns(p) \/ OutputEnds(p)
               \/ CancelRunningTask(p)
      BY <2>4, AdapterKeepsIInv
    <2>5. CASE PersistOutcome(p)
      BY <2>5, SequenceReadsKeepIInv, AppendKeepsIInv, ResultKeepsIInv DEF PersistOutcome
    <2>6. QED
      BY <1>1, <2>1, <2>2, <2>3, <2>4, <2>5 DEF Step
  <1>2. CASE \E t \in Task : Create(t)
    BY <1>2, CreateKeepsIInv
  <1>3. CASE \/ \E d \in Dir : ChangeGrant(d)
             \/ \E p \in Proc : StoreError(p)
             \/ Crash
             \/ UNCHANGED vars
    BY <1>3, SurroundingsKeepIInv
  <1>4. Quiescent => UNCHANGED vars
    BY DEF Quiescent
  <1>5. QED
    BY <1>1, <1>2, <1>3, <1>4 DEF Next

(* Before the first request there is no task, no event and no call. *)
LEMMA InitEstablishesIInv == Init => IInv
  <1> SUFFICES ASSUME Init PROVE IInv
    OBVIOUS
  <1>1. /\ \A t \in Task : status[t] = "absent" /\ events[t] = {}
        /\ \A p \in Proc : pc[p] = "idle" /\ local[p] = NoLocals
    BY DEF Init, StoreInit
  <1>2. NoLocals \in Locals
    BY DEF NoLocals, Locals, TaskStatus, LockMode, Resume
  <1>3. TypeOK
    BY <1>2, SchedulerAssumption
       DEF Init, StoreInit, TypeOK, StoreTypeOK, Label, TaskStatus
  <1>4. \A t \in Task : /\ SequencesOf(t) = {} /\ NextSequence(t) = 1
                        /\ Lifecycle(t) = {}
    BY <1>1 DEF SequencesOf, NextSequence, Lifecycle
  <1>5. GaplessLog /\ StatusIsLastLifecycleEvent /\ EventsAreJustified /\ LogInv
    <2>1. 1..(1 - 1) = {}
      OBVIOUS
    <2>2. GaplessLog
      BY <1>1, <1>4, <2>1 DEF GaplessLog
    <2>3. StatusIsLastLifecycleEvent /\ EventsAreJustified
      BY <1>1, <1>4 DEF StatusIsLastLifecycleEvent, EventsAreJustified
    <2>4. LogInv
      BY <1>1, <1>4 DEF LogInv
    <2>5. QED
      BY <2>2, <2>3, <2>4
  <1>6. CallInv
    BY <1>1 DEF CallInv, CallOK, NoLocals
  <1>7. QED
    BY <1>3, <1>5, <1>6 DEF IInv

(* IInv is an invariant of the scheduler, for every set of tasks, directories
   and calls and every capacity, with or without failed statements, grant changes
   and crashes. *)
THEOREM InductiveInvariant == Spec => []IInv
  BY InitEstablishesIInv, NextKeepsIInv, PTL DEF Spec

(* Every table, every call's state and the adapter's registry keep their type. *)
THEOREM TypeCorrect == Spec => []TypeOK
  <1>1. IInv => TypeOK
    BY DEF IInv
  <1>2. QED
    BY <1>1, InductiveInvariant, PTL

(* No two events of a task share a sequence number and none is skipped, although
   next_sequence is read outside the transaction that uses the number. *)
THEOREM LogIsGapless == Spec => []GaplessLog
  <1>1. IInv => GaplessLog
    BY DEF IInv
  <1>2. QED
    BY <1>1, InductiveInvariant, PTL

(* The status column and the event log of TaskStore never disagree. *)
THEOREM LogDeterminesStatus == Spec => []StatusIsLastLifecycleEvent
  <1>1. IInv => StatusIsLastLifecycleEvent
    BY DEF IInv
  <1>2. QED
    BY <1>1, InductiveInvariant, PTL

(* Every lifecycle event in a log follows, not always directly, one from which
   validate_transition allows it. *)
THEOREM LogIsJustified == Spec => []EventsAreJustified
  <1>1. IInv => EventsAreJustified
    BY DEF IInv
  <1>2. QED
    BY <1>1, InductiveInvariant, PTL

=============================================================================
