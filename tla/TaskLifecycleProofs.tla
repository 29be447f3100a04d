------------------------ MODULE TaskLifecycleProofs ------------------------
(***************************************************************************)
(* What a client may conclude from TaskLifecycle alone: an implementation  *)
(* that refines it, as Scheduler.tla does in its windows, inherits this.   *)
(***************************************************************************)
EXTENDS TaskLifecycle, TLAPS

LifecycleInv == TypeOK /\ LockDiscipline

(* Each operation keeps the types and the discipline of the locks. *)
LEMMA NextKeepsLifecycleInv ==
    ASSUME DirOf \in [Task -> Dir], LifecycleInv, [Next]_lifecycleVars
    PROVE  LifecycleInv'
  <1>1. ASSUME NEW t \in Task, Create(t) PROVE LifecycleInv'
    <2>1. TypeOK'
      BY <1>1 DEF LifecycleInv, TypeOK, Create, TaskStatus
    <2>2. LockDiscipline'
      BY <1>1 DEF LifecycleInv, TypeOK, Create, LockDiscipline, Terminal
    <2>3. QED
      BY <2>1, <2>2 DEF LifecycleInv
  <1>2. ASSUME NEW t \in Task, NEW mode \in {"exclusive", "shared"}, Acquire(t, mode)
        PROVE  LifecycleInv'
    <2> DEFINE new == [dir |-> DirOf[t], task |-> t, mode |-> mode]
    <2>1. TypeOK'
      BY <1>2 DEF LifecycleInv, TypeOK, Acquire
    <2>2. new.dir = DirOf[t] /\ new.task = t /\ new.mode = mode
      OBVIOUS
    <2>3. locks' = locks \cup {new} /\ status' = status
          /\ status[t] \notin Terminal \cup {"absent"}
          /\ \A l \in locks : l.dir = DirOf[t] => mode = "shared" /\ l.mode = "shared"
      BY <1>2 DEF Acquire, Compatible
    <2> HIDE DEF new
    <2>4. \A k, l \in locks \cup {new} : k.dir = l.dir /\ k.mode = "exclusive" => k = l
      BY <2>2, <2>3 DEF LifecycleInv, LockDiscipline
    <2>5. \A l \in locks \cup {new} : status[l.task] \notin Terminal \cup {"absent"}
      BY <2>2, <2>3 DEF LifecycleInv, LockDiscipline
    <2>6. QED
      BY <2>1, <2>3, <2>4, <2>5 DEF LifecycleInv, LockDiscipline
  <1>3. ASSUME NEW t \in Task, NEW next \in TaskStatus, Move(t, next) PROVE LifecycleInv'
    <2>1. TypeOK'
      BY <1>3 DEF LifecycleInv, TypeOK, Move
    <2>2. /\ locks' \subseteq locks
          /\ next \in Terminal => \A l \in locks' : l.task # t
          /\ next # "absent"
      BY <1>3 DEF Move, TaskStatus, Terminal
    <2>3. LockDiscipline'
      BY <1>3, <2>2 DEF LifecycleInv, TypeOK, Move, LockDiscipline
    <2>4. QED
      BY <2>1, <2>3 DEF LifecycleInv
  <1>4. CASE UNCHANGED lifecycleVars
    BY <1>4 DEF lifecycleVars, LifecycleInv, TypeOK, LockDiscipline
  <1>5. QED
    BY <1>1, <1>2, <1>3, <1>4 DEF Next

(* An exclusive lock is alone on its directory, and every lock belongs to a task
   that exists and is not terminal. *)
THEOREM LifecycleLocks ==
    ASSUME DirOf \in [Task -> Dir]
    PROVE  Spec => []LockDiscipline
  <1>1. Init => LifecycleInv
    BY DEF Init, LifecycleInv, TypeOK, LockDiscipline
  <1>2. LifecycleInv /\ [Next]_lifecycleVars => LifecycleInv'
    BY NextKeepsLifecycleInv
  <1>3. LifecycleInv => LockDiscipline
    BY DEF LifecycleInv
  <1>4. QED
    BY <1>1, <1>2, <1>3, PTL DEF Spec

(* task/state.rs validates every move: a terminal status is the last one. *)
THEOREM LifecycleTerminal ==
    ASSUME DirOf \in [Task -> Dir]
    PROVE  Spec => TerminalIsFinal
  <1>1. Init => LifecycleInv
    BY DEF Init, LifecycleInv, TypeOK, LockDiscipline
  <1>2. LifecycleInv /\ [Next]_lifecycleVars => LifecycleInv'
    BY NextKeepsLifecycleInv
  <1>3. LifecycleInv /\ [Next]_lifecycleVars =>
            [\A t \in Task : status[t] \in Terminal => status'[t] = status[t]]_lifecycleVars
    BY DEF LifecycleInv, TypeOK, Next, Create, Acquire, Move, ValidateTransition, Terminal
  <1>4. QED
    BY <1>1, <1>2, <1>3, PTL DEF Spec, TerminalIsFinal

=============================================================================
