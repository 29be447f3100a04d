------------------------ MODULE RuntimeSessionProofs ------------------------
(***************************************************************************)
(* The permission bridge keeps its promise for every number of sessions,   *)
(* request ids and responses.                                              *)
(*                                                                         *)
(* The invariant says what the two sides know of a request between their   *)
(* steps.  A reader past record_permission_request is the only one of its  *)
(* request (the row names its session) and has not answered it yet; a      *)
(* reader that responds, and a resolver that notifies, hold the decision   *)
(* the row holds.                                                          *)
(***************************************************************************)
EXTENDS RuntimeSession, TLAPS

ReaderRecord == [pc : {"none", "reading", "record", "lookup", "register",
                       "await", "respond", "ended"},
                 request : Request \cup {NoRequest},
                 decision : Decision \cup {"none"}, error : BOOLEAN]

CallRecord == [pc : {"idle", "has_waiter", "resolve", "notify", "done"},
               request : Request \cup {NoRequest},
               task : Session \cup {NoSession},
               decision : Decision \cup {"none"},
               result : {"none", "resolved", "not_found", "not_supported", "already_resolved"}]

MainLabel == {"idle", "spawn", "wait", "unregister", "join", "join_stderr", "send", "sent",
              "body", "done", "gone"}

BridgeTypeOK ==
    /\ row \in [Request -> Row]
    /\ answer \in [Request -> Decision \cup {"none"}]
    /\ waiters \subseteq Acp \X Request
    /\ main \in [Session -> MainLabel]
    /\ reader \in [Acp -> ReaderRecord]
    /\ resolver \in [Resolver -> CallRecord]

(* A request that nobody has made is nobody's; nothing is answered before it is
   decided. *)
RowOK(r) ==
    /\ row[r].decision = "absent" => row[r].task = NoSession
    /\ row[r].decision \in {"absent", "pending"} => answer[r] = "none"

(* Past the insert the row of a reader's request is its own and not answered; a
   response holds the stored decision. *)
ReaderSound(s, x) ==
    /\ x.pc = "record" => x.request \in Request
    /\ x.pc \in {"lookup", "register", "await", "respond"} =>
           /\ x.request \in Request
           /\ row[x.request].task = s
           /\ row[x.request].decision # "absent"
           /\ answer[x.request] = "none"
    /\ x.pc = "respond" => /\ x.decision \in Decision
                           /\ row[x.request].decision = x.decision

(* A session that has not spawned its child. *)
Waiting(s) == main[s] \in {"idle", "spawn"}

ReaderOK(s) == (Waiting(s) => reader[s].pc = "none") /\ ReaderSound(s, reader[s])

(* The row a response is about is its task's; past the transaction it holds the
   response's decision. *)
CallSound(x) ==
    /\ x.pc \in {"has_waiter", "resolve", "notify"} =>
           /\ x.request \in Request /\ x.task \in Acp /\ x.decision \in Decision
           /\ row[x.request].task = x.task
           /\ row[x.request].decision # "absent"
    /\ x.pc = "notify" => row[x.request].decision = x.decision

BridgeInv ==
    /\ BridgeTypeOK
    /\ WaiterIsAwaited
    /\ \A r \in Request : RowOK(r)
    /\ \A s \in Acp : ReaderOK(s)
    /\ \A v \in Resolver : CallSound(resolver[v])

(* A step of the abstract bridge, or none. *)
PromiseStep == [Promise!Next]_(Promise!promiseVars)

-----------------------------------------------------------------------------
(* Steps that leave the bridge alone. *)

LEMMA SameRows ==
    ASSUME row' = row, answer' = answer
    PROVE  PromiseStep
  BY DEF PromiseStep, Promise!promiseVars

(* Neither a reader, a response, a row nor a waiter moves, and no session goes
   back to its start. *)
LEMMA QuietKeeps ==
    ASSUME BridgeInv,
           UNCHANGED <<row, answer, waiters, reader, resolver>>,
           main' \in [Session -> MainLabel], \A s \in Session : Waiting(s)' => Waiting(s)
    PROVE  BridgeInv' /\ PromiseStep
  <1>1. /\ row' = row /\ answer' = answer /\ waiters' = waiters
        /\ reader' = reader /\ resolver' = resolver
    OBVIOUS
  <1>2. BridgeTypeOK' /\ WaiterIsAwaited'
    BY <1>1 DEF BridgeInv, BridgeTypeOK, WaiterIsAwaited
  <1>3. (\A r \in Request : RowOK(r)') /\ (\A v \in Resolver : CallSound(resolver[v])')
    BY <1>1 DEF BridgeInv, RowOK, CallSound
  <1>4. ASSUME NEW s \in Acp PROVE ReaderOK(s)'
    BY <1>1 DEF BridgeInv, ReaderOK, ReaderSound, Session
  <1>5. QED
    BY <1>1, <1>2, <1>3, <1>4, SameRows DEF BridgeInv

(* What a step of a session's call does to main. *)
Forward == main' \in [Session -> MainLabel] /\ \A s \in Session : Waiting(s)' => Waiting(s)

LEMMA MainMoves ==
    ASSUME BridgeInv, NEW s \in Session, NEW l \in MainLabel,
           l \in {"idle", "spawn"} => Waiting(s), main' = [main EXCEPT ![s] = l]
    PROVE  Forward /\ main'[s] = l
  BY DEF BridgeInv, BridgeTypeOK, Forward, Waiting

LEMMA MainStays ==
    ASSUME BridgeInv, main' = main
    PROVE  Forward
  BY DEF BridgeInv, BridgeTypeOK, Forward, Waiting

(* One reader moves that is not waiting. *)
LEMMA ReaderMoves ==
    ASSUME BridgeInv, NEW s \in Acp, NEW x \in ReaderRecord,
           reader' = [reader EXCEPT ![s] = x], UNCHANGED <<row, answer, waiters, resolver>>,
           Forward, ~Waiting(s)', reader[s].pc # "await", ReaderSound(s, x)
    PROVE  BridgeInv' /\ PromiseStep
  <1>1. /\ row' = row /\ answer' = answer /\ waiters' = waiters /\ resolver' = resolver
        /\ reader' \in [Acp -> ReaderRecord] /\ reader'[s] = x
        /\ \A u \in Acp \ {s} : reader'[u] = reader[u]
    BY DEF BridgeInv, BridgeTypeOK
  <1>2. BridgeTypeOK'
    BY <1>1 DEF BridgeInv, BridgeTypeOK, Forward
  <1>3. WaiterIsAwaited'
    BY <1>1 DEF BridgeInv, BridgeTypeOK, WaiterIsAwaited
  <1>4. (\A r \in Request : RowOK(r)') /\ (\A v \in Resolver : CallSound(resolver[v])')
    BY <1>1 DEF BridgeInv, RowOK, CallSound
  <1>5. ASSUME NEW u \in Acp PROVE ReaderOK(u)'
    <2>1. CASE u = s
      BY <1>1, <2>1 DEF ReaderOK, ReaderSound
    <2>2. CASE u # s
      <3>1. ReaderOK(u) /\ reader'[u] = reader[u]
        BY <1>1, <2>2 DEF BridgeInv
      <3>2. ReaderSound(u, reader[u])'
        BY <1>1, <3>1 DEF ReaderOK, ReaderSound
      <3>3. QED
        BY <3>1, <3>2 DEF ReaderOK, Forward, Session
    <2>3. QED
      BY <2>1, <2>2
  <1>6. QED
    BY <1>1, <1>2, <1>3, <1>4, <1>5, SameRows DEF BridgeInv

(* One response moves. *)
LEMMA CallMoves ==
    ASSUME BridgeInv, NEW v \in Resolver, NEW x \in CallRecord,
           resolver' = [resolver EXCEPT ![v] = x],
           UNCHANGED <<row, answer, waiters, reader, main>>, CallSound(x)
    PROVE  BridgeInv' /\ PromiseStep
  <1>1. /\ row' = row /\ answer' = answer /\ waiters' = waiters /\ reader' = reader
        /\ main' = main /\ resolver' \in [Resolver -> CallRecord] /\ resolver'[v] = x
        /\ \A u \in Resolver \ {v} : resolver'[u] = resolver[u]
    BY DEF BridgeInv, BridgeTypeOK
  <1>2. BridgeTypeOK' /\ WaiterIsAwaited'
    BY <1>1 DEF BridgeInv, BridgeTypeOK, WaiterIsAwaited
  <1>3. (\A r \in Request : RowOK(r)') /\ (\A s \in Acp : ReaderOK(s)')
    BY <1>1 DEF BridgeInv, RowOK, ReaderOK, ReaderSound, Waiting
  <1>4. ASSUME NEW u \in Resolver PROVE CallSound(resolver[u])'
    <2>1. CASE u = v
      BY <1>1, <2>1 DEF CallSound
    <2>2. CASE u # v
      BY <1>1, <2>2 DEF BridgeInv, CallSound
    <2>3. QED
      BY <2>1, <2>2
  <1>5. QED
    BY <1>1, <1>2, <1>3, <1>4, SameRows DEF BridgeInv

-----------------------------------------------------------------------------
(* The calls of the sessions, the children and the cancellations. *)

LEMMA AcpMainKeeps ==
    ASSUME BridgeInv, NEW s \in Acp,
           \/ AcpStart(s) \/ AcpSpawn(s) \/ ChildReaped(s) \/ TimeoutChild(s)
           \/ CancelChild(s) \/ AcpUnregister(s) \/ AcpJoin(s) \/ AcpJoinStderr(s)
    PROVE  BridgeInv' /\ PromiseStep
  <1> USE DEF MainLabel
  <1>0. s \in Session /\ reader[s] \in ReaderRecord
    BY DEF Session, BridgeInv, BridgeTypeOK
  <1>1. CASE AcpStart(s)
    <2>1. UNCHANGED <<row, answer, waiters, reader, resolver>>
      BY <1>1 DEF AcpStart, bridgeVars
    <2>2. \E l \in {"done", "spawn"} : main' = [main EXCEPT ![s] = l]
      BY <1>1 DEF AcpStart, Return, Goto
    <2>3. Waiting(s)
      BY <1>1 DEF AcpStart, Waiting
    <2>4. Forward
      BY <1>0, <2>2, <2>3, MainMoves
    <2>5. QED
      BY <2>1, <2>4, QuietKeeps DEF Forward
  <1>2. CASE AcpSpawn(s)
    <2>1. UNCHANGED <<row, answer, waiters, resolver>> /\ Waiting(s)
      BY <1>2 DEF AcpSpawn, bridgeVars, Waiting
    <2>2. CASE Return(s, "failed") /\ UNCHANGED reader
      <3>1. Forward
        BY <1>0, <2>2, MainMoves DEF Return
      <3>2. QED
        BY <2>1, <2>2, <3>1, QuietKeeps DEF Forward
    <2>3. CASE Goto(s, "wait") /\ reader' = [reader EXCEPT ![s].pc = "reading"]
      <3> DEFINE x == [reader[s] EXCEPT !.pc = "reading"]
      <3>1. Forward /\ main'[s] = "wait"
        BY <1>0, <2>3, MainMoves DEF Goto
      <3>2. reader[s].pc = "none"
        BY <2>1 DEF BridgeInv, ReaderOK
      <3>3. x \in ReaderRecord /\ x.pc = "reading"
        BY <1>0 DEF ReaderRecord
      <3>4. reader' = [reader EXCEPT ![s] = x]
        BY <2>3
      <3> HIDE DEF x
      <3>5. ReaderSound(s, x)
        BY <3>3 DEF ReaderSound
      <3>6. ~Waiting(s)'
        BY <3>1 DEF Waiting
      <3>7. QED
        BY <2>1, <3>1, <3>2, <3>3, <3>4, <3>5, <3>6, ReaderMoves
    <2>4. QED
      BY <1>2, <2>2, <2>3 DEF AcpSpawn
  <1>3. CASE ChildReaped(s) \/ TimeoutChild(s) \/ CancelChild(s)
    <2>1. PICK result : EndWait(s, result)
      BY <1>3 DEF ChildReaped, TimeoutChild, CancelChild
    <2>2. Forward
      BY <1>0, <2>1, MainMoves DEF EndWait
    <2>3. QED
      BY <2>1, <2>2, QuietKeeps DEF EndWait, bridgeVars, Forward
  <1>4. CASE AcpUnregister(s)
    <2>1. Forward
      BY <1>0, <1>4, MainMoves DEF AcpUnregister, Goto
    <2>2. QED
      BY <1>4, <2>1, QuietKeeps DEF AcpUnregister, bridgeVars, Forward
  <1>5. CASE AcpJoin(s) \/ AcpJoinStderr(s)
    <2>1. \E l \in {"join_stderr", "done"} : main' = [main EXCEPT ![s] = l]
      BY <1>5 DEF AcpJoin, AcpJoinStderr, Goto, Return
    <2>2. Forward
      BY <1>0, <2>1, MainMoves
    <2>3. UNCHANGED <<row, answer, waiters, reader, resolver>>
      BY <1>5 DEF AcpJoin, AcpJoinStderr, bridgeVars
    <2>4. QED
      BY <2>2, <2>3, QuietKeeps DEF Forward
  <1>6. QED
    BY <1>1, <1>2, <1>3, <1>4, <1>5

LEMMA HttpKeeps ==
    ASSUME BridgeInv, NEW s \in Http,
           \/ HttpStart(s) \/ HttpCancelled(s) \/ HttpAnswers(s) \/ HttpUnregister(s)
           \/ HttpBody(s)
    PROVE  BridgeInv' /\ PromiseStep
  <1>1. s \in Session
    BY DEF Session
  <1>2. \E l \in {"done", "send", "sent", "body"} : main' = [main EXCEPT ![s] = l]
    BY DEF HttpStart, HttpCancelled, HttpAnswers, HttpUnregister, HttpBody, Return, Goto
  <1>3. Forward
    BY <1>1, <1>2, MainMoves DEF MainLabel
  <1>4. UNCHANGED <<row, answer, waiters, reader, resolver>>
    BY DEF HttpStart, HttpCancelled, HttpAnswers, HttpUnregister, HttpBody, bridgeVars
  <1>5. QED
    BY <1>3, <1>4, QuietKeeps DEF Forward

LEMMA ChildKeeps ==
    ASSUME BridgeInv, NEW s \in Session,
           \/ Cancel(s) \/ ChildExits(s) \/ \E f \in Frame : ChildWrites(s, f)
           \/ \E x \in Pipe : ClosePipe(s, x)
    PROVE  BridgeInv' /\ PromiseStep
  <1>1. UNCHANGED <<row, answer, waiters, reader, resolver>> /\ main' = main
    BY DEF Cancel, ChildExits, ChildWrites, ClosePipe, bridgeVars, mainVars
  <1>2. QED
    BY <1>1, MainStays, QuietKeeps DEF Forward

(* The daemon stops. *)
LEMMA CrashKeeps ==
    ASSUME BridgeInv, Crash
    PROVE  BridgeInv' /\ PromiseStep
  <1>1. /\ row' = row /\ answer' = answer /\ waiters' = {}
        /\ main' = [s \in Session |-> "gone"] /\ reader' = [s \in Acp |-> NoReader]
        /\ resolver' = [v \in Resolver |->
                         IF resolver[v].pc = "done" THEN resolver[v] ELSE NoCall]
    BY DEF Crash
  <1>2. NoReader \in ReaderRecord /\ NoCall \in CallRecord
    BY DEF NoReader, NoCall, ReaderRecord, CallRecord
  <1>3. BridgeTypeOK'
    <2>1. resolver' \in [Resolver -> CallRecord]
      BY <1>1, <1>2 DEF BridgeInv, BridgeTypeOK
    <2>2. reader' \in [Acp -> ReaderRecord] /\ main' \in [Session -> MainLabel]
      BY <1>1, <1>2 DEF MainLabel
    <2>3. QED
      BY <1>1, <2>1, <2>2 DEF BridgeInv, BridgeTypeOK
  <1>4. WaiterIsAwaited' /\ \A r \in Request : RowOK(r)'
    BY <1>1 DEF BridgeInv, WaiterIsAwaited, RowOK
  <1>5. ASSUME NEW s \in Acp PROVE ReaderOK(s)'
    BY <1>1 DEF ReaderOK, ReaderSound, NoReader
  <1>6. ASSUME NEW v \in Resolver PROVE CallSound(resolver[v])'
    <2>1. resolver'[v].pc \in {"done", "idle"}
      BY <1>1 DEF NoCall
    <2>2. QED
      BY <2>1 DEF CallSound
  <1>7. QED
    BY <1>1, <1>3, <1>4, <1>5, <1>6, SameRows DEF BridgeInv

-----------------------------------------------------------------------------
(* The readers. *)

LEMMA ReaderRuns ==
    ASSUME BridgeInv, NEW s \in Acp, reader[s].pc # "none", main' = main
    PROVE  Forward /\ ~Waiting(s)' /\ reader[s] \in ReaderRecord
  BY MainStays DEF BridgeInv, BridgeTypeOK, ReaderOK, Waiting

(* ReaderFails, as the record it leaves. *)
Failed(s) == [reader[s] EXCEPT !.pc = "ended", !.error = TRUE,
                               !.request = NoRequest, !.decision = "none"]

LEMMA FailedReader ==
    ASSUME BridgeInv, NEW s \in Acp
    PROVE  /\ Failed(s) \in ReaderRecord /\ ReaderSound(s, Failed(s))
           /\ ReaderFails(s) => reader' = [reader EXCEPT ![s] = Failed(s)]
  <1>1. reader[s] \in ReaderRecord
    BY DEF BridgeInv, BridgeTypeOK
  <1>2. Failed(s) \in ReaderRecord /\ Failed(s).pc = "ended"
    BY <1>1 DEF Failed, ReaderRecord
  <1>3. ReaderSound(s, Failed(s))
    BY <1>2 DEF ReaderSound
  <1>4. ReaderFails(s) => reader' = [reader EXCEPT ![s] = Failed(s)]
    BY DEF ReaderFails, Failed
  <1>5. QED
    BY <1>2, <1>3, <1>4

LEMMA FailKeeps ==
    ASSUME BridgeInv, NEW s \in Acp, reader[s].pc \notin {"none", "await"}, ReaderFails(s),
           UNCHANGED <<row, answer, waiters, resolver, main>>
    PROVE  BridgeInv' /\ PromiseStep
  <1>1. Forward /\ ~Waiting(s)'
    BY ReaderRuns
  <1>2. QED
    BY <1>1, FailedReader, ReaderMoves

LEMMA ReadKeeps ==
    ASSUME BridgeInv, NEW s \in Acp, ReadFrame(s) \/ EndOfStdout(s)
    PROVE  BridgeInv' /\ PromiseStep
  <1>0. /\ UNCHANGED <<row, answer, waiters, resolver>> /\ main' = main
        /\ reader[s].pc = "reading"
    BY DEF ReadFrame, EndOfStdout, bridgeVars, mainVars
  <1>1. Forward /\ ~Waiting(s)' /\ reader[s] \in ReaderRecord
    BY <1>0, ReaderRuns
  <1>2. CASE UNCHANGED reader
    BY <1>0, <1>1, <1>2, QuietKeeps DEF Forward
  <1>3. CASE ReaderFails(s)
    BY <1>0, <1>3, FailKeeps
  <1>4. ASSUME NEW f \in Request,
               reader' = [reader EXCEPT ![s].pc = "record", ![s].request = f]
        PROVE  BridgeInv' /\ PromiseStep
    <2> DEFINE x == [reader[s] EXCEPT !.pc = "record", !.request = f]
    <2>1. x \in ReaderRecord /\ x.pc = "record" /\ x.request = f
      BY <1>1 DEF ReaderRecord
    <2>2. reader' = [reader EXCEPT ![s] = x]
      BY <1>4
    <2> HIDE DEF x
    <2>3. ReaderSound(s, x)
      BY <2>1 DEF ReaderSound
    <2>4. QED
      BY <1>0, <1>1, <2>1, <2>2, <2>3, ReaderMoves
  <1>5. CASE EndOfStdout(s)
    <2> DEFINE x == [reader[s] EXCEPT !.pc = "ended"]
    <2>1. x \in ReaderRecord /\ x.pc = "ended"
      BY <1>1 DEF ReaderRecord
    <2>2. reader' = [reader EXCEPT ![s] = x]
      BY <1>5 DEF EndOfStdout, Reader
    <2> HIDE DEF x
    <2>3. ReaderSound(s, x)
      BY <2>1 DEF ReaderSound
    <2>4. QED
      BY <1>0, <1>1, <2>1, <2>2, <2>3, ReaderMoves
  <1>6. QED
    BY <1>2, <1>3, <1>4, <1>5 DEF ReadFrame

(* A first request of its id: the abstract Ask. *)
LEMMA RecordKeeps ==
    ASSUME BridgeInv, NEW s \in Acp, RecordPermissionRequest(s)
    PROVE  BridgeInv' /\ PromiseStep
  <1>r. PICK r \in Request : r = reader[s].request
    BY DEF RecordPermissionRequest, BridgeInv, ReaderOK, ReaderSound
  <1> DEFINE x == [reader[s] EXCEPT !.pc = "lookup"]
             p == [task |-> s, decision |-> "pending"]
  <1>0. /\ answer' = answer /\ waiters' = waiters /\ resolver' = resolver /\ main' = main
        /\ reader[s].pc = "record" /\ reader[s].request = r /\ reader[s] \in ReaderRecord
    BY <1>r DEF RecordPermissionRequest, mainVars, BridgeInv, BridgeTypeOK
  <1>1. CASE ReaderFails(s) /\ UNCHANGED row
    BY <1>0, <1>1, FailKeeps
  <1>2. CASE /\ row[r].decision = "absent" /\ row' = [row EXCEPT ![r] = p]
             /\ Reader(s, "lookup")
    <2>1. x \in ReaderRecord /\ x.pc = "lookup" /\ x.request = r
      BY <1>0 DEF ReaderRecord
    <2>2. reader' = [reader EXCEPT ![s] = x]
      BY <1>2 DEF Reader
    <2>3. p \in Row /\ p.task = s /\ p.decision = "pending"
      BY DEF Row, Session
    <2> HIDE DEF x, p
    <2>4. /\ row' \in [Request -> Row] /\ row'[r] = p
          /\ \A q \in Request \ {r} : row'[q] = row[q]
          /\ reader' \in [Acp -> ReaderRecord] /\ reader'[s] = x
          /\ \A u \in Acp \ {s} : reader'[u] = reader[u]
      BY <1>0, <1>2, <2>1, <2>2, <2>3 DEF BridgeInv, BridgeTypeOK
    <2>5. Forward /\ ~Waiting(s)'
      BY <1>0, ReaderRuns
    <2>6. BridgeTypeOK'
      BY <1>0, <2>4 DEF BridgeInv, BridgeTypeOK
    <2>7. answer[r] = "none"
      BY <1>0, <1>2 DEF BridgeInv, RowOK
    <2>8. \A q \in Request : RowOK(q)'
      BY <1>0, <2>3, <2>4, <2>7 DEF BridgeInv, RowOK
    <2>9. ASSUME NEW w \in waiters PROVE /\ reader'[w[1]].pc = "await"
                                         /\ reader'[w[1]].request = w[2]
                                         /\ row'[w[2]].task = w[1]
      <3>1. /\ w[1] \in Acp /\ w[2] \in Request /\ reader[w[1]].pc = "await"
            /\ reader[w[1]].request = w[2] /\ row[w[2]].task = w[1] /\ ReaderOK(w[1])
        BY DEF BridgeInv, BridgeTypeOK, WaiterIsAwaited
      <3>2. row[w[2]].decision # "absent" /\ w[1] # s
        BY <1>0, <3>1 DEF ReaderOK, ReaderSound
      <3>3. QED
        BY <1>2, <2>4, <3>1, <3>2
    <2>10. WaiterIsAwaited'
      BY <1>0, <2>9 DEF WaiterIsAwaited
    <2>11. ASSUME NEW u \in Acp PROVE ReaderOK(u)'
      <3>1. CASE u = s
        BY <1>0, <2>1, <2>3, <2>4, <2>5, <2>7, <3>1 DEF ReaderOK, ReaderSound
      <3>2. CASE u # s
        <4>1. ReaderOK(u) /\ reader'[u] = reader[u]
          BY <2>4, <3>2 DEF BridgeInv
        <4>2. ReaderSound(u, reader[u])'
          BY <1>0, <1>2, <2>4, <4>1 DEF ReaderOK, ReaderSound
        <4>3. QED
          BY <1>0, <4>1, <4>2 DEF ReaderOK, Waiting
      <3>3. QED
        BY <3>1, <3>2
    <2>12. ASSUME NEW v \in Resolver PROVE CallSound(resolver[v])'
      <3>1. CallSound(resolver[v])
        BY DEF BridgeInv
      <3>2. QED
        BY <1>0, <1>2, <2>4, <3>1 DEF CallSound
    <2>13. Promise!Ask(r)
      <3> DEFINE D == [q \in Request |-> row[q].decision]
                 E == [q \in Request |-> row'[q].decision]
      <3>1. D[r] = "absent" /\ E = [D EXCEPT ![r] = "pending"]
        BY <1>0, <1>2, <2>3, <2>4
      <3>2. QED
        BY <1>0, <3>1 DEF Promise!Ask
    <2>14. PromiseStep
      BY <2>13 DEF PromiseStep, Promise!Next
    <2>15. QED
      BY <2>6, <2>8, <2>10, <2>11, <2>12, <2>14 DEF BridgeInv
  <1>3. QED
    BY <1>0, <1>1, <1>2 DEF RecordPermissionRequest

LEMMA AwaitKeeps ==
    ASSUME BridgeInv, NEW s \in Acp, AwaitReadsRequest(s)
    PROVE  BridgeInv' /\ PromiseStep
  <1>1. PICK r \in Request : /\ r = reader[s].request /\ row[r].task = s
                             /\ row[r].decision # "absent" /\ answer[r] = "none"
    BY DEF AwaitReadsRequest, BridgeInv, ReaderOK, ReaderSound
  <1>0. /\ UNCHANGED <<row, answer, waiters, resolver>> /\ main' = main
        /\ reader[s].pc = "lookup" /\ reader[s].request = r /\ reader[s] \in ReaderRecord
    BY <1>1 DEF AwaitReadsRequest, bridgeVars, mainVars, BridgeInv, BridgeTypeOK
  <1>2. Forward /\ ~Waiting(s)'
    BY <1>0, ReaderRuns
  <1>3. CASE Reader(s, "register")
    <2> DEFINE x == [reader[s] EXCEPT !.pc = "register"]
    <2>1. x \in ReaderRecord /\ x.pc = "register" /\ x.request = r
      BY <1>0 DEF ReaderRecord
    <2>2. reader' = [reader EXCEPT ![s] = x]
      BY <1>3 DEF Reader
    <2> HIDE DEF x
    <2>3. ReaderSound(s, x)
      BY <1>1, <2>1 DEF ReaderSound
    <2>4. QED
      BY <1>0, <1>2, <2>1, <2>2, <2>3, ReaderMoves
  <1>4. ASSUME NEW d \in Decision, d = row[r].decision,
               reader' = [reader EXCEPT ![s].pc = "respond", ![s].decision = d]
        PROVE  BridgeInv' /\ PromiseStep
    <2> DEFINE x == [reader[s] EXCEPT !.pc = "respond", !.decision = d]
    <2>1. x \in ReaderRecord /\ x.pc = "respond" /\ x.request = r /\ x.decision = d
      BY <1>0 DEF ReaderRecord
    <2>2. reader' = [reader EXCEPT ![s] = x]
      BY <1>4
    <2> HIDE DEF x
    <2>3. ReaderSound(s, x)
      BY <1>1, <1>4, <2>1 DEF ReaderSound
    <2>4. QED
      BY <1>0, <1>2, <2>1, <2>2, <2>3, ReaderMoves
  <1>5. QED
    BY <1>0, <1>3, <1>4 DEF AwaitReadsRequest

(* The waiter is the reader's own. *)
LEMMA RegisterKeeps ==
    ASSUME BridgeInv, NEW s \in Acp, RegisterWaiter(s)
    PROVE  BridgeInv' /\ PromiseStep
  <1>1. PICK r \in Request : /\ r = reader[s].request /\ row[r].task = s
                             /\ row[r].decision # "absent" /\ answer[r] = "none"
    BY DEF RegisterWaiter, BridgeInv, ReaderOK, ReaderSound
  <1> DEFINE x == [reader[s] EXCEPT !.pc = "await"]
  <1>0. /\ row' = row /\ answer' = answer /\ resolver' = resolver /\ main' = main
        /\ waiters' = waiters \cup {<<s, r>>}
        /\ reader[s].pc = "register" /\ reader[s].request = r /\ reader[s] \in ReaderRecord
        /\ reader' = [reader EXCEPT ![s] = x]
    BY <1>1 DEF RegisterWaiter, Reader, mainVars, BridgeInv, BridgeTypeOK
  <1>2. x \in ReaderRecord /\ x.pc = "await" /\ x.request = r
    BY <1>0 DEF ReaderRecord
  <1> HIDE DEF x
  <1>3. /\ reader' \in [Acp -> ReaderRecord] /\ reader'[s] = x
        /\ \A u \in Acp \ {s} : reader'[u] = reader[u]
    BY <1>0, <1>2 DEF BridgeInv, BridgeTypeOK
  <1>4. BridgeTypeOK'
    BY <1>0, <1>3 DEF BridgeInv, BridgeTypeOK
  <1>5. ASSUME NEW w \in waiters' PROVE /\ reader'[w[1]].pc = "await"
                                        /\ reader'[w[1]].request = w[2]
                                        /\ row'[w[2]].task = w[1]
    <2>1. CASE w = <<s, r>>
      BY <1>0, <1>1, <1>2, <1>3, <2>1
    <2>2. CASE w \in waiters
      BY <1>0, <1>3, <2>2 DEF BridgeInv, BridgeTypeOK, WaiterIsAwaited
    <2>3. QED
      BY <1>0, <2>1, <2>2
  <1>6. WaiterIsAwaited'
    BY <1>5 DEF WaiterIsAwaited
  <1>7. (\A q \in Request : RowOK(q)') /\ (\A v \in Resolver : CallSound(resolver[v])')
    BY <1>0 DEF BridgeInv, RowOK, CallSound
  <1>8. Forward /\ ~Waiting(s)'
    BY <1>0, ReaderRuns
  <1>9. ASSUME NEW u \in Acp PROVE ReaderOK(u)'
    <2>1. CASE u = s
      BY <1>0, <1>1, <1>2, <1>3, <1>8, <2>1 DEF ReaderOK, ReaderSound
    <2>2. CASE u # s
      BY <1>0, <1>3, <2>2 DEF BridgeInv, ReaderOK, ReaderSound, Waiting
    <2>3. QED
      BY <2>1, <2>2
  <1>10. QED
    BY <1>0, <1>4, <1>6, <1>7, <1>9, SameRows DEF BridgeInv

(* The provider is told the stored decision, for the first time: Answer. *)
LEMMA RespondKeeps ==
    ASSUME BridgeInv, NEW s \in Acp, WriteResponse(s)
    PROVE  BridgeInv' /\ PromiseStep
  <1>1. PICK r \in Request : /\ r = reader[s].request /\ row[r].task = s
                             /\ row[r].decision \in Decision /\ answer[r] = "none"
                             /\ row[r].decision = reader[s].decision
    BY DEF WriteResponse, BridgeInv, ReaderOK, ReaderSound
  <1>0. /\ row' = row /\ waiters' = waiters /\ resolver' = resolver /\ main' = main
        /\ reader[s].pc = "respond" /\ reader[s].request = r /\ reader[s] \in ReaderRecord
    BY <1>1 DEF WriteResponse, mainVars, BridgeInv, BridgeTypeOK
  <1>2. CASE ReaderFails(s) /\ UNCHANGED answer
    BY <1>0, <1>2, FailKeeps
  <1>3. CASE /\ answer' = [answer EXCEPT ![r] = reader[s].decision]
             /\ reader' = [reader EXCEPT ![s].pc = "reading", ![s].request = NoRequest,
                                         ![s].decision = "none"]
    <2> DEFINE x == [reader[s] EXCEPT !.pc = "reading", !.request = NoRequest,
                                      !.decision = "none"]
    <2>1. x \in ReaderRecord /\ x.pc = "reading"
      BY <1>0 DEF ReaderRecord
    <2>2. reader' = [reader EXCEPT ![s] = x]
      BY <1>3
    <2> HIDE DEF x
    <2>3. /\ reader' \in [Acp -> ReaderRecord] /\ reader'[s] = x
          /\ \A u \in Acp \ {s} : reader'[u] = reader[u]
          /\ answer' \in [Request -> Decision \cup {"none"}]
          /\ answer'[r] = row[r].decision
          /\ \A q \in Request \ {r} : answer'[q] = answer[q]
      <3>1. /\ reader' \in [Acp -> ReaderRecord] /\ reader'[s] = x
            /\ \A u \in Acp \ {s} : reader'[u] = reader[u]
        BY <2>1, <2>2 DEF BridgeInv, BridgeTypeOK
      <3>2. answer' = [answer EXCEPT ![r] = row[r].decision]
        BY <1>1, <1>3
      <3>3. /\ answer' \in [Request -> Decision \cup {"none"}]
            /\ answer'[r] = row[r].decision
            /\ \A q \in Request \ {r} : answer'[q] = answer[q]
        BY <1>1, <3>2 DEF BridgeInv, BridgeTypeOK
      <3>4. QED
        BY <3>1, <3>3
    <2>4. BridgeTypeOK'
      BY <1>0, <2>3 DEF BridgeInv, BridgeTypeOK
    <2>5. WaiterIsAwaited'
      BY <1>0, <2>3 DEF BridgeInv, BridgeTypeOK, WaiterIsAwaited
    <2>6. \A q \in Request : RowOK(q)'
      BY <1>0, <1>1, <2>3 DEF BridgeInv, RowOK, Decision
    <2>7. \A v \in Resolver : CallSound(resolver[v])'
      BY <1>0 DEF BridgeInv, CallSound
    <2>8. Forward /\ ~Waiting(s)'
      BY <1>0, ReaderRuns
    <2>9. ASSUME NEW u \in Acp PROVE ReaderOK(u)'
      <3>1. CASE u = s
        BY <2>1, <2>3, <2>8, <3>1 DEF ReaderOK, ReaderSound
      <3>2. CASE u # s
        <4>1. ReaderOK(u) /\ reader'[u] = reader[u]
          BY <2>3, <3>2 DEF BridgeInv
        <4>2. ReaderSound(u, reader[u])'
          BY <1>0, <1>1, <2>3, <3>2, <4>1 DEF ReaderOK, ReaderSound
        <4>3. QED
          BY <1>0, <4>1, <4>2 DEF ReaderOK, Waiting
      <3>3. QED
        BY <3>1, <3>2
    <2>10. Promise!Answer(r)
      <3> DEFINE D == [q \in Request |-> row[q].decision]
                 E == [q \in Request |-> row'[q].decision]
      <3>1. D[r] \in Decision /\ E = D /\ answer' = [answer EXCEPT ![r] = D[r]]
        BY <1>0, <1>1, <1>3
      <3>2. QED
        BY <1>1, <3>1 DEF Promise!Answer, Promise!Decision, Decision
    <2>11. PromiseStep
      BY <2>10 DEF PromiseStep, Promise!Next
    <2>12. QED
      BY <2>4, <2>5, <2>6, <2>7, <2>9, <2>11 DEF BridgeInv
  <1>4. QED
    BY <1>0, <1>2, <1>3 DEF WriteResponse

-----------------------------------------------------------------------------
(* The responses. *)

LEMMA LookUpKeeps ==
    ASSUME BridgeInv, NEW v \in Resolver,
           CheckWaiter(v) \/ \E s \in Acp, r \in Request, d \in Decision : ReadRequest(v, s, r, d)
    PROVE  BridgeInv' /\ PromiseStep
  <1>1. CASE CheckWaiter(v)
    <2>1. /\ UNCHANGED <<row, answer, waiters, reader, main>> /\ resolver[v].pc = "has_waiter"
          /\ resolver[v] \in CallRecord /\ CallSound(resolver[v])
      BY <1>1 DEF CheckWaiter, bridgeVars, mainVars, BridgeInv, BridgeTypeOK
    <2>2. CASE EndCall(v, "not_supported")
      <3> DEFINE x == [resolver[v] EXCEPT !.pc = "done", !.result = "not_supported"]
      <3>1. x \in CallRecord /\ x.pc = "done"
        BY <2>1 DEF CallRecord
      <3>2. resolver' = [resolver EXCEPT ![v] = x]
        BY <2>2 DEF EndCall
      <3> HIDE DEF x
      <3>3. CallSound(x)
        BY <3>1 DEF CallSound
      <3>4. QED
        BY <2>1, <3>1, <3>2, <3>3, CallMoves
    <2>3. CASE ResolverGoto(v, "resolve")
      <3> DEFINE x == [resolver[v] EXCEPT !.pc = "resolve"]
      <3>1. /\ x \in CallRecord /\ x.pc = "resolve" /\ x.request = resolver[v].request
            /\ x.task = resolver[v].task /\ x.decision = resolver[v].decision
        BY <2>1 DEF CallRecord
      <3>2. resolver' = [resolver EXCEPT ![v] = x]
        BY <2>3 DEF ResolverGoto
      <3> HIDE DEF x
      <3>3. CallSound(x)
        BY <2>1, <3>1 DEF CallSound
      <3>4. QED
        BY <2>1, <3>1, <3>2, <3>3, CallMoves
    <2>4. QED
      BY <1>1, <2>2, <2>3 DEF CheckWaiter
  <1>2. ASSUME NEW s \in Acp, NEW r \in Request, NEW d \in Decision, ReadRequest(v, s, r, d)
        PROVE  BridgeInv' /\ PromiseStep
    <2> DEFINE call == [pc |-> "has_waiter", request |-> r, task |-> s, decision |-> d,
                        result |-> "none"]
               lost == [call EXCEPT !.pc = "done", !.result = "not_found"]
               late == [call EXCEPT !.pc = "resolve"]
               x == IF row[r].task # s THEN lost
                    ELSE IF row[r].decision = "pending" THEN call ELSE late
    <2>1. /\ UNCHANGED <<row, answer, waiters, reader, main>>
          /\ resolver' = [resolver EXCEPT ![v] = x]
      BY <1>2 DEF ReadRequest, bridgeVars, mainVars
    <2>2. call \in CallRecord /\ lost \in CallRecord /\ late \in CallRecord /\ lost.pc = "done"
      BY DEF CallRecord, Session
    <2>3. /\ call.request = r /\ call.task = s /\ call.decision = d /\ call.pc = "has_waiter"
          /\ late.request = r /\ late.task = s /\ late.decision = d /\ late.pc = "resolve"
      OBVIOUS
    <2>4. ASSUME row[r].task = s PROVE row[r].decision # "absent"
      BY <2>4, SessionAssumption DEF BridgeInv, RowOK, Session
    <2> HIDE DEF call, lost, late
    <2>5. x \in CallRecord
      BY <2>2
    <2>6. CallSound(x)
      BY <2>2, <2>3, <2>4 DEF CallSound
    <2> HIDE DEF x
    <2>7. QED
      BY <2>1, <2>5, <2>6, CallMoves
  <1>3. QED
    BY <1>1, <1>2

(* A first decision is the abstract Decide; the same one again changes nothing. *)
LEMMA ResolveKeeps ==
    ASSUME BridgeInv, NEW v \in Resolver, ResolvePermissionRequest(v)
    PROVE  BridgeInv' /\ PromiseStep
  <1>1. PICK r \in Request : r = resolver[v].request
    BY DEF ResolvePermissionRequest, BridgeInv, CallSound
  <1>2. PICK d \in Decision : d = resolver[v].decision
    BY DEF ResolvePermissionRequest, BridgeInv, CallSound
  <1> DEFINE x == [resolver[v] EXCEPT !.pc = "notify"]
  <1>0. /\ answer' = answer /\ waiters' = waiters /\ reader' = reader /\ main' = main
        /\ resolver[v].pc = "resolve" /\ resolver[v] \in CallRecord
        /\ resolver[v].request = r /\ resolver[v].decision = d /\ resolver[v].task \in Acp
        /\ row[r].task = resolver[v].task /\ row[r].decision # "absent"
    BY <1>1, <1>2 DEF ResolvePermissionRequest, mainVars, BridgeInv, BridgeTypeOK, CallSound
  <1>3. /\ x \in CallRecord /\ x.pc = "notify" /\ x.request = r
        /\ x.task = resolver[v].task /\ x.decision = d
    BY <1>0 DEF CallRecord
  <1>4. ResolverGoto(v, "notify") => resolver' = [resolver EXCEPT ![v] = x]
    BY DEF ResolverGoto
  <1> HIDE DEF x
  <1>5. CASE EndCall(v, "already_resolved") /\ UNCHANGED row
    <2> DEFINE y == [resolver[v] EXCEPT !.pc = "done", !.result = "already_resolved"]
    <2>1. y \in CallRecord /\ y.pc = "done"
      BY <1>0 DEF CallRecord
    <2>2. resolver' = [resolver EXCEPT ![v] = y]
      BY <1>5 DEF EndCall
    <2> HIDE DEF y
    <2>3. CallSound(y)
      BY <2>1 DEF CallSound
    <2>4. QED
      BY <1>0, <1>5, <2>1, <2>2, <2>3, CallMoves
  <1>6. CASE row[r].decision = d /\ ResolverGoto(v, "notify") /\ UNCHANGED row
    <2>1. CallSound(x)
      BY <1>0, <1>3, <1>6 DEF CallSound
    <2>2. QED
      BY <1>0, <1>3, <1>4, <1>6, <2>1, CallMoves
  <1>7. CASE /\ row[r].decision = "pending" /\ row' = [row EXCEPT ![r].decision = d]
             /\ ResolverGoto(v, "notify")
    <2> DEFINE p == [row[r] EXCEPT !.decision = d]
    <2>1. p \in Row /\ p.task = row[r].task /\ p.decision = d
      BY DEF Row, BridgeInv, BridgeTypeOK
    <2>2. row' = [row EXCEPT ![r] = p]
      BY <1>7
    <2> HIDE DEF p
    <2>3. /\ row' \in [Request -> Row] /\ row'[r] = p
          /\ \A q \in Request \ {r} : row'[q] = row[q]
      BY <2>1, <2>2 DEF BridgeInv, BridgeTypeOK
    <2>4. /\ resolver' \in [Resolver -> CallRecord] /\ resolver'[v] = x
          /\ \A u \in Resolver \ {v} : resolver'[u] = resolver[u]
      BY <1>3, <1>4, <1>7 DEF BridgeInv, BridgeTypeOK
    <2>5. BridgeTypeOK'
      BY <1>0, <2>3, <2>4 DEF BridgeInv, BridgeTypeOK
    <2>6. \A q \in Request : row'[q].task = row[q].task
      BY <2>1, <2>3
    <2>7. WaiterIsAwaited'
      BY <1>0, <2>6 DEF BridgeInv, BridgeTypeOK, WaiterIsAwaited
    <2>8. \A q \in Request : RowOK(q)'
      BY <1>0, <2>1, <2>3 DEF BridgeInv, RowOK, Decision
    <2>9. ASSUME NEW u \in Acp PROVE ReaderOK(u)'
      <3>1. ReaderOK(u)
        BY DEF BridgeInv
      <3>2. ReaderSound(u, reader[u])'
        BY <1>0, <1>7, <2>1, <2>3, <3>1 DEF ReaderOK, ReaderSound, Decision
      <3>3. QED
        BY <1>0, <3>1, <3>2 DEF ReaderOK, Waiting
    <2>10. ASSUME NEW u \in Resolver PROVE CallSound(resolver[u])'
      <3>1. CASE u = v
        BY <1>0, <1>3, <2>1, <2>3, <2>4, <3>1 DEF CallSound, Decision
      <3>2. CASE u # v
        <4>1. CallSound(resolver[u]) /\ resolver'[u] = resolver[u]
          BY <2>4, <3>2 DEF BridgeInv
        <4>2. QED
          BY <1>7, <2>1, <2>3, <4>1 DEF CallSound, Decision
      <3>3. QED
        BY <3>1, <3>2
    <2>11. Promise!Decide(r, d)
      <3> DEFINE D == [q \in Request |-> row[q].decision]
                 E == [q \in Request |-> row'[q].decision]
      <3>a. \A q \in Request : row'[q].decision = IF q = r THEN d ELSE row[q].decision
        BY <2>1, <2>3
      <3>1. D[r] = "pending" /\ E = [D EXCEPT ![r] = d]
        BY <1>7, <3>a
      <3>2. QED
        BY <1>0, <3>1 DEF Promise!Decide
    <2>12. PromiseStep
      BY <2>11 DEF PromiseStep, Promise!Next, Promise!Decision, Decision
    <2>13. QED
      BY <2>5, <2>7, <2>8, <2>9, <2>10, <2>12 DEF BridgeInv
  <1>8. QED
    BY <1>0, <1>5, <1>6, <1>7 DEF ResolvePermissionRequest

(* The waiter that is woken is the reader that asked. *)
LEMMA NotifyKeeps ==
    ASSUME BridgeInv, NEW v \in Resolver, NotifyPermissionResolution(v)
    PROVE  BridgeInv' /\ PromiseStep
  <1>1. PICK r \in Request : r = resolver[v].request
    BY DEF NotifyPermissionResolution, BridgeInv, CallSound
  <1>2. PICK s \in Acp : s = resolver[v].task
    BY DEF NotifyPermissionResolution, BridgeInv, CallSound
  <1>3. PICK d \in Decision : d = resolver[v].decision
    BY DEF NotifyPermissionResolution, BridgeInv, CallSound
  <1> DEFINE y == [resolver[v] EXCEPT !.pc = "done", !.result = "resolved"]
  <1>0. /\ row' = row /\ answer' = answer /\ main' = main
        /\ waiters' = waiters \ {<<s, r>>} /\ resolver' = [resolver EXCEPT ![v] = y]
        /\ resolver[v] \in CallRecord /\ row[r].decision = d /\ row[r].task = s
    BY <1>1, <1>2, <1>3 DEF NotifyPermissionResolution, EndCall, mainVars, BridgeInv,
                            BridgeTypeOK, CallSound
  <1>4. y \in CallRecord /\ y.pc = "done"
    BY <1>0 DEF CallRecord
  <1> HIDE DEF y
  <1>5. /\ resolver' \in [Resolver -> CallRecord] /\ resolver'[v] = y
        /\ \A u \in Resolver \ {v} : resolver'[u] = resolver[u]
    BY <1>0, <1>4 DEF BridgeInv, BridgeTypeOK
  <1>6. \A u \in Resolver : CallSound(resolver[u])'
    BY <1>0, <1>4, <1>5 DEF BridgeInv, CallSound
  <1>7. \A q \in Request : RowOK(q)'
    BY <1>0 DEF BridgeInv, RowOK
  <1>8. CASE UNCHANGED reader
    <2>1. BridgeTypeOK' /\ WaiterIsAwaited'
      BY <1>0, <1>5, <1>8 DEF BridgeInv, BridgeTypeOK, WaiterIsAwaited
    <2>2. \A u \in Acp : ReaderOK(u)'
      BY <1>0, <1>8 DEF BridgeInv, ReaderOK, ReaderSound, Waiting
    <2>3. QED
      BY <1>0, <1>6, <1>7, <2>1, <2>2, SameRows DEF BridgeInv
  <1>9. CASE /\ <<s, r>> \in waiters
             /\ reader' = [reader EXCEPT ![s].pc = "respond", ![s].decision = d]
    <2> DEFINE x == [reader[s] EXCEPT !.pc = "respond", !.decision = d]
    <2>1. /\ reader[s] \in ReaderRecord /\ reader[s].pc = "await" /\ reader[s].request = r
          /\ ReaderOK(s)
      BY <1>9 DEF BridgeInv, BridgeTypeOK, WaiterIsAwaited
    <2>2. x \in ReaderRecord /\ x.pc = "respond" /\ x.request = r /\ x.decision = d
      BY <2>1 DEF ReaderRecord
    <2>3. reader' = [reader EXCEPT ![s] = x]
      BY <1>9
    <2> HIDE DEF x
    <2>4. /\ reader' \in [Acp -> ReaderRecord] /\ reader'[s] = x
          /\ \A u \in Acp \ {s} : reader'[u] = reader[u]
      BY <2>2, <2>3 DEF BridgeInv, BridgeTypeOK
    <2>5. BridgeTypeOK'
      BY <1>0, <1>5, <2>4 DEF BridgeInv, BridgeTypeOK
    <2>6. ASSUME NEW w \in waiters' PROVE /\ reader'[w[1]].pc = "await"
                                          /\ reader'[w[1]].request = w[2]
                                          /\ row'[w[2]].task = w[1]
      <3>1. /\ w \in Acp \X Request /\ w # <<s, r>> /\ reader[w[1]].pc = "await"
            /\ reader[w[1]].request = w[2] /\ row[w[2]].task = w[1]
        BY <1>0 DEF BridgeInv, BridgeTypeOK, WaiterIsAwaited
      <3>2. w[1] # s
        BY <2>1, <3>1
      <3>3. QED
        BY <1>0, <2>4, <3>1, <3>2
    <2>7. WaiterIsAwaited'
      BY <2>6 DEF WaiterIsAwaited
    <2>8. ASSUME NEW u \in Acp PROVE ReaderOK(u)'
      <3>1. CASE u = s
        <4>1. ReaderSound(s, reader[s])'
          BY <1>0, <2>1, <2>2, <2>4 DEF ReaderOK, ReaderSound
        <4>2. ~Waiting(s)'
          BY <1>0, <2>1 DEF ReaderOK, Waiting
        <4>3. QED
          BY <3>1, <4>1, <4>2 DEF ReaderOK
      <3>2. CASE u # s
        BY <1>0, <2>4, <3>2 DEF BridgeInv, ReaderOK, ReaderSound, Waiting
      <3>3. QED
        BY <3>1, <3>2
    <2>9. QED
      BY <1>0, <1>6, <1>7, <2>5, <2>7, <2>8, SameRows DEF BridgeInv
  <1>10. QED
    BY <1>1, <1>2, <1>3, <1>8, <1>9 DEF NotifyPermissionResolution, NoWaiter

-----------------------------------------------------------------------------
(* Theorems. *)

LEMMA InitBridge == Init => BridgeInv /\ Promise!Init
  <1> SUFFICES ASSUME Init PROVE BridgeInv /\ Promise!Init
    OBVIOUS
  <1>1. NoReader \in ReaderRecord /\ NoCall \in CallRecord
    BY DEF NoReader, NoCall, ReaderRecord, CallRecord
  <1>2. [task |-> NoSession, decision |-> "absent"] \in Row
    BY DEF Row
  <1>3. /\ reader \in [Acp -> ReaderRecord] /\ resolver \in [Resolver -> CallRecord]
        /\ row \in [Request -> Row]
    BY <1>1, <1>2 DEF Init
  <1>4. BridgeTypeOK
    BY <1>3 DEF BridgeTypeOK, Init, MainLabel
  <1>5. WaiterIsAwaited /\ \A r \in Request : RowOK(r)
    BY DEF Init, WaiterIsAwaited, RowOK
  <1>6. \A s \in Acp : ReaderOK(s)
    BY DEF Init, ReaderOK, ReaderSound, NoReader
  <1>7. \A v \in Resolver : CallSound(resolver[v])
    BY DEF Init, CallSound, NoCall
  <1>8. Promise!Init
    BY DEF Init, Promise!Init
  <1>9. QED
    BY <1>4, <1>5, <1>6, <1>7, <1>8 DEF BridgeInv

LEMMA NextBridge ==
    ASSUME BridgeInv, [Next]_vars
    PROVE  BridgeInv' /\ PromiseStep
  <1>1. ASSUME NEW s \in Session, MainStep(s) \/ Cancel(s)
        PROVE  BridgeInv' /\ PromiseStep
    BY <1>1, AcpMainKeeps, HttpKeeps, ChildKeeps DEF MainStep
  <1>2. ASSUME NEW s \in Acp, \/ AcpStart(s) \/ ReaderStep(s) \/ ChildExits(s)
                              \/ \E f \in Frame : ChildWrites(s, f)
                              \/ \E x \in Pipe : ClosePipe(s, x)
        PROVE  BridgeInv' /\ PromiseStep
    <2>1. CASE AcpStart(s)
      BY <2>1, AcpMainKeeps
    <2>2. CASE ReaderStep(s)
      BY <2>2, ReadKeeps, RecordKeeps, AwaitKeeps, RegisterKeeps, RespondKeeps DEF ReaderStep
    <2>3. CASE \/ ChildExits(s) \/ \E f \in Frame : ChildWrites(s, f)
               \/ \E x \in Pipe : ClosePipe(s, x)
      BY <2>3, ChildKeeps DEF Session
    <2>4. QED
      BY <1>2, <2>1, <2>2, <2>3
  <1>3. ASSUME NEW s \in Http, HttpStart(s) \/ HttpAnswers(s) \/ HttpBody(s)
        PROVE  BridgeInv' /\ PromiseStep
    BY <1>3, HttpKeeps
  <1>4. ASSUME NEW v \in Resolver,
               \/ ResolverStep(v)
               \/ \E s \in Acp, r \in Request, d \in Decision : ReadRequest(v, s, r, d)
        PROVE  BridgeInv' /\ PromiseStep
    BY <1>4, LookUpKeeps, ResolveKeeps, NotifyKeeps DEF ResolverStep
  <1>5. CASE Crash
    BY <1>5, CrashKeeps
  <1>6. CASE UNCHANGED vars
    <2>1. UNCHANGED <<row, answer, waiters, reader, resolver>> /\ main' = main
      BY <1>6 DEF vars
    <2>2. QED
      BY <2>1, MainStays, QuietKeeps DEF Forward
  <1>7. QED
    BY <1>1, <1>2, <1>3, <1>4, <1>5, <1>6 DEF Next

(* A waiter belongs to a reader that waits for that very request, which its own
   session made, over any number of sessions, reused ids, responses and crashes
   (await_permission_decision, notify_permission_resolution). *)
THEOREM WaitersAreAwaited == Spec => []WaiterIsAwaited
  <1>1. BridgeInv => WaiterIsAwaited
    BY DEF BridgeInv
  <1>2. QED
    BY <1>1, InitBridge, NextBridge, PTL DEF Spec

(* The permission bridge implements PermissionPromise: one decision per request,
   for good, and the provider hears that one, once, or none
   (record_permission_request, resolve_permission_response and the response
   handle_stdout writes). *)
THEOREM BridgeKeepsPromise == Spec => PromiseKept
  <1>1. Init => BridgeInv /\ Promise!Init
    BY InitBridge
  <1>2. BridgeInv /\ [Next]_vars => BridgeInv' /\ [Promise!Next]_(Promise!promiseVars)
    BY NextBridge DEF PromiseStep
  <1>3. QED
    BY <1>1, <1>2, PTL DEF Spec, PromiseKept, Promise!Spec

=============================================================================
