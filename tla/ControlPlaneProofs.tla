------------------------- MODULE ControlPlaneProofs -------------------------
(***************************************************************************)
(* The control plane client keeps one local task per remote id, reports a  *)
(* task's life in order, presents a stable identity and says online only   *)
(* while it may: for any number of remote tasks, daemon ids, broken links  *)
(* and restarts, and for every capacity of the event bus.                  *)
(***************************************************************************)
EXTENDS ControlPlane, TLAPS

DaemonRow == [daemon : Daemon, heartbeat : Nat]

(* The first row is the one that was asked with, and its heartbeat is at most
   Skew ahead of the last contact. *)
DaemonInv ==
    /\ DaemonTypeOK
    /\ asked \in Daemon => rows # <<>> /\ rows[1].daemon = asked
    /\ contact <= now
    /\ rows # <<>> => rows[1].heartbeat <= contact + Skew
    /\ OnlineIsFresh

(* What a step may do to the daemon's state. *)
DaemonStep ==
    \/ UNCHANGED daemonVars
    \/ Tick \/ SendHeartbeat \/ MarkHeartbeat
    \/ \E d \in Daemon : \E told \in BOOLEAN : Accept(d, told)
    \/ BuildRegistrationRequest /\ UNCHANGED <<now, rows, contact, reported>>

LEMMA FrameTypes ==
    ASSUME NEW f \in Frame
    PROVE  /\ f.kind = "accepted" => f.daemon \in Daemon
           /\ f.kind \in {"task_dispatch", "task_cancel"} => f.remote \in Remote
  BY DEF Frame

LEMMA AppendTypes ==
    ASSUME NEW S, NEW s \in Seq(S), NEW x \in S
    PROVE  Append(s, x) \in Seq(S)
  OBVIOUS

LEMMA HeadIsAFrame ==
    ASSUME inbound \in Seq(Frame), inbound # <<>>
    PROVE  Head(inbound) \in Frame /\ Tail(inbound) \in Seq(Frame)
  OBVIOUS

LEMMA StepsOfDaemon ==
    ASSUME inbound \in Seq(Frame), [Next]_vars
    PROVE  DaemonStep
  <1> USE DEF DaemonStep
  <1>1. CASE Connect \/ Subscribe \/ LinkLost \/ HandleClose \/ HandleEvent \/ Lag
    BY <1>1 DEF Connect, Subscribe, LinkLost, HandleClose, HandleEvent, Lag
  <1>2. CASE Register
    BY <1>2 DEF Register
  <1>3. CASE Heartbeat
    BY <1>3 DEF Heartbeat
  <1>4. CASE HandleFrame
    <2> DEFINE f == Head(inbound)
    <2>1. f \in Frame
      BY <1>4, HeadIsAFrame DEF HandleFrame
    <2>2. CASE f.kind = "accepted" /\ (Accept(f.daemon, TRUE) \/ Accept(f.daemon, FALSE))
      BY <2>1, <2>2, FrameTypes
    <2>3. CASE MarkHeartbeat \/ UNCHANGED daemonVars
      BY <2>3
    <2>4. QED
      BY <1>4, <2>2, <2>3 DEF HandleFrame
  <1>5. CASE \E g \in Frame : PlaneSends(g)
    BY <1>5 DEF PlaneSends
  <1>6. CASE \E m \in Mover, r \in Remote :
                \E next \in {"waiting", "preparing", "running"} \cup Outcomes : TaskMoves(m, r, next)
    BY <1>6 DEF TaskMoves
  <1>7. CASE \E m \in Caller : CommitMove(m) \/ PublishMove(m)
    BY <1>7 DEF CommitMove, PublishMove
  <1>8. CASE LinkBreaks \/ Restart
    BY <1>8 DEF LinkBreaks, Restart
  <1>9. CASE PassTime
    BY <1>9 DEF PassTime
  <1>10. CASE UNCHANGED vars
    BY <1>10 DEF vars
  <1>11. QED
    BY <1>1, <1>2, <1>3, <1>4, <1>5, <1>6, <1>7, <1>8, <1>9, <1>10 DEF Next, ClientStep

(* save_registration keeps the first row's identity. *)
LEMMA SaveKeepsFirst ==
    ASSUME rows \in Seq(DaemonRow), NEW record \in DaemonRow, SaveRegistration(record)
    PROVE  /\ rows' \in Seq(DaemonRow) /\ rows' # <<>>
           /\ rows # <<>> => rows'[1].daemon = rows[1].daemon
           /\ rows'[1] = record \/ (rows # <<>> /\ rows'[1] = rows[1])
  <1>1. CASE RowOf(record.daemon) = {}
    <2>1. rows' = Append(rows, record)
      BY <1>1 DEF SaveRegistration
    <2>2. QED
      BY <2>1
  <1>2. CASE RowOf(record.daemon) # {}
    <2>0. DOMAIN rows = 1..Len(rows)
      OBVIOUS
    <2>1. rows' = [i \in 1..Len(rows) |-> IF i \in RowOf(record.daemon) THEN record ELSE rows[i]]
      BY <1>2, <2>0, Zenon DEF SaveRegistration
    <2>2. rows # <<>> /\ Len(rows) \in Nat /\ 1 \in 1..Len(rows)
      BY <1>2 DEF RowOf
    <2>3. \A i \in 1..Len(rows) : rows'[i] \in DaemonRow
      BY <2>1
    <2>4. rows' \in Seq(DaemonRow) /\ Len(rows') = Len(rows)
      BY <2>1, <2>2, <2>3
    <2>5. 1 \in RowOf(record.daemon) => rows[1].daemon = record.daemon
      BY DEF RowOf
    <2>6. QED
      BY <2>1, <2>2, <2>4, <2>5
  <1>3. QED
    BY <1>1, <1>2

LEMMA DaemonTypes ==
    DaemonTypeOK => /\ now \in Nat /\ contact \in Nat /\ rows \in Seq(DaemonRow)
                    /\ reported.at \in Nat /\ reported.contact \in Nat
                    /\ Threshold \in Nat /\ Skew \in Nat /\ MaxTime \in Nat
  BY RegistrationAssumption DEF DaemonTypeOK, DaemonRow

LEMMA FirstRow ==
    ASSUME rows \in Seq(DaemonRow), rows # <<>>
    PROVE  rows[1] \in DaemonRow /\ rows[1].daemon \in Daemon /\ rows[1].heartbeat \in Nat
  <1>1. rows[1] \in DaemonRow
    OBVIOUS
  <1>2. QED
    BY <1>1 DEF DaemonRow

LEMMA InitDaemon == Init => DaemonInv
  BY RegistrationAssumption
     DEF Init, DaemonInit, DaemonInv, DaemonTypeOK, OnlineIsFresh, ConnectionStatus

LEMMA NextDaemon ==
    ASSUME DaemonInv, DaemonStep
    PROVE  DaemonInv' /\ (asked \in Daemon => asked' = asked)
  <1>0. /\ now \in Nat /\ contact \in Nat /\ rows \in Seq(DaemonRow)
        /\ reported.at \in Nat /\ reported.contact \in Nat
        /\ Threshold \in Nat /\ Skew \in Nat /\ MaxTime \in Nat
    BY DaemonTypes DEF DaemonInv
  <1>1. CASE UNCHANGED daemonVars
    BY <1>1 DEF daemonVars, DaemonInv, DaemonTypeOK, OnlineIsFresh
  <1>2. CASE Tick
    BY <1>0, <1>2 DEF Tick, DaemonInv, DaemonTypeOK, OnlineIsFresh
  <1>3. CASE BuildRegistrationRequest /\ UNCHANGED <<now, rows, contact, reported>>
    BY <1>0, <1>3, FirstRow
       DEF BuildRegistrationRequest, GetCurrent, DaemonInv, DaemonTypeOK, OnlineIsFresh, NoDaemon
  <1>4. CASE SendHeartbeat
    <2>1. asked' \in Daemon \cup {NoDaemon} /\ (asked \in Daemon => asked' = asked)
          /\ (asked' \in Daemon => rows' # <<>> /\ rows'[1].daemon = asked')
      BY <1>0, <1>4, FirstRow, RegistrationAssumption
         DEF SendHeartbeat, BuildRegistrationRequest, GetCurrent, DaemonInv, DaemonTypeOK
    <2>2. UNCHANGED <<now, rows, contact>>
      BY <1>4 DEF SendHeartbeat
    <2>3. /\ reported'.at = now /\ reported'.contact = contact
          /\ reported'.status = IF rows = <<>> THEN "connecting" ELSE Evaluate(GetCurrent.heartbeat)
      BY <1>4 DEF SendHeartbeat
    <2>4. reported' \in [status : ConnectionStatus \cup {"none"}, at : 0..MaxTime,
                         contact : 0..MaxTime]
      BY <1>4 DEF SendHeartbeat, Evaluate, ConnectionStatus, DaemonInv, DaemonTypeOK
    <2>5. OnlineIsFresh'
      <3> SUFFICES ASSUME reported'.status = "online"
                   PROVE  now - contact < Threshold + Skew
        BY <2>3 DEF OnlineIsFresh
      <3>1. rows # <<>> /\ Evaluate(rows[1].heartbeat) = "online"
        BY <2>3 DEF GetCurrent
      <3>2. rows[1].heartbeat \in Nat
        BY <1>0, <3>1, FirstRow
      <3>3. now - rows[1].heartbeat < 0 \/ now - rows[1].heartbeat < Threshold
        BY <3>1 DEF Evaluate
      <3>4. rows[1].heartbeat <= contact + Skew
        BY <3>1 DEF DaemonInv
      <3>5. QED
        BY <1>0, <3>2, <3>3, <3>4
    <2>6. QED
      BY <2>1, <2>2, <2>4, <2>5 DEF DaemonInv, DaemonTypeOK
  <1>5. CASE MarkHeartbeat
    <2>1. CASE rows = <<>>
      BY <1>0, <1>5, <2>1 DEF MarkHeartbeat, DaemonInv, DaemonTypeOK, OnlineIsFresh
    <2>2. CASE rows # <<>>
      <3>1. rows' = [rows EXCEPT ![1].heartbeat = now + Skew]
        BY <1>5, <2>2 DEF MarkHeartbeat
      <3>2. rows[1] \in DaemonRow /\ Len(rows) \in Nat /\ 1 \in 1..Len(rows)
        BY <1>0, <2>2
      <3>3. [rows[1] EXCEPT !.heartbeat = now + Skew] \in DaemonRow
        BY <1>0, <3>2 DEF DaemonRow
      <3>4. rows' = [rows EXCEPT ![1] = [rows[1] EXCEPT !.heartbeat = now + Skew]]
        BY <3>1
      <3>5. rows' \in Seq(DaemonRow) /\ rows' # <<>>
        BY <1>0, <3>2, <3>3, <3>4
      <3>6. rows'[1].daemon = rows[1].daemon /\ rows'[1].heartbeat = now + Skew
        BY <1>0, <3>2, <3>4 DEF DaemonRow
      <3>7. contact' = now /\ UNCHANGED <<now, asked, reported>>
        BY <1>5 DEF MarkHeartbeat
      <3>8. QED
        BY <1>0, <2>2, <3>5, <3>6, <3>7 DEF DaemonInv, DaemonTypeOK, OnlineIsFresh, DaemonRow
    <2>3. QED
      BY <2>1, <2>2
  <1>6. ASSUME NEW d \in Daemon, NEW told \in BOOLEAN, Accept(d, told)
        PROVE  DaemonInv' /\ (asked \in Daemon => asked' = asked)
    <2> DEFINE record == [daemon |-> d, heartbeat |-> now + Skew]
    <2>1. record \in DaemonRow /\ record.heartbeat = now + Skew
      BY <1>0 DEF DaemonRow
    <2>2. SaveRegistration(record) /\ contact' = now /\ UNCHANGED <<now, asked>>
      BY <1>6 DEF Accept
    <2>3. reported' = IF told THEN [status |-> "online", at |-> now, contact |-> now] ELSE reported
      BY <1>6 DEF Accept
    <2> HIDE DEF record
    <2>4. /\ rows' \in Seq(DaemonRow) /\ rows' # <<>>
          /\ rows # <<>> => rows'[1].daemon = rows[1].daemon
          /\ rows'[1] = record \/ (rows # <<>> /\ rows'[1] = rows[1])
      BY <1>0, <2>1, <2>2, SaveKeepsFirst
    <2>5. rows'[1].heartbeat <= now + Skew
      <3>1. CASE rows'[1] = record
        BY <1>0, <2>1, <3>1
      <3>2. CASE rows # <<>> /\ rows'[1] = rows[1]
        BY <1>0, <3>2, FirstRow DEF DaemonInv
      <3>3. QED
        BY <2>4, <3>1, <3>2
    <2>6. reported' \in [status : ConnectionStatus \cup {"none"}, at : 0..MaxTime,
                         contact : 0..MaxTime]
          /\ OnlineIsFresh'
      BY <2>3 DEF DaemonInv, DaemonTypeOK, ConnectionStatus, OnlineIsFresh
    <2>7. QED
      BY <1>0, <2>2, <2>4, <2>5, <2>6 DEF DaemonInv, DaemonTypeOK, DaemonRow
  <1>7. QED
    BY <1>1, <1>2, <1>3, <1>4, <1>5, <1>6 DEF DaemonStep

-----------------------------------------------------------------------------
(* Types. *)

(* The phases of a task's life. *)
Phase(s) ==
    CASE s = "absent" -> 0 [] s = "queued" -> 1 [] s = "waiting" -> 2
      [] s = "preparing" -> 3 [] s = "running" -> 4 [] OTHER -> 5

LEMMA PhaseTypes ==
    /\ \A s : Phase(s) \in 0..5
    /\ \A s \in TaskStatus : Phase(s) >= 1 /\ (Phase(s) = 5 <=> s \in Terminal)
    /\ \A s, t \in {"waiting", "running"} \cup Terminal :
          Phase(s) = Phase(t) /\ s \notin Terminal => s = t
    /\ \A s, t \in {"waiting", "running"} \cup Terminal :
          Phase(s) < Phase(t) => Rank(s) < Rank(t)
  <1>1. \A s : Phase(s) \in 0..5
    BY DEF Phase
  <1>2. \A s \in TaskStatus : Phase(s) >= 1 /\ (Phase(s) = 5 <=> s \in Terminal)
    BY DEF Phase, TaskStatus, Terminal
  <1>3. \A s \in {"waiting", "running"} \cup Terminal :
            \/ s = "waiting" /\ Phase(s) = 2 /\ Rank(s) = 1
            \/ s = "running" /\ Phase(s) = 4 /\ Rank(s) = 2
            \/ s \in Terminal /\ Phase(s) = 5 /\ Rank(s) = 3
    BY DEF Phase, Terminal, Rank
  <1>4. QED
    BY <1>1, <1>2, <1>3

LEMMA AllowedGrows ==
    ASSUME NEW s, NEW next, <<s, next>> \in AllowedTransitions
    PROVE  s \in TaskStatus /\ next \in TaskStatus /\ Phase(s) < Phase(next)
  BY DEF AllowedTransitions, TaskStatus, Terminal, Phase

LEMMA ChangedIsAllowed ==
    ASSUME NEW s, NEW next, ValidateTransition(s, next) = "changed"
    PROVE  <<s, next>> \in AllowedTransitions
  BY DEF ValidateTransition

ClientType == [pc : ClientLabel, position : Nat \ {0}]

TaskTypeOK ==
    /\ status \in [Remote -> TaskStatus \cup {"absent"}]
    /\ lastSeq \in [Remote -> Nat]
    /\ copies \in [Remote -> Nat]
    /\ mover \in [Caller -> Move \cup {NoMove}]
    /\ bus \in Seq(BusEvent)
    /\ client \in ClientType
    /\ client.position <= Len(bus) + 1
    /\ inbound \in Seq(Frame)
    /\ callbacks \in Seq(Callback)

LEMMA MoverTypes ==
    ASSUME mover \in [Caller -> Move \cup {NoMove}], NEW m \in Caller,
           mover[m].pc \in {"commit", "publish"}
    PROVE  mover[m].remote \in Remote /\ mover[m].next \in TaskStatus /\ mover[m].seq \in Nat
  <1>1. mover[m] # NoMove
    BY DEF NoMove
  <1>2. mover[m] \in Move
    BY <1>1
  <1>3. QED
    BY <1>2 DEF Move

(* What a step may do to the tasks and to the client's reading of their events:
   read on, and forget what was delivered only when nothing is left to read;
   commit a move; publish it; or handle an event. *)
Quiet(m) == mover'[m] = mover[m] \/ mover'[m].pc # "publish"

Reads ==
    /\ UNCHANGED <<status, lastSeq, stale, copies, bus, callbacks>>
    /\ mover' \in [Caller -> Move \cup {NoMove}] /\ \A m \in Caller : Quiet(m)
    /\ client' \in ClientType
    /\ client.position <= client'.position /\ client'.position <= Len(bus) + 1
    /\ \/ delivered' = delivered
       \/ client'.position = Len(bus) + 1 /\ \A m \in Caller : mover'[m].pc # "publish"

Commits(m, r, next) ==
    /\ Commit(m, r, next)
    /\ stale \subseteq stale'
    /\ r \notin stale' => Phase(status[r]) < Phase(next)
    /\ \/ UNCHANGED copies
       \/ status[r] = "absent" /\ copies' = [copies EXCEPT ![r] = @ + 1]
    /\ client' \in ClientType /\ client'.position = client.position
    /\ UNCHANGED <<delivered, callbacks>>

Publishes(m) ==
    /\ mover[m].pc = "publish"
    /\ bus' = Append(bus, [remote |-> mover[m].remote, seq |-> mover[m].seq, type |-> mover[m].next])
    /\ mover' = [mover EXCEPT ![m] = NoMove]
    /\ client' \in ClientType /\ client'.position = client.position
    /\ UNCHANGED <<tableVars, delivered, callbacks>>

TaskStep ==
    \/ Reads
    \/ \E m \in Caller, r \in Remote, next \in TaskStatus : Commits(m, r, next)
    \/ \E m \in Caller : Publishes(m)
    \/ HandleEvent

LEMMA GotoReads ==
    ASSUME client \in ClientType, NEW l \in ClientLabel, Goto(l)
    PROVE  client' \in ClientType /\ client'.position = client.position
  BY DEF Goto, ClientType

LEMMA SettingAMover ==
    ASSUME mover \in [Caller -> Move \cup {NoMove}], NEW m \in Caller,
           NEW x \in Move \cup {NoMove}, x.pc # "publish", mover' = [mover EXCEPT ![m] = x]
    PROVE  mover' \in [Caller -> Move \cup {NoMove}] /\ \A k \in Caller : Quiet(k)
  BY DEF Quiet

LEMMA ReturnReads ==
    ASSUME TaskTypeOK, NEW m \in Caller, NEW ok, ReturnMove(m, ok)
    PROVE  /\ mover' = [mover EXCEPT ![m] = NoMove]
           /\ mover' \in [Caller -> Move \cup {NoMove}] /\ \A k \in Caller : Quiet(k)
           /\ client' \in ClientType /\ client'.position = client.position
  <1>1. mover' = [mover EXCEPT ![m] = NoMove] /\ NoMove \in Move \cup {NoMove} /\ NoMove.pc # "publish"
    BY DEF ReturnMove, NoMove
  <1>2. mover' \in [Caller -> Move \cup {NoMove}] /\ \A k \in Caller : Quiet(k)
    BY <1>1, SettingAMover DEF TaskTypeOK
  <1>3. UNCHANGED client \/ Goto("loop") \/ Goto("stopped")
    BY DEF ReturnMove
  <1>4. client' \in ClientType /\ client'.position = client.position
    BY <1>3, GotoReads DEF TaskTypeOK, ClientLabel
  <1>5. QED
    BY <1>1, <1>2, <1>4

LEMMA BeginReads ==
    ASSUME TaskTypeOK, NEW m \in Caller, NEW r \in Remote, NEW next, BeginMove(m, r, next)
    PROVE  /\ mover' \in [Caller -> Move \cup {NoMove}] /\ \A k \in Caller : Quiet(k)
           /\ UNCHANGED <<tableVars, bus>>
  <1> DEFINE x == [pc |-> "commit", remote |-> r, next |-> next, seq |-> 0]
  <1>1. next \in TaskStatus
    BY ChangedIsAllowed, AllowedGrows DEF BeginMove
  <1>2. x \in Move \cup {NoMove} /\ x.pc # "publish"
    BY <1>1 DEF Move
  <1>3. mover' = [mover EXCEPT ![m] = x] /\ UNCHANGED <<tableVars, bus>>
    BY DEF BeginMove
  <1> HIDE DEF x
  <1>4. QED
    BY <1>2, <1>3, SettingAMover DEF TaskTypeOK

LEMMA StepsOfFrames ==
    ASSUME TaskTypeOK, HandleFrame
    PROVE  TaskStep /\ inbound' \in Seq(Frame)
  <1> DEFINE f == Head(inbound)
  <1>0. /\ client \in ClientType /\ bus \in Seq(BusEvent) /\ Len(bus) \in Nat
        /\ client.position <= Len(bus) + 1 /\ client.position \in Nat \ {0}
        /\ mover \in [Caller -> Move \cup {NoMove}] /\ "client" \in Caller
    BY DEF TaskTypeOK, ClientType, Caller
  <1>1. f \in Frame /\ inbound' \in Seq(Frame)
    BY HeadIsAFrame DEF HandleFrame, TaskTypeOK
  <1>2. UNCHANGED <<delivered, callbacks>>
    BY DEF HandleFrame, planeVars
  <1>3. CASE UNCHANGED taskVars /\ (UNCHANGED client \/ Stop)
    <2>1. client' \in ClientType /\ client'.position = client.position
      BY <1>0, <1>3, GotoReads DEF Stop, ClientLabel
    <2>2. \A m \in Caller : Quiet(m)
      BY <1>3 DEF taskVars, Quiet
    <2>3. QED
      BY <1>0, <1>1, <1>2, <1>3, <2>1, <2>2 DEF taskVars, TaskStep, Reads
  <1>4. CASE f.kind = "task_dispatch" /\ Ingest(f.remote)
    <2>1. f.remote \in Remote
      BY <1>1, <1>4, FrameTypes
    <2>2. CASE UNCHANGED <<taskVars, client>>
      BY <1>3, <2>2
    <2>3. CASE /\ ~FindByRemoteTaskId(f.remote)
               /\ Commit("client", f.remote, "queued")
               /\ copies' = [copies EXCEPT ![f.remote] = @ + 1]
               /\ Goto("transition")
               /\ UNCHANGED stale
      <3>1. status[f.remote] = "absent" /\ "queued" \in TaskStatus
        BY <2>3 DEF FindByRemoteTaskId, TaskStatus
      <3>2. Phase(status[f.remote]) < Phase("queued")
        BY <3>1 DEF Phase
      <3>3. client' \in ClientType /\ client'.position = client.position
        BY <1>0, <2>3, GotoReads DEF ClientLabel
      <3>4. Commits("client", f.remote, "queued")
        BY <1>2, <2>3, <3>1, <3>2, <3>3 DEF Commits
      <3>5. QED
        BY <1>0, <1>1, <2>1, <3>1, <3>4 DEF TaskStep
    <2>4. QED
      BY <1>4, <2>2, <2>3 DEF Ingest
  <1>5. CASE f.kind = "task_cancel" /\ CancelRemoteTask(f.remote)
    <2>1. f.remote \in Remote
      BY <1>1, <1>5, FrameTypes
    <2>2. CASE UNCHANGED <<taskVars, client>>
      BY <1>3, <2>2
    <2>3. CASE BeginMove("client", f.remote, "cancelled") /\ Goto("transition")
      <3>1. client' \in ClientType /\ client'.position = client.position
        BY <1>0, <2>3, GotoReads DEF ClientLabel
      <3>2. /\ mover' \in [Caller -> Move \cup {NoMove}] /\ \A k \in Caller : Quiet(k)
            /\ UNCHANGED <<tableVars, bus>>
        BY <1>0, <2>1, <2>3, BeginReads
      <3>3. QED
        BY <1>0, <1>1, <1>2, <3>1, <3>2 DEF tableVars, TaskStep, Reads
    <2>4. QED
      BY <1>5, <2>2, <2>3 DEF CancelRemoteTask
  <1>6. QED
    <2>1. \/ UNCHANGED taskVars /\ (UNCHANGED client \/ Stop)
          \/ f.kind = "task_dispatch" /\ Ingest(f.remote)
          \/ f.kind = "task_cancel" /\ CancelRemoteTask(f.remote)
      BY DEF HandleFrame, SendFails
    <2>2. QED
      BY <1>3, <1>4, <1>5, <2>1

LEMMA StepsOfMoves ==
    ASSUME TaskTypeOK, NEW m \in Caller,
           \/ CommitMove(m) \/ PublishMove(m)
           \/ \E r \in Remote : \E next : TaskMoves(m, r, next)
    PROVE  TaskStep /\ inbound' \in Seq(Frame)
  <1>0. /\ client \in ClientType /\ bus \in Seq(BusEvent) /\ Len(bus) \in Nat
        /\ client.position <= Len(bus) + 1 /\ client.position \in Nat \ {0}
        /\ mover \in [Caller -> Move \cup {NoMove}] /\ inbound \in Seq(Frame)
    BY DEF TaskTypeOK, ClientType
  <1>1. UNCHANGED <<inbound, delivered, callbacks>>
    BY DEF CommitMove, PublishMove, TaskMoves, planeVars
  <1>2. ASSUME NEW ok, ReturnMove(m, ok), UNCHANGED <<tableVars, bus>>
        PROVE  TaskStep
    BY <1>0, <1>1, <1>2, ReturnReads DEF tableVars, TaskStep, Reads
  <1>3. CASE CommitMove(m)
    <2> DEFINE r == mover[m].remote
               next == mover[m].next
    <2>1. r \in Remote /\ next \in TaskStatus
      BY <1>0, <1>3, MoverTypes DEF CommitMove
    <2>2. CASE /\ Commit(m, r, next)
               /\ stale' = IF <<status[r], next>> \in AllowedTransitions THEN stale ELSE stale \cup {r}
               /\ UNCHANGED <<copies, client>>
      <3>1. stale \subseteq stale' /\ (r \notin stale' => <<status[r], next>> \in AllowedTransitions)
        BY <2>2
      <3>2. r \notin stale' => Phase(status[r]) < Phase(next)
        BY <3>1, AllowedGrows
      <3>3. Commits(m, r, next)
        BY <1>0, <1>1, <2>2, <3>1, <3>2 DEF Commits
      <3>4. QED
        BY <1>0, <1>1, <2>1, <3>3 DEF TaskStep
    <2>3. QED
      BY <1>0, <1>1, <1>2, <1>3, <2>2 DEF CommitMove
  <1>4. CASE PublishMove(m)
    <2>1. CASE /\ bus' = Append(bus, [remote |-> mover[m].remote, seq |-> mover[m].seq,
                                      type |-> EventTypeForStatus(mover[m].next)])
               /\ ReturnMove(m, TRUE)
      <3>1. /\ mover' = [mover EXCEPT ![m] = NoMove]
            /\ client' \in ClientType /\ client'.position = client.position
        BY <2>1, ReturnReads
      <3>2. mover[m].pc = "publish" /\ UNCHANGED tableVars
        BY <1>4 DEF PublishMove
      <3>3. Publishes(m)
        BY <1>1, <2>1, <3>1, <3>2 DEF Publishes, EventTypeForStatus
      <3>4. QED
        BY <1>0, <1>1, <3>3 DEF TaskStep
    <2>2. QED
      BY <1>0, <1>1, <1>2, <1>4, <2>1 DEF PublishMove
  <1>5. ASSUME NEW r \in Remote, NEW next, TaskMoves(m, r, next)
        PROVE  TaskStep
    <2>1. BeginMove(m, r, next) /\ UNCHANGED client
      BY <1>5 DEF TaskMoves
    <2>2. QED
      BY <1>0, <1>1, <2>1, BeginReads DEF tableVars, TaskStep, Reads
  <1>6. QED
    BY <1>0, <1>1, <1>3, <1>4, <1>5

LEMMA StepsOfTasks ==
    ASSUME TaskTypeOK, [Next]_vars
    PROVE  TaskStep /\ inbound' \in Seq(Frame)
  <1>0. /\ client \in ClientType /\ bus \in Seq(BusEvent) /\ inbound \in Seq(Frame)
        /\ client.position <= Len(bus) + 1 /\ Len(bus) \in Nat
        /\ client.position \in Nat \ {0} /\ Capacity \in Nat \ {0}
        /\ mover \in [Caller -> Move \cup {NoMove}]
    BY ControlPlaneAssumption DEF TaskTypeOK, ClientType
  <1>1. SendFails => Goto("stopped")
    BY DEF SendFails, Stop
  <1>2. EndSession => Goto("connect") /\ inbound' = <<>>
    BY DEF EndSession, Goto
  <1>3. <<>> \in Seq(Frame)
    OBVIOUS
  <1>4. mover' = mover => mover' \in [Caller -> Move \cup {NoMove}] /\ \A m \in Caller : Quiet(m)
    BY <1>0 DEF Quiet
  <1>5. CASE Connect \/ Register \/ Heartbeat \/ LinkLost \/ HandleClose
    <2>1. client' = client \/ \E l \in ClientLabel : Goto(l)
      BY <1>1, <1>2, <1>5 DEF Connect, Register, Heartbeat, LinkLost, HandleClose, Stop, ClientLabel
    <2>2. client' \in ClientType /\ client'.position = client.position
      BY <1>0, <2>1, GotoReads
    <2>3. /\ UNCHANGED <<status, lastSeq, stale, copies, mover, bus, callbacks, delivered>>
          /\ inbound' \in Seq(Frame)
      BY <1>0, <1>2, <1>3, <1>5
         DEF Connect, Register, Heartbeat, LinkLost, HandleClose, taskVars, planeVars
    <2>4. QED
      BY <1>0, <1>4, <2>2, <2>3 DEF TaskStep, Reads
  <1>6. CASE Subscribe
    <2>1. client' = [pc |-> "register", position |-> Len(bus) + 1]
      BY <1>6 DEF Subscribe
    <2>2. client' \in ClientType /\ client'.position = Len(bus) + 1
      BY <1>0, <2>1 DEF ClientType, ClientLabel
    <2>3. QED
      BY <1>0, <1>4, <1>6, <2>2 DEF Subscribe, taskVars, planeVars, TaskStep, Reads
  <1>7. CASE Lag
    <2>1. client' = [client EXCEPT !.position = Len(bus) - Capacity + 1]
      BY <1>7 DEF Lag
    <2>2. Len(bus) - Capacity + 1 > client.position
      BY <1>0, <1>7 DEF Lag, HasLagged
    <2>3. Len(bus) - Capacity + 1 \in Nat \ {0} /\ Len(bus) - Capacity + 1 <= Len(bus) + 1
      BY <1>0, <2>2
    <2>4. client' \in ClientType /\ client'.position = Len(bus) - Capacity + 1
      BY <1>0, <2>1, <2>3 DEF ClientType
    <2>5. QED
      BY <1>0, <1>4, <1>7, <2>2, <2>3, <2>4 DEF Lag, taskVars, planeVars, TaskStep, Reads
  <1>8. CASE Restart
    <2>1. client' = [pc |-> "connect", position |-> Len(bus) + 1]
      BY <1>8 DEF Restart
    <2>2. client' \in ClientType /\ client'.position = Len(bus) + 1
      BY <1>0, <2>1 DEF ClientType, ClientLabel
    <2>3. mover' = [m \in Caller |-> NoMove] /\ NoMove.pc # "publish"
      BY <1>8 DEF Restart, NoMove
    <2>4. /\ mover' \in [Caller -> Move \cup {NoMove}] /\ \A m \in Caller : Quiet(m)
          /\ \A m \in Caller : mover'[m].pc # "publish"
      BY <2>3 DEF Quiet
    <2>5. QED
      BY <1>0, <1>3, <1>8, <2>2, <2>4 DEF Restart, tableVars, TaskStep, Reads
  <1>9. CASE HandleEvent
    BY <1>0, <1>9 DEF HandleEvent, TaskStep
  <1>10. CASE HandleFrame
    BY <1>10, StepsOfFrames
  <1>11. CASE \E g \in Frame : PlaneSends(g)
    <2>1. inbound' \in Seq(Frame)
      BY <1>0, <1>11 DEF PlaneSends
    <2>2. QED
      BY <1>0, <1>4, <1>11, <2>1 DEF PlaneSends, taskVars, TaskStep, Reads
  <1>12. CASE \E m \in Caller : CommitMove(m) \/ PublishMove(m)
    BY <1>12, StepsOfMoves
  <1>13. ASSUME NEW m \in Mover, NEW r \in Remote, NEW next, TaskMoves(m, r, next)
         PROVE  TaskStep /\ inbound' \in Seq(Frame)
    <2>1. m \in Caller
      BY DEF Caller
    <2>2. QED
      BY <1>13, <2>1, StepsOfMoves
  <1>14. CASE LinkBreaks \/ PassTime \/ UNCHANGED vars
    BY <1>0, <1>4, <1>14 DEF LinkBreaks, PassTime, vars, taskVars, planeVars, TaskStep, Reads
  <1>15. QED
    BY <1>5, <1>6, <1>7, <1>8, <1>9, <1>10, <1>11, <1>12, <1>13, <1>14 DEF Next, ClientStep

LEMMA InitTaskTypes == Init => TaskTypeOK
  BY DEF Init, TaskTypeOK, ClientType, ClientLabel

LEMMA CallbackTypes ==
    ASSUME status \in [Remote -> TaskStatus \cup {"absent"}], NEW e \in BusEvent,
           CallbackFor(e) # NoCallback
    PROVE  /\ CallbackFor(e).event \in {"waiting", "running"} \cup Terminal
           /\ \/ /\ e.type \in {"waiting", "running"}
                 /\ CallbackFor(e).event = status[e.remote]
                 /\ CallbackFor(e).event = "waiting" => CallbackFor(e).key = 0 - 1
                 /\ CallbackFor(e).event = "running" => CallbackFor(e).key = 0 - 2
                 /\ status[e.remote] \in {"waiting", "running"}
              \/ e.type \in Terminal /\ CallbackFor(e).event = e.type
  BY DEF CallbackFor, CallbackForTaskState, CallbackForEvent, NoCallback, Terminal, BusEvent,
         TaskStatus

(* An event that is handled either sends no callback or sends one that was not
   delivered. *)
LEMMA HandleEventDoes ==
    ASSUME TaskTypeOK, HandleEvent
    PROVE  LET e == bus[client.position]
               c == CallbackFor(e)
           IN  /\ e \in BusEvent /\ client.position \in 1..Len(bus)
               /\ UNCHANGED <<taskVars, inbound>>
               /\ client' \in ClientType
               /\ \/ /\ callbacks' = callbacks /\ delivered \subseteq delivered'
                     /\ client'.position \in {client.position, client.position + 1}
                  \/ /\ c # NoCallback /\ <<e.remote, c.key>> \notin delivered
                     /\ delivered' = delivered \cup {<<e.remote, c.key>>}
                     /\ client'.position = client.position + 1
                     /\ callbacks' = Append(callbacks, [remote |-> e.remote, event |-> c.event])
  <1> DEFINE e == bus[client.position]
             c == CallbackFor(e)
  <1>1. /\ client \in ClientType /\ client.position \in Nat \ {0} /\ bus \in Seq(BusEvent)
        /\ client.position <= Len(bus) /\ Len(bus) \in Nat
    BY DEF HandleEvent, TaskTypeOK, ClientType
  <1>2. client.position \in 1..Len(bus) /\ e \in BusEvent
    BY <1>1
  <1>3. UNCHANGED <<taskVars, inbound>>
    BY DEF HandleEvent
  <1>4. [client EXCEPT !.position = @ + 1] \in ClientType
        /\ [client EXCEPT !.position = @ + 1].position = client.position + 1
    BY <1>1 DEF ClientType
  <1>5. Stop => client' \in ClientType /\ client'.position = client.position
    BY <1>1, GotoReads DEF Stop, ClientLabel
  <1> HIDE DEF c
  <1>6. CASE /\ client' = [client EXCEPT !.position = @ + 1]
             /\ UNCHANGED <<delivered, callbacks>>
    BY <1>2, <1>3, <1>4, <1>6 DEF c
  <1>7. CASE /\ c # NoCallback /\ <<e.remote, c.key>> \notin delivered
             /\ delivered' = delivered \cup {<<e.remote, c.key>>}
             /\ client' = [client EXCEPT !.position = @ + 1]
             /\ callbacks' = IF link = "up"
                   THEN Append(callbacks, [remote |-> e.remote, event |-> c.event])
                   ELSE callbacks
    BY <1>2, <1>3, <1>4, <1>7 DEF c
  <1>8. CASE /\ delivered \subseteq delivered'
             /\ Stop /\ UNCHANGED callbacks
    BY <1>2, <1>3, <1>5, <1>8 DEF c
  <1>9. \/ /\ client' = [client EXCEPT !.position = @ + 1]
           /\ UNCHANGED <<delivered, callbacks>>
        \/ /\ c # NoCallback /\ <<e.remote, c.key>> \notin delivered
           /\ delivered' = delivered \cup {<<e.remote, c.key>>}
           /\ client' = [client EXCEPT !.position = @ + 1]
           /\ callbacks' = IF link = "up"
                 THEN Append(callbacks, [remote |-> e.remote, event |-> c.event])
                 ELSE callbacks
        \/ /\ delivered \subseteq delivered'
           /\ Stop /\ UNCHANGED callbacks
    BY DEF HandleEvent, SendFails, c
  <1>10. QED
    BY <1>6, <1>7, <1>8, <1>9

LEMMA CommitTypes ==
    ASSUME TaskTypeOK, NEW m \in Caller, NEW r \in Remote, NEW next \in TaskStatus,
           Commit(m, r, next)
    PROVE  /\ status' \in [Remote -> TaskStatus \cup {"absent"}] /\ status'[r] = next
           /\ lastSeq' \in [Remote -> Nat] /\ mover' \in [Caller -> Move \cup {NoMove}]
           /\ mover'[m].pc = "publish" /\ mover'[m].remote = r /\ mover'[m].next = next
           /\ \A k \in Caller : k # m => mover'[k] = mover[k]
           /\ \A q \in Remote : q # r => status'[q] = status[q]
  <1> DEFINE x == [pc |-> "publish", remote |-> r, next |-> next, seq |-> lastSeq[r] + 1]
  <1>1. lastSeq[r] \in Nat /\ lastSeq[r] + 1 \in Nat
    BY DEF TaskTypeOK
  <1>2. x \in Move \cup {NoMove} /\ x.pc = "publish" /\ x.remote = r /\ x.next = next
    BY <1>1 DEF Move
  <1>3. mover' = [mover EXCEPT ![m] = x]
    BY DEF Commit
  <1> HIDE DEF x
  <1>4. /\ mover' \in [Caller -> Move \cup {NoMove}] /\ mover'[m] = x
        /\ \A k \in Caller : k # m => mover'[k] = mover[k]
    BY <1>2, <1>3 DEF TaskTypeOK
  <1>5. /\ status' = [status EXCEPT ![r] = next] /\ lastSeq' = [lastSeq EXCEPT ![r] = @ + 1]
    BY DEF Commit
  <1>6. /\ status' \in [Remote -> TaskStatus \cup {"absent"}] /\ status'[r] = next
        /\ \A q \in Remote : q # r => status'[q] = status[q]
    BY <1>5 DEF TaskTypeOK
  <1>7. lastSeq' \in [Remote -> Nat]
    BY <1>1, <1>5 DEF TaskTypeOK
  <1>8. QED
    BY <1>2, <1>4, <1>6, <1>7

LEMMA PublishTypes ==
    ASSUME TaskTypeOK, NEW m \in Caller, Publishes(m)
    PROVE  /\ mover[m].remote \in Remote /\ mover[m].next \in TaskStatus
           /\ bus' \in Seq(BusEvent) /\ Len(bus) \in Nat /\ Len(bus') = Len(bus) + 1
           /\ \A i \in 1..Len(bus) : bus'[i] = bus[i]
           /\ bus'[Len(bus) + 1].remote = mover[m].remote
           /\ bus'[Len(bus) + 1].type = mover[m].next
           /\ mover' \in [Caller -> Move \cup {NoMove}] /\ mover'[m].pc # "publish"
           /\ \A k \in Caller : k # m => mover'[k] = mover[k]
  <1> DEFINE e == [remote |-> mover[m].remote, seq |-> mover[m].seq, type |-> mover[m].next]
  <1>1. mover[m].remote \in Remote /\ mover[m].next \in TaskStatus /\ mover[m].seq \in Nat
    BY MoverTypes DEF Publishes, TaskTypeOK
  <1>2. e \in BusEvent /\ e.remote = mover[m].remote /\ e.type = mover[m].next
    BY <1>1 DEF BusEvent
  <1>3. bus \in Seq(BusEvent) /\ bus' = Append(bus, e)
    BY DEF Publishes, TaskTypeOK
  <1> HIDE DEF e
  <1>4. /\ bus' \in Seq(BusEvent) /\ Len(bus) \in Nat /\ Len(bus') = Len(bus) + 1
        /\ \A i \in 1..Len(bus) : bus'[i] = bus[i]
        /\ bus'[Len(bus) + 1] = e
    BY <1>2, <1>3
  <1>5. mover' = [mover EXCEPT ![m] = NoMove] /\ NoMove.pc # "publish"
    BY DEF Publishes, NoMove
  <1>6. /\ mover' \in [Caller -> Move \cup {NoMove}] /\ mover'[m].pc # "publish"
        /\ \A k \in Caller : k # m => mover'[k] = mover[k]
    BY <1>5 DEF TaskTypeOK
  <1>7. QED
    BY <1>1, <1>2, <1>4, <1>6

LEMMA TaskTypesKept ==
    ASSUME TaskTypeOK, TaskStep, inbound' \in Seq(Frame)
    PROVE  TaskTypeOK'
  <1>1. CASE Reads
    BY <1>1 DEF Reads, TaskTypeOK
  <1>2. ASSUME NEW m \in Caller, NEW r \in Remote, NEW next \in TaskStatus, Commits(m, r, next)
        PROVE  TaskTypeOK'
    <2>1. /\ status' \in [Remote -> TaskStatus \cup {"absent"}]
          /\ lastSeq' \in [Remote -> Nat] /\ mover' \in [Caller -> Move \cup {NoMove}]
      BY <1>2, CommitTypes DEF Commits
    <2>2. bus' = bus /\ callbacks' = callbacks /\ client' \in ClientType
          /\ client'.position = client.position
      BY <1>2 DEF Commits, Commit
    <2>3. copies' \in [Remote -> Nat]
      <3>1. copies \in [Remote -> Nat] /\ copies[r] + 1 \in Nat
        BY DEF TaskTypeOK
      <3>2. QED
        BY <1>2, <3>1 DEF Commits
    <2>4. QED
      BY <2>1, <2>2, <2>3 DEF TaskTypeOK
  <1>3. ASSUME NEW m \in Caller, Publishes(m)
        PROVE  TaskTypeOK'
    <2>1. /\ bus' \in Seq(BusEvent) /\ Len(bus) \in Nat /\ Len(bus') = Len(bus) + 1
          /\ mover' \in [Caller -> Move \cup {NoMove}]
      BY <1>3, PublishTypes
    <2>2. /\ UNCHANGED <<status, lastSeq, copies, callbacks>>
          /\ client' \in ClientType /\ client'.position = client.position
      BY <1>3 DEF Publishes, tableVars
    <2>3. client.position \in Nat /\ client.position <= Len(bus) + 1
      BY DEF TaskTypeOK, ClientType
    <2>4. client'.position <= Len(bus') + 1
      BY <2>1, <2>2, <2>3
    <2>5. QED
      BY <2>1, <2>2, <2>4 DEF TaskTypeOK
  <1>4. CASE HandleEvent
    <2> DEFINE e == bus[client.position]
               c == CallbackFor(e)
    <2>1. /\ e \in BusEvent /\ client.position \in 1..Len(bus)
          /\ UNCHANGED <<taskVars, inbound>>
          /\ client' \in ClientType
          /\ client'.position \in {client.position, client.position + 1}
          /\ \/ callbacks' = callbacks
             \/ /\ c # NoCallback
                /\ callbacks' = Append(callbacks, [remote |-> e.remote, event |-> c.event])
      BY <1>4, HandleEventDoes
    <2>2. client'.position <= Len(bus) + 1
      <3>1. Len(bus) \in Nat
        BY DEF TaskTypeOK
      <3>2. QED
        BY <2>1, <3>1
    <2>3. c # NoCallback => [remote |-> e.remote, event |-> c.event] \in Callback
      BY <2>1, CallbackTypes DEF TaskTypeOK, Callback, BusEvent
    <2> DEFINE x == [remote |-> e.remote, event |-> c.event]
    <2>4. callbacks' \in Seq(Callback)
      <3>1. callbacks' = callbacks \/ (x \in Callback /\ callbacks' = Append(callbacks, x))
        BY <2>1, <2>3
      <3>2. callbacks \in Seq(Callback)
        BY DEF TaskTypeOK
      <3> HIDE DEF x
      <3>3. QED
        BY <3>1, <3>2, AppendTypes
    <2>5. QED
      BY <2>1, <2>2, <2>4 DEF TaskTypeOK, taskVars
  <1>5. QED
    BY <1>1, <1>2, <1>3, <1>4 DEF TaskStep

-----------------------------------------------------------------------------
(* One task for a remote id, and callbacks in the order of its life. *)

(* An id without a task has none. *)
CopiesInv == \A r \in Remote : copies[r] <= 1 /\ (status[r] = "absent" => copies[r] = 0)

(* A row of the task is committed, and its event still to be published. *)
Pending(m, r) == mover[m].pc = "publish" /\ mover[m].remote = r

(* No event of a task, published or pending, is ahead of its status. *)
EventsFollow ==
    \A r \in Remote \ stale :
        /\ \A i \in 1..Len(bus) : bus[i].remote = r => Phase(bus[i].type) <= Phase(status[r])
        /\ \A m \in Caller : Pending(m, r) => Phase(mover[m].next) <= Phase(status[r])

(* One event of a task, published or pending, is terminal. *)
OneEnd ==
    \A r \in Remote \ stale :
        /\ \A i, j \in 1..Len(bus) :
              /\ bus[i].remote = r /\ bus[i].type \in Terminal
              /\ bus[j].remote = r /\ bus[j].type \in Terminal
              => i = j
        /\ \A m, k \in Caller :
              /\ Pending(m, r) /\ mover[m].next \in Terminal
              /\ Pending(k, r) /\ mover[k].next \in Terminal
              => m = k
        /\ \A i \in 1..Len(bus), m \in Caller :
              ~ /\ bus[i].remote = r /\ bus[i].type \in Terminal
                /\ Pending(m, r) /\ mover[m].next \in Terminal

KeyOf(c) == <<c.remote, IF c.event = "waiting" THEN 0 - 1 ELSE 0 - 2>>

(* No callback is ahead of its task. *)
CallbacksFollow ==
    \A i \in 1..Len(callbacks) :
        callbacks[i].remote \notin stale =>
            Phase(callbacks[i].event) <= Phase(status[callbacks[i].remote])

(* t is the type of an event of r that the client has still to read. *)
Ahead(r, t) ==
    \/ \E j \in 1..Len(bus) : j >= client.position /\ bus[j].remote = r /\ bus[j].type = t
    \/ \E m \in Caller : Pending(m, r) /\ mover[m].next = t

(* What is still to be read does not repeat a callback: it does not end a task
   that was reported as over, and it is later than what the client has forgotten. *)
NoRepeat(c) ==
    \A t : Ahead(c.remote, t) =>
        IF c.event \in Terminal THEN t \notin Terminal
        ELSE KeyOf(c) \in delivered \/ Phase(c.event) < Phase(t)

UnreadIsNew ==
    \A i \in 1..Len(callbacks) : callbacks[i].remote \notin stale => NoRepeat(callbacks[i])

LifeAscends ==
    \A i, j \in 1..Len(callbacks) :
        /\ i < j /\ callbacks[i].remote = callbacks[j].remote
        /\ callbacks[i].remote \notin stale
        => Phase(callbacks[i].event) < Phase(callbacks[j].event)

TaskInv ==
    /\ TaskTypeOK
    /\ CopiesInv
    /\ EventsFollow
    /\ OneEnd
    /\ CallbacksFollow
    /\ UnreadIsNew
    /\ LifeAscends

LEMMA InitTaskInv == Init => TaskInv
  <1> SUFFICES ASSUME Init PROVE TaskInv
    OBVIOUS
  <1>1. /\ TaskTypeOK /\ bus = <<>> /\ callbacks = <<>> /\ copies = [r \in Remote |-> 0]
        /\ Len(bus) = 0 /\ Len(callbacks) = 0
    BY InitTaskTypes DEF Init
  <1>2. \A m \in Caller, r \in Remote : ~Pending(m, r)
    BY DEF Init, Pending, NoMove
  <1>3. QED
    BY <1>1, <1>2 DEF TaskInv, CopiesInv, EventsFollow, OneEnd, CallbacksFollow, UnreadIsNew,
                      LifeAscends

LEMMA RowTypes ==
    ASSUME TaskTypeOK
    PROVE  /\ \A i \in 1..Len(bus) : bus[i].remote \in Remote /\ bus[i].type \in TaskStatus
           /\ \A i \in 1..Len(callbacks) :
                 /\ callbacks[i].remote \in Remote
                 /\ callbacks[i].event \in {"waiting", "running"} \cup Terminal
  <1>1. \A i \in 1..Len(bus) : bus[i] \in BusEvent
    BY DEF TaskTypeOK
  <1>2. \A i \in 1..Len(callbacks) : callbacks[i] \in Callback
    BY DEF TaskTypeOK
  <1>3. \A e \in BusEvent : e.remote \in Remote /\ e.type \in TaskStatus
    BY DEF BusEvent
  <1>4. \A c \in Callback : c.remote \in Remote /\ c.event \in {"waiting", "running"} \cup Terminal
    BY DEF Callback
  <1>5. QED
    BY <1>1, <1>2, <1>3, <1>4

(* A pending event either stays as it is or is gone. *)
LEMMA ReadsKeep ==
    ASSUME TaskInv, Reads, TaskTypeOK'
    PROVE  TaskInv'
  <1>1. UNCHANGED <<status, stale, copies, bus, callbacks>>
    BY DEF Reads
  <1>2. \A m \in Caller, r \in Remote :
            Pending(m, r)' => Pending(m, r) /\ mover'[m].next = mover[m].next
    BY DEF Reads, Quiet, Pending
  <1>3. EventsFollow' /\ OneEnd'
    BY <1>1, <1>2 DEF TaskInv, EventsFollow, OneEnd
  <1>4. UnreadIsNew'
    <2> SUFFICES ASSUME NEW i \in 1..Len(callbacks), callbacks[i].remote \notin stale,
                        NEW t, Ahead(callbacks[i].remote, t)'
                 PROVE  IF callbacks[i].event \in Terminal THEN t \notin Terminal
                        ELSE KeyOf(callbacks[i]) \in delivered' \/ Phase(callbacks[i].event) < Phase(t)
      BY <1>1, Zenon DEF UnreadIsNew, NoRepeat, KeyOf
    <2>1. /\ Len(bus) \in Nat /\ client.position \in Nat /\ client'.position \in Nat
          /\ client.position <= client'.position /\ callbacks[i].remote \in Remote
      BY RowTypes DEF Reads, TaskInv, TaskTypeOK, ClientType
    <2>2. Ahead(callbacks[i].remote, t)
      BY <1>1, <1>2, <2>1 DEF Ahead
    <2>3. NoRepeat(callbacks[i])
      BY DEF TaskInv, UnreadIsNew
    <2>4. CASE delivered' = delivered
      BY <2>2, <2>3, <2>4 DEF NoRepeat
    <2>5. CASE delivered' # delivered
      <3>1. client'.position = Len(bus) + 1 /\ \A m \in Caller : mover'[m].pc # "publish"
        BY <2>5 DEF Reads
      <3>2. QED
        BY <1>1, <2>1, <3>1 DEF Ahead, Pending
    <2>6. QED
      BY <2>4, <2>5
  <1>5. QED
    BY <1>1, <1>3, <1>4 DEF TaskInv, CopiesInv, CallbacksFollow, LifeAscends

(* A task that is not stale was moved forward: its new event is ahead of all
   others, and of every callback. *)
LEMMA CommitsKeep ==
    ASSUME TaskInv, TaskTypeOK', NEW m \in Caller, NEW r \in Remote, NEW next \in TaskStatus,
           Commits(m, r, next)
    PROVE  TaskInv'
  <1>1. /\ status'[r] = next
        /\ mover'[m].pc = "publish" /\ mover'[m].remote = r /\ mover'[m].next = next
        /\ \A k \in Caller : k # m => mover'[k] = mover[k]
        /\ \A q \in Remote : q # r => status'[q] = status[q]
    BY CommitTypes DEF Commits, TaskInv
  <1>2. /\ UNCHANGED <<bus, delivered, callbacks>> /\ stale \subseteq stale'
        /\ client'.position = client.position
        /\ r \notin stale' => Phase(status[r]) < Phase(next)
    BY DEF Commits, Commit
  <1>3. \A k \in Caller, q \in Remote :
            Pending(k, q)' =>
                \/ k = m /\ q = r /\ mover'[k].next = next
                \/ k # m /\ Pending(k, q) /\ mover'[k].next = mover[k].next
    BY <1>1 DEF Pending
  <1>4. \A q \in Remote : q \notin stale' => Phase(status[q]) <= Phase(status'[q])
    BY <1>1, <1>2, PhaseTypes
  <1>5. EventsFollow'
    <2> SUFFICES ASSUME NEW q \in Remote, q \notin stale'
                 PROVE  /\ \A i \in 1..Len(bus) :
                              bus[i].remote = q => Phase(bus[i].type) <= Phase(status'[q])
                        /\ \A k \in Caller :
                              Pending(k, q)' => Phase(mover'[k].next) <= Phase(status'[q])
      BY <1>2 DEF EventsFollow
    <2>1. q \notin stale /\ Phase(status[q]) <= Phase(status'[q])
      BY <1>2, <1>4
    <2>2. /\ \A i \in 1..Len(bus) : bus[i].remote = q => Phase(bus[i].type) <= Phase(status[q])
          /\ \A k \in Caller : Pending(k, q) => Phase(mover[k].next) <= Phase(status[q])
      BY <2>1 DEF TaskInv, EventsFollow
    <2>3. QED
      BY <1>1, <1>3, <2>1, <2>2, PhaseTypes
  <1>6. OneEnd'
    <2> SUFFICES ASSUME NEW q \in Remote, q \notin stale'
                 PROVE  /\ \A i, j \in 1..Len(bus) :
                              /\ bus[i].remote = q /\ bus[i].type \in Terminal
                              /\ bus[j].remote = q /\ bus[j].type \in Terminal
                              => i = j
                        /\ \A k, n \in Caller :
                              /\ Pending(k, q)' /\ mover'[k].next \in Terminal
                              /\ Pending(n, q)' /\ mover'[n].next \in Terminal
                              => k = n
                        /\ \A i \in 1..Len(bus), k \in Caller :
                              ~ /\ bus[i].remote = q /\ bus[i].type \in Terminal
                                /\ Pending(k, q)' /\ mover'[k].next \in Terminal
      BY <1>2 DEF OneEnd
    <2>1. q \notin stale
      BY <1>2
    <2>2. /\ \A i, j \in 1..Len(bus) :
                 /\ bus[i].remote = q /\ bus[i].type \in Terminal
                 /\ bus[j].remote = q /\ bus[j].type \in Terminal
                 => i = j
          /\ \A k, n \in Caller :
                 /\ Pending(k, q) /\ mover[k].next \in Terminal
                 /\ Pending(n, q) /\ mover[n].next \in Terminal
                 => k = n
          /\ \A i \in 1..Len(bus), k \in Caller :
                 ~ /\ bus[i].remote = q /\ bus[i].type \in Terminal
                   /\ Pending(k, q) /\ mover[k].next \in Terminal
      BY <2>1 DEF TaskInv, OneEnd
    <2>3. CASE q # r
      BY <1>3, <2>2, <2>3
    <2>4. CASE q = r
      <3>1. /\ \A i \in 1..Len(bus) : bus[i].remote = r => Phase(bus[i].type) # 5
            /\ \A k \in Caller : Pending(k, r) => Phase(mover[k].next) # 5
        <4>1. /\ \A i \in 1..Len(bus) : bus[i].remote = r => Phase(bus[i].type) <= Phase(status[r])
              /\ \A k \in Caller : Pending(k, r) => Phase(mover[k].next) <= Phase(status[r])
          BY <2>1, <2>4 DEF TaskInv, EventsFollow
        <4>2. Phase(status[r]) < 5
          BY <1>2, <2>4, PhaseTypes
        <4>3. QED
          BY <4>1, <4>2, PhaseTypes
      <3>2. \A t \in Terminal : Phase(t) = 5
        BY DEF Phase, Terminal
      <3>3. /\ \A i \in 1..Len(bus) : bus[i].remote = r => bus[i].type \notin Terminal
            /\ \A k \in Caller : Pending(k, r) => mover[k].next \notin Terminal
        BY <3>1, <3>2
      <3>4. QED
        BY <1>3, <2>2, <2>4, <3>3
    <2>5. QED
      BY <2>3, <2>4
  <1>7. CallbacksFollow'
    <2>1. \A i \in 1..Len(callbacks) :
              callbacks[i].remote \in Remote /\
              (callbacks[i].remote \notin stale =>
                   Phase(callbacks[i].event) <= Phase(status[callbacks[i].remote]))
      BY RowTypes DEF TaskInv, CallbacksFollow
    <2>2. QED
      BY <1>2, <1>4, <2>1, PhaseTypes DEF CallbacksFollow
  <1>8. UnreadIsNew'
    <2> SUFFICES ASSUME NEW i \in 1..Len(callbacks), callbacks[i].remote \notin stale',
                        NEW t, Ahead(callbacks[i].remote, t)'
                 PROVE  IF callbacks[i].event \in Terminal THEN t \notin Terminal
                        ELSE KeyOf(callbacks[i]) \in delivered \/ Phase(callbacks[i].event) < Phase(t)
      BY <1>2, Zenon DEF UnreadIsNew, NoRepeat, KeyOf
    <2>1. /\ callbacks[i].remote \in Remote /\ callbacks[i].remote \notin stale
          /\ callbacks[i].event \in {"waiting", "running"} \cup Terminal
          /\ Phase(callbacks[i].event) <= Phase(status[callbacks[i].remote])
          /\ NoRepeat(callbacks[i])
      BY <1>2, RowTypes DEF TaskInv, CallbacksFollow, UnreadIsNew
    <2>2. Ahead(callbacks[i].remote, t) \/ (callbacks[i].remote = r /\ t = next)
      BY <1>2, <1>3, <2>1 DEF Ahead
    <2>3. CASE Ahead(callbacks[i].remote, t)
      BY <2>1, <2>3 DEF NoRepeat
    <2>4. CASE callbacks[i].remote = r /\ t = next
      <3>1. Phase(callbacks[i].event) < Phase(next)
        BY <1>2, <2>1, <2>4, PhaseTypes
      <3>2. callbacks[i].event \in TaskStatus
        BY <2>1 DEF TaskStatus
      <3>3. callbacks[i].event \notin Terminal
        BY <3>1, <3>2, PhaseTypes
      <3>4. QED
        BY <2>4, <3>1, <3>3
    <2>5. QED
      BY <2>2, <2>3, <2>4
  <1>9. CopiesInv'
    <2>1. \A q \in Remote : copies[q] <= 1 /\ (status[q] = "absent" => copies[q] = 0)
      BY DEF TaskInv, CopiesInv
    <2>2. copies \in [Remote -> Nat] /\ next # "absent"
      BY DEF TaskInv, TaskTypeOK, TaskStatus, Terminal
    <2>3. CASE UNCHANGED copies
      BY <1>1, <2>1, <2>2, <2>3 DEF CopiesInv
    <2>4. CASE status[r] = "absent" /\ copies' = [copies EXCEPT ![r] = @ + 1]
      BY <1>1, <2>1, <2>2, <2>4 DEF CopiesInv
    <2>5. QED
      BY <2>3, <2>4 DEF Commits
  <1>10. LifeAscends'
    BY <1>2 DEF TaskInv, LifeAscends
  <1>11. QED
    BY <1>5, <1>6, <1>7, <1>8, <1>9, <1>10 DEF TaskInv

(* An event that is published was pending. *)
LEMMA PublishesKeep ==
    ASSUME TaskInv, TaskTypeOK', NEW m \in Caller, Publishes(m)
    PROVE  TaskInv'
  <1> DEFINE n == Len(bus) + 1
  <1>1. /\ mover[m].remote \in Remote /\ mover[m].next \in TaskStatus
        /\ Len(bus) \in Nat /\ Len(bus') = n
        /\ \A i \in 1..Len(bus) : bus'[i] = bus[i]
        /\ bus'[n].remote = mover[m].remote /\ bus'[n].type = mover[m].next
        /\ mover'[m].pc # "publish"
        /\ \A k \in Caller : k # m => mover'[k] = mover[k]
    BY PublishTypes DEF TaskInv
  <1>2. /\ UNCHANGED <<status, stale, copies, delivered, callbacks>>
        /\ client'.position = client.position /\ mover[m].pc = "publish"
    BY DEF Publishes, tableVars
  <1>3. \A k \in Caller, q \in Remote :
            Pending(k, q)' => k # m /\ Pending(k, q) /\ mover'[k].next = mover[k].next
    BY <1>1 DEF Pending
  <1>4. Pending(m, mover[m].remote)
    BY <1>2 DEF Pending
  <1>5. \A i \in 1..Len(bus') : i \in 1..Len(bus) \/ i = n
    BY <1>1
  <1> HIDE DEF n
  <1>6. EventsFollow'
    <2> SUFFICES ASSUME NEW q \in Remote, q \notin stale
                 PROVE  /\ \A i \in 1..Len(bus') :
                              bus'[i].remote = q => Phase(bus'[i].type) <= Phase(status[q])
                        /\ \A k \in Caller :
                              Pending(k, q)' => Phase(mover'[k].next) <= Phase(status[q])
      BY <1>2 DEF EventsFollow
    <2>1. /\ \A i \in 1..Len(bus) : bus[i].remote = q => Phase(bus[i].type) <= Phase(status[q])
          /\ \A k \in Caller : Pending(k, q) => Phase(mover[k].next) <= Phase(status[q])
      BY DEF TaskInv, EventsFollow
    <2>2. QED
      BY <1>1, <1>3, <1>4, <1>5, <2>1
  <1>7. OneEnd'
    <2> SUFFICES ASSUME NEW q \in Remote, q \notin stale
                 PROVE  /\ \A i, j \in 1..Len(bus') :
                              /\ bus'[i].remote = q /\ bus'[i].type \in Terminal
                              /\ bus'[j].remote = q /\ bus'[j].type \in Terminal
                              => i = j
                        /\ \A k, l \in Caller :
                              /\ Pending(k, q)' /\ mover'[k].next \in Terminal
                              /\ Pending(l, q)' /\ mover'[l].next \in Terminal
                              => k = l
                        /\ \A i \in 1..Len(bus'), k \in Caller :
                              ~ /\ bus'[i].remote = q /\ bus'[i].type \in Terminal
                                /\ Pending(k, q)' /\ mover'[k].next \in Terminal
      BY <1>2 DEF OneEnd
    <2>1. /\ \A i, j \in 1..Len(bus) :
                 /\ bus[i].remote = q /\ bus[i].type \in Terminal
                 /\ bus[j].remote = q /\ bus[j].type \in Terminal
                 => i = j
          /\ \A k, l \in Caller :
                 /\ Pending(k, q) /\ mover[k].next \in Terminal
                 /\ Pending(l, q) /\ mover[l].next \in Terminal
                 => k = l
          /\ \A i \in 1..Len(bus), k \in Caller :
                 ~ /\ bus[i].remote = q /\ bus[i].type \in Terminal
                   /\ Pending(k, q) /\ mover[k].next \in Terminal
      BY DEF TaskInv, OneEnd
    <2>2. \A i, j \in 1..Len(bus') :
              /\ bus'[i].remote = q /\ bus'[i].type \in Terminal
              /\ bus'[j].remote = q /\ bus'[j].type \in Terminal
              => i = j
      BY <1>1, <1>4, <1>5, <2>1
    <2>3. \A k, l \in Caller :
              /\ Pending(k, q)' /\ mover'[k].next \in Terminal
              /\ Pending(l, q)' /\ mover'[l].next \in Terminal
              => k = l
      BY <1>3, <2>1
    <2>4. \A i \in 1..Len(bus'), k \in Caller :
              ~ /\ bus'[i].remote = q /\ bus'[i].type \in Terminal
                /\ Pending(k, q)' /\ mover'[k].next \in Terminal
      BY <1>1, <1>3, <1>4, <1>5, <2>1
    <2>5. QED
      BY <2>2, <2>3, <2>4
  <1>8. UnreadIsNew'
    <2> SUFFICES ASSUME NEW i \in 1..Len(callbacks), callbacks[i].remote \notin stale,
                        NEW t, Ahead(callbacks[i].remote, t)'
                 PROVE  IF callbacks[i].event \in Terminal THEN t \notin Terminal
                        ELSE KeyOf(callbacks[i]) \in delivered \/ Phase(callbacks[i].event) < Phase(t)
      BY <1>2, Zenon DEF UnreadIsNew, NoRepeat, KeyOf
    <2>1. callbacks[i].remote \in Remote /\ NoRepeat(callbacks[i])
      BY RowTypes DEF TaskInv, UnreadIsNew
    <2>2. Ahead(callbacks[i].remote, t)
      <3>1. CASE \E j \in 1..Len(bus') : /\ j >= client.position /\ bus'[j].remote = callbacks[i].remote
                                         /\ bus'[j].type = t
        BY <1>1, <1>4, <1>5, <3>1 DEF Ahead
      <3>2. CASE \E k \in Caller : Pending(k, callbacks[i].remote)' /\ mover'[k].next = t
        BY <1>2, <1>3, <2>1, <3>2 DEF Ahead, Pending
      <3>3. QED
        BY <1>2, <3>1, <3>2 DEF Ahead
    <2>3. QED
      BY <2>1, <2>2 DEF NoRepeat
  <1>9. CopiesInv' /\ CallbacksFollow' /\ LifeAscends'
    BY <1>2 DEF TaskInv, CopiesInv, CallbacksFollow, LifeAscends
  <1>10. QED
    BY <1>6, <1>7, <1>8, <1>9 DEF TaskInv

(* A callback that is sent is ahead of all that were sent for its task. *)
LEMMA SentKeeps ==
    ASSUME TaskInv, NEW e, e = bus[client.position], e \in BusEvent, client.position \in 1..Len(bus),
           NEW c, c = CallbackFor(e), c # NoCallback, <<e.remote, c.key>> \notin delivered,
           UNCHANGED taskVars,
           delivered' = delivered \cup {<<e.remote, c.key>>},
           client'.position = client.position + 1,
           callbacks' = Append(callbacks, [remote |-> e.remote, event |-> c.event])
    PROVE  CallbacksFollow' /\ UnreadIsNew' /\ LifeAscends'
  <1> DEFINE x == [remote |-> e.remote, event |-> c.event]
             n == Len(callbacks)
  <1>0. UNCHANGED <<status, stale, mover, bus>>
    BY DEF taskVars
  <1>1. /\ callbacks \in Seq(Callback) /\ n \in Nat /\ Len(bus) \in Nat
        /\ status \in [Remote -> TaskStatus \cup {"absent"}] /\ client.position \in Nat
    BY DEF TaskInv, TaskTypeOK
  <1>2. x.remote = e.remote /\ x.event = c.event /\ e.remote \in Remote /\ e.type \in TaskStatus
    BY DEF BusEvent
  <1>3. callbacks' = Append(callbacks, x)
    OBVIOUS
  <1> HIDE DEF x
  <1>4. /\ Len(callbacks') = n + 1 /\ callbacks'[n + 1] = x
        /\ \A i \in 1..n : callbacks'[i] = callbacks[i]
    BY <1>1, <1>3
  <1>5. \A i \in 1..Len(callbacks') : i \in 1..n \/ i = n + 1
    BY <1>1, <1>4
  <1>6. /\ c.event \in {"waiting", "running"} \cup Terminal
        /\ \/ /\ e.type \in {"waiting", "running"}
              /\ c.event = status[e.remote]
              /\ c.event \in {"waiting", "running"}
              /\ <<e.remote, c.key>> = KeyOf(x)
           \/ e.type \in Terminal /\ c.event = e.type
    BY <1>1, <1>2, CallbackTypes DEF KeyOf
  <1>7. e.remote \notin stale => Phase(e.type) <= Phase(status[e.remote])
    BY <1>2 DEF TaskInv, EventsFollow
  <1>8. e.remote \notin stale => Phase(c.event) <= Phase(status[e.remote])
    BY <1>6, <1>7, PhaseTypes
  <1>9. CallbacksFollow'
    BY <1>0, <1>2, <1>4, <1>5, <1>8 DEF TaskInv, CallbacksFollow
  <1>10. Ahead(e.remote, e.type)
    <2> DEFINE p == client.position
    <2>1. p \in 1..Len(bus) /\ p >= p /\ bus[p].remote = e.remote /\ bus[p].type = e.type
      BY <1>1
    <2>2. QED
      BY <2>1, Zenon DEF Ahead
  <1>11. ASSUME NEW i \in 1..Len(callbacks'), NEW j \in 1..Len(callbacks'), i < j,
                callbacks'[i].remote = callbacks'[j].remote, callbacks'[i].remote \notin stale
         PROVE  Phase(callbacks'[i].event) < Phase(callbacks'[j].event)
    <2>1. i \in 1..n
      BY <1>1, <1>4, <1>5, <1>11
    <2>2. CASE j \in 1..n
      BY <1>4, <1>11, <2>1, <2>2 DEF TaskInv, LifeAscends
    <2>3. CASE j = n + 1
      <3> DEFINE d == callbacks[i]
      <3>1. /\ callbacks'[j] = x /\ callbacks'[i] = d /\ d.remote = e.remote
            /\ d.event \in {"waiting", "running"} \cup Terminal /\ e.remote \notin stale
        BY <1>2, <1>4, <1>11, <2>1, <2>3, RowTypes DEF TaskInv
      <3>2. Phase(d.event) <= Phase(status[e.remote]) /\ NoRepeat(d)
        BY <2>1, <3>1 DEF TaskInv, CallbacksFollow, UnreadIsNew
      <3> HIDE DEF d
      <3>3. IF d.event \in Terminal THEN e.type \notin Terminal
            ELSE KeyOf(d) \in delivered \/ Phase(d.event) < Phase(e.type)
        BY <1>10, <3>1, <3>2 DEF NoRepeat
      <3>4. /\ Phase(d.event) \in 0..5 /\ Phase(c.event) \in 0..5 /\ Phase(e.type) \in 0..5
            /\ d.event \in TaskStatus /\ c.event \in TaskStatus
        BY <1>6, <3>1, PhaseTypes DEF TaskStatus
      <3>5. CASE e.type \in Terminal /\ c.event = e.type
        <4>1. Phase(c.event) = 5 /\ Phase(d.event) # 5
          BY <3>3, <3>4, <3>5, PhaseTypes
        <4>2. QED
          BY <1>2, <3>1, <3>4, <4>1
      <3>6. CASE /\ e.type \in {"waiting", "running"}
                 /\ c.event = status[e.remote]
                 /\ c.event \in {"waiting", "running"}
                 /\ <<e.remote, c.key>> = KeyOf(x)
        <4>1. d.event \notin Terminal
          <5>1. c.event \notin Terminal
            BY <3>6 DEF Terminal
          <5>2. Phase(c.event) # 5
            BY <3>4, <5>1, PhaseTypes
          <5>3. Phase(d.event) # 5
            BY <3>2, <3>4, <3>6, <5>2
          <5>4. QED
            BY <3>4, <5>3, PhaseTypes
        <4>2. d.event # c.event
          <5>1. CASE KeyOf(d) \in delivered
            BY <1>2, <3>1, <3>6, <5>1 DEF KeyOf
          <5>2. CASE Phase(d.event) < Phase(e.type)
            BY <1>7, <3>1, <3>4, <3>6, <5>2
          <5>3. QED
            BY <3>3, <4>1, <5>1, <5>2
        <4>3. Phase(d.event) # Phase(c.event)
          BY <1>6, <3>1, <4>1, <4>2, PhaseTypes
        <4>4. Phase(d.event) < Phase(c.event)
          <5>1. Phase(d.event) <= Phase(c.event)
            BY ONLY <3>2, <3>6
          <5>2. QED
            BY ONLY <3>4, <4>3, <5>1
        <4>5. QED
          BY ONLY <1>2, <3>1, <4>4
      <3>7. QED
        BY <1>6, <3>5, <3>6
    <2>4. QED
      BY <1>5, <2>2, <2>3
  <1>12. UnreadIsNew'
    <2> SUFFICES ASSUME NEW i \in 1..Len(callbacks'), callbacks'[i].remote \notin stale,
                        NEW t, NEW q, q = callbacks'[i].remote, Ahead(q, t)'
                 PROVE  IF callbacks'[i].event \in Terminal THEN t \notin Terminal
                        ELSE KeyOf(callbacks'[i]) \in delivered' \/ Phase(callbacks'[i].event) < Phase(t)
      BY <1>0, Zenon DEF UnreadIsNew, NoRepeat, KeyOf
    <2>1. Ahead(q, t)
      BY <1>0, <1>1 DEF Ahead, Pending
    <2>2. CASE i \in 1..n
      <3>1. callbacks'[i] = callbacks[i] /\ NoRepeat(callbacks[i])
        BY <1>4, <2>2 DEF TaskInv, UnreadIsNew
      <3>2. QED
        BY <2>1, <3>1 DEF NoRepeat
    <2>3. CASE i = n + 1
      <3>1. callbacks'[i] = x /\ q = e.remote
        BY <1>2, <1>4, <2>3
      <3>2. CASE c.event \notin Terminal
        BY <1>2, <1>6, <3>1, <3>2
      <3>3. CASE c.event \in Terminal
        <4>1. e.type \in Terminal
          BY <1>6, <3>3 DEF Terminal
        <4>2. e.remote \notin stale
          BY <3>1
        <4>3. /\ \A k \in 1..Len(bus) :
                     bus[k].remote = e.remote /\ bus[k].type \in Terminal => k = client.position
              /\ \A m \in Caller : ~(Pending(m, e.remote) /\ mover[m].next \in Terminal)
          BY <1>2, <4>1, <4>2 DEF TaskInv, OneEnd
        <4>4. t \notin Terminal
          <5>1. CASE \E k \in 1..Len(bus) : /\ k >= client.position + 1
                                            /\ bus[k].remote = e.remote /\ bus[k].type = t
            <6>1. PICK k \in 1..Len(bus) : /\ k >= client.position + 1
                                           /\ bus[k].remote = e.remote /\ bus[k].type = t
              BY <5>1
            <6>2. k # client.position
              BY <1>1, <6>1
            <6>3. QED
              BY <4>3, <6>1, <6>2
          <5>2. CASE \E m \in Caller : Pending(m, e.remote) /\ mover[m].next = t
            BY <4>3, <5>2
          <5>3. QED
            BY <1>0, <3>1, <5>1, <5>2 DEF Ahead, Pending
        <4>5. QED
          BY <1>2, <3>1, <3>3, <4>4
      <3>4. QED
        BY <3>2, <3>3
    <2>4. QED
      BY <1>5, <2>2, <2>3
  <1>13. LifeAscends'
    <2>1. stale' = stale
      BY <1>0
    <2>2. QED
      BY ONLY <1>11, <2>1 DEF LifeAscends
  <1>14. QED
    BY <1>9, <1>12, <1>13

LEMMA NextTaskInv ==
    ASSUME TaskInv, TaskStep, inbound' \in Seq(Frame)
    PROVE  TaskInv'
  <1>0. TaskTypeOK /\ TaskTypeOK'
    BY TaskTypesKept DEF TaskInv
  <1>1. CASE Reads
    BY <1>0, <1>1, ReadsKeep
  <1>2. CASE \E m \in Caller, r \in Remote, next \in TaskStatus : Commits(m, r, next)
    BY <1>0, <1>2, CommitsKeep
  <1>3. CASE \E m \in Caller : Publishes(m)
    BY <1>0, <1>3, PublishesKeep
  <1>4. CASE HandleEvent
    <2> DEFINE e == bus[client.position]
               c == CallbackFor(e)
    <2>1. /\ e \in BusEvent /\ client.position \in 1..Len(bus)
          /\ UNCHANGED taskVars
          /\ \/ /\ callbacks' = callbacks /\ delivered \subseteq delivered'
                /\ client'.position \in {client.position, client.position + 1}
             \/ /\ c # NoCallback /\ <<e.remote, c.key>> \notin delivered
                /\ delivered' = delivered \cup {<<e.remote, c.key>>}
                /\ client'.position = client.position + 1
                /\ callbacks' = Append(callbacks, [remote |-> e.remote, event |-> c.event])
      BY <1>0, <1>4, HandleEventDoes
    <2> HIDE DEF c, e
    <2>2. UNCHANGED <<status, lastSeq, stale, copies, mover, bus>>
      BY <2>1 DEF taskVars
    <2>3. CopiesInv' /\ EventsFollow' /\ OneEnd'
      BY <2>2 DEF TaskInv, CopiesInv, EventsFollow, OneEnd, Pending
    <2>4. CASE /\ callbacks' = callbacks /\ delivered \subseteq delivered'
               /\ client'.position \in {client.position, client.position + 1}
      <3>1. client.position \in Nat /\ client.position <= client'.position
            /\ client'.position \in Nat /\ Len(bus) \in Nat
        BY <1>0, <2>4 DEF TaskTypeOK, ClientType
      <3>2. \A i \in 1..Len(callbacks) : \A t :
                Ahead(callbacks[i].remote, t)' => Ahead(callbacks[i].remote, t)
        BY <2>2, <2>4, <3>1 DEF Ahead, Pending
      <3>3. UnreadIsNew'
        BY <2>2, <2>4, <3>2 DEF TaskInv, UnreadIsNew, NoRepeat, KeyOf
      <3>4. QED
        BY <1>0, <2>2, <2>3, <2>4, <3>3 DEF TaskInv, CallbacksFollow, LifeAscends
    <2>5. CASE /\ c # NoCallback /\ <<e.remote, c.key>> \notin delivered
               /\ delivered' = delivered \cup {<<e.remote, c.key>>}
               /\ client'.position = client.position + 1
               /\ callbacks' = Append(callbacks, [remote |-> e.remote, event |-> c.event])
      <3>1. e = bus[client.position] /\ c = CallbackFor(e)
        BY DEF e, c
      <3>2. CallbacksFollow' /\ UnreadIsNew' /\ LifeAscends'
        BY <2>1, <2>5, <3>1, SentKeeps
      <3>3. QED
        BY <1>0, <2>3, <3>2 DEF TaskInv
    <2>6. QED
      BY <2>1, <2>4, <2>5
  <1>5. QED
    BY <1>1, <1>2, <1>3, <1>4 DEF TaskStep

PlaneInv == TaskInv /\ DaemonInv

LEMMA NextPlane == PlaneInv /\ [Next]_vars => PlaneInv' /\ (asked \in Daemon => asked' = asked)
  <1> SUFFICES ASSUME PlaneInv, [Next]_vars
               PROVE  PlaneInv' /\ (asked \in Daemon => asked' = asked)
    OBVIOUS
  <1>1. TaskStep /\ inbound' \in Seq(Frame) /\ inbound \in Seq(Frame)
    BY StepsOfTasks DEF PlaneInv, TaskInv, TaskTypeOK
  <1>2. TaskInv'
    BY <1>1, NextTaskInv DEF PlaneInv
  <1>3. DaemonInv' /\ (asked \in Daemon => asked' = asked)
    BY <1>1, StepsOfDaemon, NextDaemon DEF PlaneInv
  <1>4. QED
    BY <1>2, <1>3 DEF PlaneInv

LEMMA InitPlane == Init => PlaneInv
  BY InitTaskInv, InitDaemon DEF PlaneInv

(* However often a dispatch is repeated, one local task is made for a remote id
   (find_by_remote_task_id before enqueue_task). *)
THEOREM RemoteTaskIsOne == Spec => []DispatchedOnce
  <1>1. PlaneInv => DispatchedOnce
    BY DEF PlaneInv, TaskInv, CopiesInv, DispatchedOnce
  <1>2. QED
    BY <1>1, InitPlane, NextPlane, PTL DEF Spec

(* The callbacks of a task arrive in the order of its life, each at most once, for
   any number of calls that move it, with their events published in any order, over
   any number of broken links, lags and restarts (callback_for_task_state,
   callback_for_event and the delivered set); except for a task that was moved
   from a status that did not allow it (transition commits what it validated on
   an earlier read). *)
THEOREM CallbacksInOrder == Spec => []CallbacksAscend
  <1>1. PlaneInv => CallbacksAscend
    <2> SUFFICES ASSUME PlaneInv, NEW i \in DOMAIN callbacks, NEW j \in DOMAIN callbacks, i < j,
                        callbacks[i].remote = callbacks[j].remote,
                        callbacks[i].remote \notin stale
                 PROVE  Rank(callbacks[i].event) < Rank(callbacks[j].event)
      BY DEF CallbacksAscend
    <2>1. DOMAIN callbacks = 1..Len(callbacks)
      BY DEF PlaneInv, TaskInv, TaskTypeOK
    <2>2. Phase(callbacks[i].event) < Phase(callbacks[j].event)
      BY <2>1 DEF PlaneInv, TaskInv, LifeAscends
    <2>3. /\ callbacks[i].event \in {"waiting", "running"} \cup Terminal
          /\ callbacks[j].event \in {"waiting", "running"} \cup Terminal
      BY <2>1, RowTypes DEF PlaneInv, TaskInv
    <2>4. QED
      BY <2>2, <2>3, PhaseTypes
  <1>2. QED
    BY <1>1, InitPlane, NextPlane, PTL DEF Spec

(* Once it has presented an identity, the daemon presents the same one for ever
   (DaemonStateStore::get_current). *)
THEOREM IdentityStays == Spec => IdentityIsStable
  <1>1. PlaneInv /\ [Next]_vars => [(asked \in Daemon) => (asked' = asked)]_vars
    BY NextPlane
  <1>2. QED
    BY <1>1, InitPlane, NextPlane, PTL DEF Spec, IdentityIsStable

(* What the daemon reports of itself is fresh, for every threshold and every
   skew of the control plane's clock (LivenessTracker::evaluate). *)
THEOREM ReportsAreFresh == Spec => []OnlineIsFresh
  <1>1. PlaneInv => OnlineIsFresh
    BY DEF PlaneInv, DaemonInv
  <1>2. QED
    BY <1>1, InitPlane, NextPlane, PTL DEF Spec

=============================================================================
