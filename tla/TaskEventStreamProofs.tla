----------------------- MODULE TaskEventStreamProofs -----------------------
(***************************************************************************)
(* What a client of the events route may rely on, for any number of        *)
(* writers, clients, connections and tasks and any capacity of the bus:    *)
(* its frames ascend, a row it never gets was overtaken on the bus, and    *)
(* its stream is closed only behind a terminal row.                        *)
(***************************************************************************)
EXTENDS TaskEventStream, TLAPS

(* The stored row a message of the bus is about. *)
RowOf(m) == [seq |-> m.seq, type |-> m.type]

TablesTypeOK ==
    /\ status \in [Task -> TaskStatus \cup {"absent"}]
    /\ events \in [Task -> SUBSET Event]
    /\ bus \in Seq(Message)
    /\ writer \in [Writer -> [pc : WriterLabel, row : Message]]

(* Numbers of a task are 1..MAX, each used once. *)
LogOK(t) ==
    /\ NextSequence(t) \in Nat
    /\ SequencesOf(t) = 1..(NextSequence(t) - 1)
    /\ \A e, f \in events[t] : e.seq = f.seq => e = f

(* A task whose status is terminal has a terminal row. *)
EndOK(t) == status[t] \in Terminal => \E e \in events[t] : e.type \in Terminal

(* The number a writer has read is at most the next one; what it is about to
   publish is stored. *)
WriterOK(w) ==
    /\ writer[w].pc = "commit" => Row(w).seq \in 1..NextSequence(Row(w).task)
    /\ writer[w].pc \in {"publish", "publish_again"} => RowOf(Row(w)) \in events[Row(w).task]

BusOK == \A i \in 1..Len(bus) : RowOf(bus[i]) \in events[bus[i].task]

TablesInv ==
    /\ TablesTypeOK
    /\ \A t \in Task : LogOK(t) /\ EndOK(t)
    /\ \A w \in Writer : WriterOK(w)
    /\ BusOK

-----------------------------------------------------------------------------
(* One stream.  Its parts are predicates of its own record, its client's, the
   rows of its task and the bus. *)

StreamRecord == [pc : StreamLabel, position : Nat \ {0}, highest : Nat,
                 pending : SUBSET Event, tail : BOOLEAN]

ClientRecord == [open : BOOLEAN, start : Nat, connects : Nat, received : Seq(Event)]

Ascends(s) ==
    \A i, j \in 1..Len(client[s].received) :
        i < j => client[s].received[i].seq < client[s].received[j].seq

(* What was received is stored; while the stream is open its cursor is the
   client's. *)
CursorOK(s) ==
    /\ client[s].connects = 0 => client[s].received = <<>> /\ stream[s].pc = "closed"
    /\ \A i \in 1..Len(client[s].received) : client[s].received[i] \in events[StreamTask[s]]
    /\ stream[s].pc # "closed" => stream[s].highest = LastSeen(s)

(* What is still to be sent is the next stretch of the log. *)
PendingOK(s) ==
    /\ stream[s].pc = "tail" => stream[s].pending = {}
    /\ stream[s].pc \in {"replay", "refill"} =>
         /\ stream[s].pending \subseteq events[StreamTask[s]]
         /\ \A f \in stream[s].pending :
              /\ f.seq > stream[s].highest
              /\ \A e \in events[StreamTask[s]] :
                   e.seq > stream[s].highest /\ e.seq < f.seq => e \in stream[s].pending

(* What was published before the receiver's position and is past the cursor is
   still to be sent. *)
PositionOK(s) ==
    /\ stream[s].position \in 1..(Len(bus) + 1)
    /\ stream[s].pc \in {"replay", "refill", "tail"} =>
         \A j \in 1..Len(bus) :
             /\ j < stream[s].position
             /\ bus[j].task = StreamTask[s]
             /\ bus[j].seq > stream[s].highest
             => RowOf(bus[j]) \in stream[s].pending

(* A stream that will not tail has a terminal row behind it or ahead in its
   replay. *)
TailOK(s) ==
    /\ stream[s].pc \in {"subscribe", "list"} /\ ~stream[s].tail =>
         \E e \in events[StreamTask[s]] : e.type \in Terminal
    /\ stream[s].pc = "replay" /\ ~stream[s].tail =>
         \E e \in events[StreamTask[s]] :
             e.type \in Terminal /\ (e.seq <= stream[s].highest \/ e \in stream[s].pending)

Closes(s) ==
    client[s].open /\ stream[s].pc = "closed" =>
        \E e \in events[StreamTask[s]] : e.type \in Terminal /\ e.seq <= LastSeen(s)

Overtaken(s, e) ==
    \E i \in 1..Len(bus) :
        /\ bus[i].task = StreamTask[s] /\ bus[i].seq > e.seq
        /\ ~Published(StreamTask[s], e.seq, i)

Skips(s) ==
    \A e \in events[StreamTask[s]] :
        client[s].start < e.seq /\ e.seq <= LastSeen(s) /\ ~Seen(s, e) => Overtaken(s, e)

StreamOK(s) ==
    /\ Ascends(s) /\ CursorOK(s) /\ PendingOK(s) /\ PositionOK(s)
    /\ TailOK(s) /\ Closes(s) /\ Skips(s)

StreamsTypeOK ==
    /\ stream \in [Stream -> StreamRecord]
    /\ client \in [Stream -> ClientRecord]

StreamsInv == StreamsTypeOK /\ \A s \in Stream : StreamOK(s)

-----------------------------------------------------------------------------
(* The tables. *)

LEMMA LargestOfInterval ==
    ASSUME NEW n \in Nat \ {0}
    PROVE  Max(1..n) = n
  <1>1. n \in 1..n /\ \A y \in 1..n : n >= y
    OBVIOUS
  <1>2. ASSUME NEW x \in 1..n, \A y \in 1..n : x >= y PROVE x = n
    BY <1>1, <1>2
  <1>3. QED
    BY <1>1, <1>2 DEF Max

LEMMA MessageTypes ==
    ASSUME TablesTypeOK
    PROVE  /\ \A w \in Writer : /\ writer[w].pc \in WriterLabel /\ Row(w) \in Message
                                /\ Row(w).task \in Task /\ Row(w).seq \in Nat
                                /\ Row(w).type \in EventType
           /\ \A i \in 1..Len(bus) : /\ bus[i] \in Message /\ bus[i].task \in Task
                                     /\ bus[i].seq \in Nat
                                     /\ RowOf(bus[i]) \in Event
           /\ Len(bus) \in Nat
           /\ \A t \in Task : \A e \in events[t] : e.seq \in Nat /\ e.type \in EventType
  <1>1. /\ \A w \in Writer : writer[w] \in [pc : WriterLabel, row : Message]
        /\ \A i \in 1..Len(bus) : bus[i] \in Message
        /\ Len(bus) \in Nat
        /\ \A t \in Task : \A e \in events[t] : e \in Event
    BY DEF TablesTypeOK
  <1>2. QED
    BY <1>1 DEF Message, Event, Row, RowOf

(* An insert that succeeds with a number that was the next one at some time
   takes the next one. *)
LEMMA InsertIsNext ==
    ASSUME TablesTypeOK, NEW t \in Task, LogOK(t), NEW n \in 1..NextSequence(t),
           NEW type \in EventType, InsertEvent(t, n, type)
    PROVE  /\ n = NextSequence(t)
           /\ events' \in [Task -> SUBSET Event]
           /\ events'[t] = events[t] \cup {[seq |-> n, type |-> type]}
           /\ \A u \in Task \ {t} : events'[u] = events[u]
           /\ LogOK(t)'
           /\ (NextSequence(t))' = n + 1
  <1>1. NextSequence(t) \in Nat /\ SequencesOf(t) = 1..(NextSequence(t) - 1)
    BY DEF LogOK
  <1>2. n \notin SequencesOf(t)
    BY DEF InsertEvent, SequenceFree
  <1>3. n = NextSequence(t) /\ n \in Nat \ {0}
    BY <1>1, <1>2
  <1> DEFINE new == [seq |-> n, type |-> type]
  <1>4. new \in Event /\ new.seq = n
    BY <1>3 DEF Event
  <1>5. /\ events' \in [Task -> SUBSET Event]
        /\ events'[t] = events[t] \cup {new}
        /\ \A u \in Task \ {t} : events'[u] = events[u]
    BY <1>4 DEF InsertEvent, TablesTypeOK
  <1> HIDE DEF new
  <1>6. {e.seq : e \in events[t] \cup {new}} = {e.seq : e \in events[t]} \cup {new.seq}
    BY Zenon
  <1>7. (SequencesOf(t))' = SequencesOf(t) \cup {n}
    BY <1>4, <1>5, <1>6 DEF SequencesOf
  <1>8. (SequencesOf(t))' = 1..n
    BY <1>1, <1>3, <1>7
  <1>9. (NextSequence(t))' = n + 1
    BY <1>3, <1>5, <1>8, LargestOfInterval DEF NextSequence
  <1>10. ASSUME NEW e \in events'[t], NEW f \in events'[t], e.seq = f.seq
         PROVE  e = f
    <2>1. \A x \in events[t] : x.seq \in SequencesOf(t)
      BY Zenon DEF SequencesOf
    <2>2. CASE e = new
      BY <1>2, <1>4, <1>5, <1>10, <2>1, <2>2
    <2>3. CASE f = new
      BY <1>2, <1>4, <1>5, <1>10, <2>1, <2>3
    <2>4. CASE e \in events[t] /\ f \in events[t]
      BY <1>10, <2>4 DEF LogOK
    <2>5. QED
      BY <1>5, <2>2, <2>3, <2>4
  <1>11. LogOK(t)'
    <2>1. (NextSequence(t))' \in Nat /\ (SequencesOf(t))' = 1..((NextSequence(t))' - 1)
      BY <1>3, <1>8, <1>9
    <2>2. QED
      BY <1>10, <2>1 DEF LogOK
  <1>12. QED
    BY <1>3, <1>5, <1>9, <1>11 DEF new

(* How a step may change what streams read: each log gets at most its next row,
   the bus at most one more message. *)
Grows ==
    /\ \A t \in Task : \/ events'[t] = events[t]
                       \/ \E type \in EventType :
                            events'[t] = events[t] \cup {[seq |-> NextSequence(t), type |-> type]}
    /\ \/ bus' = bus
       \/ \E m \in Message : bus' = Append(bus, m)

LEMMA SameLog ==
    ASSUME NEW t \in Task, events'[t] = events[t]
    PROVE  /\ (NextSequence(t))' = NextSequence(t)
           /\ LogOK(t) => LogOK(t)'
  BY DEF LogOK, NextSequence, SequencesOf

(* A writer that does not move stays sound while the logs grow. *)
LEMMA OtherWriters ==
    ASSUME TablesInv, NEW w \in Writer, writer'[w] = writer[w],
           \A t \in Task : /\ events[t] \subseteq events'[t]
                           /\ (NextSequence(t))' \in Nat
                           /\ (NextSequence(t))' >= NextSequence(t)
    PROVE  WriterOK(w)'
  <1>1. WriterOK(w) /\ Row(w).task \in Task /\ (Row(w))' = Row(w)
    BY MessageTypes DEF TablesInv, Row
  <1>2. NextSequence(Row(w).task) \in Nat
    BY <1>1 DEF TablesInv, LogOK
  <1> DEFINE m == Row(w)
  <1>3. m.seq \in 1..NextSequence(m.task) => m.seq \in 1..(NextSequence(m.task))'
    BY <1>1, <1>2
  <1> HIDE DEF m
  <1>4. (WriterOK(w))' <=>
            /\ writer[w].pc = "commit" => m.seq \in 1..(NextSequence(m.task))'
            /\ writer[w].pc \in {"publish", "publish_again"} => RowOf(m) \in events'[m.task]
    BY <1>1 DEF WriterOK, m, RowOf
  <1>5. QED
    BY <1>1, <1>3, <1>4 DEF WriterOK, m

(* A step that only moves a writer. *)
LEMMA WriterMoves ==
    ASSUME TablesInv, NEW w \in Writer, UNCHANGED storeVars,
           NEW x \in [pc : WriterLabel, row : Message],
           writer' = [writer EXCEPT ![w] = x],
           bus' = bus \/ (bus' = Append(bus, Row(w)) /\ writer[w].pc \in {"publish", "publish_again"}),
           x.pc = "commit" => x.row.seq \in 1..NextSequence(x.row.task),
           x.pc \in {"publish", "publish_again"} => RowOf(x.row) \in events[x.row.task]
    PROVE  TablesInv' /\ Grows
  <1>0. status' = status /\ events' = events
    BY DEF storeVars
  <1>1. Row(w) \in Message /\ Row(w).task \in Task /\ WriterOK(w) /\ bus \in Seq(Message)
    BY MessageTypes DEF TablesInv, TablesTypeOK
  <1>2. TablesTypeOK'
    <2>1. bus' \in Seq(Message)
      <3> DEFINE m == Row(w)
      <3>1. m \in Message /\ (bus' = bus \/ bus' = Append(bus, m))
        BY <1>1
      <3> HIDE DEF m
      <3>2. QED
        BY <1>1, <3>1
    <2>2. writer' \in [Writer -> [pc : WriterLabel, row : Message]]
      <3> DEFINE R == [pc : WriterLabel, row : Message]
      <3>1. x \in R /\ writer \in [Writer -> R]
        BY DEF TablesInv, TablesTypeOK
      <3> HIDE DEF R
      <3>2. writer' \in [Writer -> R]
        BY <3>1
      <3>3. QED
        BY <3>2 DEF R
    <2>3. QED
      BY <1>0, <2>1, <2>2 DEF TablesInv, TablesTypeOK
  <1>3. \A t \in Task : LogOK(t)' /\ EndOK(t)' /\ (NextSequence(t))' = NextSequence(t)
    BY <1>0, SameLog DEF TablesInv, EndOK
  <1>4. \A u \in Writer : WriterOK(u)'
    <2>1. ASSUME NEW u \in Writer \ {w} PROVE WriterOK(u)'
      <3>1. writer'[u] = writer[u]
        BY DEF TablesInv, TablesTypeOK
      <3>2. \A t \in Task : NextSequence(t) \in Nat
        BY DEF TablesInv, LogOK
      <3>3. QED
        BY <1>0, <1>3, <3>1, <3>2, OtherWriters
    <2>2. WriterOK(w)'
      <3>1. writer'[w] = x /\ x.row.task \in Task
        BY DEF TablesInv, TablesTypeOK, Message
      <3>2. (Row(w))' = x.row /\ (NextSequence(x.row.task))' = NextSequence(x.row.task)
        BY <1>3, <3>1 DEF Row
      <3> DEFINE r == x.row
      <3>3. (Row(w))' = r /\ (NextSequence(r.task))' = NextSequence(r.task)
        BY <3>2
      <3> HIDE DEF r
      <3>4. (WriterOK(w))' <=>
                /\ x.pc = "commit" => r.seq \in 1..(NextSequence(r.task))'
                /\ x.pc \in {"publish", "publish_again"} => RowOf(r) \in events'[r.task]
        BY <3>1, <3>3 DEF WriterOK, RowOf
      <3>5. QED
        BY <1>0, <3>3, <3>4 DEF r
    <2>3. QED
      BY <2>1, <2>2
  <1>5. BusOK'
    <2>1. CASE bus' = bus
      BY <1>0, <2>1 DEF TablesInv, BusOK, RowOf
    <2>2. CASE bus' = Append(bus, Row(w)) /\ writer[w].pc \in {"publish", "publish_again"}
      <3> DEFINE m == Row(w)
      <3>1. RowOf(m) \in events[m.task]
        BY <1>1, <2>2 DEF WriterOK
      <3>2. bus' = Append(bus, m)
        BY <2>2
      <3> HIDE DEF m
      <3>3. /\ Len(bus') = Len(bus) + 1 /\ bus'[Len(bus) + 1] = m /\ Len(bus) \in Nat
            /\ \A i \in 1..Len(bus) : bus'[i] = bus[i]
        BY <1>1, <3>2
      <3>4. \A i \in 1..Len(bus') : i \in 1..Len(bus) \/ i = Len(bus) + 1
        BY <3>3
      <3>5. QED
        BY <1>0, <3>1, <3>3, <3>4 DEF TablesInv, BusOK, RowOf
    <2>3. QED
      BY <2>1, <2>2
  <1>6. Grows
    BY <1>0, <1>1 DEF Grows
  <1>7. QED
    BY <1>2, <1>3, <1>4, <1>5, <1>6 DEF TablesInv

(* A step that inserts a row and leaves the writer that did it about to publish
   that row. *)
LEMMA WriterInserts ==
    ASSUME TablesInv, NEW w \in Writer, NEW t \in Task, NEW n \in 1..NextSequence(t),
           NEW type \in EventType, InsertEvent(t, n, type),
           NEW pc \in {"publish", "publish_again"},
           writer' = [writer EXCEPT ![w] = [pc |-> pc, row |-> [task |-> t, seq |-> n, type |-> type]]],
           bus' = bus,
           status' \in [Task -> TaskStatus \cup {"absent"}],
           \A u \in Task : status'[u] # status[u] =>
               u = t /\ (status'[u] \in Terminal => type \in Terminal)
    PROVE  TablesInv' /\ Grows
  <1> DEFINE m == [task |-> t, seq |-> n, type |-> type]
             x == [pc |-> pc, row |-> m]
             new == [seq |-> n, type |-> type]
  <1>0. TablesTypeOK /\ LogOK(t)
    BY DEF TablesInv
  <1>1. /\ n = NextSequence(t)
        /\ events' \in [Task -> SUBSET Event]
        /\ events'[t] = events[t] \cup {new}
        /\ \A u \in Task \ {t} : events'[u] = events[u]
        /\ LogOK(t)'
        /\ (NextSequence(t))' = n + 1
    BY <1>0, InsertIsNext
  <1>2. NextSequence(t) \in Nat /\ n \in Nat
    BY <1>0 DEF LogOK
  <1>3. m \in Message /\ x \in [pc : WriterLabel, row : Message] /\ RowOf(m) = new /\ m.task = t
        /\ x.pc = pc /\ x.row = m /\ new.type = type
    BY <1>2 DEF Message, WriterLabel, RowOf
  <1>4. writer' = [writer EXCEPT ![w] = x]
    OBVIOUS
  <1> HIDE DEF m, x, new
  <1>5. TablesTypeOK'
    <2> DEFINE R == [pc : WriterLabel, row : Message]
    <2>1. x \in R /\ writer \in [Writer -> R] /\ bus' \in Seq(Message)
      BY <1>0, <1>3 DEF TablesTypeOK
    <2> HIDE DEF R
    <2>2. writer' \in [Writer -> R]
      BY <1>4, <2>1
    <2>3. QED
      BY <1>1, <2>1, <2>2 DEF TablesTypeOK, R
  <1>6. \A u \in Task : /\ LogOK(u)' /\ EndOK(u)'
                        /\ events[u] \subseteq events'[u]
                        /\ (NextSequence(u))' \in Nat /\ (NextSequence(u))' >= NextSequence(u)
    <2> TAKE u \in Task
    <2>1. LogOK(u) /\ EndOK(u) /\ NextSequence(u) \in Nat
      BY DEF TablesInv, LogOK
    <2>2. CASE u = t
      <3>1. LogOK(u)' /\ events[u] \subseteq events'[u] /\ new \in events'[u]
        BY <1>1, <2>2
      <3>2. EndOK(u)'
        BY <1>3, <2>1, <2>2, <3>1 DEF EndOK
      <3>3. QED
        BY <1>1, <1>2, <2>2, <3>1, <3>2
    <2>3. CASE u # t
      <3>1. events'[u] = events[u] /\ status'[u] = status[u]
        BY <1>1, <2>3
      <3>2. EndOK(u)'
        BY <2>1, <3>1 DEF EndOK
      <3>3. QED
        BY <2>1, <3>1, <3>2, SameLog
    <2>4. QED
      BY <2>2, <2>3
  <1>7. \A u \in Writer : WriterOK(u)'
    <2>1. ASSUME NEW u \in Writer \ {w} PROVE WriterOK(u)'
      <3>1. writer'[u] = writer[u]
        BY <1>0, <1>4 DEF TablesTypeOK
      <3>2. QED
        BY <1>6, <3>1, OtherWriters
    <2>2. WriterOK(w)'
      <3>1. writer'[w] = x /\ (Row(w))' = m
        BY <1>0, <1>3, <1>4 DEF TablesTypeOK, Row
      <3>2. RowOf(m) \in events'[m.task]
        BY <1>1, <1>3
      <3>3. QED
        BY <1>3, <3>1, <3>2 DEF WriterOK, RowOf
    <2>3. QED
      BY <2>1, <2>2
  <1>8. BusOK'
    BY <1>0, <1>6, MessageTypes DEF TablesInv, BusOK, RowOf
  <1>9. Grows
    BY <1>1, <1>3 DEF Grows, new
  <1>10. QED
    BY <1>5, <1>6, <1>7, <1>8, <1>9 DEF TablesInv

WriterNext ==
    \E w \in Writer :
        \/ WriterStep(w) \/ PublishFails(w)
        \/ \E t \in Task :
            \/ BeginAppend(w, t)
            \/ \E next \in Outcomes : BeginTransition(w, t, next)
            \/ \E type \in {"permission_requested", "permission_decided"} :
                   CommitPermission(w, t, type)

LEMMA IdleWriter ==
    ASSUME Task # {}
    PROVE  /\ Idle \in [pc : WriterLabel, row : Message]
           /\ Idle.pc = "idle"
  BY DEF Idle, WriterLabel, Message, EventType

(* Writers keep the tables sound. *)
LEMMA WritersKeepTables ==
    ASSUME TablesInv, WriterNext
    PROVE  TablesInv' /\ Grows /\ UNCHANGED <<stream, client>>
  <1> PICK w \in Writer :
        \/ WriterStep(w) \/ PublishFails(w)
        \/ \E t \in Task :
            \/ BeginAppend(w, t)
            \/ \E next \in Outcomes : BeginTransition(w, t, next)
            \/ \E type \in {"permission_requested", "permission_decided"} :
                   CommitPermission(w, t, type)
    BY DEF WriterNext
  <1>0. /\ Row(w) \in Message /\ Row(w).task \in Task /\ Row(w).seq \in Nat
        /\ Row(w).type \in EventType /\ WriterOK(w) /\ TablesTypeOK
        /\ LogOK(Row(w).task)
        /\ writer[w] \in [pc : WriterLabel, row : Message]
    BY MessageTypes DEF TablesInv, TablesTypeOK
  <1>i. Idle \in [pc : WriterLabel, row : Message] /\ Idle.pc = "idle"
    BY <1>0, IdleWriter
  <1>1. ASSUME NEW t \in Task, NEW type \in EventType, BeginWrite(w, t, type)
        PROVE  TablesInv' /\ Grows /\ UNCHANGED <<stream, client>>
    <2> DEFINE x == [pc |-> "sequence", row |-> [task |-> t, seq |-> 0, type |-> type]]
    <2>1. x \in [pc : WriterLabel, row : Message] /\ x.pc = "sequence"
      BY DEF WriterLabel, Message
    <2>2. /\ writer' = [writer EXCEPT ![w] = x] /\ bus' = bus /\ UNCHANGED storeVars
          /\ UNCHANGED <<stream, client>>
      BY <1>1 DEF BeginWrite
    <2> HIDE DEF x
    <2>3. QED
      BY <2>1, <2>2, WriterMoves
  <1>2. ASSUME NEW t \in Task, BeginAppend(w, t)
        PROVE  TablesInv' /\ Grows /\ UNCHANGED <<stream, client>>
    BY <1>1, <1>2 DEF BeginAppend, EventType
  <1>3. ASSUME NEW t \in Task, NEW next \in Outcomes, BeginTransition(w, t, next)
        PROVE  TablesInv' /\ Grows /\ UNCHANGED <<stream, client>>
    <2>1. EventTypeForStatus(next) \in EventType
      BY StreamAssumption DEF EventTypeForStatus, EventType, TaskStatus
    <2>2. QED
      BY <1>1, <1>3, <2>1 DEF BeginTransition
  <1>4. CASE ReadSequence(w)
    <2> DEFINE t == Row(w).task
               m == [Row(w) EXCEPT !.seq = NextSequence(t)]
               x == [pc |-> "commit", row |-> m]
    <2>1. NextSequence(t) \in Nat
      BY <1>0 DEF LogOK
    <2>2. SequencesOf(t) = 1..(NextSequence(t) - 1)
      BY <1>0 DEF LogOK
    <2>a. NextSequence(t) \in Nat \ {0}
      <3>1. CASE events[t] = {}
        BY <3>1 DEF NextSequence
      <3>2. CASE events[t] # {}
        <4>1. SequencesOf(t) # {}
          BY <3>2, Zenon DEF SequencesOf
        <4>2. QED
          BY <2>1, <2>2, <4>1
      <3>3. QED
        BY <3>1, <3>2
    <2>3. m \in Message /\ m.seq = NextSequence(t) /\ m.task = t
      BY <1>0, <2>1 DEF Message
    <2>4. x \in [pc : WriterLabel, row : Message] /\ x.pc = "commit" /\ x.row = m
      BY <2>3 DEF WriterLabel
    <2>5. writer' = [writer EXCEPT ![w] = x]
      <3> DEFINE z == [writer[w] EXCEPT !.pc = "commit"]
                 y == [z EXCEPT !.row.seq = NextSequence(t)]
      <3>1. y = x
        <4>1. z = [pc |-> "commit", row |-> Row(w)]
          BY <1>0 DEF Row
        <4> HIDE DEF z
        <4>2. y = [pc |-> "commit", row |-> [Row(w) EXCEPT !.seq = NextSequence(t)]]
          BY <4>1
        <4>3. QED
          BY <4>2
      <3>2. writer' = [writer EXCEPT ![w] = y]
        <4>1. writer' = [writer EXCEPT ![w].pc = "commit", ![w].row.seq = NextSequence(t)]
          BY <1>4 DEF ReadSequence
        <4>2. writer \in [Writer -> [pc : WriterLabel, row : Message]]
          BY <1>0 DEF TablesTypeOK
        <4> HIDE DEF t
        <4>3. QED
          BY <4>1, <4>2
      <3>3. QED
        BY <3>1, <3>2
    <2>6. UNCHANGED storeVars /\ bus' = bus /\ UNCHANGED <<stream, client>>
      BY <1>4 DEF ReadSequence
    <2> HIDE DEF m, x
    <2>7. x.row.seq \in 1..NextSequence(x.row.task)
      BY <2>a, <2>3, <2>4
    <2>8. QED
      BY <2>4, <2>5, <2>6, <2>7, WriterMoves
  <1>5. CASE PublishFails(w)
    BY <1>5, <1>i, WriterMoves DEF PublishFails, ReturnWriter
  <1>6. CASE Publish(w)
    <2>1. CASE writer[w].pc = "publish_again"
      <3> DEFINE x == [writer[w] EXCEPT !.pc = "publish"]
      <3>1. x \in [pc : WriterLabel, row : Message] /\ x.pc = "publish" /\ x.row = Row(w)
        BY <1>0 DEF WriterLabel, Row
      <3>2. writer' = [writer EXCEPT ![w] = x]
        BY <1>6, <2>1 DEF Publish, MoveWriter
      <3>3. UNCHANGED storeVars /\ UNCHANGED <<stream, client>> /\ bus' = Append(bus, Row(w))
        BY <1>6 DEF Publish
      <3> HIDE DEF x
      <3>4. RowOf(x.row) \in events[x.row.task]
        BY <1>0, <2>1, <3>1 DEF WriterOK
      <3>5. QED
        BY <2>1, <3>1, <3>2, <3>3, <3>4, WriterMoves
    <2>2. CASE writer[w].pc # "publish_again"
      BY <1>6, <1>i, <2>2, WriterMoves DEF Publish, ReturnWriter
    <2>3. QED
      BY <2>1, <2>2
  <1>7. CASE CommitRow(w)
    <2> DEFINE t == Row(w).task
               n == Row(w).seq
               type == Row(w).type
               x == [pc |-> "publish", row |-> [task |-> t, seq |-> n, type |-> type]]
    <2>0. UNCHANGED <<stream, client>> /\ bus' = bus
      BY <1>7 DEF CommitRow
    <2>1. n \in 1..NextSequence(t) /\ t \in Task /\ type \in EventType
      BY <1>0, <1>7 DEF CommitRow, WriterOK
    <2>2. MoveWriter(w, "publish") => writer' = [writer EXCEPT ![w] = x]
      <3>1. Row(w) = [task |-> t, seq |-> n, type |-> type]
        BY <1>0 DEF Message
      <3>2. [writer[w] EXCEPT !.pc = "publish"] = [pc |-> "publish", row |-> Row(w)]
        BY <1>0 DEF Row
      <3>3. MoveWriter(w, "publish") =>
                writer' = [writer EXCEPT ![w] = [writer[w] EXCEPT !.pc = "publish"]]
        BY DEF MoveWriter
      <3>4. QED
        BY <3>1, <3>2, <3>3
    <2>3. CASE type \in TaskStatus /\ CommitTransition(t, n, type) /\ MoveWriter(w, "publish")
      <3>1. InsertEvent(t, n, type) /\ status' = [status EXCEPT ![t] = type]
        BY <2>3 DEF CommitTransition, EventTypeForStatus
      <3>2. /\ status' \in [Task -> TaskStatus \cup {"absent"}]
            /\ \A u \in Task : status'[u] # status[u] =>
                   u = t /\ (status'[u] \in Terminal => type \in Terminal)
        BY <1>0, <2>1, <2>3, <3>1 DEF TablesTypeOK
      <3> HIDE DEF t, n, type
      <3>3. QED
        BY <2>0, <2>1, <2>2, <2>3, <3>1, <3>2, WriterInserts
    <2>4. CASE InsertEvent(t, n, type) /\ MoveWriter(w, "publish") /\ UNCHANGED status
      <3>1. /\ status' \in [Task -> TaskStatus \cup {"absent"}]
            /\ \A u \in Task : status'[u] = status[u]
        BY <1>0, <2>4 DEF TablesTypeOK
      <3> HIDE DEF t, n, type
      <3>2. QED
        BY <2>0, <2>1, <2>2, <2>4, <3>1, WriterInserts
    <2>5. CASE ReturnWriter(w) /\ UNCHANGED storeVars
      BY <1>i, <2>0, <2>5, WriterMoves DEF ReturnWriter
    <2>6. QED
      BY <1>7, <2>3, <2>4, <2>5 DEF CommitRow
  <1>8. ASSUME NEW t \in Task, NEW type \in {"permission_requested", "permission_decided"},
               CommitPermission(w, t, type)
        PROVE  TablesInv' /\ Grows /\ UNCHANGED <<stream, client>>
    <2> DEFINE n == NextSequence(t)
               pc == IF type = "permission_decided" THEN "publish_again" ELSE "publish"
    <2>1. n \in Nat /\ SequencesOf(t) = 1..(n - 1) /\ type \in EventType
      BY DEF TablesInv, LogOK, EventType
    <2>2. n \in 1..NextSequence(t)
      <3>1. CASE events[t] = {}
        BY <3>1 DEF NextSequence
      <3>2. CASE events[t] # {}
        <4>1. SequencesOf(t) # {}
          BY <3>2, Zenon DEF SequencesOf
        <4>2. QED
          BY <2>1, <4>1
      <3>3. QED
        BY <3>1, <3>2
    <2>3. /\ InsertEvent(t, n, type)
          /\ writer' = [writer EXCEPT ![w] =
                           [pc |-> pc, row |-> [task |-> t, seq |-> n, type |-> type]]]
          /\ UNCHANGED <<status, bus, stream, client>>
      BY <1>8 DEF CommitPermission
    <2>4. status' \in [Task -> TaskStatus \cup {"absent"}] /\ \A u \in Task : status'[u] = status[u]
      BY <1>0, <2>3 DEF TablesTypeOK
    <2>5. pc \in {"publish", "publish_again"}
      OBVIOUS
    <2> HIDE DEF n, pc
    <2>6. QED
      BY <2>1, <2>2, <2>3, <2>4, <2>5, WriterInserts
  <1>9. QED
    BY <1>2, <1>3, <1>4, <1>5, <1>6, <1>7, <1>8 DEF WriterStep

-----------------------------------------------------------------------------
(* Streams, while writers write. *)

LEMMA StreamTypes ==
    ASSUME StreamsTypeOK, TablesTypeOK, NEW s \in Stream
    PROVE  /\ StreamTask[s] \in Task
           /\ stream[s] \in StreamRecord /\ client[s] \in ClientRecord
           /\ stream[s].pc \in StreamLabel /\ stream[s].highest \in Nat
           /\ stream[s].position \in Nat \ {0} /\ stream[s].pending \subseteq Event
           /\ stream[s].tail \in BOOLEAN
           /\ client[s].received \in Seq(Event) /\ Len(client[s].received) \in Nat
           /\ client[s].start \in Nat /\ client[s].connects \in Nat /\ client[s].open \in BOOLEAN
           /\ \A i \in 1..Len(client[s].received) : client[s].received[i].seq \in Nat
           /\ \A e \in events[StreamTask[s]] : e \in Event /\ e.seq \in Nat
  <1>1. /\ StreamTask[s] \in Task
        /\ stream[s] \in StreamRecord /\ client[s] \in ClientRecord
        /\ \A e \in events[StreamTask[s]] : e \in Event
    BY StreamAssumption DEF StreamsTypeOK, TablesTypeOK
  <1>2. client[s].received \in Seq(Event)
    BY <1>1 DEF ClientRecord
  <1>3. \A i \in 1..Len(client[s].received) : client[s].received[i] \in Event
    BY <1>2
  <1>4. QED
    BY <1>1, <1>2, <1>3 DEF StreamRecord, ClientRecord, Event

(* The cursor of a client is its start, or the number of a row it has got. *)
LEMMA LastSeenIs ==
    ASSUME StreamsTypeOK, TablesTypeOK, NEW s \in Stream
    PROVE  /\ LastSeen(s) \in Nat
           /\ client[s].received = <<>> => LastSeen(s) = client[s].start
           /\ client[s].received # <<>> =>
                /\ Len(client[s].received) \in 1..Len(client[s].received)
                /\ LastSeen(s) = client[s].received[Len(client[s].received)].seq
  <1>1. client[s].received # <<>> => Len(client[s].received) \in 1..Len(client[s].received)
    BY StreamTypes
  <1>2. QED
    BY <1>1, StreamTypes DEF LastSeen

(* What a stream reads only grows, at its ends. *)
LEMMA GrowthIsAtTheEnd ==
    ASSUME TablesInv, Grows, NEW t \in Task
    PROVE  /\ events[t] \subseteq events'[t]
           /\ \A e \in events'[t] : e \in events[t] \/ \A f \in events[t] : f.seq < e.seq
           /\ Len(bus') >= Len(bus) /\ Len(bus) \in Nat /\ Len(bus') \in Nat
           /\ \A i \in 1..Len(bus) : bus'[i] = bus[i]
  <1>1. ASSUME NEW type \in EventType,
               events'[t] = events[t] \cup {[seq |-> NextSequence(t), type |-> type]}
        PROVE  /\ events[t] \subseteq events'[t]
               /\ \A e \in events'[t] : e \in events[t] \/ \A f \in events[t] : f.seq < e.seq
    <2>1. NextSequence(t) \in Nat /\ SequencesOf(t) = 1..(NextSequence(t) - 1)
      BY DEF TablesInv, LogOK
    <2>2. \A f \in events[t] : f.seq \in SequencesOf(t)
      BY Zenon DEF SequencesOf
    <2>3. \A f \in events[t] : f.seq < NextSequence(t)
      BY <2>1, <2>2
    <2>4. QED
      BY <1>1, <2>3
  <1>2. /\ events[t] \subseteq events'[t]
        /\ \A e \in events'[t] : e \in events[t] \/ \A f \in events[t] : f.seq < e.seq
    BY <1>1 DEF Grows
  <1>3. bus \in Seq(Message)
    BY DEF TablesInv, TablesTypeOK
  <1>4. Len(bus') >= Len(bus) /\ Len(bus) \in Nat /\ Len(bus') \in Nat /\ \A i \in 1..Len(bus) : bus'[i] = bus[i]
    <2>1. CASE bus' = bus
      BY <1>3, <2>1
    <2>2. ASSUME NEW m \in Message, bus' = Append(bus, m)
          PROVE  Len(bus') = Len(bus) + 1 /\ \A i \in 1..Len(bus) : bus'[i] = bus[i]
      BY <1>3, <2>2
    <2>3. QED
      BY <1>3, <2>1, <2>2 DEF Grows
  <1>5. QED
    BY <1>2, <1>4

LEMMA OvertakenStays ==
    ASSUME NEW s, NEW e, Len(bus') >= Len(bus), Len(bus) \in Nat, Len(bus') \in Nat,
           \A i \in 1..Len(bus) : bus'[i] = bus[i],
           Overtaken(s, e)
    PROVE  Overtaken(s, e)'
  <1>1. PICK i \in 1..Len(bus) :
            /\ bus[i].task = StreamTask[s] /\ bus[i].seq > e.seq
            /\ ~Published(StreamTask[s], e.seq, i)
    BY DEF Overtaken
  <1>2. i \in 1..Len(bus') /\ bus'[i] = bus[i] /\ \A j \in 1..i : bus'[j] = bus[j]
    OBVIOUS
  <1>3. ~Published(StreamTask[s], e.seq, i)'
    BY <1>1, <1>2 DEF Published
  <1>4. QED
    BY <1>1, <1>2, <1>3 DEF Overtaken

(* A stream that stands still stays sound while writers write. *)
LEMMA StreamStands ==
    ASSUME TablesInv, TablesTypeOK', Grows, StreamsTypeOK, NEW s \in Stream, StreamOK(s),
           stream'[s] = stream[s], client'[s] = client[s]
    PROVE  StreamOK(s)'
  <1> DEFINE t == StreamTask[s]
  <1>0. TablesTypeOK /\ t \in Task /\ (LastSeen(s))' = LastSeen(s)
    BY StreamTypes DEF TablesInv, LastSeen
  <1>1. /\ events[t] \subseteq events'[t]
        /\ \A e \in events'[t] : e \in events[t] \/ \A f \in events[t] : f.seq < e.seq
    BY <1>0, GrowthIsAtTheEnd
  <1>2. /\ Len(bus') >= Len(bus) /\ Len(bus) \in Nat /\ Len(bus') \in Nat
        /\ \A i \in 1..Len(bus) : bus'[i] = bus[i]
    BY <1>0, GrowthIsAtTheEnd
  <1>3. \A e \in events[t] \cup events'[t] : e.seq \in Nat
    BY <1>0 DEF TablesTypeOK, Event
  <1>4. Ascends(s)'
    BY DEF StreamOK, Ascends
  <1>5. CursorOK(s)'
    BY <1>0, <1>1 DEF StreamOK, CursorOK
  <1>6. PendingOK(s)'
    <2>1. ASSUME stream[s].pc \in {"replay", "refill"}, NEW f \in stream[s].pending,
                 NEW e \in events'[t], e.seq > stream[s].highest, e.seq < f.seq
          PROVE  e \in stream[s].pending
      <3>1. f \in events[t] /\ f.seq \in Nat
        BY <1>3, <2>1 DEF StreamOK, PendingOK
      <3>2. e \in events[t]
        <4>1. ASSUME \A g \in events[t] : g.seq < e.seq PROVE FALSE
          <5>1. f.seq < e.seq /\ e.seq < f.seq
            BY <2>1, <3>1, <4>1
          <5>2. QED
            BY <1>3, <3>1, <5>1
        <4>2. QED
          BY <1>1, <4>1
      <3>3. QED
        BY <2>1, <3>2 DEF StreamOK, PendingOK
    <2>2. QED
      BY <1>1, <2>1 DEF StreamOK, PendingOK
  <1>7. PositionOK(s)'
    <2>1. stream[s].position \in 1..(Len(bus) + 1)
      BY DEF StreamOK, PositionOK
    <2>2. stream[s].position \in 1..(Len(bus') + 1)
      BY <1>2, <2>1
    <2>3. \A j \in 1..Len(bus') : j < stream[s].position => j \in 1..Len(bus) /\ bus'[j] = bus[j]
      BY <1>2, <2>1
    <2>4. QED
      BY <2>2, <2>3 DEF StreamOK, PositionOK, RowOf
  <1>8. TailOK(s)' /\ Closes(s)'
    BY <1>0, <1>1 DEF StreamOK, TailOK, Closes
  <1>9. Skips(s)'
    <2> SUFFICES ASSUME NEW e \in events'[t], client[s].start < e.seq, e.seq <= LastSeen(s),
                        ~Seen(s, e)
                 PROVE  Overtaken(s, e)'
      BY <1>0 DEF Skips, Seen
    <2>1. e \in events[t]
      <3> SUFFICES ASSUME \A f \in events[t] : f.seq < e.seq PROVE FALSE
        BY <1>1
      <3>1. CASE client[s].received = <<>>
        BY <1>0, <1>3, <3>1, LastSeenIs, StreamTypes
      <3>2. CASE client[s].received # <<>>
        <4> DEFINE r == client[s].received[Len(client[s].received)]
        <4>1. r \in events[t] /\ LastSeen(s) = r.seq
          BY <1>0, <3>2, LastSeenIs DEF StreamOK, CursorOK
        <4>2. QED
          BY <1>3, <4>1
      <3>3. QED
        BY <3>1, <3>2
    <2>2. Overtaken(s, e)
      BY <2>1 DEF StreamOK, Skips
    <2>3. QED
      BY <1>2, <2>2, OvertakenStays
  <1>10. QED
    BY <1>4, <1>5, <1>6, <1>7, <1>8, <1>9 DEF StreamOK

LEMMA WritersKeepStreams ==
    ASSUME TablesInv, TablesTypeOK', Grows, StreamsInv, UNCHANGED <<stream, client>>
    PROVE  StreamsInv'
  <1>1. \A s \in Stream : StreamOK(s)'
    BY StreamStands DEF StreamsInv
  <1>2. QED
    BY <1>1 DEF StreamsInv, StreamsTypeOK

-----------------------------------------------------------------------------
(* Streams, one step at a time. *)

(* A step of one stream leaves the tables and the other streams alone. *)
LEMMA OneStreamSteps ==
    ASSUME TablesInv, StreamsInv, UNCHANGED <<storeVars, bus, writer>>, NEW s \in Stream,
           \A u \in Stream \ {s} : stream'[u] = stream[u] /\ client'[u] = client[u],
           StreamsTypeOK', StreamOK(s)'
    PROVE  TablesInv' /\ StreamsInv'
  <1>1. status' = status /\ events' = events /\ bus' = bus /\ writer' = writer
    BY DEF storeVars
  <1>2. \A t \in Task : LogOK(t)' /\ EndOK(t)' /\ (NextSequence(t))' = NextSequence(t)
    BY <1>1, SameLog DEF TablesInv, EndOK
  <1>3. \A t \in Task : NextSequence(t) \in Nat
    BY DEF TablesInv, LogOK
  <1>4. \A w \in Writer : WriterOK(w)'
    BY <1>1, <1>2, <1>3, OtherWriters
  <1>5. BusOK' /\ TablesTypeOK'
    BY <1>1 DEF TablesInv, BusOK, RowOf, TablesTypeOK
  <1>6. Grows
    BY <1>1 DEF Grows
  <1>7. \A u \in Stream \ {s} : StreamOK(u)'
    BY <1>5, <1>6, StreamStands DEF StreamsInv
  <1>8. QED
    BY <1>2, <1>4, <1>5, <1>7 DEF TablesInv, StreamsInv

(* The row that is sent next is the one behind the cursor. *)
LEMMA EarliestIsNext ==
    ASSUME TablesInv, StreamsTypeOK, NEW s \in Stream, StreamOK(s),
           stream[s].pc \in {"replay", "refill"}, stream[s].pending # {}
    PROVE  /\ Earliest(stream[s].pending) \in stream[s].pending
           /\ Earliest(stream[s].pending).seq = stream[s].highest + 1
  <1> DEFINE t == StreamTask[s]
             P == stream[s].pending
             h == stream[s].highest
  <1>1. t \in Task /\ h \in Nat /\ \A e \in events[t] : e.seq \in Nat
    BY StreamTypes DEF TablesInv
  <1>2. /\ P \subseteq events[t]
        /\ \A f \in P : f.seq > h /\ \A e \in events[t] : e.seq > h /\ e.seq < f.seq => e \in P
    BY DEF StreamOK, PendingOK
  <1>3. PICK f \in P : TRUE
    OBVIOUS
  <1>4. NextSequence(t) \in Nat /\ SequencesOf(t) = 1..(NextSequence(t) - 1)
        /\ \A e, g \in events[t] : e.seq = g.seq => e = g
    BY <1>1 DEF TablesInv, LogOK
  <1>5. f.seq \in SequencesOf(t)
    BY <1>2, <1>3, Zenon DEF SequencesOf
  <1>6. f \in events[t] /\ f.seq \in Nat /\ f.seq > h
    BY <1>1, <1>2, <1>3
  <1>7. h + 1 \in SequencesOf(t)
    BY <1>1, <1>4, <1>5, <1>6
  <1>8. PICK e \in events[t] : e.seq = h + 1
    BY <1>7, Zenon DEF SequencesOf
  <1>9. e \in P
    <2>1. CASE e.seq < f.seq
      BY <1>1, <1>2, <1>3, <1>8, <2>1
    <2>2. CASE e.seq = f.seq
      BY <1>4, <1>6, <1>8, <2>2
    <2>3. QED
      BY <1>1, <1>6, <1>8, <2>1, <2>2
  <1>10. \A g \in P : e.seq <= g.seq
    BY <1>1, <1>2, <1>8
  <1> DEFINE first == Earliest(P)
  <1>11. first \in P /\ \A g \in P : first.seq <= g.seq
    BY <1>9, <1>10 DEF Earliest
  <1>12. first.seq = h + 1
    <2>1. first.seq <= e.seq /\ first.seq > h /\ first.seq \in Nat
      BY <1>1, <1>2, <1>9, <1>11
    <2>2. QED
      BY <1>1, <1>8, <2>1
  <1>13. QED
    BY <1>11, <1>12

(* A frame whose row is past the cursor is sent, and what it jumps over was
   overtaken. *)
LEMMA FrameSent ==
    ASSUME TablesInv, StreamsTypeOK, NEW s \in Stream, StreamOK(s), stream[s].pc # "closed",
           UNCHANGED <<events, bus>>,
           NEW e \in events[StreamTask[s]], e.seq > stream[s].highest,
           \A f \in events[StreamTask[s]] :
               f.seq > stream[s].highest /\ f.seq < e.seq => Overtaken(s, f),
           client' = [client EXCEPT ![s].received = Append(@, e)],
           NEW x \in StreamRecord, x.highest = e.seq,
           stream' = [stream EXCEPT ![s] = x]
    PROVE  /\ StreamsTypeOK' /\ (LastSeen(s))' = e.seq
           /\ Ascends(s)' /\ CursorOK(s)' /\ Skips(s)'
  <1> DEFINE t == StreamTask[s]
             old == client[s].received
             n == Len(old)
             new == client'[s].received
  <1>1. /\ t \in Task /\ TablesTypeOK /\ old \in Seq(Event) /\ n \in Nat
        /\ \A f \in events[t] : f \in Event /\ f.seq \in Nat
        /\ \A i \in 1..n : old[i].seq \in Nat
        /\ client[s] \in ClientRecord /\ stream[s].highest \in Nat /\ client[s].start \in Nat
    BY StreamTypes DEF TablesInv
  <1>2. /\ client'[s] = [client[s] EXCEPT !.received = Append(old, e)]
        /\ stream'[s] = x
        /\ \A u \in Stream \ {s} : client'[u] = client[u] /\ stream'[u] = stream[u]
    BY DEF StreamsTypeOK
  <1>3. /\ client'[s] \in ClientRecord /\ new = Append(old, e)
        /\ client'[s].start = client[s].start /\ client'[s].connects = client[s].connects
    <2>1. Append(old, e) \in Seq(Event)
      BY <1>1
    <2> DEFINE q == Append(old, e)
               c == client[s]
               d == client'[s]
    <2>2. q \in Seq(Event) /\ c \in ClientRecord /\ d = [c EXCEPT !.received = q]
      BY <1>1, <1>2, <2>1
    <2> HIDE DEF q, c, d
    <2>3. d \in ClientRecord /\ d.received = q /\ d.start = c.start /\ d.connects = c.connects
      BY <2>2 DEF ClientRecord
    <2>4. QED
      BY <2>3 DEF q, c, d
  <1>4. /\ Len(new) = n + 1 /\ new[n + 1] = e /\ \A i \in 1..n : new[i] = old[i]
    BY <1>1, <1>3
  <1>5. StreamsTypeOK'
    <2>1. client' \in [Stream -> ClientRecord]
      <3>1. client' = [client EXCEPT ![s] = client'[s]] /\ client \in [Stream -> ClientRecord]
        BY <1>2 DEF StreamsTypeOK
      <3> DEFINE y == client'[s]
      <3>2. client' = [client EXCEPT ![s] = y] /\ y \in ClientRecord
        BY <1>3, <3>1
      <3> HIDE DEF y
      <3>3. QED
        BY <3>1, <3>2
    <2>2. QED
      BY <2>1 DEF StreamsTypeOK
  <1> HIDE DEF new
  <1>6. (LastSeen(s))' = e.seq
    <2>1. (LastSeen(s))' = IF new = <<>> THEN client'[s].start ELSE new[Len(new)].seq
      BY DEF LastSeen, new
    <2>2. new # <<>>
      BY <1>1, <1>3
    <2>3. QED
      BY <1>4, <2>1, <2>2
  <1>7. stream[s].highest = LastSeen(s)
    BY DEF StreamOK, CursorOK
  <1>8. \A i \in 1..Len(new) : i \in 1..n \/ i = n + 1
    BY <1>1, <1>4
  <1>9. \A i \in 1..n : old[i].seq < e.seq
    <2> TAKE i \in 1..n
    <2>1. n \in 1..n /\ old # <<>>
      BY <1>1
    <2>2. LastSeen(s) = old[n].seq
      BY <1>1, <2>1, LastSeenIs
    <2>a. Ascends(s)
      BY DEF StreamOK
    <2>b. i = n \/ i < n
      BY <1>1
    <2>3. i = n \/ old[i].seq < old[n].seq
      BY <1>1, <2>1, <2>a, <2>b, Zenon DEF Ascends
    <2>4. QED
      BY <1>1, <1>7, <2>1, <2>2, <2>3
  <1>10. Ascends(s)'
    <2> SUFFICES ASSUME NEW i \in 1..Len(new), NEW j \in 1..Len(new), i < j
                 PROVE  new[i].seq < new[j].seq
      BY DEF Ascends, new
    <2>1. i \in 1..n
      BY <1>1, <1>4, <1>8
    <2>2. CASE j \in 1..n
      BY <1>4, <2>1, <2>2 DEF StreamOK, Ascends
    <2>3. CASE j = n + 1
      BY <1>4, <1>9, <2>1, <2>3
    <2>4. QED
      BY <1>8, <2>2, <2>3
  <1>11. CursorOK(s)'
    <2>1. \A i \in 1..Len(new) : new[i] \in events[t]
      BY <1>4, <1>8 DEF StreamOK, CursorOK
    <2>2. client[s].connects # 0
      BY DEF StreamOK, CursorOK
    <2>3. QED
      BY <1>2, <1>3, <1>6, <2>1, <2>2 DEF CursorOK, new
  <1>12. Skips(s)'
    <2> SUFFICES ASSUME NEW f \in events[t], client[s].start < f.seq, f.seq <= e.seq,
                        ~(Seen(s, f))'
                 PROVE  Overtaken(s, f)'
      BY <1>3, <1>6 DEF Skips
    <2>0. Overtaken(s, f)' <=> Overtaken(s, f)
      BY DEF Overtaken, Published
    <2>1. f # e
      <3>1. (Seen(s, e))'
        <4>1. n + 1 \in DOMAIN new /\ new[n + 1] = e
          BY <1>1, <1>3, <1>4
        <4>2. QED
          BY <4>1 DEF Seen, new
      <3>2. QED
        BY <3>1
    <2>2. f.seq # e.seq
      BY <1>1, <2>1 DEF TablesInv, LogOK
    <2>3. CASE f.seq > stream[s].highest
      BY <1>1, <2>0, <2>2, <2>3
    <2>4. CASE f.seq <= stream[s].highest
      <3>1. ~Seen(s, f)
        <4> SUFFICES ASSUME NEW i \in DOMAIN old, old[i] = f PROVE (Seen(s, f))'
          BY DEF Seen
        <4>1. i \in DOMAIN new /\ new[i] = f
          BY <1>1, <1>3, <1>4
        <4>2. QED
          BY <4>1 DEF Seen, new
      <3>2. QED
        BY <1>7, <2>0, <2>4, <3>1 DEF StreamOK, Skips
    <2>5. QED
      BY <1>1, <2>3, <2>4
  <1>13. QED
    BY <1>5, <1>6, <1>10, <1>11, <1>12

LEMMA StreamReplaced ==
    ASSUME StreamsTypeOK, NEW s \in Stream, NEW x \in StreamRecord,
           stream' = [stream EXCEPT ![s] = x],
           client' = client
    PROVE  /\ StreamsTypeOK' /\ stream'[s] = x /\ client'[s] = client[s]
           /\ \A u \in Stream \ {s} : stream'[u] = stream[u] /\ client'[u] = client[u]
  BY DEF StreamsTypeOK

(* A stream may be closed under a client that has left, and behind a terminal
   row. *)
LEMMA StreamCloses ==
    ASSUME NEW s \in Stream, StreamOK(s), UNCHANGED <<events, bus>>, client'[s] = client[s],
           stream'[s].pc = "closed", stream'[s].position \in 1..(Len(bus) + 1),
           client[s].open =>
               \E e \in events[StreamTask[s]] : e.type \in Terminal /\ e.seq <= LastSeen(s)
    PROVE  StreamOK(s)'
  <1>1. (LastSeen(s))' = LastSeen(s)
    BY DEF LastSeen
  <1>2. Ascends(s)' /\ CursorOK(s)' /\ PendingOK(s)' /\ PositionOK(s)' /\ TailOK(s)'
    BY <1>1 DEF StreamOK, Ascends, CursorOK, PendingOK, PositionOK, TailOK
  <1>3. Closes(s)'
    BY <1>1 DEF Closes
  <1>4. Skips(s)'
    BY <1>1 DEF StreamOK, Skips, Seen, Overtaken, Published
  <1>5. QED
    BY <1>2, <1>3, <1>4 DEF StreamOK

(* A stream may move while its cursor and its client stay. *)
LEMMA StreamMoves ==
    ASSUME NEW s \in Stream, StreamOK(s), UNCHANGED <<events, bus>>, client'[s] = client[s],
           stream[s].pc # "closed", stream'[s].pc # "closed",
           stream'[s].highest = stream[s].highest,
           PendingOK(s)', PositionOK(s)', TailOK(s)'
    PROVE  StreamOK(s)'
  <1>1. (LastSeen(s))' = LastSeen(s)
    BY DEF LastSeen
  <1>2. Ascends(s)' /\ CursorOK(s)' /\ Closes(s)'
    BY <1>1 DEF StreamOK, Ascends, CursorOK, Closes
  <1>3. Skips(s)'
    BY <1>1 DEF StreamOK, Skips, Seen, Overtaken, Published
  <1>4. QED
    BY <1>2, <1>3 DEF StreamOK

(* Send. *)
LEMMA SendKeeps ==
    ASSUME TablesInv, StreamsInv, NEW s \in Stream, stream[s].pc # "closed",
           UNCHANGED <<storeVars, bus, writer>>,
           NEW e \in events[StreamTask[s]], e.seq > stream[s].highest,
           \A f \in events[StreamTask[s]] :
               f.seq > stream[s].highest /\ f.seq < e.seq => Overtaken(s, f),
           NEW next \in StreamRecord, next.position \in 1..(Len(bus) + 1), Send(s, e, next),
           next.pc = "closed" => e.type \in Terminal,
           stream'[s] = [next EXCEPT !.highest = e.seq] =>
               PendingOK(s)' /\ PositionOK(s)' /\ TailOK(s)'
    PROVE  TablesInv' /\ StreamsInv'
  <1> DEFINE x == [next EXCEPT !.highest = e.seq]
             z == [next EXCEPT !.highest = e.seq, !.pc = "closed"]
  <1>0. StreamsTypeOK /\ StreamOK(s) /\ events' = events /\ bus' = bus /\ TablesTypeOK
    BY DEF StreamsInv, storeVars, TablesInv
  <1>1. e.seq \in Nat
    BY <1>0, StreamTypes
  <1>2. x \in StreamRecord /\ x.highest = e.seq /\ x.pc = next.pc
    BY <1>1 DEF StreamRecord
  <1>3. z \in StreamRecord /\ z.pc = "closed" /\ z.position = next.position
    BY <1>1 DEF StreamRecord, StreamLabel
  <1> HIDE DEF x, z
  <1>4. CASE /\ client' = [client EXCEPT ![s].received = Append(@, e)]
             /\ stream' = [stream EXCEPT ![s] = x]
    <2>1. /\ StreamsTypeOK' /\ (LastSeen(s))' = e.seq
          /\ Ascends(s)' /\ CursorOK(s)' /\ Skips(s)'
      BY <1>0, <1>2, <1>4, FrameSent
    <2>2. /\ stream'[s] = x
          /\ \A u \in Stream \ {s} : stream'[u] = stream[u] /\ client'[u] = client[u]
      BY <1>0, <1>4 DEF StreamsTypeOK
    <2>3. PendingOK(s)' /\ PositionOK(s)' /\ TailOK(s)'
      BY <2>2 DEF x
    <2>4. Closes(s)'
      BY <1>0, <1>1, <1>2, <2>1, <2>2 DEF Closes
    <2>5. QED
      BY <2>1, <2>2, <2>3, <2>4, OneStreamSteps DEF StreamOK
  <1>5. CASE ~client[s].open /\ stream' = [stream EXCEPT ![s] = z] /\ UNCHANGED client
    <2>1. /\ StreamsTypeOK' /\ stream'[s] = z /\ client'[s] = client[s]
          /\ \A u \in Stream \ {s} : stream'[u] = stream[u] /\ client'[u] = client[u]
      BY <1>0, <1>3, <1>5, StreamReplaced
    <2>2. StreamOK(s)'
      BY <1>0, <1>3, <1>5, <2>1, StreamCloses
    <2>3. QED
      BY <2>1, <2>2, OneStreamSteps
  <1>6. QED
    BY <1>4, <1>5 DEF Send, x, z

(* A row that was to be sent is sent: nothing is jumped over. *)
LEMMA SendPending ==
    ASSUME TablesInv, StreamsInv, NEW s \in Stream, stream[s].pc \in {"replay", "refill"},
           stream[s].pending # {}, UNCHANGED <<storeVars, bus, writer>>,
           NEW e, e = Earliest(stream[s].pending),
           NEW next \in StreamRecord, next.position = stream[s].position, Send(s, e, next),
           \/ /\ next.pc = stream[s].pc /\ next.tail = stream[s].tail
              /\ next.pending = stream[s].pending \ {e}
           \/ next.pc = "closed" /\ e.type \in Terminal
    PROVE  TablesInv' /\ StreamsInv'
  <1> DEFINE t == StreamTask[s]
             P == stream[s].pending
             h == stream[s].highest
  <1>0. /\ StreamsTypeOK /\ StreamOK(s) /\ events' = events /\ bus' = bus /\ TablesTypeOK
        /\ t \in Task /\ h \in Nat /\ \A f \in events[t] : f.seq \in Nat
        /\ stream[s].position \in 1..(Len(bus) + 1)
    BY StreamTypes DEF StreamsInv, storeVars, TablesInv, StreamOK, PositionOK
  <1>1. e \in P /\ e.seq = h + 1
    BY <1>0, EarliestIsNext
  <1>2. /\ P \subseteq events[t]
        /\ \A f \in P : f.seq > h /\ \A g \in events[t] : g.seq > h /\ g.seq < f.seq => g \in P
    BY <1>0 DEF StreamOK, PendingOK
  <1>3. e \in events[t] /\ e.seq > h /\ \A f \in events[t] : ~(f.seq > h /\ f.seq < e.seq)
    BY <1>0, <1>1, <1>2
  <1>4. \A f \in events[t] : f.seq = e.seq => f = e
    BY <1>0, <1>3 DEF TablesInv, LogOK
  <1> HIDE DEF P, h
  <1>5. ASSUME stream'[s] = [next EXCEPT !.highest = e.seq]
        PROVE  PendingOK(s)' /\ PositionOK(s)' /\ TailOK(s)'
    <2>1. /\ stream'[s].pc = next.pc /\ stream'[s].tail = next.tail
          /\ stream'[s].pending = next.pending /\ stream'[s].position = stream[s].position
          /\ stream'[s].highest = e.seq
      BY <1>5 DEF StreamRecord
    <2>2. CASE next.pc = "closed"
      BY <1>0, <2>1, <2>2 DEF PendingOK, PositionOK, TailOK
    <2>3. CASE /\ next.pc = stream[s].pc /\ next.tail = stream[s].tail
               /\ next.pending = P \ {e}
      <3>1. PendingOK(s)'
        <4>1. \A f \in P \ {e} :
                /\ f.seq > e.seq
                /\ \A g \in events[t] : g.seq > e.seq /\ g.seq < f.seq => g \in P \ {e}
          BY <1>0, <1>1, <1>2, <1>4
        <4>2. QED
          BY <1>0, <1>2, <2>1, <2>3, <4>1 DEF PendingOK
      <3>2. PositionOK(s)'
        <4>1. ASSUME NEW j \in 1..Len(bus), j < stream[s].position, bus[j].task = t,
                     bus[j].seq > e.seq
              PROVE  RowOf(bus[j]) \in P \ {e}
          <5>1. RowOf(bus[j]).seq = bus[j].seq /\ bus[j].seq \in Nat
            BY <1>0, MessageTypes DEF RowOf
          <5>a. \A k \in 1..Len(bus) :
                  k < stream[s].position /\ bus[k].task = t /\ bus[k].seq > h => RowOf(bus[k]) \in P
            BY <1>0, Zenon DEF StreamOK, PositionOK, P, h
          <5>b. bus[j].seq > h
            BY <1>0, <1>1, <4>1, <5>1
          <5>2. RowOf(bus[j]) \in P
            BY <4>1, <5>a, <5>b
          <5>3. QED
            BY <1>0, <1>3, <4>1, <5>1, <5>2
        <4>2. QED
          BY <1>0, <2>1, <2>3, <4>1 DEF PositionOK, RowOf
      <3>3. TailOK(s)'
        <4>1. ASSUME stream[s].pc = "replay", ~stream[s].tail
              PROVE  \E f \in events[t] : f.type \in Terminal /\ (f.seq <= e.seq \/ f \in P \ {e})
          <5>1. PICK f \in events[t] : f.type \in Terminal /\ (f.seq <= h \/ f \in P)
            BY <1>0, <4>1 DEF StreamOK, TailOK, P, h
          <5>2. f.seq <= e.seq \/ f \in P \ {e}
            BY <1>0, <1>1, <1>3, <5>1
          <5>3. QED
            BY <5>1, <5>2
        <4>2. QED
          BY <1>0, <2>1, <2>3, <4>1 DEF TailOK
      <3>4. QED
        BY <3>1, <3>2, <3>3
    <2>4. QED
      BY <2>2, <2>3 DEF P
  <1>6. QED
    BY <1>0, <1>3, <1>5, SendKeeps DEF h

LEMMA ReplayKeeps ==
    ASSUME TablesInv, StreamsInv, NEW s \in Stream, SendReplay(s)
    PROVE  TablesInv' /\ StreamsInv'
  <1> DEFINE e == Earliest(stream[s].pending)
             next == [stream[s] EXCEPT !.pending = @ \ {e}]
  <1>1. /\ stream[s].pc = "replay" /\ stream[s].pending # {}
        /\ Send(s, e, next) /\ UNCHANGED <<storeVars, bus, writer>>
    BY DEF SendReplay
  <1>2. stream[s] \in StreamRecord
    BY StreamTypes DEF StreamsInv, TablesInv
  <1>3. /\ next \in StreamRecord /\ next.position = stream[s].position
        /\ next.pc = stream[s].pc /\ next.tail = stream[s].tail
        /\ next.pending = stream[s].pending \ {e}
    BY <1>2 DEF StreamRecord
  <1> HIDE DEF e, next
  <1>4. QED
    BY <1>1, <1>3, SendPending DEF e

LEMMA MissedKeeps ==
    ASSUME TablesInv, StreamsInv, NEW s \in Stream, SendMissed(s)
    PROVE  TablesInv' /\ StreamsInv'
  <1> DEFINE e == Earliest(stream[s].pending)
             last == IsTerminalEventType(e.type)
             next == [stream[s] EXCEPT !.pc = IF last THEN "closed" ELSE "refill",
                                       !.pending = IF last THEN {} ELSE @ \ {e}]
  <1>1. /\ stream[s].pc = "refill" /\ stream[s].pending # {}
        /\ Send(s, e, next) /\ UNCHANGED <<storeVars, bus, writer>>
    BY DEF SendMissed
  <1>2. stream[s] \in StreamRecord /\ (last <=> e.type \in Terminal)
    BY StreamTypes DEF StreamsInv, TablesInv, IsTerminalEventType
  <1> HIDE DEF e, last
  <1>3. /\ next \in StreamRecord /\ next.position = stream[s].position
        /\ \/ /\ next.pc = stream[s].pc /\ next.tail = stream[s].tail
              /\ next.pending = stream[s].pending \ {e}
           \/ next.pc = "closed" /\ e.type \in Terminal
    <2>1. CASE last
      BY <1>2, <2>1 DEF StreamRecord, StreamLabel
    <2>2. CASE ~last
      BY <1>1, <1>2, <2>2 DEF StreamRecord, StreamLabel
    <2>3. QED
      BY <2>1, <2>2
  <1> HIDE DEF next
  <1>4. QED
    BY <1>1, <1>3, SendPending DEF e

LEMMA OneFurther ==
    ASSUME NEW r \in StreamRecord
    PROVE  LET x == [r EXCEPT !.position = @ + 1]
           IN  /\ x \in StreamRecord /\ x.position = r.position + 1
               /\ x.pc = r.pc /\ x.pending = r.pending /\ x.highest = r.highest
  <1>1. r.position + 1 \in Nat \ {0}
    BY DEF StreamRecord
  <1>2. QED
    BY <1>1 DEF StreamRecord

LEMMA ReceiveKeeps ==
    ASSUME TablesInv, StreamsInv, NEW s \in Stream, Receive(s)
    PROVE  TablesInv' /\ StreamsInv'
  <1> DEFINE t == StreamTask[s]
             h == stream[s].highest
             p == stream[s].position
             m == bus[p]
             e == [seq |-> m.seq, type |-> m.type]
             next == [stream[s] EXCEPT !.position = @ + 1]
             goes == [next EXCEPT !.pc = IF IsTerminalEventType(m.type) THEN "closed" ELSE "tail"]
  <1>0. /\ StreamsTypeOK /\ StreamOK(s) /\ TablesTypeOK /\ stream[s] \in StreamRecord
        /\ t \in Task /\ h \in Nat /\ \A f \in events[t] : f.seq \in Nat
        /\ p \in Nat \ {0} /\ Len(bus) \in Nat
    BY StreamTypes, MessageTypes DEF StreamsInv, TablesInv
  <1>1. /\ stream[s].pc = "tail" /\ p <= Len(bus) /\ UNCHANGED <<storeVars, bus, writer>>
        /\ events' = events /\ bus' = bus
    BY DEF Receive, storeVars
  <1>2. /\ p \in 1..Len(bus) /\ p + 1 \in 1..(Len(bus) + 1) /\ stream[s].pending = {}
        /\ m.seq \in Nat /\ m.task \in Task
    BY <1>0, <1>1, MessageTypes DEF StreamOK, PendingOK
  <1>3. \A j \in 1..Len(bus) : ~(j < p /\ bus[j].task = t /\ bus[j].seq > h)
    BY <1>0, <1>1, <1>2 DEF StreamOK, PositionOK
  <1>4. /\ next \in StreamRecord /\ next.pc = "tail" /\ next.position = p + 1
        /\ next.pending = {} /\ next.highest = h
    BY <1>0, <1>1, <1>2, OneFurther
  <1>5. /\ goes \in StreamRecord /\ goes.pc \in {"tail", "closed"} /\ goes.position = p + 1
        /\ goes.pending = {} /\ (goes.pc = "closed" => e.type \in Terminal)
    BY <1>4 DEF StreamRecord, StreamLabel, IsTerminalEventType
  <1>6. \/ /\ m.task # t \/ m.seq <= h
           /\ stream' = [stream EXCEPT ![s] = next]
           /\ UNCHANGED client
        \/ /\ m.task = t /\ m.seq > h
           /\ Send(s, e, goes)
    BY DEF Receive
  <1>7. e.seq = m.seq /\ e = RowOf(m)
    BY DEF RowOf
  <1>8. \A j \in 1..Len(bus) : j < p + 1 => j < p \/ j = p
    BY <1>0, <1>2
  <1> HIDE DEF next, goes, e
  <1>9. CASE /\ m.task # t \/ m.seq <= h
             /\ stream' = [stream EXCEPT ![s] = next]
             /\ UNCHANGED client
    <2>1. /\ StreamsTypeOK' /\ stream'[s] = next /\ client'[s] = client[s]
          /\ \A u \in Stream \ {s} : stream'[u] = stream[u] /\ client'[u] = client[u]
      BY <1>0, <1>4, <1>9, StreamReplaced
    <2>2. PendingOK(s)' /\ TailOK(s)'
      BY <1>4, <2>1 DEF PendingOK, TailOK
    <2>3. PositionOK(s)'
      <3>1. \A j \in 1..Len(bus) : ~(j < p + 1 /\ bus[j].task = t /\ bus[j].seq > h)
        BY <1>0, <1>2, <1>3, <1>8, <1>9
      <3>2. QED
        BY <1>1, <1>2, <1>4, <2>1, <3>1 DEF PositionOK
    <2>4. StreamOK(s)'
      BY <1>0, <1>1, <1>4, <2>1, <2>2, <2>3, StreamMoves
    <2>5. QED
      BY <1>1, <2>1, <2>4, OneStreamSteps
  <1>10. CASE m.task = t /\ m.seq > h /\ Send(s, e, goes)
    <2>1. e \in events[t]
      BY <1>2, <1>7, <1>10 DEF TablesInv, BusOK
    <2>2. ASSUME NEW f \in events[t], f.seq > h, f.seq < e.seq
          PROVE  Overtaken(s, f)
      <3>1. ~Published(t, f.seq, p)
        <4> SUFFICES ASSUME NEW j \in 1..p, bus[j].task = t, bus[j].seq = f.seq PROVE FALSE
          BY DEF Published
        <4>1. j \in 1..Len(bus) /\ (j < p \/ j = p)
          BY <1>0, <1>2
        <4>2. QED
          BY <1>0, <1>2, <1>3, <1>7, <2>2, <4>1
      <3>2. QED
        BY <1>0, <1>2, <1>7, <1>10, <2>2, <3>1 DEF Overtaken
    <2>3. ASSUME stream'[s] = [goes EXCEPT !.highest = e.seq]
          PROVE  PendingOK(s)' /\ PositionOK(s)' /\ TailOK(s)'
      <3>1. /\ stream'[s].pc = goes.pc /\ stream'[s].pending = {}
            /\ stream'[s].position = p + 1 /\ stream'[s].highest = m.seq
        BY <1>5, <1>7, <2>3 DEF StreamRecord
      <3>2. PendingOK(s)' /\ TailOK(s)'
        BY <1>5, <3>1 DEF PendingOK, TailOK
      <3>3. \A j \in 1..Len(bus) : ~(j < p + 1 /\ bus[j].task = t /\ bus[j].seq > m.seq)
        <4> SUFFICES ASSUME NEW j \in 1..Len(bus), j < p + 1, bus[j].task = t, bus[j].seq > m.seq
                     PROVE  FALSE
          OBVIOUS
        <4>1. bus[j].seq \in Nat /\ (j < p \/ j = p)
          BY <1>0, <1>8, MessageTypes
        <4>2. QED
          BY <1>0, <1>2, <1>3, <1>10, <4>1
      <3>4. PositionOK(s)'
        BY <1>1, <1>2, <3>1, <3>3 DEF PositionOK
      <3>5. QED
        BY <3>2, <3>4
    <2>4. QED
      BY <1>1, <1>2, <1>5, <1>7, <1>10, <2>1, <2>2, <2>3, SendKeeps
  <1>11. QED
    BY <1>6, <1>9, <1>10

(* Steps that change the stream alone. *)
LEMMA MovesKeep ==
    ASSUME TablesInv, StreamsInv, NEW s \in Stream,
           Subscribe(s) \/ (ListReplay(s) /\ client' = client) \/ EndReplay(s) \/ Lag(s) \/ ListMissed(s)
           \/ EndRefill(s) \/ Heartbeat(s)
    PROVE  TablesInv' /\ StreamsInv'
  <1> DEFINE t == StreamTask[s]
             h == stream[s].highest
             r == stream[s]
             after == ListEventsAfter(t, h)
  <1>0. /\ StreamsTypeOK /\ StreamOK(s) /\ TablesTypeOK /\ r \in StreamRecord
        /\ t \in Task /\ h \in Nat /\ Len(bus) \in Nat
        /\ r.position \in 1..(Len(bus) + 1)
        /\ \A f \in events[t] : f \in Event /\ f.seq \in Nat
    BY StreamTypes, MessageTypes DEF StreamsInv, TablesInv, StreamOK, PositionOK
  <1>1. /\ UNCHANGED <<storeVars, bus, writer>> /\ events' = events /\ bus' = bus
        /\ client' = client
    BY DEF Subscribe, ListReplay, EndReplay, Lag, ListMissed, EndRefill, Heartbeat, storeVars
  <1>2. ASSUME NEW x \in StreamRecord, stream' = [stream EXCEPT ![s] = x],
               x.pc # "closed", r.pc # "closed", x.highest = h,
               stream'[s] = x => PendingOK(s)' /\ PositionOK(s)' /\ TailOK(s)'
        PROVE  TablesInv' /\ StreamsInv'
    <2>1. /\ StreamsTypeOK' /\ stream'[s] = x /\ client'[s] = client[s]
          /\ \A u \in Stream \ {s} : stream'[u] = stream[u] /\ client'[u] = client[u]
      BY <1>0, <1>1, <1>2, StreamReplaced
    <2>2. StreamOK(s)'
      BY <1>0, <1>1, <1>2, <2>1, StreamMoves
    <2>3. QED
      BY <1>1, <2>1, <2>2, OneStreamSteps
  <1>3. ASSUME stream' = [stream EXCEPT ![s].pc = "closed"],
               client[s].open => \E e \in events[t] : e.type \in Terminal /\ e.seq <= LastSeen(s)
        PROVE  TablesInv' /\ StreamsInv'
    <2> DEFINE x == [r EXCEPT !.pc = "closed"]
    <2>1. x \in StreamRecord /\ x.pc = "closed" /\ x.position = r.position
      BY <1>0 DEF StreamRecord, StreamLabel
    <2>2. stream' = [stream EXCEPT ![s] = x]
      BY <1>3
    <2> HIDE DEF x
    <2>3. /\ StreamsTypeOK' /\ stream'[s] = x /\ client'[s] = client[s]
          /\ \A u \in Stream \ {s} : stream'[u] = stream[u] /\ client'[u] = client[u]
      BY <1>0, <1>1, <2>1, <2>2, StreamReplaced
    <2>4. StreamOK(s)'
      BY <1>0, <1>1, <1>3, <2>1, <2>3, StreamCloses
    <2>5. QED
      BY <1>1, <2>3, <2>4, OneStreamSteps
  <1>4. /\ after \subseteq events[t] /\ after \subseteq Event
        /\ \A f \in after : f.seq > h
        /\ \A f \in events[t] : f.seq > h => f \in after
    BY <1>0 DEF ListEventsAfter
  <1>5. \A j \in 1..Len(bus) : bus[j].task = t /\ bus[j].seq > h => RowOf(bus[j]) \in after
    <2> SUFFICES ASSUME NEW j \in 1..Len(bus), bus[j].task = t, bus[j].seq > h
                 PROVE  RowOf(bus[j]) \in after
      OBVIOUS
    <2>1. RowOf(bus[j]) \in events[t] /\ RowOf(bus[j]).seq = bus[j].seq
      BY DEF TablesInv, BusOK, RowOf
    <2>2. QED
      BY <1>4, <2>1
  <1> HIDE DEF after
  <1>6. CASE Subscribe(s)
    <2> DEFINE p == Len(bus) + 1
               x == [r EXCEPT !.pc = "list", !.position = p]
    <2>1. p \in 1..(Len(bus) + 1) /\ p \in Nat \ {0}
      BY <1>0
    <2>2. stream' = [stream EXCEPT ![s] = x] /\ r.pc = "subscribe"
      BY <1>6 DEF Subscribe
    <2> HIDE DEF p
    <2>3. /\ x \in StreamRecord /\ x.pc = "list" /\ x.position = p
          /\ x.highest = h /\ x.tail = r.tail
      BY <1>0, <2>1 DEF StreamRecord, StreamLabel
    <2> HIDE DEF x
    <2>4. stream'[s] = x => PendingOK(s)' /\ PositionOK(s)' /\ TailOK(s)'
      BY <1>0, <1>1, <2>1, <2>2, <2>3 DEF PendingOK, PositionOK, TailOK, StreamOK
    <2>5. QED
      BY <1>2, <2>2, <2>3, <2>4
  <1>7. CASE Lag(s)
    <2> DEFINE p == Len(bus) - Capacity + 1
               x == [r EXCEPT !.pc = "lagged", !.position = p]
    <2>1. p \in 1..(Len(bus) + 1)
      BY <1>0, <1>7, StreamAssumption DEF Lag, HasLagged
    <2>2. p \in Nat \ {0}
      BY <2>1
    <2>3. stream' = [stream EXCEPT ![s] = x] /\ r.pc = "tail"
      BY <1>7 DEF Lag
    <2> HIDE DEF p
    <2>4. x \in StreamRecord /\ x.pc = "lagged" /\ x.position = p /\ x.highest = h
      BY <1>0, <2>2 DEF StreamRecord, StreamLabel
    <2> HIDE DEF x
    <2>5. stream'[s] = x => PendingOK(s)' /\ PositionOK(s)' /\ TailOK(s)'
      BY <1>1, <2>1, <2>4 DEF PendingOK, PositionOK, TailOK
    <2>6. QED
      BY <1>2, <2>3, <2>4, <2>5
  <1>8. CASE ListMissed(s)
    <2> DEFINE x == [r EXCEPT !.pc = "refill", !.pending = after]
               y == [r EXCEPT !.pc = "broken"]
    <2>1. /\ x \in StreamRecord /\ x.pc = "refill" /\ x.position = r.position
          /\ x.pending = after /\ x.highest = h
      BY <1>0, <1>4 DEF StreamRecord, StreamLabel
    <2>2. y \in StreamRecord /\ y.pc = "broken" /\ y.position = r.position /\ y.highest = h
      BY <1>0 DEF StreamRecord, StreamLabel
    <2>3. /\ r.pc = "lagged"
          /\ stream' = [stream EXCEPT ![s] = x] \/ stream' = [stream EXCEPT ![s] = y]
      BY <1>8 DEF ListMissed, MoveStream, after
    <2> HIDE DEF x, y
    <2>4. stream'[s] = x => PendingOK(s)' /\ PositionOK(s)' /\ TailOK(s)'
      BY <1>0, <1>1, <1>4, <1>5, <2>1 DEF PendingOK, PositionOK, TailOK, RowOf
    <2>5. stream'[s] = y => PendingOK(s)' /\ PositionOK(s)' /\ TailOK(s)'
      BY <1>0, <1>1, <2>2 DEF PendingOK, PositionOK, TailOK
    <2>6. QED
      BY <1>2, <2>1, <2>2, <2>3, <2>4, <2>5
  <1>9. CASE EndRefill(s)
    <2> DEFINE x == [r EXCEPT !.pc = "tail"]
    <2>1. /\ x \in StreamRecord /\ x.pc = "tail" /\ x.position = r.position
          /\ x.pending = r.pending /\ x.highest = h
      BY <1>0 DEF StreamRecord, StreamLabel
    <2>2. stream' = [stream EXCEPT ![s] = x] /\ r.pc = "refill" /\ r.pending = {}
      BY <1>9 DEF EndRefill, MoveStream
    <2> HIDE DEF x
    <2>3. stream'[s] = x => PendingOK(s)' /\ PositionOK(s)' /\ TailOK(s)'
      BY <1>0, <1>1, <2>1, <2>2 DEF PendingOK, PositionOK, TailOK, StreamOK, RowOf
    <2>4. QED
      BY <1>2, <2>1, <2>2, <2>3
  <1>10. CASE Heartbeat(s)
    BY <1>3, <1>10 DEF Heartbeat, MoveStream
  <1>11. CASE EndReplay(s)
    <2>1. r.pc = "replay" /\ r.pending = {}
      BY <1>11 DEF EndReplay
    <2>2. CASE r.tail
      <3> DEFINE x == [r EXCEPT !.pc = "tail"]
      <3>1. /\ x \in StreamRecord /\ x.pc = "tail" /\ x.position = r.position
            /\ x.pending = r.pending /\ x.highest = h
        BY <1>0 DEF StreamRecord, StreamLabel
      <3>2. stream' = [stream EXCEPT ![s] = x]
        BY <1>11, <2>2 DEF EndReplay, MoveStream
      <3> HIDE DEF x
      <3>3. stream'[s] = x => PendingOK(s)' /\ PositionOK(s)' /\ TailOK(s)'
        BY <1>0, <1>1, <2>1, <3>1 DEF PendingOK, PositionOK, TailOK, StreamOK, RowOf
      <3>4. QED
        BY <1>2, <2>1, <3>1, <3>2, <3>3
    <2>3. CASE ~r.tail
      <3>1. \E e \in events[t] : e.type \in Terminal /\ e.seq <= h
        BY <1>0, <2>1, <2>3 DEF StreamOK, TailOK
      <3>2. h = LastSeen(s)
        BY <1>0, <2>1 DEF StreamOK, CursorOK
      <3>3. stream' = [stream EXCEPT ![s].pc = "closed"]
        BY <1>11, <2>3 DEF EndReplay, MoveStream
      <3>4. QED
        BY <1>3, <3>1, <3>2, <3>3
    <2>4. QED
      BY <1>0, <2>2, <2>3 DEF StreamRecord
  <1>12. CASE ListReplay(s) /\ client' = client
    <2> DEFINE live == r.tail /\ ~(after # {} /\ IsTerminalEventType(Latest(after).type))
               x == [r EXCEPT !.pc = "replay", !.pending = after, !.tail = live]
    <2>0. CASE stream' = [stream EXCEPT ![s].pc = "closed"]
              /\ client' = [client EXCEPT ![s].open = FALSE]
      <3>1. client[s].open = FALSE
        BY <1>0, <1>12, <2>0 DEF StreamsTypeOK, ClientRecord
      <3>2. QED
        BY <1>3, <2>0, <3>1
    <2> SUFFICES ASSUME stream' = [stream EXCEPT ![s] = x] PROVE TablesInv' /\ StreamsInv'
      BY <1>12, <2>0 DEF ListReplay, MoveStream, after
    <2>1. stream' = [stream EXCEPT ![s] = x] /\ r.pc = "list"
      BY <1>12 DEF ListReplay
    <2>2. live \in BOOLEAN
      OBVIOUS
    <2>3. ~live => \E e \in events[t] : e.type \in Terminal /\ (e.seq <= h \/ e \in after)
      <3>1. CASE ~r.tail
        <4>1. PICK e \in events[t] : e.type \in Terminal
          BY <1>0, <2>1, <3>1 DEF StreamOK, TailOK
        <4>2. QED
          BY <1>0, <1>4, <4>1
      <3>2. CASE after # {} /\ IsTerminalEventType(Latest(after).type)
        <4>1. \E e \in after : \A f \in after : f.seq <= e.seq
          <5>1. PICK f \in after : TRUE
            BY <3>2
          <5>2. /\ NextSequence(t) \in Nat /\ SequencesOf(t) = 1..(NextSequence(t) - 1)
            BY <1>0 DEF TablesInv, LogOK
          <5>3. \A g \in events[t] : g.seq \in SequencesOf(t)
            BY Zenon DEF SequencesOf
          <5>4. f \in events[t] /\ f.seq > h /\ f.seq \in Nat
            BY <1>0, <1>4, <5>1
          <5>5. NextSequence(t) - 1 \in SequencesOf(t) /\ NextSequence(t) - 1 > h
                /\ \A g \in events[t] : g.seq <= NextSequence(t) - 1
            BY <1>0, <5>2, <5>3, <5>4
          <5>6. PICK e \in events[t] : e.seq = NextSequence(t) - 1
            BY <5>5, Zenon DEF SequencesOf
          <5>7. QED
            BY <1>4, <5>5, <5>6
        <4>2. Latest(after) \in after
          BY <4>1 DEF Latest
        <4>3. QED
          BY <1>4, <3>2, <4>2 DEF IsTerminalEventType
      <3>3. QED
        BY <3>1, <3>2
    <2> HIDE DEF live
    <2>4. /\ x \in StreamRecord /\ x.pc = "replay" /\ x.position = r.position
          /\ x.pending = after /\ x.highest = h /\ x.tail = live
      BY <1>0, <1>4, <2>2 DEF StreamRecord, StreamLabel
    <2> HIDE DEF x
    <2>5. stream'[s] = x => PendingOK(s)' /\ PositionOK(s)' /\ TailOK(s)'
      BY <1>0, <1>1, <1>4, <1>5, <2>3, <2>4 DEF PendingOK, PositionOK, TailOK, RowOf
    <2>6. QED
      BY <1>2, <2>1, <2>4, <2>5
  <1>13. QED
    BY <1>6, <1>7, <1>8, <1>9, <1>10, <1>11, <1>12

LEMMA ConnectedRecord ==
    ASSUME NEW c \in ClientRecord, NEW start \in Nat
    PROVE  LET d == [c EXCEPT !.open = TRUE, !.connects = @ + 1, !.start = start]
           IN  /\ d \in ClientRecord /\ d.connects = c.connects + 1 /\ d.start = start
               /\ d.received = c.received
  <1> DEFINE n == c.connects + 1
             d == [c EXCEPT !.open = TRUE, !.connects = n, !.start = start]
  <1>1. n \in Nat
    BY DEF ClientRecord
  <1> HIDE DEF n
  <1>2. d \in ClientRecord
    BY <1>1 DEF ClientRecord
  <1>3. d.connects = n /\ d.start = start /\ d.received = c.received
    BY DEF ClientRecord
  <1>4. QED
    BY <1>2, <1>3 DEF n

(* A client connects, for the first time or with the last id it has seen. *)
LEMMA ConnectKeeps ==
    ASSUME TablesInv, StreamsInv, NEW s \in Stream, NEW cursor \in 0..MaxRows, Connect(s, cursor)
    PROVE  TablesInv' /\ StreamsInv'
  <1> DEFINE t == StreamTask[s]
             r == stream[s]
             c == client[s]
             live == status[t] \notin Terminal
             first == c.connects = 0
             start == IF first THEN cursor ELSE c.start
             x == [r EXCEPT !.pc = "subscribe", !.highest = cursor, !.tail = live]
             d == [c EXCEPT !.open = TRUE, !.connects = @ + 1, !.start = start]
  <1>0. /\ StreamsTypeOK /\ StreamOK(s) /\ TablesTypeOK /\ r \in StreamRecord /\ c \in ClientRecord
        /\ t \in Task /\ cursor \in Nat /\ c.start \in Nat /\ c.connects \in Nat
    BY StreamTypes, StreamAssumption DEF StreamsInv, TablesInv
  <1>1. /\ UNCHANGED <<storeVars, bus, writer>> /\ events' = events /\ bus' = bus
        /\ stream' = [stream EXCEPT ![s] = x]
        /\ cursor \in (IF first THEN Cursors ELSE {LastSeen(s)})
    BY DEF Connect, storeVars
  <1>2. client' = [client EXCEPT ![s] = d]
    BY DEF Connect
  <1>3. live \in BOOLEAN /\ start \in Nat
    BY <1>0
  <1> HIDE DEF live, start
  <1>4. /\ x \in StreamRecord /\ x.pc = "subscribe" /\ x.highest = cursor /\ x.tail = live
        /\ x.position = r.position
    BY <1>0, <1>3 DEF StreamRecord, StreamLabel
  <1>5. /\ d \in ClientRecord /\ d.connects = c.connects + 1 /\ d.start = start
        /\ d.received = c.received
    BY <1>0, <1>3, ConnectedRecord
  <1> HIDE DEF x, d
  <1>6. /\ StreamsTypeOK' /\ stream'[s] = x /\ client'[s] = d
        /\ \A u \in Stream \ {s} : stream'[u] = stream[u] /\ client'[u] = client[u]
    BY <1>0, <1>1, <1>2, <1>4, <1>5 DEF StreamsTypeOK
  <1>7. /\ (LastSeen(s))' = cursor
        /\ first => c.received = <<>> /\ start = cursor
        /\ ~first => start = c.start /\ LastSeen(s) = cursor
    <2>1. first => c.received = <<>> /\ start = cursor
      BY <1>0 DEF StreamOK, CursorOK, start
    <2>2. ~first => start = c.start /\ LastSeen(s) = cursor
      BY <1>1 DEF start
    <2>3. QED
      BY <1>5, <1>6, <2>1, <2>2 DEF LastSeen
  <1> HIDE DEF first
  <1>8. Ascends(s)' /\ PendingOK(s)' /\ PositionOK(s)' /\ Closes(s)'
    BY <1>0, <1>1, <1>4, <1>5, <1>6 DEF StreamOK, Ascends, PendingOK, PositionOK, Closes
  <1>9. CursorOK(s)'
    BY <1>0, <1>1, <1>4, <1>5, <1>6, <1>7 DEF StreamOK, CursorOK
  <1>10. TailOK(s)'
    BY <1>0, <1>1, <1>4, <1>6 DEF TailOK, TablesInv, EndOK, live
  <1>11. Skips(s)'
    <2>1. CASE first
      <3>1. \A e \in events[t] : ~(cursor < e.seq /\ e.seq <= cursor)
        BY <1>0 DEF TablesTypeOK, Event
      <3>2. QED
        BY <1>1, <1>5, <1>6, <1>7, <2>1, <3>1 DEF Skips
    <2>2. CASE ~first
      <3>1. \A e \in events[t] : (Seen(s, e))' <=> Seen(s, e)
        BY <1>5, <1>6 DEF Seen
      <3>2. \A e \in events[t] : (Overtaken(s, e))' <=> Overtaken(s, e)
        BY <1>1 DEF Overtaken, Published
      <3>3. QED
        BY <1>0, <1>1, <1>5, <1>6, <1>7, <2>2, <3>1, <3>2 DEF StreamOK, Skips
    <2>3. QED
      BY <2>1, <2>2
  <1>12. QED
    BY <1>1, <1>6, <1>8, <1>9, <1>10, <1>11, OneStreamSteps DEF StreamOK

LEMMA LeaveKeeps ==
    ASSUME TablesInv, StreamsInv, NEW s \in Stream, ClientLeaves(s)
    PROVE  TablesInv' /\ StreamsInv'
  <1> DEFINE c == client[s]
             d == [c EXCEPT !.open = FALSE]
  <1>0. StreamsTypeOK /\ StreamOK(s) /\ TablesTypeOK /\ c \in ClientRecord
    BY StreamTypes DEF StreamsInv, TablesInv
  <1>1. /\ UNCHANGED <<storeVars, bus, writer>> /\ events' = events /\ bus' = bus
        /\ stream' = stream /\ client' = [client EXCEPT ![s] = d]
    BY DEF ClientLeaves, storeVars
  <1>2. /\ d \in ClientRecord /\ d.connects = c.connects /\ d.start = c.start
        /\ d.received = c.received /\ d.open = FALSE
    BY <1>0 DEF ClientRecord
  <1> HIDE DEF d
  <1>3. /\ StreamsTypeOK' /\ client'[s] = d /\ stream'[s] = stream[s]
        /\ \A u \in Stream \ {s} : stream'[u] = stream[u] /\ client'[u] = client[u]
    BY <1>0, <1>1, <1>2 DEF StreamsTypeOK
  <1>4. (LastSeen(s))' = LastSeen(s)
    BY <1>2, <1>3 DEF LastSeen
  <1>5. Ascends(s)' /\ CursorOK(s)' /\ PendingOK(s)' /\ PositionOK(s)' /\ TailOK(s)' /\ Closes(s)'
    BY <1>0, <1>1, <1>2, <1>3, <1>4
       DEF StreamOK, Ascends, CursorOK, PendingOK, PositionOK, TailOK, Closes, RowOf
  <1>6. Skips(s)'
    <2>1. \A e \in events[StreamTask[s]] : (Seen(s, e))' <=> Seen(s, e)
      BY <1>2, <1>3 DEF Seen
    <2>2. \A e \in events[StreamTask[s]] : (Overtaken(s, e))' <=> Overtaken(s, e)
      BY <1>1 DEF Overtaken, Published
    <2>3. QED
      BY <1>0, <1>1, <1>2, <1>3, <1>4, <2>1, <2>2 DEF StreamOK, Skips
  <1>7. QED
    BY <1>1, <1>3, <1>5, <1>6, OneStreamSteps DEF StreamOK

(* A replay that cannot be read is answered with an error. *)
LEMMA RefusalKeeps ==
    ASSUME TablesInv, StreamsInv, NEW s \in Stream, ListReplay(s),
           stream' = [stream EXCEPT ![s].pc = "closed"],
           client' = [client EXCEPT ![s].open = FALSE]
    PROVE  TablesInv' /\ StreamsInv'
  <1> DEFINE c == client[s]
             d == [c EXCEPT !.open = FALSE]
             x == [stream[s] EXCEPT !.pc = "closed"]
  <1>0. /\ StreamsTypeOK /\ StreamOK(s) /\ TablesTypeOK
        /\ c \in ClientRecord /\ stream[s] \in StreamRecord
    BY StreamTypes DEF StreamsInv, TablesInv
  <1>1. /\ UNCHANGED <<storeVars, bus, writer>> /\ events' = events /\ bus' = bus
        /\ stream' = [stream EXCEPT ![s] = x] /\ client' = [client EXCEPT ![s] = d]
        /\ stream[s].pc = "list"
    BY DEF ListReplay, storeVars
  <1>2. /\ d \in ClientRecord /\ d.connects = c.connects /\ d.start = c.start
        /\ d.received = c.received /\ d.open = FALSE
    BY <1>0 DEF ClientRecord
  <1>3. x \in StreamRecord /\ x.pc = "closed" /\ x.position = stream[s].position
    BY <1>0 DEF StreamRecord, StreamLabel
  <1> HIDE DEF d, x
  <1>4. /\ StreamsTypeOK' /\ client'[s] = d /\ stream'[s] = x
        /\ \A u \in Stream \ {s} : stream'[u] = stream[u] /\ client'[u] = client[u]
    BY <1>0, <1>1, <1>2, <1>3 DEF StreamsTypeOK
  <1>5. (LastSeen(s))' = LastSeen(s)
    BY <1>2, <1>4 DEF LastSeen
  <1>6. Ascends(s)' /\ CursorOK(s)' /\ PendingOK(s)' /\ PositionOK(s)' /\ TailOK(s)' /\ Closes(s)'
    BY <1>0, <1>1, <1>2, <1>3, <1>4, <1>5
       DEF StreamOK, Ascends, CursorOK, PendingOK, PositionOK, TailOK, Closes
  <1>7. Skips(s)'
    <2>1. \A e \in events[StreamTask[s]] : (Seen(s, e))' <=> Seen(s, e)
      BY <1>2, <1>4 DEF Seen
    <2>2. \A e \in events[StreamTask[s]] : (Overtaken(s, e))' <=> Overtaken(s, e)
      BY <1>1 DEF Overtaken, Published
    <2>3. QED
      BY <1>0, <1>1, <1>2, <1>4, <1>5, <2>1, <2>2 DEF StreamOK, Skips
  <1>8. QED
    BY <1>1, <1>4, <1>6, <1>7, OneStreamSteps DEF StreamOK

-----------------------------------------------------------------------------
(* All of it. *)

StreamInvariant == TablesInv /\ StreamsInv

LEMMA NextKeeps ==
    ASSUME StreamInvariant, [Next]_vars
    PROVE  StreamInvariant'
  <1> USE DEF StreamInvariant
  <1>1. CASE WriterNext
    <2>1. TablesInv' /\ Grows /\ UNCHANGED <<stream, client>>
      BY <1>1, WritersKeepTables
    <2>2. TablesTypeOK'
      BY <2>1 DEF TablesInv
    <2>3. QED
      BY <2>1, <2>2, WritersKeepStreams
  <1>2. ASSUME NEW s \in Stream, StreamStep(s) PROVE StreamInvariant'
    <2>1. CASE ListReplay(s)
      BY <2>1, MovesKeep, RefusalKeeps DEF ListReplay, MoveStream
    <2>2. QED
      BY <1>2, <2>1, MovesKeep, ReplayKeeps, ReceiveKeeps, MissedKeeps DEF StreamStep
  <1>3. ASSUME NEW s \in Stream, ClientLeaves(s) PROVE StreamInvariant'
    BY <1>3, LeaveKeeps
  <1>4. ASSUME NEW s \in Stream, NEW cursor \in 0..MaxRows, Connect(s, cursor)
        PROVE  StreamInvariant'
    BY <1>4, ConnectKeeps
  <1>5. CASE UNCHANGED vars
    <2>1. /\ status' = status /\ events' = events /\ bus' = bus /\ writer' = writer
          /\ stream' = stream /\ client' = client
      BY <1>5 DEF vars, storeVars
    <2>2. \A t \in Task : LogOK(t)' /\ EndOK(t)' /\ (NextSequence(t))' = NextSequence(t)
      BY <2>1, SameLog DEF TablesInv, EndOK
    <2>3. \A t \in Task : NextSequence(t) \in Nat
      BY DEF TablesInv, LogOK
    <2>4. \A w \in Writer : WriterOK(w)'
      BY <2>1, <2>2, <2>3, OtherWriters
    <2>5. BusOK' /\ TablesTypeOK' /\ Grows
      BY <2>1 DEF TablesInv, BusOK, RowOf, TablesTypeOK, Grows
    <2>6. QED
      BY <2>1, <2>2, <2>4, <2>5, WritersKeepStreams DEF TablesInv
  <1>6. QED
    BY <1>1, <1>2, <1>3, <1>4, <1>5 DEF Next, WriterNext

LEMMA InitSound == Init => StreamInvariant
  <1> SUFFICES ASSUME Init PROVE StreamInvariant
    OBVIOUS
  <1>1. RunningRows \subseteq Event /\ {e.seq : e \in RunningRows} = 1..4
    <2> DEFINE a == [seq |-> 1, type |-> "queued"]
               b == [seq |-> 2, type |-> "waiting"]
               c == [seq |-> 3, type |-> "preparing"]
               d == [seq |-> 4, type |-> "running"]
    <2>1. a \in Event /\ b \in Event /\ c \in Event /\ d \in Event
      BY DEF Event, EventType, TaskStatus
    <2>2. a.seq = 1 /\ b.seq = 2 /\ c.seq = 3 /\ d.seq = 4
      OBVIOUS
    <2> HIDE DEF a, b, c, d
    <2>3. RunningRows = {a, b, c, d}
      BY DEF RunningRows, a, b, c, d
    <2>4. {e.seq : e \in {a, b, c, d}} = {1, 2, 3, 4}
      BY <2>2
    <2>5. {1, 2, 3, 4} = 1..4
      OBVIOUS
    <2>6. QED
      BY <2>1, <2>3, <2>4, <2>5
  <1>2. \A e, f \in RunningRows : e.seq = f.seq => e = f
    BY DEF RunningRows
  <1>3. \A t \in Task : events[t] = RunningRows /\ status[t] = "running"
    BY DEF Init
  <1>4. ASSUME NEW t \in Task PROVE LogOK(t) /\ EndOK(t)
    <2>1. SequencesOf(t) = 1..4
      BY <1>1, <1>3 DEF SequencesOf
    <2>2. events[t] # {}
      BY <1>3 DEF RunningRows
    <2>3. NextSequence(t) = 5
      <3>1. 4 \in Nat \ {0}
        OBVIOUS
      <3>2. Max(1..4) = 4
        BY <3>1, LargestOfInterval
      <3>3. QED
        BY <2>1, <2>2, <3>2 DEF NextSequence
    <2>4. LogOK(t)
      BY <1>2, <1>3, <2>1, <2>3 DEF LogOK
    <2>5. EndOK(t)
      BY <1>3 DEF EndOK, Terminal
    <2>6. QED
      BY <2>4, <2>5
  <1>5. TablesTypeOK
    <2>1. writer \in [Writer -> [pc : WriterLabel, row : Message]]
      BY StreamAssumption, IdleWriter DEF Init
    <2>2. QED
      BY <1>1, <2>1 DEF TablesTypeOK, Init, TaskStatus
  <1>6. \A w \in Writer : WriterOK(w)
    BY DEF Init, WriterOK, Idle
  <1>7. BusOK
    BY DEF Init, BusOK
  <1>8. StreamsTypeOK
    BY DEF Init, StreamsTypeOK, StreamRecord, ClientRecord, StreamLabel
  <1>9. ASSUME NEW s \in Stream PROVE StreamOK(s)
    <2>1. /\ stream[s].pc = "closed" /\ stream[s].position = 1 /\ stream[s].highest = 0
          /\ client[s].open = FALSE /\ client[s].start = 0 /\ client[s].connects = 0
          /\ client[s].received = <<>> /\ bus = <<>>
      BY DEF Init
    <2>2. LastSeen(s) = 0
      BY <2>1 DEF LastSeen
    <2>3. \A e \in events[StreamTask[s]] : e.seq \in Nat
      BY <1>1, <1>3, StreamAssumption DEF Event
    <2>4. QED
      BY <2>1, <2>2, <2>3 DEF StreamOK, Ascends, CursorOK, PendingOK, PositionOK, TailOK,
                              Closes, Skips
  <1>10. QED
    BY <1>4, <1>5, <1>6, <1>7, <1>8, <1>9 DEF StreamInvariant, TablesInv, StreamsInv

-----------------------------------------------------------------------------
(* Theorems. *)

LEMMA StreamInvariantHolds == Spec => []StreamInvariant
  <1>1. Init => StreamInvariant
    BY InitSound
  <1>2. StreamInvariant /\ [Next]_vars => StreamInvariant'
    BY NextKeeps
  <1>3. QED
    BY <1>1, <1>2, PTL DEF Spec

(* The frames a client is sent ascend over all of its connections, whatever the
   order in which the writers publish and however far the receiver lags: the
   cursor of the task spawned by TaskEventService::stream filters both the
   replay and the tail. *)
THEOREM FramesInOrder == Spec => []FramesAscend
  <1>1. StreamInvariant => FramesAscend
    <2> SUFFICES ASSUME StreamInvariant, NEW s \in Stream
                 PROVE  \A i, j \in DOMAIN client[s].received :
                          i < j => client[s].received[i].seq < client[s].received[j].seq
      BY DEF FramesAscend
    <2>1. Ascends(s) /\ client[s].received \in Seq(Event)
      BY DEF StreamInvariant, StreamsInv, StreamOK, StreamsTypeOK, ClientRecord
    <2>2. DOMAIN client[s].received = 1..Len(client[s].received)
      BY <2>1
    <2>3. QED
      BY <2>1, <2>2 DEF Ascends
  <1>2. QED
    BY <1>1, StreamInvariantHolds, PTL

(* A row below the client's cursor that it was not sent was overtaken on the bus
   by a later row of its task: the subscription made before the replay is read,
   the refill after a lag and the reconnect with the last id lose nothing. *)
THEOREM OnlyOvertakenLost == Spec => []OnlyOvertakenIsSkipped
  <1>1. StreamInvariant => OnlyOvertakenIsSkipped
    <2> SUFFICES ASSUME StreamInvariant, NEW s \in Stream, NEW e \in events[StreamTask[s]],
                        client[s].start < e.seq, e.seq <= LastSeen(s), ~Seen(s, e)
                 PROVE  \E i \in DOMAIN bus :
                            /\ bus[i].task = StreamTask[s] /\ bus[i].seq > e.seq
                            /\ ~Published(StreamTask[s], e.seq, i)
      BY DEF OnlyOvertakenIsSkipped
    <2>1. Overtaken(s, e)
      BY DEF StreamInvariant, StreamsInv, StreamOK, Skips
    <2>2. DOMAIN bus = 1..Len(bus)
      BY DEF StreamInvariant, TablesInv, TablesTypeOK
    <2>3. QED
      BY <2>1, <2>2 DEF Overtaken
  <1>2. QED
    BY <1>1, StreamInvariantHolds, PTL

(* A stream that ends under a client that still listens has a terminal row of
   the task at or below the client's cursor, unless the read of the rows it missed in
   a lag failed (TaskEventService::stream). *)
THEOREM ClosedBehindTheEnd == Spec => []ClosesAfterTerminal
  <1>1. StreamInvariant => ClosesAfterTerminal
    BY DEF StreamInvariant, StreamsInv, StreamOK, Closes, ClosesAfterTerminal,
           IsTerminalEventType
  <1>2. QED
    BY <1>1, StreamInvariantHolds, PTL

=============================================================================
