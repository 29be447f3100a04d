-------------------------- MODULE TaskEventStream --------------------------
(***************************************************************************)
(* The event bus and the event stream of task/service.rs, and the store's  *)
(* publishing of task events.                                              *)
(*                                                                         *)
(* A Writer is a call that adds rows to task_events: it commits the row    *)
(* and only then publishes it, and two writers may publish in the other    *)
(* order.  A Stream is a product's connection to the events route: it      *)
(* subscribes to the bus, replays the stored rows after its cursor and     *)
(* then tails the bus.  Streams share nothing but what they read, so a     *)
(* client that reconnects is modelled by its next connection alone.        *)
(***************************************************************************)
EXTENDS TaskStore, Sequences

CONSTANTS
    Writer,      \* calls that add events
    Stream,      \* clients of the events route
    StreamTask,  \* the task each client watches
    Cursors,     \* cursors a client may first connect with
    Outcomes,    \* terminal statuses a task may be moved to
    Capacity,    \* broadcast::channel(256)
    MaxRows,     \* bound: event rows of one task
    MaxConnects  \* bound: connections of one client

ASSUME StreamAssumption ==
    /\ Task # {} /\ StreamTask \in [Stream -> Task]
    /\ Cursors \subseteq Nat /\ Outcomes \subseteq Terminal
    /\ Capacity \in Nat \ {0}
    /\ MaxRows \in Nat /\ MaxConnects \in Nat

VARIABLES
    bus,     \* everything sent on the broadcast channel, in order
    writer,  \* each writer: the statement it is at, and its row
    stream,  \* the spawned task of each connection
    client   \* the client's side of each connection

vars == <<storeVars, bus, writer, stream, client>>

Message == [task : Task, seq : Nat, type : EventType]

WriterLabel == {"idle", "sequence", "commit", "publish", "publish_again"}

StreamLabel == {"closed", "broken", "subscribe", "list", "replay", "tail", "lagged", "refill"}

(* The spawned task has returned; "broken": because a read of the store failed. *)
Over == {"closed", "broken"}

TypeOK ==
    /\ StoreTypeOK
    /\ bus \in Seq(Message)
    /\ writer \in [Writer -> [pc : WriterLabel, row : Message]]
    /\ stream \in [Stream -> [pc : StreamLabel, position : Nat \ {0}, highest : Nat,
                              pending : SUBSET Event, tail : BOOLEAN]]
    /\ client \in [Stream -> [open : BOOLEAN, start : Nat, connects : Nat,
                              received : Seq(Event)]]

(* A task that runs, with the rows of its way there. *)
RunningRows ==
    {[seq |-> 1, type |-> "queued"], [seq |-> 2, type |-> "waiting"],
     [seq |-> 3, type |-> "preparing"], [seq |-> 4, type |-> "running"]}

Idle == [pc |-> "idle", row |-> [task |-> CHOOSE t \in Task : TRUE, seq |-> 0,
                                  type |-> "output"]]

Init ==
    /\ status = [t \in Task |-> "running"]
    /\ events = [t \in Task |-> RunningRows]
    /\ locks = {}
    /\ results = [t \in Task |-> "none"]
    /\ bus = <<>>
    /\ writer = [w \in Writer |-> Idle]
    /\ stream = [s \in Stream |-> [pc |-> "closed", position |-> 1, highest |-> 0,
                                   pending |-> {}, tail |-> FALSE]]
    /\ client = [s \in Stream |-> [open |-> FALSE, start |-> 0, connects |-> 0,
                                   received |-> <<>>]]

-----------------------------------------------------------------------------
(* Writers. *)

Row(w) == writer[w].row

MoveWriter(w, l) == writer' = [writer EXCEPT ![w].pc = l]

ReturnWriter(w) == writer' = [writer EXCEPT ![w] = Idle]

BeginWrite(w, t, type) ==
    /\ writer[w].pc = "idle"
    /\ Cardinality(events[t]) < MaxRows
    /\ writer' = [writer EXCEPT ![w] =
                    [pc |-> "sequence", row |-> [task |-> t, seq |-> 0, type |-> type]]]
    /\ UNCHANGED <<storeVars, bus, stream, client>>

(* TaskStore::append_event: it only asks that the task exists. *)
BeginAppend(w, t) == status[t] # "absent" /\ BeginWrite(w, t, "output")

(* TaskStore::transition, past its validation of the status it read. *)
BeginTransition(w, t, next) ==
    /\ ValidateTransition(status[t], next) = "changed"
    /\ BeginWrite(w, t, EventTypeForStatus(next))

ReadSequence(w) ==
    /\ writer[w].pc = "sequence"
    /\ writer' = [writer EXCEPT ![w].pc = "commit",
                                ![w].row.seq = NextSequence(Row(w).task)]
    /\ UNCHANGED <<storeVars, bus, stream, client>>

(* The row is inserted, or its number is taken and the call fails. *)
CommitRow(w) ==
    /\ writer[w].pc = "commit"
    /\ \/ /\ Row(w).type \in TaskStatus
          /\ CommitTransition(Row(w).task, Row(w).seq, Row(w).type)
          /\ MoveWriter(w, "publish")
       \/ /\ Row(w).type \notin TaskStatus
          /\ InsertEvent(Row(w).task, Row(w).seq, Row(w).type)
          /\ MoveWriter(w, "publish")
          /\ UNCHANGED <<status, locks, results>>
       \/ /\ ~SequenceFree(Row(w).task, Row(w).seq)
          /\ ReturnWriter(w)
          /\ UNCHANGED storeVars
    /\ UNCHANGED <<bus, stream, client>>

RowsOfType(t, type) == Cardinality({e \in events[t] : e.type = type})

(* record_permission_request and resolve_permission_request take the sequence
   number inside their transaction.  A decision is stored for a request that is
   pending; its event is published by the store and again by the service. *)
CommitPermission(w, t, type) ==
    /\ writer[w].pc = "idle"
    /\ Cardinality(events[t]) < MaxRows
    /\ \/ type = "permission_requested"
       \/ /\ type = "permission_decided"
          /\ RowsOfType(t, "permission_decided") < RowsOfType(t, "permission_requested")
    /\ InsertEvent(t, NextSequence(t), type)
    /\ writer' = [writer EXCEPT ![w] =
                    [pc |-> IF type = "permission_decided" THEN "publish_again" ELSE "publish",
                     row |-> [task |-> t, seq |-> NextSequence(t), type |-> type]]]
    /\ UNCHANGED <<status, locks, results, bus, stream, client>>

Publish(w) ==
    /\ writer[w].pc \in {"publish", "publish_again"}
    /\ bus' = Append(bus, Row(w))
    /\ IF writer[w].pc = "publish_again" THEN MoveWriter(w, "publish") ELSE ReturnWriter(w)
    /\ UNCHANGED <<storeVars, stream, client>>

(* The committed row cannot be read back: the call fails and the row is never
   published. *)
PublishFails(w) ==
    /\ writer[w].pc \in {"publish", "publish_again"}
    /\ ReturnWriter(w)
    /\ UNCHANGED <<storeVars, bus, stream, client>>

-----------------------------------------------------------------------------
(* Streams. *)

MoveStream(s, l) == stream' = [stream EXCEPT ![s].pc = l]

(* list_events_after, ORDER BY sequence ASC. *)
ListEventsAfter(t, cursor) == {e \in events[t] : e.seq > cursor}

Earliest(rows) == CHOOSE e \in rows : \A f \in rows : e.seq <= f.seq

Latest(rows) == CHOOSE e \in rows : \A f \in rows : f.seq <= e.seq

IsTerminalEventType(type) == type \in Terminal

LastSeen(s) ==
    IF client[s].received = <<>> THEN client[s].start
    ELSE client[s].received[Len(client[s].received)].seq

(* GET /v1/tasks/:id/events: the cursor of the query or the Last-Event-ID, then
   the task's status.  A client comes back with the last id it saw. *)
Connect(s, cursor) ==
    /\ stream[s].pc \in Over
    /\ client[s].connects < MaxConnects
    /\ cursor \in (IF client[s].connects = 0 THEN Cursors ELSE {LastSeen(s)})
    /\ client' = [client EXCEPT ![s].open = TRUE, ![s].connects = @ + 1,
                    ![s].start = IF client[s].connects = 0 THEN cursor ELSE @]
    /\ stream' = [stream EXCEPT ![s].pc = "subscribe", ![s].highest = cursor,
                    ![s].tail = status[StreamTask[s]] \notin Terminal]
    /\ UNCHANGED <<storeVars, bus, writer>>

Subscribe(s) ==
    /\ stream[s].pc = "subscribe"
    /\ stream' = [stream EXCEPT ![s].pc = "list", ![s].position = Len(bus) + 1]
    /\ UNCHANGED <<storeVars, bus, writer, client>>

(* A read that fails is answered with an error: there is no stream. *)
ListReplay(s) ==
    /\ stream[s].pc = "list"
    /\ LET replay == ListEventsAfter(StreamTask[s], stream[s].highest)
       IN  \/ /\ stream' = [stream EXCEPT ![s].pc = "replay", ![s].pending = replay,
                   ![s].tail = @ /\ ~(replay # {} /\ IsTerminalEventType(Latest(replay).type))]
              /\ UNCHANGED client
           \/ /\ MoveStream(s, "closed")
              /\ client' = [client EXCEPT ![s].open = FALSE]
    /\ UNCHANGED <<storeVars, bus, writer>>

(* The frame is sent, or the receiver was dropped and the task returns. *)
Send(s, e, next) ==
    \/ /\ client[s].open
       /\ client' = [client EXCEPT ![s].received = Append(@, e)]
       /\ stream' = [stream EXCEPT ![s] = [next EXCEPT !.highest = e.seq]]
    \/ /\ ~client[s].open
       /\ stream' = [stream EXCEPT ![s] = [next EXCEPT !.highest = e.seq, !.pc = "closed"]]
       /\ UNCHANGED client

SendReplay(s) ==
    /\ stream[s].pc = "replay" /\ stream[s].pending # {}
    /\ LET e == Earliest(stream[s].pending)
       IN  Send(s, e, [stream[s] EXCEPT !.pending = @ \ {e}])
    /\ UNCHANGED <<storeVars, bus, writer>>

(* Mutants: the subscription is made once the replay has been sent; the live
   tail is never entered. *)
EndReplay_SubscribesNow(s) ==
    /\ stream[s].pc = "replay" /\ stream[s].pending = {}
    /\ stream' = [stream EXCEPT ![s].pc = IF stream[s].tail THEN "tail" ELSE "closed",
                                ![s].position = Len(bus) + 1]
    /\ UNCHANGED <<storeVars, bus, writer, client>>

EndReplay_NoTail(s) ==
    /\ stream[s].pc = "replay" /\ stream[s].pending = {}
    /\ MoveStream(s, "closed")
    /\ UNCHANGED <<storeVars, bus, writer, client>>

EndReplay(s) ==
    /\ stream[s].pc = "replay" /\ stream[s].pending = {}
    /\ MoveStream(s, IF stream[s].tail THEN "tail" ELSE "closed")
    /\ UNCHANGED <<storeVars, bus, writer, client>>

HasLagged(s) == Len(bus) - stream[s].position + 1 > Capacity

(* Mutants of the next action: the sequence filter is missing; a terminal event
   is sent and the loop goes on. *)
Receive_NoFilter(s) ==
    /\ stream[s].pc = "tail" /\ stream[s].position <= Len(bus) /\ ~HasLagged(s)
    /\ LET m == bus[stream[s].position]
           next == [stream[s] EXCEPT !.position = @ + 1]
       IN  \/ /\ m.task # StreamTask[s]
              /\ stream' = [stream EXCEPT ![s] = next]
              /\ UNCHANGED client
           \/ /\ m.task = StreamTask[s]
              /\ Send(s, [seq |-> m.seq, type |-> m.type],
                      [next EXCEPT !.pc = IF IsTerminalEventType(m.type) THEN "closed" ELSE "tail"])
    /\ UNCHANGED <<storeVars, bus, writer>>

Receive_NeverEnds(s) ==
    /\ stream[s].pc = "tail" /\ stream[s].position <= Len(bus) /\ ~HasLagged(s)
    /\ LET m == bus[stream[s].position]
           next == [stream[s] EXCEPT !.position = @ + 1]
       IN  \/ /\ m.task # StreamTask[s] \/ m.seq <= stream[s].highest
              /\ stream' = [stream EXCEPT ![s] = next]
              /\ UNCHANGED client
           \/ /\ m.task = StreamTask[s] /\ m.seq > stream[s].highest
              /\ Send(s, [seq |-> m.seq, type |-> m.type], next)
    /\ UNCHANGED <<storeVars, bus, writer>>

(* live.recv() returns the next event of the channel. *)
Receive(s) ==
    /\ stream[s].pc = "tail" /\ stream[s].position <= Len(bus) /\ ~HasLagged(s)
    /\ LET m == bus[stream[s].position]
           next == [stream[s] EXCEPT !.position = @ + 1]
       IN  \/ /\ m.task # StreamTask[s] \/ m.seq <= stream[s].highest
              /\ stream' = [stream EXCEPT ![s] = next]
              /\ UNCHANGED client
           \/ /\ m.task = StreamTask[s] /\ m.seq > stream[s].highest
              /\ Send(s, [seq |-> m.seq, type |-> m.type],
                      [next EXCEPT !.pc = IF IsTerminalEventType(m.type) THEN "closed" ELSE "tail"])
    /\ UNCHANGED <<storeVars, bus, writer>>

(* live.recv() returns Lagged: the receiver is moved to the oldest event the
   channel still holds. *)
Lag(s) ==
    /\ stream[s].pc = "tail" /\ HasLagged(s)
    /\ stream' = [stream EXCEPT ![s].pc = "lagged", ![s].position = Len(bus) - Capacity + 1]
    /\ UNCHANGED <<storeVars, bus, writer, client>>

(* A read that fails ends the task: the client's stream just stops. *)
ListMissed(s) ==
    /\ stream[s].pc = "lagged"
    /\ \/ stream' = [stream EXCEPT ![s].pc = "refill",
                       ![s].pending = ListEventsAfter(StreamTask[s], stream[s].highest)]
       \/ MoveStream(s, "broken")
    /\ UNCHANGED <<storeVars, bus, writer, client>>

SendMissed(s) ==
    /\ stream[s].pc = "refill" /\ stream[s].pending # {}
    /\ LET e == Earliest(stream[s].pending)
           last == IsTerminalEventType(e.type)
       IN  Send(s, e, [stream[s] EXCEPT !.pc = IF last THEN "closed" ELSE "refill",
                                        !.pending = IF last THEN {} ELSE @ \ {e}])
    /\ UNCHANGED <<storeVars, bus, writer>>

EndRefill(s) ==
    /\ stream[s].pc = "refill" /\ stream[s].pending = {}
    /\ MoveStream(s, "tail")
    /\ UNCHANGED <<storeVars, bus, writer, client>>

(* Mutant: a heartbeat that cannot be sent is ignored. *)
Heartbeat_Ignored(s) ==
    /\ stream[s].pc = "tail" /\ ~client[s].open
    /\ UNCHANGED vars

(* A heartbeat that cannot be sent ends the task; one that can changes nothing. *)
Heartbeat(s) ==
    /\ stream[s].pc = "tail" /\ ~client[s].open
    /\ MoveStream(s, "closed")
    /\ UNCHANGED <<storeVars, bus, writer, client>>

ClientLeaves(s) ==
    /\ client[s].open
    /\ client' = [client EXCEPT ![s].open = FALSE]
    /\ UNCHANGED <<storeVars, bus, writer, stream>>

-----------------------------------------------------------------------------
WriterStep(w) == ReadSequence(w) \/ CommitRow(w) \/ Publish(w)

StreamStep(s) ==
    \/ Subscribe(s) \/ ListReplay(s) \/ SendReplay(s) \/ EndReplay(s)
    \/ Receive(s) \/ Lag(s) \/ ListMissed(s) \/ SendMissed(s) \/ EndRefill(s)
    \/ Heartbeat(s)

Next ==
    \/ \E w \in Writer :
        \/ WriterStep(w) \/ PublishFails(w)
        \/ \E t \in Task :
            \/ BeginAppend(w, t)
            \/ \E next \in Outcomes : BeginTransition(w, t, next)
            \/ \E type \in {"permission_requested", "permission_decided"} :
                   CommitPermission(w, t, type)
    \/ \E s \in Stream :
        \/ StreamStep(s) \/ ClientLeaves(s)
        \/ \E cursor \in 0..MaxRows : Connect(s, cursor)

(* A spawned stream task and a call that is past its first statement are run by
   the tokio runtime until they return. *)
Spec ==
    /\ Init /\ [][Next]_vars
    /\ \A w \in Writer : WF_vars(WriterStep(w))
    /\ \A s \in Stream : WF_vars(StreamStep(s))

-----------------------------------------------------------------------------
(* Properties. *)

(* No duplicates and no reordering, over all of a client's connections: replay
   and live events overlap, decisions are published twice and writers publish
   out of order, and still each id a client sees is larger than the one before
   (the highest cursor of the spawned task in TaskEventService::stream). *)
FramesAscend ==
    \A s \in Stream : \A i, j \in DOMAIN client[s].received :
        i < j => client[s].received[i].seq < client[s].received[j].seq

Published(t, n, i) == \E j \in 1..i : bus[j].task = t /\ bus[j].seq = n

Seen(s, e) == \E i \in DOMAIN client[s].received : client[s].received[i] = e

(* What a client has passed without seeing it was overtaken on the bus: a later
   row of the task was published before it.  Neither the handoff from replay to
   the live tail, nor a lag, nor a reconnect loses a row on its own. *)
OnlyOvertakenIsSkipped ==
    \A s \in Stream : \A e \in events[StreamTask[s]] :
        client[s].start < e.seq /\ e.seq <= LastSeen(s) /\ ~Seen(s, e) =>
            \E i \in DOMAIN bus :
                /\ bus[i].task = StreamTask[s] /\ bus[i].seq > e.seq
                /\ ~Published(StreamTask[s], e.seq, i)

(* A stream is closed under a client that still listens only when the client's
   cursor has reached a terminal row, or when the rows missed in a lag could not be
   read (the stream is then "broken"): status, subscription and replay are read at
   three different times, and no mixture of old and new cuts a live task's stream
   short or ends a replay before the terminal row. *)
ClosesAfterTerminal ==
    \A s \in Stream :
        client[s].open /\ stream[s].pc = "closed" =>
            \E e \in events[StreamTask[s]] :
                IsTerminalEventType(e.type) /\ e.seq <= LastSeen(s)

(* A row added behind the terminal one: the output of a provider that ended
   after its task was cancelled, or a second terminal row. *)
LateRow ==
    \E t \in Task : \E e, f \in events[t] : e.type \in Terminal /\ f.seq > e.seq

AllPublished ==
    \A t \in Task : \A e \in events[t] \ RunningRows : Published(t, e.seq, Len(bus))

(* The stream of a task that has ended is closed: it does not wait for ever,
   provided that the terminal row is the last and that it was published. *)
StreamEnds ==
    []~LateRow /\ <>[]AllPublished =>
        \A s \in Stream : status[StreamTask[s]] \in Terminal ~> stream[s].pc \in Over

(* A connection whose client has left is given up, whatever the task does: the
   heartbeat finds out. *)
GoneClientIsReaped ==
    \A s \in Stream : ~client[s].open ~> stream[s].pc \in Over

=============================================================================
