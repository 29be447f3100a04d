---------------------------- MODULE ControlPlane ----------------------------
(***************************************************************************)
(* The control plane client (control_plane/client.rs) and the dispatch of  *)
(* remote tasks (control_plane/dispatch.rs).                               *)
(*                                                                         *)
(* The client is one tokio task: it connects, subscribes to the event bus, *)
(* registers and then takes, one at a time, a heartbeat tick, a frame of   *)
(* the websocket or a task event.  A frame is handled to its end before    *)
(* the next one.  The control plane, the link and the calls that move the  *)
(* tasks (a Mover: the scheduler's execute_task, the API's cancel) are its *)
(* environment; such a call and the client's own cancel interleave at the  *)
(* statements of TaskStore::transition.                                    *)
(***************************************************************************)
EXTENDS DaemonRegistration, TaskState

CONSTANTS
    Remote,      \* remote task ids
    Mover,       \* other calls that move the tasks
    Capacity,    \* of the event bus
    Outcomes,    \* terminal statuses a run may end in
    MaxFrames,   \* bound: frames the control plane sends
    MaxCuts      \* bound: broken links and restarts

ASSUME ControlPlaneAssumption ==
    /\ Capacity \in Nat \ {0}
    /\ Outcomes \subseteq Terminal
    /\ MaxFrames \in Nat /\ MaxCuts \in Nat
    /\ "client" \notin Mover

Caller == Mover \cup {"client"}

VARIABLES
    status,     \* of the local task made for each remote id, or "absent"
    lastSeq,    \* the sequence number of its last event
    stale,      \* history: tasks moved from a status that did not allow it
    copies,     \* how many local tasks carry the remote id
    mover,      \* where each caller is in TaskStore::transition
    bus,        \* the events of remote tasks, as published
    client,     \* where run and run_session are, and the receiver's position
    link,       \* the websocket: "down", "up", or "broken" and not yet noticed
    inbound,    \* frames on their way to the daemon
    delivered,  \* ControlPlaneCallbackService::delivered
    callbacks,  \* callbacks that have arrived at the control plane
    sent, cuts  \* the bounds

tableVars == <<status, lastSeq, stale, copies>>
taskVars == <<status, lastSeq, stale, copies, mover, bus>>
planeVars == <<callbacks, sent, cuts>>

vars == <<daemonVars, status, lastSeq, stale, copies, mover, bus, client, link, inbound,
          delivered, callbacks, sent, cuts>>

Frame ==
    [kind : {"accepted"}, daemon : Daemon]
        \cup [kind : {"task_dispatch", "task_cancel"}, remote : Remote]
        \cup [kind : {"heartbeat_ack", "invalid", "close", "ignored"}]

BusEvent == [remote : Remote, type : TaskStatus, seq : Nat]

ClientLabel == {"connect", "subscribe", "register", "loop", "transition", "stopped"}

NoMove == [pc |-> "idle"]

Move == [pc : {"commit", "publish"}, remote : Remote, next : TaskStatus, seq : Nat]

Callback == [remote : Remote, event : {"waiting", "running"} \cup Terminal]

TypeOK ==
    /\ DaemonTypeOK
    /\ status \in [Remote -> TaskStatus \cup {"absent"}]
    /\ lastSeq \in [Remote -> Nat] /\ stale \subseteq Remote
    /\ copies \in [Remote -> Nat]
    /\ mover \in [Caller -> Move \cup {NoMove}]
    /\ bus \in Seq(BusEvent)
    /\ client \in [pc : ClientLabel, position : Nat \ {0}]
    /\ link \in {"down", "up", "broken"}
    /\ inbound \in Seq(Frame)
    /\ delivered \subseteq (Remote \X Int)
    /\ callbacks \in Seq(Callback)
    /\ sent \in 0..MaxFrames /\ cuts \in 0..MaxCuts

Init ==
    /\ DaemonInit
    /\ status = [r \in Remote |-> "absent"]
    /\ lastSeq = [r \in Remote |-> 0] /\ stale = {}
    /\ copies = [r \in Remote |-> 0]
    /\ mover = [m \in Caller |-> NoMove]
    /\ bus = <<>>
    /\ client = [pc |-> "connect", position |-> 1]
    /\ link = "down"
    /\ inbound = <<>>
    /\ delivered = {}
    /\ callbacks = <<>>
    /\ sent = 0 /\ cuts = 0

-----------------------------------------------------------------------------
(* run and run_session. *)

Goto(l) == client' = [client EXCEPT !.pc = l]

(* Any error ends run, and with it the client. *)
Stop == Goto("stopped")

(* run_session returns Ok: run sleeps and opens the next session. *)
EndSession ==
    /\ client' = [client EXCEPT !.pc = "connect"]
    /\ link' = "down"
    /\ inbound' = <<>>

Connect ==
    /\ client.pc = "connect"
    /\ \/ Goto("subscribe") /\ link' = "up"
       \/ Stop /\ UNCHANGED link
    /\ UNCHANGED <<daemonVars, taskVars, inbound, delivered, planeVars>>

Subscribe ==
    /\ client.pc = "subscribe"
    /\ client' = [pc |-> "register", position |-> Len(bus) + 1]
    /\ UNCHANGED <<daemonVars, taskVars, link, inbound, delivered, planeVars>>

(* A send succeeds on a link that is up; on one that is broken it fails, or it
   succeeds and the message is lost. *)
SendFails == link = "broken" /\ Stop

Register ==
    /\ client.pc = "register"
    /\ \/ Goto("loop") /\ BuildRegistrationRequest /\ UNCHANGED <<now, rows, contact, reported>>
       \/ SendFails /\ UNCHANGED daemonVars
    /\ UNCHANGED <<taskVars, link, inbound, delivered, planeVars>>

Heartbeat ==
    /\ client.pc = "loop"
    /\ \/ SendHeartbeat /\ UNCHANGED client
       \/ SendFails /\ UNCHANGED daemonVars
    /\ UNCHANGED <<taskVars, link, inbound, delivered, planeVars>>

(* The reader sees the end of the connection. *)
LinkLost ==
    /\ client.pc = "loop" /\ link = "broken"
    /\ EndSession
    /\ UNCHANGED <<daemonVars, taskVars, delivered, planeVars>>

-----------------------------------------------------------------------------
(* Moves of the local tasks. *)

(* The row of a move is in the table; its event is still to be published. *)
Commit(m, r, next) ==
    /\ status' = [status EXCEPT ![r] = next]
    /\ lastSeq' = [lastSeq EXCEPT ![r] = @ + 1]
    /\ mover' = [mover EXCEPT ![m] = [pc |-> "publish", remote |-> r, next |-> next,
                                      seq |-> lastSeq[r] + 1]]
    /\ UNCHANGED bus

(* The call returns; the client goes on with the next arm, or ends with the error. *)
ReturnMove(m, ok) ==
    /\ mover' = [mover EXCEPT ![m] = NoMove]
    /\ IF m = "client" THEN Goto(IF ok THEN "loop" ELSE "stopped") ELSE UNCHANGED client

(* TaskStore::transition, past the validation of the status it read. *)
BeginMove(m, r, next) ==
    /\ ValidateTransition(status[r], next) = "changed"
    /\ mover' = [mover EXCEPT ![m] = [pc |-> "commit", remote |-> r, next |-> next, seq |-> 0]]
    /\ UNCHANGED <<tableVars, bus>>

(* The sequence number is read and the transaction commits, whatever the status is
   by now; or the number was taken in between, or a statement fails. *)
CommitMove(m) ==
    /\ mover[m].pc = "commit"
    /\ LET r == mover[m].remote
           next == mover[m].next
       IN  \/ /\ Commit(m, r, next)
              /\ stale' = IF <<status[r], next>> \in AllowedTransitions THEN stale
                          ELSE stale \cup {r}
              /\ UNCHANGED <<copies, client>>
           \/ ReturnMove(m, FALSE) /\ UNCHANGED <<tableVars, bus>>
    /\ UNCHANGED <<daemonVars, link, inbound, delivered, planeVars>>

(* The event is read back and published; or the read fails. *)
PublishMove(m) ==
    /\ mover[m].pc = "publish"
    /\ \/ /\ bus' = Append(bus, [remote |-> mover[m].remote, seq |-> mover[m].seq,
                                  type |-> EventTypeForStatus(mover[m].next)])
          /\ ReturnMove(m, TRUE)
       \/ ReturnMove(m, FALSE) /\ UNCHANGED bus
    /\ UNCHANGED <<daemonVars, tableVars, link, inbound, delivered, planeVars>>

-----------------------------------------------------------------------------
(* Frames. *)

FindByRemoteTaskId(r) == status[r] # "absent"

(* Mutant: a dispatch is not compared with the tasks that are there. *)
Ingest_Always(r) ==
    /\ Commit("client", r, "queued")
    /\ copies' = [copies EXCEPT ![r] = @ + 1]
    /\ Goto("transition")
    /\ UNCHANGED stale

(* ingest: a remote id that has a task gets that task; otherwise it is enqueued. *)
Ingest(r) ==
    \/ FindByRemoteTaskId(r) /\ UNCHANGED <<taskVars, client>>
    \/ /\ ~FindByRemoteTaskId(r)
       /\ Commit("client", r, "queued")
       /\ copies' = [copies EXCEPT ![r] = @ + 1]
       /\ Goto("transition")
       /\ UNCHANGED stale

(* cancel_remote_task: an unknown id is an error, and so is a task that has
   ended in another way. *)
CancelRemoteTask(r) ==
    /\ FindByRemoteTaskId(r)
    /\ \/ BeginMove("client", r, "cancelled") /\ Goto("transition")
       \/ /\ ValidateTransition(status[r], "cancelled") = "idempotent"
          /\ UNCHANGED <<taskVars, client>>

(* parse_registration_accepted, then handle_text.  A message that is malformed, a
   dispatch that is invalid or refused, a cancel of a task that is unknown or over
   and a store that fails are errors. *)
HandleFrame ==
    /\ client.pc = "loop" /\ inbound # <<>>
    /\ inbound' = Tail(inbound)
    /\ LET f == Head(inbound)
       IN  \/ /\ f.kind = "accepted"
              /\ \/ Accept(f.daemon, TRUE) /\ UNCHANGED client
                 \/ Accept(f.daemon, FALSE) /\ SendFails
              /\ UNCHANGED taskVars
           \/ f.kind = "task_dispatch" /\ Ingest(f.remote) /\ UNCHANGED daemonVars
           \/ f.kind = "task_cancel" /\ CancelRemoteTask(f.remote) /\ UNCHANGED daemonVars
           \/ f.kind = "heartbeat_ack" /\ MarkHeartbeat /\ UNCHANGED <<taskVars, client>>
           \/ f.kind = "ignored" /\ UNCHANGED <<daemonVars, taskVars, client>>
           \/ f.kind \notin {"ignored", "close"} /\ Stop /\ UNCHANGED <<daemonVars, taskVars>>
    /\ UNCHANGED <<link, delivered, planeVars>>

HandleClose ==
    /\ client.pc = "loop" /\ inbound # <<>> /\ Head(inbound).kind = "close"
    /\ EndSession
    /\ UNCHANGED <<daemonVars, taskVars, delivered, planeVars>>

-----------------------------------------------------------------------------
(* Task events. *)

NoCallback == [key |-> 0, event |-> "none"]

(* Mutant: the callback of a state is keyed by the event that led to it. *)
CallbackForTaskState_ByEvent(e) ==
    CASE status[e.remote] = "waiting" -> [key |-> e.seq, event |-> "waiting"]
      [] status[e.remote] = "running" -> [key |-> e.seq, event |-> "running"]
      [] OTHER -> NoCallback

(* callback_for_task_state goes by the status the task has by now: task.claimed
   or task.started, each once (state_sequence). *)
CallbackForTaskState(e) ==
    CASE status[e.remote] = "waiting" -> [key |-> 0 - 1, event |-> "waiting"]
      [] status[e.remote] = "running" -> [key |-> 0 - 2, event |-> "running"]
      [] OTHER -> NoCallback

(* Mutant: an end has the key of the start. *)
CallbackForEvent_SameKey(e) ==
    IF e.type \in Terminal THEN [key |-> 0 - 2, event |-> e.type] ELSE NoCallback

(* callback_for_event: the terminal events, by their sequence number. *)
CallbackForEvent(e) ==
    IF e.type \in Terminal THEN [key |-> e.seq, event |-> e.type] ELSE NoCallback

CallbackFor(e) ==
    IF e.type \in {"waiting", "running"} THEN CallbackForTaskState(e) ELSE CallbackForEvent(e)

HasLagged == Len(bus) - client.position + 1 > Capacity

(* The key is put in `delivered' before the callback is sent.  An event that calls
   for a callback needs its task, whose read may fail. *)
HandleEvent ==
    /\ client.pc = "loop" /\ client.position <= Len(bus) /\ ~HasLagged
    /\ LET e == bus[client.position]
           c == CallbackFor(e)
           key == <<e.remote, c.key>>
       IN  \/ /\ c = NoCallback \/ key \in delivered
              /\ client' = [client EXCEPT !.position = @ + 1]
              /\ UNCHANGED <<delivered, callbacks>>
           \/ /\ c # NoCallback /\ key \notin delivered
              /\ delivered' = delivered \cup {key}
              /\ \/ /\ client' = [client EXCEPT !.position = @ + 1]
                    /\ callbacks' = IF link = "up"
                         THEN Append(callbacks, [remote |-> e.remote, event |-> c.event])
                         ELSE callbacks
                 \/ SendFails /\ UNCHANGED callbacks
           \/ /\ e.type \in {"waiting", "running"} \cup Terminal
              /\ Stop
              /\ UNCHANGED <<delivered, callbacks>>
    /\ UNCHANGED <<daemonVars, taskVars, link, inbound, sent, cuts>>

(* RecvError::Lagged: what was missed is not looked for. *)
Lag ==
    /\ client.pc = "loop" /\ HasLagged
    /\ client' = [client EXCEPT !.position = Len(bus) - Capacity + 1]
    /\ UNCHANGED <<daemonVars, taskVars, link, inbound, delivered, planeVars>>

-----------------------------------------------------------------------------
(* The environment. *)

(* A control plane that was shown an id confirms it; one that was not, or that
   has lost its records, may hand out any. *)
PlaneSends(f) ==
    /\ link = "up" /\ client.pc = "loop" /\ sent < MaxFrames
    /\ inbound' = Append(inbound, f)
    /\ sent' = sent + 1
    /\ UNCHANGED <<daemonVars, taskVars, client, link, delivered, callbacks, cuts>>

LinkBreaks ==
    /\ link = "up" /\ cuts < MaxCuts
    /\ link' = "broken"
    /\ cuts' = cuts + 1
    /\ UNCHANGED <<daemonVars, taskVars, client, inbound, delivered, callbacks, sent>>

(* The scheduler, or a cancel of the API, moves a task on. *)
TaskMoves(m, r, next) ==
    /\ mover[m] = NoMove
    /\ BeginMove(m, r, next)
    /\ UNCHANGED <<daemonVars, client, link, inbound, delivered, planeVars>>

(* The daemon stops and starts again: the tables stay, the rest is new. *)
Restart ==
    /\ cuts < MaxCuts
    /\ cuts' = cuts + 1
    /\ client' = [pc |-> "connect", position |-> Len(bus) + 1]
    /\ link' = "down"
    /\ inbound' = <<>>
    /\ delivered' = {}
    /\ mover' = [m \in Caller |-> NoMove]
    /\ UNCHANGED <<daemonVars, tableVars, bus, callbacks, sent>>

PassTime ==
    /\ Tick
    /\ UNCHANGED <<taskVars, client, link, inbound, delivered, planeVars>>

ClientStep ==
    \/ Connect \/ Subscribe \/ Register \/ LinkLost \/ HandleFrame \/ HandleClose
    \/ HandleEvent \/ Lag

Next ==
    \/ ClientStep \/ Heartbeat
    \/ \E f \in Frame : PlaneSends(f)
    \/ \E m \in Caller : CommitMove(m) \/ PublishMove(m)
    \/ \E m \in Mover, r \in Remote :
        \E next \in {"waiting", "preparing", "running"} \cup Outcomes : TaskMoves(m, r, next)
    \/ LinkBreaks \/ Restart \/ PassTime

(* select! is fair to an arm that stays ready, and the handler of a frame is run to
   its end. *)
Spec ==
    /\ Init /\ [][Next]_vars
    /\ WF_vars(Connect \/ Subscribe \/ Register)
    /\ WF_vars(HandleFrame \/ HandleClose)
    /\ WF_vars(HandleEvent \/ Lag)
    /\ WF_vars(CommitMove("client") \/ PublishMove("client"))

-----------------------------------------------------------------------------
(* Properties. *)

(* However often a dispatch is repeated, over broken links and restarts, one
   local task is made for it (find_by_remote_task_id before enqueue_task). *)
DispatchedOnce == \A r \in Remote : copies[r] <= 1

Rank(event) == CASE event = "waiting" -> 1 [] event = "running" -> 2 [] OTHER -> 3

(* The callbacks of a task arrive in the order of its life, each at most once
   and none after the terminal one, although they are made from a status read
   after the event, although events are published out of order, and although links
   break and the daemon restarts.  This holds as long as every commit found the task
   in a status that allowed it: two racing cancels, say, both commit and both are
   reported, so a task in `stale' is excepted. *)
CallbacksAscend ==
    \A i, j \in DOMAIN callbacks :
        /\ i < j /\ callbacks[i].remote = callbacks[j].remote
        /\ callbacks[i].remote \notin stale
        => Rank(callbacks[i].event) < Rank(callbacks[j].event)

Unread(r) ==
    \E i \in DOMAIN bus : i >= client.position /\ bus[i].remote = r /\ bus[i].type \in Terminal

Reported(r) == \E i \in DOMAIN callbacks : callbacks[i].remote = r /\ callbacks[i].event \in Terminal

(* The end of a task that the client's session gets to read is reported; it is
   lost only to a broken link, an error or a lag. *)
EndIsReported ==
    \A r \in Remote :
        (client.pc = "loop" /\ Unread(r)) ~>
            \/ Reported(r) \/ client.pc \notin {"loop", "transition"}
            \/ link # "up" \/ HasLagged

(* Once registered, the daemon presents the identity it was first given, over
   reconnects, restarts and a control plane that hands out another one. *)
IdentityIsStable ==
    [][(asked \in Daemon) => (asked' = asked)]_vars

(* A daemon reports itself online only if it heard of the control plane less
   than Threshold ago, plus what the control plane's clock is ahead; the stored
   status says online for ever. *)
OnlineIsFresh ==
    reported.status = "online" =>
        \/ reported.at - reported.contact < Threshold + Skew
        \/ reported.at = reported.contact

=============================================================================
