--------------------------- MODULE RuntimeSession ---------------------------
(***************************************************************************)
(* The ACP adapter (runtime/acp.rs), the remote HTTP adapter               *)
(* (runtime/http.rs) and the permission bridge between them and the API    *)
(* (task/service.rs, store/tasks.rs, api/tasks.rs).                        *)
(*                                                                         *)
(* A Session is one call of RuntimeAdapter::execute, for the task of the   *)
(* same name.  An ACP session is two tokio tasks, execute_inner (main) and *)
(* handle_stdout (reader), and a child process that writes frames and may  *)
(* stop at any time.  Its pipes are inherited by its own children, which   *)
(* outlive a kill.  A Resolver is one POST of a permission response.       *)
(***************************************************************************)
EXTENDS Naturals, Sequences, FiniteSets

CONSTANTS
    Acp, Http,   \* sessions, by adapter
    Request,     \* request ids the providers use
    Resolver,    \* permission responses posted
    OtherFrames, \* other frames they write: "delta", "no_request_id"
    MaxFrames,   \* bound: frames one provider writes
    Inherited,   \* bound: the pipes that descendants of a child may hold
    MayCrash     \* TRUE: the daemon may stop and restart

Session == Acp \cup Http

Pipe == {"stdin", "stdout", "stderr"}

Decision == {"approve", "deny"}

NoRequest == "no request"

NoSession == "no session"

ASSUME SessionAssumption ==
    /\ Acp \cap Http = {}
    /\ NoSession \notin Session /\ NoRequest \notin Request
    /\ OtherFrames \subseteq {"delta", "no_request_id"}
    /\ OtherFrames \cap Request = {}
    /\ MaxFrames \in Nat /\ Inherited \subseteq Pipe
    /\ MayCrash \in BOOLEAN

VARIABLES
    row,        \* task_permission_requests, by request id
    answer,     \* what the provider was told about each request
    waiters,    \* TaskEventBus::waiters: (task, request) pairs
    main,       \* execute_inner of each session
    outcome,    \* what it returned
    wait,       \* ChildWait
    reader,     \* handle_stdout of each ACP session
    child,      \* the provider's process, the frames in its stdout pipe, and the
                \* pipes that it or a descendant of it holds open
    registered, \* sessions whose cancel sender is in `cancellations'
    signalled,  \* sessions whose cancel receiver has fired
    resolver    \* the calls that post a response

vars == <<row, answer, waiters, main, outcome, wait, reader, child, registered,
          signalled, resolver>>

mainVars == <<main, outcome, wait>>
bridgeVars == <<row, answer, waiters>>
cancelVars == <<registered, signalled>>

Outcome == {"completed", "failed", "timed_out", "cancelled"}

Wait == {"none", "exited", "exited_error", "timed_out", "cancelled", "wait_failed"}

Frame == Request \cup OtherFrames

(* A row of task_permission_requests: request_id alone is the primary key. *)
Row == [task : Session \cup {NoSession}, decision : Decision \cup {"absent", "pending"}]

TypeOK ==
    /\ row \in [Request -> Row]
    /\ answer \in [Request -> Decision \cup {"none"}]
    /\ waiters \subseteq Acp \X Request
    /\ main \in [Session -> {"idle", "spawn", "wait", "unregister", "join", "join_stderr",
                             "send", "sent", "body", "done", "gone"}]
    /\ outcome \in [Session -> Outcome \cup {"none"}]
    /\ wait \in [Session -> Wait]
    /\ reader \in [Acp -> [pc : {"none", "reading", "record", "lookup", "register",
                                 "await", "respond", "ended"},
                           request : Request \cup {NoRequest},
                           decision : Decision \cup {"none"}, error : BOOLEAN]]
    /\ child \in [Acp -> [state : {"none", "running", "exited", "exited_error", "killed"},
                          pipe : Seq(Frame), frames : Nat, open : SUBSET Pipe]]
    /\ registered \subseteq Session /\ signalled \subseteq Session
    /\ resolver \in [Resolver -> [pc : {"idle", "has_waiter", "resolve", "notify", "done"},
                                  request : Request \cup {NoRequest},
                                  task : Session \cup {NoSession},
                                  decision : Decision \cup {"none"},
                                  result : {"none", "resolved", "not_found",
                                            "not_supported", "already_resolved"}]]

NoReader == [pc |-> "none", request |-> NoRequest, decision |-> "none", error |-> FALSE]

NoChild == [state |-> "none", pipe |-> <<>>, frames |-> 0, open |-> {}]

NoCall == [pc |-> "idle", request |-> NoRequest, task |-> NoSession, decision |-> "none",
           result |-> "none"]

Init ==
    /\ row = [r \in Request |-> [task |-> NoSession, decision |-> "absent"]]
    /\ answer = [r \in Request |-> "none"]
    /\ waiters = {}
    /\ main = [s \in Session |-> "idle"]
    /\ outcome = [s \in Session |-> "none"]
    /\ wait = [s \in Session |-> "none"]
    /\ reader = [s \in Acp |-> NoReader]
    /\ child = [s \in Acp |-> NoChild]
    /\ registered = {} /\ signalled = {}
    /\ resolver = [v \in Resolver |-> NoCall]

-----------------------------------------------------------------------------
(* execute_inner of the ACP adapter. *)

Goto(s, l) == main' = [main EXCEPT ![s] = l] /\ UNCHANGED <<outcome, wait>>

Return(s, result) ==
    /\ main' = [main EXCEPT ![s] = "done"]
    /\ outcome' = [outcome EXCEPT ![s] = result]
    /\ UNCHANGED wait

(* No acp section in the manifest, another transport than stdio, no command or
   no working directory: failed at once.  Otherwise the cancel sender is put in
   the map, in place of any other of the task. *)
AcpStart(s) ==
    /\ main[s] = "idle"
    /\ \/ Return(s, "failed") /\ UNCHANGED registered
       \/ Goto(s, "spawn") /\ registered' = registered \cup {s}
    /\ UNCHANGED <<bridgeVars, reader, child, signalled, resolver>>

(* The child cannot be started; or it has no pipes, or does not take the prompt,
   and is killed; or it runs, and handle_stdout is spawned. *)
AcpSpawn(s) ==
    /\ main[s] = "spawn"
    /\ \/ /\ Return(s, "failed")
          /\ registered' = registered \ {s}
          /\ child' \in {child, [child EXCEPT ![s].state = "killed"]}
          /\ UNCHANGED reader
       \/ /\ Goto(s, "wait")
          /\ child' = [child EXCEPT ![s].state = "running", ![s].open = Pipe]
          /\ reader' = [reader EXCEPT ![s].pc = "reading"]
          /\ UNCHANGED registered
    /\ UNCHANGED <<bridgeVars, signalled, resolver>>

EndWait(s, result) ==
    /\ main[s] = "wait"
    /\ main' = [main EXCEPT ![s] = "unregister"]
    /\ wait' = [wait EXCEPT ![s] = result]
    /\ UNCHANGED <<bridgeVars, outcome, reader, cancelVars, resolver>>

(* The three arms of wait_for_child: the child has exited, ... *)
ChildReaped(s) ==
    /\ child[s].state \in {"exited", "exited_error"}
    /\ \E result \in {child[s].state, "wait_failed"} : EndWait(s, result)
    /\ UNCHANGED child

(* The process is gone; a descendant of it may keep any of its pipes. *)
ChildGone(s, how) ==
    \E held \in SUBSET (child[s].open \cap Inherited) :
        child' = [child EXCEPT ![s].state = how, ![s].open = held]

(* ... the timeout has passed, or the cancel receiver has fired: it is killed. *)
KillChild(s) ==
    IF child[s].state = "running" THEN ChildGone(s, "killed") ELSE UNCHANGED child

(* Mutants: the child is left running. *)
TimeoutChild_NoKill(s) == EndWait(s, "timed_out") /\ UNCHANGED child

CancelChild_NoKill(s) == s \in signalled /\ EndWait(s, "cancelled") /\ UNCHANGED child

TimeoutChild(s) == EndWait(s, "timed_out") /\ KillChild(s)

CancelChild(s) == s \in signalled /\ EndWait(s, "cancelled") /\ KillChild(s)

AcpUnregister(s) ==
    /\ main[s] = "unregister"
    /\ Goto(s, "join")
    /\ registered' = registered \ {s}
    /\ UNCHANGED <<bridgeVars, reader, child, signalled, resolver>>

OutcomeOf(w) ==
    CASE w = "exited" -> "completed"
      [] w = "timed_out" -> "timed_out"
      [] w = "cancelled" -> "cancelled"
      [] OTHER -> "failed"

(* stdout_handle.await, without a limit. *)
AcpJoin(s) ==
    /\ main[s] = "join" /\ reader[s].pc = "ended"
    /\ Goto(s, "join_stderr")
    /\ UNCHANGED <<bridgeVars, reader, child, cancelVars, resolver>>

(* stderr_handle.await: read_stderr reads to the end of the pipe, without a limit.
   The error of handle_stdout, if it has one, decides the outcome. *)
AcpJoinStderr(s) ==
    /\ main[s] = "join_stderr" /\ "stderr" \notin child[s].open
    /\ Return(s, IF reader[s].error THEN "failed" ELSE OutcomeOf(wait[s]))
    /\ UNCHANGED <<bridgeVars, reader, child, cancelVars, resolver>>

(* RuntimeAdapter::cancel: the sender is taken out of the map and fired. *)
Cancel(s) ==
    /\ s \in registered
    /\ registered' = registered \ {s}
    /\ signalled' = signalled \cup {s}
    /\ UNCHANGED <<bridgeVars, mainVars, reader, child, resolver>>

-----------------------------------------------------------------------------
(* The provider's process and its descendants: external. *)

ChildWrites(s, f) ==
    /\ "stdout" \in child[s].open /\ child[s].frames < MaxFrames
    /\ child' = [child EXCEPT ![s].pipe = Append(@, f), ![s].frames = @ + 1]
    /\ UNCHANGED <<bridgeVars, mainVars, reader, cancelVars, resolver>>

ChildExits(s) ==
    /\ child[s].state = "running"
    /\ \E how \in {"exited", "exited_error"} : ChildGone(s, how)
    /\ UNCHANGED <<bridgeVars, mainVars, reader, cancelVars, resolver>>

(* The last holder of a pipe closes it. *)
ClosePipe(s, x) ==
    /\ x \in child[s].open /\ x \in Inherited
    /\ child' = [child EXCEPT ![s].open = @ \ {x}]
    /\ UNCHANGED <<bridgeVars, mainVars, reader, cancelVars, resolver>>

-----------------------------------------------------------------------------
(* handle_stdout and bridge_permission_request. *)

Reader(s, l) == reader' = [reader EXCEPT ![s].pc = l]

ReaderFails(s) ==
    reader' = [reader EXCEPT ![s].pc = "ended", ![s].error = TRUE,
                             ![s].request = NoRequest, ![s].decision = "none"]

(* A permission request without an id, or without a task event service to ask,
   ends the reader with an error; any other frame is an output event or none. *)
ReadFrame(s) ==
    /\ reader[s].pc = "reading" /\ child[s].pipe # <<>>
    /\ child' = [child EXCEPT ![s].pipe = Tail(@)]
    /\ LET f == Head(child[s].pipe)
       IN  \/ f = "delta" /\ UNCHANGED reader
           \/ f = "no_request_id" /\ ReaderFails(s)
           \/ /\ f \in Request
              /\ reader' = [reader EXCEPT ![s].pc = "record", ![s].request = f]
    /\ UNCHANGED <<bridgeVars, mainVars, cancelVars, resolver>>

(* next_line returns None once every holder of the pipe has closed it. *)
EndOfStdout(s) ==
    /\ reader[s].pc = "reading" /\ child[s].pipe = <<>>
    /\ "stdout" \notin child[s].open
    /\ Reader(s, "ended")
    /\ UNCHANGED <<bridgeVars, mainVars, child, cancelVars, resolver>>

(* Mutant: INSERT OR REPLACE. *)
RecordPermissionRequest_Replaces(s) ==
    /\ reader[s].pc = "record"
    /\ row' = [row EXCEPT ![reader[s].request] = [task |-> s, decision |-> "pending"]]
    /\ Reader(s, "lookup")
    /\ UNCHANGED <<answer, waiters, mainVars, child, cancelVars, resolver>>

(* record_permission_request: a request id that any task has used is refused. *)
RecordPermissionRequest(s) ==
    /\ reader[s].pc = "record"
    /\ LET r == reader[s].request
       IN  \/ /\ row[r].decision = "absent"
              /\ row' = [row EXCEPT ![r] = [task |-> s, decision |-> "pending"]]
              /\ Reader(s, "lookup")
           \/ /\ row[r].decision # "absent"
              /\ ReaderFails(s)
              /\ UNCHANGED row
    /\ UNCHANGED <<answer, waiters, mainVars, child, cancelVars, resolver>>

(* await_permission_decision reads the request ... *)
AwaitReadsRequest(s) ==
    /\ reader[s].pc = "lookup"
    /\ LET d == row[reader[s].request].decision
       IN  \/ d = "pending" /\ Reader(s, "register")
           \/ /\ d \in Decision
              /\ reader' = [reader EXCEPT ![s].pc = "respond", ![s].decision = d]
    /\ UNCHANGED <<bridgeVars, mainVars, child, cancelVars, resolver>>

(* ... and, if it was pending, registers a waiter and waits for it. *)
RegisterWaiter(s) ==
    /\ reader[s].pc = "register"
    /\ waiters' = waiters \cup {<<s, reader[s].request>>}
    /\ Reader(s, "await")
    /\ UNCHANGED <<row, answer, mainVars, child, cancelVars, resolver>>

(* The response goes to the provider's stdin; the write fails when nobody holds
   the other end, and waits while the pipe is full and nobody reads it. *)
WriteResponse(s) ==
    /\ reader[s].pc = "respond"
    /\ \/ /\ "stdin" \in child[s].open
          /\ answer' = [answer EXCEPT ![reader[s].request] = reader[s].decision]
          /\ reader' = [reader EXCEPT ![s].pc = "reading", ![s].request = NoRequest,
                                      ![s].decision = "none"]
       \/ "stdin" \notin child[s].open /\ ReaderFails(s) /\ UNCHANGED answer
    /\ UNCHANGED <<row, waiters, mainVars, child, cancelVars, resolver>>

-----------------------------------------------------------------------------
(* execute_inner of the HTTP adapter. *)

(* No http section, or a workspace that cannot be packed: failed at once. *)
HttpStart(s) ==
    /\ main[s] = "idle"
    /\ \/ Return(s, "failed") /\ UNCHANGED registered
       \/ Goto(s, "send") /\ registered' = registered \cup {s}
    /\ UNCHANGED <<bridgeVars, reader, child, signalled, resolver>>

(* select! is biased: a receiver that has fired wins over an answer. *)
HttpCancelled(s) ==
    /\ main[s] = "send" /\ s \in signalled
    /\ Return(s, "cancelled")
    /\ registered' = registered \ {s}
    /\ UNCHANGED <<bridgeVars, reader, child, signalled, resolver>>

HttpAnswers(s) ==
    /\ main[s] = "send" /\ s \notin signalled
    /\ Goto(s, "sent")
    /\ UNCHANGED <<bridgeVars, reader, child, cancelVars, resolver>>

(* The sender is removed; a transport error or an error status is a failure. *)
HttpUnregister(s) ==
    /\ main[s] = "sent"
    /\ \/ Goto(s, "body") \/ Return(s, "failed")
    /\ registered' = registered \ {s}
    /\ UNCHANGED <<bridgeVars, reader, child, signalled, resolver>>

HttpBody(s) ==
    /\ main[s] = "body"
    /\ \E result \in {"completed", "failed"} : Return(s, result)
    /\ UNCHANGED <<bridgeVars, reader, child, cancelVars, resolver>>

-----------------------------------------------------------------------------
(* post_event and resolve_permission_response. *)

EndCall(v, result) ==
    resolver' = [resolver EXCEPT ![v].pc = "done", ![v].result = result]

ResolverGoto(v, l) == resolver' = [resolver EXCEPT ![v].pc = l]

NoWaiter(v) == <<resolver[v].task, resolver[v].request>> \notin waiters

(* The request is read; a task that has no such request answers 404. *)
ReadRequest(v, s, r, d) ==
    /\ resolver[v].pc = "idle"
    /\ LET call == [pc |-> "has_waiter", request |-> r, task |-> s, decision |-> d,
                    result |-> "none"]
       IN  resolver' = [resolver EXCEPT ![v] =
               IF row[r].task # s THEN [call EXCEPT !.pc = "done", !.result = "not_found"]
               ELSE IF row[r].decision = "pending" THEN call
               ELSE [call EXCEPT !.pc = "resolve"]]
    /\ UNCHANGED <<bridgeVars, mainVars, reader, child, cancelVars>>

(* Mutant: the check for a waiter is missing. *)
CheckWaiter_Missing(v) ==
    /\ resolver[v].pc = "has_waiter"
    /\ ResolverGoto(v, "resolve")
    /\ UNCHANGED <<bridgeVars, mainVars, reader, child, cancelVars>>

(* It was pending: without a waiter the response is refused. *)
CheckWaiter(v) ==
    /\ resolver[v].pc = "has_waiter"
    /\ \/ NoWaiter(v) /\ EndCall(v, "not_supported")
       \/ ~NoWaiter(v) /\ ResolverGoto(v, "resolve")
    /\ UNCHANGED <<bridgeVars, mainVars, reader, child, cancelVars>>

(* Mutant: the transaction does not look at the status again. *)
ResolvePermissionRequest_Blind(v) ==
    /\ resolver[v].pc = "resolve"
    /\ row' = [row EXCEPT ![resolver[v].request].decision = resolver[v].decision]
    /\ ResolverGoto(v, "notify")
    /\ UNCHANGED <<answer, waiters, mainVars, reader, child, cancelVars>>

(* resolve_permission_request, one transaction: a first decision is stored, the
   same one again is a duplicate, another one is refused. *)
ResolvePermissionRequest(v) ==
    /\ resolver[v].pc = "resolve"
    /\ LET r == resolver[v].request
       IN  \/ /\ row[r].decision = "pending"
              /\ row' = [row EXCEPT ![r].decision = resolver[v].decision]
              /\ ResolverGoto(v, "notify")
           \/ /\ row[r].decision = resolver[v].decision
              /\ ResolverGoto(v, "notify")
              /\ UNCHANGED row
           \/ /\ row[r].decision \notin {"pending", resolver[v].decision}
              /\ EndCall(v, "already_resolved")
              /\ UNCHANGED row
    /\ UNCHANGED <<answer, waiters, mainVars, reader, child, cancelVars>>

(* notify_permission_resolution: the waiter is removed and gets the decision. *)
NotifyPermissionResolution(v) ==
    /\ resolver[v].pc = "notify"
    /\ EndCall(v, "resolved")
    /\ waiters' = waiters \ {<<resolver[v].task, resolver[v].request>>}
    /\ \/ NoWaiter(v) /\ UNCHANGED reader
       \/ /\ ~NoWaiter(v)
          /\ reader' = [reader EXCEPT ![resolver[v].task].pc = "respond",
                                      ![resolver[v].task].decision = resolver[v].decision]
    /\ UNCHANGED <<row, answer, mainVars, child, cancelVars>>

-----------------------------------------------------------------------------
(* The daemon stops: calls, waiters and senders are gone, the rows stay, and no
   session is taken up again. *)
Crash ==
    /\ MayCrash
    /\ \E s \in Session : main[s] \notin {"idle", "gone"}
    /\ main' = [s \in Session |-> "gone"]
    /\ waiters' = {} /\ registered' = {} /\ signalled' = {}
    /\ reader' = [s \in Acp |-> NoReader]
    /\ child' = [s \in Acp |-> NoChild]
    /\ resolver' = [v \in Resolver |->
                     IF resolver[v].pc = "done" THEN resolver[v] ELSE NoCall]
    /\ UNCHANGED <<row, answer, outcome, wait>>

MainStep(s) ==
    \/ /\ s \in Acp
       /\ \/ AcpSpawn(s) \/ ChildReaped(s) \/ TimeoutChild(s)
          \/ CancelChild(s) \/ AcpUnregister(s) \/ AcpJoin(s) \/ AcpJoinStderr(s)
    \/ /\ s \in Http
       /\ HttpCancelled(s) \/ HttpUnregister(s)

ReaderStep(s) ==
    \/ ReadFrame(s) \/ EndOfStdout(s) \/ RecordPermissionRequest(s)
    \/ AwaitReadsRequest(s) \/ RegisterWaiter(s) \/ WriteResponse(s)

ResolverStep(v) ==
    CheckWaiter(v) \/ ResolvePermissionRequest(v) \/ NotifyPermissionResolution(v)

Next ==
    \/ \E s \in Session : MainStep(s) \/ Cancel(s)
    \/ \E s \in Acp :
        \/ AcpStart(s) \/ ReaderStep(s) \/ ChildExits(s)
        \/ \E f \in Frame : ChildWrites(s, f)
        \/ \E x \in Pipe : ClosePipe(s, x)
    \/ \E s \in Http : HttpStart(s) \/ HttpAnswers(s) \/ HttpBody(s)
    \/ \E v \in Resolver :
        \/ ResolverStep(v)
        \/ \E s \in Acp, r \in Request, d \in Decision : ReadRequest(v, s, r, d)
    \/ Crash

(* The write of a response that nobody need read. *)
Writing(s) == reader[s].pc = "respond" /\ "stdin" \in child[s].open

(* A call that has started is run to its next wait by the tokio runtime, timers
   fire, and a killed child is gone.  Nothing makes a provider answer, exit, read
   or write, nor its descendants close a pipe, nor a product decide. *)
Spec ==
    /\ Init /\ [][Next]_vars
    /\ \A s \in Session : WF_vars(MainStep(s))
    /\ \A s \in Acp : WF_vars(~Writing(s) /\ ReaderStep(s))
    /\ \A v \in Resolver : WF_vars(ResolverStep(v))

-----------------------------------------------------------------------------
(* Properties. *)

Promise == INSTANCE PermissionPromise
           WITH decision <- [r \in Request |-> row[r].decision], answer <- answer

(* The bridge keeps its promise: with any number of responses in flight, with
   request ids reused by another task, with crashes between the steps, each
   request gets one decision for good and the provider hears that one or none. *)
PromiseKept == Promise!Spec

Awaiting(s) == s \in Acp /\ reader[s].pc = "await"

Undecided(s) == Awaiting(s) /\ row[reader[s].request].decision = "pending"

(* A stored decision reaches the session that waits for it, unless the daemon
   stops first: no response slips in between the read of the pending request
   and the registration of its waiter. *)
DecisionReachesSession ==
    \A s \in Acp : \A r \in Request :
        (reader[s].request = r /\ row[r].decision \in Decision) ~>
            (reader[s].pc = "respond" \/ reader[s].request # r)

(* A descendant of a child that is gone holds a pipe the session still needs. *)
HeldOpen(s) ==
    /\ s \in Acp /\ child[s].state # "running"
    /\ IF reader[s].pc = "ended" THEN "stderr" \in child[s].open
       ELSE child[s].open \cap {"stdin", "stdout"} # {}

(* An ACP session ends, unless it waits for ever for a decision that nobody makes
   or for a pipe that a descendant of its child never closes: the child's exit, the
   timeout and a cancellation end it in every other case. *)
SessionReturnsOrWaits ==
    \A s \in Acp :
        main[s] = "wait" ~> (main[s] \in {"done", "gone"} \/ []Undecided(s) \/ []HeldOpen(s))

(* A cancellation that reaches an ACP session before its child was waited for, or
   an HTTP session before the headers of the answer, ends it, with the same two
   exceptions.  Behind the headers the sender is gone and nothing is promised: the
   body is read without a limit. *)
CancelReturns ==
    \A s \in Session :
        (s \in signalled /\ main[s] \in {"wait", "send"}) ~>
            (main[s] \in {"done", "gone"} \/ []Undecided(s) \/ []HeldOpen(s))

(* "timeout terminates an unresponsive ACP session" *)
TimeoutTerminates ==
    \A s \in Acp : wait[s] = "timed_out" ~> main[s] \in {"done", "gone"}

(* A waiter belongs to a live reader that waits for that request, which this
   session asked: a response never wakes another session. *)
WaiterIsAwaited ==
    \A w \in waiters :
        /\ reader[w[1]].pc = "await" /\ reader[w[1]].request = w[2]
        /\ row[w[2]].task = w[1]

=============================================================================
