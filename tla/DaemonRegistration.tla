------------------------- MODULE DaemonRegistration -------------------------
(***************************************************************************)
(* The daemon's identity and liveness at the control plane: the rows of    *)
(* daemon_state (store/daemon_state.rs), registration                      *)
(* (control_plane/registration.rs) and the staleness rule                  *)
(* (control_plane/liveness.rs).  ControlPlane.tla drives it.               *)
(***************************************************************************)
EXTENDS Naturals, Integers, Sequences

CONSTANTS
    Daemon,     \* daemon ids the control plane may hand out
    Threshold,  \* ControlPlaneConfig::staleness_threshold
    Skew,       \* how far the control plane's clock is ahead of the daemon's
    MaxTime     \* bound: the daemon's clock

NoDaemon == "no daemon"

ASSUME RegistrationAssumption ==
    /\ NoDaemon \notin Daemon
    /\ Threshold \in Nat /\ Skew \in Nat /\ MaxTime \in Nat

VARIABLES
    now,       \* the daemon's clock
    rows,      \* daemon_state, in the order of rowid
    contact,   \* when the control plane was last heard of
    asked,     \* the daemon_id of the last register or heartbeat message
    reported   \* daemon_status of the last runtime_status message, when it was
               \* sent and when the control plane had last been heard of

daemonVars == <<now, rows, contact, asked, reported>>

ConnectionStatus == {"online", "offline", "connecting"}

DaemonTypeOK ==
    /\ now \in 0..MaxTime
    /\ rows \in Seq([daemon : Daemon, heartbeat : Nat])
    /\ contact \in 0..MaxTime
    /\ asked \in Daemon \cup {NoDaemon}
    /\ reported \in [status : ConnectionStatus \cup {"none"}, at : 0..MaxTime, contact : 0..MaxTime]

DaemonInit ==
    /\ now = 0
    /\ rows = <<>>
    /\ contact = 0
    /\ asked = NoDaemon
    /\ reported = [status |-> "none", at |-> 0, contact |-> 0]

Tick ==
    /\ now < MaxTime
    /\ now' = now + 1
    /\ UNCHANGED <<rows, contact, asked, reported>>

(* Mutant: ORDER BY rowid DESC. *)
GetCurrent_Last == rows[Len(rows)]

(* SELECT * FROM daemon_state ORDER BY rowid ASC LIMIT 1 *)
GetCurrent == rows[1]

RowOf(d) == {i \in DOMAIN rows : rows[i].daemon = d}

(* INSERT ... ON CONFLICT(daemon_id) DO UPDATE: a known id keeps its place. *)
SaveRegistration(record) ==
    rows' = IF RowOf(record.daemon) = {} THEN Append(rows, record)
            ELSE [i \in DOMAIN rows |-> IF i \in RowOf(record.daemon) THEN record ELSE rows[i]]

(* build_registration_request carries the identity of the current record. *)
BuildRegistrationRequest ==
    asked' = IF rows = <<>> THEN NoDaemon ELSE GetCurrent.daemon

(* accept: the record is online, with registered_at for its first heartbeat,
   both by the control plane's clock; a runtime_status says so, if it is sent. *)
Accept(d, told) ==
    /\ SaveRegistration([daemon |-> d, heartbeat |-> now + Skew])
    /\ contact' = now
    /\ reported' = IF told THEN [status |-> "online", at |-> now, contact |-> now]
                   ELSE reported
    /\ UNCHANGED <<now, asked>>

(* heartbeat_ack: the current record's last_heartbeat_at, if there is one. *)
MarkHeartbeat ==
    /\ contact' = now
    /\ rows' = IF rows = <<>> THEN rows ELSE [rows EXCEPT ![1].heartbeat = now + Skew]
    /\ UNCHANGED <<now, asked, reported>>

(* Mutant: an old heartbeat never turns the status. *)
Evaluate_NeverStale(heartbeat) == "online"

(* LivenessTracker::evaluate of a record that is stored as online. *)
Evaluate(heartbeat) ==
    IF now - heartbeat < 0 \/ now - heartbeat < Threshold THEN "online" ELSE "offline"

(* The heartbeat arm of the session: a heartbeat, then a runtime_status. *)
SendHeartbeat ==
    /\ BuildRegistrationRequest
    /\ reported' = [status |-> IF rows = <<>> THEN "connecting"
                               ELSE Evaluate(GetCurrent.heartbeat),
                    at |-> now, contact |-> contact]
    /\ UNCHANGED <<now, rows, contact>>

=============================================================================
