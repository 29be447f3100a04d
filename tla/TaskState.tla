----------------------------- MODULE TaskState -----------------------------
(***************************************************************************)
(* The pure vocabulary of the task subsystem: task statuses and the        *)
(* transition validator (task/state.rs), event types (task/event.rs) and   *)
(* the rule that picks the mode of a directory lock (scheduler/locks.rs).  *)
(***************************************************************************)

Terminal == {"completed", "failed", "cancelled", "timed_out"}

TaskStatus == {"queued", "waiting", "preparing", "running"} \cup Terminal

(* Every lifecycle event carries the name of the status it records; "output"
   stands for process.stdout and process.stderr, "permission_requested" and
   "permission_decided" for the two permission events. *)
EventType == TaskStatus \cup {"output", "permission_requested", "permission_decided"}

AllowedTransitions ==
    {<<"queued", "waiting">>,     <<"queued", "cancelled">>,
     <<"waiting", "preparing">>,  <<"waiting", "cancelled">>,
     <<"preparing", "running">>,  <<"preparing", "failed">>,
     <<"preparing", "cancelled">>,
     <<"running", "completed">>,  <<"running", "failed">>,
     <<"running", "cancelled">>,  <<"running", "timed_out">>}

(* Mutants: every move into a terminal status is accepted; every move of a task
   that is not terminal is. *)
ValidateTransition_AnyTerminal(current, next) ==
    IF current = next /\ current \in Terminal THEN "idempotent"
    ELSE IF next \in Terminal \/ <<current, next>> \in AllowedTransitions
         THEN "changed" ELSE "invalid_transition"

ValidateTransition_NoTable(current, next) ==
    IF current \in Terminal
    THEN IF current = next THEN "idempotent" ELSE "already_terminal"
    ELSE "changed"

ValidateTransition(current, next) ==
    IF current \in Terminal
    THEN IF current = next THEN "idempotent" ELSE "already_terminal"
    ELSE IF <<current, next>> \in AllowedTransitions
         THEN "changed" ELSE "invalid_transition"

(* Mutant: two arms of the match name the same event. *)
EventTypeForStatus_Swapped(s) == IF s = "preparing" THEN "running" ELSE s

EventTypeForStatus(s) == s

-----------------------------------------------------------------------------
DirectoryCapability == {"read", "write", "shell", "git"}

DirectoryLockPolicy == {"exclusive", "shared", "none"}

LockMode == {"exclusive", "shared", "none"}

WriteCapable(capabilities) == capabilities \cap {"write", "shell", "git"} # {}

ModeForCapabilities(capabilities, policy) ==
    IF policy # "none" /\ WriteCapable(capabilities) THEN "exclusive" ELSE policy

=============================================================================
