-------------------------- MODULE RuntimeDetection --------------------------
(***************************************************************************)
(* Runtime detection (runtime/detect.rs), the runtime store                *)
(* (runtime/store.rs) and the detect route (api/runtimes.rs).              *)
(*                                                                         *)
(* A detection reads the registry, which is loaded anew by every request   *)
(* and may have changed since the last one, looks at one provider after    *)
(* the other, saves the views at once and answers with what the store      *)
(* holds by then; several detections may be under way.  Of a view only     *)
(* whether there is one is kept: what is installed, and with it what a     *)
(* view says, may change at any time.  The order in which a registry lists *)
(* its providers is left open.  A version command is a child process that  *)
(* may never exit, and one that has exited may leave its output open in a  *)
(* process of its own.                                                     *)
(***************************************************************************)

CONSTANTS
    Detector,    \* calls of the detect route
    Provider,    \* provider ids
    Registries,  \* the sets of providers the registry may hold
    Kind,        \* integration_type: "cli", "acp", "http" or "native"
    Versioned    \* providers with version_args

(* detect_providers and list_for_providers leave the other kinds out. *)
Detectable(registry) == {p \in registry : Kind[p] # "native"}

NoProvider == "no provider"

ASSUME DetectionAssumption ==
    /\ Registries \subseteq SUBSET Provider
    /\ \A p \in Provider : Kind[p] \in {"cli", "acp", "http", "native"}
    /\ NoProvider \notin Provider

VARIABLES
    runtimes,   \* RuntimeStore: the providers it has a view of
    detector    \* each call: its statement, its registry, the provider and the child
                \* it is at, and the providers it has a view of

detectionVars == <<runtimes, detector>>

NoDetection == [pc |-> "idle", registry |-> {}, at |-> NoProvider, child |-> "none", views |-> {}]

DetectionTypeOK ==
    /\ runtimes \subseteq Provider
    /\ detector \in [Detector ->
           [pc : {"idle", "detect", "wait", "pipes", "save", "list", "refused", "done"},
            registry : SUBSET Provider,
            at : Provider \cup {NoProvider},
            child : {"none", "running", "exited"},
            views : SUBSET Provider]]

DetectionInit ==
    /\ runtimes = {}
    /\ detector = [d \in Detector |-> NoDetection]

(* The registry is read; or the route is refused for want of a scope, or of a
   registry that can be read. *)
Detect(d) ==
    /\ detector[d].pc = "idle"
    /\ \/ \E registry \in Registries :
            detector' = [detector EXCEPT ![d].pc = "detect", ![d].registry = Detectable(registry)]
       \/ detector' = [detector EXCEPT ![d].pc = "refused"]
    /\ UNCHANGED runtimes

(* The providers that have no view yet. *)
Left(d) == detector[d].registry \ detector[d].views

(* The view of a provider is known: on to the next one. *)
Viewed(d, p) ==
    detector' = [detector EXCEPT ![d].pc = "detect", ![d].at = NoProvider, ![d].child = "none",
                                 ![d].views = @ \cup {p}]

(* detect_http_provider, detect_acp_provider, and a command that needs no version
   command, is not found or cannot be started. *)
Resolve(d) ==
    /\ detector[d].pc = "detect"
    /\ \E p \in Left(d) : Viewed(d, p)
    /\ UNCHANGED runtimes

(* detect_provider of a command that was found: its version command is started. *)
SpawnProbe(d) ==
    /\ detector[d].pc = "detect"
    /\ \E p \in Left(d) :
          /\ Kind[p] = "cli" /\ p \in Versioned
          /\ detector' = [detector EXCEPT ![d].pc = "wait", ![d].at = p, ![d].child = "running"]
    /\ UNCHANGED runtimes

(* run_version_probe: the child's exit is seen, ... *)
ChildSeen(d) ==
    /\ detector[d].pc = "wait" /\ detector[d].child = "exited"
    /\ detector' = [detector EXCEPT ![d].pc = "pipes"]
    /\ UNCHANGED runtimes

(* ... or waiting for it fails, ... *)
WaitFails(d) ==
    /\ detector[d].pc = "wait"
    /\ Viewed(d, detector[d].at)
    /\ UNCHANGED runtimes

(* Mutant: the version command is waited for without a limit. *)
ProbeTimeout_Never(d) == FALSE /\ UNCHANGED detectionVars

(* ... or the time is over: it is killed and its pipes are given up. *)
ProbeTimeout(d) ==
    /\ detector[d].pc = "wait"
    /\ Viewed(d, detector[d].at)
    /\ UNCHANGED runtimes

(* Both pipes are read to their end, which is not bounded in time. *)
AwaitPipes(d) ==
    /\ detector[d].pc = "pipes"
    /\ Viewed(d, detector[d].at)
    /\ UNCHANGED runtimes

EndDetection(d) ==
    /\ detector[d].pc = "detect" /\ Left(d) = {}
    /\ detector' = [detector EXCEPT ![d].pc = "save"]
    /\ UNCHANGED runtimes

(* Mutant: the views replace the whole map. *)
SaveAll_Replaces(d) ==
    /\ detector[d].pc = "save"
    /\ runtimes' = detector[d].views
    /\ detector' = [detector EXCEPT ![d].pc = "list"]

(* RuntimeStore::save_all inserts, under one write lock; what it has no view of
   stays: a provider without one is listed as not_detected. *)
SaveAll(d) ==
    /\ detector[d].pc = "save"
    /\ runtimes' = runtimes \cup detector[d].views
    /\ detector' = [detector EXCEPT ![d].pc = "list"]

(* The answer: of the providers of its registry, what the store holds by now. *)
ListForProviders(d) ==
    /\ detector[d].pc = "list"
    /\ detector' = [detector EXCEPT ![d].pc = "done", ![d].views = detector[d].registry \cap runtimes]
    /\ UNCHANGED runtimes

(* The version command exits. *)
ProbeExits(d) ==
    /\ detector[d].pc = "wait" /\ detector[d].child = "running"
    /\ detector' = [detector EXCEPT ![d].child = "exited"]
    /\ UNCHANGED runtimes

(* The pipes reach their end only if nobody keeps them open: AwaitPipes is no
   part of what the daemon does on its own. *)
DetectorStep(d) ==
    \/ Resolve(d) \/ SpawnProbe(d) \/ ChildSeen(d) \/ ProbeTimeout(d)
    \/ EndDetection(d) \/ SaveAll(d) \/ ListForProviders(d)

(* A detection answers with a view of every provider of the registry it read,
   although it reads the store in a step of its own, after others may have saved
   the views of a registry that had changed: save_all takes nothing out. *)
AnswerIsComplete ==
    \A d \in Detector : detector[d].pc = "done" => detector[d].registry \subseteq detector[d].views

=============================================================================
