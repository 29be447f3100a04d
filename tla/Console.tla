------------------------------ MODULE Console ------------------------------
(***************************************************************************)
(* The state of the web console (crates/opendaemon-console-ui,             *)
(* state/app.rs) over the daemon it talks to.                              *)
(*                                                                         *)
(* Each click spawns an asynchronous call.  Calls interleave at every      *)
(* request they wait for and share the signals of AppState; nothing stops  *)
(* a call when its user signs out.  A call that detects runtimes is        *)
(* answered by RuntimeDetection; of the other requests only whether they   *)
(* succeed matters.  Notices, error texts and the id of the active task    *)
(* are left out.                                                           *)
(***************************************************************************)
EXTENDS RuntimeDetection, Naturals, Sequences

CONSTANTS
    Credential,   \* bearer tokens a user may enter
    Bootstrap     \* those of them that are bootstrap credentials

(* Bound: the calls under way at a time; any of them may be a detection. *)
Call == Detector

NoCredential == "no credential"

ASSUME ConsoleAssumption ==
    /\ NoCredential \notin Credential /\ Bootstrap \subseteq Credential
    /\ Call # {}

VARIABLES
    auth,           \* AppState::auth: the credential signed in with
    storage,        \* the session in the browser's local storage
    resources,      \* AppState::resources: sections, and the credential they are of
    created,        \* AppState::created_token: the credential it was asked for with
    loading,        \* AppState::loading
    call            \* each call: its operation, where it is, its client

vars == <<detectionVars, auth, storage, resources, created, loading, call>>

signalVars == <<auth, storage, resources, created, loading>>

(* What refresh_all asks for.  "daemon": status and providers.  "own": the products
   for the bootstrap credential, the agents, directories, tasks and permissions of
   a product for its own. *)
Sections == <<"daemon", "runtimes", "own">>

Section == {"daemon", "runtimes", "own"}

(* Operations of a signed-in user: those that end with a refresh (products,
   agents, directories, tasks, permission responses), the creation of a token,
   and the detection of runtimes. *)
Operation == {"change", "create_token", "detect"}

NoCall == [pc |-> "idle", op |-> "none", client |-> NoCredential, next |-> 1, loaded |-> {}]

TypeOK ==
    /\ DetectionTypeOK
    /\ auth \in Credential \cup {NoCredential}
    /\ storage \in Credential \cup {NoCredential}
    /\ resources \subseteq Section \X Credential
    /\ created \in Credential \cup {NoCredential}
    /\ loading \in BOOLEAN
    /\ call \in [Call -> [pc : {"idle", "session", "request", "refresh"},
                          op : Operation \cup {"none", "bootstrap", "connect", "refresh"},
                          client : Credential \cup {NoCredential},
                          next : 1..3, loaded : SUBSET (Section \X Credential)]]

(* App: a stored session is tried at once. *)
Loaded(k, stored) ==
    [x \in Call |-> IF x = k /\ stored # NoCredential
                    THEN [NoCall EXCEPT !.pc = "session", !.op = "bootstrap", !.client = stored]
                    ELSE NoCall]

Init ==
    /\ DetectionInit
    /\ auth = NoCredential
    /\ storage \in Credential \cup {NoCredential}
    /\ resources = {}
    /\ created = NoCredential
    /\ loading = FALSE
    /\ call = Loaded(CHOOSE k \in Call : TRUE, storage)

-----------------------------------------------------------------------------

Ends(k) == call' = [call EXCEPT ![k] = NoCall]

(* The call is over, or cut off: loading is reset. *)
Finish(k) == Ends(k) /\ loading' = FALSE

(* refresh_all up to its first request, on behalf of whoever is signed in. *)
BeginRefresh(k, credential) ==
    IF credential = NoCredential THEN Finish(k)
    ELSE /\ loading' = TRUE
         /\ call' = [call EXCEPT ![k] = [NoCall EXCEPT !.pc = "refresh", !.op = "refresh",
                                                       !.client = credential]]

(* bootstrap_from_storage, answered by the session route. *)
BootstrapAnswered(k) ==
    /\ call[k].pc = "session" /\ call[k].op = "bootstrap"
    /\ \/ /\ auth' = call[k].client
          /\ BeginRefresh(k, call[k].client)
          /\ UNCHANGED storage
       \/ /\ storage' = NoCredential
          /\ Ends(k)
          /\ UNCHANGED <<auth, loading>>
    /\ UNCHANGED <<detectionVars, resources, created>>

(* Mutant: the session is stored before it is known to be valid. *)
Connect_StoresFirst(k, c) ==
    /\ auth = NoCredential /\ call[k].pc = "idle"
    /\ loading' = TRUE
    /\ storage' = c
    /\ call' = [call EXCEPT ![k] = [NoCall EXCEPT !.pc = "session", !.op = "connect", !.client = c]]
    /\ UNCHANGED <<detectionVars, auth, resources, created>>

(* connect: the login form is shown while nobody is signed in. *)
Connect(k, c) ==
    /\ auth = NoCredential /\ call[k].pc = "idle"
    /\ loading' = TRUE
    /\ call' = [call EXCEPT ![k] = [NoCall EXCEPT !.pc = "session", !.op = "connect", !.client = c]]
    /\ UNCHANGED <<detectionVars, auth, storage, resources, created>>

ConnectAnswered(k) ==
    /\ call[k].pc = "session" /\ call[k].op = "connect"
    /\ \/ /\ storage' = call[k].client
          /\ auth' = call[k].client
          /\ BeginRefresh(k, call[k].client)
       \/ Finish(k) /\ UNCHANGED <<storage, auth>>
    /\ UNCHANGED <<detectionVars, resources, created>>

(* refresh *)
Refresh(k) ==
    /\ auth # NoCredential /\ call[k].pc = "idle"
    /\ BeginRefresh(k, auth)
    /\ UNCHANGED <<detectionVars, auth, storage, resources, created>>

(* The answer to a request of refresh_all: the section, or nothing. *)
Answers(k) == {{}, {<<Sections[call[k].next], call[k].client>>}}

(* Mutant: a section is shown as soon as it is there. *)
Fetch_ShowsAtOnce(k) ==
    /\ call[k].pc = "refresh" /\ call[k].next < Len(Sections)
    /\ \E got \in Answers(k) :
          /\ call' = [call EXCEPT ![k].next = @ + 1, ![k].loaded = @ \cup got]
          /\ resources' = {r \in resources : r[1] # Sections[call[k].next]} \cup got
    /\ UNCHANGED <<detectionVars, auth, storage, created, loading>>

(* One request of refresh_all is answered and the next one made. *)
Fetch(k) ==
    /\ call[k].pc = "refresh" /\ call[k].next < Len(Sections)
    /\ \E got \in Answers(k) :
          call' = [call EXCEPT ![k].next = @ + 1, ![k].loaded = @ \cup got]
    /\ UNCHANGED <<detectionVars, signalVars>>

(* The last request is answered: all sections are replaced together. *)
EndRefresh(k) ==
    /\ call[k].pc = "refresh" /\ call[k].next = Len(Sections)
    /\ \E got \in Answers(k) : resources' = call[k].loaded \cup got
    /\ Finish(k)
    /\ UNCHANGED <<detectionVars, auth, storage, created>>

(* An operation is asked for with the client of the moment. *)
Begin(k, op) ==
    /\ auth # NoCredential /\ call[k].pc = "idle"
    /\ loading' = TRUE
    /\ call' = [call EXCEPT ![k] = [NoCall EXCEPT !.pc = "request", !.op = op, !.client = auth]]
    /\ IF op = "detect" THEN Detect(k) ELSE UNCHANGED detectionVars
    /\ UNCHANGED <<auth, storage, resources, created>>

(* create_product, create_agent, create_directory, create_task, cancel_task and
   respond_to_permission: a refresh, for whoever is signed in by then. *)
ChangeAnswered(k) ==
    /\ call[k].pc = "request" /\ call[k].op = "change"
    /\ BeginRefresh(k, auth) \/ Finish(k)
    /\ UNCHANGED <<detectionVars, auth, storage, resources, created>>

(* create_product_token, which the daemon refuses to a product: the token is put on
   the screen, whoever is in front of it by then. *)
CreateTokenAnswered(k) ==
    /\ call[k].pc = "request" /\ call[k].op = "create_token"
    /\ created' \in {created} \cup (Bootstrap \cap {call[k].client})
    /\ Finish(k)
    /\ UNCHANGED <<detectionVars, auth, storage, resources>>

(* The daemon drops a detection whose client is gone. *)
Forget(d) == detector' = [detector EXCEPT ![d] = NoDetection]

(* detect_runtimes: the answer replaces the runtimes on the screen, whoever is in
   front of it by then. *)
DetectAnswered(k) ==
    /\ call[k].pc = "request" /\ call[k].op = "detect"
    /\ \/ /\ detector[k].pc = "done"
          /\ resources' = {r \in resources : r[1] # "runtimes"}
                             \cup {<<"runtimes", call[k].client>>}
       \/ detector[k].pc = "refused" /\ UNCHANGED resources
    /\ Forget(k) /\ Finish(k)
    /\ UNCHANGED <<runtimes, auth, storage, created>>

(* The connection breaks before the answer. *)
DetectFails(k) ==
    /\ call[k].pc = "request" /\ call[k].op = "detect"
    /\ Forget(k) /\ Finish(k)
    /\ UNCHANGED <<runtimes, auth, storage, resources, created>>

(* sign_out *)
SignOut ==
    /\ auth # NoCredential
    /\ storage' = NoCredential
    /\ auth' = NoCredential
    /\ resources' = {}
    /\ created' = NoCredential
    /\ UNCHANGED <<detectionVars, loading, call>>

(* The page is loaded again: calls and signals are gone, the storage stays. *)
Reload(k) ==
    /\ auth' = NoCredential
    /\ resources' = {}
    /\ created' = NoCredential
    /\ loading' = FALSE
    /\ call' = Loaded(k, storage)
    /\ detector' = [d \in Call |-> NoDetection]
    /\ UNCHANGED <<runtimes, storage>>

-----------------------------------------------------------------------------

Answered(k) ==
    \/ BootstrapAnswered(k) \/ ConnectAnswered(k) \/ Fetch(k) \/ EndRefresh(k)
    \/ ChangeAnswered(k) \/ CreateTokenAnswered(k) \/ DetectAnswered(k)

DaemonStep(d) == DetectorStep(d) /\ UNCHANGED <<signalVars, call>>

Next ==
    \/ \E k \in Call :
        \/ Answered(k) \/ DetectFails(k) \/ Refresh(k) \/ Reload(k)
        \/ \E c \in Credential : Connect(k, c)
        \/ \E op \in Operation : Begin(k, op)
    \/ SignOut
    \/ \E k \in Call :
        \/ DaemonStep(k)
        \/ (ProbeExits(k) \/ WaitFails(k) \/ AwaitPipes(k)) /\ UNCHANGED <<signalVars, call>>

(* Requests are answered or fail, and the daemon runs a detection on; nothing
   makes a version command exit or close its output. *)
Spec ==
    /\ Init /\ [][Next]_vars
    /\ \A k \in Call : WF_vars(Answered(k))
    /\ \A k \in Call : WF_vars(DaemonStep(k))

-----------------------------------------------------------------------------
(* Properties. *)

(* What is on the screen of the daemon's status, of its providers and of the lists
   of products or of a product was loaded with one credential, although refreshes of
   one session end in the next one: refresh_all takes the client once and replaces
   all sections together.  The runtimes are excepted, which detect_runtimes replaces
   alone, and so is the token that was created: a call of an earlier session may put
   its own beside the data of the next. *)
RefreshIsWhole ==
    \A r, s \in resources :
        r[1] # "runtimes" /\ s[1] # "runtimes" => r[2] = s[2]

(* No order of sign-outs, failing logins, expired sessions and page loads leaves a
   bearer token in the local storage of a browser where nobody is signed in, unless
   a stored session is being tried (connect, sign_out, bootstrap_from_storage).  The
   token need not be that of the session in use: one that was tried at the page load
   may succeed after somebody has signed in with another. *)
SignedOutLeavesNoToken ==
    storage # NoCredential =>
        auth # NoCredential \/ \E k \in Call : call[k].op = "bootstrap" /\ call[k].pc = "session"

(* Loading comes to an end, over sign-outs, overlapping calls and detections
   whose version command hangs; it goes on only while one that has exited has
   left its output open. *)
LoadingEnds ==
    \/ <>[](\E k \in Call : detector[k].pc = "pipes")
    \/ loading ~> ~loading

=============================================================================
