--------------------------- MODULE ConsoleProofs ---------------------------
(***************************************************************************)
(* The console shows the sections of a refresh together, a sign-out leaves *)
(* no token in the browser, and a detection answers for every provider of  *)
(* its registry: for any number of calls, credentials and providers, and   *)
(* for every set of registries.                                            *)
(***************************************************************************)
EXTENDS Console, TLAPS

Positive == Nat \ {0}

CallType ==
    [pc : {"idle", "session", "request", "refresh"},
     op : Operation \cup {"none", "bootstrap", "connect", "refresh"},
     client : Credential \cup {NoCredential},
     next : Positive, loaded : SUBSET (Section \X Credential)]

(* What a call has loaded, it has loaded with its own client, and it has a
   client while it waits for an answer. *)
CallOK(k) ==
    /\ \A r \in call[k].loaded : r[2] = call[k].client
    /\ call[k].pc # "idle" => call[k].client \in Credential

CallsOK == \A k \in Call : CallOK(k)

ConsoleInv ==
    /\ auth \in Credential \cup {NoCredential}
    /\ storage \in Credential \cup {NoCredential}
    /\ resources \subseteq Section \X Credential
    /\ call \in [Call -> CallType]
    /\ CallsOK
    /\ RefreshIsWhole
    /\ SignedOutLeavesNoToken

LEMMA SectionsType == Len(Sections) = 3 /\ \A i \in 1..3 : Sections[i] \in Section
  BY DEF Sections, Section

LEMMA OneIsPositive == 1 \in Positive
  BY DEF Positive

LEMMA NoCallType == NoCall \in CallType /\ NoCall.loaded = {} /\ NoCall.pc = "idle"
  BY OneIsPositive DEF NoCall, CallType

(* A call that begins. *)
LEMMA NewCall ==
    ASSUME NEW pc \in {"session", "request", "refresh"},
           NEW op \in Operation \cup {"none", "bootstrap", "connect", "refresh"},
           NEW c \in Credential
    PROVE  LET n == [NoCall EXCEPT !.pc = pc, !.op = op, !.client = c]
           IN  n \in CallType /\ n.loaded = {} /\ n.pc = pc /\ n.op = op /\ n.client = c
  BY OneIsPositive DEF NoCall, CallType

(* A step that moves one call at most, which is no session being tried, and
   leaves the signals of the session alone. *)
LEMMA OtherStep ==
    ASSUME ConsoleInv, NEW k \in Call, NEW n \in CallType,
           call' = [call EXCEPT ![k] = n],
           \A r \in n.loaded : r[2] = n.client,
           n.pc # "idle" => n.client \in Credential,
           call[k].op # "bootstrap" \/ call[k].pc # "session",
           UNCHANGED <<auth, storage>>,
           resources' \subseteq Section \X Credential,
           RefreshIsWhole'
    PROVE  ConsoleInv'
  <1>1. call' \in [Call -> CallType]
    BY DEF ConsoleInv
  <1>2. CallsOK'
    BY DEF ConsoleInv, CallsOK, CallOK
  <1>3. SignedOutLeavesNoToken'
    BY DEF ConsoleInv, SignedOutLeavesNoToken
  <1>4. QED
    BY <1>1, <1>2, <1>3 DEF ConsoleInv

(* Ends and BeginRefresh, seen from the call. *)
LEMMA EndsIsACall ==
    ASSUME NEW k \in Call, Ends(k)
    PROVE  \E n \in CallType : /\ call' = [call EXCEPT ![k] = n]
                               /\ n.loaded = {} /\ n.pc = "idle"
  BY NoCallType DEF Ends

LEMMA BeginRefreshIsACall ==
    ASSUME NEW k \in Call, NEW c \in Credential \cup {NoCredential}, BeginRefresh(k, c)
    PROVE  \E n \in CallType : /\ call' = [call EXCEPT ![k] = n]
                               /\ n.loaded = {}
                               /\ n.pc # "idle" => n.client \in Credential
  <1>1. CASE c = NoCredential
    BY <1>1, EndsIsACall DEF BeginRefresh, Finish
  <1>2. CASE c # NoCredential
    <2>1. c \in Credential
      BY <1>2
    <2>2. "refresh" \in Operation \cup {"none", "bootstrap", "connect", "refresh"}
      OBVIOUS
    <2>3. LET n == [NoCall EXCEPT !.pc = "refresh", !.op = "refresh", !.client = c]
          IN  n \in CallType /\ n.loaded = {} /\ n.pc = "refresh" /\ n.client = c
      BY <2>1, <2>2, NewCall
    <2>4. QED
      BY <1>2, <2>1, <2>3 DEF BeginRefresh
  <1>3. QED
    BY <1>1, <1>2

(* A session that was tried is in use, or its token is gone. *)
LEMMA SessionSettled ==
    ASSUME ConsoleInv, NEW k \in Call, NEW n \in CallType,
           call' = [call EXCEPT ![k] = n],
           n.loaded = {},
           n.pc # "idle" => n.client \in Credential,
           auth' \in Credential \cup {NoCredential},
           storage' \in Credential \cup {NoCredential},
           auth' # NoCredential \/ storage' = NoCredential,
           UNCHANGED resources
    PROVE  ConsoleInv'
  <1>1. call' \in [Call -> CallType]
    BY DEF ConsoleInv
  <1>2. CallsOK'
    BY DEF ConsoleInv, CallsOK, CallOK
  <1>3. SignedOutLeavesNoToken'
    BY DEF SignedOutLeavesNoToken
  <1>4. RefreshIsWhole'
    BY DEF ConsoleInv, RefreshIsWhole
  <1>5. QED
    BY <1>1, <1>2, <1>3, <1>4 DEF ConsoleInv

(* The page, as it is loaded with what is stored. *)
LEMMA LoadedIsOK ==
    ASSUME NEW k \in Call, NEW stored \in Credential \cup {NoCredential}
    PROVE  /\ Loaded(k, stored) \in [Call -> CallType]
           /\ \A x \in Call : /\ Loaded(k, stored)[x].loaded = {}
                              /\ Loaded(k, stored)[x].pc # "idle" =>
                                    Loaded(k, stored)[x].client \in Credential
           /\ stored # NoCredential => /\ Loaded(k, stored)[k].op = "bootstrap"
                                       /\ Loaded(k, stored)[k].pc = "session"
  <1> DEFINE n == [NoCall EXCEPT !.pc = "session", !.op = "bootstrap", !.client = stored]
  <1>1. stored # NoCredential =>
            /\ n \in CallType /\ n.loaded = {} /\ n.pc = "session"
            /\ n.op = "bootstrap" /\ n.client \in Credential
    <2> SUFFICES ASSUME stored # NoCredential
                 PROVE  /\ n \in CallType /\ n.loaded = {} /\ n.pc = "session"
                        /\ n.op = "bootstrap" /\ n.client \in Credential
      OBVIOUS
    <2>1. stored \in Credential
      OBVIOUS
    <2>2. QED
      BY <2>1, OneIsPositive DEF NoCall, CallType
  <1> HIDE DEF n
  <1>2. Loaded(k, stored) =
            [x \in Call |-> IF x = k /\ stored # NoCredential THEN n ELSE NoCall]
    BY DEF Loaded, n
  <1>3. QED
    BY <1>1, <1>2, NoCallType

LEMMA InitConsole == Init => ConsoleInv
  <1> SUFFICES ASSUME Init PROVE ConsoleInv
    OBVIOUS
  <1>1. PICK k \in Call : call = Loaded(k, storage)
    BY ConsoleAssumption DEF Init
  <1>2. storage \in Credential \cup {NoCredential}
    BY DEF Init
  <1>3. call \in [Call -> CallType] /\ CallsOK /\ SignedOutLeavesNoToken
    BY <1>1, <1>2, LoadedIsOK DEF CallsOK, CallOK, SignedOutLeavesNoToken
  <1>4. QED
    BY <1>2, <1>3 DEF Init, ConsoleInv, RefreshIsWhole

LEMMA AnswersType ==
    ASSUME NEW k \in Call, call[k] \in CallType, CallOK(k), call[k].pc = "refresh",
           call[k].next <= 3
    PROVE  \A got \in Answers(k) :
              got \subseteq Section \X Credential /\ \A r \in got : r[2] = call[k].client
  <1>1. call[k].next \in Nat \ {0}
    BY DEF CallType, Positive
  <1>2. call[k].next \in 1..3
    BY <1>1
  <1>3. Sections[call[k].next] \in Section
    BY <1>2, SectionsType
  <1>4. call[k].client \in Credential
    BY DEF CallOK
  <1>5. QED
    BY <1>3, <1>4 DEF Answers

LEMMA AnsweredKeeps ==
    ASSUME ConsoleInv, NEW k \in Call, Answered(k)
    PROVE  ConsoleInv'
  <1>0. call[k] \in CallType /\ CallOK(k)
    BY DEF ConsoleInv, CallsOK
  <1>1. CASE BootstrapAnswered(k)
    <2>1. call[k].client \in Credential
      BY <1>0, <1>1 DEF BootstrapAnswered, CallOK
    <2>2. call[k].client # NoCredential
      BY <2>1, ConsoleAssumption
    <2>3. CASE auth' = call[k].client /\ BeginRefresh(k, call[k].client) /\ UNCHANGED storage
      <3>1. PICK n \in CallType : /\ call' = [call EXCEPT ![k] = n]
                                  /\ n.loaded = {}
                                  /\ n.pc # "idle" => n.client \in Credential
        BY <2>1, <2>3, BeginRefreshIsACall
      <3>2. QED
        BY <1>1, <2>1, <2>2, <2>3, <3>1, SessionSettled DEF BootstrapAnswered, ConsoleInv
    <2>4. CASE storage' = NoCredential /\ Ends(k) /\ UNCHANGED <<auth, loading>>
      <3>1. PICK n \in CallType : call' = [call EXCEPT ![k] = n] /\ n.loaded = {} /\ n.pc = "idle"
        BY <2>4, EndsIsACall
      <3>2. QED
        BY <1>1, <2>4, <3>1, SessionSettled DEF BootstrapAnswered, ConsoleInv
    <2>5. QED
      BY <1>1, <2>3, <2>4 DEF BootstrapAnswered
  <1>2. CASE ConnectAnswered(k)
    <2>1. call[k].client \in Credential
      BY <1>0, <1>2 DEF ConnectAnswered, CallOK
    <2>2. call[k].client # NoCredential
      BY <2>1, ConsoleAssumption
    <2>3. CASE storage' = call[k].client /\ auth' = call[k].client /\ BeginRefresh(k, call[k].client)
      <3>1. PICK n \in CallType : /\ call' = [call EXCEPT ![k] = n]
                                  /\ n.loaded = {}
                                  /\ n.pc # "idle" => n.client \in Credential
        BY <2>1, <2>3, BeginRefreshIsACall
      <3>2. QED
        BY <1>2, <2>1, <2>2, <2>3, <3>1, SessionSettled DEF ConnectAnswered, ConsoleInv
    <2>4. CASE Finish(k) /\ UNCHANGED <<storage, auth>>
      <3>1. PICK n \in CallType : call' = [call EXCEPT ![k] = n] /\ n.loaded = {} /\ n.pc = "idle"
        BY <2>4, EndsIsACall DEF Finish
      <3>2. QED
        BY <1>2, <2>4, <3>1, OtherStep DEF ConnectAnswered, ConsoleInv, RefreshIsWhole
    <2>5. QED
      BY <1>2, <2>3, <2>4 DEF ConnectAnswered
  <1>3. CASE Fetch(k)
    <2>1. PICK got \in Answers(k) :
              call' = [call EXCEPT ![k].next = @ + 1, ![k].loaded = @ \cup got]
      BY <1>3 DEF Fetch
    <2> DEFINE n == [call[k] EXCEPT !.next = @ + 1, !.loaded = @ \cup got]
    <2>2. call' = [call EXCEPT ![k] = n]
      BY <2>1, <1>0 DEF ConsoleInv, CallType
    <2>3. got \subseteq Section \X Credential /\ \A r \in got : r[2] = call[k].client
      <3>1. call[k].next \in Nat /\ call[k].next < 3 /\ call[k].pc = "refresh"
        BY <1>0, <1>3, SectionsType DEF Fetch, CallType, Positive
      <3>2. call[k].next <= 3
        BY <3>1
      <3>3. QED
        BY <1>0, <3>1, <3>2, AnswersType
    <2>4. n \in CallType
      <3>1. call[k].loaded \cup got \in SUBSET (Section \X Credential)
        BY <1>0, <2>3 DEF CallType
      <3>2. call[k].next + 1 \in Positive
        BY <1>0 DEF CallType, Positive
      <3>3. QED
        BY <1>0, <3>1, <3>2 DEF CallType
    <2>5. n.client = call[k].client /\ n.loaded = call[k].loaded \cup got /\ n.pc = call[k].pc
      BY <1>0 DEF CallType
    <2>6. \A r \in n.loaded : r[2] = n.client
      BY <1>0, <2>3, <2>5 DEF CallOK
    <2>7. call[k].pc = "refresh" /\ call[k].client \in Credential
      BY <1>0, <1>3 DEF Fetch, CallOK
    <2> HIDE DEF n
    <2>8. QED
      BY <1>3, <2>2, <2>4, <2>5, <2>6, <2>7, OtherStep
         DEF Fetch, signalVars, ConsoleInv, RefreshIsWhole
  <1>4. CASE EndRefresh(k)
    <2>1. PICK n \in CallType : call' = [call EXCEPT ![k] = n] /\ n.loaded = {} /\ n.pc = "idle"
      BY <1>4, EndsIsACall DEF EndRefresh, Finish
    <2>2. PICK got \in Answers(k) : resources' = call[k].loaded \cup got
      BY <1>4 DEF EndRefresh
    <2>3. got \subseteq Section \X Credential /\ \A r \in got : r[2] = call[k].client
      BY <1>0, <1>4, AnswersType, SectionsType DEF EndRefresh
    <2>4. resources' \subseteq Section \X Credential
      BY <1>0, <2>2, <2>3 DEF CallType
    <2>5. RefreshIsWhole'
      BY <1>0, <2>2, <2>3 DEF CallOK, RefreshIsWhole
    <2>6. QED
      BY <1>4, <2>1, <2>4, <2>5, OtherStep DEF EndRefresh
  <1>5. CASE ChangeAnswered(k)
    <2>1. PICK n \in CallType : /\ call' = [call EXCEPT ![k] = n]
                                /\ n.loaded = {}
                                /\ n.pc # "idle" => n.client \in Credential
      BY <1>5, EndsIsACall, BeginRefreshIsACall DEF ChangeAnswered, Finish, ConsoleInv
    <2>2. QED
      BY <1>5, <2>1, OtherStep DEF ChangeAnswered, ConsoleInv, RefreshIsWhole
  <1>6. CASE CreateTokenAnswered(k) \/ DetectAnswered(k)
    <2>1. PICK n \in CallType : call' = [call EXCEPT ![k] = n] /\ n.loaded = {} /\ n.pc = "idle"
      BY <1>6, EndsIsACall DEF CreateTokenAnswered, DetectAnswered, Finish
    <2>2. call[k].client \in Credential /\ call[k].pc = "request"
      BY <1>0, <1>6 DEF CreateTokenAnswered, DetectAnswered, CallOK
    <2>3. \/ resources' = resources
          \/ resources' = {r \in resources : r[1] # "runtimes"} \cup {<<"runtimes", call[k].client>>}
      BY <1>6 DEF CreateTokenAnswered, DetectAnswered
    <2>4. resources' \subseteq Section \X Credential /\ RefreshIsWhole'
      BY <2>2, <2>3 DEF ConsoleInv, RefreshIsWhole, Section
    <2>5. UNCHANGED <<auth, storage>>
      BY <1>6 DEF CreateTokenAnswered, DetectAnswered
    <2>6. QED
      BY <2>1, <2>2, <2>4, <2>5, OtherStep
  <1>7. QED
    BY <1>1, <1>2, <1>3, <1>4, <1>5, <1>6 DEF Answered

LEMMA StartKeeps ==
    ASSUME ConsoleInv, NEW k \in Call,
           \/ DetectFails(k) \/ Refresh(k)
           \/ \E c \in Credential : Connect(k, c)
           \/ \E op \in Operation : Begin(k, op)
    PROVE  ConsoleInv'
  <1>1. CASE DetectFails(k)
    <2>1. PICK n \in CallType : call' = [call EXCEPT ![k] = n] /\ n.loaded = {} /\ n.pc = "idle"
      BY <1>1, EndsIsACall DEF DetectFails, Finish
    <2>2. QED
      BY <1>1, <2>1, OtherStep DEF DetectFails, ConsoleInv, RefreshIsWhole
  <1>2. CASE Refresh(k)
    <2>1. PICK n \in CallType : /\ call' = [call EXCEPT ![k] = n]
                                /\ n.loaded = {}
                                /\ n.pc # "idle" => n.client \in Credential
      BY <1>2, BeginRefreshIsACall DEF Refresh, ConsoleInv
    <2>2. QED
      BY <1>2, <2>1, OtherStep DEF Refresh, ConsoleInv, RefreshIsWhole
  <1>3. ASSUME NEW c \in Credential, Connect(k, c) PROVE ConsoleInv'
    <2> DEFINE n == [NoCall EXCEPT !.pc = "session", !.op = "connect", !.client = c]
    <2>1. n \in CallType /\ n.loaded = {} /\ n.client = c
      BY OneIsPositive DEF NoCall, CallType
    <2>2. call' = [call EXCEPT ![k] = n] /\ call[k].pc = "idle"
      BY <1>3 DEF Connect
    <2> HIDE DEF n
    <2>3. QED
      BY <1>3, <2>1, <2>2, OtherStep DEF Connect, ConsoleInv, RefreshIsWhole
  <1>4. ASSUME NEW op \in Operation, Begin(k, op) PROVE ConsoleInv'
    <2> DEFINE n == [NoCall EXCEPT !.pc = "request", !.op = op, !.client = auth]
    <2>1. auth \in Credential
      BY <1>4 DEF Begin, ConsoleInv
    <2>2. n \in CallType /\ n.loaded = {} /\ n.client = auth
      BY <2>1, OneIsPositive DEF NoCall, CallType
    <2>3. call' = [call EXCEPT ![k] = n] /\ call[k].pc = "idle"
      BY <1>4 DEF Begin
    <2>4. UNCHANGED <<auth, storage, resources>>
      BY <1>4 DEF Begin
    <2>5. resources' \subseteq Section \X Credential /\ RefreshIsWhole'
      BY <2>4 DEF ConsoleInv, RefreshIsWhole
    <2> HIDE DEF n
    <2>6. QED
      BY <2>1, <2>2, <2>3, <2>4, <2>5, OtherStep
  <1>5. QED
    BY <1>1, <1>2, <1>3, <1>4

LEMMA PageKeeps ==
    ASSUME ConsoleInv, SignOut \/ \E k \in Call : Reload(k)
    PROVE  ConsoleInv'
  <1>1. CASE SignOut
    BY <1>1 DEF SignOut, ConsoleInv, RefreshIsWhole, SignedOutLeavesNoToken, CallsOK, CallOK
  <1>2. ASSUME NEW k \in Call, Reload(k) PROVE ConsoleInv'
    <2>1. call' = Loaded(k, storage) /\ storage' = storage
      BY <1>2 DEF Reload
    <2>2. storage \in Credential \cup {NoCredential}
      BY DEF ConsoleInv
    <2>3. call' \in [Call -> CallType] /\ CallsOK' /\ SignedOutLeavesNoToken'
      BY <2>1, <2>2, LoadedIsOK DEF CallsOK, CallOK, SignedOutLeavesNoToken
    <2>4. QED
      BY <1>2, <2>1, <2>2, <2>3 DEF Reload, ConsoleInv, RefreshIsWhole
  <1>3. QED
    BY <1>1, <1>2

LEMMA QuietKeeps ==
    ASSUME ConsoleInv, UNCHANGED <<signalVars, call>>
    PROVE  ConsoleInv'
  BY DEF signalVars, ConsoleInv, RefreshIsWhole, SignedOutLeavesNoToken, CallsOK, CallOK

LEMMA NextConsole == ConsoleInv /\ [Next]_vars => ConsoleInv'
  <1> SUFFICES ASSUME ConsoleInv, [Next]_vars PROVE ConsoleInv'
    OBVIOUS
  <1>1. ASSUME NEW k \in Call, Answered(k) PROVE ConsoleInv'
    BY <1>1, AnsweredKeeps
  <1>2. ASSUME NEW k \in Call,
               \/ DetectFails(k) \/ Refresh(k)
               \/ \E c \in Credential : Connect(k, c)
               \/ \E op \in Operation : Begin(k, op)
        PROVE  ConsoleInv'
    BY <1>2, StartKeeps
  <1>3. CASE SignOut \/ \E k \in Call : Reload(k)
    BY <1>3, PageKeeps
  <1>4. ASSUME NEW k \in Call,
               \/ DaemonStep(k)
               \/ (ProbeExits(k) \/ WaitFails(k) \/ AwaitPipes(k)) /\ UNCHANGED <<signalVars, call>>
        PROVE  ConsoleInv'
    BY <1>4, QuietKeeps DEF DaemonStep
  <1>5. CASE UNCHANGED vars
    BY <1>5, QuietKeeps DEF vars, signalVars
  <1>6. QED
    BY <1>1, <1>2, <1>3, <1>4, <1>5 DEF Next

(* The sections that refresh_all loads are on the screen together, all of them with
   one credential, for any number of overlapping calls and sessions; the runtimes
   are excepted, which detect_runtimes replaces alone. *)
THEOREM SectionsAreOfOneRefresh == Spec => []RefreshIsWhole
  <1>1. ConsoleInv => RefreshIsWhole
    BY DEF ConsoleInv
  <1>2. QED
    BY <1>1, InitConsole, NextConsole, PTL DEF Spec

(* No order of sign-ins, sign-outs, expired sessions and page loads leaves a
   token in the browser's storage while nobody is signed in and no stored session is
   being tried (connect, sign_out, bootstrap_from_storage). *)
THEOREM NoTokenLeftBehind == Spec => []SignedOutLeavesNoToken
  <1>1. ConsoleInv => SignedOutLeavesNoToken
    BY DEF ConsoleInv
  <1>2. QED
    BY <1>1, InitConsole, NextConsole, PTL DEF Spec

-----------------------------------------------------------------------------
(* Detections. *)

DetectionType ==
    [pc : {"idle", "detect", "wait", "pipes", "save", "list", "refused", "done"},
     registry : SUBSET Provider,
     at : Provider \cup {NoProvider},
     child : {"none", "running", "exited"},
     views : SUBSET Provider]

(* A detection saves a view of every provider, and the store keeps them until it
   lists them. *)
DetectionOK(d) ==
    /\ detector[d].pc \in {"wait", "pipes"} => detector[d].at \in Provider
    /\ detector[d].pc \in {"save", "done"} => detector[d].registry \subseteq detector[d].views
    /\ detector[d].pc = "list" => detector[d].registry \subseteq runtimes

DetectionInv ==
    /\ detector \in [Detector -> DetectionType]
    /\ \A d \in Detector : DetectionOK(d)

(* One detection moves; the store only grows. *)
LEMMA DetectionMoves ==
    ASSUME DetectionInv, NEW d \in Detector, NEW n \in DetectionType,
           detector' = [detector EXCEPT ![d] = n],
           runtimes \subseteq runtimes',
           n.pc \in {"wait", "pipes"} => n.at \in Provider,
           n.pc \in {"save", "done"} => n.registry \subseteq n.views,
           n.pc = "list" => n.registry \subseteq runtimes'
    PROVE  DetectionInv'
  <1>1. detector' \in [Detector -> DetectionType]
    BY DEF DetectionInv
  <1>2. ASSUME NEW x \in Detector PROVE DetectionOK(x)'
    BY DEF DetectionInv, DetectionOK
  <1>3. QED
    BY <1>1, <1>2 DEF DetectionInv

LEMMA NoDetectionType == NoDetection \in DetectionType /\ NoDetection.pc = "idle"
  BY DEF NoDetection, DetectionType

LEMMA ForgetKeeps ==
    ASSUME DetectionInv, NEW d \in Detector, Forget(d), UNCHANGED runtimes
    PROVE  DetectionInv'
  BY NoDetectionType, DetectionMoves DEF Forget

LEMMA ViewedKeeps ==
    ASSUME DetectionInv, NEW d \in Detector, NEW p \in Provider, Viewed(d, p), UNCHANGED runtimes
    PROVE  DetectionInv'
  <1> DEFINE n == [detector[d] EXCEPT !.pc = "detect", !.at = NoProvider, !.child = "none",
                                      !.views = @ \cup {p}]
  <1>1. detector[d] \in DetectionType
    BY DEF DetectionInv
  <1>2. n \in DetectionType /\ n.pc = "detect"
    BY <1>1 DEF DetectionType
  <1>3. detector' = [detector EXCEPT ![d] = n]
    BY <1>1 DEF Viewed, DetectionInv, DetectionType
  <1> HIDE DEF n
  <1>4. QED
    BY <1>2, <1>3, DetectionMoves

LEMMA DetectKeeps ==
    ASSUME DetectionInv, NEW d \in Detector, Detect(d)
    PROVE  DetectionInv'
  <1>1. detector[d] \in DetectionType
    BY DEF DetectionInv
  <1>2. CASE detector' = [detector EXCEPT ![d].pc = "refused"]
    <2> DEFINE n == [detector[d] EXCEPT !.pc = "refused"]
    <2>1. n \in DetectionType /\ n.pc = "refused"
      BY <1>1 DEF DetectionType
    <2>2. detector' = [detector EXCEPT ![d] = n]
      BY <1>1, <1>2 DEF DetectionInv, DetectionType
    <2> HIDE DEF n
    <2>3. QED
      BY <2>1, <2>2, DetectionMoves DEF Detect
  <1>3. ASSUME NEW registry \in Registries,
               detector' = [detector EXCEPT ![d].pc = "detect", ![d].registry = Detectable(registry)]
        PROVE  DetectionInv'
    <2> DEFINE n == [detector[d] EXCEPT !.pc = "detect", !.registry = Detectable(registry)]
    <2>1. Detectable(registry) \in SUBSET Provider
      BY DetectionAssumption DEF Detectable
    <2>2. n \in DetectionType /\ n.pc = "detect"
      BY <1>1, <2>1 DEF DetectionType
    <2>3. detector' = [detector EXCEPT ![d] = n]
      BY <1>1, <1>3 DEF DetectionInv, DetectionType
    <2> HIDE DEF n
    <2>4. QED
      BY <2>2, <2>3, DetectionMoves DEF Detect
  <1>4. QED
    BY <1>2, <1>3 DEF Detect

LEMMA DetectorStepKeeps ==
    ASSUME DetectionInv, NEW d \in Detector,
           DetectorStep(d) \/ ProbeExits(d) \/ WaitFails(d) \/ AwaitPipes(d)
    PROVE  DetectionInv'
  <1>0. detector[d] \in DetectionType /\ DetectionOK(d)
    BY DEF DetectionInv
  <1>1. CASE Resolve(d)
    <2>1. PICK p \in Left(d) : Viewed(d, p)
      BY <1>1 DEF Resolve
    <2>2. p \in Provider
      BY <1>0, <2>1 DEF Left, DetectionType
    <2>3. QED
      BY <1>1, <2>1, <2>2, ViewedKeeps DEF Resolve
  <1>2. CASE WaitFails(d) \/ ProbeTimeout(d) \/ AwaitPipes(d)
    <2>1. /\ detector[d].at \in Provider /\ Viewed(d, detector[d].at) /\ UNCHANGED runtimes
      BY <1>0, <1>2 DEF WaitFails, ProbeTimeout, AwaitPipes, DetectionOK
    <2>2. QED
      BY <2>1, ViewedKeeps
  <1>3. CASE SpawnProbe(d)
    <2>1. PICK p \in Left(d) :
              detector' = [detector EXCEPT ![d].pc = "wait", ![d].at = p, ![d].child = "running"]
      BY <1>3 DEF SpawnProbe
    <2>2. p \in Provider
      BY <1>0, <2>1 DEF Left, DetectionType
    <2> DEFINE n == [detector[d] EXCEPT !.pc = "wait", !.at = p, !.child = "running"]
    <2>3. n \in DetectionType /\ n.pc = "wait" /\ n.at \in Provider
      BY <1>0, <2>2 DEF DetectionType
    <2>4. detector' = [detector EXCEPT ![d] = n]
      BY <1>0, <2>1 DEF DetectionInv, DetectionType
    <2> HIDE DEF n
    <2>5. QED
      BY <1>3, <2>3, <2>4, DetectionMoves DEF SpawnProbe
  <1>4. CASE ChildSeen(d) \/ ProbeExits(d)
    <2>1. PICK n \in {[detector[d] EXCEPT !.pc = "pipes"], [detector[d] EXCEPT !.child = "exited"]} :
              detector' = [detector EXCEPT ![d] = n]
      BY <1>0, <1>4 DEF ChildSeen, ProbeExits, DetectionInv, DetectionType
    <2>2. /\ n \in DetectionType /\ n.pc \in {"pipes", "wait"} /\ n.at = detector[d].at
          /\ detector[d].pc = "wait"
      BY <1>0, <1>4, <2>1 DEF ChildSeen, ProbeExits, DetectionType
    <2>3. n.at \in Provider
      BY <1>0, <2>2 DEF DetectionOK
    <2>4. QED
      BY <1>4, <2>1, <2>2, <2>3, DetectionMoves DEF ChildSeen, ProbeExits
  <1>5. CASE EndDetection(d)
    <2> DEFINE n == [detector[d] EXCEPT !.pc = "save"]
    <2>1. /\ n \in DetectionType /\ n.pc = "save"
          /\ n.registry = detector[d].registry /\ n.views = detector[d].views
      BY <1>0 DEF DetectionType
    <2>2. n.registry \subseteq n.views
      BY <1>5, <2>1 DEF EndDetection, Left
    <2>3. detector' = [detector EXCEPT ![d] = n]
      BY <1>0, <1>5 DEF EndDetection, DetectionInv, DetectionType
    <2> HIDE DEF n
    <2>4. QED
      BY <1>5, <2>1, <2>2, <2>3, DetectionMoves DEF EndDetection
  <1>6. CASE SaveAll(d)
    <2> DEFINE n == [detector[d] EXCEPT !.pc = "list"]
    <2>1. n \in DetectionType /\ n.pc = "list" /\ n.registry = detector[d].registry
      BY <1>0 DEF DetectionType
    <2>2. detector[d].registry \subseteq detector[d].views
      BY <1>0, <1>6 DEF SaveAll, DetectionOK
    <2>3. runtimes' = runtimes \cup detector[d].views
      BY <1>6 DEF SaveAll
    <2>4. detector' = [detector EXCEPT ![d] = n]
      BY <1>0, <1>6 DEF SaveAll, DetectionInv, DetectionType
    <2> HIDE DEF n
    <2>5. QED
      BY <2>1, <2>2, <2>3, <2>4, DetectionMoves
  <1>7. CASE ListForProviders(d)
    <2> DEFINE n == [detector[d] EXCEPT !.pc = "done", !.views = detector[d].registry \cap runtimes]
    <2>1. /\ n \in DetectionType /\ n.pc = "done" /\ n.registry = detector[d].registry
          /\ n.views = detector[d].registry \cap runtimes
      BY <1>0 DEF DetectionType
    <2>2. n.registry \subseteq n.views
      BY <1>0, <1>7, <2>1 DEF ListForProviders, DetectionOK
    <2>3. detector' = [detector EXCEPT ![d] = n]
      BY <1>0, <1>7 DEF ListForProviders, DetectionInv, DetectionType
    <2> HIDE DEF n
    <2>4. QED
      BY <1>7, <2>1, <2>2, <2>3, DetectionMoves DEF ListForProviders
  <1>8. QED
    BY <1>1, <1>2, <1>3, <1>4, <1>5, <1>6, <1>7 DEF DetectorStep

LEMMA NextDetection == DetectionInv /\ [Next]_vars => DetectionInv'
  <1> SUFFICES ASSUME DetectionInv, [Next]_vars PROVE DetectionInv'
    OBVIOUS
  <1> USE DEF Call
  <1>1. CASE UNCHANGED detectionVars
    BY <1>1 DEF detectionVars, DetectionInv, DetectionOK
  <1>2. ASSUME NEW k \in Call, Answered(k) PROVE DetectionInv'
    <2>1. CASE DetectAnswered(k)
      BY <2>1, ForgetKeeps DEF DetectAnswered
    <2>2. CASE \/ BootstrapAnswered(k) \/ ConnectAnswered(k) \/ Fetch(k) \/ EndRefresh(k)
               \/ ChangeAnswered(k) \/ CreateTokenAnswered(k)
      BY <1>1, <2>2 DEF BootstrapAnswered, ConnectAnswered, Fetch, EndRefresh, ChangeAnswered,
                        CreateTokenAnswered
    <2>3. QED
      BY <1>2, <2>1, <2>2 DEF Answered
  <1>3. ASSUME NEW k \in Call, DetectFails(k) PROVE DetectionInv'
    BY <1>3, ForgetKeeps DEF DetectFails
  <1>4. ASSUME NEW k \in Call, Reload(k) PROVE DetectionInv'
    <2>1. detector' = [d \in Detector |-> NoDetection] /\ UNCHANGED runtimes
      BY <1>4 DEF Reload
    <2>2. QED
      BY <2>1, NoDetectionType DEF DetectionInv, DetectionOK
  <1>5. ASSUME NEW k \in Call, NEW op \in Operation, Begin(k, op) PROVE DetectionInv'
    BY <1>1, <1>5, DetectKeeps DEF Begin
  <1>6. ASSUME NEW k \in Call, NEW c \in Credential, Connect(k, c) PROVE DetectionInv'
    BY <1>1, <1>6 DEF Connect
  <1>7. ASSUME NEW k \in Call, Refresh(k) PROVE DetectionInv'
    BY <1>1, <1>7 DEF Refresh
  <1>8. ASSUME NEW k \in Call, DaemonStep(k) \/ ProbeExits(k) \/ WaitFails(k) \/ AwaitPipes(k)
        PROVE  DetectionInv'
    BY <1>8, DetectorStepKeeps DEF DaemonStep
  <1>9. CASE SignOut \/ UNCHANGED vars
    BY <1>1, <1>9 DEF SignOut, vars
  <1>10. QED
    BY <1>2, <1>3, <1>4, <1>5, <1>6, <1>7, <1>8, <1>9 DEF Next

(* A detection answers with a view of every provider of the registry it read,
   however many detections of other registries save theirs between its own save
   and its answer (RuntimeStore::save_all, list_for_providers). *)
THEOREM DetectionsAnswerInFull == Spec => []AnswerIsComplete
  <1>1. Init => DetectionInv
    BY NoDetectionType DEF Init, DetectionInit, DetectionInv, DetectionOK
  <1>2. DetectionInv => AnswerIsComplete
    BY DEF DetectionInv, DetectionOK, AnswerIsComplete
  <1>3. QED
    BY <1>1, <1>2, NextDetection, PTL DEF Spec

=============================================================================
