-------------------------- MODULE AdmissionProofs --------------------------
(***************************************************************************)
(* Every handler checks in one transaction and writes in a later one.      *)
(* What the tables promise follows from what a call still knows when it    *)
(* writes: the request it was given, the rows it has read, and what it     *)
(* found of them, none of which another call can take away.                *)
(***************************************************************************)
EXTENDS Admission, WellFoundedInduction, TLAPS

AdmittedTask == [input : {r.input : r \in {q \in Request : q.op = "create_task"}},
                 mode : WorkspaceMode, provider : Provider, model : Model,
                 grant : Grant, profile : Profile, remote_scope : BOOLEAN]

(* One reading of its grant authorized a task, in the mode an earlier reading
   chose, and its profile belongs to its product and allows that mode. *)
AdmittedWasAuthorized ==
    \A i \in DOMAIN tasks :
        LET t == tasks[i] IN
        /\ Authorizes(t.grant, t.input.product, t.input.agent, t.input.capabilities,
                      t.mode, t.input.opt_in, RequestsRemote(t.input))
        /\ AgentAuthorizes(t.profile, t.input.product, t.mode)

(* The tables. *)
TablesInv ==
    /\ products \in [Product -> Row(ProductRow)]
    /\ tokens \in [Token -> Row(TokenRow)]
    /\ grants \in [GrantId -> Row(Grant)]
    /\ profiles \in [Agent -> Row(Profile)]
    /\ tasks \in Seq(AdmittedTask)
    /\ StoredRowsAreValid
    /\ ProvidersAreKnown
    /\ AdmittedWasAuthorized
    /\ RemoteIsGated

Execution == [op : {"execute"}, task : Nat]

Label == {"idle", "authenticate", "touch", "done",
          "create_product", "patch_product", "update_product", "create_token", "revoke_token",
          "create_grant", "insert_grant", "patch_grant", "merge_grant", "update_grant",
          "delete_grant", "remove_grant",
          "create_profile", "insert_profile", "patch_profile", "merge_profile",
          "update_profile", "delete_profile", "remove_profile",
          "create_task", "task_profile", "task_authorize", "insert_task",
          "execute", "workspace"}

CallsTyped ==
    /\ pc \in [Call -> Label]
    /\ req \in [Call -> Row(Request \cup Execution)]
    /\ auth \in [Call -> Row(AuthContext)]
    /\ local \in [Call -> Locals]
    /\ barred \in [Call -> BOOLEAN]

Asked(c, op) == req[c] \in Request /\ req[c].op = op

(* A statement belongs to the handler of the operation that was asked for. *)
RequestFits(c) ==
    /\ pc[c] \in {"authenticate", "touch"} => req[c] \in Request
    /\ pc[c] = "create_product" => Asked(c, "create_product")
    /\ pc[c] \in {"patch_product", "update_product"} => Asked(c, "patch_product")
    /\ pc[c] = "create_token" => Asked(c, "create_token")
    /\ pc[c] = "revoke_token" => Asked(c, "revoke_token")
    /\ pc[c] \in {"create_grant", "insert_grant"} => Asked(c, "create_grant")
    /\ pc[c] \in {"patch_grant", "merge_grant", "update_grant"} => Asked(c, "patch_grant")
    /\ pc[c] \in {"delete_grant", "remove_grant"} => Asked(c, "delete_grant")
    /\ pc[c] \in {"create_profile", "insert_profile"} => Asked(c, "create_profile")
    /\ pc[c] \in {"patch_profile", "merge_profile", "update_profile"} => Asked(c, "patch_profile")
    /\ pc[c] \in {"delete_profile", "remove_profile"} => Asked(c, "delete_profile")
    /\ pc[c] \in {"create_task", "task_profile", "task_authorize", "insert_task"} =>
           Asked(c, "create_task")
    /\ pc[c] \in {"execute", "workspace"} => req[c].task \in DOMAIN tasks

(* What a handler has read and what it found of it, until it writes. *)
RowsFit(c) ==
    /\ pc[c] = "touch" => req[c].token \in Token /\ tokens[req[c].token] # NoRow
    /\ pc[c] = "update_product" => local[c].product \in ProductRow
    /\ pc[c] = "update_grant" =>
           /\ local[c].grant \in Grant
           /\ ValidPolicy(MergePolicy(req[c].patch, local[c].grant.policy))
    /\ pc[c] = "insert_profile" => ValidAgainstRegistry(ProfileOf(req[c].input))
    /\ pc[c] \in {"merge_profile", "update_profile"} =>
           req[c].patch.provider \in {Unset} \cup DOMAIN Supported
    /\ pc[c] = "update_profile" =>
           /\ local[c].profile \in Profile
           /\ local[c].profile.provider \in DOMAIN Supported
           /\ ValidProfile(MergeProfile(req[c].patch, local[c].profile))
    /\ pc[c] \in {"task_profile", "task_authorize", "insert_task"} =>
           /\ local[c].grant \in Grant /\ local[c].mode \in WorkspaceMode
           /\ RequestsRemote(req[c].input) => HasScopes(c, {"tasks:remote_execution"})
    /\ pc[c] \in {"task_authorize", "insert_task"} =>
           /\ local[c].profile \in Profile
           /\ OverridesAgree(req[c].input, local[c].profile)
           /\ AgentAuthorizes(local[c].profile, req[c].input.product, local[c].mode)
    /\ pc[c] = "insert_task" =>
           LET input == req[c].input IN
           Authorizes(local[c].grant, input.product, input.agent, input.capabilities,
                      local[c].mode, input.opt_in, RequestsRemote(input))

(* A call that came with a revoked token is waiting to be refused, or was. *)
BarredFits(c) ==
    /\ pc[c] = "idle" => ~barred[c]
    /\ pc[c] \in {"idle", "authenticate"} => auth[c] = NoRow
    /\ barred[c] => /\ pc[c] \in {"authenticate", "done"}
                    /\ TokenIsRevoked(req[c].token)
                    /\ auth[c] = NoRow

CallOK(c) == RequestFits(c) /\ RowsFit(c) /\ BarredFits(c)

AdmissionInv ==
    /\ TablesInv
    /\ CallsTyped
    /\ \A c \in Call : CallOK(c)

-----------------------------------------------------------------------------
(* The operators. *)

LEMMA OptionType ==
    ASSUME NEW S, NEW value \in {Unset} \cup S, NEW default \in S
    PROVE  OrElse(value, default) \in S
  BY DEF OrElse

LEMMA ElementsType ==
    ASSUME NEW S, NEW list \in Seq(S)
    PROVE  Elements(list) \in SUBSET S
  BY DEF Elements

(* What a creation fills in makes a policy. *)
LEMMA CreatedPolicy ==
    ASSUME NEW input, PolicyFields(input), input.capabilities \subseteq DirectoryCapability
    PROVE  PolicyFromCreate(input) \in Policy
  <1> DEFINE modes == OrElse(input.workspace_modes, <<"worktree">>)
  <1>1. modes \in Seq(WorkspaceMode)
    <2>1. <<"worktree">> \in Seq(WorkspaceMode)
      BY DEF WorkspaceMode
    <2>2. QED
      BY <2>1, OptionType DEF PolicyFields
  <1>2. Elements(modes) \in SUBSET WorkspaceMode
    BY <1>1, ElementsType
  <1>3. OrElse(input.default_workspace_mode,
               IF "worktree" \in Elements(modes) THEN "worktree" ELSE "direct") \in WorkspaceMode
    <2>1. (IF "worktree" \in Elements(modes) THEN "worktree" ELSE "direct") \in WorkspaceMode
      BY DEF WorkspaceMode
    <2>2. QED
      BY <2>1, OptionType DEF PolicyFields
  <1>4. OrElse(input.lock_policy,
               IF "write" \in input.capabilities THEN "exclusive" ELSE "shared")
            \in DirectoryLockPolicy
    <2>1. (IF "write" \in input.capabilities THEN "exclusive" ELSE "shared")
              \in DirectoryLockPolicy
      BY DEF DirectoryLockPolicy
    <2>2. QED
      BY <2>1, OptionType DEF PolicyFields
  <1>5. OrElse(input.requires_opt_in, TRUE) \in BOOLEAN /\ OrElse(input.allow_remote, FALSE) \in BOOLEAN
    BY OptionType DEF PolicyFields
  <1>6. QED
    BY <1>2, <1>3, <1>4, <1>5 DEF PolicyFromCreate, Policy

(* A patch merged into a policy is a policy. *)
LEMMA MergedPolicy ==
    ASSUME NEW patch, PolicyFields(patch),
           patch.capabilities \in {Unset} \cup SUBSET DirectoryCapability,
           NEW p \in Policy
    PROVE  MergePolicy(patch, p) \in Policy
  <1>1. /\ p.capabilities \in SUBSET DirectoryCapability /\ p.workspace_modes \in SUBSET WorkspaceMode
        /\ p.default_workspace_mode \in WorkspaceMode /\ p.lock_policy \in DirectoryLockPolicy
        /\ p.requires_opt_in \in BOOLEAN /\ p.allow_remote \in BOOLEAN
    BY DEF Policy
  <1>2. /\ OrElse(patch.capabilities, p.capabilities) \in SUBSET DirectoryCapability
        /\ OrElse(patch.default_workspace_mode, p.default_workspace_mode) \in WorkspaceMode
        /\ OrElse(patch.lock_policy, p.lock_policy) \in DirectoryLockPolicy
        /\ OrElse(patch.requires_opt_in, p.requires_opt_in) \in BOOLEAN
        /\ OrElse(patch.allow_remote, p.allow_remote) \in BOOLEAN
    BY <1>1 DEF PolicyFields, OrElse
  <1>3. (IF patch.workspace_modes = Unset THEN p.workspace_modes
         ELSE Elements(patch.workspace_modes)) \in SUBSET WorkspaceMode
    BY <1>1, ElementsType DEF PolicyFields
  <1>4. QED
    BY <1>2, <1>3 DEF MergePolicy, Policy

(* A patch merged into a profile is a profile of the same owner; its provider
   is known if both were. *)
LEMMA MergedProfile ==
    ASSUME NEW patch, NEW p \in Profile,
           patch.provider \in {Unset} \cup Provider,
           patch.model \in {Unset} \cup Model,
           patch.execution_policy \in {Unset} \cup ExecutionPolicy,
           patch.permission_mode \in {Unset} \cup PermissionMode
    PROVE  /\ MergeProfile(patch, p) \in Profile
           /\ /\ patch.provider \in {Unset} \cup DOMAIN Supported
              /\ p.provider \in DOMAIN Supported
              => MergeProfile(patch, p).provider \in DOMAIN Supported
  <1>1. /\ p.owner \in Product /\ p.provider \in Provider /\ p.model \in Model
        /\ p.execution_policy \in ExecutionPolicy /\ p.permission_mode \in PermissionMode
    BY DEF Profile
  <1>2. /\ OrElse(patch.provider, p.provider) \in Provider
        /\ OrElse(patch.model, p.model) \in Model
        /\ OrElse(patch.execution_policy, p.execution_policy) \in ExecutionPolicy
        /\ OrElse(patch.permission_mode, p.permission_mode) \in PermissionMode
    BY <1>1 DEF OrElse
  <1>3. MergeProfile(patch, p) \in Profile
    BY <1>1, <1>2 DEF MergeProfile, Profile
  <1>4. MergeProfile(patch, p).provider = OrElse(patch.provider, p.provider)
    BY DEF MergeProfile
  <1>5. QED
    BY <1>3, <1>4 DEF OrElse

(* The id SQLite gives to a new grant is not in use. *)
LEMMA NextGrantIdIsFree ==
    ASSUME NextGrantId \in GrantId
    PROVE  grants[NextGrantId] = NoRow
  <1> DEFINE used == {i \in GrantId : grants[i] # NoRow}
             largest == CHOOSE i \in used : \A j \in used : j <= i
  <1>1. CASE used = {}
    BY <1>1
  <1>2. CASE used # {}
    <2> DEFINE below == {n \in Nat : n <= MaxGrant /\ MaxGrant - n \in used}
    <2>1. used \subseteq 1..MaxGrant /\ MaxGrant \in Nat
      BY AdmissionAssumption DEF GrantId
    <2>2. below # {}
      <3>1. PICK i \in used : TRUE
        BY <1>2
      <3>2. MaxGrant - i \in Nat /\ MaxGrant - (MaxGrant - i) = i
        BY <2>1, <3>1
      <3>3. MaxGrant - i \in below
        BY <2>1, <3>1, <3>2
      <3>4. QED
        BY <3>3
    <2>3. PICK n \in below : \A m \in below : <<m, n>> \notin OpToRel(<, Nat)
      BY <2>2, WFMin, NatLessThanWellFounded
    <2>4. \A m \in below : ~(m < n)
      BY <2>3 DEF OpToRel
    <2>5. ASSUME NEW j \in used PROVE j <= MaxGrant - n
      <3>1. j \in 1..MaxGrant /\ MaxGrant - j \in Nat /\ MaxGrant - (MaxGrant - j) = j
        BY <2>1
      <3>2. MaxGrant - j \in below
        BY <2>1, <2>5, <3>1
      <3>3. n \in Nat /\ ~(MaxGrant - j < n)
        BY <2>4, <3>2
      <3>4. QED
        BY <2>1, <3>1, <3>3
    <2>6. largest \in used /\ \A j \in used : j <= largest
      <3>1. MaxGrant - n \in used
        OBVIOUS
      <3>2. \E i \in used : \A j \in used : j <= i
        BY <2>5, <3>1
      <3> HIDE DEF used
      <3>3. QED
        BY <3>2
    <2>7. NextGrantId = 1 + largest
      BY <1>2 DEF NextGrantId
    <2>8. NextGrantId \notin used
      <3>1. largest \in Nat
        BY <2>1, <2>6
      <3> HIDE DEF largest, used
      <3>2. ~(1 + largest <= largest)
        BY <3>1
      <3>3. QED
        BY <2>6, <2>7, <3>2
    <2>9. QED
      BY <2>8
  <1>3. QED
    BY <1>1, <1>2

-----------------------------------------------------------------------------
(* One step moves one call and takes nothing from the others. *)

(* No token row is ever deleted or restored, and no task deleted. *)
TablesGrow ==
    /\ \A t \in Token : tokens[t] # NoRow =>
           tokens'[t] # NoRow /\ (tokens[t].revoked => tokens'[t].revoked)
    /\ DOMAIN tasks \subseteq DOMAIN tasks'

OnlyCall(c) ==
    \A d \in Call \ {c} :
        /\ pc'[d] = pc[d] /\ req'[d] = req[d] /\ auth'[d] = auth[d]
        /\ local'[d] = local[d] /\ barred'[d] = barred[d]

(* What a call knows stays true while others move. *)
LEMMA OthersKeep ==
    ASSUME AdmissionInv, NEW c \in Call, OnlyCall(c), TablesGrow, NEW d \in Call, d # c
    PROVE  CallOK(d)'
  <1>1. /\ pc'[d] = pc[d] /\ req'[d] = req[d] /\ auth'[d] = auth[d]
        /\ local'[d] = local[d] /\ barred'[d] = barred[d]
    BY DEF OnlyCall
  <1>2. RequestFits(d) /\ RowsFit(d) /\ BarredFits(d)
    BY DEF AdmissionInv, CallOK
  <1>3. RequestFits(d)'
    BY <1>1, <1>2 DEF RequestFits, Asked, TablesGrow
  <1>4. RowsFit(d)'
    <2>1. pc[d] = "touch" => req[d].token \in Token /\ tokens'[req[d].token] # NoRow
      BY <1>2 DEF RowsFit, TablesGrow
    <2>2. QED
      BY <1>1, <1>2, <2>1 DEF RowsFit, HasScopes
  <1>5. BarredFits(d)'
    BY <1>1, <1>2 DEF BarredFits, TokenIsRevoked, TablesGrow
  <1>6. QED
    BY <1>3, <1>4, <1>5 DEF CallOK

LEMMA OneCallSuffices ==
    ASSUME AdmissionInv, NEW c \in Call, OnlyCall(c), TablesGrow, TablesInv', CallsTyped',
           CallOK(c)'
    PROVE  AdmissionInv'
  <1>1. \A d \in Call : CallOK(d)'
    BY OthersKeep
  <1>2. QED
    BY <1>1 DEF AdmissionInv

(* A handler's statement: the request, the caller and the bar stay. *)
HandlerStep(c) ==
    /\ pc[c] \notin {"idle", "authenticate", "done"}
    /\ pc'[c] \notin {"idle", "authenticate"}
    /\ pc' \in [Call -> Label] /\ local' \in [Call -> Locals]
    /\ \A d \in Call \ {c} : pc'[d] = pc[d] /\ local'[d] = local[d]
    /\ UNCHANGED <<req, auth, barred>>

LEMMA HandlerSuffices ==
    ASSUME AdmissionInv, NEW c \in Call, HandlerStep(c), TablesGrow, TablesInv',
           RequestFits(c)', RowsFit(c)'
    PROVE  AdmissionInv'
  <1>1. CallsTyped'
    BY DEF AdmissionInv, CallsTyped, HandlerStep
  <1>2. OnlyCall(c)
    BY DEF OnlyCall, HandlerStep
  <1>3. BarredFits(c)'
    BY DEF AdmissionInv, CallOK, BarredFits, HandlerStep
  <1>4. QED
    BY <1>1, <1>2, <1>3, OneCallSuffices DEF CallOK

(* A handler that returns needs nothing any more. *)
LEMMA ReturnSuffices ==
    ASSUME AdmissionInv, NEW c \in Call, pc[c] \notin {"idle", "authenticate", "done"},
           Return(c), UNCHANGED <<req, auth, local, barred>>, TablesGrow, TablesInv'
    PROVE  AdmissionInv'
  <1>1. /\ pc'[c] = "done" /\ pc' \in [Call -> Label]
        /\ \A d \in Call \ {c} : pc'[d] = pc[d]
    BY DEF AdmissionInv, CallsTyped, Return, Goto, Label
  <1>2. HandlerStep(c)
    BY <1>1 DEF HandlerStep, AdmissionInv, CallsTyped
  <1>3. RequestFits(c)' /\ RowsFit(c)'
    BY <1>1 DEF RequestFits, RowsFit
  <1>4. QED
    BY <1>2, <1>3, HandlerSuffices

LEMMA SameTables ==
    ASSUME TablesInv, UNCHANGED <<products, tokens, grants, profiles, tasks>>
    PROVE  TablesInv' /\ TablesGrow
  <1>1. StoredRowsAreValid' /\ ProvidersAreKnown'
    BY DEF TablesInv, StoredRowsAreValid, ProvidersAreKnown
  <1>2. AdmittedWasAuthorized' /\ RemoteIsGated'
    BY DEF TablesInv, AdmittedWasAuthorized, RemoteIsGated
  <1>3. QED
    BY <1>1, <1>2 DEF TablesInv, TablesGrow

(* A handler that refuses, or returns without a write. *)
LEMMA RefuseKeeps ==
    ASSUME AdmissionInv, NEW c \in Call, pc[c] \notin {"idle", "authenticate", "done"},
           Return(c), UNCHANGED <<products, tokens, req, auth, local, barred, tableVars>>
    PROVE  AdmissionInv'
  <1>1. TablesInv /\ UNCHANGED <<products, tokens, grants, profiles, tasks>>
    BY DEF AdmissionInv, tableVars
  <1>2. QED
    BY <1>1, SameTables, ReturnSuffices

(* A handler that has read something, and goes on at label. *)
LEMMA ReadSuffices ==
    ASSUME AdmissionInv, NEW c \in Call, pc[c] \notin {"idle", "authenticate", "done"},
           NEW label \in Label, label \notin {"idle", "authenticate"}, Goto(c, label),
           local' \in [Call -> Locals], \A d \in Call \ {c} : local'[d] = local[d],
           UNCHANGED <<products, tokens, req, auth, barred, tableVars>>,
           pc'[c] = label => RequestFits(c)' /\ RowsFit(c)'
    PROVE  AdmissionInv'
  <1>1. TablesInv /\ UNCHANGED <<products, tokens, grants, profiles, tasks>>
    BY DEF AdmissionInv, tableVars
  <1>2. /\ pc'[c] = label /\ pc' \in [Call -> Label]
        /\ \A d \in Call \ {c} : pc'[d] = pc[d]
    BY DEF AdmissionInv, CallsTyped, Goto
  <1>3. HandlerStep(c)
    BY <1>2 DEF HandlerStep
  <1>4. QED
    BY <1>1, <1>2, <1>3, SameTables, HandlerSuffices

(* What the requests are, by operation. *)
LEMMA AskedBody ==
    ASSUME NEW c \in Call, req[c] \in Request
    PROVE  ProductBody(req[c]) /\ GrantBody(req[c]) /\ ProfileBody(req[c]) /\ TaskBody(req[c])
  BY RequestAssumption

(* Remembering a row changes that field of the call's locals. *)
LEMMA RememberRow ==
    ASSUME AdmissionInv, NEW c \in Call, NEW row
    PROVE  /\ Remember(c, "product", row) /\ row \in Row(ProductRow) =>
                  local' \in [Call -> Locals] /\ local'[c].product = row
           /\ Remember(c, "token", row) /\ row \in Row(TokenRow) =>
                  local' \in [Call -> Locals]
           /\ Remember(c, "grant", row) /\ row \in Row(Grant) =>
                  /\ local' \in [Call -> Locals] /\ local'[c].grant = row
                  /\ local'[c].profile = local[c].profile /\ local'[c].mode = local[c].mode
           /\ Remember(c, "profile", row) /\ row \in Row(Profile) =>
                  /\ local' \in [Call -> Locals] /\ local'[c].profile = row
                  /\ local'[c].grant = local[c].grant /\ local'[c].mode = local[c].mode
           /\ \A field : Remember(c, field, row) => \A d \in Call \ {c} : local'[d] = local[d]
  <1>1. local \in [Call -> Locals] /\ local[c] \in Locals
    BY DEF AdmissionInv, CallsTyped
  <1>2. ASSUME Remember(c, "product", row), row \in Row(ProductRow)
        PROVE  local' \in [Call -> Locals] /\ local'[c].product = row
    BY <1>1, <1>2 DEF Remember, Locals
  <1>3. ASSUME Remember(c, "token", row), row \in Row(TokenRow)
        PROVE  local' \in [Call -> Locals]
    BY <1>1, <1>3 DEF Remember, Locals
  <1>4. ASSUME Remember(c, "grant", row), row \in Row(Grant)
        PROVE  /\ local' \in [Call -> Locals] /\ local'[c].grant = row
               /\ local'[c].profile = local[c].profile /\ local'[c].mode = local[c].mode
    BY <1>1, <1>4 DEF Remember, Locals
  <1>5. ASSUME Remember(c, "profile", row), row \in Row(Profile)
        PROVE  /\ local' \in [Call -> Locals] /\ local'[c].profile = row
               /\ local'[c].grant = local[c].grant /\ local'[c].mode = local[c].mode
    BY <1>1, <1>5 DEF Remember, Locals
  <1>6. ASSUME NEW field, Remember(c, field, row)
        PROVE  \A d \in Call \ {c} : local'[d] = local[d]
    BY <1>1, <1>6 DEF Remember
  <1>7. QED
    BY <1>2, <1>3, <1>4, <1>5, <1>6

-----------------------------------------------------------------------------
(* Products and authentication. *)

(* A call arrives; whether its token is revoked is noted. *)
LEMMA ArriveKeeps ==
    ASSUME AdmissionInv, NEW c \in Call, NEW r \in Request, Arrive(c, r), UNCHANGED tableVars
    PROVE  AdmissionInv'
  <1>1. TablesInv' /\ TablesGrow
    BY SameTables DEF AdmissionInv, Arrive, tableVars
  <1>2. /\ pc \in [Call -> Label] /\ req \in [Call -> Row(Request \cup Execution)]
        /\ barred \in [Call -> BOOLEAN] /\ UNCHANGED <<auth, local, tokens>>
    BY DEF AdmissionInv, CallsTyped, Arrive
  <1>3. /\ pc' = [pc EXCEPT ![c] = "authenticate"] /\ req' = [req EXCEPT ![c] = r]
        /\ barred' = [barred EXCEPT ![c] = TokenIsRevoked(r.token)]
    BY DEF Arrive, Goto
  <1>4. TokenIsRevoked(r.token) \in BOOLEAN
    BY DEF TokenIsRevoked
  <1>5. CallsTyped'
    BY <1>2, <1>3, <1>4 DEF AdmissionInv, CallsTyped, Row, Label
  <1>6. OnlyCall(c)
    BY <1>2, <1>3 DEF OnlyCall
  <1>7. pc'[c] = "authenticate" /\ req'[c] = r /\ barred'[c] = TokenIsRevoked(r.token)
    BY <1>2, <1>3
  <1>8. RequestFits(c)' /\ RowsFit(c)'
    BY <1>7 DEF RequestFits, RowsFit
  <1>9. BarredFits(c)'
    <2>1. pc[c] = "idle" /\ auth[c] = NoRow
      BY DEF AdmissionInv, CallOK, BarredFits, Arrive
    <2>2. QED
      BY <1>2, <1>7, <2>1 DEF BarredFits, TokenIsRevoked
  <1>10. QED
    BY <1>1, <1>5, <1>6, <1>8, <1>9, OneCallSuffices DEF CallOK

(* A call whose token was revoked before it arrived is refused here: its row is
   still revoked. *)
LEMMA AuthenticateKeeps ==
    ASSUME AdmissionInv, NEW c \in Call, Authenticate(c), UNCHANGED tableVars
    PROVE  AdmissionInv'
  <1> DEFINE t == req[c].token
             row == FindToken(t)
  <1>1. TablesInv' /\ TablesGrow
    BY SameTables DEF AdmissionInv, Authenticate, tableVars
  <1>2. /\ pc[c] = "authenticate" /\ req[c] \in Request /\ BarredFits(c)
        /\ pc \in [Call -> Label] /\ auth \in [Call -> Row(AuthContext)]
        /\ local \in [Call -> Locals] /\ tokens \in [Token -> Row(TokenRow)]
        /\ UNCHANGED <<req, barred, tokens>>
    BY DEF AdmissionInv, CallsTyped, CallOK, RequestFits, Authenticate, TablesInv
  <1>3. CASE /\ t = Bootstrap
             /\ auth' = [auth EXCEPT ![c] = Bootstrap]
             /\ IF req[c].op \in BootstrapOperation THEN Goto(c, req[c].op) ELSE Return(c)
             /\ UNCHANGED local
    <2>1. ~barred[c]
      BY <1>2, <1>3, AccessAssumption DEF BarredFits, TokenIsRevoked
    <2>2. PICK l \in BootstrapOperation \cup {"done"} :
             pc' = [pc EXCEPT ![c] = l] /\ (l # "done" => l = req[c].op)
      BY <1>3 DEF Goto, Return
    <2>3. pc' \in [Call -> Label] /\ pc'[c] = l
      BY <1>2, <2>2 DEF BootstrapOperation, Label
    <2>4. CallsTyped' /\ OnlyCall(c)
      BY <1>2, <1>3, <2>2, <2>3 DEF AdmissionInv, CallsTyped, OnlyCall, Row, AuthContext
    <2>5. RequestFits(c)' /\ RowsFit(c)'
      BY <1>2, <2>2, <2>3 DEF RequestFits, RowsFit, Asked, BootstrapOperation
    <2>6. BarredFits(c)'
      BY <1>2, <2>1, <2>3 DEF BarredFits, BootstrapOperation
    <2>7. QED
      BY <1>1, <2>4, <2>5, <2>6, OneCallSuffices DEF CallOK
  <1>4. CASE /\ MayEnter(row)
             /\ auth' = [auth EXCEPT ![c] = [product |-> row.product, scopes |-> row.scopes]]
             /\ Remember(c, "token", row)
             /\ Goto(c, "touch")
    <2>1. t \in Token /\ tokens[t] # NoRow /\ ~tokens[t].revoked /\ row = tokens[t]
      BY <1>4 DEF MayEnter, FindToken
    <2>2. row \in TokenRow
      BY <1>2, <2>1 DEF Row
    <2>3. [product |-> row.product, scopes |-> row.scopes] \in Row(AuthContext)
      BY <2>2 DEF TokenRow, AuthContext, Row
    <2>4. local' \in [Call -> Locals] /\ \A d \in Call \ {c} : local'[d] = local[d]
      BY <1>4, <2>2, RememberRow DEF Row
    <2>5. pc' \in [Call -> Label] /\ pc'[c] = "touch" /\ \A d \in Call \ {c} : pc'[d] = pc[d]
      BY <1>2, <1>4 DEF Goto, Label
    <2>6. auth' \in [Call -> Row(AuthContext)] /\ \A d \in Call \ {c} : auth'[d] = auth[d]
      BY <1>2, <1>4, <2>3
    <2>7. CallsTyped' /\ OnlyCall(c)
      BY <1>2, <2>4, <2>5, <2>6 DEF AdmissionInv, CallsTyped, OnlyCall
    <2>8. RequestFits(c)' /\ RowsFit(c)'
      BY <1>2, <2>1, <2>5 DEF RequestFits, RowsFit
    <2>9. BarredFits(c)'
      BY <1>2, <2>1, <2>5 DEF BarredFits, TokenIsRevoked
    <2>10. QED
      BY <1>1, <2>7, <2>8, <2>9, OneCallSuffices DEF CallOK
  <1>5. CASE Return(c) /\ UNCHANGED <<auth, local>>
    <2>1. pc' \in [Call -> Label] /\ pc'[c] = "done" /\ \A d \in Call \ {c} : pc'[d] = pc[d]
      BY <1>2, <1>5 DEF Return, Goto, Label
    <2>2. CallsTyped' /\ OnlyCall(c)
      BY <1>2, <1>5, <2>1 DEF AdmissionInv, CallsTyped, OnlyCall
    <2>3. RequestFits(c)' /\ RowsFit(c)'
      BY <2>1 DEF RequestFits, RowsFit
    <2>4. BarredFits(c)'
      BY <1>2, <1>5, <2>1 DEF BarredFits, TokenIsRevoked
    <2>5. QED
      BY <1>1, <2>2, <2>3, <2>4, OneCallSuffices DEF CallOK
  <1>6. QED
    BY <1>3, <1>4, <1>5 DEF Authenticate

LEMMA AccessTables ==
    ASSUME TablesInv, UNCHANGED tableVars,
           products' \in [Product -> Row(ProductRow)], tokens' \in [Token -> Row(TokenRow)]
    PROVE  TablesInv'
  <1>1. UNCHANGED <<grants, profiles, tasks>>
    BY DEF tableVars
  <1>2. StoredRowsAreValid' /\ ProvidersAreKnown'
    BY <1>1 DEF TablesInv, StoredRowsAreValid, ProvidersAreKnown
  <1>3. AdmittedWasAuthorized' /\ RemoteIsGated'
    BY <1>1 DEF TablesInv, AdmittedWasAuthorized, RemoteIsGated
  <1>4. QED
    BY <1>1, <1>2, <1>3 DEF TablesInv

(* An UPDATE of used or revoked leaves a row, and never lifts a revocation. *)
LEMMA MarkToken ==
    ASSUME AdmissionInv, NEW t \in Token, tokens[t] # NoRow, UNCHANGED tableVars,
           \/ tokens' = [tokens EXCEPT ![t].used = TRUE]
           \/ tokens' = [tokens EXCEPT ![t].revoked = TRUE]
    PROVE  tokens' \in [Token -> Row(TokenRow)] /\ TablesGrow
  <1>1. tokens \in [Token -> Row(TokenRow)] /\ tokens[t] \in TokenRow
    BY DEF AdmissionInv, TablesInv, Row
  <1>2. PICK row \in TokenRow :
           /\ tokens' = [tokens EXCEPT ![t] = row]
           /\ tokens[t].revoked => row.revoked
    <2>1. CASE tokens' = [tokens EXCEPT ![t].used = TRUE]
      <3>1. [tokens[t] EXCEPT !.used = TRUE] \in TokenRow
        BY <1>1 DEF TokenRow
      <3>2. [tokens[t] EXCEPT !.used = TRUE].revoked = tokens[t].revoked
        BY <1>1 DEF TokenRow
      <3>3. QED
        BY <2>1, <3>1, <3>2
    <2>2. CASE tokens' = [tokens EXCEPT ![t].revoked = TRUE]
      <3>1. [tokens[t] EXCEPT !.revoked = TRUE] \in TokenRow
        BY <1>1 DEF TokenRow
      <3>2. [tokens[t] EXCEPT !.revoked = TRUE].revoked
        BY <1>1 DEF TokenRow
      <3>3. QED
        BY <2>2, <3>1, <3>2
    <2>3. QED
      BY <2>1, <2>2
  <1>3. QED
    BY <1>1, <1>2, AccessAssumption DEF TablesGrow, tableVars, Row

LEMMA TouchKeeps ==
    ASSUME AdmissionInv, NEW c \in Call, Touch(c), UNCHANGED tableVars
    PROVE  AdmissionInv'
  <1>1. /\ pc[c] = "touch" /\ req[c] \in Request
        /\ req[c].token \in Token /\ tokens[req[c].token] # NoRow
        /\ pc \in [Call -> Label] /\ local \in [Call -> Locals] /\ TablesInv
        /\ UNCHANGED <<products, req, auth, local, barred>>
    BY DEF AdmissionInv, CallsTyped, CallOK, RequestFits, RowsFit, Touch
  <1>2. tokens' \in [Token -> Row(TokenRow)] /\ TablesGrow
    BY <1>1, MarkToken DEF Touch
  <1>3. TablesInv'
    BY <1>1, <1>2, AccessTables DEF TablesInv
  <1>4. CASE Return(c)
    BY <1>1, <1>2, <1>3, <1>4, ReturnSuffices
  <1>5. CASE Goto(c, req[c].op) /\ req[c].op \notin BootstrapOperation
    <2>1. req[c].op \in ProductOperation
      BY <1>1, <1>5, RequestAssumption
    <2>2. /\ pc'[c] = req[c].op /\ pc' \in [Call -> Label]
          /\ \A d \in Call \ {c} : pc'[d] = pc[d]
      BY <1>1, <1>5, <2>1 DEF Goto, ProductOperation, Label
    <2>3. HandlerStep(c)
      BY <1>1, <2>1, <2>2 DEF HandlerStep, ProductOperation
    <2>4. RequestFits(c)' /\ RowsFit(c)'
      BY <1>1, <2>1, <2>2 DEF RequestFits, RowsFit, Asked, ProductOperation
    <2>5. QED
      BY <1>2, <1>3, <2>3, <2>4, HandlerSuffices
  <1>6. QED
    BY <1>4, <1>5 DEF Touch

(* The bootstrap routes: rows stay rows, no token row goes. *)
LEMMA BootstrapKeeps ==
    ASSUME AdmissionInv, NEW c \in Call, UNCHANGED tableVars,
           \/ CreateProduct(c) \/ PatchProduct(c) \/ UpdateProduct(c)
           \/ CreateToken(c) \/ RevokeToken(c)
    PROVE  AdmissionInv'
  <1>1. /\ TablesInv /\ CallsTyped /\ RequestFits(c) /\ RowsFit(c)
        /\ products \in [Product -> Row(ProductRow)] /\ tokens \in [Token -> Row(TokenRow)]
    BY DEF AdmissionInv, CallOK, TablesInv
  <1>2. UNCHANGED tokens => TablesGrow
    BY DEF TablesGrow, tableVars
  <1>3. CASE CreateProduct(c)
    <2>1. /\ Asked(c, "create_product") /\ pc[c] = "create_product" /\ Return(c)
          /\ UNCHANGED <<tokens, req, auth, local, barred>>
      BY <1>1, <1>3 DEF CreateProduct, RequestFits
    <2>2. req[c].product \in Product /\ req[c].name \in STRING
      BY <2>1, AskedBody DEF Asked, ProductBody, BootstrapOperation
    <2>3. [name |-> req[c].name, status |-> "active"] \in Row(ProductRow)
      BY <2>2 DEF ProductRow, ProductStatus, Row
    <2>4. products' \in [Product -> Row(ProductRow)]
      BY <1>1, <1>3, <2>3 DEF CreateProduct
    <2>5. QED
      BY <1>1, <1>2, <2>1, <2>4, AccessTables, ReturnSuffices
  <1>4. CASE PatchProduct(c)
    <2>1. /\ Asked(c, "patch_product") /\ pc[c] = "patch_product"
          /\ UNCHANGED <<products, tokens, req, auth, barred>>
      BY <1>1, <1>4 DEF PatchProduct, RequestFits
    <2>2. req[c].product \in Product
      BY <2>1, AskedBody DEF Asked, ProductBody, BootstrapOperation
    <2>3. CASE Return(c) /\ UNCHANGED local
      BY <2>1, <2>3, RefuseKeeps
    <2>4. CASE /\ products[req[c].product] # NoRow
               /\ Remember(c, "product", products[req[c].product])
               /\ Goto(c, "update_product")
      <3>1. products[req[c].product] \in ProductRow
        BY <1>1, <2>2, <2>4 DEF Row
      <3>2. /\ local' \in [Call -> Locals] /\ local'[c].product \in ProductRow
            /\ \A d \in Call \ {c} : local'[d] = local[d]
        BY <2>4, <3>1, RememberRow DEF Row
      <3>3. pc'[c] = "update_product" => RequestFits(c)' /\ RowsFit(c)'
        BY <2>1, <3>2 DEF RequestFits, RowsFit, Asked
      <3>4. "update_product" \in Label
        BY DEF Label
      <3>5. QED
        BY <2>1, <2>4, <3>2, <3>3, <3>4, ReadSuffices
    <2>5. QED
      BY <1>4, <2>3, <2>4 DEF PatchProduct
  <1>5. CASE UpdateProduct(c)
    <2>1. /\ Asked(c, "patch_product") /\ pc[c] = "update_product" /\ Return(c)
          /\ local[c].product \in ProductRow
          /\ UNCHANGED <<tokens, req, auth, local, barred>>
      BY <1>1, <1>5 DEF UpdateProduct, RequestFits, RowsFit
    <2>2. /\ req[c].product \in Product
          /\ req[c].patch.name \in {Unset} \cup STRING
          /\ req[c].patch.status \in {Unset} \cup ProductStatus
      BY <2>1, AskedBody DEF Asked, ProductBody, BootstrapOperation
    <2>3. /\ OrElse(req[c].patch.name, local[c].product.name) \in STRING
          /\ OrElse(req[c].patch.status, local[c].product.status) \in ProductStatus
      BY <2>1, <2>2 DEF OrElse, ProductRow
    <2>4. products' \in [Product -> Row(ProductRow)]
      BY <1>1, <1>5, <2>2, <2>3 DEF UpdateProduct, Row, ProductRow
    <2>5. QED
      BY <1>1, <1>2, <2>1, <2>4, AccessTables, ReturnSuffices
  <1>6. CASE CreateToken(c)
    <2>1. /\ Asked(c, "create_token") /\ pc[c] = "create_token" /\ Return(c)
          /\ UNCHANGED <<products, req, auth, local, barred>>
      BY <1>1, <1>6 DEF CreateToken, RequestFits
    <2>2. req[c].product \in Product /\ req[c].scopes \subseteq Scope
      BY <2>1, AskedBody DEF Asked, ProductBody, BootstrapOperation
    <2>3. CASE UNCHANGED tokens
      BY <1>1, <1>2, <2>1, <2>3, AccessTables, ReturnSuffices
    <2>4. ASSUME NEW t \in Token, tokens[t] = NoRow,
                 tokens' = [tokens EXCEPT ![t] =
                                 [product |-> req[c].product, scopes |-> req[c].scopes,
                                  used |-> FALSE, revoked |-> FALSE]]
          PROVE  AdmissionInv'
      <3>1. tokens' \in [Token -> Row(TokenRow)]
        BY <1>1, <2>2, <2>4 DEF TokenRow, Row
      <3>2. TablesGrow
        BY <1>1, <2>4 DEF TablesGrow, tableVars
      <3>3. QED
        BY <1>1, <2>1, <3>1, <3>2, AccessTables, ReturnSuffices
    <2>5. QED
      BY <1>6, <2>3, <2>4 DEF CreateToken
  <1>7. CASE RevokeToken(c)
    <2>1. /\ Asked(c, "revoke_token") /\ pc[c] = "revoke_token" /\ Return(c)
          /\ UNCHANGED <<products, req, auth, local, barred>>
      BY <1>1, <1>7 DEF RevokeToken, RequestFits
    <2>2. req[c].revoke \in Token
      BY <2>1, AskedBody DEF Asked, ProductBody
    <2>3. tokens' \in [Token -> Row(TokenRow)] /\ TablesGrow
      BY <1>1, <1>2, <1>7, <2>2, MarkToken DEF RevokeToken
    <2>4. QED
      BY <1>1, <2>1, <2>3, AccessTables, ReturnSuffices
  <1>8. QED
    BY <1>3, <1>4, <1>5, <1>6, <1>7

-----------------------------------------------------------------------------
(* Directory grants. *)

(* One row is written, and it is a valid one. *)
LEMMA GrantWritten ==
    ASSUME TablesInv, NEW i \in GrantId, NEW row \in Row(Grant),
           grants' = [grants EXCEPT ![i] = row], row # NoRow => ValidPolicy(row.policy),
           UNCHANGED <<products, tokens, profiles, tasks>>
    PROVE  TablesInv' /\ TablesGrow
  <1>1. grants \in [GrantId -> Row(Grant)] /\ grants' \in [GrantId -> Row(Grant)]
    BY DEF TablesInv
  <1>2. StoredRowsAreValid'
    BY <1>1 DEF TablesInv, StoredRowsAreValid
  <1>3. ProvidersAreKnown'
    BY DEF TablesInv, ProvidersAreKnown
  <1>4. AdmittedWasAuthorized' /\ RemoteIsGated'
    BY DEF TablesInv, AdmittedWasAuthorized, RemoteIsGated
  <1>5. QED
    BY <1>1, <1>2, <1>3, <1>4 DEF TablesInv, TablesGrow

(* The condition holds and the handler goes on, or it refuses. *)
LEMMA CheckKeeps ==
    ASSUME AdmissionInv, NEW c \in Call, NEW ok,
           NEW from \in Label \ {"idle", "authenticate", "done"}, At(c, from),
           NEW label \in Label, label \notin {"idle", "authenticate"}, Check(c, ok, label),
           ok /\ pc'[c] = label /\ UNCHANGED <<req, local, tableVars>> =>
               RequestFits(c)' /\ RowsFit(c)'
    PROVE  AdmissionInv'
  <1>1. pc[c] = from /\ UNCHANGED <<products, tokens, req, auth, barred>>
    BY DEF At
  <1>2. local \in [Call -> Locals]
    BY DEF AdmissionInv, CallsTyped
  <1>3. CASE ok
    <2>1. Goto(c, label) /\ UNCHANGED <<local, tableVars>>
      BY <1>3 DEF Check
    <2>2. QED
      BY <1>1, <1>2, <1>3, <2>1, ReadSuffices
  <1>4. CASE ~ok
    <2>1. Return(c) /\ UNCHANGED <<local, tableVars>>
      BY <1>4 DEF Check, Refuse
    <2>2. QED
      BY <1>1, <2>1, RefuseKeeps
  <1>5. QED
    BY <1>3, <1>4

(* directories::create, patch and delete up to the store. *)
LEMMA GrantChecksKeep ==
    ASSUME AdmissionInv, NEW c \in Call, CreateGrant(c) \/ PatchGrant(c) \/ DeleteGrant(c)
    PROVE  AdmissionInv'
  <1>1. RequestFits(c)
    BY DEF AdmissionInv, CallOK
  <1>2. {"create_grant", "insert_grant", "patch_grant", "merge_grant",
         "delete_grant", "remove_grant"} \subseteq Label
    BY DEF Label
  <1>3. CASE CreateGrant(c)
    <2>1. PICK ok : At(c, "create_grant") /\ Check(c, ok, "insert_grant")
      BY <1>3 DEF CreateGrant
    <2>2. pc'[c] = "insert_grant" /\ UNCHANGED req => RequestFits(c)' /\ RowsFit(c)'
      BY <1>1, <2>1 DEF At, RequestFits, RowsFit, Asked
    <2>3. QED
      BY <1>2, <2>1, <2>2, CheckKeeps
  <1>4. CASE PatchGrant(c)
    <2>1. PICK ok : At(c, "patch_grant") /\ Check(c, ok, "merge_grant")
      BY <1>4 DEF PatchGrant
    <2>2. pc'[c] = "merge_grant" /\ UNCHANGED req => RequestFits(c)' /\ RowsFit(c)'
      BY <1>1, <2>1 DEF At, RequestFits, RowsFit, Asked
    <2>3. QED
      BY <1>2, <2>1, <2>2, CheckKeeps
  <1>5. CASE DeleteGrant(c)
    <2>1. PICK ok : At(c, "delete_grant") /\ Check(c, ok, "remove_grant")
      BY <1>5 DEF DeleteGrant
    <2>2. pc'[c] = "remove_grant" /\ UNCHANGED req => RequestFits(c)' /\ RowsFit(c)'
      BY <1>1, <2>1 DEF At, RequestFits, RowsFit, Asked
    <2>3. QED
      BY <1>2, <2>1, <2>2, CheckKeeps
  <1>6. QED
    BY <1>3, <1>4, <1>5

(* What each write of directory_grants writes: a new row at a free id, the policy
   of a row that is there, or no row. *)
LEMMA GrantWrites ==
    ASSUME AdmissionInv, NEW c \in Call, InsertGrant(c) \/ UpdateGrant(c) \/ RemoveGrant(c)
    PROVE  \/ Refuse(c) /\ UNCHANGED grants
           \/ /\ Return(c) /\ UNCHANGED <<local, profiles, tasks, runs>>
              /\ \/ UNCHANGED grants
                 \/ \E i \in GrantId, row \in Row(Grant) :
                       /\ grants' = [grants EXCEPT ![i] = row]
                       /\ row # NoRow => ValidPolicy(row.policy)
                       /\ row = NoRow => RemoveGrant(c)
                       /\ grants[i] # NoRow /\ row # NoRow =>
                              /\ row.product = grants[i].product
                              /\ row.agent = grants[i].agent
                              /\ row.path = grants[i].path
  <1>1. /\ grants \in [GrantId -> Row(Grant)] /\ RequestFits(c) /\ RowsFit(c)
    BY DEF AdmissionInv, CallOK, TablesInv
  <1>2. CASE InsertGrant(c)
    <2> DEFINE input == req[c].input
               new == [product |-> input.product, agent |-> input.agent,
                       path |-> input.path, policy |-> PolicyFromCreate(input)]
    <2>1. Asked(c, "create_grant")
      BY <1>1, <1>2 DEF InsertGrant, At, RequestFits
    <2>2. /\ input.product \in Product /\ input.agent \in Agent
          /\ input.capabilities \subseteq DirectoryCapability /\ PolicyFields(input)
      BY <2>1, AskedBody DEF Asked, GrantBody
    <2>3. CASE input.path \in Directory /\ CreateAccepted(input, input.path \in GitDirectory)
      <3>1. PolicyFromCreate(input) \in Policy /\ ValidPolicy(PolicyFromCreate(input))
        BY <2>2, <2>3, CreatedPolicy DEF CreateAccepted
      <3>2. new \in Grant /\ new.policy = PolicyFromCreate(input)
        BY <2>2, <2>3, <3>1 DEF Grant
      <3>3. /\ NextGrantId \in GrantId /\ grants' = [grants EXCEPT ![NextGrantId] = new]
            /\ Return(c) /\ UNCHANGED <<local, profiles, tasks, runs>>
        BY <1>2, <2>3 DEF InsertGrant
      <3>4. grants[NextGrantId] = NoRow
        BY <3>3, NextGrantIdIsFree
      <3> HIDE DEF new
      <3>5. QED
        BY <3>1, <3>2, <3>3, <3>4, TablesAssumption DEF Row
    <2>4. CASE ~(input.path \in Directory /\ CreateAccepted(input, input.path \in GitDirectory))
      BY <1>2, <2>4 DEF InsertGrant, Refuse, tableVars
    <2>5. QED
      BY <2>3, <2>4
  <1>3. CASE UpdateGrant(c)
    <2> DEFINE i == req[c].grant
               merged == MergePolicy(req[c].patch, local[c].grant.policy)
    <2>1. /\ Asked(c, "patch_grant") /\ local[c].grant \in Grant /\ ValidPolicy(merged)
      BY <1>1, <1>3 DEF UpdateGrant, At, RequestFits, RowsFit
    <2>2. /\ i \in GrantId /\ req[c].patch.capabilities \in {Unset} \cup SUBSET DirectoryCapability
          /\ PolicyFields(req[c].patch)
      BY <2>1, AskedBody DEF Asked, GrantBody
    <2>3. merged \in Policy
      BY <2>1, <2>2, MergedPolicy DEF Grant
    <2>4. /\ Return(c) /\ UNCHANGED <<local, profiles, tasks, runs>>
          /\ grants' = IF grants[i] = NoRow THEN grants ELSE [grants EXCEPT ![i].policy = merged]
      BY <1>3 DEF UpdateGrant
    <2> HIDE DEF merged, i
    <2>5. CASE grants[i] # NoRow
      <3>1. grants[i] \in Grant
        BY <1>1, <2>2, <2>5 DEF Row
      <3> DEFINE row == [grants[i] EXCEPT !.policy = merged]
      <3>2. /\ row \in Grant /\ row.policy = merged
            /\ row.product = grants[i].product /\ row.agent = grants[i].agent
            /\ row.path = grants[i].path
        BY <2>3, <3>1 DEF Grant
      <3>3. grants' = [grants EXCEPT ![i] = row]
        BY <2>4, <2>5
      <3> HIDE DEF row
      <3>4. QED
        BY <2>1, <2>2, <2>4, <3>2, <3>3, TablesAssumption DEF Row
    <2>6. QED
      BY <2>4, <2>5
  <1>4. CASE RemoveGrant(c)
    <2>1. req[c].grant \in GrantId
      BY <1>1, <1>4, AskedBody DEF RemoveGrant, At, RequestFits, Asked, GrantBody
    <2>2. NoRow \in Row(Grant)
      BY DEF Row
    <2>3. QED
      BY <1>4, <2>1, <2>2 DEF RemoveGrant
  <1>5. QED
    BY <1>2, <1>3, <1>4

LEMMA GrantNextKeeps ==
    ASSUME AdmissionInv, NEW c \in Call, GrantNext(c)
    PROVE  AdmissionInv'
  <1>1. TablesInv /\ RequestFits(c)
    BY DEF AdmissionInv, CallOK
  <1>2. CASE CreateGrant(c) \/ PatchGrant(c) \/ DeleteGrant(c)
    BY <1>2, GrantChecksKeep
  <1>3. CASE MergeGrant(c)
    <2> DEFINE row == grants[req[c].grant]
    <2>1. /\ pc[c] = "merge_grant" /\ Asked(c, "patch_grant")
          /\ UNCHANGED <<products, tokens, req, auth, barred>>
      BY <1>1, <1>3 DEF MergeGrant, At, RequestFits
    <2>2. req[c].grant \in GrantId
      BY <2>1, AskedBody DEF Asked, GrantBody
    <2>3. CASE Refuse(c)
      BY <2>1, <2>3, RefuseKeeps DEF Refuse
    <2>4. CASE /\ row # NoRow /\ ValidPolicy(MergePolicy(req[c].patch, row.policy))
               /\ Remember(c, "grant", row) /\ Goto(c, "update_grant") /\ UNCHANGED tableVars
      <3>1. row \in Grant
        BY <1>1, <2>2, <2>4 DEF TablesInv, Row
      <3>2. /\ local' \in [Call -> Locals] /\ local'[c].grant = row
            /\ \A d \in Call \ {c} : local'[d] = local[d]
        BY <2>4, <3>1, RememberRow DEF Row
      <3>3. pc'[c] = "update_grant" => RequestFits(c)'
        BY <2>1 DEF RequestFits, Asked
      <3>4. pc'[c] = "update_grant" => RowsFit(c)'
        BY <2>1, <2>4, <3>1, <3>2 DEF RowsFit
      <3>5. "update_grant" \in Label
        BY DEF Label
      <3>6. QED
        BY <2>1, <2>4, <3>2, <3>3, <3>4, <3>5, ReadSuffices
    <2>5. QED
      BY <1>3, <2>3, <2>4 DEF MergeGrant
  <1>4. CASE InsertGrant(c) \/ UpdateGrant(c) \/ RemoveGrant(c)
    <2>1. /\ pc[c] \in {"insert_grant", "update_grant", "remove_grant"}
          /\ UNCHANGED <<products, tokens, req, auth, barred>>
      BY <1>4 DEF InsertGrant, UpdateGrant, RemoveGrant, At
    <2>2. CASE Refuse(c)
      BY <2>1, <2>2, RefuseKeeps DEF Refuse
    <2>3. CASE /\ Return(c) /\ UNCHANGED <<local, profiles, tasks, runs>>
               /\ TablesInv' /\ TablesGrow
      BY <2>1, <2>3, ReturnSuffices
    <2>4. QED
      BY <1>1, <1>4, <2>1, <2>2, <2>3, GrantWrites, GrantWritten, SameTables
  <1>5. QED
    BY <1>2, <1>3, <1>4 DEF GrantNext

-----------------------------------------------------------------------------
(* Agent profiles. *)

LEMMA ProfileWritten ==
    ASSUME TablesInv, NEW a \in Agent, NEW row \in Row(Profile),
           profiles' = [profiles EXCEPT ![a] = row],
           row # NoRow => ValidProfile(row) /\ row.provider \in DOMAIN Supported,
           UNCHANGED <<products, tokens, grants, tasks>>
    PROVE  TablesInv' /\ TablesGrow
  <1>1. profiles \in [Agent -> Row(Profile)] /\ profiles' \in [Agent -> Row(Profile)]
    BY DEF TablesInv
  <1>2. StoredRowsAreValid'
    BY <1>1 DEF TablesInv, StoredRowsAreValid
  <1>3. ProvidersAreKnown'
    BY <1>1 DEF TablesInv, ProvidersAreKnown
  <1>4. AdmittedWasAuthorized' /\ RemoteIsGated'
    BY DEF TablesInv, AdmittedWasAuthorized, RemoteIsGated
  <1>5. QED
    BY <1>1, <1>2, <1>3, <1>4 DEF TablesInv, TablesGrow

(* agents::create, patch and delete up to the store: a provider that a patch
   names is one the registry has. *)
LEMMA ProfileChecksKeep ==
    ASSUME AdmissionInv, NEW c \in Call, CreateProfile(c) \/ PatchProfile(c) \/ DeleteProfile(c)
    PROVE  AdmissionInv'
  <1>1. RequestFits(c)
    BY DEF AdmissionInv, CallOK
  <1>2. {"create_profile", "insert_profile", "patch_profile", "merge_profile",
         "delete_profile", "remove_profile"} \subseteq Label
    BY DEF Label
  <1>3. CASE CreateProfile(c)
    <2>1. PICK ok : /\ At(c, "create_profile") /\ Check(c, ok, "insert_profile")
                    /\ ok => ValidAgainstRegistry(ProfileOf(req[c].input))
      BY <1>3 DEF CreateProfile
    <2>2. pc'[c] = "insert_profile" /\ UNCHANGED req => RequestFits(c)'
      BY <1>1, <2>1 DEF At, RequestFits, Asked
    <2>3. ok /\ pc'[c] = "insert_profile" /\ UNCHANGED req => RowsFit(c)'
      BY <2>1 DEF RowsFit
    <2>4. QED
      BY <1>2, <2>1, <2>2, <2>3, CheckKeeps
  <1>4. CASE PatchProfile(c)
    <2>1. PICK ok : /\ At(c, "patch_profile") /\ Check(c, ok, "merge_profile")
                    /\ ok => ValidAgainstRegistry(MergeProfile(req[c].patch, profiles[req[c].agent]))
      BY <1>4 DEF PatchProfile
    <2>2. ok => req[c].patch.provider \in {Unset} \cup DOMAIN Supported
      BY <2>1 DEF ValidAgainstRegistry, MergeProfile, OrElse
    <2>3. pc'[c] = "merge_profile" /\ UNCHANGED req => RequestFits(c)'
      BY <1>1, <2>1 DEF At, RequestFits, Asked
    <2>4. ok /\ pc'[c] = "merge_profile" /\ UNCHANGED req => RowsFit(c)'
      BY <2>2 DEF RowsFit
    <2>5. QED
      BY <1>2, <2>1, <2>3, <2>4, CheckKeeps
  <1>5. CASE DeleteProfile(c)
    <2>1. PICK ok : At(c, "delete_profile") /\ Check(c, ok, "remove_profile")
      BY <1>5 DEF DeleteProfile
    <2>2. pc'[c] = "remove_profile" /\ UNCHANGED req => RequestFits(c)' /\ RowsFit(c)'
      BY <1>1, <2>1 DEF At, RequestFits, RowsFit, Asked
    <2>3. QED
      BY <1>2, <2>1, <2>2, CheckKeeps
  <1>6. QED
    BY <1>3, <1>4, <1>5

(* What each write of agent_profiles writes: a new row where there is none, all
   columns but the owner of a row that is there, or no row. *)
LEMMA ProfileWrites ==
    ASSUME AdmissionInv, NEW c \in Call, InsertProfile(c) \/ UpdateProfile(c) \/ RemoveProfile(c)
    PROVE  \/ Refuse(c) /\ UNCHANGED profiles
           \/ /\ Return(c) /\ UNCHANGED <<local, grants, tasks, runs>>
              /\ \/ UNCHANGED profiles
                 \/ \E a \in Agent, row \in Row(Profile) :
                       /\ profiles' = [profiles EXCEPT ![a] = row]
                       /\ row # NoRow => ValidProfile(row) /\ row.provider \in DOMAIN Supported
                       /\ profiles[a] # NoRow /\ row # NoRow => row.owner = profiles[a].owner
  <1>1. profiles \in [Agent -> Row(Profile)] /\ RequestFits(c) /\ RowsFit(c)
    BY DEF AdmissionInv, CallOK, TablesInv
  <1>2. CASE InsertProfile(c)
    <2> DEFINE a == req[c].agent
               new == ProfileOf(req[c].input)
    <2>1. Asked(c, "create_profile") /\ ValidAgainstRegistry(new)
      BY <1>1, <1>2 DEF InsertProfile, At, RequestFits, RowsFit
    <2>2. a \in Agent /\ new \in Profile
      BY <2>1, AskedBody DEF Asked, ProfileBody
    <2>3. \/ Refuse(c)
          \/ /\ profiles[a] = NoRow /\ profiles' = [profiles EXCEPT ![a] = new]
             /\ Return(c) /\ UNCHANGED <<local, grants, tasks, runs>>
      BY <1>2 DEF InsertProfile
    <2>4. Refuse(c) => UNCHANGED profiles
      BY DEF Refuse, tableVars
    <2>5. ValidProfile(new) /\ new.provider \in DOMAIN Supported
      BY <2>1 DEF ValidAgainstRegistry
    <2> HIDE DEF new
    <2>6. QED
      BY <2>2, <2>3, <2>4, <2>5 DEF Row
  <1>3. CASE UpdateProfile(c)
    <2> DEFINE a == req[c].agent
               merged == MergeProfile(req[c].patch, local[c].profile)
               row == [merged EXCEPT !.owner = profiles[a].owner]
    <2>1. /\ Asked(c, "patch_profile") /\ local[c].profile \in Profile
          /\ local[c].profile.provider \in DOMAIN Supported /\ ValidProfile(merged)
          /\ req[c].patch.provider \in {Unset} \cup DOMAIN Supported
      BY <1>1, <1>3 DEF UpdateProfile, At, RequestFits, RowsFit
    <2>2. /\ a \in Agent /\ req[c].patch.provider \in {Unset} \cup Provider
          /\ req[c].patch.model \in {Unset} \cup Model
          /\ req[c].patch.execution_policy \in {Unset} \cup ExecutionPolicy
          /\ req[c].patch.permission_mode \in {Unset} \cup PermissionMode
      BY <2>1, AskedBody DEF Asked, ProfileBody
    <2>3. merged \in Profile /\ merged.provider \in DOMAIN Supported
      BY <2>1, <2>2, MergedProfile
    <2>4. /\ Return(c) /\ UNCHANGED <<local, grants, tasks, runs>>
          /\ profiles' = IF profiles[a] = NoRow THEN profiles ELSE [profiles EXCEPT ![a] = row]
      BY <1>3 DEF UpdateProfile
    <2> HIDE DEF merged, a
    <2>5. CASE profiles[a] # NoRow
      <3>1. profiles[a].owner \in Product
        BY <1>1, <2>2, <2>5 DEF Row, Profile
      <3>2. /\ row \in Profile /\ row.owner = profiles[a].owner
            /\ row.provider = merged.provider /\ row.execution_policy = merged.execution_policy
        BY <2>3, <3>1 DEF Profile
      <3>3. ValidProfile(row)
        BY <2>1, <3>2 DEF ValidProfile
      <3> HIDE DEF row
      <3>4. QED
        BY <2>2, <2>3, <2>4, <2>5, <3>2, <3>3 DEF Row
    <2>6. QED
      BY <2>4, <2>5
  <1>4. CASE RemoveProfile(c)
    <2>1. req[c].agent \in Agent
      BY <1>1, <1>4, AskedBody DEF RemoveProfile, At, RequestFits, Asked, ProfileBody
    <2>2. NoRow \in Row(Profile)
      BY DEF Row
    <2>3. QED
      BY <1>4, <2>1, <2>2 DEF RemoveProfile
  <1>5. QED
    BY <1>2, <1>3, <1>4

LEMMA ProfileNextKeeps ==
    ASSUME AdmissionInv, NEW c \in Call, ProfileNext(c)
    PROVE  AdmissionInv'
  <1>1. TablesInv /\ RequestFits(c) /\ RowsFit(c)
    BY DEF AdmissionInv, CallOK
  <1>2. CASE CreateProfile(c) \/ PatchProfile(c) \/ DeleteProfile(c)
    BY <1>2, ProfileChecksKeep
  <1>3. CASE MergeProfileAgain(c)
    <2> DEFINE row == profiles[req[c].agent]
    <2>1. /\ pc[c] = "merge_profile" /\ Asked(c, "patch_profile")
          /\ req[c].patch.provider \in {Unset} \cup DOMAIN Supported
          /\ UNCHANGED <<products, tokens, req, auth, barred>>
      BY <1>1, <1>3 DEF MergeProfileAgain, At, RequestFits, RowsFit
    <2>2. req[c].agent \in Agent
      BY <2>1, AskedBody DEF Asked, ProfileBody
    <2>3. CASE Refuse(c)
      BY <2>1, <2>3, RefuseKeeps DEF Refuse
    <2>4. CASE /\ row # NoRow /\ ValidProfile(MergeProfile(req[c].patch, row))
               /\ Remember(c, "profile", row) /\ Goto(c, "update_profile") /\ UNCHANGED tableVars
      <3>1. row \in Profile /\ row.provider \in DOMAIN Supported
        BY <1>1, <2>2, <2>4 DEF TablesInv, ProvidersAreKnown, Row
      <3>2. /\ local' \in [Call -> Locals] /\ local'[c].profile = row
            /\ \A d \in Call \ {c} : local'[d] = local[d]
        BY <2>4, <3>1, RememberRow DEF Row
      <3>3. pc'[c] = "update_profile" => RequestFits(c)'
        BY <2>1 DEF RequestFits, Asked
      <3>4. pc'[c] = "update_profile" => RowsFit(c)'
        BY <2>1, <2>4, <3>1, <3>2 DEF RowsFit
      <3>5. "update_profile" \in Label
        BY DEF Label
      <3>6. QED
        BY <2>1, <2>4, <3>2, <3>3, <3>4, <3>5, ReadSuffices
    <2>5. QED
      BY <1>3, <2>3, <2>4 DEF MergeProfileAgain
  <1>4. CASE InsertProfile(c) \/ UpdateProfile(c) \/ RemoveProfile(c)
    <2>1. /\ pc[c] \in {"insert_profile", "update_profile", "remove_profile"}
          /\ UNCHANGED <<products, tokens, req, auth, barred>>
      BY <1>4 DEF InsertProfile, UpdateProfile, RemoveProfile, At
    <2>2. CASE Refuse(c)
      BY <2>1, <2>2, RefuseKeeps DEF Refuse
    <2>3. CASE /\ Return(c) /\ UNCHANGED <<local, grants, tasks, runs>>
               /\ TablesInv' /\ TablesGrow
      BY <2>1, <2>3, ReturnSuffices
    <2>4. QED
      BY <1>1, <1>4, <2>1, <2>2, <2>3, ProfileWrites, ProfileWritten, SameTables
  <1>5. QED
    BY <1>2, <1>3, <1>4 DEF ProfileNext

-----------------------------------------------------------------------------
(* Tasks. *)

LEMMA AdmittedInput ==
    ASSUME TablesInv, NEW i \in DOMAIN tasks
    PROVE  tasks[i].input.agent \in Agent /\ tasks[i].input.directory \in GrantId
  <1>1. tasks[i] \in AdmittedTask
    BY DEF TablesInv
  <1>2. PICK r \in Request : r.op = "create_task" /\ tasks[i].input = r.input
    BY <1>1 DEF AdmittedTask
  <1>3. QED
    BY <1>2, RequestAssumption DEF TaskBody

(* The grant that chooses the mode, the profile, the grant that authorizes: each
   is checked against the same input and the mode first chosen. *)
LEMMA TaskReadsKeep ==
    ASSUME AdmissionInv, NEW c \in Call, CreateTask(c) \/ TaskProfile(c) \/ TaskAuthorize(c)
    PROVE  AdmissionInv'
  <1> DEFINE input == req[c].input
  <1>1. /\ TablesInv /\ RequestFits(c) /\ RowsFit(c)
        /\ local \in [Call -> Locals] /\ local[c] \in Locals
    BY DEF AdmissionInv, CallOK, CallsTyped
  <1>2. /\ pc[c] \in {"create_task", "task_profile", "task_authorize"}
        /\ UNCHANGED <<products, tokens, req, auth, barred>>
    BY DEF CreateTask, TaskProfile, TaskAuthorize, At
  <1>3. Asked(c, "create_task")
    BY <1>1, <1>2 DEF RequestFits
  <1>4. /\ input.agent \in Agent /\ input.directory \in GrantId
        /\ input.workspace_mode \in {Unset} \cup WorkspaceMode
    BY <1>3, AskedBody DEF Asked, TaskBody
  <1>5. {"task_profile", "task_authorize", "insert_task"} \subseteq Label
    BY DEF Label
  <1>6. CASE Refuse(c)
    BY <1>2, <1>6, RefuseKeeps DEF Refuse
  <1>7. CASE CreateTask(c) /\ ~Refuse(c)
    <2> DEFINE grant == grants[input.directory]
               mode == SelectWorkspaceMode(input.workspace_mode, grant.policy)
    <2>1. /\ grant # NoRow /\ local' = [local EXCEPT ![c].grant = grant, ![c].mode = mode]
          /\ Goto(c, "task_profile") /\ UNCHANGED tableVars
          /\ RequestsRemote(input) => HasScopes(c, {"tasks:remote_execution"})
      BY <1>7 DEF CreateTask
    <2>2. grant \in Grant
      BY <1>1, <1>4, <2>1 DEF TablesInv, Row
    <2>3. mode \in WorkspaceMode
      <3>1. grant.policy.default_workspace_mode \in WorkspaceMode
        BY <2>2 DEF Grant, Policy
      <3>2. QED
        BY <1>4, <3>1, OptionType DEF SelectWorkspaceMode
    <2> HIDE DEF grant, mode
    <2>4. /\ local' \in [Call -> Locals] /\ local'[c].grant = grant /\ local'[c].mode = mode
          /\ \A d \in Call \ {c} : local'[d] = local[d]
      BY <1>1, <2>1, <2>2, <2>3 DEF Locals, Row
    <2>5. pc'[c] = "task_profile" => RequestFits(c)' /\ RowsFit(c)'
      BY <1>2, <1>3, <2>1, <2>2, <2>3, <2>4 DEF RequestFits, RowsFit, Asked, HasScopes
    <2>6. QED
      BY <1>2, <1>5, <2>1, <2>4, <2>5, ReadSuffices
  <1>8. CASE TaskProfile(c) /\ ~Refuse(c)
    <2> DEFINE profile == profiles[input.agent]
    <2>1. /\ profile # NoRow /\ profile.owner = input.product
          /\ OverridesAgree(input, profile)
          /\ local[c].mode = "direct" => profile.execution_policy.allow_direct
          /\ Remember(c, "profile", profile)
          /\ Goto(c, "task_authorize") /\ UNCHANGED tableVars
      BY <1>8 DEF TaskProfile
    <2>2. profile \in Profile /\ AgentAuthorizes(profile, input.product, local[c].mode)
      BY <1>1, <1>4, <2>1 DEF TablesInv, Row, AgentAuthorizes
    <2>3. /\ local[c].grant \in Grant /\ local[c].mode \in WorkspaceMode
          /\ RequestsRemote(input) => HasScopes(c, {"tasks:remote_execution"})
      BY <1>1, <1>8 DEF RowsFit, TaskProfile, At
    <2>4. /\ local' \in [Call -> Locals] /\ local'[c].profile = profile
          /\ local'[c].grant = local[c].grant /\ local'[c].mode = local[c].mode
          /\ \A d \in Call \ {c} : local'[d] = local[d]
      BY <2>1, <2>2, RememberRow DEF Row
    <2>5. pc'[c] = "task_authorize" => RequestFits(c)'
      BY <1>2, <1>3 DEF RequestFits, Asked
    <2>6. pc'[c] = "task_authorize" => RowsFit(c)'
      BY <1>2, <2>1, <2>2, <2>3, <2>4 DEF RowsFit, HasScopes
    <2>7. QED
      BY <1>2, <1>5, <2>1, <2>4, <2>5, <2>6, ReadSuffices
  <1>9. CASE TaskAuthorize(c) /\ ~Refuse(c)
    <2> DEFINE grant == grants[input.directory]
    <2>1. /\ grant # NoRow
          /\ Authorizes(grant, input.product, input.agent, input.capabilities,
                        local[c].mode, input.opt_in, RequestsRemote(input))
          /\ Remember(c, "grant", grant)
          /\ Goto(c, "insert_task") /\ UNCHANGED tableVars
      BY <1>9 DEF TaskAuthorize
    <2>2. grant \in Grant
      BY <1>1, <1>4, <2>1 DEF TablesInv, Row
    <2>3. /\ local[c].mode \in WorkspaceMode /\ local[c].profile \in Profile
          /\ AgentAuthorizes(local[c].profile, input.product, local[c].mode)
          /\ OverridesAgree(input, local[c].profile)
          /\ RequestsRemote(input) => HasScopes(c, {"tasks:remote_execution"})
      BY <1>1, <1>9 DEF RowsFit, TaskAuthorize, At
    <2>4. /\ local' \in [Call -> Locals] /\ local'[c].grant = grant
          /\ local'[c].profile = local[c].profile /\ local'[c].mode = local[c].mode
          /\ \A d \in Call \ {c} : local'[d] = local[d]
      BY <2>1, <2>2, RememberRow DEF Row
    <2>5. pc'[c] = "insert_task" => RequestFits(c)'
      BY <1>2, <1>3 DEF RequestFits, Asked
    <2>6. pc'[c] = "insert_task" => RowsFit(c)'
      BY <1>2, <2>1, <2>2, <2>3, <2>4 DEF RowsFit, HasScopes
    <2>7. QED
      BY <1>2, <1>5, <2>1, <2>4, <2>5, <2>6, ReadSuffices
  <1>10. QED
    BY <1>6, <1>7, <1>8, <1>9

(* The task is stored with the rows that admitted it. *)
LEMMA InsertTaskKeeps ==
    ASSUME AdmissionInv, NEW c \in Call, InsertTask(c)
    PROVE  AdmissionInv'
  <1> DEFINE input == req[c].input
             new == [input |-> input, mode |-> local[c].mode,
                     provider |-> local[c].profile.provider,
                     model |-> local[c].profile.model,
                     grant |-> local[c].grant, profile |-> local[c].profile,
                     remote_scope |-> HasScopes(c, {"tasks:remote_execution"})]
  <1>1. /\ TablesInv /\ tasks \in Seq(AdmittedTask) /\ pc[c] = "insert_task" /\ Return(c)
        /\ tasks' = Append(tasks, new)
        /\ UNCHANGED <<products, tokens, req, auth, barred, local, grants, profiles>>
    BY DEF AdmissionInv, TablesInv, InsertTask, At
  <1>2. /\ Asked(c, "create_task") /\ local[c].grant \in Grant
        /\ local[c].mode \in WorkspaceMode /\ local[c].profile \in Profile
        /\ AgentAuthorizes(local[c].profile, input.product, local[c].mode)
        /\ Authorizes(local[c].grant, input.product, input.agent, input.capabilities,
                      local[c].mode, input.opt_in, RequestsRemote(input))
        /\ OverridesAgree(input, local[c].profile)
        /\ RequestsRemote(input) => HasScopes(c, {"tasks:remote_execution"})
    BY <1>1 DEF AdmissionInv, CallOK, RequestFits, RowsFit
  <1>3. new \in AdmittedTask
    BY <1>2 DEF AdmittedTask, Asked, Profile, HasScopes
  <1>4. /\ new.input = input /\ new.mode = local[c].mode
        /\ new.grant = local[c].grant /\ new.profile = local[c].profile
    OBVIOUS
  <1>5. new.provider \in HttpProvider =>
            new.input.provider = Unset \/ (new.grant.policy.allow_remote /\ new.remote_scope)
    BY <1>2 DEF OverridesAgree, RequestsRemote, Authorizes
  <1> HIDE DEF new
  <1>6. /\ tasks' \in Seq(AdmittedTask) /\ DOMAIN tasks \subseteq DOMAIN tasks'
        /\ \A i \in DOMAIN tasks' :
             (i \in DOMAIN tasks /\ tasks'[i] = tasks[i]) \/ tasks'[i] = new
    BY <1>1, <1>3
  <1>7. AdmittedWasAuthorized'
    <2> SUFFICES ASSUME NEW i \in DOMAIN tasks', NEW t, t = tasks'[i]
                 PROVE  /\ Authorizes(t.grant, t.input.product, t.input.agent,
                                      t.input.capabilities, t.mode, t.input.opt_in,
                                      RequestsRemote(t.input))
                        /\ AgentAuthorizes(t.profile, t.input.product, t.mode)
      BY DEF AdmittedWasAuthorized
    <2>1. CASE i \in DOMAIN tasks /\ tasks'[i] = tasks[i]
      BY <1>1, <2>1 DEF TablesInv, AdmittedWasAuthorized
    <2>2. CASE tasks'[i] = new
      BY <1>2, <1>4, <2>2
    <2>3. QED
      BY <1>6, <2>1, <2>2
  <1>8. TablesInv'
    <2>1. StoredRowsAreValid' /\ ProvidersAreKnown'
      BY <1>1 DEF TablesInv, StoredRowsAreValid, ProvidersAreKnown
    <2>2. RemoteIsGated'
      BY <1>1, <1>6, <1>5 DEF TablesInv, RemoteIsGated
    <2>3. QED
      BY <1>1, <1>6, <1>7, <2>1, <2>2 DEF TablesInv
  <1>9. TablesGrow
    BY <1>1, <1>6 DEF TablesGrow
  <1>10. QED
    BY <1>1, <1>8, <1>9, ReturnSuffices

(* An execution reads rows and writes none of these tables. *)
LEMMA ExecutionKeeps ==
    ASSUME AdmissionInv, NEW c \in Call, StartExecution(c) \/ ExecuteGrant(c) \/ ExecuteRun(c)
    PROVE  AdmissionInv'
  <1>1. TablesInv /\ RequestFits(c) /\ CallsTyped
    BY DEF AdmissionInv, CallOK
  <1>2. CASE StartExecution(c)
    <2>1. TablesInv' /\ TablesGrow
      BY <1>1, <1>2, SameTables DEF StartExecution, tableVars
    <2>2. PICK i \in DOMAIN tasks :
             /\ req' = [req EXCEPT ![c] = [op |-> "execute", task |-> i]]
             /\ \/ /\ profiles[tasks[i].input.agent] # NoRow
                   /\ Remember(c, "profile", profiles[tasks[i].input.agent])
                   /\ Goto(c, "execute")
                \/ Return(c) /\ UNCHANGED local
      BY <1>2 DEF StartExecution
    <2>3. profiles[tasks[i].input.agent] \in Row(Profile)
      BY <1>1, AdmittedInput DEF TablesInv
    <2>4. local' \in [Call -> Locals] /\ \A d \in Call \ {c} : local'[d] = local[d]
      BY <1>1, <2>2, <2>3, RememberRow DEF CallsTyped
    <2>5. /\ pc' \in [Call -> Label] /\ pc'[c] \in {"execute", "done"}
          /\ \A d \in Call \ {c} : pc'[d] = pc[d]
      BY <1>1, <2>2 DEF CallsTyped, Goto, Return, Label
    <2>6. /\ [op |-> "execute", task |-> i] \in Row(Request \cup Execution)
          /\ [op |-> "execute", task |-> i].task = i
      BY <1>1 DEF TablesInv, Execution, Row
    <2>7. /\ req' \in [Call -> Row(Request \cup Execution)] /\ req'[c].task = i
          /\ \A d \in Call \ {c} : req'[d] = req[d]
      BY <1>1, <2>2, <2>6 DEF CallsTyped
    <2>8. UNCHANGED <<auth, barred, tasks>> /\ ~barred[c]
      BY <1>2 DEF StartExecution, tableVars, AdmissionInv, CallOK, BarredFits
    <2>9. CallsTyped' /\ OnlyCall(c)
      BY <1>1, <2>4, <2>5, <2>7, <2>8 DEF CallsTyped, OnlyCall
    <2>10. RequestFits(c)' /\ RowsFit(c)' /\ BarredFits(c)'
      BY <2>5, <2>7, <2>8 DEF RequestFits, RowsFit, BarredFits
    <2>11. QED
      BY <2>1, <2>9, <2>10, OneCallSuffices DEF CallOK
  <1>3. CASE ExecuteGrant(c)
    <2> DEFINE grant == grants[tasks[req[c].task].input.directory]
    <2>1. /\ pc[c] = "execute" /\ req[c].task \in DOMAIN tasks
          /\ UNCHANGED <<products, tokens, req, auth, barred>>
      BY <1>1, <1>3 DEF ExecuteGrant, At, RequestFits
    <2>2. grant \in Row(Grant)
      BY <1>1, <2>1, AdmittedInput DEF TablesInv
    <2>3. CASE Refuse(c)
      BY <2>1, <2>3, RefuseKeeps DEF Refuse
    <2>4. CASE Remember(c, "grant", grant) /\ Goto(c, "workspace") /\ UNCHANGED tableVars
      <3>1. local' \in [Call -> Locals] /\ \A d \in Call \ {c} : local'[d] = local[d]
        BY <2>2, <2>4, RememberRow
      <3>2. pc'[c] = "workspace" => RequestFits(c)' /\ RowsFit(c)'
        BY <2>1, <2>4 DEF RequestFits, RowsFit, tableVars
      <3>3. "workspace" \in Label
        BY DEF Label
      <3>4. QED
        BY <2>1, <2>4, <3>1, <3>2, <3>3, ReadSuffices
    <2>5. QED
      BY <1>3, <2>3, <2>4 DEF ExecuteGrant
  <1>4. CASE ExecuteRun(c)
    <2>1. /\ pc[c] = "workspace" /\ Return(c)
          /\ UNCHANGED <<products, tokens, req, auth, barred, local, grants, profiles, tasks>>
      BY <1>4 DEF ExecuteRun, At, Refuse, tableVars
    <2>2. QED
      BY <1>1, <2>1, SameTables, ReturnSuffices
  <1>5. QED
    BY <1>2, <1>3, <1>4

-----------------------------------------------------------------------------
(* The theorems. *)

LEMMA NextKeepsAdmissionInv ==
    ASSUME AdmissionInv, [Next]_vars
    PROVE  AdmissionInv'
  <1>1. ASSUME AccessNext, UNCHANGED tableVars PROVE AdmissionInv'
    BY <1>1, ArriveKeeps, AuthenticateKeeps, TouchKeeps, BootstrapKeeps DEF AccessNext
  <1>2. ASSUME NEW c \in Call, GrantNext(c) \/ ProfileNext(c) \/ TaskNext(c)
        PROVE  AdmissionInv'
    BY <1>2, GrantNextKeeps, ProfileNextKeeps, TaskReadsKeep, InsertTaskKeeps, ExecutionKeeps
       DEF TaskNext
  <1>3. CASE UNCHANGED vars
    <2>1. /\ UNCHANGED <<products, tokens, grants, profiles, tasks>>
          /\ UNCHANGED <<pc, req, auth, local, barred>>
      BY <1>3 DEF vars, accessVars, tableVars
    <2>2. TablesInv' /\ CallsTyped'
      BY <2>1, SameTables DEF AdmissionInv, CallsTyped
    <2>3. \A c \in Call : RequestFits(c)' /\ RowsFit(c)' /\ BarredFits(c)'
      BY <2>1 DEF AdmissionInv, CallOK, RequestFits, Asked, RowsFit, HasScopes,
                   BarredFits, TokenIsRevoked
    <2>4. QED
      BY <2>2, <2>3 DEF AdmissionInv, CallOK
  <1>4. QED
    BY <1>1, <1>2, <1>3 DEF Next

LEMMA InitEstablishesAdmissionInv == Init => AdmissionInv
  <1> SUFFICES ASSUME Init PROVE AdmissionInv
    OBVIOUS
  <1>1. TablesInv
    <2>1. /\ products \in [Product -> Row(ProductRow)] /\ tokens \in [Token -> Row(TokenRow)]
          /\ grants \in [GrantId -> Row(Grant)] /\ profiles \in [Agent -> Row(Profile)]
      BY TablesAssumption DEF Init
    <2>2. StoredRowsAreValid /\ ProvidersAreKnown
      BY TablesAssumption DEF Init, StoredRowsAreValid, ProvidersAreKnown
    <2>3. tasks \in Seq(AdmittedTask) /\ AdmittedWasAuthorized /\ RemoteIsGated
      BY DEF Init, AdmittedWasAuthorized, RemoteIsGated
    <2>4. QED
      BY <2>1, <2>2, <2>3 DEF TablesInv
  <1>2. NoLocals \in Locals
    BY DEF NoLocals, Locals, Row
  <1>3. CallsTyped
    BY <1>2 DEF Init, CallsTyped, Row, Label
  <1>4. \A c \in Call : pc[c] = "idle" /\ auth[c] = NoRow /\ ~barred[c]
    BY DEF Init
  <1>5. \A c \in Call : CallOK(c)
    BY <1>4 DEF CallOK, RequestFits, RowsFit, BarredFits
  <1>6. QED
    BY <1>1, <1>3, <1>5 DEF AdmissionInv

(* The invariant is inductive: whatever calls interleave, what a handler found
   still supports what it writes. *)
THEOREM AdmissionInductive == Spec => []AdmissionInv
  <1>1. AdmissionInv /\ [Next]_vars => AdmissionInv'
    BY NextKeepsAdmissionInv
  <1>2. QED
    BY <1>1, InitEstablishesAdmissionInv, PTL DEF Spec

(* The tables and what the calls in flight have read of them keep their types. *)
THEOREM AdmissionTypeCorrect == Spec => []TypeOK
  <1>1. AdmissionInv => TypeOK
    BY DEF AdmissionInv, TablesInv, CallsTyped, TypeOK
  <1>2. QED
    BY <1>1, AdmissionInductive, PTL

(* However creations, patches and deletions interleave, every stored grant and
   profile satisfies its validator: a patch writes back every column it has
   validated together (DirectoryGrantStore::patch, AgentProfileStore::patch). *)
THEOREM StoredRowsStayValid == Spec => []StoredRowsAreValid
  <1>1. AdmissionInv => StoredRowsAreValid
    BY DEF AdmissionInv, TablesInv
  <1>2. QED
    BY <1>1, AdmissionInductive, PTL

(* The second merge of a profile patch is not checked against the registry and
   does not have to be, for the provider: it is the patch's, which was checked,
   or the row's, which was (agents::patch, AgentProfileStore::patch). *)
THEOREM ProvidersStayKnown == Spec => []ProvidersAreKnown
  <1>1. AdmissionInv => ProvidersAreKnown
    BY DEF AdmissionInv, TablesInv
  <1>2. QED
    BY <1>1, AdmissionInductive, PTL

(* Whatever is patched, deleted or created between the reads of enqueue_task, an
   admitted task was authorized by one reading of its grant, in the mode it was
   given, and by one reading of its profile. *)
THEOREM AdmissionIsAuthorized == Spec => []AdmittedWasAuthorized
  <1>1. AdmissionInv => AdmittedWasAuthorized
    BY DEF AdmissionInv, TablesInv
  <1>2. QED
    BY <1>1, AdmissionInductive, PTL

(* Whatever profile and grant are patched to meanwhile, a task that names its
   provider and will run on a remote one had a token with the scope for it and a
   grant that allows it (tasks::create, enqueue_task). *)
THEOREM RemoteStaysGated == Spec => []RemoteIsGated
  <1>1. AdmissionInv => RemoteIsGated
    BY DEF AdmissionInv, TablesInv
  <1>2. QED
    BY <1>1, AdmissionInductive, PTL

(* No call that arrives with a revoked token is authenticated: nothing lifts a
   revocation, the late touch_last_used of an earlier call included. *)
THEOREM RevokedStaysBarred == Spec => []RevokedTokenIsBarred
  <1>1. AdmissionInv => RevokedTokenIsBarred
    BY DEF AdmissionInv, CallOK, BarredFits, RevokedTokenIsBarred
  <1>2. QED
    BY <1>1, AdmissionInductive, PTL

(* What a step makes of the rows that stay. *)
OwnersKept ==
    /\ \A i \in GrantId : grants[i] # NoRow /\ grants'[i] # NoRow =>
           /\ grants'[i].product = grants[i].product
           /\ grants'[i].agent = grants[i].agent
           /\ grants'[i].path = grants[i].path
    /\ \A a \in Agent : profiles[a] # NoRow /\ profiles'[a] # NoRow =>
           profiles'[a].owner = profiles[a].owner

(* The steps that write neither table. *)
LEMMA OtherStepsWriteNoRow ==
    ASSUME NEW c \in Call,
           \/ CreateGrant(c) \/ PatchGrant(c) \/ MergeGrant(c) \/ DeleteGrant(c)
           \/ CreateProfile(c) \/ PatchProfile(c) \/ MergeProfileAgain(c) \/ DeleteProfile(c)
           \/ TaskNext(c)
    PROVE  UNCHANGED <<grants, profiles>>
  <1> USE DEF Check, Refuse, tableVars
  <1>1. CASE CreateGrant(c) \/ PatchGrant(c) \/ MergeGrant(c) \/ DeleteGrant(c)
    BY <1>1 DEF CreateGrant, PatchGrant, MergeGrant, DeleteGrant
  <1>2. CASE \/ CreateProfile(c) \/ PatchProfile(c) \/ MergeProfileAgain(c)
             \/ DeleteProfile(c)
    BY <1>2 DEF CreateProfile, PatchProfile, MergeProfileAgain, DeleteProfile
  <1>3. CASE TaskNext(c)
    BY <1>3 DEF TaskNext, CreateTask, TaskProfile, TaskAuthorize, InsertTask,
                StartExecution, ExecuteGrant, ExecuteRun
  <1>4. QED
    BY <1>1, <1>2, <1>3

(* A grant's row goes only when RemoveGrant takes it, and neither product, agent,
   path nor owner of a row that stays is written. *)
LEMMA NextKeepsOwners ==
    ASSUME AdmissionInv, [Next]_vars
    PROVE  /\ OwnersKept
           /\ \/ \E c \in Call : RemoveGrant(c)
              \/ \A i \in GrantId : grants[i] # NoRow => grants'[i] # NoRow
  <1> DEFINE GrantsStay == \A i \in GrantId : grants[i] # NoRow => grants'[i] # NoRow
  <1>1. grants \in [GrantId -> Row(Grant)] /\ profiles \in [Agent -> Row(Profile)]
    BY DEF AdmissionInv, TablesInv
  <1>2. CASE UNCHANGED <<grants, profiles>>
    BY <1>2 DEF OwnersKept
  <1>3. ASSUME NEW c \in Call, InsertGrant(c) \/ UpdateGrant(c) \/ RemoveGrant(c)
        PROVE  OwnersKept /\ (RemoveGrant(c) \/ GrantsStay)
    <2>1. UNCHANGED profiles
      BY <1>3, GrantWrites DEF Refuse, tableVars
    <2>2. CASE UNCHANGED grants
      BY <2>1, <2>2 DEF OwnersKept
    <2>3. ASSUME NEW i \in GrantId, NEW row \in Row(Grant),
                 grants' = [grants EXCEPT ![i] = row],
                 row = NoRow => RemoveGrant(c),
                 grants[i] # NoRow /\ row # NoRow =>
                     /\ row.product = grants[i].product
                     /\ row.agent = grants[i].agent
                     /\ row.path = grants[i].path
          PROVE  OwnersKept /\ (RemoveGrant(c) \/ GrantsStay)
      BY <1>1, <2>1, <2>3 DEF OwnersKept
    <2> HIDE DEF GrantsStay
    <2>4. QED
      BY <1>3, <2>2, <2>3, GrantWrites
  <1>4. ASSUME NEW c \in Call, InsertProfile(c) \/ UpdateProfile(c) \/ RemoveProfile(c)
        PROVE  OwnersKept /\ GrantsStay
    <2>1. UNCHANGED grants
      BY <1>4, ProfileWrites DEF Refuse, tableVars
    <2>2. CASE UNCHANGED profiles
      BY <2>1, <2>2 DEF OwnersKept
    <2>3. ASSUME NEW a \in Agent, NEW row \in Row(Profile),
                 profiles' = [profiles EXCEPT ![a] = row],
                 profiles[a] # NoRow /\ row # NoRow => row.owner = profiles[a].owner
          PROVE  OwnersKept /\ GrantsStay
      BY <1>1, <2>1, <2>3 DEF OwnersKept
    <2> HIDE DEF GrantsStay
    <2>4. QED
      BY <1>4, <2>2, <2>3, ProfileWrites
  <1>5. ASSUME UNCHANGED tableVars \/ UNCHANGED vars PROVE UNCHANGED <<grants, profiles>>
    BY <1>5 DEF tableVars, vars
  <1> HIDE DEF GrantsStay
  <1>6. UNCHANGED <<grants, profiles>> => GrantsStay
    BY DEF GrantsStay
  <1>7. QED
    BY <1>2, <1>3, <1>4, <1>5, <1>6, OtherStepsWriteNoRow DEF Next, GrantNext, ProfileNext, GrantsStay

(* No step hands a grant or a profile over: a new grant's id is free, the late
   UPDATE of a patch leaves product, agent, path and owner as it finds them. *)
THEOREM OwnersStay == Spec => OwnerNeverChanges
  <1>1. AdmissionInv /\ [Next]_vars => [OwnersKept]_vars
    BY NextKeepsOwners
  <1>2. QED
    BY <1>1, AdmissionInductive, PTL DEF Spec, OwnerNeverChanges, OwnersKept

-----------------------------------------------------------------------------
(* Where no grant is deleted no id is given again, and the directory of a run is
   the one that admitted its task. *)

Granted(input) ==
    grants[input.directory] # NoRow /\ grants[input.directory].product = input.product

OwnGrantInv ==
    /\ \A c \in Call : pc[c] = "insert_task" => Granted(req[c].input)
    /\ \A i \in DOMAIN tasks : Granted(tasks[i].input)
    /\ \A r \in runs : /\ r.task \in DOMAIN tasks
                      /\ r.workspace.product = tasks[r.task].input.product

(* Only the second reading of the grant leads to the insert. *)
LEMMA AuthorizedBeforeInsert ==
    ASSUME AdmissionInv, [Next]_vars, NEW c \in Call, pc'[c] = "insert_task"
    PROVE  \/ pc[c] = "insert_task" /\ req'[c] = req[c]
           \/ TaskAuthorize(c) /\ ~Refuse(c)
  <1>1. /\ pc \in [Call -> Label] /\ req \in [Call -> Row(Request \cup Execution)]
        /\ RequestFits(c)
    BY DEF AdmissionInv, CallsTyped, CallOK
  <1> USE DEF At, Goto, Return, Check, Refuse
  <1>2. ASSUME NEW d \in Call, NEW r \in Request, Arrive(d, r)
        PROVE  pc[c] = "insert_task" /\ req'[c] = req[c]
    BY <1>1, <1>2 DEF Arrive
  <1>3. ASSUME NEW d \in Call, Authenticate(d) \/ Touch(d)
        PROVE  pc[c] = "insert_task" /\ req'[c] = req[c]
    <2>1. req[d] \in Request
      BY <1>3 DEF Authenticate, Touch, AdmissionInv, CallOK, RequestFits
    <2>2. req[d].op # "insert_task"
      BY <2>1, RequestAssumption DEF BootstrapOperation, ProductOperation
    <2>3. QED
      BY <1>1, <1>3, <2>2 DEF Authenticate, Touch
  <1>4. ASSUME NEW d \in Call,
               \/ CreateProduct(d) \/ PatchProduct(d) \/ UpdateProduct(d)
               \/ CreateToken(d) \/ RevokeToken(d)
        PROVE  pc[c] = "insert_task" /\ req'[c] = req[c]
    BY <1>1, <1>4 DEF CreateProduct, PatchProduct, UpdateProduct, CreateToken, RevokeToken
  <1>5. ASSUME NEW d \in Call, GrantNext(d)
        PROVE  pc[c] = "insert_task" /\ req'[c] = req[c]
    BY <1>1, <1>5 DEF GrantNext, CreateGrant, InsertGrant, PatchGrant, MergeGrant, UpdateGrant,
                      DeleteGrant, RemoveGrant
  <1>6. ASSUME NEW d \in Call, ProfileNext(d)
        PROVE  pc[c] = "insert_task" /\ req'[c] = req[c]
    BY <1>1, <1>6 DEF ProfileNext, CreateProfile, InsertProfile, PatchProfile, MergeProfileAgain,
                      UpdateProfile, DeleteProfile, RemoveProfile
  <1>7. ASSUME NEW d \in Call,
               \/ CreateTask(d) \/ TaskProfile(d) \/ InsertTask(d)
               \/ StartExecution(d) \/ ExecuteGrant(d) \/ ExecuteRun(d)
        PROVE  pc[c] = "insert_task" /\ req'[c] = req[c]
    BY <1>1, <1>7 DEF CreateTask, TaskProfile, InsertTask, StartExecution, ExecuteGrant, ExecuteRun
  <1>8. ASSUME NEW d \in Call, TaskAuthorize(d)
        PROVE  \/ pc[c] = "insert_task" /\ req'[c] = req[c]
               \/ d = c /\ ~Refuse(c)
    BY <1>1, <1>8 DEF TaskAuthorize
  <1>9. CASE UNCHANGED vars
    BY <1>9 DEF vars, accessVars
  <1>10. QED
    BY <1>2, <1>3, <1>4, <1>5, <1>6, <1>7, <1>8, <1>9 DEF Next, AccessNext, TaskNext

(* What a step adds to the tasks and to the runs. *)
LEMMA TasksAndRuns ==
    ASSUME AdmissionInv, [Next]_vars
    PROVE  /\ DOMAIN tasks \subseteq DOMAIN tasks'
           /\ \A i \in DOMAIN tasks : tasks'[i] = tasks[i]
           /\ \A i \in DOMAIN tasks' \ DOMAIN tasks :
                  \E c \in Call : InsertTask(c) /\ tasks'[i].input = req[c].input
           /\ \A r \in runs' \ runs :
                  \E i \in DOMAIN tasks : r.task = i /\ r.workspace = grants[tasks[i].input.directory]
  <1>1. tasks \in Seq(AdmittedTask)
    BY DEF AdmissionInv, TablesInv
  <1>2. CASE UNCHANGED <<tasks, runs>>
    BY <1>2
  <1>3. ASSUME NEW c \in Call, InsertTask(c)
        PROVE  /\ DOMAIN tasks \subseteq DOMAIN tasks' /\ UNCHANGED runs
               /\ \A i \in DOMAIN tasks : tasks'[i] = tasks[i]
               /\ \A i \in DOMAIN tasks' \ DOMAIN tasks : tasks'[i].input = req[c].input
    <2>1. PICK new : tasks' = Append(tasks, new) /\ new.input = req[c].input
      BY <1>3 DEF InsertTask
    <2>2. DOMAIN tasks = 1..Len(tasks) /\ DOMAIN tasks' = 1..(Len(tasks) + 1) /\ Len(tasks) \in Nat
      BY <1>1, <2>1
    <2>3. /\ \A i \in 1..Len(tasks) : tasks'[i] = tasks[i]
          /\ tasks'[Len(tasks) + 1] = new
      BY <1>1, <2>1
    <2>4. UNCHANGED runs
      BY <1>3 DEF InsertTask
    <2>5. QED
      BY <2>1, <2>2, <2>3, <2>4
  <1>4. ASSUME NEW c \in Call, ExecuteRun(c)
        PROVE  /\ UNCHANGED tasks
               /\ \A r \in runs' \ runs :
                      \E i \in DOMAIN tasks : /\ r.task = i
                                             /\ r.workspace = grants[tasks[i].input.directory]
    <2>1. req[c].task \in DOMAIN tasks
      BY <1>4 DEF AdmissionInv, CallOK, RequestFits, ExecuteRun, At
    <2>2. QED
      BY <1>4, <2>1 DEF ExecuteRun, Refuse, tableVars
  <1>5. ASSUME NEW c \in Call, GrantNext(c) \/ ProfileNext(c) PROVE UNCHANGED <<tasks, runs>>
    <2> USE DEF Check, Refuse, tableVars
    <2>1. CASE GrantNext(c)
      BY <2>1 DEF GrantNext, CreateGrant, InsertGrant, PatchGrant, MergeGrant, UpdateGrant,
                  DeleteGrant, RemoveGrant
    <2>2. CASE ProfileNext(c)
      BY <2>2 DEF ProfileNext, CreateProfile, InsertProfile, PatchProfile, MergeProfileAgain,
                  UpdateProfile, DeleteProfile, RemoveProfile
    <2>3. QED
      BY <1>5, <2>1, <2>2
  <1>6. ASSUME NEW c \in Call,
               \/ CreateTask(c) \/ TaskProfile(c) \/ TaskAuthorize(c)
               \/ StartExecution(c) \/ ExecuteGrant(c)
        PROVE  UNCHANGED <<tasks, runs>>
    BY <1>6 DEF CreateTask, TaskProfile, TaskAuthorize, StartExecution, ExecuteGrant,
                Refuse, tableVars
  <1>7. ASSUME UNCHANGED tableVars \/ UNCHANGED vars PROVE UNCHANGED <<tasks, runs>>
    BY <1>7 DEF tableVars, vars
  <1>8. QED
    BY <1>2, <1>3, <1>4, <1>5, <1>6, <1>7 DEF Next, TaskNext

LEMMA NextKeepsOwnGrantInv ==
    ASSUME \A r \in Request : r.op # "delete_grant",
           AdmissionInv, AdmissionInv', OwnGrantInv, [Next]_vars
    PROVE  OwnGrantInv'
  <1>1. \A c \in Call : ~RemoveGrant(c)
    BY DEF AdmissionInv, CallOK, RequestFits, Asked, RemoveGrant, At
  <1>2. \A i \in GrantId : grants[i] # NoRow =>
           grants'[i] # NoRow /\ grants'[i].product = grants[i].product
    BY <1>1, NextKeepsOwners DEF OwnersKept
  <1>3. \A input : input.directory \in GrantId /\ Granted(input) => Granted(input)'
    BY <1>2 DEF Granted
  <1>4. ASSUME NEW c \in Call, pc[c] \in {"task_authorize", "insert_task"}
        PROVE  req[c].input.directory \in GrantId
    BY <1>4, AskedBody DEF AdmissionInv, CallOK, RequestFits, Asked, TaskBody
  <1>5. ASSUME NEW c \in Call, pc'[c] = "insert_task", NEW input, input = req'[c].input
        PROVE  Granted(input)'
    <2>1. CASE pc[c] = "insert_task" /\ req'[c] = req[c]
      BY <1>3, <1>4, <1>5, <2>1 DEF OwnGrantInv
    <2>2. CASE TaskAuthorize(c) /\ ~Refuse(c)
      <3>1. /\ pc[c] = "task_authorize" /\ UNCHANGED req
            /\ Granted(req[c].input)
        BY <2>2 DEF TaskAuthorize, At, Authorizes, Granted
      <3>2. QED
        BY <1>3, <1>4, <1>5, <3>1
    <2>3. QED
      BY <1>5, <2>1, <2>2, AuthorizedBeforeInsert
  <1>6. ASSUME NEW i \in DOMAIN tasks', NEW input, input = tasks'[i].input
        PROVE  Granted(input)'
    <2>1. CASE i \in DOMAIN tasks
      <3>1. input = tasks[i].input
        BY <1>6, <2>1, TasksAndRuns
      <3>2. input.directory \in GrantId /\ Granted(input)
        BY <2>1, <3>1, AdmittedInput DEF OwnGrantInv, AdmissionInv
      <3>3. QED
        BY <1>3, <3>2
    <2>2. CASE i \notin DOMAIN tasks
      <3>1. PICK c \in Call : InsertTask(c) /\ input = req[c].input
        BY <1>6, <2>2, TasksAndRuns
      <3>2. pc[c] = "insert_task"
        BY <3>1 DEF InsertTask, At
      <3>3. QED
        BY <1>3, <1>4, <3>1, <3>2 DEF OwnGrantInv
    <2>3. QED
      BY <2>1, <2>2
  <1>7. ASSUME NEW r \in runs'
        PROVE  r.task \in DOMAIN tasks' /\ r.workspace.product = tasks'[r.task].input.product
    <2>1. CASE r \in runs
      BY <2>1, TasksAndRuns DEF OwnGrantInv
    <2>2. CASE r \notin runs
      <3>1. PICK i \in DOMAIN tasks : /\ r.task = i
                                     /\ r.workspace = grants[tasks[i].input.directory]
        BY <1>7, <2>2, TasksAndRuns
      <3>2. r.workspace.product = tasks[i].input.product
        BY <3>1 DEF OwnGrantInv, Granted
      <3>3. QED
        BY <3>1, <3>2, TasksAndRuns
    <2>3. QED
      BY <2>1, <2>2
  <1>8. QED
    BY <1>5, <1>6, <1>7 DEF OwnGrantInv, Granted

(* The one cause of a run in another product's directory is an id given again:
   where no grant is deleted, every task runs in a directory granted to its own
   product, although execute_task and prepare_workspace look the grant up anew. *)
THEOREM OwnGrantWithoutDeletion ==
    ASSUME \A r \in Request : r.op # "delete_grant"
    PROVE  Spec => []RunsUnderOwnGrant
  <1>1. Init => OwnGrantInv
    BY DEF Init, OwnGrantInv
  <1>2. AdmissionInv /\ AdmissionInv' /\ OwnGrantInv /\ [Next]_vars => OwnGrantInv'
    BY NextKeepsOwnGrantInv
  <1>3. OwnGrantInv => RunsUnderOwnGrant
    BY DEF OwnGrantInv, RunsUnderOwnGrant
  <1>4. QED
    BY <1>1, <1>2, <1>3, AdmissionInductive, PTL DEF Spec

=============================================================================
