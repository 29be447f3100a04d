----------------------------- MODULE Admission -----------------------------
(***************************************************************************)
(* What products may set up and submit: directory grants                   *)
(* (api/directories.rs, store/directory_grants.rs), agent profiles         *)
(* (api/agents.rs, store/agent_profiles.rs), the admission of tasks        *)
(* (api/tasks.rs, SchedulerService::enqueue_task), and the rows an         *)
(* execution of an admitted task reads (execute_task).                     *)
(*                                                                         *)
(* Handlers check and write in separate transactions.  A grant's id is its *)
(* rowid, which SQLite takes to be one more than the largest in use: the   *)
(* id of the last grant is given again once that grant is deleted.  Agent  *)
(* ids are chosen by products.  Nothing deletes a task.                    *)
(***************************************************************************)
EXTENDS ProductAccess

CONSTANTS
    Directory,    \* paths that canonicalize to a directory
    GitDirectory, \* those with a .git
    MaxGrant,     \* bound: grant ids
    MaxTasks,     \* bound: admitted tasks
    InitialProducts, InitialTokens, InitialProfiles, InitialGrants  \* the tables at the start

ASSUME AdmissionAssumption ==
    /\ GitDirectory \subseteq Directory
    /\ MaxGrant \in Nat
    /\ MaxTasks \in Nat

GrantId == 1..MaxGrant

Grant == [product : Product, agent : Agent, path : Directory, policy : Policy]

Row(S) == S \cup {NoRow}

(* The tables the daemon starts with hold rows that its own handlers wrote. *)
ASSUME TablesAssumption ==
    /\ NoRow \notin Grant
    /\ InitialProducts \in [Product -> Row(ProductRow)]
    /\ InitialTokens \in [Token -> Row(TokenRow)]
    /\ \A table \in InitialGrants :
           /\ table \in [GrantId -> Row(Grant)]
           /\ \A i \in GrantId : table[i] # NoRow => ValidPolicy(table[i].policy)
    /\ \A table \in InitialProfiles :
           /\ table \in [Agent -> Row(Profile)]
           /\ \A a \in Agent : table[a] # NoRow =>
                  ValidProfile(table[a]) /\ table[a].provider \in DOMAIN Supported

(* The requests of the products' routes, as path and body are deserialized:
   the types of the fields, not what the handlers check of them. *)
PolicyFields(f) ==
    /\ f.workspace_modes \in {Unset} \cup Seq(WorkspaceMode)
    /\ f.default_workspace_mode \in {Unset} \cup WorkspaceMode
    /\ f.lock_policy \in {Unset} \cup DirectoryLockPolicy
    /\ f.requires_opt_in \in {Unset} \cup BOOLEAN
    /\ f.allow_remote \in {Unset} \cup BOOLEAN

GrantBody(r) ==
    /\ r.op = "create_grant" =>
           /\ r.input.product \in Product /\ r.input.agent \in Agent
           /\ r.input.capabilities \subseteq DirectoryCapability
           /\ PolicyFields(r.input)
    /\ r.op \in {"patch_grant", "delete_grant"} => r.grant \in GrantId
    /\ r.op = "patch_grant" =>
           /\ r.patch.capabilities \in {Unset} \cup SUBSET DirectoryCapability
           /\ PolicyFields(r.patch)

ProfileBody(r) ==
    /\ r.op \in {"create_profile", "patch_profile", "delete_profile"} => r.agent \in Agent
    /\ r.op = "create_profile" => ProfileOf(r.input) \in Profile
    /\ r.op = "patch_profile" =>
           /\ r.patch.provider \in {Unset} \cup Provider
           /\ r.patch.model \in {Unset} \cup Model
           /\ r.patch.execution_policy \in {Unset} \cup ExecutionPolicy
           /\ r.patch.permission_mode \in {Unset} \cup PermissionMode

TaskBody(r) ==
    r.op = "create_task" =>
        /\ r.input.agent \in Agent
        /\ r.input.directory \in GrantId
        /\ r.input.workspace_mode \in {Unset} \cup WorkspaceMode

ProductOperation == {"create_grant", "patch_grant", "delete_grant", "create_profile",
                     "patch_profile", "delete_profile", "create_task"}

ASSUME RequestAssumption ==
    \A r \in Request :
        /\ r.op \in BootstrapOperation \cup ProductOperation
        /\ ProductBody(r) /\ GrantBody(r) /\ ProfileBody(r) /\ TaskBody(r)

VARIABLES
    grants,    \* the table directory_grants
    profiles,  \* the table agent_profiles
    tasks,     \* the admitted tasks, with the rows that admitted them (history)
    runs       \* history: what execute_task handed to the adapter, for which task

tableVars == <<grants, profiles, tasks, runs>>
vars == <<accessVars, tableVars>>

Init ==
    /\ products = InitialProducts
    /\ tokens = InitialTokens
    /\ grants \in InitialGrants
    /\ profiles \in InitialProfiles
    /\ tasks = <<>>
    /\ runs = {}
    /\ pc = [c \in Call |-> "idle"]
    /\ req = [c \in Call |-> NoRow]
    /\ auth = [c \in Call |-> NoRow]
    /\ local = [c \in Call |-> NoLocals]
    /\ barred = [c \in Call |-> FALSE]

(* A handler at this statement, and what no handler of this module changes. *)
At(c, label) ==
    /\ pc[c] = label
    /\ UNCHANGED <<products, tokens, req, auth, barred>>

Refuse(c) == Return(c) /\ UNCHANGED <<local, tableVars>>

(* Check a condition and go on, or return an error. *)
Check(c, ok, label) ==
    IF ok THEN Goto(c, label) /\ UNCHANGED <<local, tableVars>> ELSE Refuse(c)

-----------------------------------------------------------------------------
(* Directory grants. *)

(* directories::create, up to the store: the agent must belong to the product
   and allow the default mode asked for. *)
CreateGrant(c) ==
    LET input == req[c].input
        mode == OrElse(input.default_workspace_mode, "worktree")
    IN  /\ At(c, "create_grant")
        /\ Check(c,
                 /\ HasScopes(c, {"directories:grant"})
                 /\ IsProduct(c, input.product)
                 /\ UsesDirect(input) => HasScopes(c, {"directories:direct"})
                 /\ profiles[input.agent] # NoRow
                 /\ AgentAuthorizes(profiles[input.agent], input.product, mode),
                 "insert_grant")

NextGrantId ==
    LET used == {i \in GrantId : grants[i] # NoRow}
    IN  IF used = {} THEN 1 ELSE 1 + CHOOSE i \in used : \A j \in used : j <= i

(* DirectoryGrantStore::create *)
InsertGrant(c) ==
    LET input == req[c].input
    IN  /\ At(c, "insert_grant")
        /\ IF /\ input.path \in Directory
              /\ CreateAccepted(input, input.path \in GitDirectory)
           THEN /\ NextGrantId \in GrantId
                /\ grants' = [grants EXCEPT ![NextGrantId] =
                                 [product |-> input.product, agent |-> input.agent,
                                  path |-> input.path, policy |-> PolicyFromCreate(input)]]
                /\ Return(c)
                /\ UNCHANGED <<local, profiles, tasks, runs>>
           ELSE Refuse(c)

(* directories::patch and directories::delete both look at the grant first. *)
OwnsGrant(c) ==
    /\ HasScopes(c, {"directories:grant"})
    /\ grants[req[c].grant] # NoRow
    /\ IsProduct(c, grants[req[c].grant].product)

PatchGrant(c) ==
    /\ At(c, "patch_grant")
    /\ Check(c, OwnsGrant(c) /\ (UsesDirect(req[c].patch) => HasScopes(c, {"directories:direct"})),
             "merge_grant")

(* DirectoryGrantStore::patch reads the row again, merges and validates... *)
MergeGrant(c) ==
    /\ At(c, "merge_grant")
    /\ IF /\ ~EmptyPatch(req[c].patch)
          /\ grants[req[c].grant] # NoRow
          /\ ValidPolicy(MergePolicy(req[c].patch, grants[req[c].grant].policy))
       THEN /\ Remember(c, "grant", grants[req[c].grant])
            /\ Goto(c, "update_grant")
            /\ UNCHANGED tableVars
       ELSE Refuse(c)

(* Mutant: the patch is merged again with the row it finds. *)
UpdateGrant_PatchedColumns(c) ==
    /\ At(c, "update_grant")
    /\ grants' = IF grants[req[c].grant] = NoRow THEN grants
                 ELSE [grants EXCEPT ![req[c].grant].policy = MergePolicy(req[c].patch, @)]
    /\ Return(c)
    /\ UNCHANGED <<local, profiles, tasks, runs>>

(* Mutant: the UPDATE writes the whole row that was read. *)
UpdateGrant_WholeRow(c) ==
    /\ At(c, "update_grant")
    /\ grants' = IF grants[req[c].grant] = NoRow THEN grants
                 ELSE [grants EXCEPT ![req[c].grant] =
                          [local[c].grant EXCEPT !.policy = MergePolicy(req[c].patch, @)]]
    /\ Return(c)
    /\ UNCHANGED <<local, profiles, tasks, runs>>

(* ... and in a later transaction UPDATEs all policy columns of whatever row
   has the id by then. *)
UpdateGrant(c) ==
    /\ At(c, "update_grant")
    /\ grants' = IF grants[req[c].grant] = NoRow THEN grants
                 ELSE [grants EXCEPT ![req[c].grant].policy =
                          MergePolicy(req[c].patch, local[c].grant.policy)]
    /\ Return(c)
    /\ UNCHANGED <<local, profiles, tasks, runs>>

DeleteGrant(c) ==
    /\ At(c, "delete_grant")
    /\ Check(c, OwnsGrant(c), "remove_grant")

RemoveGrant(c) ==
    /\ At(c, "remove_grant")
    /\ grants' = [grants EXCEPT ![req[c].grant] = NoRow]
    /\ Return(c)
    /\ UNCHANGED <<local, profiles, tasks, runs>>

-----------------------------------------------------------------------------
(* Agent profiles. *)

(* agents::create: validated against the registry, then inserted; the id is
   the primary key. *)
CreateProfile(c) ==
    LET input == req[c].input
    IN  /\ At(c, "create_profile")
        /\ Check(c,
                 /\ HasScopes(c, {"agents:write"})
                 /\ IsProduct(c, input.owner)
                 /\ input.well_formed
                 /\ ValidAgainstRegistry(ProfileOf(input)),
                 "insert_profile")

InsertProfile(c) ==
    /\ At(c, "insert_profile")
    /\ IF profiles[req[c].agent] = NoRow
       THEN /\ profiles' = [profiles EXCEPT ![req[c].agent] = ProfileOf(req[c].input)]
            /\ Return(c)
            /\ UNCHANGED <<local, grants, tasks, runs>>
       ELSE Refuse(c)

OwnsProfile(c) ==
    /\ HasScopes(c, {"agents:write"})
    /\ profiles[req[c].agent] # NoRow
    /\ IsProduct(c, profiles[req[c].agent].owner)

(* Mutant: the merged profile is not validated. *)
PatchProfile_Unchecked(c) ==
    /\ At(c, "patch_profile")
    /\ Check(c, OwnsProfile(c) /\ req[c].well_formed, "merge_profile")

(* agents::patch validates the merged profile against the registry... *)
PatchProfile(c) ==
    /\ At(c, "patch_profile")
    /\ Check(c,
             /\ OwnsProfile(c)
             /\ req[c].well_formed
             /\ ValidAgainstRegistry(MergeProfile(req[c].patch, profiles[req[c].agent])),
             "merge_profile")

(* ... AgentProfileStore::patch merges it again, with the row as it is by
   then, and validates it without the registry... *)
MergeProfileAgain(c) ==
    /\ At(c, "merge_profile")
    /\ IF /\ ~EmptyPatch(req[c].patch)
          /\ profiles[req[c].agent] # NoRow
          /\ ValidProfile(MergeProfile(req[c].patch, profiles[req[c].agent]))
       THEN /\ Remember(c, "profile", profiles[req[c].agent])
            /\ Goto(c, "update_profile")
            /\ UNCHANGED tableVars
       ELSE Refuse(c)

(* ... and writes all columns but the owner. *)
UpdateProfile(c) ==
    /\ At(c, "update_profile")
    /\ profiles' = IF profiles[req[c].agent] = NoRow THEN profiles
                   ELSE [profiles EXCEPT ![req[c].agent] =
                            [MergeProfile(req[c].patch, local[c].profile)
                                EXCEPT !.owner = profiles[req[c].agent].owner]]
    /\ Return(c)
    /\ UNCHANGED <<local, grants, tasks, runs>>

DeleteProfile(c) ==
    /\ At(c, "delete_profile")
    /\ Check(c, OwnsProfile(c), "remove_profile")

RemoveProfile(c) ==
    /\ At(c, "remove_profile")
    /\ profiles' = [profiles EXCEPT ![req[c].agent] = NoRow]
    /\ Return(c)
    /\ UNCHANGED <<local, grants, tasks, runs>>

-----------------------------------------------------------------------------
(* Admission of a task. *)

(* requests_remote_execution: asked of the provider the request names, if it
   names one. *)
RequestsRemote(input) == input.provider \in HttpProvider

(* tasks::create and the first read of enqueue_task: the grant picks the
   workspace mode. *)
CreateTask(c) ==
    LET input == req[c].input
        grant == grants[input.directory]
        mode == SelectWorkspaceMode(input.workspace_mode, grant.policy)
    IN  /\ At(c, "create_task")
        /\ IF /\ HasScopes(c, {"tasks:create"})
              /\ IsProduct(c, input.product)
              /\ RequestsRemote(input) => HasScopes(c, {"tasks:remote_execution"})
              /\ input.well_formed /\ input.capabilities # {}
              /\ grant # NoRow
              /\ ModeAllowed(grant.policy, mode, input.opt_in)
           THEN /\ local' = [local EXCEPT ![c].grant = grant, ![c].mode = mode]
                /\ Goto(c, "task_profile")
                /\ UNCHANGED tableVars
           ELSE Refuse(c)

(* The profile is read; the capabilities are compared with the first grant. *)
TaskProfile(c) ==
    LET input == req[c].input
        profile == profiles[input.agent]
    IN  /\ At(c, "task_profile")
        /\ IF /\ profile # NoRow
              /\ profile.owner = input.product
              /\ OverridesAgree(input, profile)
              /\ local[c].mode = "direct" => profile.execution_policy.allow_direct
              /\ input.capabilities \subseteq local[c].grant.policy.capabilities
           THEN /\ Remember(c, "profile", profile)
                /\ Goto(c, "task_authorize")
                /\ UNCHANGED tableVars
           ELSE Refuse(c)

(* DirectoryGrantStore::authorize reads the grant a second time. *)
TaskAuthorize(c) ==
    LET input == req[c].input
        grant == grants[input.directory]
    IN  /\ At(c, "task_authorize")
        /\ IF /\ grant # NoRow
              /\ Authorizes(grant, input.product, input.agent, input.capabilities,
                            local[c].mode, input.opt_in, RequestsRemote(input))
           THEN /\ Remember(c, "grant", grant)
                /\ Goto(c, "insert_task")
                /\ UNCHANGED tableVars
           ELSE Refuse(c)

(* TaskStore::create: the profile's provider, model and permission mode and
   the mode chosen are part of the task. *)
InsertTask(c) ==
    /\ At(c, "insert_task")
    /\ Len(tasks) < MaxTasks
    /\ tasks' = Append(tasks, [input |-> req[c].input, mode |-> local[c].mode,
                               provider |-> local[c].profile.provider,
                               model |-> local[c].profile.model,
                               grant |-> local[c].grant, profile |-> local[c].profile,
                               remote_scope |-> HasScopes(c, {"tasks:remote_execution"})])
    /\ Return(c)
    /\ UNCHANGED <<local, grants, profiles, runs>>

-----------------------------------------------------------------------------
(* The rows an execution reads.  execute_task is called inside the daemon: it
   is not authenticated. *)

StartExecution(c) ==
    /\ pc[c] = "idle"
    /\ \E i \in DOMAIN tasks :
          LET profile == profiles[tasks[i].input.agent]
          IN  /\ req' = [req EXCEPT ![c] = [op |-> "execute", task |-> i]]
              /\ IF profile # NoRow /\ profile.provider \in DOMAIN Supported
                 THEN Remember(c, "profile", profile) /\ Goto(c, "execute")
                 ELSE Return(c) /\ UNCHANGED local
    /\ UNCHANGED <<products, tokens, auth, barred, tableVars>>

(* execute_task's own read of the grant, then the one of prepare_workspace,
   whose path is the working directory of a direct run. *)
ExecuteGrant(c) ==
    LET grant == grants[tasks[req[c].task].input.directory]
    IN  /\ At(c, "execute")
        /\ IF grant # NoRow
           THEN Remember(c, "grant", grant) /\ Goto(c, "workspace") /\ UNCHANGED tableVars
           ELSE Refuse(c)

ExecuteRun(c) ==
    LET task == tasks[req[c].task]
        grant == grants[task.input.directory]
    IN  /\ At(c, "workspace")
        /\ IF grant # NoRow
           THEN /\ runs' = runs \cup
                       {[task |-> req[c].task, profile |-> local[c].profile,
                         grant |-> local[c].grant, workspace |-> grant]}
                /\ Return(c)
                /\ UNCHANGED <<local, grants, profiles, tasks>>
           ELSE Refuse(c)

-----------------------------------------------------------------------------

GrantNext(c) ==
    \/ CreateGrant(c) \/ InsertGrant(c)
    \/ PatchGrant(c) \/ MergeGrant(c) \/ UpdateGrant(c)
    \/ DeleteGrant(c) \/ RemoveGrant(c)

ProfileNext(c) ==
    \/ CreateProfile(c) \/ InsertProfile(c)
    \/ PatchProfile(c) \/ MergeProfileAgain(c) \/ UpdateProfile(c)
    \/ DeleteProfile(c) \/ RemoveProfile(c)

TaskNext(c) ==
    \/ CreateTask(c) \/ TaskProfile(c) \/ TaskAuthorize(c) \/ InsertTask(c)
    \/ StartExecution(c) \/ ExecuteGrant(c) \/ ExecuteRun(c)

Next ==
    \/ AccessNext /\ UNCHANGED tableVars
    \/ \E c \in Call : GrantNext(c) \/ ProfileNext(c) \/ TaskNext(c)

Spec == Init /\ [][Next]_vars
-----------------------------------------------------------------------------

Locals == [product : Row(ProductRow), token : Row(TokenRow), grant : Row(Grant),
           profile : Row(Profile), mode : Row(WorkspaceMode)]

AuthContext == {Bootstrap} \cup [product : Product, scopes : SUBSET Scope]

TypeOK ==
    /\ products \in [Product -> Row(ProductRow)]
    /\ tokens \in [Token -> Row(TokenRow)]
    /\ grants \in [GrantId -> Row(Grant)]
    /\ profiles \in [Agent -> Row(Profile)]
    /\ local \in [Call -> Locals]
    /\ auth \in [Call -> Row(AuthContext)]

(* However patches, deletions and creations interleave, every stored grant
   satisfies DirectoryGrantPolicy::validate and every stored profile
   ExecutionPolicy::validate: a patch writes back all the columns it validated
   (DirectoryGrantStore::patch, AgentProfileStore::patch). *)
StoredRowsAreValid ==
    /\ \A i \in GrantId : grants[i] # NoRow => ValidPolicy(grants[i].policy)
    /\ \A a \in Agent : profiles[a] # NoRow => ValidProfile(profiles[a])

(* Two patches that race may leave a provider with the other's model, never a
   provider the registry does not have (agents::patch checks the registry on
   a row that is merged a second time). *)
ProvidersAreKnown ==
    \A a \in Agent : profiles[a] # NoRow => profiles[a].provider \in DOMAIN Supported

(* A task that will run on a remote HTTP provider was authorized for that: its
   token held tasks:remote_execution and the grant that was read last allows
   remote execution, although the provider comes from a profile that is patched
   meanwhile and the grant is read twice (requests_remote_execution,
   map_override_error, DirectoryGrantStore::authorize).  Of a request that names
   no provider this is not so: it takes the provider of the profile and asks for
   neither, against "any missing policy gate must fail closed"
   (docs/tasks/phase-10-control-plane.md). *)
RemoteIsGated ==
    \A i \in DOMAIN tasks :
        LET t == tasks[i] IN
        t.provider \in HttpProvider =>
            t.input.provider = Unset \/ (t.grant.policy.allow_remote /\ t.remote_scope)

(* No step hands a grant or a profile to another product or directory: that
   takes a deletion first, even when a patch that read the row before its
   deletion writes to the row that took over its id (the UPDATEs of
   DirectoryGrantStore::patch and AgentProfileStore::patch). *)
OwnerNeverChanges ==
    [][/\ \A i \in GrantId : grants[i] # NoRow /\ grants'[i] # NoRow =>
              /\ grants'[i].product = grants[i].product
              /\ grants'[i].agent = grants[i].agent
              /\ grants'[i].path = grants[i].path
       /\ \A a \in Agent : profiles[a] # NoRow /\ profiles'[a] # NoRow =>
              profiles'[a].owner = profiles[a].owner]_vars

(* A task runs in a directory that was granted to its own product.  The code
   does not keep to this: the grant is looked up by an id that may have been
   given again (execute_task, prepare_workspace). *)
RunsUnderOwnGrant ==
    \A r \in runs : r.workspace.product = tasks[r.task].input.product

=============================================================================
