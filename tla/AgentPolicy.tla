---------------------------- MODULE AgentPolicy ----------------------------
(***************************************************************************)
(* The rules of agent profiles (agent/profile.rs and the pure parts of     *)
(* store/agent_profiles.rs): validation alone and against the provider     *)
(* registry, the merge of a patch, and authorization.  The checks of       *)
(* strings (ids, names, instructions, custom arguments, environment keys)  *)
(* are one Boolean of the request, well_formed.                            *)
(***************************************************************************)
EXTENDS DirectoryPolicy

CONSTANTS
    Product, Agent,     \* ids of products and of agent profiles
    Provider, Model, PermissionMode,
    Supported,          \* the registry: models each provider's manifest supports
    PermissionModes,    \* ... and the permission modes it lists
    HttpProvider        \* ... and the providers of integration type http

CONSTANT ProviderDefault    \* permission_mode "provider_default"

ASSUME RegistryAssumption ==
    /\ DOMAIN Supported \subseteq Provider
    /\ DOMAIN PermissionModes = DOMAIN Supported
    /\ HttpProvider \subseteq DOMAIN Supported
    /\ ProviderDefault \in PermissionMode

ExecutionPolicy == [default_workspace_mode : WorkspaceMode,
                    allow_direct : BOOLEAN]

Profile == [owner : Product, provider : Provider, model : Model,
            execution_policy : ExecutionPolicy, permission_mode : PermissionMode]

(* CreateAgentProfile::validate, without its checks of strings. *)
ValidProfile(p) ==
    p.execution_policy.default_workspace_mode = "direct" => p.execution_policy.allow_direct

(* CreateAgentProfile::validate_against_registry *)
ValidAgainstRegistry(p) ==
    /\ ValidProfile(p)
    /\ p.provider \in DOMAIN Supported
    /\ p.model \in Supported[p.provider]
    /\ \/ p.permission_mode = ProviderDefault
       \/ p.permission_mode \in PermissionModes[p.provider]

ProfileOf(input) ==
    [owner |-> input.owner, provider |-> input.provider, model |-> input.model,
     execution_policy |-> input.execution_policy,
     permission_mode |-> input.permission_mode]

(* The same merge in the patch handler and in AgentProfileStore::patch. *)
MergeProfile(patch, p) ==
    [owner |-> p.owner,
     provider |-> OrElse(patch.provider, p.provider),
     model |-> OrElse(patch.model, p.model),
     execution_policy |-> OrElse(patch.execution_policy, p.execution_policy),
     permission_mode |-> OrElse(patch.permission_mode, p.permission_mode)]

(* AgentProfileStore::authorize, as the creation of a grant calls it: without
   overrides. *)
AgentAuthorizes(p, product, mode) ==
    /\ p.owner = product
    /\ mode = "direct" => p.execution_policy.allow_direct

(* Mutant: the provider a task names is not compared with the profile's. *)
OverridesAgree_AnyProvider(input, p) ==
    /\ input.model \in {Unset, p.model}
    /\ input.permission_mode \in {Unset, p.permission_mode}

(* map_override_error, for the three fields a task may repeat. *)
OverridesAgree(input, p) ==
    /\ input.provider \in {Unset, p.provider}
    /\ input.model \in {Unset, p.model}
    /\ input.permission_mode \in {Unset, p.permission_mode}

=============================================================================
