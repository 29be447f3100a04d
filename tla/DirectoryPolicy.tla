-------------------------- MODULE DirectoryPolicy --------------------------
(***************************************************************************)
(* The rules of directory grants: what a policy may be, what creating and  *)
(* patching a grant make of a request, and what a grant authorizes         *)
(* (security/directory.rs and the pure parts of store/directory_grants.rs  *)
(* and scheduler/service.rs).  Lists of capabilities are sets, since the   *)
(* code only normalises them and asks for membership.  Lists of workspace  *)
(* modes in a request stay sequences: the code compares them as lists.     *)
(***************************************************************************)
EXTENDS Naturals, Sequences

CONSTANT Unset    \* None of a request's Option fields

WorkspaceMode == {"worktree", "direct"}
DirectoryCapability == {"read", "write", "shell", "git"}
DirectoryLockPolicy == {"exclusive", "shared", "none"}

Policy == [capabilities : SUBSET DirectoryCapability,
           workspace_modes : SUBSET WorkspaceMode,
           default_workspace_mode : WorkspaceMode,
           lock_policy : DirectoryLockPolicy,
           requires_opt_in : BOOLEAN,
           allow_remote : BOOLEAN]

(* Option::unwrap_or *)
OrElse(value, default) == IF value = Unset THEN default ELSE value

Elements(list) == {list[i] : i \in DOMAIN list}

(* DirectoryGrantPolicy::validate *)
ValidPolicy(p) ==
    /\ p.capabilities # {}
    /\ p.default_workspace_mode \in p.workspace_modes
    /\ "write" \in p.capabilities => p.lock_policy # "none"

(* policy_from_create: what is left out is filled in... *)
PolicyFromCreate(input) ==
    LET modes == OrElse(input.workspace_modes, <<"worktree">>)
    IN  [capabilities |-> input.capabilities,
         workspace_modes |-> Elements(modes),
         default_workspace_mode |->
             OrElse(input.default_workspace_mode,
                    IF "worktree" \in Elements(modes) THEN "worktree" ELSE "direct"),
         lock_policy |->
             OrElse(input.lock_policy,
                    IF "write" \in input.capabilities THEN "exclusive" ELSE "shared"),
         requires_opt_in |-> OrElse(input.requires_opt_in, TRUE),
         allow_remote |-> OrElse(input.allow_remote, FALSE)]

(* ... and a directory that is no git repository takes no grant for worktrees
   alone.  The test is on the list as it was sent. *)
CreateAccepted(input, isGit) ==
    /\ OrElse(input.workspace_modes, <<"worktree">>) = <<"worktree">> => isGit
    /\ ValidPolicy(PolicyFromCreate(input))

(* Mutant: an absent lock policy is written as null. *)
MergePolicy_NullLock(patch, p) ==
    [capabilities |-> OrElse(patch.capabilities, p.capabilities),
     workspace_modes |-> p.workspace_modes,
     default_workspace_mode |-> p.default_workspace_mode,
     lock_policy |-> patch.lock_policy,
     requires_opt_in |-> p.requires_opt_in,
     allow_remote |-> p.allow_remote]

(* DirectoryGrantStore::patch, from the grant it read. *)
MergePolicy(patch, p) ==
    [capabilities |-> OrElse(patch.capabilities, p.capabilities),
     workspace_modes |->
         IF patch.workspace_modes = Unset THEN p.workspace_modes
         ELSE Elements(patch.workspace_modes),
     default_workspace_mode |->
         OrElse(patch.default_workspace_mode, p.default_workspace_mode),
     lock_policy |-> OrElse(patch.lock_policy, p.lock_policy),
     requires_opt_in |-> OrElse(patch.requires_opt_in, p.requires_opt_in),
     allow_remote |-> OrElse(patch.allow_remote, p.allow_remote)]

EmptyPatch(patch) == \A f \in DOMAIN patch : patch[f] = Unset

(* require_direct_scope: the request itself speaks of direct mode. *)
UsesDirect(input) ==
    \/ input.workspace_modes # Unset /\ "direct" \in Elements(input.workspace_modes)
    \/ input.default_workspace_mode = "direct"

(* A mode the policy allows to a task that did, or did not, opt in. *)
ModeAllowed(p, mode, optIn) ==
    /\ mode \in p.workspace_modes
    /\ mode = "direct" /\ p.requires_opt_in => optIn

(* select_workspace_mode: the mode chosen for a task, before it is allowed. *)
SelectWorkspaceMode(requested, p) == OrElse(requested, p.default_workspace_mode)

(* DirectoryGrant::authorize, for a grant that was looked up by its id. *)
Authorizes(grant, product, agent, capabilities, mode, optIn, remote) ==
    /\ grant.product = product
    /\ grant.agent = agent
    /\ capabilities \subseteq grant.policy.capabilities
    /\ ModeAllowed(grant.policy, mode, optIn)
    /\ remote => grant.policy.allow_remote

=============================================================================
