---------------------------- MODULE MCAdmission ----------------------------
(* Values for the constants of Admission: two products with a token each and
   one token without the scopes for direct mode and remote execution; one grant
   and two profiles at the start; and requests that meet at the same rows. *)
EXTENDS Admission, TLC

CONSTANTS p1, p2, p3, a1, a2, k1, k2, k3, k4, git, plain, nowhere

Registry == ("cli" :> {"m", "n"} @@ "web" :> {"m"})
Modes == ("cli" :> {"ask"} @@ "web" :> {})

AllScopes == {"directories:grant", "directories:direct", "agents:write",
              "tasks:create", "tasks:remote_execution"}

TwoProducts ==
    [p \in Product |-> IF p = p3 THEN NoRow ELSE [name |-> "old", status |-> "active"]]

Issued(p, scopes) == [product |-> p, scopes |-> scopes, used |-> FALSE, revoked |-> FALSE]

ThreeTokens == k1 :> Issued(p1, AllScopes) @@ k2 :> Issued(p2, AllScopes)
               @@ k3 :> Issued(p1, AllScopes \ {"directories:direct", "tasks:remote_execution"})
               @@ k4 :> NoRow

Row1(owner, allowDirect) ==
    [owner |-> owner, provider |-> "cli", model |-> "m", permission_mode |-> "provider_default",
     execution_policy |-> [default_workspace_mode |-> "worktree", allow_direct |-> allowDirect]]

TwoProfiles == {a1 :> Row1(p1, TRUE) @@ a2 :> Row1(p2, FALSE)}

GrantOf(p, a, d, modes) ==
    [product |-> p, agent |-> a, path |-> d,
     policy |-> [capabilities |-> {"read"}, workspace_modes |-> modes,
                 default_workspace_mode |-> "worktree", lock_policy |-> "shared",
                 requires_opt_in |-> TRUE, allow_remote |-> FALSE]]

OneGrant == {[i \in GrantId |-> IF i = 1 THEN GrantOf(p1, a1, git, WorkspaceMode) ELSE NoRow]}

-----------------------------------------------------------------------------
(* Requests. *)

NoPatch == [capabilities |-> Unset, workspace_modes |-> Unset,
            default_workspace_mode |-> Unset, lock_policy |-> Unset,
            requires_opt_in |-> Unset, allow_remote |-> Unset]

NewGrant(p, a, d) ==
    NoPatch @@ [product |-> p, agent |-> a, path |-> d]

CreateGrantRequest(k, input) == [op |-> "create_grant", token |-> k, input |-> input]

PatchGrantRequest(k, patch) == [op |-> "patch_grant", token |-> k, grant |-> 1, patch |-> patch]

GrantRequests ==
    {CreateGrantRequest(k2, [NewGrant(p2, a2, git) EXCEPT !.capabilities = {"read", "write"}]),
     CreateGrantRequest(k1, [NewGrant(p1, a1, plain) EXCEPT
        !.capabilities = {"read"}, !.workspace_modes = <<"worktree", "worktree">>]),
     CreateGrantRequest(k1, [NewGrant(p1, a1, plain) EXCEPT !.capabilities = {"read"}]),
     CreateGrantRequest(k1, [NewGrant(p1, a1, nowhere) EXCEPT !.capabilities = {"read"}]),
     PatchGrantRequest(k1, [NoPatch EXCEPT !.capabilities = {"read", "write"},
                                           !.allow_remote = TRUE]),
     PatchGrantRequest(k1, [NoPatch EXCEPT !.lock_policy = "none"]),
     PatchGrantRequest(k1, [NoPatch EXCEPT !.workspace_modes = <<"worktree">>]),
     PatchGrantRequest(k3, [NoPatch EXCEPT !.default_workspace_mode = "direct"]),
     PatchGrantRequest(k1, NoPatch),
     [op |-> "delete_grant", token |-> k1, grant |-> 1],
     [op |-> "delete_grant", token |-> k2, grant |-> 1]}

NoProfilePatch == [provider |-> Unset, model |-> Unset, execution_policy |-> Unset,
                   permission_mode |-> Unset]

PatchProfileRequest(patch) ==
    [op |-> "patch_profile", token |-> k1, agent |-> a1, well_formed |-> TRUE, patch |-> patch]

ProfileRequests ==
    {[op |-> "create_profile", token |-> k2, agent |-> a1,
      input |-> Row1(p2, TRUE) @@ [well_formed |-> TRUE]],
     PatchProfileRequest([NoProfilePatch EXCEPT !.provider = "web"]),
     PatchProfileRequest([NoProfilePatch EXCEPT !.provider = "none"]),
     PatchProfileRequest([NoProfilePatch EXCEPT !.model = "n"]),
     PatchProfileRequest([NoProfilePatch EXCEPT !.execution_policy =
        [default_workspace_mode |-> "worktree", allow_direct |-> FALSE]]),
     [op |-> "delete_profile", token |-> k1, agent |-> a1]}

NewTask(p, a) ==
    [product |-> p, agent |-> a, directory |-> 1, capabilities |-> {"read"},
     workspace_mode |-> Unset, opt_in |-> FALSE, provider |-> Unset, model |-> Unset,
     permission_mode |-> Unset, well_formed |-> TRUE]

TaskRequest(k, input) == [op |-> "create_task", token |-> k, input |-> input]

TaskRequests ==
    {TaskRequest(k1, NewTask(p1, a1)),
     TaskRequest(k1, [NewTask(p1, a1) EXCEPT !.workspace_mode = "direct", !.opt_in = TRUE]),
     TaskRequest(k1, [NewTask(p1, a1) EXCEPT !.provider = "web"]),
     TaskRequest(k3, [NewTask(p1, a1) EXCEPT !.provider = "web"]),
     TaskRequest(k1, [NewTask(p1, a1) EXCEPT !.provider = "cli"]),
     TaskRequest(k2, NewTask(p2, a2))}

PatchProductRequest(k, name, status) ==
    [op |-> "patch_product", token |-> k, product |-> p1,
     patch |-> [name |-> name, status |-> status]]

ProductRequests ==
    {[op |-> "create_product", token |-> Bootstrap, product |-> p3, name |-> "new",
      well_formed |-> TRUE],
     PatchProductRequest(Bootstrap, "new", Unset),
     PatchProductRequest(Bootstrap, Unset, "disabled"),
     PatchProductRequest(k1, Unset, "disabled"),
     [op |-> "create_token", token |-> Bootstrap, product |-> p1, scopes |-> {"tasks:create"}],
     [op |-> "revoke_token", token |-> Bootstrap, product |-> p1, revoke |-> k1]}

AllRequests == GrantRequests \cup ProfileRequests \cup TaskRequests \cup ProductRequests

(* The last grant is deleted and another product is given a grant. *)
ReuseRequests ==
    {r \in GrantRequests \cup TaskRequests :
        \/ r.op = "delete_grant" /\ r.token = k1
        \/ r.op = "create_grant" /\ r.token = k2
        \/ r.op = "create_task" /\ r.token = k1}

Symmetry == Permutations(Call)

=============================================================================
