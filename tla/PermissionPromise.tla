------------------------- MODULE PermissionPromise -------------------------
(***************************************************************************)
(* What the permission bridge promises a provider and a product: a request *)
(* is decided at most once, for good, and the provider is told that        *)
(* decision, once, and never anything else.  RuntimeSession.tla is shown   *)
(* to implement this.                                                      *)
(***************************************************************************)
CONSTANT Request

VARIABLES
    decision,  \* "absent", then "pending", then the decision
    answer     \* what the provider was told, "none" before

promiseVars == <<decision, answer>>

Decision == {"approve", "deny"}

Init ==
    /\ decision = [r \in Request |-> "absent"]
    /\ answer = [r \in Request |-> "none"]

Ask(r) ==
    /\ decision[r] = "absent"
    /\ decision' = [decision EXCEPT ![r] = "pending"]
    /\ UNCHANGED answer

Decide(r, d) ==
    /\ decision[r] = "pending"
    /\ decision' = [decision EXCEPT ![r] = d]
    /\ UNCHANGED answer

Answer(r) ==
    /\ decision[r] \in Decision
    /\ answer[r] = "none"
    /\ answer' = [answer EXCEPT ![r] = decision[r]]
    /\ UNCHANGED decision

Next ==
    \E r \in Request :
        \/ Ask(r) \/ Answer(r)
        \/ \E d \in Decision : Decide(r, d)

Spec == Init /\ [][Next]_promiseVars

(* The provider hears the stored decision or nothing. *)
AnswersAgree == \A r \in Request : answer[r] \in {"none", decision[r]}

=============================================================================
