--------------------------- MODULE ProductAccess ---------------------------
(***************************************************************************)
(* Products, their tokens and the authentication of API calls              *)
(* (product/mod.rs, store/products.rs, api/products.rs, api/auth.rs).      *)
(*                                                                         *)
(* A call arrives with a request, is authenticated by its bearer token,    *)
(* and goes on at the handler of its operation, pc[c]; calls interleave    *)
(* wherever the code goes back to SQLite, which it opens anew each time.   *)
(* The handlers of the bootstrap routes are here, those of the products'   *)
(* own routes in Admission.                                                *)
(***************************************************************************)
EXTENDS AgentPolicy, FiniteSets

CONSTANTS
    Call,         \* bound: API calls, each made once
    Token,        \* secrets that are or may be issued
    Scope,        \* ApiScope
    Request,      \* the requests calls may make
    NoRow,        \* no row in a table, no local value
    Bootstrap     \* the daemon's bootstrap token, and AuthContext::Bootstrap

ProductStatus == {"active", "disabled"}

ProductRow == [name : STRING, status : ProductStatus]

TokenRow == [product : Product, scopes : SUBSET Scope, used : BOOLEAN, revoked : BOOLEAN]

BootstrapOperation == {"create_product", "patch_product", "create_token", "revoke_token"}

(* A row is a row, and the bootstrap token is no product's token. *)
ASSUME AccessAssumption ==
    /\ NoRow \notin TokenRow
    /\ Bootstrap \notin Token

(* The request of a bootstrap route, as its path and body are deserialized. *)
ProductBody(r) ==
    /\ r.op \in BootstrapOperation => r.product \in Product
    /\ r.op = "create_product" => r.name \in STRING
    /\ r.op = "patch_product" =>
           /\ r.patch.name \in {Unset} \cup STRING
           /\ r.patch.status \in {Unset} \cup ProductStatus
    /\ r.op = "create_token" => r.scopes \subseteq Scope
    /\ r.op = "revoke_token" => r.revoke \in Token

VARIABLES
    products,   \* the table products
    tokens,     \* the table product_tokens, by secret
    pc,         \* the next statement of each call
    req,        \* its request
    auth,       \* its AuthContext, once it is authenticated
    local,      \* the rows it has read
    barred      \* history: its token was revoked before it arrived

accessVars == <<products, tokens, pc, req, auth, local, barred>>

NoLocals == [product |-> NoRow, token |-> NoRow, grant |-> NoRow,
             profile |-> NoRow, mode |-> NoRow]

Goto(c, label) == pc' = [pc EXCEPT ![c] = label]

(* The call returns, with a value or an error. *)
Return(c) == Goto(c, "done")

Remember(c, field, row) == local' = [local EXCEPT ![c][field] = row]

-----------------------------------------------------------------------------
(* Authentication. *)

TokenIsRevoked(t) == t \in Token /\ tokens[t] # NoRow /\ tokens[t].revoked

Arrive(c, r) ==
    /\ pc[c] = "idle"
    /\ req' = [req EXCEPT ![c] = r]
    /\ barred' = [barred EXCEPT ![c] = TokenIsRevoked(r.token)]
    /\ Goto(c, "authenticate")
    /\ UNCHANGED <<products, tokens, auth, local>>

(* The SELECT of authenticate_product_token: the row with this secret's digest
   that is not revoked. *)
FindToken(t) ==
    IF t \in Token /\ tokens[t] # NoRow /\ ~tokens[t].revoked THEN tokens[t] ELSE NoRow

(* ... of a product that is not disabled. *)
MayEnter(row) == row # NoRow /\ products[row.product].status = "active"

(* authenticate_request: no token, an unknown or revoked one, and one of a
   disabled product are refused; so is the bootstrap token on a product's
   route.  A token of a product goes on to touch_last_used. *)
Authenticate(c) ==
    LET row == FindToken(req[c].token)
    IN  /\ pc[c] = "authenticate"
        /\ \/ /\ req[c].token = Bootstrap
              /\ auth' = [auth EXCEPT ![c] = Bootstrap]
              /\ IF req[c].op \in BootstrapOperation THEN Goto(c, req[c].op) ELSE Return(c)
              /\ UNCHANGED local
           \/ /\ req[c].token # Bootstrap
              /\ MayEnter(row)
              /\ auth' = [auth EXCEPT ![c] = [product |-> row.product, scopes |-> row.scopes]]
              /\ Remember(c, "token", row)
              /\ Goto(c, "touch")
           \/ /\ req[c].token # Bootstrap
              /\ ~MayEnter(row)
              /\ Return(c)
              /\ UNCHANGED <<auth, local>>
        /\ UNCHANGED <<products, tokens, req, barred>>

(* Mutant: the whole row that was read is written back. *)
Touch_WritesRow(c) ==
    /\ pc[c] = "touch"
    /\ tokens' = [tokens EXCEPT ![req[c].token] = [local[c].token EXCEPT !.used = TRUE]]
    /\ IF req[c].op \in BootstrapOperation THEN Return(c) ELSE Goto(c, req[c].op)
    /\ UNCHANGED <<products, req, auth, local, barred>>

(* touch_last_used, an UPDATE of one column; then the extractor refuses a
   product's token on a bootstrap route. *)
Touch(c) ==
    /\ pc[c] = "touch"
    /\ tokens' = [tokens EXCEPT ![req[c].token].used = TRUE]
    /\ IF req[c].op \in BootstrapOperation THEN Return(c) ELSE Goto(c, req[c].op)
    /\ UNCHANGED <<products, req, auth, local, barred>>

(* ProductAuth::require_scopes and ensure_product. *)
HasScopes(c, scopes) == scopes \subseteq auth[c].scopes

IsProduct(c, product) == auth[c].product = product

-----------------------------------------------------------------------------
(* The bootstrap routes. *)

(* ProductStore::create_product: the id is the primary key. *)
CreateProduct(c) ==
    /\ pc[c] = "create_product"
    /\ \/ /\ req[c].well_formed
          /\ products[req[c].product] = NoRow
          /\ products' = [products EXCEPT ![req[c].product] =
                             [name |-> req[c].name, status |-> "active"]]
       \/ /\ ~req[c].well_formed \/ products[req[c].product] # NoRow
          /\ UNCHANGED products
    /\ Return(c)
    /\ UNCHANGED <<tokens, req, auth, local, barred>>

(* patch_product reads the product ... *)
PatchProduct(c) ==
    /\ pc[c] = "patch_product"
    /\ \/ /\ ~EmptyPatch(req[c].patch)
          /\ products[req[c].product] # NoRow
          /\ Remember(c, "product", products[req[c].product])
          /\ Goto(c, "update_product")
       \/ /\ EmptyPatch(req[c].patch) \/ products[req[c].product] = NoRow
          /\ Return(c)
          /\ UNCHANGED local
    /\ UNCHANGED <<products, tokens, req, auth, barred>>

(* ... and writes what it read, with the patch merged in, in a later
   transaction. *)
UpdateProduct(c) ==
    /\ pc[c] = "update_product"
    /\ products' = [products EXCEPT ![req[c].product] =
                       [name |-> OrElse(req[c].patch.name, local[c].product.name),
                        status |-> OrElse(req[c].patch.status, local[c].product.status)]]
    /\ Return(c)
    /\ UNCHANGED <<tokens, req, auth, local, barred>>

(* create_token: a fresh secret, for a product of any status. *)
CreateToken(c) ==
    /\ pc[c] = "create_token"
    /\ \/ /\ products[req[c].product] # NoRow
          /\ req[c].scopes # {}
          /\ \E t \in Token :
                /\ tokens[t] = NoRow
                /\ tokens' = [tokens EXCEPT ![t] =
                                 [product |-> req[c].product, scopes |-> req[c].scopes,
                                  used |-> FALSE, revoked |-> FALSE]]
       \/ /\ products[req[c].product] = NoRow \/ req[c].scopes = {}
          /\ UNCHANGED tokens
    /\ Return(c)
    /\ UNCHANGED <<products, req, auth, local, barred>>

(* revoke_token: the row of this product and token, if there is one. *)
RevokeToken(c) ==
    /\ pc[c] = "revoke_token"
    /\ LET t == req[c].revoke
       IN  tokens' = IF tokens[t] # NoRow /\ tokens[t].product = req[c].product
                     THEN [tokens EXCEPT ![t].revoked = TRUE] ELSE tokens
    /\ Return(c)
    /\ UNCHANGED <<products, req, auth, local, barred>>

AccessNext ==
    \E c \in Call :
        \/ \E r \in Request : Arrive(c, r)
        \/ Authenticate(c) \/ Touch(c)
        \/ CreateProduct(c) \/ PatchProduct(c) \/ UpdateProduct(c)
        \/ CreateToken(c) \/ RevokeToken(c)

-----------------------------------------------------------------------------

(* Revoking a token is final and takes effect at once: no later call is
   authenticated with it, whatever else is done to its row meanwhile
   (authenticate_product_token, touch_last_used, revoke_token). *)
RevokedTokenIsBarred == \A c \in Call : barred[c] => auth[c] = NoRow

=============================================================================
