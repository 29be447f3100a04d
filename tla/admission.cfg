SPECIFICATION Spec
CONSTANTS
    Unset = Unset
    NoRow = NoRow
    Bootstrap = Bootstrap
    p1 = p1
    p2 = p2
    p3 = p3
    a1 = a1
    a2 = a2
    k1 = k1
    k2 = k2
    k3 = k3
    k4 = k4
    git = git
    plain = plain
    nowhere = nowhere
    Product = {p1, p2, p3}
    Agent = {a1, a2}
    Provider = {"cli", "web", "none"}
    Model = {"m", "n"}
    PermissionMode = {"provider_default", "ask"}
    ProviderDefault = "provider_default"
    Supported <- Registry
    PermissionModes <- Modes
    HttpProvider = {"web"}
    Call = {c1, c2, c3}
    Token = {k1, k2, k3, k4}
    Scope <- AllScopes
    Request <- AllRequests
    Directory = {git, plain}
    GitDirectory = {git}
    MaxGrant = 4
    MaxTasks = 3
    InitialProducts <- TwoProducts
    InitialTokens <- ThreeTokens
    InitialProfiles <- TwoProfiles
    InitialGrants <- OneGrant
SYMMETRY Symmetry
CHECK_DEADLOCK FALSE
INVARIANTS
    TypeOK
    StoredRowsAreValid
    ProvidersAreKnown
    
    RevokedTokenIsBarred
PROPERTIES
    OwnerNeverChanges
