\* Two calls at a time, a bootstrap and a product credential, and a provider with
\* a version command whose manifest comes and goes.
SPECIFICATION Spec
CONSTANTS
    k1 = k1
    k2 = k2
    boot = boot
    product = product
    Detector = {k1, k2}
    Credential = {boot, product}
    Bootstrap = {boot}
    Provider <- MCProvider
    Registries <- MCRegistries
    Kind <- MCKind
    Versioned = {"claude"}
INVARIANTS
    RefreshIsWhole
    SignedOutLeavesNoToken
    AnswerIsComplete
PROPERTIES
    LoadingEnds
