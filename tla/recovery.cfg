SPECIFICATION Spec
CONSTANTS
    Delivery <- Deliveries
    Scope <- Scopes
    Route <- Routes
    Order <- Places
    Provider <- Providers
    Grant <- Grants
    Initial = "sol"
    Settings <- SomeSettings
INVARIANTS
    TypeOK
    OneCaller
    WithinBudget
    ProposalsPass
    VerifiedByEvidence
    WalkInOrder
PROPERTIES
    Concludes
CHECK_DEADLOCK FALSE
