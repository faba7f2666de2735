CONSTANTS
    c1 = c1
    p1 = p1
    p2 = p2
    Process = {p1, p2}
    Operation = {quote, news, advice}
    Permitted = {quote, news, advice}
    Data = {quote, news}
    MaxData = 2
    Rate = 2
    KeyCount = 2
    Retries = 1
    LastMinute = 1
    MaxCrashes = 1
    Credential = {c1}
    CredentialOf <- MCCredentialOf
    Reaches <- MCReaches
    Maximum <- MCMaximum
    PerMinute <- MCPerMinute
    ExpiresAt <- MCExpiresAt
SPECIFICATION FairSpec
INVARIANTS
    TypeOK
    RefusedOnce
    CallsArePaid
    DenialIsThePools
PROPERTIES
    KeepsAllowance
    RequestsEnd
CHECK_DEADLOCK FALSE
