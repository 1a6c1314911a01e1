SPECIFICATION Spec
CONSTANTS
    Services = {s, e}
    Ephemeral = {e}
    Untagged = {u}
    Setups <- AllSetups
    None = None
    RetryMaxAttempts = 2
INVARIANTS
    TypeOK
    EnvClear
    LoadsAgree
    CredentialsWhole
    KeyExactlyWhenNeeded
    KeysBounded
PROPERTIES
    ListenEnds
