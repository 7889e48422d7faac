SPECIFICATION Spec
CONSTANTS
    Auths = {a1, a2}
    Handlers = {h1, h2}
    Processes = {p1}
    Calls = {c1, c2}
    Tokens = {t1, t2}
    Scopes = {read, compose}
    BaseScope = read
    None = None
SYMMETRY Symmetry
INVARIANTS
    TypeOK
    CodeExchangedOnce
    ReauthOnlyIfRejected
    ScopesServed
    RetryUsesNewToken
PROPERTY
    RefusedOnlyIfUnusable
CHECK_DEADLOCK FALSE
