SPECIFICATION Spec
CONSTANTS
    a1 = a1
    a2 = a2
    q1 = q1
    q2 = q2
    Accounts = {a1, a2}
    Admins = {p}
    Browsers = {b}
    Requests = {q1, q2}
    NoSession = NoSession
    Root = Root
    LinkTTL = 0
    Cooldown = 1
    SessionTTL = 0
    MaxTime = 1
    MaxLinks = 3
    MaxRestarts = 1
SYMMETRY Sym
INVARIANTS
    TypeOK
    IdentityProven
    LiveLinksBounded
PROPERTIES
    SingleUse
    SignedOutStaysOut
CHECK_DEADLOCK FALSE
