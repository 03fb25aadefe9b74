CONSTANTS
    list = list
    u1 = u1
    People = {u1, u2, u3}
    Bot = bot
    PhoneListed = {u1, u2}
    NumberKnown = {bot}
    Lists = {list}
    Tasks = {t1}
    ListOf <- MCListOf
    Owner <- MCOwner
    Events = events
    Web = {web1}
    MaxRows = 2
    MaxMoves = 2
    MaxRestarts = 1
SPECIFICATION FairSpec
INVARIANTS
    TypeOK
    FlagHasReason
    FlagsAreTold
PROPERTIES
    DepartureNoticed
CHECK_DEADLOCK FALSE
