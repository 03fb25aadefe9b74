CONSTANTS
    TaskLists = {l1}
    Titles = {t1, t2}
    People = {alice, bob}
    GroupOf <- MCGroupOf
    Admin = admin
    Assignments <- MCAssignments
    MaxTasks = 3
    MaxMessages = 2
SPECIFICATION Spec
SYMMETRY Symmetry
INVARIANTS
    TypeOK
PROPERTIES
    MarksByRight
    NumbersShiftOnlyByDeletion
    NoIdleSummary
    RepliesOnlyMark
