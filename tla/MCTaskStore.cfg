CONSTANTS
    TaskLists = {l1, l2}
    Titles = {t1, t2, t3}
    alice = alice
    People = {alice}
    Handlers = {h1, h2}
    GroupOf <- MCGroupOf
    Assignments <- MCAssignments
    MaxBatch = 2
    MaxTasks = 3
SPECIFICATION Spec
SYMMETRY Symmetry
INVARIANTS
    TypeOK
    PositionsDense
    CreationOrder
    TitlesUnique
    NoOrphanTasks
PROPERTIES
    BatchAllOrNothing
    EditStaysOnItsTask
    ListsAreSequences
