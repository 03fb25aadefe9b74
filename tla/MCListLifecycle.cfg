CONSTANTS
    Names = {n1, n2}
    Groups = {g1}
    Admins = {a1}
    Chat = chat
    Web = {web1}
    MayLoseNotice = TRUE
    MaxLists = 2
    MaxMessages = 1
    MaxInbox = 1
SPECIFICATION Spec
SYMMETRY Symmetry
INVARIANTS
    TypeOK
    NamesUnique
    RepliesReachTheirList
PROPERTIES
    StopIsFinalOnceSettled
    NoticeStopsLists
    ListsGoThroughStages
