CONSTANTS
    Names = {n1}
    Groups = {g1}
    Admins = {a1}
    Chat = chat
    Web = {web1}
    MayLoseNotice = FALSE
    MaxLists = 2
    MaxMessages = 1
    MaxInbox = 1
SPECIFICATION Spec
PROPERTIES
    StopIsFinal
