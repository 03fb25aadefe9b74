---------------------------- MODULE ListLifecycle ----------------------------
(***************************************************************************)
(* The rows of task_lists from creation to deletion, the table wa_groups   *)
(* and the table message_map.  Three kinds of goroutine change them: the   *)
(* one that handles WhatsApp events one after the other (chat commands     *)
(* among them), one per web request, and the one that syncs the groups     *)
(* after a (re)connect.  Each database call and each WhatsApp request is   *)
(* an action of its own.  Of the tasks of a list only `filled' is kept:    *)
(* whether there is any (TaskStore models the tasks).                      *)
(***************************************************************************)
EXTENDS Naturals, FiniteSets, Sequences, FiniteSetsExt, Functions

CONSTANTS
    Names,         \* list names
    Groups,        \* WhatsApp groups
    Admins,        \* users that own lists
    Chat,          \* the goroutine of the event handler
    Web,           \* goroutines of web requests
    MayLoseNotice, \* whether a notice cut short by a crash may not be sent again
    MaxLists,      \* bound: task_lists rows ever inserted
    MaxMessages,   \* bound: summaries ever posted
    MaxInbox       \* bound: group notifications that wait at once

ASSUME ListLifecycleAssumption ==
    /\ Chat \notin Web
    /\ MayLoseNotice \in BOOLEAN
    /\ MaxLists \in Nat /\ MaxMessages \in Nat /\ MaxInbox \in Nat

VARIABLES
    lists,        \* task_lists: a function from the ids in use to rows
    nextList,     \* sqlite_sequence of task_lists
    waGroups,     \* wa_groups: the groups a command can name
    messageMap,   \* message_map: message -> task_list_id
    posted,       \* WhatsApp: the list (by order of creation) of each summary sent
    botIn,        \* WhatsApp: the groups the bot is a participant of
    inbox,        \* WhatsApp: group notifications on their way to the bot
    handler,      \* local variables of the chat and web goroutines
    sync,         \* groups that syncGroups still has to upsert
    revived       \* history: lists that a publish took out of "stopped"

db    == <<lists, nextList, waGroups, messageMap>>
world == <<posted, botIn, inbox>>
vars  == <<lists, nextList, waGroups, messageMap, posted, botIn, inbox, handler, sync, revived>>

Handlers == {Chat} \cup Web

ListIds == 1 .. MaxLists

Open == {"unpublished", "active"}

\* serial is no column: it counts the rows ever inserted.
ListRow == [name : Names, group : Groups, admin : Admins, status : Open \cup {"stopped"},
            filled : BOOLEAN, serial : ListIds]

Notice == [type : {"kick", "joined"}, group : Groups]
              \cup [type : {"left"}, group : Groups, admin : Admins]

Idle == [pc |-> "idle"]

\* What a publish keeps of the db.TaskList it loaded.
Snapshots == [group : Groups, status : Open, serial : ListIds]

Locals ==
    {Idle}
        \cup [pc : {"name", "insert"}, name : Names, group : Groups, admin : Admins]
        \cup [pc : {"count", "activate", "delete", "send"}, list : ListIds, read : Snapshots]
        \cup [pc : {"map"}, list : ListIds, message : 1 .. MaxMessages]
        \cup [pc : {"stop", "unmap", "drop"}, list : ListIds]
        \cup [pc : {"stopping"}, notice : Notice, todo : SUBSET ListIds, from : Nat]

TypeOK ==
    /\ DOMAIN lists \subseteq ListIds
    /\ \A l \in DOMAIN lists : lists[l] \in ListRow
    /\ nextList \in 1 .. MaxLists + 1
    /\ waGroups \subseteq Groups
    /\ DOMAIN messageMap \subseteq DOMAIN posted
    /\ posted \in Seq(ListIds)
    /\ Len(posted) <= MaxMessages
    /\ botIn \subseteq Groups
    /\ inbox \in Seq(Notice)
    /\ handler \in [Handlers -> Locals]
    /\ sync \subseteq Groups
    /\ revived \subseteq ListIds

\* A fresh database, synced once; the bot is in every group.
Init ==
    /\ lists = [l \in {} |-> Idle]
    /\ nextList = 1
    /\ waGroups = Groups
    /\ messageMap = [m \in {} |-> 0]
    /\ posted = <<>>
    /\ botIn = Groups
    /\ inbox = <<>>
    /\ handler = [h \in Handlers |-> Idle]
    /\ sync = {}
    /\ revived = {}

Goto(h, local) == handler' = [handler EXCEPT ![h] = local]

-----------------------------------------------------------------------------
StartCreate(h, name, g, a) ==
    /\ handler[h] = Idle
    /\ Goto(h, [pc |-> "name", name |-> name, group |-> g, admin |-> a])
    /\ UNCHANGED <<db, world, sync, revived>>

\* add-list: resolveGroup reads wa_groups; a membership request that fails is
\* no refusal.
BeginAddList ==
    \E name \in Names, g \in waGroups, a \in Admins : StartCreate(Chat, name, g, a)

\* The web form: wa_groups is not read, but the membership request has to
\* succeed, which it only does for groups the bot is in.
BeginWebCreate(h) ==
    /\ h \in Web
    /\ \E name \in Names, g \in botIn, a \in Admins : StartCreate(h, name, g, a)

NameTaken(name, g) == \E l \in DOMAIN lists : lists[l].name = name /\ lists[l].group = g

\* GetTaskListByNameAndGroup: an existing list ends the handler.
CheckName(h) ==
    /\ handler[h].pc = "name"
    /\ Goto(h, IF NameTaken(handler[h].name, handler[h].group)
               THEN Idle
               ELSE [handler[h] EXCEPT !.pc = "insert"])
    /\ UNCHANGED <<db, world, sync, revived>>

\* Mutant: a plain INTEGER PRIMARY KEY takes the largest id in use plus one.
LargestIdPlusOne == 1 + Max({0} \cup DOMAIN lists)

\* Mutant: the sequence is read before it is advanced past the last id.
LastIdAgain == nextList - 1

\* AUTOINCREMENT
NextListId == nextList

\* The row itself; without UNIQUE(name, group_jid) nothing would stop it.
InsertListRow(name, g, a) ==
    /\ lists' = [l \in DOMAIN lists \cup {NextListId} |->
                    IF l \in DOMAIN lists
                    THEN lists[l]
                    ELSE [name |-> name, group |-> g, admin |-> a, status |-> "unpublished",
                          filled |-> FALSE, serial |-> nextList]]
    /\ nextList' = nextList + 1

\* The INSERT, refused by UNIQUE(name, group_jid).
CreateTaskList(name, g, a) ==
    IF NameTaken(name, g)
    THEN UNCHANGED <<lists, nextList>>
    ELSE InsertListRow(name, g, a)

InsertList(h) ==
    /\ handler[h].pc = "insert"
    /\ nextList <= MaxLists
    /\ CreateTaskList(handler[h].name, handler[h].group, handler[h].admin)
    /\ Goto(h, Idle)
    /\ UNCHANGED <<waGroups, messageMap, world, sync, revived>>

\* add-task, add-tasks or the web's form adds the first task of a list, or the
\* web's delete button removes its last one.
FillOrEmpty(l) ==
    /\ l \in DOMAIN lists
    /\ lists' = [lists EXCEPT ![l].filled = ~ @]
    /\ UNCHANGED <<nextList, waGroups, messageMap, world, handler, sync, revived>>

-----------------------------------------------------------------------------
\* A chat command resolves the group, then finds the list by its name.
ResolvesList(l) == lists[l].group \in waGroups

\* A request of the web finds the list by its id: loadOwnedListPost.
CanLoad(h, l) ==
    /\ handler[h] = Idle
    /\ l \in DOMAIN lists
    /\ h = Chat => ResolvesList(l)

\* A handler that loads a list and goes on with what it read, unless the list
\* was stopped.
LoadOpen(h, pc) ==
    /\ \E l \in DOMAIN lists :
          /\ CanLoad(h, l)
          /\ lists[l].status # "stopped"
          /\ Goto(h, [pc |-> pc, list |-> l,
                      read |-> [group |-> lists[l].group, status |-> lists[l].status,
                                serial |-> lists[l].serial]])
    /\ UNCHANGED <<db, world, sync, revived>>

\* publish-list and handlePublish
BeginPublish(h) == LoadOpen(h, "count")

\* GetTaskCountByList: none (or no such list any more) ends it.
CountTasks(h) ==
    /\ handler[h].pc = "count"
    /\ LET l == handler[h].list
       IN  Goto(h, IF l \in DOMAIN lists /\ lists[l].filled
                   THEN [handler[h] EXCEPT !.pc = "activate"]
                   ELSE Idle)
    /\ UNCHANGED <<db, world, sync, revived>>

BeginDeleteTask == LoadOpen(Chat, "delete")

\* Mutant: the list that is left is posted whatever its status.
PostsAnyList(read) == TRUE

PostsList(read) == read.status = "active"

\* delete-task: no task at the number (or no such list any more) ends it; the
\* list that is left is posted when the status read before was "active".
DeleteTask ==
    /\ handler[Chat].pc = "delete"
    /\ \/ lists' = lists /\ Goto(Chat, Idle)
       \/ LET l == handler[Chat].list
          IN  /\ l \in DOMAIN lists /\ lists[l].filled
              /\ \E more \in BOOLEAN : lists' = [lists EXCEPT ![l].filled = more]
              /\ Goto(Chat, IF PostsList(handler[Chat].read)
                            THEN [handler[Chat] EXCEPT !.pc = "send"]
                            ELSE Idle)
    /\ UNCHANGED <<nextList, waGroups, messageMap, world, sync, revived>>

\* UPDATE ... WHERE id: nothing happens to a list that is gone.
UpdateListStatus(l, s) ==
    lists' = IF l \in DOMAIN lists THEN [lists EXCEPT ![l].status = s] ELSE lists

\* Mutant: the write does not look at the status that was read.
ActivateAlways(h) ==
    /\ handler[h].pc = "activate"
    /\ LET l == handler[h].list
       IN  /\ UpdateListStatus(l, "active")
           /\ revived' = IF l \in DOMAIN lists /\ lists[l].status = "stopped"
                         THEN revived \cup {l}
                         ELSE revived
    /\ Goto(h, [handler[h] EXCEPT !.pc = "send"])
    /\ UNCHANGED <<nextList, waGroups, messageMap, world, sync>>

\* The status that counts is the one read by BeginPublish.
Activate(h) ==
    /\ handler[h].pc = "activate"
    /\ LET l == handler[h].list
       IN  IF handler[h].read.status = "unpublished"
           THEN /\ UpdateListStatus(l, "active")
                /\ revived' = IF l \in DOMAIN lists /\ lists[l].status = "stopped"
                              THEN revived \cup {l}
                              ELSE revived
           ELSE UNCHANGED <<lists, revived>>
    /\ Goto(h, [handler[h] EXCEPT !.pc = "send"])
    /\ UNCHANGED <<nextList, waGroups, messageMap, world, sync>>

\* SendGroupMessage returns an id, or fails and ends the handler.
SendSummary(h) ==
    /\ handler[h].pc = "send"
    /\ \/ /\ handler[h].read.group \in botIn
          /\ Len(posted) < MaxMessages
          /\ posted' = Append(posted, handler[h].read.serial)
          /\ Goto(h, [pc |-> "map", list |-> handler[h].list, message |-> Len(posted) + 1])
       \/ posted' = posted /\ Goto(h, Idle)
    /\ UNCHANGED <<db, botIn, inbox, sync, revived>>

\* SaveMessageMapping: the foreign key refuses a list that is gone.
SaveMessageMapping(h) ==
    /\ handler[h].pc = "map"
    /\ LET l == handler[h].list
           m == handler[h].message
       IN  messageMap' = IF l \in DOMAIN lists
                         THEN [k \in DOMAIN messageMap \cup {m} |->
                                  IF k = m THEN l ELSE messageMap[k]]
                         ELSE messageMap
    /\ Goto(h, Idle)
    /\ UNCHANGED <<lists, nextList, waGroups, world, sync, revived>>

-----------------------------------------------------------------------------
\* stop-list and handleStop: the owner's list is loaded, then written.
BeginStop(h) ==
    /\ \E l \in DOMAIN lists : CanLoad(h, l) /\ Goto(h, [pc |-> "stop", list |-> l])
    /\ UNCHANGED <<db, world, sync, revived>>

StopList(h) ==
    /\ handler[h].pc = "stop"
    /\ UpdateListStatus(handler[h].list, "stopped")
    /\ Goto(h, Idle)
    /\ UNCHANGED <<nextList, waGroups, messageMap, world, sync, revived>>

\* delete-list and handleDeleteList: two DELETEs, not in one transaction.
BeginDeleteList(h) ==
    /\ \E l \in DOMAIN lists : CanLoad(h, l) /\ Goto(h, [pc |-> "unmap", list |-> l])
    /\ UNCHANGED <<db, world, sync, revived>>

MappedTo(l) == {m \in DOMAIN messageMap : messageMap[m] = l}

DeleteMessageMapByList(h) ==
    /\ handler[h].pc = "unmap"
    /\ messageMap' = Restrict(messageMap, DOMAIN messageMap \ MappedTo(handler[h].list))
    /\ Goto(h, [handler[h] EXCEPT !.pc = "drop"])
    /\ UNCHANGED <<lists, nextList, waGroups, world, sync, revived>>

\* ON DELETE CASCADE takes the mappings saved since the first DELETE.
DeleteTaskList(h) ==
    /\ handler[h].pc = "drop"
    /\ lists' = Restrict(lists, DOMAIN lists \ {handler[h].list})
    /\ messageMap' = Restrict(messageMap, DOMAIN messageMap \ MappedTo(handler[h].list))
    /\ Goto(h, Idle)
    /\ UNCHANGED <<nextList, waGroups, world, sync, revived>>

-----------------------------------------------------------------------------
\* WhatsApp: the bot is kicked or added, a list owner leaves.  The notice
\* arrives later.
Notify(notice) == Len(inbox) < MaxInbox /\ inbox' = Append(inbox, notice)

KickBot(g) ==
    /\ g \in botIn
    /\ botIn' = botIn \ {g}
    /\ Notify([type |-> "kick", group |-> g])
    /\ UNCHANGED <<db, posted, handler, sync, revived>>

AddBot(g) ==
    /\ g \notin botIn
    /\ botIn' = botIn \cup {g}
    /\ Notify([type |-> "joined", group |-> g])
    /\ UNCHANGED <<db, posted, handler, sync, revived>>

OwnerLeaves(g, a) ==
    /\ g \in botIn
    /\ Notify([type |-> "left", group |-> g, admin |-> a])
    /\ UNCHANGED <<db, posted, botIn, handler, sync, revived>>

\* The lists a notice is about: all of the group, or those of one owner.
Concerned(notice) ==
    {l \in DOMAIN lists : /\ lists[l].group = notice.group
                          /\ notice.type = "left" => lists[l].admin = notice.admin}

\* Mutant: the query asks for status = 'active' only.
ActiveOnly(notice) == {l \in Concerned(notice) : lists[l].status = "active"}

\* GetActiveListsByGroup and GetActiveListsByGroupAndAdmin
OpenLists(notice) == {l \in Concerned(notice) : lists[l].status \in Open}

\* handleBotKicked and handleMemberLeft read the lists they will stop.
BeginStopping ==
    /\ handler[Chat] = Idle
    /\ inbox # <<>> /\ Head(inbox).type \in {"kick", "left"}
    /\ Goto(Chat, [pc |-> "stopping", notice |-> Head(inbox), todo |-> OpenLists(Head(inbox)),
                   from |-> nextList])
    /\ UNCHANGED <<db, world, sync, revived>>

StopNext ==
    /\ handler[Chat].pc = "stopping"
    /\ \E l \in handler[Chat].todo :
          /\ UpdateListStatus(l, "stopped")
          /\ Goto(Chat, [handler[Chat] EXCEPT !.todo = @ \ {l}])
    /\ UNCHANGED <<nextList, waGroups, messageMap, world, sync, revived>>

\* A kick ends with DeleteGroup (a departure with MarkAssigneeLeft, in
\* TaskStore); the notice is done with.
FinishStopping ==
    /\ handler[Chat].pc = "stopping" /\ handler[Chat].todo = {}
    /\ waGroups' = IF handler[Chat].notice.type = "kick"
                   THEN waGroups \ {handler[Chat].notice.group}
                   ELSE waGroups
    /\ inbox' = Tail(inbox)
    /\ Goto(Chat, Idle)
    /\ UNCHANGED <<lists, nextList, messageMap, posted, botIn, sync, revived>>

\* handleJoinedGroup
JoinedGroup ==
    /\ handler[Chat] = Idle
    /\ inbox # <<>> /\ Head(inbox).type = "joined"
    /\ waGroups' = waGroups \cup {Head(inbox).group}
    /\ inbox' = Tail(inbox)
    /\ UNCHANGED <<lists, nextList, messageMap, posted, botIn, handler, sync, revived>>

\* handleConnected runs syncGroups: one request, then one upsert per group.
SyncRequest ==
    /\ sync = {}
    /\ sync' = botIn
    /\ UNCHANGED <<db, world, handler, revived>>

SyncUpsert ==
    /\ \E g \in sync : waGroups' = waGroups \cup {g} /\ sync' = sync \ {g}
    /\ UNCHANGED <<lists, nextList, messageMap, world, handler, revived>>

\* The process dies.  WhatsApp may or may not send again the notice that was
\* being handled; those behind it are still to come.
Crash ==
    /\ handler' = [h \in Handlers |-> Idle]
    /\ sync' = {}
    /\ \/ inbox' = inbox
       \/ MayLoseNotice /\ handler[Chat].pc = "stopping" /\ inbox' = Tail(inbox)
    /\ UNCHANGED <<db, posted, botIn, revived>>

-----------------------------------------------------------------------------
HandlerStep(h) ==
    \/ BeginWebCreate(h)
    \/ CheckName(h)
    \/ InsertList(h)
    \/ BeginPublish(h)
    \/ CountTasks(h)
    \/ Activate(h)
    \/ SendSummary(h)
    \/ SaveMessageMapping(h)
    \/ BeginStop(h)
    \/ StopList(h)
    \/ BeginDeleteList(h)
    \/ DeleteMessageMapByList(h)
    \/ DeleteTaskList(h)

NoticeStep == BeginStopping \/ StopNext \/ FinishStopping \/ JoinedGroup

GroupStep(g) == KickBot(g) \/ AddBot(g) \/ \E a \in Admins : OwnerLeaves(g, a)

Next ==
    \/ BeginAddList
    \/ BeginDeleteTask
    \/ DeleteTask
    \/ \E h \in Handlers : HandlerStep(h)
    \/ \E l \in ListIds : FillOrEmpty(l)
    \/ NoticeStep
    \/ \E g \in Groups : GroupStep(g)
    \/ SyncRequest
    \/ SyncUpsert
    \/ Crash

Spec == Init /\ [][Next]_vars

-----------------------------------------------------------------------------
\* Two lists of a group never share a name, although add-list and the web form
\* look the name up in an earlier database call than the one that inserts: it
\* is by group and name that every chat command finds its list.
NamesUnique ==
    \A k, l \in DOMAIN lists :
        lists[k].name = lists[l].name /\ lists[k].group = lists[l].group => k = l

\* A reply to a summary reaches the list the summary showed, or none: never a
\* list created later, however late the summary of a deleted list is recorded.
RepliesReachTheirList ==
    \A m \in DOMAIN messageMap :
        /\ messageMap[m] \in DOMAIN lists
        /\ lists[messageMap[m]].serial = posted[m]

\* A publish that loaded the list before it was stopped and has not written yet.
PublishInFlight(l) ==
    \E h \in Handlers :
        /\ handler[h].pc \in {"count", "activate"}
        /\ handler[h].list = l
        /\ handler[h].read.status = "unpublished"

\* Once a list is stopped and no such publish is under way, no sequence of
\* commands, pages, notices and crashes opens it again.
StoppedForGood(l) == l \in DOMAIN lists /\ lists[l].status = "stopped" /\ ~PublishInFlight(l)

StopIsFinalOnceSettled ==
    [][\A l \in ListIds :
          StoppedForGood(l) /\ (l \in DOMAIN lists') => StoppedForGood(l)']_vars

\* What the glossary and the answer to stop-list promise without the proviso.
StopIsFinal ==
    [][\A l \in ListIds :
          l \in DOMAIN lists /\ lists[l].status = "stopped" /\ l \in DOMAIN lists' =>
              lists'[l].status = "stopped"]_vars

\* When the handler of a kick or of an owner's departure is through, every list
\* concerned is stopped, whatever ran in between, except one inserted after the
\* handler read the table or revived by a publish in flight.
NoticeStopsLists ==
    [][FinishStopping =>
          \A l \in Concerned(handler[Chat].notice) :
              \/ lists[l].status = "stopped"
              \/ lists[l].serial >= handler[Chat].from
              \/ l \in revived]_vars

Stage(l) ==
    IF l >= nextList
    THEN "none"
    ELSE IF l \in DOMAIN lists THEN lists[l].status ELSE "deleted"

SummariesOf(l) == {m \in DOMAIN posted : posted[m] = l}

List(l) ==
    INSTANCE ListStages WITH stage <- Stage(l), publishing <- PublishInFlight(l),
                             shown <- SummariesOf(l), answered <- MappedTo(l)

\* The group sees nothing of a list before it is published, replies reach it only
\* by summaries of it, and no id is used twice, although handlers go on with rows
\* that were stopped, deleted or published meanwhile.  (List(l)!Spec for all l, in
\* the form TLC evaluates.)
ListsGoThroughStages ==
    /\ \A l \in ListIds : List(l)!Init
    /\ [][\A l \in ListIds :
              UNCHANGED <<Stage(l), PublishInFlight(l), SummariesOf(l), MappedTo(l)>>
                  \/ List(l)!Next]_vars
=============================================================================
