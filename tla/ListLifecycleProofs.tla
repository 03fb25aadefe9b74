------------------------- MODULE ListLifecycleProofs -------------------------
(***************************************************************************)
(* What holds of task lists, their names and the summaries that show them  *)
(* for any number of lists, groups, owners, web requests, notices and      *)
(* crashes.                                                                *)
(***************************************************************************)
EXTENDS ListLifecycle, SequenceTheorems, TLAPS

\* AUTOINCREMENT: the id of a list is its place in the order of creation.
SerialIsId == \A l \in DOMAIN lists : l < nextList /\ lists[l].serial = l

\* A handler holds the serial of the list whose id it holds, and a message to be
\* recorded shows that list.
LocalSound(local) ==
    /\ local.pc \in {"count", "activate", "delete", "send"} => local.read.serial = local.list
    /\ local.pc = "map" => local.message \in 1 .. Len(posted) /\ posted[local.message] = local.list

HandlersSound == \A h \in Handlers : LocalSound(handler[h])

\* A list that the notice being handled concerns is still to be stopped, is
\* stopped, came later, or was revived.
Settled(l) ==
    \/ l \in handler[Chat].todo
    \/ lists[l].status = "stopped"
    \/ lists[l].serial >= handler[Chat].from
    \/ l \in revived

\* While a notice is handled it is the first of the inbox.
NoticeCovered ==
    handler[Chat].pc = "stopping" =>
        /\ inbox # <<>>
        /\ handler[Chat].from <= nextList
        /\ \A l \in Concerned(handler[Chat].notice) : Settled(l)

\* The inductive invariant
IInv ==
    /\ TypeOK
    /\ SerialIsId
    /\ NamesUnique
    /\ HandlersSound
    /\ RepliesReachTheirList
    /\ NoticeCovered

-----------------------------------------------------------------------------
LEMMA IdleType == Idle \in Locals /\ Idle.pc = "idle"
BY DEF Locals, Idle

\* What the locals of a handler hold at each point
LEMMA LocalType ==
    ASSUME TypeOK, NEW h \in Handlers
    PROVE  /\ handler[h].pc \in {"name", "insert"} =>
                 handler[h] \in [pc : {"name", "insert"}, name : Names, group : Groups,
                                 admin : Admins]
           /\ handler[h].pc \in {"count", "activate", "delete", "send"} =>
                 handler[h] \in [pc : {"count", "activate", "delete", "send"}, list : ListIds,
                                 read : Snapshots]
           /\ handler[h].pc = "map" =>
                 handler[h] \in [pc : {"map"}, list : ListIds, message : 1 .. MaxMessages]
           /\ handler[h].pc \in {"stop", "unmap", "drop"} =>
                 handler[h] \in [pc : {"stop", "unmap", "drop"}, list : ListIds]
           /\ handler[h].pc = "stopping" =>
                 handler[h] \in [pc : {"stopping"}, notice : Notice, todo : SUBSET ListIds,
                                 from : Nat]
<1>1. handler[h] \in Locals
  BY DEF TypeOK
<1> QED  BY <1>1 DEF Locals, Idle

LEMMA GotoType ==
    ASSUME TypeOK, NEW h \in Handlers, NEW local \in Locals, Goto(h, local)
    PROVE  /\ handler' \in [Handlers -> Locals]
           /\ handler'[h] = local
           /\ \A i \in Handlers \ {h} : handler'[i] = handler[i]
BY DEF TypeOK, Goto

LEMMA ChatIsHandler == Chat \in Handlers
BY DEF Handlers

LEMMA InitEstablishes == ASSUME ListLifecycleAssumption, Init PROVE IInv
<1>1. TypeOK
  BY IdleType DEF Init, TypeOK, ListLifecycleAssumption
<1>2. HandlersSound /\ NoticeCovered
  BY IdleType, ChatIsHandler DEF Init, HandlersSound, LocalSound, NoticeCovered
<1>3. SerialIsId /\ NamesUnique /\ RepliesReachTheirList
  BY DEF Init, SerialIsId, NamesUnique, RepliesReachTheirList
<1> QED  BY <1>1, <1>2, <1>3 DEF IInv

-----------------------------------------------------------------------------
\* Rows that keep what they were created with keep their names apart.
RowsKept ==
    /\ DOMAIN lists' \subseteq DOMAIN lists
    /\ \A l \in DOMAIN lists' :
          /\ lists'[l].name = lists[l].name
          /\ lists'[l].group = lists[l].group
          /\ lists'[l].admin = lists[l].admin
          /\ lists'[l].serial = lists[l].serial
    /\ nextList' = nextList

LEMMA RowsKeptSound == ASSUME IInv, RowsKept PROVE SerialIsId' /\ NamesUnique'
BY DEF IInv, RowsKept, SerialIsId, NamesUnique

\* A step is sound if the goroutine it runs on goes on soundly.
LEMMA HandlerGoes ==
    ASSUME IInv, NEW h \in Handlers, NEW local \in Locals, Goto(h, local),
           LocalSound(local), UNCHANGED posted
    PROVE  handler' \in [Handlers -> Locals] /\ HandlersSound'
<1>1. /\ handler' \in [Handlers -> Locals]
      /\ handler'[h] = local
      /\ \A i \in Handlers \ {h} : handler'[i] = handler[i]
  BY GotoType DEF IInv
<1> QED  BY <1>1 DEF IInv, HandlersSound, LocalSound

\* Locals about which nothing is claimed
LEMMA PlainLocal ==
    ASSUME NEW local,
           local.pc \in {"idle", "name", "insert", "stop", "unmap", "drop", "stopping"}
    PROVE  LocalSound(local)
BY DEF LocalSound

\* What other goroutines do to the rows while a notice is handled
LEMMA NoticeKept ==
    ASSUME IInv, RowsKept,
           \A l \in DOMAIN lists' :
               lists[l].status = "stopped" => lists'[l].status = "stopped" \/ l \in revived',
           revived \subseteq revived',
           inbox # <<>> => inbox' # <<>>,
           handler'[Chat].pc = "stopping" => handler'[Chat] = handler[Chat]
    PROVE  NoticeCovered'
<1> SUFFICES ASSUME handler'[Chat].pc = "stopping"
             PROVE  /\ inbox' # <<>>
                    /\ handler'[Chat].from <= nextList'
                    /\ \A l \in Concerned(handler[Chat].notice)' : Settled(l)'
  BY DEF NoticeCovered
<1>1. handler'[Chat] = handler[Chat]
  OBVIOUS
<1>2. \A l \in Concerned(handler[Chat].notice)' : l \in Concerned(handler[Chat].notice)
  BY <1>1 DEF Concerned, RowsKept
<1>3. \A l \in Concerned(handler[Chat].notice)' : l \in DOMAIN lists'
  BY DEF Concerned
<1> QED  BY <1>1, <1>2, <1>3 DEF IInv, NoticeCovered, Settled, RowsKept

\* A step that changes no table, no message and no notice
LEMMA OnlyGoes ==
    ASSUME IInv, NEW h \in Handlers, NEW local \in Locals, Goto(h, local),
           LocalSound(local), local.pc # "stopping",
           UNCHANGED <<db, world, sync, revived>>
    PROVE  IInv'
<1>1. handler' \in [Handlers -> Locals] /\ HandlersSound'
  BY HandlerGoes DEF world
<1>2. TypeOK'
  BY <1>1 DEF IInv, TypeOK, db, world
<1>3. RowsKept
  BY DEF RowsKept, db
<1>4. handler'[Chat].pc = "stopping" => handler'[Chat] = handler[Chat]
  BY GotoType, ChatIsHandler DEF IInv
<1>5. NoticeCovered'
  BY <1>3, <1>4, NoticeKept DEF db, world
<1>6. RepliesReachTheirList'
  BY DEF IInv, RepliesReachTheirList, db, world
<1> QED  BY <1>1, <1>2, <1>3, <1>5, <1>6, RowsKeptSound DEF IInv

-----------------------------------------------------------------------------
LEMMA StartCreateStep ==
    ASSUME IInv, NEW h \in Handlers, NEW name \in Names, NEW g \in Groups, NEW a \in Admins,
           StartCreate(h, name, g, a)
    PROVE  IInv'
<1> DEFINE local == [pc |-> "name", name |-> name, group |-> g, admin |-> a]
<1>1. local \in Locals /\ local.pc = "name"
  BY DEF Locals
<1>2. Goto(h, local) /\ UNCHANGED <<db, world, sync, revived>>
  BY DEF StartCreate
<1> HIDE DEF local
<1> QED  BY <1>1, <1>2, PlainLocal, OnlyGoes

LEMMA CheckNameStep == ASSUME IInv, NEW h \in Handlers, CheckName(h) PROVE IInv'
<1> DEFINE local == [handler[h] EXCEPT !.pc = "insert"]
<1>1. local \in Locals /\ local.pc = "insert"
  BY LocalType DEF IInv, CheckName, Locals
<1>2. Goto(h, local) \/ Goto(h, Idle)
  BY DEF CheckName
<1>3. UNCHANGED <<db, world, sync, revived>>
  BY DEF CheckName
<1> HIDE DEF local
<1> QED  BY <1>1, <1>2, <1>3, IdleType, PlainLocal, OnlyGoes

LEMMA InsertListStep ==
    ASSUME ListLifecycleAssumption, IInv, NEW h \in Handlers, InsertList(h)
    PROVE  IInv'
<1> DEFINE name == handler[h].name
           g == handler[h].group
           a == handler[h].admin
<1>1. name \in Names /\ g \in Groups /\ a \in Admins
  BY LocalType DEF IInv, InsertList
<1>2. CASE NameTaken(name, g)
  <2>1. UNCHANGED <<db, world, sync, revived>>
    BY <1>2 DEF InsertList, CreateTaskList, db
  <2> QED  BY <2>1, IdleType, PlainLocal, OnlyGoes DEF InsertList
<1>3. CASE ~NameTaken(name, g)
  <2> DEFINE row == [name |-> name, group |-> g, admin |-> a, status |-> "unpublished",
                     filled |-> FALSE, serial |-> nextList]
  <2>1. nextList \in ListIds /\ nextList \notin DOMAIN lists
    BY DEF IInv, TypeOK, SerialIsId, InsertList, ListIds
  <2>2. row \in ListRow
    BY <1>1, <2>1 DEF ListRow, Open
  <2>3. /\ lists' = [l \in DOMAIN lists \cup {nextList} |->
                        IF l \in DOMAIN lists THEN lists[l] ELSE row]
        /\ nextList' = nextList + 1
    BY <1>3 DEF InsertList, CreateTaskList, InsertListRow, NextListId
  <2>4. row.name = name /\ row.group = g /\ row.serial = nextList
    OBVIOUS
  <2> HIDE DEF row
  <2>5. /\ DOMAIN lists' = DOMAIN lists \cup {nextList}
        /\ lists'[nextList] = row
        /\ \A l \in DOMAIN lists : lists'[l] = lists[l]
    BY <2>1, <2>3
  <2>6. handler' \in [Handlers -> Locals] /\ HandlersSound'
    BY IdleType, PlainLocal, HandlerGoes DEF InsertList, world
  <2>7. TypeOK'
    <3>1. nextList' \in 1 .. MaxLists + 1
      BY <2>1, <2>3 DEF ListIds, ListLifecycleAssumption
    <3>2. DOMAIN lists' \subseteq ListIds /\ \A l \in DOMAIN lists' : lists'[l] \in ListRow
      BY <2>1, <2>2, <2>5 DEF IInv, TypeOK
    <3> QED  BY <2>6, <3>1, <3>2 DEF IInv, TypeOK, InsertList, world
  <2>8. SerialIsId'
    <3>1. \A l \in DOMAIN lists : l \in Nat
      BY DEF IInv, TypeOK, ListIds
    <3> QED  BY <2>1, <2>3, <2>4, <2>5, <3>1 DEF IInv, SerialIsId, ListIds
  <2>9. NamesUnique'
    BY <1>3, <2>4, <2>5 DEF IInv, NamesUnique, NameTaken
  <2>10. RepliesReachTheirList'
    BY <2>5 DEF IInv, RepliesReachTheirList, InsertList, world
  <2>11. NoticeCovered'
    <3> SUFFICES ASSUME handler'[Chat].pc = "stopping"
                 PROVE  /\ inbox' # <<>>
                        /\ handler'[Chat].from <= nextList'
                        /\ \A l \in Concerned(handler[Chat].notice)' : Settled(l)'
      BY DEF NoticeCovered
    <3>1. handler'[Chat] = handler[Chat]
      BY IdleType, GotoType, ChatIsHandler DEF IInv, InsertList
    <3>2. handler[Chat].from \in Nat /\ nextList \in Nat
      BY <3>1, LocalType, ChatIsHandler DEF IInv, TypeOK
    <3>3. ASSUME NEW l \in Concerned(handler[Chat].notice)' PROVE Settled(l)'
      <4>1. CASE l = nextList
        BY <2>4, <2>5, <3>1, <4>1 DEF IInv, NoticeCovered, Settled
      <4>2. CASE l # nextList
        <5>1. l \in Concerned(handler[Chat].notice) /\ l \in DOMAIN lists
          BY <2>5, <3>1, <4>2 DEF Concerned
        <5> QED  BY <2>5, <3>1, <5>1 DEF IInv, NoticeCovered, Settled, InsertList
      <4> QED  BY <4>1, <4>2
    <3> QED  BY <2>3, <3>1, <3>2, <3>3 DEF IInv, NoticeCovered, InsertList, world
  <2> QED  BY <2>6, <2>7, <2>8, <2>9, <2>10, <2>11 DEF IInv
<1> QED  BY <1>2, <1>3

-----------------------------------------------------------------------------
\* A step that changes status and tasks of lists, but creates and deletes none
LEMMA ListsWritten ==
    ASSUME IInv, NEW h \in Handlers, NEW local \in Locals, Goto(h, local),
           LocalSound(local), local.pc # "stopping",
           DOMAIN lists' = DOMAIN lists,
           \A l \in DOMAIN lists : lists'[l] \in ListRow,
           RowsKept,
           \A l \in DOMAIN lists' :
               lists[l].status = "stopped" => lists'[l].status = "stopped" \/ l \in revived',
           revived \subseteq revived', revived' \subseteq ListIds,
           UNCHANGED <<waGroups, messageMap, world, sync>>
    PROVE  IInv'
<1>1. handler' \in [Handlers -> Locals] /\ HandlersSound'
  BY HandlerGoes DEF world
<1>2. TypeOK'
  BY <1>1 DEF IInv, TypeOK, RowsKept, world
<1>3. handler'[Chat].pc = "stopping" => handler'[Chat] = handler[Chat]
  BY GotoType, ChatIsHandler DEF IInv
<1>4. NoticeCovered'
  BY <1>3, NoticeKept DEF world
<1>5. RepliesReachTheirList'
  BY DEF IInv, RepliesReachTheirList, RowsKept, world
<1> QED  BY <1>1, <1>2, <1>4, <1>5, RowsKeptSound DEF IInv

LEMMA StatusUpdated ==
    ASSUME IInv, NEW l \in ListIds, NEW s \in Open \cup {"stopped"}, UpdateListStatus(l, s),
           UNCHANGED nextList
    PROVE  /\ DOMAIN lists' = DOMAIN lists
           /\ \A k \in DOMAIN lists : lists'[k] \in ListRow
           /\ RowsKept
           /\ \A k \in DOMAIN lists : lists'[k].status = IF k = l THEN s ELSE lists[k].status
<1>1. \A k \in DOMAIN lists : lists[k] \in ListRow
  BY DEF IInv, TypeOK
<1>2. /\ DOMAIN lists' = DOMAIN lists
      /\ \A k \in DOMAIN lists :
            lists'[k] = IF k = l THEN [lists[k] EXCEPT !.status = s] ELSE lists[k]
  BY DEF UpdateListStatus
<1>3. \A k \in DOMAIN lists :
         LET row == [lists[k] EXCEPT !.status = s]
         IN  /\ row \in ListRow /\ row.status = s
             /\ row.name = lists[k].name /\ row.group = lists[k].group
             /\ row.admin = lists[k].admin /\ row.serial = lists[k].serial
  BY <1>1 DEF ListRow
<1> QED  BY <1>1, <1>2, <1>3 DEF RowsKept

\* FillOrEmpty and DeleteTask
LEMMA TasksUpdated ==
    ASSUME IInv, NEW l \in DOMAIN lists, NEW b \in BOOLEAN,
           lists' = [lists EXCEPT ![l].filled = b], UNCHANGED nextList
    PROVE  /\ DOMAIN lists' = DOMAIN lists
           /\ \A k \in DOMAIN lists : lists'[k] \in ListRow
           /\ RowsKept
           /\ \A k \in DOMAIN lists : lists'[k].status = lists[k].status
<1>1. \A k \in DOMAIN lists : lists[k] \in ListRow
  BY DEF IInv, TypeOK
<1>2. /\ DOMAIN lists' = DOMAIN lists
      /\ \A k \in DOMAIN lists :
            lists'[k] = IF k = l THEN [lists[k] EXCEPT !.filled = b] ELSE lists[k]
  OBVIOUS
<1>3. \A k \in DOMAIN lists :
         LET row == [lists[k] EXCEPT !.filled = b]
         IN  /\ row \in ListRow /\ row.status = lists[k].status
             /\ row.name = lists[k].name /\ row.group = lists[k].group
             /\ row.admin = lists[k].admin /\ row.serial = lists[k].serial
  BY <1>1 DEF ListRow
<1> QED  BY <1>1, <1>2, <1>3 DEF RowsKept

LEMMA FillOrEmptyStep == ASSUME IInv, NEW l \in ListIds, FillOrEmpty(l) PROVE IInv'
<1>1. \E b \in BOOLEAN : lists' = [lists EXCEPT ![l].filled = b]
  BY DEF FillOrEmpty
<1>2. /\ DOMAIN lists' = DOMAIN lists
      /\ \A k \in DOMAIN lists : lists'[k] \in ListRow
      /\ RowsKept
      /\ \A k \in DOMAIN lists : lists'[k].status = lists[k].status
  BY <1>1, TasksUpdated DEF FillOrEmpty
<1>3. TypeOK'
  BY <1>2 DEF IInv, TypeOK, FillOrEmpty, world
<1>4. NoticeCovered'
  BY <1>2, NoticeKept DEF FillOrEmpty, world
<1>5. (HandlersSound /\ RepliesReachTheirList)'
  BY <1>2 DEF IInv, HandlersSound, LocalSound, RepliesReachTheirList, RowsKept, FillOrEmpty, world
<1> QED  BY <1>2, <1>3, <1>4, <1>5, RowsKeptSound DEF IInv

LEMMA LoadOpenStep ==
    ASSUME IInv, NEW h \in Handlers, NEW pc \in {"count", "delete"}, LoadOpen(h, pc)
    PROVE  IInv'
<1>1. PICK l \in DOMAIN lists :
         /\ lists[l].status # "stopped"
         /\ Goto(h, [pc |-> pc, list |-> l,
                     read |-> [group |-> lists[l].group, status |-> lists[l].status,
                               serial |-> lists[l].serial]])
  BY DEF LoadOpen
<1> DEFINE read == [group |-> lists[l].group, status |-> lists[l].status,
                    serial |-> lists[l].serial]
           local == [pc |-> pc, list |-> l, read |-> read]
<1>2. read \in Snapshots /\ read.serial = l /\ l \in ListIds
  BY <1>1 DEF IInv, TypeOK, SerialIsId, ListRow, Snapshots, Open
<1> HIDE DEF read
<1>3. local \in Locals /\ LocalSound(local) /\ local.pc # "stopping"
  BY <1>2 DEF Locals, LocalSound
<1>4. Goto(h, local)
  BY <1>1 DEF read
<1> HIDE DEF local
<1> QED  BY <1>3, <1>4, OnlyGoes DEF LoadOpen

\* A handler that goes on with the list it holds
LEMMA GoesOn ==
    ASSUME IInv, NEW h \in Handlers, handler[h].pc \in {"count", "activate", "delete"},
           NEW pc \in {"activate", "send"}
    PROVE  /\ [handler[h] EXCEPT !.pc = pc] \in Locals
           /\ LocalSound([handler[h] EXCEPT !.pc = pc])
           /\ [handler[h] EXCEPT !.pc = pc].pc = pc
<1> DEFINE local == [handler[h] EXCEPT !.pc = pc]
<1>1. handler[h] \in [pc : {"count", "activate", "delete", "send"}, list : ListIds,
                      read : Snapshots]
  BY LocalType DEF IInv
<1>2. /\ local \in [pc : {"count", "activate", "delete", "send"}, list : ListIds,
                    read : Snapshots]
      /\ local.pc = pc /\ local.list = handler[h].list /\ local.read = handler[h].read
  BY <1>1
<1>3. handler[h].read.serial = handler[h].list
  BY DEF IInv, HandlersSound, LocalSound
<1> HIDE DEF local
<1>4. local \in Locals
  BY <1>2 DEF Locals
<1>5. LocalSound(local)
  BY <1>2, <1>3 DEF LocalSound
<1> QED  BY <1>2, <1>4, <1>5 DEF local

LEMMA CountTasksStep == ASSUME IInv, NEW h \in Handlers, CountTasks(h) PROVE IInv'
<1>1. \/ Goto(h, Idle)
      \/ Goto(h, [handler[h] EXCEPT !.pc = "activate"])
  BY DEF CountTasks
<1>2. UNCHANGED <<db, world, sync, revived>> /\ handler[h].pc = "count"
  BY DEF CountTasks
<1> DEFINE local == [handler[h] EXCEPT !.pc = "activate"]
<1>3. local \in Locals /\ LocalSound(local) /\ local.pc = "activate"
  BY <1>2, GoesOn
<1> HIDE DEF local
<1>4. CASE Goto(h, local)
  BY <1>2, <1>3, <1>4, OnlyGoes
<1>5. CASE Goto(h, Idle)
  BY <1>2, <1>5, IdleType, PlainLocal, OnlyGoes
<1> QED  BY <1>1, <1>4, <1>5 DEF local

LEMMA DeleteTaskStep == ASSUME IInv, DeleteTask PROVE IInv'
<1>1. /\ handler[Chat].pc = "delete"
      /\ UNCHANGED <<nextList, waGroups, messageMap, world, sync, revived>>
  BY DEF DeleteTask
<1>2. \/ lists' = lists
      \/ \E l \in DOMAIN lists, b \in BOOLEAN : lists' = [lists EXCEPT ![l].filled = b]
  BY DEF DeleteTask
<1>3. /\ DOMAIN lists' = DOMAIN lists
      /\ \A k \in DOMAIN lists : lists'[k] \in ListRow
      /\ RowsKept
      /\ \A k \in DOMAIN lists : lists'[k].status = lists[k].status
  <2>1. CASE lists' = lists
    BY <1>1, <2>1 DEF IInv, TypeOK, RowsKept
  <2>2. CASE \E l \in DOMAIN lists, b \in BOOLEAN : lists' = [lists EXCEPT ![l].filled = b]
    BY <1>1, <2>2, TasksUpdated
  <2> QED  BY <1>2, <2>1, <2>2
<1>4. \E local \in Locals : LocalSound(local) /\ local.pc # "stopping" /\ Goto(Chat, local)
  <2>1. \/ Goto(Chat, Idle)
        \/ Goto(Chat, [handler[Chat] EXCEPT !.pc = "send"])
    BY DEF DeleteTask
  <2> DEFINE local == [handler[Chat] EXCEPT !.pc = "send"]
  <2>2. local \in Locals /\ LocalSound(local) /\ local.pc = "send"
    BY <1>1, ChatIsHandler, GoesOn
  <2>3. Idle \in Locals /\ LocalSound(Idle) /\ Idle.pc = "idle"
    BY IdleType, PlainLocal
  <2> HIDE DEF local
  <2>4. CASE Goto(Chat, local)
    BY <2>2, <2>4
  <2>5. CASE Goto(Chat, Idle)
    BY <2>3, <2>5
  <2> QED  BY <2>1, <2>4, <2>5 DEF local
<1>5. revived' = revived /\ revived \subseteq ListIds
  BY <1>1 DEF IInv, TypeOK
<1> QED  BY <1>1, <1>3, <1>4, <1>5, ChatIsHandler, ListsWritten

LEMMA ActivateStep == ASSUME IInv, NEW h \in Handlers, Activate(h) PROVE IInv'
<1> DEFINE l == handler[h].list
           local == [handler[h] EXCEPT !.pc = "send"]
<1>1. l \in ListIds /\ local \in Locals /\ LocalSound(local) /\ local.pc = "send"
  BY LocalType, GoesOn DEF IInv, Activate
<1>2. UNCHANGED <<nextList, waGroups, messageMap, world, sync>> /\ Goto(h, local)
  BY DEF Activate
<1>3. revived \subseteq revived' /\ revived' \subseteq ListIds
  BY <1>1 DEF Activate, IInv, TypeOK
<1>4. CASE UNCHANGED lists
  <2>1. /\ DOMAIN lists' = DOMAIN lists
        /\ \A k \in DOMAIN lists : lists'[k] \in ListRow
        /\ RowsKept
    BY <1>2, <1>4 DEF IInv, TypeOK, RowsKept
  <2> HIDE DEF local
  <2> QED  BY <1>1, <1>2, <1>3, <1>4, <2>1, ListsWritten
<1>5. CASE UpdateListStatus(l, "active") /\
           revived' = IF l \in DOMAIN lists /\ lists[l].status = "stopped"
                      THEN revived \cup {l}
                      ELSE revived
  <2>1. /\ DOMAIN lists' = DOMAIN lists
        /\ \A k \in DOMAIN lists : lists'[k] \in ListRow
        /\ RowsKept
        /\ \A k \in DOMAIN lists : lists'[k].status = IF k = l THEN "active" ELSE lists[k].status
    BY <1>1, <1>2, <1>5, StatusUpdated DEF Open
  <2> HIDE DEF local
  <2>2. \A k \in DOMAIN lists' :
           lists[k].status = "stopped" => lists'[k].status = "stopped" \/ k \in revived'
    BY <1>5, <2>1
  <2> QED  BY <1>1, <1>2, <1>3, <2>1, <2>2, ListsWritten
<1> QED  BY <1>4, <1>5 DEF Activate

LEMMA StopListStep == ASSUME IInv, NEW h \in Handlers, StopList(h) PROVE IInv'
<1>1. handler[h].list \in ListIds
  BY LocalType DEF IInv, StopList
<1>2. /\ DOMAIN lists' = DOMAIN lists
      /\ \A k \in DOMAIN lists : lists'[k] \in ListRow
      /\ RowsKept
      /\ \A k \in DOMAIN lists :
            lists'[k].status = IF k = handler[h].list THEN "stopped" ELSE lists[k].status
  BY <1>1, StatusUpdated DEF StopList
<1>3. revived' = revived /\ revived \subseteq ListIds
  BY DEF StopList, IInv, TypeOK
<1> QED  BY <1>2, <1>3, IdleType, PlainLocal, ListsWritten DEF StopList

-----------------------------------------------------------------------------
LEMMA SendSummaryStep ==
    ASSUME ListLifecycleAssumption, IInv, NEW h \in Handlers, SendSummary(h)
    PROVE  IInv'
<1>1. CASE posted' = posted /\ Goto(h, Idle)
  BY <1>1, IdleType, PlainLocal, OnlyGoes DEF SendSummary, world
<1>2. CASE ~(posted' = posted /\ Goto(h, Idle))
  <2> DEFINE l == handler[h].list
             m == Len(posted) + 1
             local == [pc |-> "map", list |-> l, message |-> m]
  <2>1. l \in ListIds /\ handler[h].read.serial = l
    BY LocalType DEF IInv, HandlersSound, LocalSound, SendSummary
  <2>2. m \in 1 .. MaxMessages
    BY <1>2 DEF SendSummary, IInv, TypeOK, ListLifecycleAssumption
  <2>3. /\ posted' = Append(posted, l)
        /\ Goto(h, local)
    BY <1>2, <2>1 DEF SendSummary
  <2>4. /\ posted' \in Seq(ListIds) /\ Len(posted') = m /\ posted'[m] = l
        /\ Len(posted) \in Nat
        /\ DOMAIN posted = 1 .. Len(posted) /\ DOMAIN posted' = 1 .. Len(posted')
        /\ \A k \in 1 .. Len(posted) : posted'[k] = posted[k]
    BY <2>1, <2>3 DEF IInv, TypeOK
  <2>5. local \in Locals /\ local.pc = "map" /\ local.list = l /\ local.message = m
    BY <2>1, <2>2 DEF Locals
  <2> HIDE DEF local
  <2>6. /\ handler' \in [Handlers -> Locals]
        /\ handler'[h] = local
        /\ \A i \in Handlers \ {h} : handler'[i] = handler[i]
    BY <2>3, <2>5, GotoType DEF IInv
  <2>7. TypeOK'
    BY <2>2, <2>4, <2>6 DEF IInv, TypeOK, SendSummary, db
  <2>8. HandlersSound'
    <3> SUFFICES ASSUME NEW i \in Handlers PROVE LocalSound(handler[i])'
      BY DEF HandlersSound
    <3>1. CASE i = h
      BY <2>4, <2>5, <2>6, <3>1 DEF LocalSound
    <3>2. CASE i # h
      <4>1. handler'[i] = handler[i] /\ LocalSound(handler[i])
        BY <2>6, <3>2 DEF IInv, HandlersSound
      <4> QED  BY <2>4, <4>1 DEF LocalSound
    <3> QED  BY <3>1, <3>2
  <2>9. RepliesReachTheirList'
    BY <2>4 DEF IInv, TypeOK, RepliesReachTheirList, SendSummary, db
  <2>10. RowsKept
    BY DEF RowsKept, SendSummary, db
  <2>11. NoticeCovered'
    BY <2>5, <2>6, <2>10, ChatIsHandler, NoticeKept DEF SendSummary, db
  <2> QED  BY <2>7, <2>8, <2>9, <2>10, <2>11, RowsKeptSound DEF IInv
<1> QED  BY <1>1, <1>2

\* A step that changes what message_map says, or deletes lists
LEMMA MapChanged ==
    ASSUME IInv, NEW h \in Handlers, NEW local \in Locals, Goto(h, local),
           LocalSound(local), local.pc # "stopping",
           RowsKept, \A l \in DOMAIN lists' : lists'[l] = lists[l],
           DOMAIN messageMap' \subseteq DOMAIN posted, RepliesReachTheirList',
           UNCHANGED <<waGroups, world, sync, revived>>
    PROVE  IInv'
<1>1. handler' \in [Handlers -> Locals] /\ HandlersSound'
  BY HandlerGoes DEF world
<1>2. TypeOK'
  BY <1>1 DEF IInv, TypeOK, RowsKept, world
<1>3. handler'[Chat].pc = "stopping" => handler'[Chat] = handler[Chat]
  BY GotoType, ChatIsHandler DEF IInv
<1>4. NoticeCovered'
  BY <1>3, NoticeKept DEF world
<1> QED  BY <1>1, <1>2, <1>4, RowsKeptSound DEF IInv

LEMMA SaveMessageMappingStep ==
    ASSUME IInv, NEW h \in Handlers, SaveMessageMapping(h)
    PROVE  IInv'
<1> DEFINE l == handler[h].list
           m == handler[h].message
<1>1. m \in DOMAIN posted /\ posted[m] = l
  BY DEF IInv, TypeOK, HandlersSound, LocalSound, SaveMessageMapping
<1>2. UNCHANGED <<lists, nextList, waGroups, world, sync, revived>> /\ Goto(h, Idle)
  BY DEF SaveMessageMapping
<1>3. RowsKept
  BY <1>2 DEF RowsKept
<1>4. messageMap' = IF l \in DOMAIN lists
                    THEN [k \in DOMAIN messageMap \cup {m} |->
                             IF k = m THEN l ELSE messageMap[k]]
                    ELSE messageMap
  BY DEF SaveMessageMapping
<1>5. DOMAIN messageMap' \subseteq DOMAIN posted
  BY <1>1, <1>4 DEF IInv, TypeOK
<1>6. RepliesReachTheirList'
  <2> HIDE DEF l, m
  <2>1. l \in DOMAIN lists => lists[l].serial = posted[m]
    BY <1>1 DEF IInv, SerialIsId
  <2> QED  BY <1>2, <1>4, <2>1 DEF IInv, RepliesReachTheirList, world
<1> QED  BY <1>2, <1>3, <1>5, <1>6, IdleType, PlainLocal, MapChanged

LEMMA BeginListStep ==
    ASSUME IInv, NEW h \in Handlers, NEW pc \in {"stop", "unmap"},
           \E l \in DOMAIN lists : Goto(h, [pc |-> pc, list |-> l]),
           UNCHANGED <<db, world, sync, revived>>
    PROVE  IInv'
<1>1. PICK l \in DOMAIN lists : Goto(h, [pc |-> pc, list |-> l])
  OBVIOUS
<1>2. [pc |-> pc, list |-> l] \in Locals
  BY DEF IInv, TypeOK, Locals
<1> QED  BY <1>1, <1>2, PlainLocal, OnlyGoes

LEMMA DeleteMessageMapByListStep ==
    ASSUME IInv, NEW h \in Handlers, DeleteMessageMapByList(h)
    PROVE  IInv'
<1> DEFINE local == [handler[h] EXCEPT !.pc = "drop"]
<1>1. local \in Locals /\ local.pc = "drop"
  BY LocalType DEF IInv, DeleteMessageMapByList, Locals
<1>2. UNCHANGED <<lists, nextList, waGroups, world, sync, revived>> /\ Goto(h, local)
  BY DEF DeleteMessageMapByList
<1>3. RowsKept
  BY <1>2 DEF RowsKept
<1>4. /\ DOMAIN messageMap' \subseteq DOMAIN messageMap
      /\ \A k \in DOMAIN messageMap' : messageMap'[k] = messageMap[k]
  BY DEF DeleteMessageMapByList, Restrict
<1>5. DOMAIN messageMap' \subseteq DOMAIN posted /\ RepliesReachTheirList'
  BY <1>2, <1>4 DEF IInv, TypeOK, RepliesReachTheirList, world
<1> HIDE DEF local
<1> QED  BY <1>1, <1>2, <1>3, <1>5, PlainLocal, MapChanged

LEMMA DeleteTaskListStep == ASSUME IInv, NEW h \in Handlers, DeleteTaskList(h) PROVE IInv'
<1> DEFINE l == handler[h].list
<1>1. UNCHANGED <<nextList, waGroups, world, sync, revived>> /\ Goto(h, Idle)
  BY DEF DeleteTaskList
<1>2. /\ DOMAIN lists' = DOMAIN lists \ {l}
      /\ \A k \in DOMAIN lists' : lists'[k] = lists[k]
  BY DEF DeleteTaskList, Restrict
<1>3. /\ DOMAIN messageMap' \subseteq DOMAIN messageMap
      /\ \A k \in DOMAIN messageMap' : messageMap'[k] = messageMap[k] /\ messageMap[k] # l
  BY DEF DeleteTaskList, Restrict, MappedTo
<1> HIDE DEF l
<1>4. RowsKept
  BY <1>1, <1>2 DEF RowsKept
<1>5. DOMAIN messageMap' \subseteq DOMAIN posted /\ RepliesReachTheirList'
  BY <1>1, <1>2, <1>3 DEF IInv, TypeOK, RepliesReachTheirList, world
<1> QED  BY <1>1, <1>2, <1>4, <1>5, IdleType, PlainLocal, MapChanged

-----------------------------------------------------------------------------
\* WhatsApp: a notice is added to the inbox.
LEMMA NotifyStep ==
    ASSUME IInv, NEW notice \in Notice, Notify(notice), botIn' \subseteq Groups,
           UNCHANGED <<db, posted, handler, sync, revived>>
    PROVE  IInv'
<1>1. inbox' \in Seq(Notice) /\ inbox' # <<>>
  BY DEF IInv, TypeOK, Notify
<1>2. TypeOK'
  BY <1>1 DEF IInv, TypeOK, db
<1>3. RowsKept
  BY DEF RowsKept, db
<1>4. NoticeCovered'
  BY <1>1, <1>3, NoticeKept DEF db
<1>5. (HandlersSound /\ RepliesReachTheirList)'
  BY DEF IInv, HandlersSound, LocalSound, RepliesReachTheirList, db
<1> QED  BY <1>2, <1>3, <1>4, <1>5, RowsKeptSound DEF IInv

LEMMA GroupSteps == ASSUME IInv, NEW g \in Groups, GroupStep(g) PROVE IInv'
<1>1. botIn \subseteq Groups
  BY DEF IInv, TypeOK
<1>2. CASE KickBot(g)
  <2>1. [type |-> "kick", group |-> g] \in Notice
    BY DEF Notice
  <2> QED  BY <1>1, <1>2, <2>1, NotifyStep DEF KickBot
<1>3. CASE AddBot(g)
  <2>1. [type |-> "joined", group |-> g] \in Notice
    BY DEF Notice
  <2> QED  BY <1>1, <1>3, <2>1, NotifyStep DEF AddBot
<1>4. ASSUME NEW a \in Admins, OwnerLeaves(g, a) PROVE IInv'
  <2>1. [type |-> "left", group |-> g, admin |-> a] \in Notice
    BY DEF Notice
  <2> QED  BY <1>1, <1>4, <2>1, NotifyStep DEF OwnerLeaves
<1> QED  BY <1>2, <1>3, <1>4 DEF GroupStep

LEMMA BeginStoppingStep == ASSUME IInv, BeginStopping PROVE IInv'
<1> DEFINE notice == Head(inbox)
           local == [pc |-> "stopping", notice |-> notice, todo |-> OpenLists(notice),
                     from |-> nextList]
<1>1. notice \in Notice
  BY DEF IInv, TypeOK, BeginStopping
<1>2. OpenLists(notice) \subseteq ListIds /\ nextList \in Nat
  BY DEF IInv, TypeOK, OpenLists, Concerned
<1>3. local \in Locals
  BY <1>1, <1>2 DEF Locals
<1>4. /\ local.pc = "stopping" /\ local.notice = notice /\ local.todo = OpenLists(notice)
      /\ local.from = nextList
  OBVIOUS
<1>5. Goto(Chat, local) /\ UNCHANGED <<db, world, sync, revived>> /\ inbox # <<>>
  BY DEF BeginStopping
<1> HIDE DEF local
<1>6. handler' \in [Handlers -> Locals] /\ HandlersSound' /\ handler'[Chat] = local
  BY <1>3, <1>4, <1>5, ChatIsHandler, PlainLocal, HandlerGoes, GotoType DEF IInv, world
<1>7. TypeOK'
  BY <1>5, <1>6 DEF IInv, TypeOK, db, world
<1>8. NoticeCovered'
  <2>1. \A l \in Concerned(notice) : l \in OpenLists(notice) \/ lists[l].status = "stopped"
    BY DEF IInv, TypeOK, OpenLists, Concerned, ListRow
  <2>2. \A l : l \in Concerned(handler[Chat].notice)' => l \in Concerned(notice)
    BY <1>4, <1>5, <1>6 DEF Concerned, db
  <2>3. lists' = lists /\ nextList' = nextList /\ inbox' = inbox
    BY <1>5 DEF db, world
  <2> QED  BY <1>2, <1>4, <1>5, <1>6, <2>1, <2>2, <2>3 DEF NoticeCovered, Settled
<1>9. RowsKept
  BY <1>5 DEF RowsKept, db
<1>10. RepliesReachTheirList'
  BY <1>5 DEF IInv, RepliesReachTheirList, db, world
<1> QED  BY <1>6, <1>7, <1>8, <1>9, <1>10, RowsKeptSound DEF IInv

LEMMA StopNextStep == ASSUME IInv, StopNext PROVE IInv'
<1>1. PICK l \in handler[Chat].todo :
         /\ UpdateListStatus(l, "stopped")
         /\ Goto(Chat, [handler[Chat] EXCEPT !.todo = @ \ {l}])
  BY DEF StopNext
<1> DEFINE local == [handler[Chat] EXCEPT !.todo = @ \ {l}]
<1>2. handler[Chat] \in [pc : {"stopping"}, notice : Notice, todo : SUBSET ListIds, from : Nat]
  BY LocalType, ChatIsHandler DEF IInv, StopNext
<1>3. /\ local \in Locals
      /\ local.pc = "stopping" /\ local.notice = handler[Chat].notice
      /\ local.todo = handler[Chat].todo \ {l} /\ local.from = handler[Chat].from
  BY <1>2 DEF Locals
<1>4. Goto(Chat, local) /\ UNCHANGED <<nextList, waGroups, messageMap, world, sync, revived>>
  BY <1>1 DEF StopNext
<1> HIDE DEF local
<1>5. handler' \in [Handlers -> Locals] /\ HandlersSound' /\ handler'[Chat] = local
  BY <1>3, <1>4, ChatIsHandler, PlainLocal, HandlerGoes, GotoType DEF IInv, world
<1>6. /\ DOMAIN lists' = DOMAIN lists
      /\ \A k \in DOMAIN lists : lists'[k] \in ListRow
      /\ RowsKept
      /\ \A k \in DOMAIN lists : lists'[k].status = IF k = l THEN "stopped" ELSE lists[k].status
  <2>1. l \in ListIds
    BY <1>2
  <2> QED  BY <1>1, <1>4, <2>1, StatusUpdated
<1>7. TypeOK'
  BY <1>4, <1>5, <1>6 DEF IInv, TypeOK, world
<1>8. NoticeCovered'
  <2>1. \A k : k \in Concerned(handler[Chat].notice)' =>
                 k \in Concerned(handler[Chat].notice) /\ k \in DOMAIN lists
    BY <1>3, <1>5, <1>6 DEF Concerned, RowsKept
  <2>2. inbox # <<>> /\ handler[Chat].from <= nextList
    BY DEF IInv, NoticeCovered, StopNext
  <2>3. \A k \in Concerned(handler[Chat].notice) : Settled(k)
    BY DEF IInv, NoticeCovered, StopNext
  <2>4. ASSUME NEW k \in Concerned(handler[Chat].notice)' PROVE Settled(k)'
    BY <1>3, <1>4, <1>5, <1>6, <2>1, <2>3 DEF Settled, RowsKept
  <2> QED  BY <1>3, <1>4, <1>5, <2>2, <2>4 DEF NoticeCovered, world
<1>9. RepliesReachTheirList'
  BY <1>4, <1>6 DEF IInv, RepliesReachTheirList, RowsKept, world
<1> QED  BY <1>5, <1>6, <1>7, <1>8, <1>9, RowsKeptSound DEF IInv

LEMMA TailType == ASSUME TypeOK, inbox # <<>> PROVE Tail(inbox) \in Seq(Notice)
BY DEF TypeOK

LEMMA FinishStoppingStep == ASSUME IInv, FinishStopping PROVE IInv'
<1>1. inbox' \in Seq(Notice)
  BY TailType DEF IInv, NoticeCovered, FinishStopping
<1>2. waGroups' \subseteq Groups
  BY DEF IInv, TypeOK, FinishStopping
<1>3. /\ handler' \in [Handlers -> Locals] /\ HandlersSound'
      /\ handler'[Chat] = Idle
  BY ChatIsHandler, IdleType, PlainLocal, HandlerGoes, GotoType DEF IInv, FinishStopping
<1>4. TypeOK'
  BY <1>1, <1>2, <1>3 DEF IInv, TypeOK, FinishStopping
<1>5. RowsKept
  BY DEF RowsKept, FinishStopping
<1>6. (NoticeCovered /\ RepliesReachTheirList)'
  BY <1>3, IdleType DEF IInv, NoticeCovered, RepliesReachTheirList, FinishStopping
<1> QED  BY <1>3, <1>4, <1>5, <1>6, RowsKeptSound DEF IInv

LEMMA JoinedGroupStep == ASSUME IInv, JoinedGroup PROVE IInv'
<1>1. inbox' \in Seq(Notice)
  BY TailType DEF IInv, JoinedGroup
<1>2. Head(inbox) \in Notice /\ Head(inbox).group \in Groups
  BY DEF IInv, TypeOK, JoinedGroup, Notice
<1>3. TypeOK'
  BY <1>1, <1>2 DEF IInv, TypeOK, JoinedGroup
<1>4. RowsKept
  BY DEF RowsKept, JoinedGroup
<1>5. (HandlersSound /\ NoticeCovered /\ RepliesReachTheirList)'
  BY IdleType DEF IInv, HandlersSound, LocalSound, NoticeCovered, RepliesReachTheirList,
                  JoinedGroup
<1> QED  BY <1>3, <1>4, <1>5, RowsKeptSound DEF IInv

\* The groups, and the sync of the groups
LEMMA SyncStep ==
    ASSUME IInv, waGroups' \subseteq Groups, sync' \subseteq Groups,
           UNCHANGED <<lists, nextList, messageMap, world, handler, revived>>
    PROVE  IInv'
<1>1. TypeOK'
  BY DEF IInv, TypeOK, world
<1>2. RowsKept
  BY DEF RowsKept
<1>3. NoticeCovered'
  BY <1>2, NoticeKept DEF world
<1>4. (HandlersSound /\ RepliesReachTheirList)'
  BY DEF IInv, HandlersSound, LocalSound, RepliesReachTheirList, world
<1> QED  BY <1>1, <1>2, <1>3, <1>4, RowsKeptSound DEF IInv

LEMMA SyncSteps == ASSUME IInv, SyncRequest \/ SyncUpsert PROVE IInv'
<1>1. botIn \subseteq Groups /\ waGroups \subseteq Groups /\ sync \subseteq Groups
  BY DEF IInv, TypeOK
<1> QED  BY <1>1, SyncStep DEF SyncRequest, SyncUpsert, db

LEMMA CrashStep == ASSUME IInv, Crash PROVE IInv'
<1>1. inbox' \in Seq(Notice)
  BY TailType DEF IInv, TypeOK, NoticeCovered, Crash
<1>2. TypeOK'
  BY <1>1, IdleType DEF IInv, TypeOK, Crash, db
<1>3. RowsKept
  BY DEF RowsKept, Crash, db
<1>4. (HandlersSound /\ NoticeCovered /\ RepliesReachTheirList)'
  BY IdleType, ChatIsHandler DEF IInv, HandlersSound, LocalSound, NoticeCovered,
                                 RepliesReachTheirList, Crash, db
<1> QED  BY <1>2, <1>3, <1>4, RowsKeptSound DEF IInv

LEMMA HandlerSteps ==
    ASSUME ListLifecycleAssumption, IInv, NEW h \in Handlers, HandlerStep(h)
    PROVE  IInv'
<1>1. CASE BeginWebCreate(h)
  <2>1. botIn \subseteq Groups
    BY DEF IInv, TypeOK
  <2> QED  BY <1>1, <2>1, StartCreateStep DEF BeginWebCreate
<1>2. CASE BeginPublish(h)
  BY <1>2, LoadOpenStep DEF BeginPublish
<1>3. CASE BeginStop(h)
  BY <1>3, BeginListStep DEF BeginStop
<1>4. CASE BeginDeleteList(h)
  BY <1>4, BeginListStep DEF BeginDeleteList
<1> QED  BY <1>1, <1>2, <1>3, <1>4, CheckNameStep, InsertListStep, CountTasksStep, ActivateStep,
            SendSummaryStep, SaveMessageMappingStep, StopListStep, DeleteMessageMapByListStep,
            DeleteTaskListStep DEF HandlerStep

LEMMA NextPreserves == ASSUME ListLifecycleAssumption, IInv, [Next]_vars PROVE IInv'
<1>1. CASE UNCHANGED vars
  <2>1. waGroups' \subseteq Groups /\ sync' \subseteq Groups
    BY <1>1 DEF IInv, TypeOK, vars
  <2> QED  BY <1>1, <2>1, SyncStep DEF vars, world
<1>2. CASE BeginAddList
  <2>1. waGroups \subseteq Groups
    BY DEF IInv, TypeOK
  <2> QED  BY <1>2, <2>1, ChatIsHandler, StartCreateStep DEF BeginAddList
<1>3. CASE BeginDeleteTask
  BY <1>3, ChatIsHandler, LoadOpenStep DEF BeginDeleteTask
<1>4. CASE NoticeStep
  BY <1>4, BeginStoppingStep, StopNextStep, FinishStoppingStep, JoinedGroupStep DEF NoticeStep
<1> QED  BY <1>1, <1>2, <1>3, <1>4, DeleteTaskStep, HandlerSteps, FillOrEmptyStep, GroupSteps,
            SyncSteps, CrashStep DEF Next

LEMMA Invariance == Spec => []IInv
<1>1. Init => IInv
  BY InitEstablishes, ListLifecycleAssumption
<1>2. IInv /\ [Next]_vars => IInv'
  BY NextPreserves, ListLifecycleAssumption
<1> QED  BY <1>1, <1>2, PTL DEF Spec

\* Type correctness of the list lifecycle.
THEOREM TypeCorrect == Spec => []TypeOK
<1>1. IInv => TypeOK
  BY DEF IInv
<1> QED  BY <1>1, Invariance, PTL

\* Within a group a name is the name of one list, whatever commands and web forms
\* look it up and insert it in between: the chat finds a list by its name.
THEOREM NamesAreUnique == Spec => []NamesUnique
<1>1. IInv => NamesUnique
  BY DEF IInv
<1> QED  BY <1>1, Invariance, PTL

\* A reply to a summary reaches the list that the summary showed or none, even
\* when the summary of a deleted list is recorded after other lists were created.
THEOREM RepliesReach == Spec => []RepliesReachTheirList
<1>1. IInv => RepliesReachTheirList
  BY DEF IInv
<1> QED  BY <1>1, Invariance, PTL
-----------------------------------------------------------------------------
\* A publish of l that read it unpublished and has not written yet
InFlight(local, l) ==
    local.pc \in {"count", "activate"} /\ local.list = l /\ local.read.status = "unpublished"

NoneStarts(l) == \A h \in Handlers : InFlight(handler[h], l)' => InFlight(handler[h], l)

LEMMA NoneStartsBy ==
    ASSUME IInv, NEW l, NEW h \in Handlers, NEW local, Goto(h, local),
           InFlight(local, l) => InFlight(handler[h], l)
    PROVE  NoneStarts(l)
<1>1. handler'[h] = local /\ \A i \in Handlers \ {h} : handler'[i] = handler[i]
  BY DEF IInv, TypeOK, Goto
<1> QED  BY <1>1 DEF NoneStarts, InFlight

\* Locals of no publish
LEMMA NotInFlight ==
    ASSUME NEW l, NEW local, local.pc \notin {"count", "activate"}
    PROVE  ~InFlight(local, l)
BY DEF InFlight

LEMMA IdleNotInFlight == ASSUME NEW l PROVE ~InFlight(Idle, l)
BY IdleType DEF InFlight

\* A publish of l begins.
Starts(l) ==
    /\ l \in DOMAIN lists /\ lists[l].status = "unpublished"
    /\ UNCHANGED <<db, world>>

\* Only an unpublished list is loaded to be published.
LEMMA LoadsUnpublished ==
    ASSUME IInv, NEW l, NEW h \in Handlers, NEW pc \in {"count", "delete"}, LoadOpen(h, pc)
    PROVE  NoneStarts(l) \/ Starts(l)
<1>1. PICK k \in DOMAIN lists :
         Goto(h, [pc |-> pc, list |-> k,
                  read |-> [group |-> lists[k].group, status |-> lists[k].status,
                            serial |-> lists[k].serial]])
  BY DEF LoadOpen
<1> DEFINE read == [group |-> lists[k].group, status |-> lists[k].status,
                    serial |-> lists[k].serial]
           local == [pc |-> pc, list |-> k, read |-> read]
<1>2. /\ Goto(h, local)
      /\ local.list = k /\ local.read = read /\ read.status = lists[k].status
  BY <1>1
<1> HIDE DEF local, read
<1>3. CASE InFlight(local, l)
  <2>1. l \in DOMAIN lists /\ lists[l].status = "unpublished"
    BY <1>2, <1>3 DEF InFlight
  <2> QED  BY <2>1 DEF Starts, LoadOpen
<1>4. CASE ~InFlight(local, l)
  BY <1>2, <1>4, NoneStartsBy
<1> QED  BY <1>3, <1>4

LEMMA PublishStarts == ASSUME IInv, [Next]_vars, NEW l PROVE NoneStarts(l) \/ Starts(l)
<1>1. CASE UNCHANGED handler
  BY <1>1 DEF NoneStarts, InFlight
<1>2. ASSUME NEW h \in Handlers, NEW name, NEW g, NEW a, StartCreate(h, name, g, a)
      PROVE  NoneStarts(l)
  BY <1>2, NotInFlight, NoneStartsBy DEF StartCreate
<1>3. CASE BeginAddList
  BY <1>2, <1>3, ChatIsHandler DEF BeginAddList
<1>4. CASE BeginDeleteTask
  BY <1>4, ChatIsHandler, LoadsUnpublished DEF BeginDeleteTask
<1>5. CASE DeleteTask
  <2>1. handler[Chat].pc = "delete"
    BY <1>5 DEF DeleteTask
  <2> DEFINE local == [handler[Chat] EXCEPT !.pc = "send"]
  <2>2. local.pc = "send"
    BY <2>1, ChatIsHandler, GoesOn DEF IInv
  <2>3. Goto(Chat, Idle) \/ Goto(Chat, local)
    BY <1>5 DEF DeleteTask
  <2> HIDE DEF local
  <2>4. ~InFlight(local, l) /\ ~InFlight(Idle, l)
    BY <2>2, NotInFlight, IdleNotInFlight
  <2> QED  BY <2>3, <2>4, ChatIsHandler, NoneStartsBy
<1>6. ASSUME NEW h \in Handlers, HandlerStep(h) PROVE NoneStarts(l) \/ Starts(l)
  <2>1. CASE Goto(h, Idle)
    BY <2>1, IdleNotInFlight, NoneStartsBy
  <2>2. CASE BeginWebCreate(h)
    BY <1>2, <2>2 DEF BeginWebCreate
  <2>3. CASE BeginPublish(h)
    BY <2>3, LoadsUnpublished DEF BeginPublish
  <2>4. CASE BeginStop(h) \/ BeginDeleteList(h)
    <3>1. PICK k \in ListIds, pc \in {"stop", "unmap"} : Goto(h, [pc |-> pc, list |-> k])
      BY <2>4 DEF BeginStop, BeginDeleteList, IInv, TypeOK
    <3> QED  BY <3>1, NotInFlight, NoneStartsBy
  <2>5. CASE CheckName(h) /\ ~Goto(h, Idle)
    <3> DEFINE local == [handler[h] EXCEPT !.pc = "insert"]
    <3>1. Goto(h, local) /\ local.pc = "insert"
      BY <2>5, LocalType DEF IInv, CheckName
    <3> HIDE DEF local
    <3> QED  BY <3>1, NotInFlight, NoneStartsBy
  <2>6. CASE CountTasks(h) /\ ~Goto(h, Idle)
    <3> DEFINE local == [handler[h] EXCEPT !.pc = "activate"]
    <3>1. handler[h].pc = "count" /\ Goto(h, local)
      BY <2>6 DEF CountTasks
    <3>2. local.list = handler[h].list /\ local.read = handler[h].read
      BY <3>1, LocalType DEF IInv
    <3> HIDE DEF local
    <3>3. InFlight(local, l) => InFlight(handler[h], l)
      BY <3>1, <3>2 DEF InFlight
    <3> QED  BY <3>1, <3>3, NoneStartsBy
  <2>7. CASE Activate(h)
    <3> DEFINE local == [handler[h] EXCEPT !.pc = "send"]
    <3>1. Goto(h, local) /\ local.pc = "send"
      BY <2>7, GoesOn DEF Activate
    <3> HIDE DEF local
    <3> QED  BY <3>1, NotInFlight, NoneStartsBy
  <2>8. CASE SendSummary(h) /\ ~Goto(h, Idle)
    <3>1. PICK k, m : Goto(h, [pc |-> "map", list |-> k, message |-> m])
      BY <2>8 DEF SendSummary
    <3> QED  BY <3>1, NotInFlight, NoneStartsBy
  <2>9. CASE DeleteMessageMapByList(h)
    <3> DEFINE local == [handler[h] EXCEPT !.pc = "drop"]
    <3>1. Goto(h, local) /\ local.pc = "drop"
      BY <2>9, LocalType DEF IInv, DeleteMessageMapByList
    <3> HIDE DEF local
    <3> QED  BY <3>1, NotInFlight, NoneStartsBy
  <2>10. InsertList(h) \/ SaveMessageMapping(h) \/ StopList(h) \/ DeleteTaskList(h) =>
            Goto(h, Idle)
    BY DEF InsertList, SaveMessageMapping, StopList, DeleteTaskList
  <2> QED  BY <1>6, <2>1, <2>2, <2>3, <2>4, <2>5, <2>6, <2>7, <2>8, <2>9, <2>10
           DEF HandlerStep
<1>7. CASE BeginStopping
  <2>1. PICK local : local.pc = "stopping" /\ Goto(Chat, local)
    BY <1>7 DEF BeginStopping
  <2> QED  BY <2>1, ChatIsHandler, NotInFlight, NoneStartsBy
<1>8. CASE StopNext
  <2>1. handler[Chat].pc = "stopping"
    BY <1>8 DEF StopNext
  <2>2. PICK k : Goto(Chat, [handler[Chat] EXCEPT !.todo = @ \ {k}])
    BY <1>8 DEF StopNext
  <2> DEFINE local == [handler[Chat] EXCEPT !.todo = @ \ {k}]
  <2>3. Goto(Chat, local) /\ local.pc = "stopping"
    BY <2>1, <2>2, LocalType, ChatIsHandler DEF IInv
  <2> HIDE DEF local
  <2> QED  BY <2>3, ChatIsHandler, NotInFlight, NoneStartsBy
<1>9. CASE FinishStopping
  BY <1>9, ChatIsHandler, IdleNotInFlight, NoneStartsBy DEF FinishStopping
<1>10. CASE Crash
  BY <1>10, IdleNotInFlight DEF Crash, NoneStarts, InFlight
<1>11. UNCHANGED vars \/ JoinedGroup \/ SyncRequest \/ SyncUpsert => UNCHANGED handler
  BY DEF vars, JoinedGroup, SyncRequest, SyncUpsert
<1>12. \A k, g : FillOrEmpty(k) \/ GroupStep(g) => UNCHANGED handler
  BY DEF FillOrEmpty, GroupStep, KickBot, AddBot, OwnerLeaves
<1> QED  BY <1>1, <1>3, <1>4, <1>5, <1>6, <1>7, <1>8, <1>9, <1>10, <1>11, <1>12
         DEF Next, NoticeStep

\* Only a publish in flight takes a list out of "stopped".
LEMMA StatusStays ==
    ASSUME IInv, [Next]_vars, NEW l \in ListIds, StoppedForGood(l), l \in DOMAIN lists'
    PROVE  lists'[l].status = "stopped"
<1>1. l \in DOMAIN lists /\ lists[l].status = "stopped" /\ lists[l] \in ListRow
  BY DEF StoppedForGood, IInv, TypeOK
<1>2. CASE UNCHANGED lists
  BY <1>1, <1>2
<1>3. \A k, s : UpdateListStatus(k, s) /\ (k = l => s = "stopped") =>
                   lists'[l].status = "stopped"
  BY <1>1 DEF UpdateListStatus, ListRow
<1>4. \A k, b : lists' = [lists EXCEPT ![k].filled = b] => lists'[l].status = "stopped"
  BY <1>1 DEF ListRow
<1>5. CASE DeleteTask
  BY <1>2, <1>4, <1>5 DEF DeleteTask
<1>6. ASSUME NEW k, FillOrEmpty(k) PROVE lists'[l].status = "stopped"
  BY <1>4, <1>6 DEF FillOrEmpty
<1>7. CASE StopNext
  BY <1>3, <1>7 DEF StopNext
<1>8. ASSUME NEW h \in Handlers, HandlerStep(h) PROVE lists'[l].status = "stopped"
  <2>1. CASE InsertList(h)
    BY <1>1, <1>2, <2>1 DEF InsertList, CreateTaskList, InsertListRow
  <2>2. CASE Activate(h)
    <3>1. handler[h].list = l => handler[h].read.status # "unpublished"
      BY <2>2 DEF Activate, StoppedForGood, PublishInFlight
    <3> QED  BY <1>2, <1>3, <2>2, <3>1 DEF Activate
  <2>3. CASE StopList(h)
    BY <1>3, <2>3 DEF StopList
  <2>4. CASE DeleteTaskList(h)
    BY <1>1, <2>4 DEF DeleteTaskList, Restrict
  <2>5. CheckName(h) \/ CountTasks(h) \/ SendSummary(h) \/ SaveMessageMapping(h)
           \/ DeleteMessageMapByList(h) => UNCHANGED lists
    BY DEF CheckName, CountTasks, SendSummary, SaveMessageMapping, DeleteMessageMapByList, db
  <2>6. BeginWebCreate(h) \/ BeginPublish(h) \/ BeginStop(h) \/ BeginDeleteList(h) =>
           UNCHANGED lists
    BY DEF BeginWebCreate, StartCreate, BeginPublish, LoadOpen, BeginStop, BeginDeleteList, db
  <2> QED  BY <1>2, <1>8, <2>1, <2>2, <2>3, <2>4, <2>5, <2>6 DEF HandlerStep
<1>9. UNCHANGED vars \/ BeginAddList \/ BeginDeleteTask \/ BeginStopping \/ FinishStopping
         \/ JoinedGroup \/ SyncRequest \/ SyncUpsert \/ Crash => UNCHANGED lists
  BY DEF vars, BeginAddList, StartCreate, BeginDeleteTask, LoadOpen, BeginStopping,
         FinishStopping, JoinedGroup, SyncRequest, SyncUpsert, Crash, db
<1>10. \A g : GroupStep(g) => UNCHANGED lists
  BY DEF GroupStep, KickBot, AddBot, OwnerLeaves, db
<1> QED  BY <1>2, <1>5, <1>6, <1>7, <1>8, <1>9, <1>10 DEF Next, NoticeStep

\* The answer to stop-list holds for good: a list that is stopped, with no publish
\* under way that read it before, is never opened again.
THEOREM StoppedStaysStopped == Spec => StopIsFinalOnceSettled
<1>1. ASSUME IInv, [Next]_vars, NEW l \in ListIds, StoppedForGood(l), l \in DOMAIN lists'
      PROVE  StoppedForGood(l)'
  <2>1. lists'[l].status = "stopped"
    BY <1>1, StatusStays
  <2>2. ~PublishInFlight(l)'
    BY <1>1, PublishStarts DEF Starts, NoneStarts, InFlight, StoppedForGood, PublishInFlight
  <2> QED  BY <1>1, <2>1, <2>2 DEF StoppedForGood
<1>2. IInv /\ [Next]_vars =>
         [\A l \in ListIds :
             StoppedForGood(l) /\ (l \in DOMAIN lists') => StoppedForGood(l)']_vars
  BY <1>1
<1> QED  BY <1>2, Invariance, PTL DEF Spec, StopIsFinalOnceSettled

\* A kick or the departure of an owner leaves none of the lists it concerns open,
\* but for those that were inserted or revived meanwhile.
THEOREM NoticesAreHeeded == Spec => NoticeStopsLists
<1>1. ASSUME IInv, FinishStopping
      PROVE  \A l \in Concerned(handler[Chat].notice) :
                \/ lists[l].status = "stopped"
                \/ lists[l].serial >= handler[Chat].from
                \/ l \in revived
  BY <1>1 DEF IInv, NoticeCovered, Settled, FinishStopping
<1>2. IInv /\ [Next]_vars =>
         [FinishStopping =>
             \A l \in Concerned(handler[Chat].notice) :
                \/ lists[l].status = "stopped"
                \/ lists[l].serial >= handler[Chat].from
                \/ l \in revived]_vars
  BY <1>1
<1> QED  BY <1>2, Invariance, PTL DEF Spec, NoticeStopsLists

-----------------------------------------------------------------------------
(***************************************************************************)
(* Each list implements ListStages.                                        *)
(***************************************************************************)
\* A list that is, or was, published, or is gone
Seen(l) ==
    /\ l \in Nat /\ l < nextList
    /\ l \in DOMAIN lists => lists[l].status # "unpublished"

\* Who is about to post a summary of a list has published it or read it active.
LocalSeen(local) ==
    /\ local.pc \in {"count", "activate", "delete"} =>
          /\ local.list \in Nat /\ local.list < nextList
          /\ local.read.status = "active" => Seen(local.list)
    /\ local.pc \in {"send", "map"} => Seen(local.list)

\* The second inductive invariant
HandlersSeen == \A h \in Handlers : LocalSeen(handler[h])

\* A step that leaves alone what the stages are made of
Quiet ==
    /\ UNCHANGED <<nextList, posted, messageMap>>
    /\ DOMAIN lists' = DOMAIN lists
    /\ \A l \in DOMAIN lists : lists'[l].status = lists[l].status

LEMMA QuietSteps ==
    ASSUME IInv, [Next]_vars
    PROVE  \/ Quiet
           \/ StopNext
           \/ \E h \in Handlers :
                  \/ InsertList(h) \/ Activate(h) \/ StopList(h)
                  \/ SendSummary(h) \/ SaveMessageMapping(h)
                  \/ DeleteMessageMapByList(h) \/ DeleteTaskList(h)
<1>1. ASSUME UNCHANGED <<db, posted>> PROVE Quiet
  BY <1>1 DEF Quiet, db
<1>2. ASSUME UNCHANGED <<lists, nextList, messageMap, posted>> PROVE Quiet
  BY <1>2 DEF Quiet
<1>3. ASSUME NEW l \in DOMAIN lists, NEW b \in BOOLEAN,
             lists' = [lists EXCEPT ![l].filled = b], UNCHANGED <<nextList, posted, messageMap>>
      PROVE  Quiet
  BY <1>3, TasksUpdated DEF Quiet
<1>4. CASE DeleteTask
  BY <1>2, <1>3, <1>4 DEF DeleteTask, world
<1>5. ASSUME NEW l, FillOrEmpty(l) PROVE Quiet
  <2>1. \E b \in BOOLEAN : lists' = [lists EXCEPT ![l].filled = b]
    BY <1>5 DEF FillOrEmpty
  <2> QED  BY <1>3, <1>5, <2>1 DEF FillOrEmpty, world
<1>6. UNCHANGED vars \/ BeginAddList \/ BeginDeleteTask \/ BeginStopping \/ SyncRequest \/ Crash
         => UNCHANGED <<db, posted>>
  BY DEF vars, BeginAddList, StartCreate, BeginDeleteTask, LoadOpen, BeginStopping, SyncRequest,
         Crash, db, world
<1>7. FinishStopping \/ JoinedGroup \/ SyncUpsert
         => UNCHANGED <<lists, nextList, messageMap, posted>>
  BY DEF FinishStopping, JoinedGroup, SyncUpsert, world
<1>8. \A g : GroupStep(g) => UNCHANGED <<db, posted>>
  BY DEF GroupStep, KickBot, AddBot, OwnerLeaves
<1>9. \A h : BeginWebCreate(h) \/ CheckName(h) \/ BeginPublish(h) \/ CountTasks(h)
                \/ BeginStop(h) \/ BeginDeleteList(h) => UNCHANGED <<db, posted>>
  BY DEF BeginWebCreate, StartCreate, CheckName, BeginPublish, LoadOpen, CountTasks, BeginStop,
         BeginDeleteList, world
<1> QED  BY <1>1, <1>2, <1>4, <1>5, <1>6, <1>7, <1>8, <1>9 DEF Next, NoticeStep, HandlerStep

\* What becomes of the rows there are, and of the sequence
Rows ==
    /\ nextList \in Nat /\ nextList' \in Nat /\ nextList <= nextList'
    /\ \A l \in DOMAIN lists' : l < nextList =>
          l \in DOMAIN lists /\ lists'[l].status \in {lists[l].status, "active", "stopped"}

LEMMA RowSteps == ASSUME IInv, IInv', [Next]_vars PROVE Rows
<1>1. nextList \in Nat /\ nextList' \in Nat
  BY DEF IInv, TypeOK
<1>2. CASE Quiet
  BY <1>1, <1>2 DEF Quiet, Rows
<1>3. ASSUME NEW k \in ListIds, NEW s \in {"active", "stopped"}, UpdateListStatus(k, s),
             UNCHANGED nextList
      PROVE  Rows
  <2>1. /\ DOMAIN lists' = DOMAIN lists
        /\ \A l \in DOMAIN lists : lists'[l].status = IF l = k THEN s ELSE lists[l].status
    BY <1>3, StatusUpdated DEF Open
  <2> QED  BY <1>1, <1>3, <2>1 DEF Rows
<1>4. CASE StopNext
  <2>1. handler[Chat].todo \subseteq ListIds
    BY <1>4, LocalType, ChatIsHandler DEF IInv, StopNext
  <2> QED  BY <1>3, <1>4, <2>1 DEF StopNext
<1>5. ASSUME UNCHANGED <<lists, nextList>> PROVE Rows
  BY <1>1, <1>5 DEF Rows
<1>6. ASSUME NEW h \in Handlers, InsertList(h) PROVE Rows
  BY <1>1, <1>5, <1>6 DEF InsertList, CreateTaskList, InsertListRow, NextListId, Rows
<1>7. ASSUME NEW h \in Handlers, Activate(h) PROVE Rows
  <2>1. handler[h].list \in ListIds
    BY <1>7, LocalType DEF IInv, Activate
  <2> QED  BY <1>3, <1>5, <1>7, <2>1 DEF Activate
<1>8. ASSUME NEW h \in Handlers, StopList(h) PROVE Rows
  <2>1. handler[h].list \in ListIds
    BY <1>8, LocalType DEF IInv, StopList
  <2> QED  BY <1>3, <1>8, <2>1 DEF StopList
<1>9. ASSUME NEW h \in Handlers, DeleteTaskList(h) PROVE Rows
  BY <1>1, <1>9 DEF DeleteTaskList, Restrict, Rows
<1>10. ASSUME NEW h \in Handlers,
              SendSummary(h) \/ SaveMessageMapping(h) \/ DeleteMessageMapByList(h)
       PROVE  Rows
  BY <1>5, <1>10 DEF SendSummary, SaveMessageMapping, DeleteMessageMapByList, db
<1> QED  BY <1>2, <1>4, <1>6, <1>7, <1>8, <1>9, <1>10, QuietSteps

LEMMA SeenStays == ASSUME Rows, NEW l, Seen(l) PROVE Seen(l)'
<1>1. l \in Nat /\ l < nextList /\ (l \in DOMAIN lists => lists[l].status # "unpublished")
  BY DEF Seen
<1>2. nextList \in Nat /\ nextList' \in Nat /\ nextList <= nextList'
  BY DEF Rows
<1>3. ASSUME l \in DOMAIN lists' PROVE lists'[l].status # "unpublished"
  <2>1. l \in DOMAIN lists /\ lists'[l].status \in {lists[l].status, "active", "stopped"}
    BY <1>1, <1>3 DEF Rows
  <2> QED  BY <1>1, <2>1
<1>4. l < nextList'
  BY <1>1, <1>2
<1> QED  BY <1>1, <1>3, <1>4 DEF Seen

LEMMA LocalSeenStays == ASSUME Rows, NEW local, LocalSeen(local) PROVE LocalSeen(local)'
BY SeenStays DEF LocalSeen, Rows

LEMMA SeenGoes ==
    ASSUME IInv, Rows, HandlersSeen, NEW h \in Handlers, NEW local, Goto(h, local),
           LocalSeen(local)'
    PROVE  HandlersSeen'
<1>1. handler'[h] = local /\ \A i \in Handlers \ {h} : handler'[i] = handler[i]
  BY DEF IInv, TypeOK, Goto
<1>2. ASSUME NEW i \in Handlers \ {h}, NEW other, other = handler[i] PROVE LocalSeen(handler[i])'
  <2>1. LocalSeen(other)'
    BY <1>2, LocalSeenStays DEF HandlersSeen
  <2> QED  BY <1>1, <1>2, <2>1 DEF LocalSeen, Seen
<1>3. LocalSeen(handler[h])'
  BY <1>1 DEF LocalSeen, Seen
<1> QED  BY <1>2, <1>3 DEF HandlersSeen

LEMMA PlainSeen ==
    ASSUME NEW local, local.pc \notin {"count", "activate", "delete", "send", "map"}
    PROVE  LocalSeen(local)
BY DEF LocalSeen

LEMMA LoadedSeen ==
    ASSUME IInv, Rows, HandlersSeen, NEW h \in Handlers, NEW pc \in {"count", "delete"},
           LoadOpen(h, pc)
    PROVE  HandlersSeen'
<1>0. PICK k \in DOMAIN lists :
        \E read :
           /\ read = [group |-> lists[k].group, status |-> lists[k].status,
                      serial |-> lists[k].serial]
           /\ Goto(h, [pc |-> pc, list |-> k, read |-> read])
  BY DEF LoadOpen
<1>1. PICK read :
         /\ read = [group |-> lists[k].group, status |-> lists[k].status,
                    serial |-> lists[k].serial]
         /\ Goto(h, [pc |-> pc, list |-> k, read |-> read])
  BY <1>0
<1>2. k \in Nat /\ k < nextList /\ read.status = lists[k].status
  BY <1>1 DEF IInv, TypeOK, SerialIsId, ListIds
<1>3. LocalSeen([pc |-> pc, list |-> k, read |-> read])
  BY <1>2 DEF LocalSeen, Seen
<1> QED  BY <1>1, <1>3, LocalSeenStays, SeenGoes

LEMMA SeenStep ==
    ASSUME IInv, IInv', HandlersSeen, [Next]_vars
    PROVE  HandlersSeen'
<1>1. Rows
  BY RowSteps
<1>2. ASSUME UNCHANGED handler PROVE HandlersSeen'
  <2>1. ASSUME NEW h \in Handlers, NEW local, local = handler[h] PROVE LocalSeen(handler[h])'
    <3>1. LocalSeen(local)'
      BY <1>1, <2>1, LocalSeenStays DEF HandlersSeen
    <3> QED  BY <1>2, <2>1, <3>1 DEF LocalSeen, Seen
  <2> QED  BY <2>1 DEF HandlersSeen
<1>3. ASSUME NEW h \in Handlers, NEW local, Goto(h, local),
             local.pc \notin {"count", "activate", "delete", "send", "map"}
      PROVE  HandlersSeen'
  BY <1>1, <1>3, PlainSeen, LocalSeenStays, SeenGoes
<1>4. ASSUME NEW h \in Handlers, Goto(h, Idle) PROVE HandlersSeen'
  BY <1>3, <1>4, IdleType
<1>5. ASSUME NEW h \in Handlers, NEW name, NEW g, NEW a, StartCreate(h, name, g, a)
      PROVE  HandlersSeen'
  BY <1>3, <1>5 DEF StartCreate
<1>6. CASE BeginAddList
  BY <1>5, <1>6, ChatIsHandler DEF BeginAddList
<1>7. CASE BeginDeleteTask
  BY <1>1, <1>7, ChatIsHandler, LoadedSeen DEF BeginDeleteTask
<1>8. ASSUME NEW h \in Handlers, NEW pc \in {"activate", "send"}, NEW local, NEW l,
             handler[h].pc \in {"count", "activate", "delete"}, handler[h].list = l,
             local = [handler[h] EXCEPT !.pc = pc], Goto(h, local),
             pc = "send" => Seen(l) \/ Seen(l)'
      PROVE  HandlersSeen'
  <2>1. local.pc = pc /\ local.list = l /\ local.read = handler[h].read
    BY <1>8, LocalType DEF IInv
  <2>2. /\ l \in Nat /\ l < nextList
        /\ local.read.status = "active" => Seen(l)
    BY <1>8, <2>1 DEF HandlersSeen, LocalSeen
  <2>3. CASE pc = "activate"
    <3>1. LocalSeen(local)
      BY <2>1, <2>2, <2>3 DEF LocalSeen
    <3> QED  BY <1>1, <1>8, <3>1, LocalSeenStays, SeenGoes
  <2>4. CASE pc = "send"
    <3>1. Seen(l)'
      BY <1>1, <1>8, <2>4, SeenStays
    <3>2. LocalSeen(local)'
      BY <2>1, <2>4, <3>1 DEF LocalSeen, Seen
    <3> QED  BY <1>1, <1>8, <3>2, SeenGoes
  <2> QED  BY <2>3, <2>4
<1>9. CASE DeleteTask
  <2>1. CASE Goto(Chat, Idle)
    BY <1>4, <2>1, ChatIsHandler
  <2>2. CASE ~Goto(Chat, Idle)
    <3>1. PICK local : local = [handler[Chat] EXCEPT !.pc = "send"] /\ Goto(Chat, local)
      BY <1>9, <2>2 DEF DeleteTask
    <3>2. handler[Chat].pc = "delete" /\ handler[Chat].read.status = "active"
      BY <1>9, <2>2 DEF DeleteTask, PostsList
    <3>3. PICK l : l = handler[Chat].list
      OBVIOUS
    <3>4. Seen(l)
      BY <3>2, <3>3, ChatIsHandler DEF HandlersSeen, LocalSeen
    <3> QED  BY <1>8, <3>1, <3>2, <3>3, <3>4, ChatIsHandler
  <2> QED  BY <2>1, <2>2
<1>10. ASSUME NEW h \in Handlers, CountTasks(h) PROVE HandlersSeen'
  <2>1. CASE Goto(h, Idle)
    BY <1>4, <2>1
  <2>2. CASE ~Goto(h, Idle)
    <3>1. PICK local, l : /\ local = [handler[h] EXCEPT !.pc = "activate"] /\ Goto(h, local)
                          /\ l = handler[h].list
      BY <1>10, <2>2 DEF CountTasks
    <3> QED  BY <1>8, <1>10, <3>1 DEF CountTasks
  <2> QED  BY <2>1, <2>2
<1>11. ASSUME NEW h \in Handlers, Activate(h) PROVE HandlersSeen'
  <2>1. PICK local : local = [handler[h] EXCEPT !.pc = "send"] /\ Goto(h, local)
    BY <1>11 DEF Activate
  <2>2. PICK l \in ListIds : l = handler[h].list
    BY <1>11, LocalType DEF IInv, Activate
  <2>3. handler[h].pc = "activate" /\ handler[h].read.status \in Open
    BY <1>11, LocalType DEF IInv, Activate, Snapshots
  <2>4. l \in Nat /\ l < nextList /\ (handler[h].read.status = "active" => Seen(l))
    BY <2>2, <2>3 DEF HandlersSeen, LocalSeen
  <2>5. CASE handler[h].read.status = "unpublished"
    <3>1. UpdateListStatus(l, "active") /\ UNCHANGED nextList
      BY <1>11, <2>2, <2>5 DEF Activate
    <3>2. l \in DOMAIN lists' => lists'[l].status = "active"
      BY <3>1, StatusUpdated DEF Open
    <3>3. Seen(l)'
      BY <2>4, <3>1, <3>2 DEF Seen
    <3> QED  BY <1>8, <2>1, <2>2, <2>3, <3>3
  <2>6. CASE handler[h].read.status = "active"
    BY <1>8, <2>1, <2>2, <2>3, <2>4, <2>6
  <2> QED  BY <2>3, <2>5, <2>6 DEF Open
<1>12. ASSUME NEW h \in Handlers, SendSummary(h) PROVE HandlersSeen'
  <2>1. CASE Goto(h, Idle)
    BY <1>4, <2>1
  <2>2. CASE ~Goto(h, Idle)
    <3>1. PICK l, m : l = handler[h].list /\ Goto(h, [pc |-> "map", list |-> l, message |-> m])
      BY <1>12, <2>2 DEF SendSummary
    <3>2. Seen(l)
      BY <1>12, <3>1 DEF SendSummary, HandlersSeen, LocalSeen
    <3>3. LocalSeen([pc |-> "map", list |-> l, message |-> m])
      BY <3>2 DEF LocalSeen
    <3> QED  BY <1>1, <3>1, <3>3, LocalSeenStays, SeenGoes
  <2> QED  BY <2>1, <2>2
<1>13. ASSUME NEW h \in Handlers, HandlerStep(h) PROVE HandlersSeen'
  <2>1. CASE BeginWebCreate(h)
    BY <1>5, <2>1 DEF BeginWebCreate
  <2>2. CASE BeginPublish(h)
    BY <1>1, <2>2, LoadedSeen DEF BeginPublish
  <2>3. CASE BeginStop(h) \/ BeginDeleteList(h)
    <3>1. PICK k \in ListIds, pc \in {"stop", "unmap"} : Goto(h, [pc |-> pc, list |-> k])
      BY <2>3 DEF BeginStop, BeginDeleteList, IInv, TypeOK
    <3> QED  BY <1>3, <3>1
  <2>4. CASE CheckName(h)
    <3>1. PICK local : /\ local = [handler[h] EXCEPT !.pc = "insert"]
                       /\ Goto(h, local) \/ Goto(h, Idle)
      BY <2>4 DEF CheckName
    <3>2. local.pc = "insert"
      BY <2>4, <3>1, LocalType DEF IInv, CheckName
    <3> QED  BY <1>3, <1>4, <3>1, <3>2
  <2>5. CASE DeleteMessageMapByList(h)
    <3>1. PICK local : local = [handler[h] EXCEPT !.pc = "drop"] /\ Goto(h, local)
      BY <2>5 DEF DeleteMessageMapByList
    <3>2. local.pc = "drop"
      BY <2>5, <3>1, LocalType DEF IInv, DeleteMessageMapByList
    <3> QED  BY <1>3, <3>1, <3>2
  <2>6. InsertList(h) \/ SaveMessageMapping(h) \/ StopList(h) \/ DeleteTaskList(h) => Goto(h, Idle)
    BY DEF InsertList, SaveMessageMapping, StopList, DeleteTaskList
  <2> QED  BY <1>4, <1>10, <1>11, <1>12, <1>13, <2>1, <2>2, <2>3, <2>4, <2>5, <2>6
           DEF HandlerStep
<1>14. CASE BeginStopping
  <2>1. PICK local : local.pc = "stopping" /\ Goto(Chat, local)
    BY <1>14 DEF BeginStopping
  <2> QED  BY <1>3, <2>1, ChatIsHandler
<1>15. CASE StopNext
  <2>1. PICK local : Goto(Chat, local) /\ \E k : local = [handler[Chat] EXCEPT !.todo = @ \ {k}]
    BY <1>15 DEF StopNext
  <2>2. local.pc = "stopping"
    BY <1>15, <2>1, LocalType, ChatIsHandler DEF IInv, StopNext
  <2> QED  BY <1>3, <2>1, <2>2, ChatIsHandler
<1>16. CASE FinishStopping
  BY <1>4, <1>16, ChatIsHandler DEF FinishStopping
<1>17. CASE Crash
  BY <1>17, IdleType, PlainSeen DEF Crash, HandlersSeen, LocalSeen
<1>18. UNCHANGED vars \/ JoinedGroup \/ SyncRequest \/ SyncUpsert => UNCHANGED handler
  BY DEF vars, JoinedGroup, SyncRequest, SyncUpsert
<1>19. \A k, g : FillOrEmpty(k) \/ GroupStep(g) => UNCHANGED handler
  BY DEF FillOrEmpty, GroupStep, KickBot, AddBot, OwnerLeaves
<1> QED  BY <1>2, <1>6, <1>7, <1>9, <1>13, <1>14, <1>15, <1>16, <1>17, <1>18, <1>19
         DEF Next, NoticeStep

-----------------------------------------------------------------------------
\* A step that leaves the stage, the summaries and the mappings of l as they are
Unmoved(l) == UNCHANGED <<Stage(l), SummariesOf(l), MappedTo(l)>>

\* What a step does to l, but for the publishes under way
ListChange(l) ==
    List(l)!Add \/ List(l)!Activate \/ List(l)!Stop \/ List(l)!Delete
        \/ List(l)!Show \/ List(l)!Map \/ List(l)!Unmap \/ List(l)!EndPublish

ListStep(l) ==
    \/ UNCHANGED <<Stage(l), PublishInFlight(l), SummariesOf(l), MappedTo(l)>>
    \/ List(l)!Next

LEMMA UnmovedChanges == ASSUME NEW l, Unmoved(l) PROVE ListChange(l)
BY DEF Unmoved, ListChange, List!EndPublish

LEMMA QuietChanges == ASSUME NEW l, Quiet PROVE Unmoved(l)
BY DEF Quiet, Unmoved, Stage, SummariesOf, MappedTo

\* A list that has a row has been numbered, and is in one of three stages.
LEMMA RowStage ==
    ASSUME IInv, NEW l \in DOMAIN lists
    PROVE  /\ l \in Nat /\ nextList \in Nat /\ l < nextList
           /\ Stage(l) = lists[l].status /\ Stage(l) \in List(l)!Kept
BY DEF IInv, TypeOK, ListIds, SerialIsId, Stage, ListRow, Open, List!Kept

\* UPDATE task_lists SET status, of l or of another list
LEMMA StatusChanges ==
    ASSUME IInv, NEW l \in ListIds, NEW k \in ListIds, NEW s \in {"active", "stopped"},
           UpdateListStatus(k, s), UNCHANGED <<nextList, posted, messageMap>>
    PROVE  \/ Unmoved(l)
           \/ /\ k = l /\ l \in DOMAIN lists
              /\ Stage(l) \in List(l)!Kept /\ Stage(l)' = s
              /\ UNCHANGED <<SummariesOf(l), MappedTo(l)>>
<1>1. /\ DOMAIN lists' = DOMAIN lists
      /\ \A i \in DOMAIN lists : lists'[i].status = IF i = k THEN s ELSE lists[i].status
  BY StatusUpdated DEF Open
<1>2. UNCHANGED <<SummariesOf(l), MappedTo(l)>>
  BY DEF SummariesOf, MappedTo
<1>3. CASE k = l /\ l \in DOMAIN lists
  <2>1. Stage(l) \in List(l)!Kept /\ l < nextList /\ l \in Nat /\ nextList \in Nat
    BY <1>3, RowStage
  <2>2. Stage(l)' = s
    BY <1>1, <1>3, <2>1 DEF Stage
  <2> QED  BY <1>2, <1>3, <2>1, <2>2
<1>4. CASE ~(k = l /\ l \in DOMAIN lists)
  <2>1. Stage(l)' = Stage(l)
    BY <1>1, <1>4 DEF Stage
  <2> QED  BY <1>2, <2>1 DEF Unmoved
<1> QED  BY <1>3, <1>4

LEMMA ListChanges ==
    ASSUME IInv, IInv', HandlersSeen, [Next]_vars, NEW l \in ListIds
    PROVE  ListChange(l)
<1>1. l \in Nat /\ nextList \in Nat
  BY DEF ListIds, IInv, TypeOK
<1>2. CASE Quiet
  BY <1>2, QuietChanges, UnmovedChanges
<1>3. ASSUME NEW h \in Handlers, InsertList(h) PROVE ListChange(l)
  <2>1. UNCHANGED <<SummariesOf(l), MappedTo(l)>>
    BY <1>3 DEF InsertList, world, SummariesOf, MappedTo
  <2>2. CASE UNCHANGED <<lists, nextList>>
    <3>1. Stage(l)' = Stage(l)
      BY <2>2 DEF Stage
    <3> QED  BY <2>1, <3>1, UnmovedChanges DEF Unmoved
  <2>3. CASE ~UNCHANGED <<lists, nextList>>
    <3>1. /\ DOMAIN lists' = DOMAIN lists \cup {nextList}
          /\ \A k \in DOMAIN lists : lists'[k] = lists[k]
          /\ nextList \notin DOMAIN lists => lists'[nextList].status = "unpublished"
          /\ nextList' = nextList + 1
      BY <1>3, <2>3 DEF InsertList, CreateTaskList, InsertListRow, NextListId
    <3>2. nextList \notin DOMAIN lists
      BY RowStage
    <3>3. CASE l = nextList
      <4>1. Stage(l) = "none" /\ Stage(l)' = "unpublished"
        BY <1>1, <3>1, <3>2, <3>3 DEF Stage
      <4> QED  BY <2>1, <4>1 DEF ListChange, List!Add, List!GoTo
    <3>4. CASE l # nextList
      <4>1. Stage(l)' = Stage(l)
        BY <1>1, <3>1, <3>4 DEF Stage
      <4> QED  BY <2>1, <4>1, UnmovedChanges DEF Unmoved
    <3> QED  BY <3>3, <3>4
  <2> QED  BY <2>2, <2>3
<1>4. ASSUME NEW h \in Handlers, Activate(h) PROVE ListChange(l)
  <2>1. PICK k \in ListIds : k = handler[h].list
    BY <1>4, LocalType DEF IInv, Activate
  <2>2. UNCHANGED <<nextList, posted, messageMap>>
    BY <1>4 DEF Activate, world
  <2>3. CASE handler[h].read.status = "unpublished"
    <3>1. UpdateListStatus(k, "active")
      BY <1>4, <2>1, <2>3 DEF Activate
    <3>2. k = l => PublishInFlight(l)
      BY <1>4, <2>1, <2>3 DEF PublishInFlight, Activate
    <3>3. CASE Unmoved(l)
      BY <3>3, UnmovedChanges
    <3>4. CASE ~Unmoved(l)
      <4>1. /\ k = l /\ Stage(l) \in List(l)!Kept /\ Stage(l)' = "active"
            /\ UNCHANGED <<SummariesOf(l), MappedTo(l)>>
        BY <2>2, <3>1, <3>4, StatusChanges
      <4> QED  BY <3>2, <4>1 DEF ListChange, List!Activate, List!GoTo
    <3> QED  BY <3>3, <3>4
  <2>4. CASE handler[h].read.status # "unpublished"
    <3>1. lists' = lists
      BY <1>4, <2>4 DEF Activate
    <3> QED  BY <2>2, <3>1, QuietChanges, UnmovedChanges DEF Quiet
  <2> QED  BY <2>3, <2>4
<1>5. ASSUME NEW k \in ListIds, UpdateListStatus(k, "stopped"),
             UNCHANGED <<nextList, posted, messageMap>>
      PROVE  ListChange(l)
  <2>1. CASE Unmoved(l)
    BY <2>1, UnmovedChanges
  <2>2. CASE ~Unmoved(l)
    <3>1. /\ Stage(l) \in List(l)!Kept /\ Stage(l)' = "stopped"
          /\ UNCHANGED <<SummariesOf(l), MappedTo(l)>>
      BY <1>5, <2>2, StatusChanges
    <3> QED  BY <3>1 DEF ListChange, List!Stop, List!GoTo
  <2> QED  BY <2>1, <2>2
<1>6. ASSUME NEW h \in Handlers, StopList(h) PROVE ListChange(l)
  <2>1. handler[h].list \in ListIds
    BY <1>6, LocalType DEF IInv, StopList
  <2> QED  BY <1>5, <1>6, <2>1 DEF StopList, world
<1>7. CASE StopNext
  <2>1. handler[Chat].todo \subseteq ListIds
    BY <1>7, LocalType, ChatIsHandler DEF IInv, StopNext
  <2> QED  BY <1>5, <1>7, <2>1 DEF StopNext, world
<1>8. ASSUME NEW h \in Handlers, SendSummary(h) PROVE ListChange(l)
  <2>1. Stage(l)' = Stage(l) /\ MappedTo(l)' = MappedTo(l)
    BY <1>8 DEF SendSummary, db, Stage, MappedTo
  <2>2. PICK k : /\ k = handler[h].list /\ Seen(k)
                 /\ posted' = posted \/ posted' = Append(posted, k)
    <3>1. handler[h].read.serial = handler[h].list /\ Seen(handler[h].list)
      BY <1>8 DEF SendSummary, IInv, HandlersSound, LocalSound, HandlersSeen, LocalSeen
    <3> QED  BY <1>8, <3>1 DEF SendSummary
  <2>3. CASE posted' = posted
    BY <2>1, <2>3, UnmovedChanges DEF Unmoved, SummariesOf
  <2>4. CASE posted' = Append(posted, k)
    <3>1. PICK n : /\ DOMAIN posted' = DOMAIN posted \cup {n} /\ n \notin DOMAIN posted
                   /\ posted'[n] = k
                   /\ \A m \in DOMAIN posted : posted'[m] = posted[m]
      <4>1. posted \in Seq(ListIds) /\ k \in ListIds
        BY <1>8, <2>2, LocalType DEF IInv, TypeOK, SendSummary
      <4> DEFINE n == Len(posted) + 1
      <4>2. /\ Len(posted) \in Nat /\ DOMAIN posted = 1 .. Len(posted)
            /\ DOMAIN posted' = 1 .. n /\ posted'[n] = k
            /\ \A m \in 1 .. Len(posted) : posted'[m] = posted[m]
        BY <2>4, <4>1
      <4>3. DOMAIN posted' = DOMAIN posted \cup {n} /\ n \notin DOMAIN posted
        BY <4>2
      <4> HIDE DEF n
      <4> QED  BY <4>2, <4>3
    <3>2. CASE k = l
      <4>1. SummariesOf(l)' = SummariesOf(l) \cup {n}
        <5>1. SummariesOf(l)' = {m \in DOMAIN posted \cup {n} : posted'[m] = l}
          BY <3>1 DEF SummariesOf
        <5>2. {m \in DOMAIN posted : posted'[m] = l} = SummariesOf(l)
          BY <3>1 DEF SummariesOf
        <5> QED  BY <3>1, <3>2, <5>1, <5>2
      <4>2. Stage(l) \notin {"none", "unpublished"}
        BY <1>1, <2>2, <3>2, RowStage DEF Seen, Stage, List!Kept
      <4> QED  BY <2>1, <4>1, <4>2 DEF ListChange, List!Show
    <3>3. CASE k # l
      <4>1. SummariesOf(l)' = SummariesOf(l)
        BY <3>1, <3>3 DEF SummariesOf
      <4> QED  BY <2>1, <4>1, UnmovedChanges DEF Unmoved
    <3> QED  BY <3>2, <3>3
  <2> QED  BY <2>2, <2>3, <2>4
<1>9. ASSUME NEW h \in Handlers, SaveMessageMapping(h) PROVE ListChange(l)
  <2>1. Stage(l)' = Stage(l) /\ SummariesOf(l)' = SummariesOf(l)
    BY <1>9 DEF SaveMessageMapping, world, Stage, SummariesOf
  <2>2. PICK k, m :
           /\ k = handler[h].list /\ m = handler[h].message
           /\ Seen(k) /\ m \in DOMAIN posted /\ posted[m] = k
    BY <1>9 DEF SaveMessageMapping, IInv, TypeOK, HandlersSound, LocalSound, HandlersSeen,
                LocalSeen
  <2>3. messageMap' = IF k \in DOMAIN lists
                      THEN [i \in DOMAIN messageMap \cup {m} |->
                               IF i = m THEN k ELSE messageMap[i]]
                      ELSE messageMap
    BY <1>9, <2>2 DEF SaveMessageMapping
  <2>4. CASE k = l /\ l \in DOMAIN lists
    <3>1. MappedTo(l)' = MappedTo(l) \cup {m} /\ m \in SummariesOf(l)
      BY <2>2, <2>3, <2>4 DEF MappedTo, SummariesOf
    <3>2. Stage(l) \in {"active", "stopped"}
      BY <2>2, <2>4, RowStage DEF Seen, List!Kept
    <3> QED  BY <2>1, <3>1, <3>2 DEF ListChange, List!Map
  <2>5. CASE ~(k = l /\ l \in DOMAIN lists)
    <3>1. MappedTo(l)' = MappedTo(l)
      <4>1. m \in DOMAIN messageMap => messageMap[m] = k
        BY <2>2, RowStage DEF IInv, RepliesReachTheirList, SerialIsId
      <4> QED  BY <2>3, <2>5, <4>1 DEF MappedTo
    <3> QED  BY <2>1, <3>1, UnmovedChanges DEF Unmoved
  <2> QED  BY <2>4, <2>5
<1>10. ASSUME NEW h \in Handlers, DeleteMessageMapByList(h) PROVE ListChange(l)
  <2>1. Stage(l)' = Stage(l) /\ SummariesOf(l)' = SummariesOf(l)
    BY <1>10 DEF DeleteMessageMapByList, world, Stage, SummariesOf
  <2>2. PICK k : messageMap' = Restrict(messageMap, DOMAIN messageMap \ MappedTo(k))
    BY <1>10 DEF DeleteMessageMapByList
  <2>3. CASE k = l
    <3>1. MappedTo(l)' = {}
      BY <2>2, <2>3 DEF MappedTo, Restrict
    <3> QED  BY <2>1, <3>1 DEF ListChange, List!Unmap
  <2>4. CASE k # l
    <3>1. MappedTo(l)' = MappedTo(l)
      BY <2>2, <2>4 DEF MappedTo, Restrict
    <3> QED  BY <2>1, <3>1, UnmovedChanges DEF Unmoved
  <2> QED  BY <2>3, <2>4
<1>11. ASSUME NEW h \in Handlers, DeleteTaskList(h) PROVE ListChange(l)
  <2>1. nextList' = nextList /\ SummariesOf(l)' = SummariesOf(l)
    BY <1>11 DEF DeleteTaskList, world, SummariesOf
  <2>2. PICK k : /\ lists' = Restrict(lists, DOMAIN lists \ {k})
                 /\ messageMap' = Restrict(messageMap, DOMAIN messageMap \ MappedTo(k))
    BY <1>11 DEF DeleteTaskList
  <2>3. CASE k = l /\ l \in DOMAIN lists
    <3>1. MappedTo(l)' = {}
      BY <2>2, <2>3 DEF MappedTo, Restrict
    <3>2. Stage(l) \in List(l)!Kept /\ Stage(l)' = "deleted"
      BY <2>1, <2>2, <2>3, RowStage DEF Stage, Restrict
    <3> QED  BY <2>1, <3>1, <3>2 DEF ListChange, List!Delete
  <2>4. CASE ~(k = l /\ l \in DOMAIN lists)
    <3>1. Stage(l)' = Stage(l)
      BY <2>1, <2>2, <2>4 DEF Stage, Restrict
    <3>2. k = l => MappedTo(l) = {}
      BY <2>4 DEF IInv, RepliesReachTheirList, MappedTo
    <3>3. MappedTo(l)' = MappedTo(l)
      BY <2>2, <3>2 DEF MappedTo, Restrict
    <3> QED  BY <2>1, <3>1, <3>3, UnmovedChanges DEF Unmoved
  <2> QED  BY <2>3, <2>4
<1> QED  BY <1>2, <1>3, <1>4, <1>6, <1>7, <1>8, <1>9, <1>10, <1>11, QuietSteps

LEMMA ListSteps ==
    ASSUME IInv, IInv', HandlersSeen, [Next]_vars, NEW l \in ListIds
    PROVE  ListStep(l)
<1>1. CASE NoneStarts(l)
  <2>1. PublishInFlight(l)' => PublishInFlight(l)
    BY <1>1 DEF NoneStarts, PublishInFlight, InFlight
  <2> QED  BY <2>1, ListChanges DEF ListStep, ListChange, List!Next
<1>2. CASE Starts(l) /\ ~NoneStarts(l)
  <2>1. PublishInFlight(l)' = TRUE
    BY <1>2 DEF NoneStarts, InFlight, PublishInFlight
  <2>2. UNCHANGED <<Stage(l), SummariesOf(l), MappedTo(l)>>
    BY <1>2 DEF Starts, db, world, Stage, SummariesOf, MappedTo
  <2>3. Stage(l) = "unpublished"
    BY <1>2, RowStage DEF Starts
  <2> QED  BY <2>1, <2>2, <2>3 DEF ListStep, List!Next, List!BeginPublish
<1> QED  BY <1>1, <1>2, PublishStarts

LEMMA SeenInit == ASSUME Init PROVE HandlersSeen
BY IdleType DEF Init, HandlersSeen, LocalSeen

LEMMA ListInit == ASSUME Init, NEW l \in ListIds PROVE List(l)!Init
<1>1. Stage(l) = "none"
  BY DEF Init, Stage, ListIds
<1>2. SummariesOf(l) = {} /\ MappedTo(l) = {}
  BY DEF Init, SummariesOf, MappedTo
<1>3. PublishInFlight(l) = FALSE
  BY IdleType DEF Init, PublishInFlight
<1> QED  BY <1>1, <1>2, <1>3 DEF List!Init

LEMMA SeenAlways == Spec => []HandlersSeen
<1>1. IInv /\ IInv' /\ HandlersSeen /\ [Next]_vars => HandlersSeen'
  BY SeenStep
<1> QED  BY <1>1, SeenInit, Invariance, PTL DEF Spec

\* Whatever rows handlers go on with, a list goes through the stages of the glossary,
\* is shown to the group only once it was published, and is answered only by replies
\* to summaries of it.
THEOREM ListsHaveStages == Spec => ListsGoThroughStages
<1>1. Init => \A l \in ListIds : List(l)!Init
  BY ListInit
<1>2. IInv /\ IInv' /\ HandlersSeen /\ [Next]_vars =>
         [\A l \in ListIds :
             UNCHANGED <<Stage(l), PublishInFlight(l), SummariesOf(l), MappedTo(l)>>
                 \/ List(l)!Next]_vars
  BY ListSteps DEF ListStep
<1> QED  BY <1>1, <1>2, Invariance, SeenAlways, PTL DEF Spec, ListsGoThroughStages

\* The same as a refinement.
THEOREM ImplementsListStages == ASSUME NEW l \in ListIds PROVE Spec => List(l)!Spec
<1>1. Init => List(l)!Init
  BY ListInit
<1>2. IInv /\ IInv' /\ HandlersSeen /\ [Next]_vars => [List(l)!Next]_(List(l)!stageVars)
  BY ListSteps DEF ListStep, List!stageVars
<1> QED  BY <1>1, <1>2, Invariance, SeenAlways, PTL DEF Spec, List!Spec
=============================================================================
