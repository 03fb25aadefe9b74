--------------------------- MODULE GroupReplyProofs ---------------------------
(***************************************************************************)
(* The numbers of a message keep their meaning until a task up to that     *)
(* number is deleted, and a reply marks tasks by right, for any lists,     *)
(* people and numbers of tasks and messages.                               *)
(***************************************************************************)
EXTENDS GroupReply, TaskTableProofs

\* A list of n tasks was inserted over n steps at least: positions are ids at most.
PositionsLow(ts) == \A i \in DOMAIN ts : ts[i].position <= i

TableOK ==
    /\ nextTask \in 1 .. MaxTasks + 1
    /\ DOMAIN tasks \subseteq 1 .. (nextTask - 1)
    /\ WellFormed(tasks)
    /\ PositionsLow(tasks)

Message == [list : TaskLists, numbering : UNION {[S -> 1 .. MaxTasks] : S \in SUBSET Positions}]

\* Each number of a message names the task it was posted with, unless a task with
\* that number or a lower one is gone.
Sound(msg, ts, next) ==
    /\ msg \in Message
    /\ \A p \in DOMAIN msg.numbering :
          /\ msg.numbering[p] < next
          /\ \A q \in 1 .. p : q \in DOMAIN msg.numbering
          /\ \/ \E q \in DOMAIN msg.numbering : q <= p /\ msg.numbering[q] \notin DOMAIN ts
             \/ msg.numbering[p] \in IdsAt(ts, msg.list, p)

MessagesSound ==
    /\ messages \in Seq(Message)
    /\ \A m \in DOMAIN messages : Sound(messages[m], tasks, nextTask)

\* What a reply has read is what is stored, unless a task it read is gone.
ReadSound(read, l, ts, next) ==
    /\ Typed(read)
    /\ \A i \in DOMAIN read :
          /\ i < next
          /\ \A q \in 1 .. read[i].position : \E j \in DOMAIN read : read[j].position = q
    /\ \/ \E i \in DOMAIN read : i \notin DOMAIN ts
       \/ \A i \in DOMAIN read :
             /\ ts[i].list = l
             /\ ts[i].position = read[i].position
             /\ ts[i].status = read[i].status

ChatSound ==
    /\ chat.pc \in {"read", "write"} =>
          chat.reply \in Replies /\ chat.reply.message \in DOMAIN messages
    /\ chat.pc = "write" =>
          /\ Accepted(chat.read, chat.reply)
          /\ ReadSound(chat.read, ListOf(chat.reply), tasks, nextTask)
    /\ chat.pc = "send" => Sound(chat.summary, tasks, nextTask)

IInv == TypeOK /\ TableOK /\ MessagesSound /\ ChatSound

-----------------------------------------------------------------------------
\* What every statement but the update of the status does to the tasks there are:
\* none comes back, none changes lists, and a position only changes when a lower
\* row of the list goes.
Follows(ts, us, next) ==
    \A i \in DOMAIN us : i < next =>
        /\ i \in DOMAIN ts
        /\ us[i].list = ts[i].list
        /\ \/ us[i].position = ts[i].position
           \/ \E j \in DOMAIN ts \ DOMAIN us :
                  ts[j].list = ts[i].list /\ ts[j].position < ts[i].position

StatusKept(ts, us) == \A i \in DOMAIN ts \cap DOMAIN us : us[i].status = ts[i].status

LEMMA RewriteFollows ==
    ASSUME NEW ts, WellFormed(ts), PositionsLow(ts), NEW us, DOMAIN us = DOMAIN ts, NEW next,
           \A i \in DOMAIN ts : /\ us[i] \in Row
                               /\ us[i].list = ts[i].list
                               /\ us[i].position = ts[i].position
                               /\ us[i].title = ts[i].title
    PROVE  WellFormed(us) /\ PositionsLow(us) /\ Follows(ts, us, next)
<1>1. UniqueTitles(us)
  BY DEF WellFormed, UniqueTitles
<1>2. WellFormed(us)
  BY <1>1, RewriteKeepsWellFormed
<1> QED  BY <1>2 DEF PositionsLow, Follows

LEMMA AssigneesFollow ==
    ASSUME NEW ts, WellFormed(ts), PositionsLow(ts), NEW next, NEW id, NEW jids \in Seq(People)
    PROVE  LET us == SetAssignees(ts, id, jids)
           IN  WellFormed(us) /\ PositionsLow(us) /\ Follows(ts, us, next) /\ StatusKept(ts, us)
               /\ DOMAIN us = DOMAIN ts
<1> DEFINE us == SetAssignees(ts, id, jids)
<1>1. Assigned(jids) \in UNION {[S -> BOOLEAN] : S \in SUBSET People}
  BY AssignedType
<1>2. DOMAIN us = DOMAIN ts
  BY DEF SetAssignees
<1>3. ASSUME NEW i \in DOMAIN ts
      PROVE  /\ us[i] \in Row
             /\ us[i].list = ts[i].list
             /\ us[i].position = ts[i].position
             /\ us[i].title = ts[i].title
             /\ us[i].status = ts[i].status
  <2>1. ts[i] \in Row
    BY DEF WellFormed, Typed
  <2> HIDE DEF Assigned
  <2> QED  BY <1>1, <2>1 DEF SetAssignees, Row
<1> HIDE DEF us
<1>4. WellFormed(us) /\ PositionsLow(us) /\ Follows(ts, us, next)
  BY <1>2, <1>3, RewriteFollows
<1> QED  BY <1>2, <1>3, <1>4 DEF StatusKept, us

LEMMA LeftFollows ==
    ASSUME NEW ts, WellFormed(ts), PositionsLow(ts), NEW next, NEW ls, NEW person
    PROVE  LET us == SetLeft(ts, ls, person)
           IN  WellFormed(us) /\ PositionsLow(us) /\ Follows(ts, us, next) /\ StatusKept(ts, us)
               /\ DOMAIN us = DOMAIN ts
<1> DEFINE us == SetLeft(ts, ls, person)
<1>2. DOMAIN us = DOMAIN ts
  BY DEF SetLeft
<1>3. ASSUME NEW i \in DOMAIN ts
      PROVE  /\ us[i] \in Row
             /\ us[i].list = ts[i].list
             /\ us[i].position = ts[i].position
             /\ us[i].title = ts[i].title
             /\ us[i].status = ts[i].status
  <2>1. ts[i] \in Row
    BY DEF WellFormed, Typed
  <2>2. CASE ts[i].list \in ls /\ person \in DOMAIN ts[i].assignees
    <3> DEFINE marked == [ts[i].assignees EXCEPT ![person] = TRUE]
    <3>1. us[i] = [ts[i] EXCEPT !.assignees = marked]
      BY <2>2 DEF SetLeft
    <3>2. PICK S \in SUBSET People : ts[i].assignees \in [S -> BOOLEAN]
      BY <2>1 DEF Row
    <3>3. marked \in [S -> BOOLEAN]
      BY <3>2
    <3> HIDE DEF marked, us
    <3> QED  BY <2>1, <3>1, <3>3 DEF Row
  <2>3. CASE ~(ts[i].list \in ls /\ person \in DOMAIN ts[i].assignees)
    BY <2>1, <2>3 DEF SetLeft
  <2> QED  BY <2>2, <2>3
<1> HIDE DEF us
<1>4. WellFormed(us) /\ PositionsLow(us) /\ Follows(ts, us, next)
  BY <1>2, <1>3, RewriteFollows
<1> QED  BY <1>2, <1>3, <1>4 DEF StatusKept, us

LEMMA RowLeftFollows ==
    ASSUME NEW ts, WellFormed(ts), PositionsLow(ts), NEW next, NEW id, NEW person
    PROVE  LET us == SetRowLeft(ts, id, person)
           IN  WellFormed(us) /\ PositionsLow(us) /\ Follows(ts, us, next) /\ StatusKept(ts, us)
               /\ DOMAIN us = DOMAIN ts
<1> DEFINE us == SetRowLeft(ts, id, person)
<1>1. DOMAIN us = DOMAIN ts
  BY DEF SetRowLeft
<1>2. ASSUME NEW i \in DOMAIN ts
      PROVE  /\ us[i] \in Row
             /\ us[i].list = ts[i].list
             /\ us[i].position = ts[i].position
             /\ us[i].title = ts[i].title
             /\ us[i].status = ts[i].status
  BY RowLeftRewrites DEF WellFormed
<1> HIDE DEF us
<1>3. WellFormed(us) /\ PositionsLow(us) /\ Follows(ts, us, next)
  BY <1>1, <1>2, RewriteFollows
<1> QED  BY <1>1, <1>2, <1>3 DEF StatusKept, us

LEMMA StatusFollows ==
    ASSUME NEW ts, WellFormed(ts), PositionsLow(ts), NEW next,
           NEW l, NEW ps, NEW status \in Statuses
    PROVE  LET us == SetStatus(ts, l, ps, status)
           IN  WellFormed(us) /\ PositionsLow(us) /\ Follows(ts, us, next)
               /\ DOMAIN us = DOMAIN ts
<1> DEFINE us == SetStatus(ts, l, ps, status)
<1>2. DOMAIN us = DOMAIN ts
  BY DEF SetStatus
<1>3. ASSUME NEW i \in DOMAIN ts
      PROVE  /\ us[i] \in Row
             /\ us[i].list = ts[i].list
             /\ us[i].position = ts[i].position
             /\ us[i].title = ts[i].title
  <2>1. ts[i] \in Row
    BY DEF WellFormed, Typed
  <2> QED  BY <2>1 DEF SetStatus, Row
<1> HIDE DEF us
<1>4. WellFormed(us) /\ PositionsLow(us) /\ Follows(ts, us, next)
  BY <1>2, <1>3, RewriteFollows
<1> QED  BY <1>2, <1>4 DEF us

LEMMA RemovalFollows ==
    ASSUME NEW ts, WellFormed(ts), PositionsLow(ts), NEW next, NEW l, NEW p \in Nat \ {0}
    PROVE  LET us == RemoveAt(ts, l, p)
           IN  WellFormed(us) /\ PositionsLow(us) /\ Follows(ts, us, next) /\ StatusKept(ts, us)
               /\ DOMAIN us \subseteq DOMAIN ts
<1> DEFINE us == RemoveAt(ts, l, p)
<1>1. DOMAIN us = DOMAIN ts \ IdsAt(ts, l, p)
  BY DEF RemoveAt
<1>2. WellFormed(us)
  BY RemoveAtWellFormed
<1>3. ASSUME NEW i \in DOMAIN us
      PROVE  /\ i \in DOMAIN ts /\ i \in Nat
             /\ us[i].list = ts[i].list
             /\ ts[i].position \in Nat \ {0}
             /\ us[i].position =
                   IF ts[i].list = l THEN Shift(p, ts[i].position) ELSE ts[i].position
             /\ us[i].status = ts[i].status
  <2>1. i \in DOMAIN ts \ IdsAt(ts, l, p)
    BY <1>1
  <2>2. /\ us[i].list = ts[i].list
        /\ us[i].position =
              IF ts[i].list = l THEN Shift(p, ts[i].position) ELSE ts[i].position
    BY <2>1, RemoveAtRows
  <2>3. i \in Nat /\ ts[i] \in Row /\ ts[i].position \in Nat \ {0}
    BY <2>1, RowType DEF WellFormed, Typed
  <2>4. us[i].status = ts[i].status
    <3> DEFINE r == Rank(ts, DOMAIN ts \ IdsAt(ts, l, p), l, i)
    <3>1. us[i] = IF ts[i].list = l THEN [ts[i] EXCEPT !.position = r] ELSE ts[i]
      BY <2>1 DEF RemoveAt
    <3> HIDE DEF r, us
    <3> QED  BY <2>3, <3>1 DEF Row
  <2> QED  BY <2>1, <2>2, <2>3, <2>4
<1> HIDE DEF us
<1>4. PositionsLow(us)
  <2> SUFFICES ASSUME NEW i \in DOMAIN us PROVE us[i].position <= i
    BY DEF PositionsLow
  <2>1. ts[i].position <= i
    BY <1>3 DEF PositionsLow
  <2> QED  BY <1>3, <2>1 DEF Shift
<1>5. Follows(ts, us, next)
  <2> SUFFICES ASSUME NEW i \in DOMAIN us, us[i].position # ts[i].position
               PROVE  \E j \in DOMAIN ts \ DOMAIN us :
                          ts[j].list = ts[i].list /\ ts[j].position < ts[i].position
    BY <1>3 DEF Follows
  <2>1. ts[i].list = l /\ p < ts[i].position
    BY <1>3 DEF Shift
  <2>2. PICK j \in DOMAIN ts : ts[j].list = ts[i].list /\ ts[j].position = p
    BY <1>3, <2>1, RowAt DEF WellFormed
  <2>3. j \in IdsAt(ts, l, p)
    BY <2>1, <2>2 DEF IdsAt, RowsOf
  <2> QED  BY <1>1, <2>1, <2>2, <2>3
<1>6. StatusKept(ts, us)
  BY <1>3 DEF StatusKept
<1> QED  BY <1>1, <1>2, <1>4, <1>5, <1>6 DEF us

LEMMA DropFollows ==
    ASSUME NEW ts, WellFormed(ts), PositionsLow(ts), NEW next, NEW l
    PROVE  LET us == DropList(ts, l)
           IN  WellFormed(us) /\ PositionsLow(us) /\ Follows(ts, us, next) /\ StatusKept(ts, us)
               /\ DOMAIN us \subseteq DOMAIN ts
<1> DEFINE us == DropList(ts, l)
<1>1. /\ WellFormed(us)
      /\ \A i \in DOMAIN us : i \in DOMAIN ts /\ us[i] = ts[i]
  BY DropListWellFormed
<1> HIDE DEF us
<1>2. PositionsLow(us) /\ Follows(ts, us, next) /\ StatusKept(ts, us)
  BY <1>1 DEF PositionsLow, Follows, StatusKept
<1> QED  BY <1>1, <1>2 DEF us

LEMMA InsertionFollows ==
    ASSUME NEW ts, WellFormed(ts), PositionsLow(ts), NEW next \in Nat \ {0},
           DOMAIN ts \subseteq 1 .. (next - 1), NEW l \in TaskLists,
           NEW form \in [title : Titles, assign : Seq(People)], BatchFits(ts, l, <<form>>)
    PROVE  LET us == InsertBatch(ts, l, <<form>>, next)
           IN  WellFormed(us) /\ PositionsLow(us) /\ Follows(ts, us, next) /\ StatusKept(ts, us)
               /\ DOMAIN us \subseteq 1 .. next
<1> DEFINE batch == <<form>>
           us    == InsertBatch(ts, l, batch, next)
           last  == LastPosition(ts, l)
<1>1. batch \in Seq([title : Titles, assign : Seq(People)]) /\ Len(batch) = 1
  OBVIOUS
<1>2. DOMAIN us = DOMAIN ts \cup {next} /\ next \notin DOMAIN ts
  <2>1. next .. next + 1 - 1 = {next}
    OBVIOUS
  <2> QED  BY <1>1, <2>1 DEF InsertBatch
<1>3. \A i \in DOMAIN ts : us[i] = ts[i]
  BY DEF InsertBatch
<1>4. us[next] = NewRow(l, last + (next - next) + 1, batch[next - next + 1])
  BY <1>1, <1>2 DEF InsertBatch
<1>5. us[next].position = last + (next - next) + 1
  BY <1>4 DEF NewRow
<1>6. WellFormed(us)
  <2>1. BatchFits(ts, l, batch)
    OBVIOUS
  <2> HIDE DEF batch, us
  <2>2. WellFormed(InsertBatch(ts, l, batch, next))
    BY <1>1, <2>1, InsertBatchWellFormed
  <2> QED  BY <2>2 DEF us
<1>7. last \in Nat /\ last < next
  <2>1. last \in Nat
    BY LastPositionIsLast
  <2>2. CASE last = 0
    BY <2>2
  <2>3. CASE last # 0
    <3>1. IdsAt(ts, l, last) # {}
      BY <2>1, <2>3, LastPositionIsLast
    <3>2. PICK i \in DOMAIN ts : ts[i].position = last
      BY <3>1 DEF IdsAt, RowsOf
    <3>3. last <= i
      BY <3>2 DEF PositionsLow
    <3> HIDE DEF last
    <3> QED  BY <2>1, <3>3
  <2> QED  BY <2>2, <2>3
<1> HIDE DEF us, batch, last
<1>8. PositionsLow(us)
  <2>1. us[next].position <= next
    BY <1>5, <1>7
  <2> QED  BY <1>2, <1>3, <2>1 DEF PositionsLow
<1>9. Follows(ts, us, next) /\ StatusKept(ts, us)
  BY <1>2, <1>3 DEF Follows, StatusKept
<1>10. DOMAIN us \subseteq 1 .. next
  BY <1>2
<1> QED  BY <1>6, <1>8, <1>9, <1>10 DEF us, batch

\* A table that did not change, and one that a statement wrote.
LEMMA TableSame ==
    ASSUME TableOK, UNCHANGED <<tasks, nextTask>>
    PROVE  /\ TableOK' /\ nextTask <= nextTask'
           /\ Follows(tasks, tasks', nextTask) /\ StatusKept(tasks, tasks')
<1>1. TableOK'
  BY DEF TableOK, WellFormed, Typed, UniquePositions, NoGaps, InCreationOrder, UniqueTitles,
         PositionsLow, IdsAt, RowsOf
<1> QED  BY <1>1 DEF TableOK, Follows, StatusKept

LEMMA TableWritten ==
    ASSUME TableOK, NEW us, tasks' = us, UNCHANGED nextTask,
           WellFormed(us), PositionsLow(us), DOMAIN us \subseteq DOMAIN tasks
    PROVE  TableOK' /\ nextTask <= nextTask'
BY DEF TableOK

\* What a step does to the tables.
LEMMA TableStep ==
    ASSUME GroupReplyAssumption, TableOK, ChatSound, [Next]_vars
    PROVE  /\ TableOK' /\ nextTask <= nextTask'
           /\ Follows(tasks, tasks', nextTask)
           /\ StatusKept(tasks, tasks') \/ WriteStatus
<1> USE DEF TableOK
<1>1. ASSUME NEW l \in TaskLists, Elsewhere(l)
      PROVE  /\ TableOK' /\ nextTask <= nextTask'
             /\ Follows(tasks, tasks', nextTask) /\ StatusKept(tasks, tasks')
  <2>1. CASE \E title \in Titles, jids \in Assignments :
                 AddTask(l, [title |-> title, assign |-> jids])
    <3>1. PICK title \in Titles, jids \in Assignments :
                 AddTask(l, [title |-> title, assign |-> jids])
      BY <2>1
    <3> DEFINE form == [title |-> title, assign |-> jids]
    <3>2. form \in [title : Titles, assign : Seq(People)]
      BY DEF GroupReplyAssumption
    <3>3. /\ nextTask <= MaxTasks /\ nextTask' = nextTask + 1
          /\ BatchFits(tasks, l, <<form>>)
          /\ tasks' = InsertBatch(tasks, l, <<form>>, nextTask)
      BY <3>1 DEF AddTask
    <3> HIDE DEF form
    <3>4. nextTask \in Nat \ {0} /\ DOMAIN tasks \subseteq 1 .. (nextTask - 1)
      OBVIOUS
    <3>5. /\ WellFormed(tasks') /\ PositionsLow(tasks')
          /\ Follows(tasks, tasks', nextTask) /\ StatusKept(tasks, tasks')
          /\ DOMAIN tasks' \subseteq 1 .. nextTask
      BY <3>2, <3>3, <3>4, InsertionFollows
    <3>6. nextTask' \in 1 .. MaxTasks + 1 /\ nextTask <= nextTask' /\ nextTask' - 1 = nextTask
      BY <3>3, <3>4 DEF GroupReplyAssumption
    <3> QED  BY <3>5, <3>6
  <2>2. CASE \E p \in Positions : WebDeleteTask(l, p)
    <3>1. PICK p \in Positions : WebDeleteTask(l, p)
      BY <2>2
    <3>2. tasks' = RemoveAt(tasks, l, p) /\ UNCHANGED nextTask /\ p \in Nat \ {0}
      BY <3>1 DEF WebDeleteTask, Positions
    <3>3. /\ WellFormed(tasks') /\ PositionsLow(tasks')
          /\ Follows(tasks, tasks', nextTask) /\ StatusKept(tasks, tasks')
          /\ DOMAIN tasks' \subseteq DOMAIN tasks
      BY <3>2, RemovalFollows
    <3> QED  BY <3>2, <3>3, TableWritten
  <2>3. CASE StopList(l)
    BY <2>3, TableSame DEF StopList
  <2>4. CASE DeleteTaskList(l)
    <3>1. tasks' = DropList(tasks, l) /\ UNCHANGED nextTask
      BY <2>4 DEF DeleteTaskList
    <3>2. /\ WellFormed(tasks') /\ PositionsLow(tasks')
          /\ Follows(tasks, tasks', nextTask) /\ StatusKept(tasks, tasks')
          /\ DOMAIN tasks' \subseteq DOMAIN tasks
      BY <3>1, DropFollows
    <3> QED  BY <3>1, <3>2, TableWritten
  <2>5. CASE PostElsewhere(l)
    BY <2>5, TableSame DEF PostElsewhere
  <2> QED  BY <1>1, <2>1, <2>2, <2>3, <2>4, <2>5 DEF Elsewhere
<1>2. ASSUME NEW l \in TaskLists, NEW p \in Positions, ChatDeleteTask(l, p)
      PROVE  /\ TableOK' /\ nextTask <= nextTask'
             /\ Follows(tasks, tasks', nextTask) /\ StatusKept(tasks, tasks')
  <2>1. tasks' = RemoveAt(tasks, l, p) /\ UNCHANGED nextTask /\ p \in Nat \ {0}
    BY <1>2 DEF ChatDeleteTask, Positions
  <2>2. /\ WellFormed(tasks') /\ PositionsLow(tasks')
        /\ Follows(tasks, tasks', nextTask) /\ StatusKept(tasks, tasks')
        /\ DOMAIN tasks' \subseteq DOMAIN tasks
    BY <2>1, RemovalFollows
  <2> QED  BY <2>1, <2>2, TableWritten
<1>3. ASSUME NEW i \in 1 .. MaxTasks, NEW jids \in Assignments, ReplaceTaskAssignees(i, jids)
      PROVE  /\ TableOK' /\ nextTask <= nextTask'
             /\ Follows(tasks, tasks', nextTask) /\ StatusKept(tasks, tasks')
  <2>1. tasks' = SetAssignees(tasks, i, jids) /\ UNCHANGED nextTask /\ jids \in Seq(People)
    BY <1>3 DEF ReplaceTaskAssignees, GroupReplyAssumption
  <2>2. /\ WellFormed(tasks') /\ PositionsLow(tasks')
        /\ Follows(tasks, tasks', nextTask) /\ StatusKept(tasks, tasks')
        /\ DOMAIN tasks' = DOMAIN tasks
    BY <2>1, AssigneesFollow
  <2> QED  BY <2>1, <2>2, TableWritten
<1>4. CASE HandleGroupReply \/ ReadTasks \/ ComposeSummary \/ PostSummary \/ Crash \/ UNCHANGED vars
  BY <1>4, TableSame DEF HandleGroupReply, ReadTasks, ComposeSummary, PostSummary, Crash, vars
<1>5. CASE WriteStatus
  <2>1. /\ tasks' = SetStatus(tasks, ListOf(chat.reply), chat.reply.numbers, chat.reply.target)
        /\ UNCHANGED nextTask
        /\ chat.reply.target \in Statuses
    BY <1>5 DEF WriteStatus, UpdateTaskStatusTx, ChatSound, Replies
  <2> DEFINE l      == ListOf(chat.reply)
             ps     == chat.reply.numbers
             status == chat.reply.target
  <2> HIDE DEF l, ps, status
  <2>2. tasks' = SetStatus(tasks, l, ps, status) /\ status \in Statuses
    BY <2>1 DEF l, ps, status
  <2>3. /\ WellFormed(tasks') /\ PositionsLow(tasks') /\ Follows(tasks, tasks', nextTask)
        /\ DOMAIN tasks' = DOMAIN tasks
    BY <2>2, StatusFollows
  <2> QED  BY <1>5, <2>1, <2>3, TableWritten
<1>6. ASSUME NEW group \in Range(GroupOf), NEW person \in People, MarkAssigneeLeft(group, person)
      PROVE  /\ TableOK' /\ nextTask <= nextTask'
             /\ Follows(tasks, tasks', nextTask) /\ StatusKept(tasks, tasks')
  <2>1. /\ tasks' = SetLeft(tasks, {l \in TaskLists : GroupOf[l] = group}, person)
        /\ UNCHANGED nextTask
    BY <1>6 DEF MarkAssigneeLeft
  <2>2. /\ WellFormed(tasks') /\ PositionsLow(tasks')
        /\ Follows(tasks, tasks', nextTask) /\ StatusKept(tasks, tasks')
        /\ DOMAIN tasks' = DOMAIN tasks
    BY <2>1, LeftFollows
  <2> QED  BY <2>1, <2>2, TableWritten
<1>7. ASSUME NEW id \in DOMAIN tasks, NEW person \in People, SetAssigneeLeft(id, person)
      PROVE  /\ TableOK' /\ nextTask <= nextTask'
             /\ Follows(tasks, tasks', nextTask) /\ StatusKept(tasks, tasks')
  <2>1. tasks' = SetRowLeft(tasks, id, person) /\ UNCHANGED nextTask
    BY <1>7 DEF SetAssigneeLeft
  <2>2. /\ WellFormed(tasks') /\ PositionsLow(tasks')
        /\ Follows(tasks, tasks', nextTask) /\ StatusKept(tasks, tasks')
        /\ DOMAIN tasks' = DOMAIN tasks
    BY <2>1, RowLeftFollows
  <2> QED  BY <2>1, <2>2, TableWritten
<1> QED  BY <1>1, <1>2, <1>3, <1>4, <1>5, <1>6, <1>7 DEF Next

-----------------------------------------------------------------------------
\* A message stays sound: the task that a lower number named before it went is
\* the one that the message showed there.
LEMMA SoundStays ==
    ASSUME GroupReplyAssumption, NEW ts, WellFormed(ts), NEW us,
           NEW next \in Nat, NEW later \in Nat, next <= later,
           Follows(ts, us, next), NEW msg, Sound(msg, ts, next)
    PROVE  Sound(msg, us, later)
<1> DEFINE num == msg.numbering
<1>1. /\ msg \in Message
      /\ DOMAIN num \subseteq 1 .. MaxTasks /\ MaxTasks \in Nat
      /\ \A p \in DOMAIN num : num[p] \in Nat /\ num[p] < next
      /\ \A p \in DOMAIN num : \A q \in 1 .. p : q \in DOMAIN num
      /\ \A p \in DOMAIN num :
            \/ \E q \in DOMAIN num : q <= p /\ num[q] \notin DOMAIN ts
            \/ num[p] \in IdsAt(ts, msg.list, p)
  BY DEF Sound, Message, Positions, GroupReplyAssumption
<1> HIDE DEF num
<1>2. ASSUME NEW p \in DOMAIN num,
             \A q \in DOMAIN num : q <= p => num[q] \in DOMAIN us
      PROVE  num[p] \in IdsAt(us, msg.list, p)
  <2>1. \A q \in DOMAIN num : q <= p => num[q] \in DOMAIN ts
    BY <1>1, <1>2 DEF Follows
  <2>2. ASSUME NEW q \in DOMAIN num, q <= p PROVE num[q] \in IdsAt(ts, msg.list, q)
    <3>1. \A r \in DOMAIN num : r <= q => r <= p
      BY <1>1, <2>2
    <3> QED  BY <1>1, <2>1, <2>2, <3>1
  <2>3. /\ num[p] \in DOMAIN us /\ num[p] \in DOMAIN ts
        /\ ts[num[p]].list = msg.list /\ ts[num[p]].position = p
    BY <1>1, <1>2, <2>2 DEF IdsAt, RowsOf
  <2>4. ~ \E j \in DOMAIN ts \ DOMAIN us : ts[j].list = msg.list /\ ts[j].position < p
    <3> SUFFICES ASSUME NEW j \in DOMAIN ts, j \notin DOMAIN us,
                        ts[j].list = msg.list, ts[j].position < p
                 PROVE  FALSE
      OBVIOUS
    <3>1. ts[j].position \in 1 .. p
      BY <1>1, RowType DEF WellFormed
    <3>2. ts[j].position \in DOMAIN num
      BY <1>1, <3>1
    <3>3. num[ts[j].position] \in IdsAt(ts, msg.list, ts[j].position)
      BY <1>1, <2>2, <3>1, <3>2
    <3>4. num[ts[j].position] = j
      BY <3>3 DEF IdsAt, RowsOf, WellFormed, UniquePositions
    <3> QED  BY <1>1, <1>2, <3>1, <3>2, <3>4
  <2>5. us[num[p]].list = msg.list /\ us[num[p]].position = p
    BY <1>1, <2>3, <2>4 DEF Follows
  <2> QED  BY <2>3, <2>5 DEF IdsAt, RowsOf
<1>3. \A p \in DOMAIN num : num[p] < later
  BY <1>1
<1> QED  BY <1>1, <1>2, <1>3 DEF Sound, num

LEMMA ReadStays ==
    ASSUME NEW ts, WellFormed(ts), NEW us,
           NEW next \in Nat, NEW later \in Nat, next <= later,
           Follows(ts, us, next), StatusKept(ts, us),
           NEW read, NEW l, ReadSound(read, l, ts, next)
    PROVE  ReadSound(read, l, us, later)
<1>1. /\ Typed(read)
      /\ \A i \in DOMAIN read : i \in Nat /\ i < next /\ read[i].position \in Nat \ {0}
      /\ \A i \in DOMAIN read : \A q \in 1 .. read[i].position :
            \E j \in DOMAIN read : read[j].position = q
  BY RowType DEF ReadSound
<1>2. ASSUME \A i \in DOMAIN read : i \in DOMAIN us, NEW i \in DOMAIN read
      PROVE  /\ us[i].list = l
             /\ us[i].position = read[i].position
             /\ us[i].status = read[i].status
  <2>1. \A j \in DOMAIN read : j \in DOMAIN ts
    BY <1>1, <1>2 DEF Follows
  <2>2. \A j \in DOMAIN read : /\ ts[j].list = l
                               /\ ts[j].position = read[j].position
                               /\ ts[j].status = read[j].status
    BY <2>1 DEF ReadSound
  <2>3. ~ \E j \in DOMAIN ts \ DOMAIN us : ts[j].list = l /\ ts[j].position < ts[i].position
    <3> SUFFICES ASSUME NEW j \in DOMAIN ts, j \notin DOMAIN us,
                        ts[j].list = l, ts[j].position < ts[i].position
                 PROVE  FALSE
      OBVIOUS
    <3>1. ts[j].position \in 1 .. read[i].position
      BY <1>1, <2>2, RowType DEF WellFormed
    <3>2. PICK k \in DOMAIN read : read[k].position = ts[j].position
      BY <1>1, <3>1
    <3>3. k = j
      BY <2>1, <2>2, <3>2 DEF WellFormed, UniquePositions
    <3> QED  BY <1>2, <3>3
  <2>4. i \in DOMAIN us /\ i \in DOMAIN ts /\ i < next
    BY <1>1, <1>2, <2>1
  <2>5. us[i].list = ts[i].list /\ us[i].position = ts[i].position
    BY <2>2, <2>3, <2>4 DEF Follows
  <2>6. us[i].status = ts[i].status
    BY <2>4 DEF StatusKept
  <2> QED  BY <2>2, <2>5, <2>6
<1>3. \A i \in DOMAIN read : i < later
  BY <1>1
<1> QED  BY <1>1, <1>2, <1>3 DEF ReadSound

\* A message as it is composed.
LEMMA SummarySound ==
    ASSUME GroupReplyAssumption, TableOK, NEW l \in TaskLists
    PROVE  Sound(Summary(l), tasks, nextTask)
<1> DEFINE S == {tasks[i].position : i \in RowsOf(tasks, l)}
           f == Numbering(l)
<1>1. \A i \in RowsOf(tasks, l) : /\ i \in DOMAIN tasks /\ tasks[i].list = l
                                  /\ i \in Nat /\ i < nextTask /\ i \in 1 .. MaxTasks
                                  /\ tasks[i].position \in 1 .. MaxTasks
  <2> SUFFICES ASSUME NEW i \in RowsOf(tasks, l)
               PROVE  /\ i \in DOMAIN tasks /\ tasks[i].list = l
                      /\ i \in Nat /\ i < nextTask /\ i \in 1 .. MaxTasks
                      /\ tasks[i].position \in 1 .. MaxTasks
    OBVIOUS
  <2>1. i \in DOMAIN tasks /\ tasks[i].list = l
    BY DEF RowsOf
  <2>2. i \in Nat /\ i < nextTask /\ i \in 1 .. MaxTasks
    BY <2>1 DEF TableOK, GroupReplyAssumption
  <2>3. tasks[i].position \in Nat \ {0} /\ tasks[i].position <= i
    BY <2>1, RowType DEF TableOK, WellFormed, PositionsLow
  <2> QED  BY <2>1, <2>2, <2>3 DEF GroupReplyAssumption
<1>2. DOMAIN f = S /\ \A p \in S : f[p] \in IdsAt(tasks, l, p)
  <2>1. \A p \in S : IdsAt(tasks, l, p) # {}
    BY DEF IdsAt
  <2> QED  BY <2>1 DEF Numbering
<1> HIDE DEF f
<1>3. \A p \in S : f[p] \in 1 .. MaxTasks /\ f[p] < nextTask
  BY <1>1, <1>2 DEF IdsAt
<1>4. f \in [S -> 1 .. MaxTasks]
  <2>1. f = [p \in DOMAIN f |-> f[p]]
    BY DEF f, Numbering
  <2> QED  BY <1>2, <1>3, <2>1
<1>5. S \in SUBSET Positions
  BY <1>1 DEF Positions
<1>6. ASSUME NEW p \in S, NEW q \in 1 .. p PROVE q \in S
  <2>1. PICK i \in RowsOf(tasks, l) : tasks[i].position = p
    OBVIOUS
  <2>2. PICK j \in DOMAIN tasks : tasks[j].list = tasks[i].list /\ tasks[j].position = q
    BY <1>1, <2>1, RowAt DEF TableOK, WellFormed
  <2> QED  BY <1>1, <2>2 DEF RowsOf
<1>7. Summary(l) = [list |-> l, numbering |-> f]
  BY DEF Summary, f
<1> HIDE DEF S
<1>8. Summary(l) \in Message
  <2>1. f \in UNION {[T -> 1 .. MaxTasks] : T \in SUBSET Positions}
    BY <1>4, <1>5
  <2> QED  BY <1>7, <2>1 DEF Message
<1> QED  BY <1>2, <1>3, <1>6, <1>7, <1>8 DEF Sound

-----------------------------------------------------------------------------
\* The messages there are stay as they are; one that comes was composed soundly.
LEMMA MessagesKept ==
    ASSUME GroupReplyAssumption, TableOK, MessagesSound,
           nextTask' \in Nat, nextTask <= nextTask', Follows(tasks, tasks', nextTask),
           UNCHANGED messages
    PROVE  MessagesSound'
<1>1. nextTask \in Nat /\ WellFormed(tasks)
  BY DEF TableOK, GroupReplyAssumption
<1>2. ASSUME NEW m \in DOMAIN messages PROVE Sound(messages[m], tasks', nextTask')
  BY <1>1, SoundStays DEF MessagesSound
<1> QED  BY <1>2 DEF MessagesSound

LEMMA MessageAppended ==
    ASSUME MessagesSound, NEW msg, Sound(msg, tasks, nextTask),
           messages' = Append(messages, msg), UNCHANGED <<tasks, nextTask>>
    PROVE  /\ MessagesSound'
           /\ DOMAIN messages \subseteq DOMAIN messages'
           /\ \A m \in DOMAIN messages : messages'[m] = messages[m]
<1>1. messages \in Seq(Message) /\ msg \in Message
  BY DEF MessagesSound, Sound
<1> DEFINE n == Len(messages)
<1>2. n \in Nat /\ DOMAIN messages = 1 .. n
  BY <1>1, SeqElements
<1>3. /\ messages' \in Seq(Message)
      /\ DOMAIN messages' = 1 .. n + 1
      /\ \A m \in 1 .. n : messages'[m] = messages[m]
      /\ messages'[n + 1] = msg
  BY <1>1
<1> HIDE DEF n
<1>4. ASSUME NEW m \in DOMAIN messages' PROVE Sound(messages'[m], tasks', nextTask')
  <2>1. CASE m \in DOMAIN messages
    BY <1>2, <1>3, <2>1 DEF MessagesSound
  <2>2. CASE m = n + 1
    BY <1>3, <2>2
  <2> QED  BY <1>2, <1>3, <2>1, <2>2
<1> QED  BY <1>2, <1>3, <1>4 DEF MessagesSound

LEMMA MessagesStep ==
    ASSUME GroupReplyAssumption, IInv, [Next]_vars,
           nextTask' \in Nat, nextTask <= nextTask', Follows(tasks, tasks', nextTask)
    PROVE  /\ MessagesSound'
           /\ DOMAIN messages \subseteq DOMAIN messages'
           /\ \A m \in DOMAIN messages : messages'[m] = messages[m]
<1>1. CASE UNCHANGED messages
  BY <1>1, MessagesKept DEF IInv
<1>2. ASSUME NEW l \in TaskLists, PostElsewhere(l)
      PROVE  /\ MessagesSound'
             /\ DOMAIN messages \subseteq DOMAIN messages'
             /\ \A m \in DOMAIN messages : messages'[m] = messages[m]
  <2>1. messages' = Append(messages, Summary(l)) /\ UNCHANGED <<tasks, nextTask>>
    BY <1>2 DEF PostElsewhere
  <2>2. Sound(Summary(l), tasks, nextTask)
    BY SummarySound DEF IInv
  <2> QED  BY <2>1, <2>2, MessageAppended DEF IInv
<1>3. CASE PostSummary
  <2>1. messages' = messages \/ messages' = Append(messages, chat.summary)
    BY <1>3 DEF PostSummary
  <2>2. UNCHANGED <<tasks, nextTask>> /\ Sound(chat.summary, tasks, nextTask)
    BY <1>3 DEF PostSummary, IInv, ChatSound
  <2> QED  BY <1>1, <2>1, <2>2, MessageAppended DEF IInv
<1>4. \/ UNCHANGED messages
      \/ \E l \in TaskLists : PostElsewhere(l)
      \/ PostSummary
  BY DEF Next, Elsewhere, AddTask, WebDeleteTask, MarkAssigneeLeft, SetAssigneeLeft, StopList,
         DeleteTaskList, ChatDeleteTask, ReplaceTaskAssignees, HandleGroupReply, ReadTasks,
         WriteStatus, ComposeSummary, Crash, vars
<1> QED  BY <1>1, <1>2, <1>3, <1>4

-----------------------------------------------------------------------------
\* The last part of TypeOK.
ChatTyped ==
    \/ chat = Idle
    \/ chat.pc = "read" /\ chat.reply \in Replies
    \/ chat.pc = "write" /\ chat.reply \in Replies /\ Typed(chat.read)
    \/ chat.pc = "post" /\ chat.list \in TaskLists
    \/ chat.pc = "send" /\ chat.summary.list \in TaskLists

LEMMA ListOfType ==
    ASSUME MessagesSound, NEW reply, reply.message \in DOMAIN messages
    PROVE  ListOf(reply) \in TaskLists
<1>1. messages[reply.message] \in Message
  BY DEF MessagesSound, Sound
<1> QED  BY <1>1 DEF ListOf, Message

\* What a reply reads is sound when it is read.
LEMMA ReadIsSound ==
    ASSUME TableOK, NEW l
    PROVE  ReadSound([i \in RowsOf(tasks, l) |-> tasks[i]], l, tasks, nextTask)
<1> DEFINE read == [i \in RowsOf(tasks, l) |-> tasks[i]]
<1>1. \A i \in DOMAIN read : i \in DOMAIN tasks /\ tasks[i].list = l /\ read[i] = tasks[i]
  BY DEF RowsOf
<1>2. DOMAIN read \subseteq DOMAIN tasks
  BY <1>1
<1>3. Typed(read)
  <2>1. IsFiniteSet(DOMAIN read)
    BY <1>2, FS_Subset DEF TableOK, WellFormed, Typed
  <2> QED  BY <1>1, <1>2, <2>1 DEF TableOK, WellFormed, Typed
<1>4. \A i \in DOMAIN read : i < nextTask
  BY <1>1 DEF TableOK
<1>5. ASSUME NEW i \in DOMAIN read, NEW q \in 1 .. read[i].position
      PROVE  \E j \in DOMAIN read : read[j].position = q
  <2>1. PICK j \in DOMAIN tasks : tasks[j].list = l /\ tasks[j].position = q
    BY <1>1, RowAt DEF TableOK, WellFormed
  <2> QED  BY <2>1 DEF RowsOf
<1> QED  BY <1>1, <1>3, <1>4, <1>5 DEF ReadSound

LEMMA ChatStep ==
    ASSUME GroupReplyAssumption, IInv, [Next]_vars,
           nextTask' \in Nat, nextTask <= nextTask', Follows(tasks, tasks', nextTask),
           StatusKept(tasks, tasks') \/ WriteStatus,
           DOMAIN messages \subseteq DOMAIN messages',
           \A m \in DOMAIN messages : messages'[m] = messages[m]
    PROVE  ChatSound' /\ ChatTyped'
<1>0. nextTask \in Nat /\ WellFormed(tasks)
  BY DEF IInv, TableOK, GroupReplyAssumption
<1>1. CASE UNCHANGED chat
  <2>1. StatusKept(tasks, tasks')
    BY <1>1 DEF WriteStatus
  <2>2. ChatTyped'
    BY <1>1 DEF IInv, TypeOK, ChatTyped
  <2>3. chat.pc \in {"read", "write"} =>
            /\ chat'.reply \in Replies /\ chat'.reply.message \in DOMAIN messages'
            /\ ListOf(chat.reply)' = ListOf(chat.reply)
    BY <1>1 DEF IInv, ChatSound, ListOf
  <2>4. chat.pc = "write" =>
            ReadSound(chat.read, ListOf(chat.reply), tasks', nextTask')
    BY <1>0, <2>1, ReadStays DEF IInv, ChatSound
  <2>5. chat.pc = "send" => Sound(chat.summary, tasks', nextTask')
    BY <1>0, SoundStays DEF IInv, ChatSound
  <2>6. chat.pc = "write" => Accepted(chat.read, chat.reply)
    BY DEF IInv, ChatSound
  <2> QED  BY <1>1, <2>2, <2>3, <2>4, <2>5, <2>6 DEF ChatSound
<1>2. CASE chat' = Idle
  BY <1>2 DEF Idle, ChatSound, ChatTyped
<1>3. ASSUME NEW l \in TaskLists, chat' = [pc |-> "post", list |-> l]
      PROVE  ChatSound' /\ ChatTyped'
  BY <1>3 DEF ChatSound, ChatTyped
<1>4. CASE HandleGroupReply
  <2>1. PICK reply \in Replies :
            reply.message \in DOMAIN messages /\ chat' = [pc |-> "read", reply |-> reply]
    BY <1>4 DEF HandleGroupReply
  <2> QED  BY <2>1 DEF ChatSound, ChatTyped
<1>5. CASE ReadTasks
  <2> DEFINE read == [i \in RowsOf(tasks, ListOf(chat.reply)) |-> tasks[i]]
  <2>1. /\ UNCHANGED <<tasks, nextTask, messages>>
        /\ \/ chat' = Idle
           \/ /\ Accepted(read, chat.reply)
              /\ chat' = [pc |-> "write", reply |-> chat.reply, read |-> read]
    BY <1>5 DEF ReadTasks
  <2>2. chat.reply \in Replies /\ chat.reply.message \in DOMAIN messages
    BY <1>5 DEF ReadTasks, IInv, ChatSound
  <2>3. ReadSound(read, ListOf(chat.reply), tasks, nextTask)
    BY ReadIsSound DEF IInv
  <2> HIDE DEF read
  <2>4. ASSUME Accepted(read, chat.reply),
               chat' = [pc |-> "write", reply |-> chat.reply, read |-> read]
        PROVE  ChatSound' /\ ChatTyped'
    <3>1. chat'.pc = "write" /\ chat'.reply = chat.reply /\ chat'.read = read
      BY <2>4
    <3>2. ListOf(chat.reply)' = ListOf(chat.reply)
      BY <2>1, <3>1 DEF ListOf
    <3>3. ChatSound'
      BY <2>1, <2>2, <2>3, <2>4, <3>1, <3>2 DEF ChatSound
    <3> QED  BY <2>2, <2>3, <3>1, <3>3 DEF ChatTyped, ReadSound
  <2> QED  BY <1>2, <2>1, <2>4
<1>6. CASE WriteStatus
  <2>1. ListOf(chat.reply) \in TaskLists
    BY <1>6, ListOfType DEF WriteStatus, IInv, ChatSound
  <2>2. chat' = [pc |-> "post", list |-> ListOf(chat.reply)]
    BY <1>6 DEF WriteStatus
  <2> QED  BY <1>3, <2>1, <2>2
<1>7. CASE ComposeSummary
  <2>1. /\ chat' = [pc |-> "send", summary |-> Summary(chat.list)]
        /\ UNCHANGED <<tasks, nextTask>>
        /\ chat.list \in TaskLists
    BY <1>7 DEF ComposeSummary, IInv, TypeOK, Idle
  <2>2. Sound(Summary(chat.list), tasks, nextTask)
    BY <2>1, SummarySound DEF IInv
  <2> DEFINE summary == Summary(chat.list)
  <2> HIDE DEF summary
  <2>3. chat'.pc = "send" /\ chat'.summary = summary
    BY <2>1 DEF summary
  <2>4. Sound(chat'.summary, tasks', nextTask')
    BY <2>1, <2>2, <2>3 DEF summary
  <2>5. chat'.summary.list \in TaskLists
    BY <2>4 DEF Sound, Message
  <2> QED  BY <2>3, <2>4, <2>5 DEF ChatSound, ChatTyped
<1>8. ASSUME NEW l \in TaskLists, NEW p \in Positions, ChatDeleteTask(l, p)
      PROVE  ChatSound' /\ ChatTyped'
  BY <1>3, <1>8 DEF ChatDeleteTask
<1>9. \/ UNCHANGED chat \/ chat' = Idle
      \/ HandleGroupReply \/ ReadTasks \/ WriteStatus \/ ComposeSummary
      \/ \E l \in TaskLists, p \in Positions : ChatDeleteTask(l, p)
  BY DEF Next, Elsewhere, AddTask, WebDeleteTask, MarkAssigneeLeft, SetAssigneeLeft, StopList,
         DeleteTaskList, PostElsewhere, ReplaceTaskAssignees, PostSummary, Crash, vars
<1> QED  BY <1>1, <1>2, <1>4, <1>5, <1>6, <1>7, <1>8, <1>9

-----------------------------------------------------------------------------
LEMMA InitEstablishes == ASSUME GroupReplyAssumption, Init PROVE IInv
<1>1. Typed(tasks)
  BY FS_EmptySet DEF Init, Typed
<1>2. TableOK
  BY <1>1 DEF Init, TableOK, WellFormed, UniquePositions, NoGaps, InCreationOrder, UniqueTitles,
              PositionsLow, GroupReplyAssumption
<1>3. MessagesSound
  BY DEF Init, MessagesSound
<1>4. ChatSound
  BY DEF Init, Idle, ChatSound
<1>5. TypeOK
  BY <1>1, <1>2 DEF Init, TypeOK, TableOK
<1> QED  BY <1>2, <1>3, <1>4, <1>5 DEF IInv

LEMMA NextPreserves ==
    ASSUME GroupReplyAssumption, IInv, [Next]_vars
    PROVE  IInv'
<1>1. /\ TableOK' /\ nextTask <= nextTask'
      /\ Follows(tasks, tasks', nextTask)
      /\ StatusKept(tasks, tasks') \/ WriteStatus
  BY TableStep DEF IInv
<1>2. nextTask' \in Nat
  BY <1>1 DEF TableOK, GroupReplyAssumption
<1>3. /\ MessagesSound'
      /\ DOMAIN messages \subseteq DOMAIN messages'
      /\ \A m \in DOMAIN messages : messages'[m] = messages[m]
  BY <1>1, <1>2, MessagesStep
<1>4. ChatSound' /\ ChatTyped'
  BY <1>1, <1>2, <1>3, ChatStep
<1>5. listStatus' \in [TaskLists -> {"active", "stopped", "gone"}]
  BY DEF IInv, TypeOK, Next, Elsewhere, AddTask, WebDeleteTask, MarkAssigneeLeft, SetAssigneeLeft,
         StopList, DeleteTaskList, PostElsewhere, ChatDeleteTask, ReplaceTaskAssignees,
         HandleGroupReply, ReadTasks, WriteStatus, ComposeSummary, PostSummary, Crash, vars
<1>6. ASSUME NEW m \in DOMAIN messages'
      PROVE  /\ messages'[m].list \in TaskLists
             /\ messages'[m].numbering \in
                   UNION {[S -> 1 .. nextTask' - 1] : S \in SUBSET Positions}
  <2> DEFINE msg == messages'[m]
  <2>1. Sound(msg, tasks', nextTask')
    BY <1>3 DEF MessagesSound
  <2> HIDE DEF msg
  <2>2. msg.list \in TaskLists
    BY <2>1 DEF Sound, Message
  <2>3. PICK S \in SUBSET Positions : msg.numbering \in [S -> 1 .. MaxTasks]
    BY <2>1 DEF Sound, Message
  <2>4. \A p \in S : msg.numbering[p] \in 1 .. nextTask' - 1
    BY <1>2, <2>1, <2>3 DEF Sound, GroupReplyAssumption
  <2>5. msg.numbering \in [S -> 1 .. nextTask' - 1]
    BY <2>3, <2>4
  <2> QED  BY <2>2, <2>5 DEF msg
<1>7. TypeOK'
  BY <1>1, <1>4, <1>5, <1>6 DEF TypeOK, ChatTyped, TableOK, WellFormed
<1> QED  BY <1>1, <1>3, <1>4, <1>7 DEF IInv

\* Every reachable state satisfies the inductive invariant.
LEMMA Invariance == Spec => []IInv
<1>1. Init => IInv
  BY InitEstablishes, GroupReplyAssumption
<1>2. IInv /\ [Next]_vars => IInv'
  BY NextPreserves, GroupReplyAssumption
<1> QED  BY <1>1, <1>2, PTL DEF Spec

\* Type correctness of group replies; every number a message shows names a row
\* that was inserted.
THEOREM TypeCorrect == Spec => []TypeOK
<1>1. IInv => TypeOK
  BY DEF IInv
<1> QED  BY <1>1, Invariance, PTL

-----------------------------------------------------------------------------
\* The steps of the three action properties.
MarkStep ==
    \A i \in Marked :
        \/ DeletedSinceRead
        \/ i \in DOMAIN chat.read /\ Responsible(chat.read[i], chat.reply.sender)

NumberStep ==
    \A i \in Marked :
        LET p     == tasks[i].position
            shown == messages[chat.reply.message].numbering
        IN  /\ p \in chat.reply.numbers
            /\ \/ p \notin DOMAIN shown
               \/ shown[p] = i
               \/ \E q \in DOMAIN shown : q <= p /\ shown[q] \notin DOMAIN tasks

IdleStep == chat.pc = "write" /\ chat'.pc = "post" => Marked # {} \/ DeletedSinceRead

\* Only the transaction of a reply marks tasks: those at its numbers, in its list.
LEMMA MarkedByReply ==
    ASSUME GroupReplyAssumption, IInv, [Next]_vars, NEW i \in Marked
    PROVE  /\ WriteStatus
           /\ i \in IdsAt(tasks, ListOf(chat.reply), tasks[i].position)
           /\ tasks[i].position \in chat.reply.numbers
<1>1. i \in DOMAIN tasks /\ i \in DOMAIN tasks' /\ tasks'[i].status # tasks[i].status
  BY DEF Marked
<1>2. WriteStatus
  BY <1>1, TableStep DEF IInv, StatusKept
<1>3. tasks' = SetStatus(tasks, ListOf(chat.reply), chat.reply.numbers, chat.reply.target)
  BY <1>2 DEF WriteStatus, UpdateTaskStatusTx
<1>4. tasks[i].list = ListOf(chat.reply) /\ tasks[i].position \in chat.reply.numbers
  BY <1>1, <1>3 DEF SetStatus
<1> QED  BY <1>1, <1>2, <1>4 DEF IdsAt, RowsOf

\* A task at an accepted number is one that was read, if nothing read is gone.
LEMMA NamedWasRead ==
    ASSUME IInv, chat.pc = "write", ~DeletedSinceRead, NEW p \in chat.reply.numbers,
           NEW i \in IdsAt(tasks, ListOf(chat.reply), p)
    PROVE  i \in Named(chat.read, chat.reply)
<1>1. /\ ReadSound(chat.read, ListOf(chat.reply), tasks, nextTask)
      /\ Accepted(chat.read, chat.reply)
  BY DEF IInv, ChatSound
<1>2. PICK j \in DOMAIN chat.read : chat.read[j].position = p
  BY <1>1 DEF Accepted
<1>3. j \in DOMAIN tasks /\ tasks[j].list = ListOf(chat.reply) /\ tasks[j].position = p
  BY <1>1, <1>2 DEF ReadSound, DeletedSinceRead
<1>4. j = i
  BY <1>3 DEF IdsAt, RowsOf, IInv, TableOK, WellFormed, UniquePositions
<1> QED  BY <1>2, <1>4 DEF Named

\* The check of a reply means what MarksByRight asks.
LEMMA AuthorizedIsResponsible ==
    ASSUME NEW row \in Row, NEW person, isAuthorized(row, person)
    PROVE  Responsible(row, person)
<1>1. CASE person = Admin
  BY <1>1 DEF Responsible
<1>2. CASE person \in DOMAIN row.assignees /\ ~row.assignees[person]
  <2>1. PICK S \in SUBSET People : row.assignees \in [S -> BOOLEAN]
    BY DEF Row
  <2>2. row.assignees[person] \in BOOLEAN
    BY <1>2, <2>1
  <2>3. row.assignees[person] = FALSE
    BY <1>2, <2>2
  <2> QED  BY <1>2, <2>3 DEF Responsible
<1> QED  BY <1>1, <1>2 DEF isAuthorized

LEMMA MarksAreRight == ASSUME GroupReplyAssumption, IInv, [Next]_vars PROVE MarkStep
<1> SUFFICES ASSUME NEW i \in Marked, ~DeletedSinceRead
             PROVE  i \in DOMAIN chat.read /\ Responsible(chat.read[i], chat.reply.sender)
  BY DEF MarkStep
<1>1. chat.pc = "write" /\ i \in Named(chat.read, chat.reply)
  <2>1. chat.pc = "write"
    BY MarkedByReply DEF WriteStatus
  <2> QED  BY <2>1, MarkedByReply, NamedWasRead
<1>2. i \in DOMAIN chat.read /\ isAuthorized(chat.read[i], chat.reply.sender)
  BY <1>1 DEF IInv, ChatSound, Accepted, Named
<1>3. chat.read[i] \in Row
  BY <1>1, <1>2 DEF IInv, ChatSound, ReadSound, Typed
<1> QED  BY <1>2, <1>3, AuthorizedIsResponsible

LEMMA NumbersMean == ASSUME GroupReplyAssumption, IInv, [Next]_vars PROVE NumberStep
<1> SUFFICES ASSUME NEW i \in Marked
             PROVE  LET p     == tasks[i].position
                        shown == messages[chat.reply.message].numbering
                    IN  /\ p \in chat.reply.numbers
                        /\ \/ p \notin DOMAIN shown
                           \/ shown[p] = i
                           \/ \E q \in DOMAIN shown : q <= p /\ shown[q] \notin DOMAIN tasks
  BY DEF NumberStep
<1> DEFINE msg == messages[chat.reply.message]
           p   == tasks[i].position
<1>1. /\ chat.pc = "write" /\ p \in chat.reply.numbers
      /\ i \in IdsAt(tasks, msg.list, p)
  BY MarkedByReply DEF WriteStatus, ListOf
<1>2. Sound(msg, tasks, nextTask)
  BY <1>1 DEF IInv, ChatSound, MessagesSound
<1> HIDE DEF msg, p
<1>3. ASSUME p \in DOMAIN msg.numbering,
             ~ \E q \in DOMAIN msg.numbering : q <= p /\ msg.numbering[q] \notin DOMAIN tasks
      PROVE  msg.numbering[p] = i
  <2>1. msg.numbering[p] \in IdsAt(tasks, msg.list, p)
    BY <1>2, <1>3 DEF Sound
  <2> QED  BY <1>1, <2>1 DEF IdsAt, RowsOf, IInv, TableOK, WellFormed, UniquePositions
<1> QED  BY <1>1, <1>3 DEF msg, p

LEMMA WritesMark == ASSUME GroupReplyAssumption, IInv, [Next]_vars PROVE IdleStep
<1> SUFFICES ASSUME chat.pc = "write", chat'.pc = "post", ~DeletedSinceRead
             PROVE  Marked # {}
  BY DEF IdleStep
<1>1. WriteStatus
  <2>1. chat' # chat /\ chat # Idle /\ chat' # Idle /\ chat.pc # "read" /\ chat.pc # "send"
    BY DEF Idle
  <2>2. ~ \E l \in TaskLists : Elsewhere(l)
    BY <2>1 DEF Elsewhere, AddTask, WebDeleteTask, StopList, DeleteTaskList, PostElsewhere
  <2>3. /\ ~ \E l \in TaskLists, p \in Positions : ChatDeleteTask(l, p)
        /\ ~ \E i \in 1 .. MaxTasks, jids \in Assignments : ReplaceTaskAssignees(i, jids)
        /\ ~ \E group \in Range(GroupOf), person \in People : MarkAssigneeLeft(group, person)
        /\ ~ \E id \in DOMAIN tasks, person \in People : SetAssigneeLeft(id, person)
    BY <2>1 DEF ChatDeleteTask, ReplaceTaskAssignees, MarkAssigneeLeft, SetAssigneeLeft
  <2>4. ~HandleGroupReply /\ ~ReadTasks /\ ~ComposeSummary /\ ~PostSummary /\ ~Crash
    BY <2>1 DEF HandleGroupReply, ReadTasks, ComposeSummary, PostSummary, Crash
  <2> QED  BY <2>1, <2>2, <2>3, <2>4 DEF Next, vars
<1>2. tasks' = SetStatus(tasks, ListOf(chat.reply), chat.reply.numbers, chat.reply.target)
  BY <1>1 DEF WriteStatus, UpdateTaskStatusTx
<1>3. /\ ReadSound(chat.read, ListOf(chat.reply), tasks, nextTask)
      /\ Accepted(chat.read, chat.reply)
  BY DEF IInv, ChatSound
<1>4. PICK i \in Named(chat.read, chat.reply) : chat.read[i].status # chat.reply.target
  BY <1>3 DEF Accepted
<1>5. /\ i \in DOMAIN chat.read /\ chat.read[i].position \in chat.reply.numbers
      /\ i \in DOMAIN tasks
      /\ tasks[i].list = ListOf(chat.reply)
      /\ tasks[i].position = chat.read[i].position
      /\ tasks[i].status = chat.read[i].status
  BY <1>3, <1>4 DEF Named, ReadSound, DeletedSinceRead
<1>6. tasks[i] \in Row
  BY <1>5 DEF IInv, TableOK, WellFormed, Typed
<1>7. tasks'[i] = [tasks[i] EXCEPT !.status = chat.reply.target] /\ i \in DOMAIN tasks'
  BY <1>2, <1>5 DEF SetStatus
<1>8. tasks'[i].status = chat.reply.target
  BY <1>6, <1>7 DEF Row
<1>9. i \in Marked
  BY <1>4, <1>5, <1>7, <1>8 DEF Marked
<1> QED  BY <1>9

\* Nobody marks a task of somebody else, whatever is deleted, reassigned or marked
\* as left between the check of a reply and its transaction, unless a task it
\* read was deleted meanwhile.
THEOREM RepliesMarkByRight == Spec => MarksByRight
<1>1. IInv /\ [Next]_vars => [MarkStep]_vars
  BY MarksAreRight, GroupReplyAssumption
<1> QED  BY <1>1, Invariance, PTL DEF Spec, MarksByRight, MarkStep

\* A reply to any message, however old, marks the tasks that it showed, unless a
\* task with the same number or a lower one was deleted since.
THEOREM NumbersKeepTheirMeaning == Spec => NumbersShiftOnlyByDeletion
<1>1. IInv /\ [Next]_vars => [NumberStep]_vars
  BY NumbersMean, GroupReplyAssumption
<1> QED  BY <1>1, Invariance, PTL DEF Spec, NumbersShiftOnlyByDeletion, NumberStep

\* A reply that changes nothing posts nothing, unless a task it read was deleted.
THEOREM RepeatsPostNothing == Spec => NoIdleSummary
<1>1. IInv /\ [Next]_vars => [IdleStep]_vars
  BY WritesMark, GroupReplyAssumption
<1> QED  BY <1>1, Invariance, PTL DEF Spec, NoIdleSummary, IdleStep

-----------------------------------------------------------------------------
(***************************************************************************)
(* The lists of GroupReply implement TaskSequence, replies included.       *)
(***************************************************************************)
Listed(l) == listStatus[l] # "gone"

\* No task outlives its list.
Owned == \A i \in DOMAIN tasks : Listed(tasks[i].list)

Unmoved(l) == UNCHANGED <<listStatus[l] # "gone", Shown(tasks, l)>>

ListStep(l) == Unmoved(l) \/ List(l)!Next

LEMMA ShownNext == ASSUME NEW l PROVE Shown(tasks, l)' = Shown(tasks', l)
BY DEF Shown, RowsOf, IdsAt, Item

LEMMA SameChanges ==
    ASSUME NEW l, NEW s, NEW t
    PROVE  List(l)!Follows(s, t) <=> Changes!Follows(s, t)
BY DEF List!Follows, List!Extended, List!Removed, List!Left, List!LeftAt, List!Renamed,
       List!Reassigned, List!Marked, List!Distinct, List!ChangedAt, List!Present,
       Changes!Follows, Changes!Extended, Changes!Removed, Changes!Left, Changes!LeftAt,
       Changes!Renamed, Changes!Reassigned, Changes!Marked, Changes!Distinct,
       Changes!ChangedAt, Changes!Present

LEMMA NextWellFormed == ASSUME IInv' PROVE WellFormed(tasks')
BY DEF IInv, TableOK, WellFormed, Typed, UniquePositions, NoGaps, InCreationOrder, UniqueTitles,
       IdsAt, RowsOf

\* A list is there until it is deleted, and never again.
LEMMA ListedStep ==
    ASSUME IInv, [Next]_vars, NEW l \in TaskLists
    PROVE  /\ Listed(l)' => Listed(l)
           /\ Listed(l) /\ ~Listed(l)' => DeleteTaskList(l)
           /\ DeleteTaskList(l) => Listed(l) /\ ~Listed(l)'
<1>1. listStatus \in [TaskLists -> {"active", "stopped", "gone"}]
  BY DEF IInv, TypeOK
<1>2. ASSUME NEW k \in TaskLists, DeleteTaskList(k)
      PROVE  Listed(k) /\ ~Listed(k)' /\ (l # k => (Listed(l)' <=> Listed(l)))
  BY <1>1, <1>2 DEF DeleteTaskList, Listed
<1>3. ASSUME NEW k \in TaskLists, StopList(k) PROVE Listed(l)' <=> Listed(l)
  BY <1>1, <1>3 DEF StopList, Listed
<1>4. CASE ~ \E k \in TaskLists : DeleteTaskList(k) \/ StopList(k)
  <2>1. listStatus' = listStatus
    BY <1>4 DEF Next, Elsewhere, AddTask, WebDeleteTask, MarkAssigneeLeft, SetAssigneeLeft,
                PostElsewhere, ChatDeleteTask, ReplaceTaskAssignees, HandleGroupReply, ReadTasks,
                WriteStatus, ComposeSummary, PostSummary, Crash, vars
  <2> QED  BY <1>2, <2>1 DEF Listed
<1> QED  BY <1>2, <1>3, <1>4

LEMMA OwnedStep ==
    ASSUME GroupReplyAssumption, IInv, IInv', Owned, [Next]_vars
    PROVE  Owned'
<1>1. /\ Follows(tasks, tasks', nextTask) /\ nextTask \in Nat
      /\ DOMAIN tasks \subseteq 1 .. nextTask - 1
  BY TableStep DEF IInv, TableOK, GroupReplyAssumption
<1>2. \A i \in DOMAIN tasks : tasks[i].list \in TaskLists
  BY RowType DEF IInv, TableOK, WellFormed
<1>3. DOMAIN tasks' \subseteq 1 .. nextTask' - 1
  BY DEF IInv, TableOK
<1>4. SUFFICES ASSUME NEW i \in DOMAIN tasks' PROVE listStatus'[tasks'[i].list] # "gone"
  BY DEF Owned, Listed
<1>5. CASE i < nextTask
  <2>1. i \in DOMAIN tasks /\ tasks'[i].list = tasks[i].list
    BY <1>1, <1>5 DEF Follows
  <2>2. PICK l \in TaskLists : l = tasks[i].list
    BY <1>2, <2>1
  <2>3. Listed(l)
    BY <2>1, <2>2 DEF Owned
  <2>4. ~DeleteTaskList(l)
    BY <2>1, <2>2 DEF DeleteTaskList, DropList, RowsOf
  <2>5. Listed(l)'
    BY <2>3, <2>4, ListedStep
  <2>6. listStatus'[l] # "gone"
    BY <2>5 DEF Listed
  <2> QED  BY <2>1, <2>2, <2>6
<1>6. CASE ~(i < nextTask)
  <2>1. nextTask' # nextTask
    BY <1>1, <1>3, <1>6
  <2>2. PICK l \in TaskLists, title \in Titles, jids \in Assignments :
            AddTask(l, [title |-> title, assign |-> jids])
    BY <2>1 DEF Next, Elsewhere, WebDeleteTask, MarkAssigneeLeft, SetAssigneeLeft, StopList,
                DeleteTaskList, PostElsewhere, ChatDeleteTask, ReplaceTaskAssignees,
                HandleGroupReply, ReadTasks, WriteStatus, ComposeSummary, PostSummary, Crash, vars
  <2>3. i \notin DOMAIN tasks
    BY <1>1, <1>6
  <2>4. listStatus'[l] # "gone"
    BY <2>2 DEF AddTask
  <2> DEFINE batch == <<[title |-> title, assign |-> jids]>>
  <2>5. tasks' = InsertBatch(tasks, l, batch, nextTask)
    BY <2>2 DEF AddTask
  <2> HIDE DEF batch
  <2>6. tasks'[i].list = l
    BY <2>3, <2>5 DEF InsertBatch, NewRow
  <2> QED  BY <2>4, <2>6
<1> QED  BY <1>5, <1>6

\* What a step that does not delete the list does to it.
LEMMA TableMoves ==
    ASSUME GroupReplyAssumption, IInv, IInv', [Next]_vars, NEW l, ~DeleteTaskList(l)
    PROVE  Moves(tasks, tasks', l)
<1>1. WellFormed(tasks) /\ WellFormed(tasks')
  BY NextWellFormed DEF IInv, TableOK
<1>2. ASSUME tasks' = tasks PROVE Moves(tasks, tasks', l)
  BY <1>2 DEF Moves
<1>3. ASSUME NEW k \in TaskLists, Elsewhere(k) PROVE Moves(tasks, tasks', l)
  <2>1. ASSUME NEW title \in Titles, NEW jids \in Assignments,
               AddTask(k, [title |-> title, assign |-> jids])
        PROVE  Moves(tasks, tasks', l)
    <3> DEFINE batch == <<[title |-> title, assign |-> jids]>>
    <3>1. batch \in Seq([title : Titles, assign : Seq(People)])
      BY DEF GroupReplyAssumption
    <3>2. BatchFits(tasks, k, batch) /\ tasks' = InsertBatch(tasks, k, batch, nextTask)
      BY <2>1 DEF AddTask
    <3>3. nextTask \in Nat \ {0} /\ DOMAIN tasks \subseteq 1 .. (nextTask - 1)
      BY DEF IInv, TableOK, GroupReplyAssumption
    <3> HIDE DEF batch
    <3> QED  BY <1>1, <3>1, <3>2, <3>3, InsertMoves
  <2>2. ASSUME NEW p \in Positions, WebDeleteTask(k, p) PROVE Moves(tasks, tasks', l)
    <3>1. p \in Nat \ {0} /\ tasks' = RemoveAt(tasks, k, p)
      BY <2>2 DEF Positions, WebDeleteTask
    <3> QED  BY <1>1, <3>1, RemovalMoves
  <2>3. CASE DeleteTaskList(k)
    BY <1>1, <2>3, DropMoves DEF DeleteTaskList
  <2>4. CASE StopList(k) \/ PostElsewhere(k)
    BY <1>2, <2>4 DEF StopList, PostElsewhere
  <2> QED  BY <1>3, <2>1, <2>2, <2>3, <2>4 DEF Elsewhere
<1>4. ASSUME NEW k \in TaskLists, NEW p \in Positions, ChatDeleteTask(k, p)
      PROVE  Moves(tasks, tasks', l)
  <2>1. p \in Nat \ {0} /\ tasks' = RemoveAt(tasks, k, p)
    BY <1>4 DEF Positions, ChatDeleteTask
  <2> QED  BY <1>1, <2>1, RemovalMoves
<1>5. ASSUME NEW i \in 1 .. MaxTasks, NEW jids \in Assignments, ReplaceTaskAssignees(i, jids)
      PROVE  Moves(tasks, tasks', l)
  <2>1. jids \in Seq(People) /\ tasks' = SetAssignees(tasks, i, jids)
    BY <1>5 DEF ReplaceTaskAssignees, GroupReplyAssumption
  <2> QED  BY <1>1, <2>1, AssigneesMove
<1>6. CASE WriteStatus
  <2>1. /\ tasks' = SetStatus(tasks, ListOf(chat.reply), chat.reply.numbers, chat.reply.target)
        /\ chat.reply.target \in Statuses
    BY <1>6 DEF WriteStatus, UpdateTaskStatusTx, IInv, ChatSound, Replies
  <2> QED  BY <1>1, <2>1, StatusMoves
<1>7. CASE HandleGroupReply \/ ReadTasks \/ ComposeSummary \/ PostSummary \/ Crash \/ UNCHANGED vars
  BY <1>2, <1>7 DEF HandleGroupReply, ReadTasks, ComposeSummary, PostSummary, Crash, vars
<1>8. ASSUME NEW group \in Range(GroupOf), NEW person \in People, MarkAssigneeLeft(group, person)
      PROVE  Moves(tasks, tasks', l)
  BY <1>1, <1>8, LeftMoves DEF MarkAssigneeLeft
<1>9. ASSUME NEW id \in DOMAIN tasks, NEW person \in People, SetAssigneeLeft(id, person)
      PROVE  Moves(tasks, tasks', l)
  BY <1>1, <1>9, RowLeftMoves DEF SetAssigneeLeft
<1> QED  BY <1>3, <1>4, <1>5, <1>6, <1>7, <1>8, <1>9 DEF Next

LEMMA ListSteps ==
    ASSUME GroupReplyAssumption, IInv, IInv', Owned, Owned', [Next]_vars, NEW l \in TaskLists
    PROVE  ListStep(l)
<1>1. CASE ~Listed(l)
  <2>1. RowsOf(tasks, l) = {} /\ RowsOf(tasks', l) = {} /\ ~Listed(l)'
    BY <1>1, ListedStep DEF Owned, RowsOf, Listed
  <2>2. Shown(tasks, l) = <<>> /\ Shown(tasks', l) = <<>>
    BY <2>1, ShownEmpty
  <2> QED  BY <1>1, <2>1, <2>2, ShownNext DEF ListStep, Unmoved, Listed
<1>2. CASE DeleteTaskList(l)
  <2>1. Shown(tasks, l)' = <<>>
    BY <1>2, DropMoves, ShownNext DEF DeleteTaskList, IInv, TableOK
  <2>2. List(l)!Drop
    BY <1>2, <2>1, ListedStep DEF List!Drop, Listed
  <2> QED  BY <2>2 DEF ListStep, List!Next
<1>3. CASE Listed(l) /\ ~DeleteTaskList(l)
  <2>1. Listed(l) /\ Listed(l)' /\ Moves(tasks, tasks', l)
    BY <1>3, ListedStep, TableMoves
  <2>2. CASE Shown(tasks', l) = Shown(tasks, l)
    BY <2>1, <2>2, ShownNext DEF ListStep, Unmoved, Listed
  <2>3. CASE Changes!Follows(Shown(tasks, l), Shown(tasks', l))
    <3>1. List(l)!Follows(Shown(tasks, l), Shown(tasks, l)')
      BY <2>3, SameChanges, ShownNext
    <3>2. List(l)!Change
      BY <2>1, <3>1 DEF List!Change, Listed
    <3> QED  BY <3>2 DEF ListStep, List!Next
  <2> QED  BY <2>1, <2>2, <2>3 DEF Moves
<1> QED  BY <1>1, <1>2, <1>3

LEMMA ListInit == ASSUME Init PROVE Owned /\ \A l \in TaskLists : List(l)!Init
<1>1. ASSUME NEW l \in TaskLists PROVE List(l)!Init
  <2>1. RowsOf(tasks, l) = {}
    BY DEF Init, RowsOf
  <2> QED  BY <2>1, ShownEmpty DEF Init, List!Init
<1> QED  BY <1>1 DEF Init, Owned

LEMMA OwnedAlways == Spec => []Owned
<1>1. IInv /\ IInv' /\ Owned /\ [Next]_vars => Owned'
  BY OwnedStep, GroupReplyAssumption
<1> QED  BY <1>1, ListInit, Invariance, PTL DEF Spec

\* To the list, a reply is a change of status of some tasks where they are, and every
\* step of this module one that TaskSequence allows.
THEOREM RepliesAreMarks == Spec => RepliesOnlyMark
<1>1. Init => \A l \in TaskLists : List(l)!Init
  BY ListInit
<1>2. IInv /\ IInv' /\ Owned /\ Owned' /\ [Next]_vars =>
         [\A l \in TaskLists : UNCHANGED <<listStatus[l] # "gone", Shown(tasks, l)>>
                                   \/ List(l)!Next]_<<listStatus, tasks>>
  BY ListSteps, GroupReplyAssumption DEF ListStep, Unmoved
<1> QED  BY <1>1, <1>2, Invariance, OwnedAlways, PTL DEF Spec, RepliesOnlyMark

\* The same as a refinement.
THEOREM ImplementsTaskSequence == ASSUME NEW l \in TaskLists PROVE Spec => List(l)!Spec
<1>1. Init => List(l)!Init
  BY ListInit
<1>2. IInv /\ IInv' /\ Owned /\ Owned' /\ [Next]_vars => [List(l)!Next]_(List(l)!listVars)
  BY ListSteps, GroupReplyAssumption DEF ListStep, Unmoved, List!listVars
<1> QED  BY <1>1, <1>2, Invariance, OwnedAlways, PTL DEF Spec, List!Spec
=============================================================================
