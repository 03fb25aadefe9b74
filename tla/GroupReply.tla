------------------------------ MODULE GroupReply ------------------------------
(***************************************************************************)
(* Members mark tasks as done by replying, in the group, to a summary or a *)
(* reminder with the numbers it shows: reply/handler.go.  Replies are      *)
(* handled one after the other by the event goroutine, which runs the chat *)
(* commands too.  Web requests and ticks change the tables between its     *)
(* database calls; each of their writes is one step here, since TaskStore  *)
(* has shown what their earlier reads can do.  Lists are published.        *)
(***************************************************************************)
EXTENDS TaskTable

CONSTANTS
    GroupOf,      \* the group each list belongs to
    Admin,        \* the admin of every list
    Assignments,  \* the assignee sequences a form can carry, without repetitions
    MaxTasks,     \* bound: task rows ever inserted
    MaxMessages   \* bound: summaries and reminders ever posted

ASSUME GroupReplyAssumption ==
    /\ MaxTasks \in Nat /\ MaxMessages \in Nat
    /\ GroupOf = [l \in TaskLists |-> GroupOf[l]]
    /\ \A s \in Assignments : s \in Seq(People) /\ IsInjective(s)

VARIABLES
    listStatus,  \* task_lists.status, or "gone"
    tasks,       \* the tables tasks and task_assignees
    nextTask,    \* sqlite_sequence
    messages,    \* the messages posted and mapped: list and numbering
    chat         \* local variables of the event goroutine

vars == <<listStatus, tasks, nextTask, messages, chat>>

Idle == [pc |-> "idle"]

Positions == 1 .. MaxTasks

\* The task at each number of a list when a message about it was composed: what
\* its readers mean by a number.
Numbering(l) ==
    [p \in {tasks[i].position : i \in RowsOf(tasks, l)} |->
        CHOOSE i \in IdsAt(tasks, l, p) : TRUE]

Replies == [message : 1 .. MaxMessages, sender : People \cup {Admin},
            numbers : (SUBSET Positions) \ {{}}, target : Statuses]

TypeOK ==
    /\ listStatus \in [TaskLists -> {"active", "stopped", "gone"}]
    /\ nextTask \in 1 .. MaxTasks + 1
    /\ DOMAIN tasks \subseteq 1 .. (nextTask - 1)
    /\ Typed(tasks)
    /\ \A m \in DOMAIN messages :
          /\ messages[m].list \in TaskLists
          /\ messages[m].numbering \in UNION {[S -> 1 .. nextTask - 1] : S \in SUBSET Positions}
    /\ \/ chat = Idle
       \/ chat.pc = "read" /\ chat.reply \in Replies
       \/ chat.pc = "write" /\ chat.reply \in Replies /\ Typed(chat.read)
       \/ chat.pc = "post" /\ chat.list \in TaskLists
       \/ chat.pc = "send" /\ chat.summary.list \in TaskLists

Init ==
    /\ listStatus = [l \in TaskLists |-> "active"]
    /\ tasks = [i \in {} |-> 0]
    /\ nextTask = 1
    /\ messages = <<>>
    /\ chat = Idle

ListOf(reply) == messages[reply.message].list

-----------------------------------------------------------------------------
\* What commands, web requests and ticks do.
\* Mutant: the sequence is not advanced.
AddTaskSameId(l, form) ==
    /\ listStatus[l] # "gone"
    /\ BatchFits(tasks, l, <<form>>)
    /\ tasks' = InsertBatch(tasks, l, <<form>>, nextTask)
    /\ UNCHANGED <<listStatus, nextTask, messages, chat>>

AddTask(l, form) ==
    /\ listStatus[l] # "gone" /\ nextTask <= MaxTasks
    /\ BatchFits(tasks, l, <<form>>)
    /\ tasks' = InsertBatch(tasks, l, <<form>>, nextTask)
    /\ nextTask' = nextTask + 1
    /\ UNCHANGED <<listStatus, messages, chat>>

WebDeleteTask(l, p) ==
    /\ IdsAt(tasks, l, p) # {}
    /\ tasks' = RemoveAt(tasks, l, p)
    /\ UNCHANGED <<listStatus, nextTask, messages, chat>>

\* delete-task on an active list posts the list that is left.
ChatDeleteTask(l, p) ==
    /\ chat = Idle
    /\ listStatus[l] = "active"
    /\ IdsAt(tasks, l, p) # {}
    /\ tasks' = RemoveAt(tasks, l, p)
    /\ chat' = [pc |-> "post", list |-> l]
    /\ UNCHANGED <<listStatus, nextTask, messages>>

ReplaceTaskAssignees(id, jids) ==
    /\ id \in DOMAIN tasks
    /\ tasks' = SetAssignees(tasks, id, jids)
    /\ UNCHANGED <<listStatus, nextTask, messages, chat>>

\* A notice, which the event goroutine handles between two replies: all the tasks
\* of the person in the group.
MarkAssigneeLeft(group, person) ==
    /\ chat = Idle
    /\ tasks' = SetLeft(tasks, {l \in TaskLists : GroupOf[l] = group}, person)
    /\ UNCHANGED <<listStatus, nextTask, messages, chat>>

\* A tick's check before a reminder: one row after the other.
SetAssigneeLeft(id, person) ==
    /\ person \in DOMAIN tasks[id].assignees
    /\ tasks' = SetRowLeft(tasks, id, person)
    /\ UNCHANGED <<listStatus, nextTask, messages, chat>>

StopList(l) ==
    /\ listStatus[l] = "active"
    /\ listStatus' = [listStatus EXCEPT ![l] = "stopped"]
    /\ UNCHANGED <<tasks, nextTask, messages, chat>>

DeleteTaskList(l) ==
    /\ listStatus[l] # "gone"
    /\ listStatus' = [listStatus EXCEPT ![l] = "gone"]
    /\ tasks' = DropList(tasks, l)
    /\ UNCHANGED <<nextTask, messages, chat>>

Summary(l) == [list |-> l, numbering |-> Numbering(l)]

\* A publish or a tick.  Composing and sending are one step: a message that is
\* sent late shows what one sent when it was composed would show.
PostElsewhere(l) ==
    /\ listStatus[l] = "active" /\ RowsOf(tasks, l) # {}
    /\ Len(messages) < MaxMessages
    /\ messages' = Append(messages, Summary(l))
    /\ UNCHANGED <<listStatus, tasks, nextTask, chat>>

-----------------------------------------------------------------------------
\* A reply arrives; its message is mapped to a list that is not stopped.
HandleGroupReply ==
    /\ chat = Idle
    /\ \E reply \in Replies :
          /\ reply.message \in DOMAIN messages
          /\ listStatus[ListOf(reply)] = "active"
          /\ chat' = [pc |-> "read", reply |-> reply]
    /\ UNCHANGED <<listStatus, tasks, nextTask, messages>>

\* Mutant: an assignee who left the group counts.
IsAuthorizedEvenIfLeft(row, person) == person = Admin \/ person \in DOMAIN row.assignees

isAuthorized(row, person) ==
    person = Admin \/ (person \in DOMAIN row.assignees /\ ~row.assignees[person])

Named(ts, reply) == {i \in DOMAIN ts : ts[i].position \in reply.numbers}

\* Mutant: a reply that repeats another is carried out again.
IsAccepted(ts, reply) ==
    /\ reply.numbers \subseteq {ts[i].position : i \in DOMAIN ts}
    /\ \A i \in Named(ts, reply) : isAuthorized(ts[i], reply.sender)

\* All numbers exist, all their tasks are the sender's to mark, and at least one
\* of them is not marked yet.
Accepted(ts, reply) ==
    /\ reply.numbers \subseteq {ts[i].position : i \in DOMAIN ts}
    /\ \A i \in Named(ts, reply) : isAuthorized(ts[i], reply.sender)
    /\ \E i \in Named(ts, reply) : ts[i].status # reply.target

\* GetTasksByList, and all the checks on what it returned.
ReadTasks ==
    /\ chat.pc = "read"
    /\ LET rows == RowsOf(tasks, ListOf(chat.reply))
           read == [i \in rows |-> tasks[i]]
       IN  chat' = IF Accepted(read, chat.reply)
                   THEN [pc |-> "write", reply |-> chat.reply, read |-> read]
                   ELSE Idle
    /\ UNCHANGED <<listStatus, tasks, nextTask, messages>>

\* Mutant: the numbers count from zero.
UpdateTaskStatusTxFromZero(reply) ==
    tasks' = SetStatus(tasks, ListOf(reply), {n + 1 : n \in reply.numbers}, reply.target)

\* One transaction; a number without a row is no error.
UpdateTaskStatusTx(reply) ==
    tasks' = SetStatus(tasks, ListOf(reply), reply.numbers, reply.target)

WriteStatus ==
    /\ chat.pc = "write"
    /\ UpdateTaskStatusTx(chat.reply)
    /\ chat' = [pc |-> "post", list |-> ListOf(chat.reply)]
    /\ UNCHANGED <<listStatus, nextTask, messages>>

\* The tasks are read again for the summary that follows.
ComposeSummary ==
    /\ chat.pc = "post"
    /\ chat' = [pc |-> "send", summary |-> Summary(chat.list)]
    /\ UNCHANGED <<listStatus, tasks, nextTask, messages>>

\* The summary is sent and mapped to its list, unless WhatsApp does not take it
\* or the list is gone.
PostSummary ==
    /\ chat.pc = "send"
    /\ \/ /\ listStatus[chat.summary.list] # "gone"
          /\ Len(messages) < MaxMessages
          /\ messages' = Append(messages, chat.summary)
       \/ messages' = messages
    /\ chat' = Idle
    /\ UNCHANGED <<listStatus, tasks, nextTask>>

Crash ==
    /\ chat' = Idle
    /\ UNCHANGED <<listStatus, tasks, nextTask, messages>>

Elsewhere(l) ==
    \/ \E title \in Titles, jids \in Assignments : AddTask(l, [title |-> title, assign |-> jids])
    \/ \E p \in Positions : WebDeleteTask(l, p)
    \/ StopList(l)
    \/ DeleteTaskList(l)
    \/ PostElsewhere(l)

Next ==
    \/ \E l \in TaskLists : Elsewhere(l)
    \/ \E l \in TaskLists, p \in Positions : ChatDeleteTask(l, p)
    \/ \E i \in 1 .. MaxTasks, jids \in Assignments : ReplaceTaskAssignees(i, jids)
    \/ \E group \in Range(GroupOf), person \in People : MarkAssigneeLeft(group, person)
    \/ \E id \in DOMAIN tasks, person \in People : SetAssigneeLeft(id, person)
    \/ HandleGroupReply
    \/ ReadTasks
    \/ WriteStatus
    \/ ComposeSummary
    \/ PostSummary
    \/ Crash

Spec == Init /\ [][Next]_vars

-----------------------------------------------------------------------------
\* The tasks that a step marks.
Marked == {i \in DOMAIN tasks \cap DOMAIN tasks' : tasks'[i].status # tasks[i].status}

\* A task that was read and is gone.
DeletedSinceRead == \E i \in DOMAIN chat.read : i \notin DOMAIN tasks

Responsible(row, person) ==
    \/ person = Admin
    \/ person \in DOMAIN row.assignees /\ row.assignees[person] = FALSE

\* Nobody marks a task of somebody else: a task that a reply marks was in the
\* list when the reply was checked, and the sender was the admin or an assignee
\* still in the group, unless a delete shifted the numbers since the check.
MarksByRight ==
    [][\A i \in Marked :
          \/ DeletedSinceRead
          \/ i \in DOMAIN chat.read /\ Responsible(chat.read[i], chat.reply.sender)]_vars

\* The numbers of a message stay good: a reply marks the tasks that the message
\* showed under its numbers, however old it is and whatever was added and edited
\* since, unless a task up to that number was deleted.
NumbersShiftOnlyByDeletion ==
    [][\A i \in Marked :
          LET p     == tasks[i].position
              shown == messages[chat.reply.message].numbering
          IN  /\ p \in chat.reply.numbers
              /\ \/ p \notin DOMAIN shown
                 \/ shown[p] = i
                 \/ \E q \in DOMAIN shown : q <= p /\ shown[q] \notin DOMAIN tasks]_vars

\* A reply that comes twice, or says what is so already, posts no summary: one
\* that writes marks a task, unless a task was deleted since the check.
NoIdleSummary ==
    [][chat.pc = "write" /\ chat'.pc = "post" => Marked # {} \/ DeletedSinceRead]_vars

Latest(m) == \A n \in DOMAIN messages : n > m => messages[n].list # messages[m].list

\* "Reply to the latest summary message for current task numbers": when a reply
\* to the latest message about a list is accepted, each number it shows still
\* names the task shown.
LatestSummaryIsCurrent ==
    [][chat.pc = "read" /\ chat'.pc = "write" /\ Latest(chat.reply.message) =>
          LET shown == messages[chat.reply.message].numbering
          IN  \A p \in chat.reply.numbers \cap DOMAIN shown :
                  IdsAt(chat'.read, ListOf(chat.reply), p) = {shown[p]}]_vars

List(l) == INSTANCE TaskSequence WITH listed <- listStatus[l] # "gone", items <- Shown(tasks, l)

\* A reply is to the list what TaskSequence lets happen to it: it gives some tasks
\* one status and leaves their order, titles and assignees alone, although it was
\* checked against rows that other goroutines have changed since.  (List(l)!Spec for
\* all l, in the form TLC evaluates.)
RepliesOnlyMark ==
    /\ \A l \in TaskLists : List(l)!Init
    /\ [][\A l \in TaskLists :
              UNCHANGED <<listStatus[l] # "gone", Shown(tasks, l)>>
                  \/ List(l)!Next]_<<listStatus, tasks>>
=============================================================================
