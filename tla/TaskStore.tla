------------------------------ MODULE TaskStore ------------------------------
(***************************************************************************)
(* The tasks of the lists, and the handlers that change them.  A handler   *)
(* is a goroutine: the one that runs chat commands, or one of a web        *)
(* request.  It makes several database calls with WhatsApp requests in     *)
(* between, so each call is an action of its own and the calls of two      *)
(* handlers interleave.  A handler's local variables live in               *)
(* `handler[h]'.                                                           *)
(***************************************************************************)
EXTENDS TaskTable

CONSTANTS
    Handlers,      \* concurrent handler goroutines
    GroupOf,       \* the group each list belongs to
    Assignments,   \* the assignee sequences a form can carry
    MaxBatch,      \* bound: task blocks in one add-tasks command
    MaxTasks       \* bound: task rows ever inserted

ASSUME TaskStoreAssumption ==
    /\ MaxBatch \in Nat \ {0}
    /\ MaxTasks \in Nat
    /\ \A s \in Assignments : s \in Seq(People)
    /\ GroupOf = [l \in TaskLists |-> GroupOf[l]]

VARIABLES
    taskLists,   \* the rows of task_lists that exist
    tasks,       \* the tables tasks and task_assignees
    nextTask,    \* sqlite_sequence: ids are AUTOINCREMENT, never reused
    handler      \* local variables of each handler

vars == <<taskLists, tasks, nextTask, handler>>

Forms == [title : Titles, assign : Assignments]

Batches == UNION {[1 .. n -> Forms] : n \in 1 .. MaxBatch}

Idle == [pc |-> "idle"]

Locals ==
    {Idle}
        \cup [pc : {"create"}, list : TaskLists, batch : Batches]
        \cup [pc : {"delete"}, list : TaskLists, position : Nat \ {0}]
        \cup [pc : {"fields", "assignees"}, list : TaskLists, position : Nat \ {0}, task : Nat,
              form : Forms]

TypeOK ==
    /\ taskLists \subseteq TaskLists
    /\ nextTask \in Nat \ {0}
    /\ DOMAIN tasks \subseteq 1 .. (nextTask - 1)
    /\ Typed(tasks)
    /\ handler \in [Handlers -> Locals]

\* Lists as add-list leaves them: no tasks yet.
Init ==
    /\ taskLists = TaskLists
    /\ tasks = [i \in {} |-> 0]
    /\ nextTask = 1
    /\ handler = [h \in Handlers |-> Idle]

Goto(h, local) == handler' = [handler EXCEPT ![h] = local]

-----------------------------------------------------------------------------
\* add-task and the web's new-task form: the list is loaded, the assignees are
\* looked up at WhatsApp; nobody looks at the titles in use.
BeginAdd(h) ==
    /\ handler[h] = Idle
    /\ \E l \in taskLists, form \in Forms :
          Goto(h, [pc |-> "create", list |-> l, batch |-> <<form>>])
    /\ UNCHANGED <<taskLists, tasks, nextTask>>

\* add-tasks: validated as a whole against the titles read here.
BeginBulk(h) ==
    /\ handler[h] = Idle
    /\ \E l \in taskLists, batch \in Batches :
          /\ \A n \in DOMAIN batch : batch[n].title \notin TitlesOf(tasks, l)
          /\ \A m, n \in DOMAIN batch : batch[m].title = batch[n].title => m = n
          /\ Goto(h, [pc |-> "create", list |-> l, batch |-> batch])
    /\ UNCHANGED <<taskLists, tasks, nextTask>>

\* Mutant: the foreign key of tasks.task_list_id is not enforced.
CreateTasksNoForeignKey(l, batch) ==
    IF BatchFits(tasks, l, batch)
    THEN /\ tasks' = InsertBatch(tasks, l, batch, nextTask)
         /\ nextTask' = nextTask + Len(batch)
    ELSE UNCHANGED <<tasks, nextTask>>

\* Mutant: no transaction, so the rows before the failing one stay.
CreateTasksNoRollback(l, batch) ==
    LET fitting == {n \in 0 .. Len(batch) : BatchFits(tasks, l, SubSeq(batch, 1, n))}
        n       == Max(fitting)
    IN  IF l \in taskLists
        THEN /\ tasks' = InsertBatch(tasks, l, SubSeq(batch, 1, n), nextTask)
             /\ nextTask' = nextTask + n
        ELSE UNCHANGED <<tasks, nextTask>>

\* CreateTasks: one transaction, rolled back on the first constraint that fails
\* (a title, an assignee, or the foreign key of a list deleted meanwhile).
CreateTasks(l, batch) ==
    IF l \in taskLists /\ BatchFits(tasks, l, batch)
    THEN /\ tasks' = InsertBatch(tasks, l, batch, nextTask)
         /\ nextTask' = nextTask + Len(batch)
    ELSE UNCHANGED <<tasks, nextTask>>

CommitCreate(h) ==
    /\ handler[h].pc = "create"
    /\ nextTask + Len(handler[h].batch) <= MaxTasks + 1
    /\ CreateTasks(handler[h].list, handler[h].batch)
    /\ Goto(h, Idle)
    /\ UNCHANGED taskLists

-----------------------------------------------------------------------------
\* delete-task and the web's delete button: the title at the position is read
\* (no row: the handler gives up) before the transaction starts.
BeginDelete(h) ==
    /\ handler[h] = Idle
    /\ \E l \in taskLists, i \in DOMAIN tasks :
          /\ tasks[i].list = l
          /\ Goto(h, [pc |-> "delete", list |-> l, position |-> tasks[i].position])
    /\ UNCHANGED <<taskLists, tasks, nextTask>>

DeleteTask(l, p) == tasks' = RemoveAt(tasks, l, p)

CommitDelete(h) ==
    /\ handler[h].pc = "delete"
    /\ DeleteTask(handler[h].list, handler[h].position)
    /\ Goto(h, Idle)
    /\ UNCHANGED <<taskLists, nextTask>>

-----------------------------------------------------------------------------
\* The web's edit form: the row at the position in the URL is read, and its id
\* kept while the participants of the group are fetched.
BeginEdit(h) ==
    /\ handler[h] = Idle
    /\ \E i \in DOMAIN tasks, form \in Forms :
          /\ tasks[i].list \in taskLists
          /\ Goto(h, [pc |-> "fields", list |-> tasks[i].list,
                      position |-> tasks[i].position, task |-> i, form |-> form])
    /\ UNCHANGED <<taskLists, tasks, nextTask>>

UpdateTaskFields(id, form) ==
    tasks' = IF TitleTaken(tasks, id, form.title)
             THEN tasks
             ELSE SetTitle(tasks, id, form.title)

\* Mutant: the UPDATE names the task by its position, as UpdateTaskStatus does.
EditFieldsByPosition(h) ==
    /\ handler[h].pc = "fields"
    /\ LET form == handler[h].form
           ids  == IdsAt(tasks, handler[h].list, handler[h].position)
       IN  IF \E i \in ids : ~TitleTaken(tasks, i, form.title)
           THEN /\ \E i \in ids : UpdateTaskFields(i, form)
                /\ Goto(h, [handler[h] EXCEPT !.pc = "assignees"])
           ELSE Goto(h, Idle) /\ UNCHANGED tasks
    /\ UNCHANGED <<taskLists, nextTask>>

\* An error from the UPDATE ends the request; otherwise the assignees follow.
EditFields(h) ==
    /\ handler[h].pc = "fields"
    /\ LET id   == handler[h].task
           form == handler[h].form
       IN  /\ UpdateTaskFields(id, form)
           /\ Goto(h, IF TitleTaken(tasks, id, form.title)
                      THEN Idle
                      ELSE [handler[h] EXCEPT !.pc = "assignees"])
    /\ UNCHANGED <<taskLists, nextTask>>

\* One transaction: rolled back when a JID repeats, or the task is gone.
ReplaceTaskAssignees(id, jids) ==
    tasks' = IF IsInjective(jids) THEN SetAssignees(tasks, id, jids) ELSE tasks

EditAssignees(h) ==
    /\ handler[h].pc = "assignees"
    /\ ReplaceTaskAssignees(handler[h].task, handler[h].form.assign)
    /\ Goto(h, Idle)
    /\ UNCHANGED <<taskLists, nextTask>>

-----------------------------------------------------------------------------
\* DELETE FROM task_lists, the last database call of delete-list.
DeleteTaskList(l) ==
    /\ l \in taskLists
    /\ taskLists' = taskLists \ {l}
    /\ tasks' = DropList(tasks, l)
    /\ UNCHANGED <<nextTask, handler>>

\* A notice says that a member left a group: the UPDATE of MarkAssigneeLeft, all
\* their tasks at once.
MarkAssigneeLeft(group, person) ==
    /\ tasks' = SetLeft(tasks, {l \in taskLists : GroupOf[l] = group}, person)
    /\ UNCHANGED <<taskLists, nextTask, handler>>

\* The tick's check before a reminder flags one row of an absent assignee after
\* the other, each in a call of its own with a WhatsApp request after it.
SetAssigneeLeft(id, person) ==
    /\ person \in DOMAIN tasks[id].assignees
    /\ tasks' = SetRowLeft(tasks, id, person)
    /\ UNCHANGED <<taskLists, nextTask, handler>>

\* The process dies and starts again: the handlers are gone, the file stays.
Crash ==
    /\ handler' = [h \in Handlers |-> Idle]
    /\ UNCHANGED <<taskLists, tasks, nextTask>>

HandlerStep(h) ==
    \/ BeginAdd(h)
    \/ BeginBulk(h)
    \/ CommitCreate(h)
    \/ BeginDelete(h)
    \/ CommitDelete(h)
    \/ BeginEdit(h)
    \/ EditFields(h)
    \/ EditAssignees(h)

Next ==
    \/ \E h \in Handlers : HandlerStep(h)
    \/ \E l \in TaskLists : DeleteTaskList(l)
    \/ \E group \in Range(GroupOf), person \in People : MarkAssigneeLeft(group, person)
    \/ \E id \in DOMAIN tasks, person \in People : SetAssigneeLeft(id, person)
    \/ Crash

Spec == Init /\ [][Next]_vars

-----------------------------------------------------------------------------
\* The positions of a list are 1, 2, ... n: no two tasks share one and none is
\* skipped, whatever deletes and inserts interleave.  It is what lets a chat
\* user name a task by its number (GLOSSARY.md, "Position").
PositionsDense == UniquePositions(tasks) /\ NoGaps(tasks)

\* Renumbering never reorders: a list shows its tasks in the order in which they
\* were added, through every delete that closes a gap.
CreationOrder == InCreationOrder(tasks)

\* No two tasks of a list share a title, although the commands check titles (if
\* they check them at all) in an earlier database call than the one that writes.
TitlesUnique == UniqueTitles(tasks)

\* A handler that finishes after its list was deleted leaves no task behind.
NoOrphanTasks == \A i \in DOMAIN tasks : tasks[i].list \in taskLists

\* A step that adds tasks adds one whole add-tasks payload, in block order and
\* after every task already there: nothing of a payload is ever stored alone.
WholePayload(h, added) ==
    /\ handler[h].pc = "create"
    /\ Cardinality(added) = Len(handler[h].batch)
    /\ \A n \in DOMAIN handler[h].batch :
          /\ nextTask + n - 1 \in added
          /\ LET row == tasks'[nextTask + n - 1]
             IN  /\ row.list = handler[h].list
                 /\ row.title = handler[h].batch[n].title
                 /\ row.position = LastPosition(tasks, row.list) + n

BatchAllOrNothing ==
    [][LET added == DOMAIN tasks' \ DOMAIN tasks
       IN  added # {} => \E h \in Handlers : WholePayload(h, added)]_vars

\* An edit lands on the task that was shown at the position when the form was
\* handled, or on nothing: a renumbering in between never diverts it.
EditStaysOnItsTask ==
    [][\A h \in Handlers :
          handler[h].pc \in {"fields", "assignees"} /\ handler'[h] # handler[h] =>
              \A i \in DOMAIN tasks \ {handler[h].task} :
                  i \in DOMAIN tasks' /\ tasks'[i] = tasks[i]]_vars

List(l) == INSTANCE TaskSequence WITH listed <- l \in taskLists, items <- Shown(tasks, l)

\* Renumbering by hand, positions read too early, constraints and rollbacks come to
\* this: with handlers interleaved, every list is a TaskSequence.  (The conjunction
\* of List(l)!Spec over all l, in the form TLC evaluates.)
ListsAreSequences ==
    /\ \A l \in TaskLists : List(l)!Init
    /\ [][\A l \in TaskLists :
              UNCHANGED <<l \in taskLists, Shown(tasks, l)>>
                  \/ List(l)!Next]_<<taskLists, tasks>>
=============================================================================
