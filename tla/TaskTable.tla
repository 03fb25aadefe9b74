------------------------------ MODULE TaskTable ------------------------------
(***************************************************************************)
(* The tables `tasks' and `task_assignees' of db/migrations.go, and what   *)
(* the statements and transactions of db/task.go and db/web.go that the    *)
(* program runs do to the columns of Row (Reminders has the deadlines and  *)
(* reminders; ResetAllAssigneesLeft has no caller).                        *)
(* A table is a function from the ids in use to rows; the assignees of a   *)
(* task are a function from people to the column left_group.  Every        *)
(* operator is one atomic database call: the pool holds a single           *)
(* connection (db/db.go), so calls never overlap.                          *)
(***************************************************************************)
EXTENDS Naturals, FiniteSets, Sequences, FiniteSetsExt, Functions

CONSTANTS
    TaskLists,   \* ids of rows of task_lists
    Titles,      \* task titles
    People       \* JIDs that can be assigned a task

Statuses == {"todo", "done"}

\* The columns the task-table properties tell apart.
Row == [list : TaskLists, position : Nat \ {0}, title : Titles, status : Statuses,
        assignees : UNION {[S -> BOOLEAN] : S \in SUBSET People}]

Typed(ts) ==
    /\ IsFiniteSet(DOMAIN ts)
    /\ DOMAIN ts \subseteq Nat \ {0}
    /\ \A i \in DOMAIN ts : ts[i] \in Row

RowsOf(ts, l) == {i \in DOMAIN ts : ts[i].list = l}

IdsAt(ts, l, p) == {i \in RowsOf(ts, l) : ts[i].position = p}

TitlesOf(ts, l) == {ts[i].title : i \in RowsOf(ts, l)}

\* COALESCE(MAX(position), 0)
LastPosition(ts, l) == Max({0} \cup {ts[i].position : i \in RowsOf(ts, l)})

-----------------------------------------------------------------------------
\* INSERT of one task_assignees row per JID: left_group is 0.
Assigned(jids) == [p \in Range(jids) |-> FALSE]

\* A form (or a BulkTaskRow) asks for a title and a sequence of assignees.
NewRow(l, pos, form) ==
    [list |-> l, position |-> pos, title |-> form.title, status |-> "todo",
     assignees |-> Assigned(form.assign)]

\* Mutant: the table has no UNIQUE(task_list_id, title).
BatchFitsNoTitleIndex(ts, l, batch) ==
    \A n \in DOMAIN batch : IsInjective(batch[n].assign)

\* No insert of CreateTasks' loop meets UNIQUE(task_list_id, title) or
\* UNIQUE(task_id, assignee_jid).
BatchFits(ts, l, batch) ==
    /\ \A n \in DOMAIN batch : batch[n].title \notin TitlesOf(ts, l)
    /\ \A m, n \in DOMAIN batch : batch[m].title = batch[n].title => m = n
    /\ \A n \in DOMAIN batch : IsInjective(batch[n].assign)

\* The rows of `batch' take the next ids and the positions after the last.
InsertBatch(ts, l, batch, next) ==
    [i \in DOMAIN ts \cup (next .. next + Len(batch) - 1) |->
        IF i \in DOMAIN ts
        THEN ts[i]
        ELSE NewRow(l, LastPosition(ts, l) + (i - next) + 1, batch[i - next + 1])]

-----------------------------------------------------------------------------
\* Mutant: the loop writes i where it should write i + 1.
RankFromZero(ts, kept, l, i) ==
    Cardinality({j \in kept : ts[j].list = l /\ ts[j].position < ts[i].position})

\* How many of the rows `kept' of list l come no later than row i: the i + 1
\* of DeleteTask's loop over SELECT ... ORDER BY position.
Rank(ts, kept, l, i) ==
    Cardinality({j \in kept : ts[j].list = l /\ ts[j].position <= ts[i].position})

Item(ts, i) ==
    [task |-> i, title |-> ts[i].title, status |-> ts[i].status, assignees |-> ts[i].assignees]

\* GetTasksByList, by the numbers that summaries and pages show
Shown(ts, l) ==
    [p \in {ts[i].position : i \in RowsOf(ts, l)} |-> Item(ts, CHOOSE i \in IdsAt(ts, l, p) : TRUE)]

\* Mutant: the rows are deleted and never renumbered.
RemoveOnly(ts, l, p) == [i \in DOMAIN ts \ IdsAt(ts, l, p) |-> ts[i]]

\* Mutant: the last row moves into the gap.
RemoveAndSwap(ts, l, p) ==
    [i \in DOMAIN ts \ IdsAt(ts, l, p) |->
        IF ts[i].list = l /\ ts[i].position = LastPosition(ts, l)
        THEN [ts[i] EXCEPT !.position = IF IdsAt(ts, l, p) = {} THEN @ ELSE p]
        ELSE ts[i]]

\* DELETE by position, then number the rows that are left 1, 2, 3 ...
RemoveAt(ts, l, p) ==
    LET kept == DOMAIN ts \ IdsAt(ts, l, p)
    IN  [i \in kept |->
            IF ts[i].list = l
            THEN [ts[i] EXCEPT !.position = Rank(ts, kept, l, i)]
            ELSE ts[i]]

\* UPDATE tasks SET status WHERE task_list_id AND position, once per number.
SetStatus(ts, l, ps, status) ==
    [i \in DOMAIN ts |->
        IF ts[i].list = l /\ ts[i].position \in ps
        THEN [ts[i] EXCEPT !.status = status]
        ELSE ts[i]]

\* UPDATE tasks SET title ... WHERE id: no row, no effect, no error.
SetTitle(ts, id, title) ==
    [i \in DOMAIN ts |-> IF i = id THEN [ts[i] EXCEPT !.title = title] ELSE ts[i]]

\* Whether that UPDATE meets UNIQUE(task_list_id, title).
TitleTaken(ts, id, title) ==
    /\ id \in DOMAIN ts
    /\ \E j \in RowsOf(ts, ts[id].list) : j # id /\ ts[j].title = title

\* Mutant: nobody is deleted, and those already there are skipped.
AddAssignees(ts, id, jids) ==
    [i \in DOMAIN ts |->
        IF i = id
        THEN [ts[i] EXCEPT !.assignees =
                [p \in DOMAIN @ \cup Range(jids) |-> p \in DOMAIN @ /\ @[p]]]
        ELSE ts[i]]

\* DELETE the task's assignees, INSERT those of the form.
SetAssignees(ts, id, jids) ==
    [i \in DOMAIN ts |->
        IF i = id THEN [ts[i] EXCEPT !.assignees = Assigned(jids)] ELSE ts[i]]

\* UPDATE task_assignees SET left_group = 1 for one person in some lists.
SetLeft(ts, ls, person) ==
    [i \in DOMAIN ts |->
        IF ts[i].list \in ls /\ person \in DOMAIN ts[i].assignees
        THEN [ts[i] EXCEPT !.assignees[person] = TRUE]
        ELSE ts[i]]

\* UPDATE task_assignees SET left_group = 1 WHERE id: the row of one person at
\* one task.  Row ids are AUTOINCREMENT, so the id of a row that was replaced
\* flags nothing.
SetRowLeft(ts, id, person) ==
    [i \in DOMAIN ts |->
        IF i = id /\ person \in DOMAIN ts[i].assignees
        THEN [ts[i] EXCEPT !.assignees[person] = TRUE]
        ELSE ts[i]]

\* ON DELETE CASCADE from task_lists.
DropList(ts, l) == [i \in DOMAIN ts \ RowsOf(ts, l) |-> ts[i]]

-----------------------------------------------------------------------------
\* What a table looks like between two calls.  The indexes of the schema give
\* the first and the last of these; the code has to give the other two.
UniquePositions(ts) ==
    \A i, j \in DOMAIN ts :
        ts[i].list = ts[j].list /\ ts[i].position = ts[j].position => i = j

NoGaps(ts) ==
    \A i \in DOMAIN ts : \A p \in 1 .. ts[i].position : IdsAt(ts, ts[i].list, p) # {}

InCreationOrder(ts) ==
    \A i, j \in DOMAIN ts :
        ts[i].list = ts[j].list /\ i < j => ts[i].position < ts[j].position

UniqueTitles(ts) ==
    \A i, j \in DOMAIN ts :
        ts[i].list = ts[j].list /\ ts[i].title = ts[j].title => i = j
=============================================================================
