--------------------------- MODULE TaskStoreProofs ---------------------------
(***************************************************************************)
(* The task tables stay well formed under every interleaving of handlers,  *)
(* for any number of lists, handlers, tasks and task blocks.               *)
(***************************************************************************)
EXTENDS TaskStore, TaskTableProofs

\* The inductive invariant.  The four facts about the tables need each other:
\* renumbering is a shift only because positions are dense, and appending keeps
\* the creation order only because nothing lies beyond the last position.
IInv == TypeOK /\ WellFormed(tasks) /\ NoOrphanTasks

LEMMA IsSequence ==
    ASSUME NEW S, NEW T, S \subseteq T, NEW n \in Nat, NEW b \in [1 .. n -> S]
    PROVE  b \in Seq(T)
OBVIOUS

LEMMA LocalsType ==
    ASSUME TaskStoreAssumption, NEW local \in Locals
    PROVE  /\ local.pc = "create" =>
                 /\ local.list \in TaskLists
                 /\ local.batch \in Seq([title : Titles, assign : Seq(People)])
           /\ local.pc = "delete" => local.list \in TaskLists /\ local.position \in Nat \ {0}
           /\ local.pc \in {"fields", "assignees"} =>
                 /\ [local EXCEPT !.pc = "assignees"] \in Locals
                 /\ local.task \in Nat
                 /\ local.form.title \in Titles
                 /\ local.form.assign \in Seq(People)
<1>1. Forms \subseteq [title : Titles, assign : Seq(People)]
  BY DEF Forms, TaskStoreAssumption
<1>2. Batches \subseteq Seq([title : Titles, assign : Seq(People)])
  <2> SUFFICES ASSUME NEW n \in 1 .. MaxBatch, NEW b \in [1 .. n -> Forms]
               PROVE  b \in Seq([title : Titles, assign : Seq(People)])
    BY DEF Batches
  <2>1. n \in Nat
    BY DEF TaskStoreAssumption
  <2> QED  BY <1>1, <2>1, IsSequence
<1>3. CASE local = Idle
  BY <1>3 DEF Idle
<1>4. CASE local \in [pc : {"create"}, list : TaskLists, batch : Batches]
  BY <1>2, <1>4
<1>5. CASE local \in [pc : {"delete"}, list : TaskLists, position : Nat \ {0}]
  BY <1>5
<1>6. CASE local \in [pc : {"fields", "assignees"}, list : TaskLists,
                      position : Nat \ {0}, task : Nat, form : Forms]
  <2>1. [local EXCEPT !.pc = "assignees"] \in Locals
    BY <1>6 DEF Locals
  <2>2. local.form \in [title : Titles, assign : Seq(People)]
    BY <1>1, <1>6
  <2> QED  BY <1>6, <2>1, <2>2
<1> QED  BY <1>3, <1>4, <1>5, <1>6 DEF Locals

LEMMA InitEstablishes == ASSUME TaskStoreAssumption, Init PROVE IInv
<1>1. Typed(tasks)
  BY FS_EmptySet DEF Init, Typed
<1>2. WellFormed(tasks)
  BY <1>1 DEF Init, WellFormed, UniquePositions, NoGaps, InCreationOrder, UniqueTitles
<1>3. TypeOK
  BY <1>1 DEF Init, TypeOK, Locals
<1> QED  BY <1>2, <1>3 DEF IInv, Init, NoOrphanTasks

\* Storing a well-formed table over the same or fewer ids keeps the invariant.
LEMMA TableStored ==
    ASSUME IInv, handler' \in [Handlers -> Locals], UNCHANGED <<taskLists, nextTask>>,
           WellFormed(tasks'), DOMAIN tasks' \subseteq DOMAIN tasks,
           \A i \in DOMAIN tasks' : tasks'[i].list = tasks[i].list
    PROVE  IInv'
<1>1. TypeOK'
  BY DEF IInv, TypeOK, WellFormed
<1>2. NoOrphanTasks'
  BY DEF IInv, NoOrphanTasks
<1> QED  BY <1>1, <1>2 DEF IInv

\* A handler that only reads: its own locals change.
LEMMA LocalsChanged ==
    ASSUME IInv, handler' \in [Handlers -> Locals], UNCHANGED <<taskLists, tasks, nextTask>>
    PROVE  IInv'
BY DEF IInv, TypeOK, WellFormed, NoOrphanTasks, Typed, UniquePositions, NoGaps,
       InCreationOrder, UniqueTitles, IdsAt, RowsOf

LEMMA GotoType ==
    ASSUME TypeOK, NEW h, NEW local \in Locals, Goto(h, local)
    PROVE  handler' \in [Handlers -> Locals]
BY DEF TypeOK, Goto

LEMMA IdleType == Idle \in Locals
BY DEF Locals

-----------------------------------------------------------------------------
\* One lemma for each action that does more than read.
LEMMA CommitCreateStep ==
    ASSUME TaskStoreAssumption, IInv, NEW h \in Handlers, CommitCreate(h)
    PROVE  IInv'
<1> DEFINE l     == handler[h].list
           batch == handler[h].batch
<1>1. handler' \in [Handlers -> Locals]
  BY GotoType, IdleType DEF IInv, CommitCreate
<1>2. l \in TaskLists /\ batch \in Seq([title : Titles, assign : Seq(People)])
  BY LocalsType DEF IInv, TypeOK, CommitCreate
<1>3. CASE l \in taskLists /\ BatchFits(tasks, l, batch)
  <2>1. /\ tasks' = InsertBatch(tasks, l, batch, nextTask)
        /\ nextTask' = nextTask + Len(batch)
        /\ UNCHANGED taskLists
    BY <1>3 DEF CommitCreate, CreateTasks
  <2>2. nextTask \in Nat \ {0} /\ DOMAIN tasks \subseteq 1 .. (nextTask - 1)
    BY DEF IInv, TypeOK
  <2> HIDE DEF l, batch
  <2> DEFINE us == InsertBatch(tasks, l, batch, nextTask)
  <2>3. /\ WellFormed(us)
        /\ DOMAIN us = DOMAIN tasks \cup (nextTask .. nextTask + Len(batch) - 1)
        /\ \A i \in DOMAIN tasks : us[i] = tasks[i]
        /\ \A i \in nextTask .. nextTask + Len(batch) - 1 : us[i].list = l
    <3>1. WellFormed(tasks) /\ BatchFits(tasks, l, batch)
      BY <1>3 DEF IInv
    <3>2. WellFormed(us)
      BY <1>2, <2>2, <3>1, InsertBatchWellFormed
    <3>3. DOMAIN us = DOMAIN tasks \cup (nextTask .. nextTask + Len(batch) - 1)
      BY DEF InsertBatch
    <3>4. \A i \in DOMAIN tasks : us[i] = tasks[i]
      BY DEF InsertBatch
    <3>5. ASSUME NEW i \in nextTask .. nextTask + Len(batch) - 1
          PROVE  us[i].list = l
      <4>1. i \notin DOMAIN tasks
        BY <2>2
      <4> QED  BY <4>1 DEF InsertBatch, NewRow
    <3> QED  BY <3>2, <3>3, <3>4, <3>5
  <2> HIDE DEF us
  <2>0. tasks' = us
    BY <2>1 DEF us
  <2>4. Len(batch) \in Nat
    BY <1>2, SeqElements
  <2>5. nextTask' \in Nat \ {0} /\ DOMAIN tasks' \subseteq 1 .. (nextTask' - 1)
    BY <2>0, <2>1, <2>2, <2>3, <2>4
  <2>6. TypeOK'
    BY <1>1, <2>0, <2>1, <2>3, <2>5 DEF IInv, TypeOK, WellFormed
  <2>7. NoOrphanTasks'
    BY <1>3, <2>0, <2>1, <2>3 DEF IInv, NoOrphanTasks
  <2> QED  BY <2>0, <2>3, <2>6, <2>7 DEF IInv
<1>4. CASE ~(l \in taskLists /\ BatchFits(tasks, l, batch))
  <2>1. UNCHANGED <<taskLists, tasks, nextTask>>
    BY <1>4 DEF CommitCreate, CreateTasks
  <2> QED  BY <1>1, <2>1, LocalsChanged
<1> QED  BY <1>3, <1>4

LEMMA CommitDeleteStep ==
    ASSUME TaskStoreAssumption, IInv, NEW h \in Handlers, CommitDelete(h)
    PROVE  IInv'
<1> DEFINE l == handler[h].list
           p == handler[h].position
<1>1. handler' \in [Handlers -> Locals]
  BY GotoType, IdleType DEF IInv, CommitDelete
<1>2. p \in Nat \ {0}
  BY LocalsType DEF IInv, TypeOK, CommitDelete
<1>3. tasks' = RemoveAt(tasks, l, p) /\ UNCHANGED <<taskLists, nextTask>>
  BY DEF CommitDelete, DeleteTask
<1> HIDE DEF l, p
<1>4. WellFormed(tasks')
  BY <1>2, <1>3, RemoveAtWellFormed DEF IInv
<1>5. DOMAIN tasks' = DOMAIN tasks \ IdsAt(tasks, l, p)
  BY <1>3 DEF RemoveAt
<1>6. \A i \in DOMAIN tasks' : tasks'[i].list = tasks[i].list
  BY <1>2, <1>3, <1>5, RemoveAtRows DEF IInv
<1> QED  BY <1>1, <1>3, <1>4, <1>5, <1>6, TableStored

\* An edit writes the title only when no other task of the list has it.
LEMMA EditFieldsStep ==
    ASSUME TaskStoreAssumption, IInv, NEW h \in Handlers, EditFields(h)
    PROVE  IInv'
<1> DEFINE id    == handler[h].task
           title == handler[h].form.title
<1>1. /\ title \in Titles
      /\ [handler[h] EXCEPT !.pc = "assignees"] \in Locals
  BY LocalsType DEF IInv, TypeOK, EditFields
<1>2. handler' \in [Handlers -> Locals]
  BY <1>1, GotoType, IdleType DEF IInv, EditFields
<1>3. CASE TitleTaken(tasks, id, title)
  <2>1. UNCHANGED <<taskLists, tasks, nextTask>>
    BY <1>3 DEF EditFields, UpdateTaskFields
  <2> QED  BY <1>2, <2>1, LocalsChanged
<1>4. CASE ~TitleTaken(tasks, id, title)
  <2>1. tasks' = SetTitle(tasks, id, title) /\ UNCHANGED <<taskLists, nextTask>>
    BY <1>4 DEF EditFields, UpdateTaskFields
  <2>2. DOMAIN tasks' = DOMAIN tasks
    BY <2>1 DEF SetTitle
  <2>3. ASSUME NEW i \in DOMAIN tasks
        PROVE  /\ tasks'[i] \in Row
               /\ tasks'[i].list = tasks[i].list
               /\ tasks'[i].position = tasks[i].position
               /\ tasks'[i].title = IF i = id THEN title ELSE tasks[i].title
    <3>1. tasks[i] \in Row
      BY DEF IInv, WellFormed, Typed
    <3> QED  BY <1>1, <2>1, <3>1 DEF SetTitle, Row
  <2> HIDE DEF id, title
  <2>4. UniqueTitles(tasks')
    <3> SUFFICES ASSUME NEW i \in DOMAIN tasks, NEW j \in DOMAIN tasks,
                        tasks'[i].list = tasks'[j].list, tasks'[i].title = tasks'[j].title
                 PROVE  i = j
      BY <2>2 DEF UniqueTitles
    <3>1. CASE i # id /\ j # id
      BY <2>3, <3>1 DEF IInv, WellFormed, UniqueTitles
    <3>2. CASE i = id /\ j # id
      BY <1>4, <2>3, <3>2 DEF TitleTaken, RowsOf
    <3>3. CASE i # id /\ j = id
      BY <1>4, <2>3, <3>3 DEF TitleTaken, RowsOf
    <3> QED  BY <3>1, <3>2, <3>3
  <2>5. WellFormed(tasks')
    BY <2>2, <2>3, <2>4, RewriteKeepsWellFormed DEF IInv
  <2> QED  BY <1>2, <2>1, <2>2, <2>3, <2>5, TableStored
<1> QED  BY <1>3, <1>4

\* Rewriting assignees touches nothing the other facts are about.
LEMMA AssigneesRewritten ==
    ASSUME IInv, handler' \in [Handlers -> Locals], UNCHANGED <<taskLists, nextTask>>,
           DOMAIN tasks' = DOMAIN tasks,
           \A i \in DOMAIN tasks : /\ tasks'[i] \in Row
                                  /\ tasks'[i].list = tasks[i].list
                                  /\ tasks'[i].position = tasks[i].position
                                  /\ tasks'[i].title = tasks[i].title
    PROVE  IInv'
<1>1. UniqueTitles(tasks')
  BY DEF IInv, WellFormed, UniqueTitles
<1>2. WellFormed(tasks')
  BY <1>1, RewriteKeepsWellFormed DEF IInv
<1> QED  BY <1>2, TableStored

LEMMA EditAssigneesStep ==
    ASSUME TaskStoreAssumption, IInv, NEW h \in Handlers, EditAssignees(h)
    PROVE  IInv'
<1> DEFINE id   == handler[h].task
           jids == handler[h].form.assign
<1>1. jids \in Seq(People)
  BY LocalsType DEF IInv, TypeOK, EditAssignees
<1>2. handler' \in [Handlers -> Locals]
  BY GotoType, IdleType DEF IInv, EditAssignees
<1>3. UNCHANGED <<taskLists, nextTask>>
  BY DEF EditAssignees
<1>4. CASE ~IsInjective(jids)
  BY <1>2, <1>3, <1>4, LocalsChanged DEF EditAssignees, ReplaceTaskAssignees
<1>5. CASE IsInjective(jids)
  <2>1. tasks' = SetAssignees(tasks, id, jids)
    BY <1>5 DEF EditAssignees, ReplaceTaskAssignees
  <2>2. Assigned(jids) \in UNION {[S -> BOOLEAN] : S \in SUBSET People}
    BY <1>1, AssignedType
  <2>3. DOMAIN tasks' = DOMAIN tasks
    BY <2>1 DEF SetAssignees
  <2> HIDE DEF id, jids
  <2>4. ASSUME NEW i \in DOMAIN tasks
        PROVE  /\ tasks'[i] \in Row
               /\ tasks'[i].list = tasks[i].list
               /\ tasks'[i].position = tasks[i].position
               /\ tasks'[i].title = tasks[i].title
    <3>1. tasks[i] \in Row
      BY DEF IInv, WellFormed, Typed
    <3> QED  BY <2>1, <2>2, <3>1 DEF SetAssignees, Row
  <2> QED  BY <1>2, <1>3, <2>3, <2>4, AssigneesRewritten
<1> QED  BY <1>4, <1>5

LEMMA MarkAssigneeLeftStep ==
    ASSUME IInv, NEW group, NEW person, MarkAssigneeLeft(group, person)
    PROVE  IInv'
<1> DEFINE ls == {l \in taskLists : GroupOf[l] = group}
<1>1. /\ tasks' = SetLeft(tasks, ls, person)
      /\ UNCHANGED <<taskLists, nextTask>>
      /\ handler' \in [Handlers -> Locals]
  BY DEF MarkAssigneeLeft, IInv, TypeOK
<1>2. DOMAIN tasks' = DOMAIN tasks
  BY <1>1 DEF SetLeft
<1> HIDE DEF ls
<1>3. ASSUME NEW i \in DOMAIN tasks
      PROVE  /\ tasks'[i] \in Row
             /\ tasks'[i].list = tasks[i].list
             /\ tasks'[i].position = tasks[i].position
             /\ tasks'[i].title = tasks[i].title
  <2>1. tasks[i] \in Row
    BY DEF IInv, WellFormed, Typed
  <2>2. CASE tasks[i].list \in ls /\ person \in DOMAIN tasks[i].assignees
    <3> DEFINE marked == [tasks[i].assignees EXCEPT ![person] = TRUE]
    <3>1. tasks'[i] = [tasks[i] EXCEPT !.assignees = marked]
      BY <1>1, <2>2 DEF SetLeft
    <3>2. PICK S \in SUBSET People : tasks[i].assignees \in [S -> BOOLEAN]
      BY <2>1 DEF Row
    <3>3. marked \in [S -> BOOLEAN]
      BY <3>2
    <3> HIDE DEF marked
    <3> QED  BY <2>1, <3>1, <3>3 DEF Row
  <2>3. CASE ~(tasks[i].list \in ls /\ person \in DOMAIN tasks[i].assignees)
    BY <1>1, <2>1, <2>3 DEF SetLeft
  <2> QED  BY <2>2, <2>3
<1> QED  BY <1>1, <1>2, <1>3, AssigneesRewritten

LEMMA SetAssigneeLeftStep ==
    ASSUME IInv, NEW id \in DOMAIN tasks, NEW person, SetAssigneeLeft(id, person)
    PROVE  IInv'
<1>1. /\ tasks' = SetRowLeft(tasks, id, person)
      /\ UNCHANGED <<taskLists, nextTask>>
      /\ handler' \in [Handlers -> Locals]
  BY DEF SetAssigneeLeft, IInv, TypeOK
<1>2. DOMAIN tasks' = DOMAIN tasks
  BY <1>1 DEF SetRowLeft
<1>3. ASSUME NEW i \in DOMAIN tasks
      PROVE  /\ tasks'[i] \in Row
             /\ tasks'[i].list = tasks[i].list
             /\ tasks'[i].position = tasks[i].position
             /\ tasks'[i].title = tasks[i].title
  BY <1>1, RowLeftRewrites DEF IInv, WellFormed
<1> QED  BY <1>1, <1>2, <1>3, AssigneesRewritten

LEMMA DeleteTaskListStep ==
    ASSUME IInv, NEW l, DeleteTaskList(l)
    PROVE  IInv'
<1>1. /\ taskLists' = taskLists \ {l}
      /\ tasks' = DropList(tasks, l)
      /\ UNCHANGED <<nextTask, handler>>
  BY DEF DeleteTaskList
<1>2. /\ WellFormed(tasks')
      /\ \A i \in DOMAIN tasks' :
            i \in DOMAIN tasks /\ tasks'[i] = tasks[i] /\ tasks[i].list # l
  BY <1>1, DropListWellFormed DEF IInv
<1>3. TypeOK'
  BY <1>1, <1>2 DEF IInv, TypeOK, WellFormed
<1>4. NoOrphanTasks'
  BY <1>1, <1>2 DEF IInv, NoOrphanTasks
<1> QED  BY <1>2, <1>3, <1>4 DEF IInv

-----------------------------------------------------------------------------
LEMMA NextPreserves ==
    ASSUME TaskStoreAssumption, IInv, [Next]_vars
    PROVE  IInv'
<1>1. ASSUME NEW h \in Handlers, HandlerStep(h)
      PROVE  IInv'
  <2>1. CASE BeginAdd(h)
    <3>1. PICK l \in taskLists, form \in Forms :
              Goto(h, [pc |-> "create", list |-> l, batch |-> <<form>>])
      BY <2>1 DEF BeginAdd
    <3>2. <<form>> \in Batches
      <4>1. <<form>> \in [1 .. 1 -> Forms]
        OBVIOUS
      <4>2. 1 \in 1 .. MaxBatch
        BY DEF TaskStoreAssumption
      <4> QED  BY <4>1, <4>2 DEF Batches
    <3>3. [pc |-> "create", list |-> l, batch |-> <<form>>] \in Locals
      BY <3>2 DEF IInv, TypeOK, Locals
    <3> QED  BY <2>1, <3>1, <3>3, GotoType, LocalsChanged DEF BeginAdd, IInv
  <2>2. CASE BeginBulk(h)
    <3>1. PICK l \in taskLists, batch \in Batches :
              Goto(h, [pc |-> "create", list |-> l, batch |-> batch])
      BY <2>2 DEF BeginBulk
    <3>2. [pc |-> "create", list |-> l, batch |-> batch] \in Locals
      BY DEF IInv, TypeOK, Locals
    <3> QED  BY <2>2, <3>1, <3>2, GotoType, LocalsChanged DEF BeginBulk, IInv
  <2>3. CASE CommitCreate(h)
    BY <2>3, CommitCreateStep
  <2>4. CASE BeginDelete(h)
    <3>1. PICK l \in taskLists, i \in DOMAIN tasks :
              Goto(h, [pc |-> "delete", list |-> l, position |-> tasks[i].position])
      BY <2>4 DEF BeginDelete
    <3>2. tasks[i].position \in Nat \ {0}
      BY RowType DEF IInv, WellFormed
    <3>3. [pc |-> "delete", list |-> l, position |-> tasks[i].position] \in Locals
      BY <3>2 DEF IInv, TypeOK, Locals
    <3> QED  BY <2>4, <3>1, <3>3, GotoType, LocalsChanged DEF BeginDelete, IInv
  <2>5. CASE CommitDelete(h)
    BY <2>5, CommitDeleteStep
  <2>6. CASE BeginEdit(h)
    <3>1. PICK i \in DOMAIN tasks, form \in Forms :
              Goto(h, [pc |-> "fields", list |-> tasks[i].list,
                       position |-> tasks[i].position, task |-> i, form |-> form])
      BY <2>6 DEF BeginEdit
    <3>2. /\ i \in Nat
          /\ tasks[i].list \in TaskLists
          /\ tasks[i].position \in Nat \ {0}
      BY RowType DEF IInv, WellFormed
    <3>3. [pc |-> "fields", list |-> tasks[i].list, position |-> tasks[i].position,
           task |-> i, form |-> form] \in Locals
      BY <3>2 DEF Locals
    <3> QED  BY <2>6, <3>1, <3>3, GotoType, LocalsChanged DEF BeginEdit, IInv
  <2>7. CASE EditFields(h)
    BY <2>7, EditFieldsStep
  <2>8. CASE EditAssignees(h)
    BY <2>8, EditAssigneesStep
  <2> QED  BY <1>1, <2>1, <2>2, <2>3, <2>4, <2>5, <2>6, <2>7, <2>8 DEF HandlerStep
<1>2. ASSUME NEW l \in TaskLists, DeleteTaskList(l)
      PROVE  IInv'
  BY <1>2, DeleteTaskListStep
<1>3. ASSUME NEW group \in Range(GroupOf), NEW person \in People, MarkAssigneeLeft(group, person)
      PROVE  IInv'
  BY <1>3, MarkAssigneeLeftStep
<1>4. ASSUME NEW id \in DOMAIN tasks, NEW person \in People, SetAssigneeLeft(id, person)
      PROVE  IInv'
  BY <1>4, SetAssigneeLeftStep
<1>5. CASE Crash
  BY <1>5, IdleType, LocalsChanged DEF Crash
<1>6. CASE UNCHANGED vars
  BY <1>6, LocalsChanged DEF vars, IInv, TypeOK
<1> QED  BY <1>1, <1>2, <1>3, <1>4, <1>5, <1>6 DEF Next

\* Every reachable state satisfies the inductive invariant.
THEOREM Inductive == Spec => []IInv
<1>1. Init => IInv
  BY InitEstablishes, TaskStoreAssumption
<1>2. IInv /\ [Next]_vars => IInv'
  BY NextPreserves, TaskStoreAssumption
<1> QED  BY <1>1, <1>2, PTL DEF Spec

\* The tables hold what db/migrations.go declares, and every handler's local
\* variables are of the shape its program counter implies.
THEOREM TypeCorrect == Spec => []TypeOK
<1>1. IInv => TypeOK
  BY DEF IInv
<1> QED  BY <1>1, Inductive, PTL

\* For every number of tasks, lists and handlers, DeleteTask's renumbering and
\* CreateTasks' MAX(position) + 1 keep the positions of a list at 1 .. n.
THEOREM PositionsStayDense == Spec => []PositionsDense
<1>1. IInv => PositionsDense
  BY DEF IInv, WellFormed, PositionsDense
<1> QED  BY <1>1, Inductive, PTL

\* Renumbering never reorders the tasks of a list.
THEOREM OrderStaysCreationOrder == Spec => []CreationOrder
<1>1. IInv => CreationOrder
  BY DEF IInv, WellFormed, CreationOrder
<1> QED  BY <1>1, Inductive, PTL

\* No interleaving of unchecked and checked-too-early titles stores one twice.
THEOREM TitlesStayUnique == Spec => []TitlesUnique
<1>1. IInv => TitlesUnique
  BY DEF IInv, WellFormed, TitlesUnique
<1> QED  BY <1>1, Inductive, PTL

\* A late insert never brings back tasks of a deleted list.
THEOREM NoTaskWithoutList == Spec => []NoOrphanTasks
<1>1. IInv => NoOrphanTasks
  BY DEF IInv
<1> QED  BY <1>1, Inductive, PTL

-----------------------------------------------------------------------------
\* The steps of the two action properties.
BatchStep ==
    LET added == DOMAIN tasks' \ DOMAIN tasks
    IN  added # {} => \E h \in Handlers : WholePayload(h, added)

EditStep ==
    \A h \in Handlers :
        handler[h].pc \in {"fields", "assignees"} /\ handler'[h] # handler[h] =>
            \A i \in DOMAIN tasks \ {handler[h].task} :
                i \in DOMAIN tasks' /\ tasks'[i] = tasks[i]

\* Only CreateTasks adds rows.
LEMMA AddedByCreate ==
    ASSUME [Next]_vars, DOMAIN tasks' \ DOMAIN tasks # {}
    PROVE  \E h \in Handlers : CommitCreate(h)
<1>1. ASSUME NEW h \in Handlers, HandlerStep(h), ~CommitCreate(h)
      PROVE  DOMAIN tasks' \subseteq DOMAIN tasks
  <2>1. CASE BeginAdd(h) \/ BeginBulk(h) \/ BeginDelete(h) \/ BeginEdit(h)
    BY <2>1 DEF BeginAdd, BeginBulk, BeginDelete, BeginEdit
  <2>2. CASE CommitDelete(h)
    BY <2>2 DEF CommitDelete, DeleteTask, RemoveAt
  <2>3. CASE EditFields(h)
    BY <2>3 DEF EditFields, UpdateTaskFields, SetTitle
  <2>4. CASE EditAssignees(h)
    BY <2>4 DEF EditAssignees, ReplaceTaskAssignees, SetAssignees
  <2> QED  BY <1>1, <2>1, <2>2, <2>3, <2>4 DEF HandlerStep
<1>2. ASSUME NEW l \in TaskLists, DeleteTaskList(l) PROVE DOMAIN tasks' \subseteq DOMAIN tasks
  BY <1>2 DEF DeleteTaskList, DropList
<1>3. ASSUME NEW group \in Range(GroupOf), NEW person \in People, MarkAssigneeLeft(group, person)
      PROVE  DOMAIN tasks' \subseteq DOMAIN tasks
  BY <1>3 DEF MarkAssigneeLeft, SetLeft
<1>4. ASSUME NEW id \in DOMAIN tasks, NEW person \in People, SetAssigneeLeft(id, person)
      PROVE  DOMAIN tasks' \subseteq DOMAIN tasks
  BY <1>4 DEF SetAssigneeLeft, SetRowLeft
<1>5. CASE Crash \/ UNCHANGED vars
  BY <1>5 DEF Crash, vars
<1> QED  BY <1>1, <1>2, <1>3, <1>4, <1>5 DEF Next

LEMMA BatchesAreWhole == ASSUME TaskStoreAssumption, IInv, [Next]_vars PROVE BatchStep
<1> DEFINE added == DOMAIN tasks' \ DOMAIN tasks
<1> SUFFICES ASSUME added # {} PROVE \E h \in Handlers : WholePayload(h, added)
  BY DEF BatchStep
<1>1. PICK h \in Handlers : CommitCreate(h)
  BY AddedByCreate
<1> DEFINE l     == handler[h].list
           batch == handler[h].batch
<1>2. tasks' = InsertBatch(tasks, l, batch, nextTask) /\ handler[h].pc = "create"
  BY <1>1 DEF CommitCreate, CreateTasks
<1>3. l \in TaskLists /\ batch \in Seq([title : Titles, assign : Seq(People)])
  BY <1>1, LocalsType DEF IInv, TypeOK, CommitCreate
<1> HIDE DEF l, batch
<1>4. Len(batch) \in Nat /\ DOMAIN batch = 1 .. Len(batch)
  BY <1>3, SeqElements
<1>5. nextTask \in Nat \ {0} /\ DOMAIN tasks \subseteq 1 .. (nextTask - 1)
  BY DEF IInv, TypeOK
<1>6. added = nextTask .. nextTask + Len(batch) - 1
  <2>1. DOMAIN tasks' = DOMAIN tasks \cup (nextTask .. nextTask + Len(batch) - 1)
    BY <1>2 DEF InsertBatch
  <2> QED  BY <1>4, <1>5, <2>1
<1> HIDE DEF added
<1>7. Cardinality(added) = Len(batch)
  <2>1. nextTask + Len(batch) - 1 \in Int /\ nextTask \in Int
    BY <1>4, <1>5
  <2>2. Cardinality(nextTask .. nextTask + Len(batch) - 1) =
            IF nextTask > nextTask + Len(batch) - 1
            THEN 0 ELSE nextTask + Len(batch) - 1 - nextTask + 1
    BY <2>1, FS_Interval
  <2> QED  BY <1>4, <1>5, <1>6, <2>2
<1>8. LastPosition(tasks, l) \in Nat
  BY LastPositionIsLast DEF IInv
<1>9. ASSUME NEW n \in 1 .. Len(batch)
      PROVE  /\ nextTask + n - 1 \in added
             /\ tasks'[nextTask + n - 1].list = l
             /\ tasks'[nextTask + n - 1].title = batch[n].title
             /\ tasks'[nextTask + n - 1].position = LastPosition(tasks, l) + n
  <2> DEFINE i == nextTask + n - 1
  <2>1. /\ i \in nextTask .. nextTask + Len(batch) - 1 /\ i \notin DOMAIN tasks
        /\ i - nextTask + 1 = n /\ i - nextTask = n - 1
    BY <1>4, <1>5
  <2> HIDE DEF i
  <2>2. tasks'[i] = NewRow(l, LastPosition(tasks, l) + (n - 1) + 1, batch[n])
    BY <1>2, <2>1 DEF InsertBatch
  <2>3. LastPosition(tasks, l) + (n - 1) + 1 = LastPosition(tasks, l) + n
    BY <1>4, <1>8
  <2>4. /\ tasks'[i].list = l /\ tasks'[i].title = batch[n].title
        /\ tasks'[i].position = LastPosition(tasks, l) + n
    BY <2>2, <2>3 DEF NewRow
  <2> QED  BY <1>6, <2>1, <2>4 DEF i
<1>10. WholePayload(h, added)
  BY <1>2, <1>4, <1>7, <1>9 DEF WholePayload, l, batch
<1> QED  BY <1>10

\* A handler's locals change by its own steps and by a crash only.
LEMMA EditsStay == ASSUME IInv, [Next]_vars PROVE EditStep
<1> SUFFICES ASSUME NEW h \in Handlers, handler[h].pc \in {"fields", "assignees"},
                    handler'[h] # handler[h],
                    NEW i \in DOMAIN tasks, i # handler[h].task
             PROVE  i \in DOMAIN tasks' /\ tasks'[i] = tasks[i]
  BY DEF EditStep
<1>0. handler \in [Handlers -> Locals] /\ handler[h] # Idle
  BY DEF IInv, TypeOK, Idle
<1>1. ASSUME NEW g \in Handlers, g # h, HandlerStep(g) PROVE FALSE
  <2>1. \E local : handler' = [handler EXCEPT ![g] = local]
    BY <1>1 DEF HandlerStep, BeginAdd, BeginBulk, CommitCreate, BeginDelete, CommitDelete,
                BeginEdit, EditFields, EditAssignees, Goto
  <2> QED  BY <1>0, <1>1, <2>1
<1>2. CASE HandlerStep(h)
  <2>1. EditFields(h) \/ EditAssignees(h)
    BY <1>0, <1>2 DEF HandlerStep, BeginAdd, BeginBulk, CommitCreate, BeginDelete, CommitDelete,
                      BeginEdit
  <2>2. CASE EditFields(h)
    BY <2>2 DEF EditFields, UpdateTaskFields, SetTitle
  <2>3. CASE EditAssignees(h)
    BY <2>3 DEF EditAssignees, ReplaceTaskAssignees, SetAssignees
  <2> QED  BY <2>1, <2>2, <2>3
<1>3. ASSUME NEW l \in TaskLists, DeleteTaskList(l) PROVE FALSE
  BY <1>3 DEF DeleteTaskList
<1>4. ASSUME NEW group \in Range(GroupOf), NEW person \in People, MarkAssigneeLeft(group, person)
      PROVE  FALSE
  BY <1>4 DEF MarkAssigneeLeft
<1>5. ASSUME NEW id \in DOMAIN tasks, NEW person \in People, SetAssigneeLeft(id, person)
      PROVE  FALSE
  BY <1>5 DEF SetAssigneeLeft
<1>6. CASE Crash \/ UNCHANGED vars
  BY <1>6 DEF Crash, vars
<1> QED  BY <1>1, <1>2, <1>3, <1>4, <1>5, <1>6 DEF Next

\* A payload of add-tasks is stored whole, in block order and after every task that
\* is there, or not at all, whatever was added or deleted since it was validated.
THEOREM BatchesAreStoredWhole == Spec => BatchAllOrNothing
<1>1. IInv /\ [Next]_vars => [BatchStep]_vars
  BY BatchesAreWhole, TaskStoreAssumption
<1> QED  BY <1>1, Inductive, PTL DEF Spec, BatchAllOrNothing, BatchStep

\* An edit that was under way while the list was renumbered changes its own task.
THEOREM EditsStayOnTheirTask == Spec => EditStaysOnItsTask
<1>1. IInv /\ [Next]_vars => [EditStep]_vars
  BY EditsStay
<1> QED  BY <1>1, Inductive, PTL DEF Spec, EditStaysOnItsTask, EditStep

-----------------------------------------------------------------------------
(***************************************************************************)
(* The lists of TaskStore implement TaskSequence.                          *)
(***************************************************************************)
Unmoved(l) == UNCHANGED <<l \in taskLists, Shown(tasks, l)>>

ListStep(l) == Unmoved(l) \/ List(l)!Next

LEMMA ShownNext == ASSUME NEW l PROVE Shown(tasks, l)' = Shown(tasks', l)
BY DEF Shown, RowsOf, IdsAt, Item

\* SequenceChanges is the same module here, in TaskSequence and in TaskTableProofs.
LEMMA SameChanges ==
    ASSUME NEW l, NEW s, NEW t
    PROVE  List(l)!Follows(s, t) <=> Changes!Follows(s, t)
BY DEF List!Follows, List!Extended, List!Removed, List!Left, List!LeftAt, List!Renamed,
       List!Reassigned, List!Marked, List!Distinct, List!ChangedAt, List!Present,
       Changes!Follows, Changes!Extended, Changes!Removed, Changes!Left, Changes!LeftAt,
       Changes!Renamed, Changes!Reassigned, Changes!Marked, Changes!Distinct,
       Changes!ChangedAt, Changes!Present

LEMMA NextWellFormed == ASSUME IInv' PROVE WellFormed(tasks')
BY DEF IInv, WellFormed, Typed, UniquePositions, NoGaps, InCreationOrder, UniqueTitles,
       IdsAt, RowsOf

\* A list that stays moves as the statements allow.
LEMMA ListMoves ==
    ASSUME NEW l, (l \in taskLists)' = (l \in taskLists), l \in taskLists,
           Moves(tasks, tasks', l)
    PROVE  ListStep(l)
<1>1. CASE Shown(tasks', l) = Shown(tasks, l)
  BY <1>1, ShownNext DEF ListStep, Unmoved
<1>2. CASE Changes!Follows(Shown(tasks, l), Shown(tasks', l))
  <2>1. List(l)!Follows(Shown(tasks, l), Shown(tasks, l)')
    BY <1>2, SameChanges, ShownNext
  <2>2. List(l)!Change
    BY <2>1 DEF List!Change
  <2> QED  BY <2>2 DEF ListStep, List!Next
<1> QED  BY <1>1, <1>2 DEF Moves

\* A list that is gone stays so, and shows nothing.
LEMMA ListGone ==
    ASSUME IInv, IInv', NEW l, l \notin taskLists, taskLists' \subseteq taskLists
    PROVE  ListStep(l)
<1>1. RowsOf(tasks, l) = {}
  BY DEF IInv, NoOrphanTasks, RowsOf
<1>2. RowsOf(tasks', l) = {}
  BY DEF IInv, NoOrphanTasks, RowsOf
<1>3. Shown(tasks, l) = <<>> /\ Shown(tasks', l) = <<>>
  BY <1>1, <1>2, ShownEmpty
<1>4. (l \in taskLists)' = (l \in taskLists)
  OBVIOUS
<1> QED  BY <1>3, <1>4, ShownNext DEF ListStep, Unmoved

\* Each statement of a handler, as the lemmas on TaskTable describe it.
LEMMA HandlerMoves ==
    ASSUME TaskStoreAssumption, IInv, IInv', NEW h \in Handlers, HandlerStep(h), NEW l
    PROVE  Moves(tasks, tasks', l)
<1> DEFINE local == handler[h]
<1>1. WellFormed(tasks) /\ WellFormed(tasks')
  BY NextWellFormed DEF IInv
<1>2. CASE tasks' = tasks
  BY <1>2 DEF Moves
<1>3. CASE CommitCreate(h)
  <2>1. local.list \in TaskLists /\ local.batch \in Seq([title : Titles, assign : Seq(People)])
    BY <1>3, LocalsType DEF IInv, TypeOK, CommitCreate
  <2>2. nextTask \in Nat \ {0} /\ DOMAIN tasks \subseteq 1 .. (nextTask - 1)
    BY DEF IInv, TypeOK
  <2>3. CASE /\ BatchFits(tasks, local.list, local.batch)
             /\ tasks' = InsertBatch(tasks, local.list, local.batch, nextTask)
    BY <1>1, <2>1, <2>2, <2>3, InsertMoves
  <2> QED  BY <1>2, <1>3, <2>3 DEF CommitCreate, CreateTasks
<1>4. CASE CommitDelete(h)
  <2>1. local.position \in Nat \ {0}
    BY <1>4, LocalsType DEF IInv, TypeOK, CommitDelete
  <2> QED  BY <1>1, <1>4, <2>1, RemovalMoves DEF CommitDelete, DeleteTask
<1>5. CASE EditFields(h)
  <2>1. local.form.title \in Titles
    BY <1>5, LocalsType DEF IInv, TypeOK, EditFields
  <2>2. CASE tasks' = SetTitle(tasks, local.task, local.form.title)
    BY <1>1, <2>1, <2>2, TitleMoves
  <2> QED  BY <1>2, <1>5, <2>2 DEF EditFields, UpdateTaskFields
<1>6. CASE EditAssignees(h)
  <2>1. local.form.assign \in Seq(People)
    BY <1>6, LocalsType DEF IInv, TypeOK, EditAssignees
  <2>2. CASE tasks' = SetAssignees(tasks, local.task, local.form.assign)
    BY <1>1, <2>1, <2>2, AssigneesMove
  <2> QED  BY <1>2, <1>6, <2>2 DEF EditAssignees, ReplaceTaskAssignees
<1>7. CASE BeginAdd(h) \/ BeginBulk(h) \/ BeginDelete(h) \/ BeginEdit(h)
  BY <1>2, <1>7 DEF BeginAdd, BeginBulk, BeginDelete, BeginEdit
<1> QED  BY <1>3, <1>4, <1>5, <1>6, <1>7 DEF HandlerStep

LEMMA ListDropped ==
    ASSUME IInv, NEW l \in taskLists, NEW k, DeleteTaskList(k)
    PROVE  ListStep(l)
<1>1. taskLists' = taskLists \ {k} /\ tasks' = DropList(tasks, k) /\ WellFormed(tasks)
  BY DEF DeleteTaskList, IInv
<1>2. CASE l = k
  <2>1. Shown(tasks, l)' = <<>>
    BY <1>1, <1>2, DropMoves, ShownNext
  <2>2. List(l)!Drop
    BY <1>1, <1>2, <2>1 DEF List!Drop
  <2> QED  BY <2>2 DEF ListStep, List!Next
<1>3. CASE l # k
  <2>1. Moves(tasks, tasks', l)
    BY <1>1, <1>3, DropMoves
  <2> QED  BY <1>1, <1>3, <2>1, ListMoves
<1> QED  BY <1>2, <1>3

LEMMA ListSteps ==
    ASSUME TaskStoreAssumption, IInv, IInv', [Next]_vars, NEW l
    PROVE  ListStep(l)
<1>1. taskLists' \subseteq taskLists
  BY DEF Next, vars, HandlerStep, BeginAdd, BeginBulk, CommitCreate, BeginDelete, CommitDelete,
         BeginEdit, EditFields, EditAssignees, DeleteTaskList, MarkAssigneeLeft,
         SetAssigneeLeft, Crash
<1>2. CASE l \notin taskLists
  BY <1>1, <1>2, ListGone
<1>3. CASE l \in taskLists /\ UNCHANGED taskLists
  <2> SUFFICES Moves(tasks, tasks', l)
    BY <1>3, ListMoves
  <2>1. CASE \E h \in Handlers : HandlerStep(h)
    BY <2>1, HandlerMoves
  <2>2. ASSUME NEW group \in Range(GroupOf), NEW person \in People,
               MarkAssigneeLeft(group, person)
        PROVE  Moves(tasks, tasks', l)
    BY <2>2, NextWellFormed, LeftMoves DEF MarkAssigneeLeft, IInv
  <2>3. ASSUME NEW id \in DOMAIN tasks, NEW person \in People, SetAssigneeLeft(id, person)
        PROVE  Moves(tasks, tasks', l)
    BY <2>3, NextWellFormed, RowLeftMoves DEF SetAssigneeLeft, IInv
  <2>4. CASE Crash \/ UNCHANGED vars
    BY <2>4 DEF Crash, vars, Moves
  <2>5. ASSUME NEW k \in TaskLists, DeleteTaskList(k) PROVE FALSE
    BY <1>3, <2>5 DEF DeleteTaskList
  <2> QED  BY <2>1, <2>2, <2>3, <2>4, <2>5 DEF Next
<1>4. CASE l \in taskLists /\ ~UNCHANGED taskLists
  <2>1. PICK k \in TaskLists : DeleteTaskList(k)
    BY <1>4 DEF Next, vars, HandlerStep, BeginAdd, BeginBulk, CommitCreate, BeginDelete,
                CommitDelete, BeginEdit, EditFields, EditAssignees, MarkAssigneeLeft,
                SetAssigneeLeft, Crash
  <2> QED  BY <1>4, <2>1, ListDropped
<1> QED  BY <1>2, <1>3, <1>4

LEMMA ListInit == ASSUME Init, NEW l \in TaskLists PROVE List(l)!Init
<1>1. RowsOf(tasks, l) = {}
  BY DEF Init, RowsOf
<1> QED  BY <1>1, ShownEmpty DEF Init, List!Init

\* For every number of lists, handlers and tasks, each list is a TaskSequence to
\* those who see it: the renumbering loop, positions that were read too early,
\* inserts that are rolled back and edits of a task that has moved come to appending,
\* removing, changing one task in its place, or nothing.
THEOREM ListsStaySequences == Spec => ListsAreSequences
<1>1. Init => \A l \in TaskLists : List(l)!Init
  BY ListInit
<1>2. IInv /\ IInv' /\ [Next]_vars =>
         [\A l \in TaskLists : UNCHANGED <<l \in taskLists, Shown(tasks, l)>>
                                   \/ List(l)!Next]_<<taskLists, tasks>>
  BY ListSteps, TaskStoreAssumption DEF ListStep, Unmoved
<1> QED  BY <1>1, <1>2, Inductive, PTL DEF Spec, ListsAreSequences

\* The same as a refinement.
THEOREM ImplementsTaskSequence == ASSUME NEW l \in TaskLists PROVE Spec => List(l)!Spec
<1>1. Init => List(l)!Init
  BY ListInit
<1>2. IInv /\ IInv' /\ [Next]_vars => [List(l)!Next]_(List(l)!listVars)
  BY ListSteps, TaskStoreAssumption DEF ListStep, Unmoved, List!listVars
<1> QED  BY <1>1, <1>2, Inductive, PTL DEF Spec, List!Spec
=============================================================================
