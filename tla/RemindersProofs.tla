--------------------------- MODULE RemindersProofs ---------------------------
(***************************************************************************)
(* What holds of the scheduler for any number of lists, tasks, schedules,  *)
(* Connected events, edits and process ends.                               *)
(***************************************************************************)
EXTENDS Reminders, TLAPS

\* A cron that fires is the scheduler's, and nobody is stopping it.
CronOwned == \A c \in Crons : cron[c] # 0 => scheduler = [cron |-> c, mu |-> NoCron]

\* Who waits in Stop holds s.mu, and s.cron is what it waits for.
WaitHolds ==
    \A g \in Callers : caller[g] = "wait" => scheduler.mu = g /\ scheduler.cron \in Crons

\* A tick that runs is one of the scheduler's cron.
TickOwned == \A k \in Ticks : tick[k] # Resting => scheduler.cron = tick[k].cron

Held(k, t) == tick[k].pc \in {"send", "latch"} /\ t \in DOMAIN tick[k].due

\* What a tick holds of a task was so before the last edit of all, and a task
\* edited since is crossed; one whose latch is next was sent, unless crossed.
HoldsSound ==
    \A k \in Ticks, t \in Tasks :
        Held(k, t) =>
            /\ tick[k].due[t] <= edits
            /\ tick[k].due[t] # sent[t].version => sent[t].crossed
            /\ tick[k].pc = "latch" /\ t \in DOMAIN task =>
                   sent[t].crossed \/ sent[t].count > 0

\* Versions count the edits.
VersionsPast == \A t \in Tasks : sent[t].version <= edits

\* The inductive invariant
IInv ==
    /\ TypeOK
    /\ VersionsPast
    /\ CronOwned
    /\ WaitHolds
    /\ TickOwned
    /\ HoldsSound
    /\ LatchMeansReminded

-----------------------------------------------------------------------------
LEMMA RestingType == Resting \in TickLocals /\ Resting.pc = "rest"
BY DEF TickLocals, Resting

\* What the locals of a tick hold at each point
LEMMA TickType ==
    ASSUME TypeOK, NEW k \in Ticks
    PROVE  /\ tick[k].pc = "rest" <=> tick[k] = Resting
           /\ tick[k].pc = "lists" =>
                 tick[k] \in [pc : {"lists"}, cron : Crons, now : 1 .. MaxMinute]
           /\ tick[k].pc = "tasks" =>
                 tick[k] \in [pc : {"tasks"}, cron : Crons, now : 1 .. MaxMinute,
                              todo : SUBSET Lists]
           /\ tick[k].pc \in {"send", "latch"} =>
                 tick[k] \in [pc : {"send", "latch"}, cron : Crons, now : 1 .. MaxMinute,
                              todo : SUBSET Lists, list : Lists, due : Due]
           /\ tick[k] # Resting => tick[k].cron \in Crons /\ tick[k].now \in 1 .. MaxMinute
           /\ tick[k].pc \in {"rest", "lists", "tasks", "send", "latch"}
<1>1. tick[k] \in TickLocals
  BY DEF TypeOK
<1> QED  BY <1>1 DEF TickLocals, Resting

LEMMA DueType ==
    ASSUME NEW due \in Due
    PROVE  /\ DOMAIN due \subseteq Tasks
           /\ \A t \in DOMAIN due : due[t] \in 0 .. MaxEdits
BY DEF Due

LEMMA LocalGoes ==
    ASSUME TypeOK, NEW k \in Ticks, NEW local \in TickLocals, Local(k, local)
    PROVE  /\ tick' \in [Ticks -> TickLocals]
           /\ tick'[k] = local
           /\ \A i \in Ticks \ {k} : tick'[i] = tick[i]
BY DEF TypeOK, Local

LEMMA NextMinuteType ==
    ASSUME RemindersAssumption, TypeOK
    PROVE  /\ NextMinute \in 1 .. MaxMinute /\ NextMinute # 0
           /\ NextMinute > minute \/ NextMinute = MaxMinute
BY DEF NextMinute, RemindersAssumption, TypeOK

LEMMA InitEstablishes == ASSUME RemindersAssumption, Init PROVE IInv
<1>1. TypeOK
  BY RestingType DEF Init, TypeOK, Row, Sent, Unsent, RemindersAssumption
<1>2. CronOwned /\ WaitHolds /\ TickOwned
  BY DEF Init, CronOwned, WaitHolds, TickOwned
<1>3. VersionsPast /\ HoldsSound /\ LatchMeansReminded
  BY RestingType DEF Init, VersionsPast, HoldsSound, Held, LatchMeansReminded, Unsent
<1> QED  BY <1>1, <1>2, <1>3 DEF IInv

-----------------------------------------------------------------------------
\* A step that starts no tick and leaves the cron and its callers alone
LEMMA SchedulerKept ==
    ASSUME IInv, UNCHANGED <<cron, scheduler, caller>>,
           \A k \in Ticks :
               tick'[k] # Resting => tick[k] # Resting /\ tick'[k].cron = tick[k].cron
    PROVE  (CronOwned /\ WaitHolds /\ TickOwned)'
BY DEF IInv, CronOwned, WaitHolds, TickOwned

\* A step that leaves tasks, messages and ticks alone
LEMMA RowsKept ==
    ASSUME IInv, UNCHANGED <<task, tick, edits, sent>>
    PROVE  (VersionsPast /\ HoldsSound /\ LatchMeansReminded)'
BY DEF IInv, VersionsPast, HoldsSound, Held, LatchMeansReminded

LEMMA AdvanceStep == ASSUME RemindersAssumption, IInv, Advance PROVE IInv'
<1>1. TypeOK'
  BY DEF IInv, TypeOK, Advance, database, RemindersAssumption
<1>2. (CronOwned /\ WaitHolds /\ TickOwned)'
  BY SchedulerKept DEF Advance
<1>3. (VersionsPast /\ HoldsSound /\ LatchMeansReminded)'
  BY RowsKept DEF Advance, database
<1> QED  BY <1>1, <1>2, <1>3 DEF IInv

-----------------------------------------------------------------------------
\* Rows whose last_reminded_at does not change, and rows that go
LEMMA RowsChanged ==
    ASSUME IInv, TypeOK', DOMAIN task' \subseteq DOMAIN task,
           \A t \in DOMAIN task' : task'[t].last = task[t].last,
           UNCHANGED <<cron, scheduler, caller, tick, edits, sent>>
    PROVE  IInv'
<1>1. (CronOwned /\ WaitHolds /\ TickOwned)'
  BY SchedulerKept
<1>2. (VersionsPast /\ HoldsSound /\ LatchMeansReminded)'
  BY DEF IInv, VersionsPast, HoldsSound, Held, LatchMeansReminded
<1> QED  BY <1>1, <1>2 DEF IInv

LEMMA SetListStatusStep == ASSUME IInv, NEW l \in Lists, SetListStatus(l) PROVE IInv'
<1>1. listStatus' \in [Lists -> {"unpublished", "active", "stopped", "gone"}]
  BY DEF IInv, TypeOK, SetListStatus
<1>2. /\ DOMAIN task' \subseteq DOMAIN task
      /\ \A t \in DOMAIN task' : task'[t] = task[t]
  BY DEF SetListStatus, Restrict
<1>3. TypeOK'
  BY <1>1, <1>2 DEF IInv, TypeOK, SetListStatus
<1> QED  BY <1>2, <1>3, RowsChanged DEF SetListStatus

LEMMA UpdateTaskStatusStep == ASSUME IInv, NEW t \in Tasks, UpdateTaskStatus(t) PROVE IInv'
<1>1. PICK s \in {"todo", "done"} : task' = [task EXCEPT ![t].status = s]
  BY DEF UpdateTaskStatus
<1>2. \A u \in DOMAIN task : task[u] \in Row
  BY DEF IInv, TypeOK
<1>3. /\ DOMAIN task' = DOMAIN task
      /\ \A u \in DOMAIN task : task'[u] \in Row /\ task'[u].last = task[u].last
  BY <1>1, <1>2 DEF Row
<1>4. TypeOK'
  BY <1>3 DEF IInv, TypeOK, UpdateTaskStatus
<1> QED  BY <1>3, <1>4, RowsChanged DEF UpdateTaskStatus

LEMMA DeleteTaskStep == ASSUME IInv, NEW t \in Tasks, DeleteTask(t) PROVE IInv'
<1>1. /\ DOMAIN task' \subseteq DOMAIN task
      /\ \A u \in DOMAIN task' : task'[u] = task[u]
  BY DEF DeleteTask, Restrict
<1>2. TypeOK'
  BY <1>1 DEF IInv, TypeOK, DeleteTask
<1> QED  BY <1>1, <1>2, RowsChanged DEF DeleteTask

LEMMA RowEdited ==
    ASSUME NEW row \in Row, NEW s \in Schedules, NEW last \in 0 .. MaxMinute
    PROVE  [row EXCEPT !.schedule = s, !.last = last] \in Row
BY DEF Row

LEMMA UpdateTaskFieldsStep ==
    ASSUME RemindersAssumption, IInv, NEW t \in Tasks, UpdateTaskFields(t)
    PROVE  IInv'
<1>1. PICK s \in Schedules : task' = [task EXCEPT ![t].schedule = s, ![t].last = 0]
  BY DEF UpdateTaskFields
<1>2. /\ DOMAIN task' = DOMAIN task
      /\ \A u \in DOMAIN task : task'[u] \in Row
      /\ \A u \in DOMAIN task \ {t} : task'[u] = task[u]
      /\ task'[t].last = 0
  <2>1. \A u \in DOMAIN task : task[u] \in Row
    BY DEF IInv, TypeOK
  <2>2. t \in DOMAIN task
    BY DEF UpdateTaskFields
  <2>3. /\ DOMAIN task' = DOMAIN task
        /\ task'[t] = [task[t] EXCEPT !.schedule = s, !.last = 0]
        /\ \A u \in DOMAIN task \ {t} : task'[u] = task[u]
    BY <1>1, <2>2
  <2>4. [task[t] EXCEPT !.schedule = s, !.last = 0] \in Row
    <3>1. 0 \in 0 .. MaxMinute /\ task[t] \in Row
      BY <2>1, <2>2 DEF RemindersAssumption
    <3> QED  BY <3>1, RowEdited
  <2>5. [task[t] EXCEPT !.schedule = s, !.last = 0].last = 0
    BY <2>1, <2>2 DEF Row
  <2> QED  BY <2>1, <2>2, <2>3, <2>4, <2>5
<1>3. edits + 1 \in 0 .. MaxEdits /\ edits' = edits + 1 /\ edits \in Nat
  BY DEF IInv, TypeOK, UpdateTaskFields, RemindersAssumption
<1> DEFINE fresh == Unsent(edits + 1, HeldByTick(t))
<1>4. /\ fresh \in Sent /\ fresh.crossed = HeldByTick(t)
      /\ fresh.version = edits + 1 /\ fresh.count = 0
  BY <1>3 DEF Unsent, Sent, HeldByTick, RemindersAssumption
<1> HIDE DEF fresh
<1>5. /\ sent' \in [Tasks -> Sent]
      /\ sent'[t] = fresh
      /\ \A u \in Tasks \ {t} : sent'[u] = sent[u]
  BY <1>4 DEF IInv, TypeOK, UpdateTaskFields, fresh
<1>6. TypeOK'
  BY <1>2, <1>3, <1>5 DEF IInv, TypeOK, UpdateTaskFields
<1>7. (CronOwned /\ WaitHolds /\ TickOwned)'
  BY SchedulerKept DEF UpdateTaskFields
<1>8. HoldsSound'
  <2> SUFFICES ASSUME NEW k \in Ticks, NEW u \in Tasks, Held(k, u)
               PROVE  /\ tick[k].due[u] <= edits'
                      /\ tick[k].due[u] # sent'[u].version => sent'[u].crossed
                      /\ tick[k].pc = "latch" /\ u \in DOMAIN task' =>
                             sent'[u].crossed \/ sent'[u].count > 0
    BY DEF HoldsSound, Held, UpdateTaskFields
  <2>1. tick[k].due[u] \in Nat /\ tick[k].due[u] <= edits
    BY TickType, DueType DEF IInv, HoldsSound, Held
  <2>2. CASE u = t
    <3>1. HeldByTick(t)
      BY <2>2 DEF HeldByTick, Held
    <3>2. sent'[u].crossed = HeldByTick(t)
      BY <1>4, <1>5, <2>2
    <3>3. sent'[u].crossed
      BY ONLY <3>1, <3>2, Zenon
    <3>4. tick[k].due[u] <= edits'
      BY <1>3, <2>1
    <3> QED  BY <3>3, <3>4
  <2>3. CASE u # t
    BY <1>2, <1>3, <1>5, <2>1, <2>3 DEF IInv, HoldsSound
  <2> QED  BY <2>2, <2>3
<1>9. LatchMeansReminded'
  BY <1>2, <1>5 DEF IInv, TypeOK, LatchMeansReminded
<1>10. VersionsPast'
  BY <1>3, <1>4, <1>5 DEF IInv, TypeOK, VersionsPast, Sent
<1> QED  BY <1>6, <1>7, <1>8, <1>9, <1>10 DEF IInv

-----------------------------------------------------------------------------
\* Connect and Signal: a caller turns to Stop.
LEMMA CallsStop ==
    ASSUME IInv, NEW g \in Callers, caller' = [caller EXCEPT ![g] = "stop"],
           UNCHANGED <<minute, database, cron, scheduler, tick, edits, exits, sent>>
    PROVE  IInv'
<1>1. TypeOK'
  BY DEF IInv, TypeOK, database
<1>2. (CronOwned /\ WaitHolds /\ TickOwned)'
  BY DEF IInv, TypeOK, CronOwned, WaitHolds, TickOwned
<1>3. (VersionsPast /\ HoldsSound /\ LatchMeansReminded)'
  BY RowsKept DEF database
<1> QED  BY <1>1, <1>2, <1>3 DEF IInv

LEMMA ConnectStep == ASSUME IInv, (\E g \in Conns : Connect(g)) \/ Signal PROVE IInv'
BY CallsStop DEF Connect, Signal, Callers

LEMMA AfterStopType == ASSUME NEW g PROVE AfterStop(g) \in {"exit", "start"}
BY DEF AfterStop

LEMMA NoCronIsNone ==
    ASSUME RemindersAssumption
    PROVE  NoCron \notin Crons /\ NoCron \notin Callers
BY DEF RemindersAssumption, Callers

\* While nobody holds s.mu nobody waits.
LEMMA NobodyWaits ==
    ASSUME RemindersAssumption, IInv, scheduler.mu = NoCron, NEW g \in Callers
    PROVE  caller[g] # "wait"
BY NoCronIsNone DEF IInv, WaitHolds

LEMMA SchedulerType ==
    ASSUME TypeOK
    PROVE  /\ scheduler.cron \in Crons \cup {NoCron} /\ scheduler.mu \in Callers \cup {NoCron}
           /\ scheduler = [cron |-> scheduler.cron, mu |-> scheduler.mu]
BY DEF TypeOK

LEMMA StopCronStep ==
    ASSUME RemindersAssumption, IInv, NEW g \in Callers, StopCron(g)
    PROVE  IInv'
<1>1. (VersionsPast /\ HoldsSound /\ LatchMeansReminded)'
  BY RowsKept DEF StopCron, database
<1>2. CASE scheduler.cron = NoCron
  <2>1. UNCHANGED <<cron, scheduler>> /\ caller' = [caller EXCEPT ![g] = AfterStop(g)]
    BY <1>2 DEF StopCron
  <2>2. TypeOK'
    BY <2>1, AfterStopType DEF IInv, TypeOK, StopCron, database
  <2>3. (CronOwned /\ WaitHolds /\ TickOwned)'
    BY <2>1, AfterStopType DEF IInv, TypeOK, CronOwned, WaitHolds, TickOwned, StopCron
  <2> QED  BY <1>1, <2>2, <2>3 DEF IInv
<1>3. CASE scheduler.cron # NoCron
  <2>1. /\ caller' = [caller EXCEPT ![g] = "wait"]
        /\ cron' = [cron EXCEPT ![scheduler.cron] = 0]
        /\ scheduler' = [cron |-> scheduler.cron, mu |-> g]
    BY <1>3, SchedulerType DEF IInv, StopCron
  <2>2. scheduler.cron \in Crons
    BY <1>3, SchedulerType DEF IInv
  <2>3. TypeOK'
    BY <2>1, <2>2 DEF IInv, TypeOK, StopCron, database, RemindersAssumption
  <2>4. CronOwned'
    BY <2>1, <2>2 DEF IInv, TypeOK, CronOwned
  <2>5. WaitHolds'
    BY <2>1, <2>2, NobodyWaits DEF IInv, TypeOK, WaitHolds, StopCron
  <2>6. TickOwned'
    BY <2>1 DEF IInv, TickOwned, StopCron
  <2> QED  BY <1>1, <2>3, <2>4, <2>5, <2>6 DEF IInv
<1> QED  BY <1>2, <1>3

LEMMA StopReturnStep ==
    ASSUME RemindersAssumption, IInv, NEW g \in Callers, StopReturn(g)
    PROVE  IInv'
<1>1. (VersionsPast /\ HoldsSound /\ LatchMeansReminded)'
  BY RowsKept DEF StopReturn, database
<1>2. TypeOK'
  BY AfterStopType DEF IInv, TypeOK, StopReturn, database
<1>3. scheduler.mu = g /\ g # NoCron
  BY NoCronIsNone DEF IInv, WaitHolds, StopReturn
<1>4. \A c \in Crons : cron[c] = 0
  BY <1>3 DEF IInv, CronOwned
<1>5. \A k \in Ticks : tick[k] = Resting
  BY DEF IInv, TickOwned, StopReturn, RunningTicks
<1>6. CronOwned' /\ TickOwned'
  BY <1>4, <1>5 DEF CronOwned, TickOwned, StopReturn
<1>7. WaitHolds'
  BY <1>3, AfterStopType DEF IInv, TypeOK, WaitHolds, StopReturn
<1> QED  BY <1>1, <1>2, <1>6, <1>7 DEF IInv

LEMMA StartStep ==
    ASSUME RemindersAssumption, IInv, NEW g \in Callers, Start(g)
    PROVE  IInv'
<1>1. (VersionsPast /\ HoldsSound /\ LatchMeansReminded)'
  BY RowsKept DEF Start, database
<1>2. caller' = [caller EXCEPT ![g] = "idle"] /\ scheduler.mu = NoCron
  BY DEF Start
<1>3. CASE UNCHANGED <<cron, scheduler>>
  <2>1. TypeOK'
    BY <1>2, <1>3 DEF IInv, TypeOK, Start, database
  <2>2. (CronOwned /\ WaitHolds /\ TickOwned)'
    BY <1>2, <1>3 DEF IInv, TypeOK, CronOwned, WaitHolds, TickOwned, Start
  <2> QED  BY <1>1, <2>1, <2>2 DEF IInv
<1>4. CASE ~UNCHANGED <<cron, scheduler>>
  <2>1. PICK c \in Crons : /\ cron' = [cron EXCEPT ![c] = NextMinute]
                           /\ scheduler' = [scheduler EXCEPT !.cron = c]
    BY <1>4 DEF Start
  <2>2. scheduler.cron = NoCron /\ scheduler' = [cron |-> c, mu |-> NoCron]
    BY <1>2, <1>4, <2>1, SchedulerType DEF IInv, Start
  <2>3. TypeOK'
    BY <1>2, <2>1, <2>2, NextMinuteType DEF IInv, TypeOK, Start, database
  <2>4. CronOwned'
    BY <2>1, <2>2, NoCronIsNone DEF IInv, TypeOK, CronOwned
  <2>5. WaitHolds'
    BY <1>2, <2>2, NobodyWaits DEF IInv, TypeOK, WaitHolds
  <2>6. TickOwned'
    BY <2>2, NoCronIsNone, TickType DEF IInv, TickOwned, Start
  <2> QED  BY <1>1, <2>3, <2>4, <2>5, <2>6 DEF IInv
<1> QED  BY <1>3, <1>4

-----------------------------------------------------------------------------
LEMMA FireStep ==
    ASSUME RemindersAssumption, IInv, NEW c \in Crons, NEW k \in Ticks, Fire(c, k)
    PROVE  IInv'
<1> DEFINE local == [pc |-> "lists", cron |-> c, now |-> minute]
<1>1. local \in TickLocals /\ local.pc = "lists" /\ local.cron = c
  BY DEF TickLocals, IInv, TypeOK
<1>2. Local(k, local)
  BY DEF Fire, Local
<1> HIDE DEF local
<1>3. /\ tick' \in [Ticks -> TickLocals]
      /\ tick'[k] = local
      /\ \A i \in Ticks \ {k} : tick'[i] = tick[i]
  BY <1>1, <1>2, LocalGoes DEF IInv
<1>4. TypeOK'
  BY <1>3, NextMinuteType DEF IInv, TypeOK, Fire, database
<1>5. scheduler = [cron |-> c, mu |-> NoCron]
  BY DEF IInv, CronOwned, Fire
<1>6. (CronOwned /\ WaitHolds /\ TickOwned)'
  BY <1>1, <1>3, <1>5 DEF IInv, TypeOK, CronOwned, WaitHolds, TickOwned, Fire
<1>7. (VersionsPast /\ HoldsSound /\ LatchMeansReminded)'
  BY <1>1, <1>3 DEF IInv, VersionsPast, HoldsSound, Held, LatchMeansReminded, Fire, database
<1> QED  BY <1>4, <1>6, <1>7 DEF IInv

\* A tick that goes on, and does not turn to the latch
LEMMA TickGoesOn ==
    ASSUME IInv, NEW k \in Ticks, tick[k] # Resting, NEW local \in TickLocals, Local(k, local),
           local # Resting => local.cron = tick[k].cron,
           local.pc \in {"rest", "tasks"} \/
               (local.pc = "send" /\ \A t \in DOMAIN local.due : local.due[t] = sent[t].version),
           UNCHANGED <<minute, database, cron, scheduler, caller, edits, exits, sent>>
    PROVE  IInv'
<1>1. /\ tick' \in [Ticks -> TickLocals]
      /\ tick'[k] = local
      /\ \A i \in Ticks \ {k} : tick'[i] = tick[i]
  BY LocalGoes DEF IInv
<1>2. TypeOK'
  BY <1>1 DEF IInv, TypeOK, database
<1>3. (CronOwned /\ WaitHolds /\ TickOwned)'
  BY <1>1, SchedulerKept
<1>4. (VersionsPast /\ HoldsSound /\ LatchMeansReminded)'
  BY <1>1 DEF IInv, VersionsPast, HoldsSound, Held, LatchMeansReminded, database
<1> QED  BY <1>2, <1>3, <1>4 DEF IInv
LEMMA ToTasksType ==
    ASSUME TypeOK, NEW k \in Ticks, tick[k] # Resting, NEW todo \in SUBSET Lists
    PROVE  /\ ToTasks(k, todo) \in TickLocals
           /\ ToTasks(k, todo).pc = "tasks" /\ ToTasks(k, todo).cron = tick[k].cron
           /\ ToTasks(k, todo).now = tick[k].now /\ ToTasks(k, todo).todo = todo
BY TickType DEF ToTasks, TickLocals

LEMMA GetAllActiveListsStep ==
    ASSUME IInv, NEW k \in Ticks, GetAllActiveLists(k)
    PROVE  IInv'
<1> DEFINE local == ToTasks(k, {l \in Lists : listStatus[l] = "active"})
<1>1. tick[k] # Resting
  BY RestingType DEF GetAllActiveLists
<1>2. local \in TickLocals /\ local.pc = "tasks" /\ local.cron = tick[k].cron
  BY <1>1, ToTasksType DEF IInv
<1>3. Local(k, local)
  BY DEF GetAllActiveLists
<1> HIDE DEF local
<1> QED  BY <1>1, <1>2, <1>3, TickGoesOn DEF GetAllActiveLists

\* The tasks a tick decides to remind of, with the schedules they have
LEMMA DueFound ==
    ASSUME TypeOK, VersionsPast, NEW l, NEW now
    PROVE  /\ DueTasks(l, now) \subseteq DOMAIN task
           /\ [t \in DueTasks(l, now) |-> sent[t].version] \in Due
<1>1. DueTasks(l, now) \subseteq DOMAIN task
  BY DEF DueTasks
<1>2. DueTasks(l, now) \in SUBSET Tasks
  BY <1>1 DEF TypeOK
<1>3. \A t \in Tasks : sent[t].version \in 0 .. MaxEdits
  BY DEF TypeOK, Sent
<1> DEFINE S == DueTasks(l, now)
<1> HIDE DEF S
<1>4. [t \in S |-> sent[t].version] \in [S -> 0 .. MaxEdits] /\ S \in SUBSET Tasks
  BY <1>2, <1>3 DEF S
<1> QED  BY <1>1, <1>4 DEF Due, S

LEMMA GetTasksByListStep ==
    ASSUME IInv, NEW k \in Ticks, GetTasksByList(k)
    PROVE  IInv'
<1>1. PICK l \in tick[k].todo :
         LET due  == DueTasks(l, tick[k].now)
             todo == tick[k].todo \ {l}
         IN  Local(k, IF due = {}
                      THEN ToTasks(k, todo)
                      ELSE [pc |-> "send", cron |-> tick[k].cron, now |-> tick[k].now,
                            todo |-> todo, list |-> l,
                            due |-> [t \in due |-> sent[t].version]])
  BY DEF GetTasksByList
<1> DEFINE found == [t \in DueTasks(l, tick[k].now) |-> sent[t].version]
           todo == tick[k].todo \ {l}
           local == [pc |-> "send", cron |-> tick[k].cron, now |-> tick[k].now,
                     todo |-> todo, list |-> l, due |-> found]
<1>2. /\ tick[k] # Resting /\ tick[k].todo \in SUBSET Lists
      /\ tick[k].cron \in Crons /\ tick[k].now \in 1 .. MaxMinute
  BY RestingType, TickType DEF IInv, GetTasksByList
<1>3. found \in Due /\ \A t \in DOMAIN found : found[t] = sent[t].version
  BY DueFound DEF IInv
<1>4. Local(k, ToTasks(k, todo)) \/ Local(k, local)
  BY <1>1
<1>5. CASE Local(k, ToTasks(k, todo))
  <2>1. todo \in SUBSET Lists
    BY <1>2
  <2> HIDE DEF todo
  <2>2. /\ ToTasks(k, todo) \in TickLocals
        /\ ToTasks(k, todo).pc = "tasks" /\ ToTasks(k, todo).cron = tick[k].cron
    BY <1>2, <2>1, ToTasksType DEF IInv
  <2> QED  BY <1>2, <1>5, <2>2, TickGoesOn DEF GetTasksByList
<1>6. CASE Local(k, local)
  <2> HIDE DEF found
  <2>1. local \in TickLocals
    BY <1>2, <1>3 DEF TickLocals
  <2>2. local.pc = "send" /\ local.cron = tick[k].cron /\ local.due = found
    OBVIOUS
  <2> HIDE DEF local
  <2> QED  BY <1>2, <1>3, <1>6, <2>1, <2>2, TickGoesOn DEF GetTasksByList
<1> QED  BY <1>4, <1>5, <1>6

LEMMA SendFailsStep == ASSUME IInv, NEW k \in Ticks, SendFails(k) PROVE IInv'
<1>1. tick[k] # Resting /\ tick[k].todo \in SUBSET Lists
  BY RestingType, TickType DEF IInv, SendFails
<1>2. /\ ToTasks(k, tick[k].todo) \in TickLocals
      /\ ToTasks(k, tick[k].todo).pc = "tasks"
      /\ ToTasks(k, tick[k].todo).cron = tick[k].cron
  BY <1>1, ToTasksType DEF IInv
<1> QED  BY <1>1, <1>2, TickGoesOn DEF SendFails

LEMMA TickEndsStep == ASSUME IInv, NEW k \in Ticks, TickEnds(k) PROVE IInv'
<1>1. tick[k] # Resting
  BY RestingType DEF TickEnds
<1> QED  BY <1>1, RestingType, TickGoesOn DEF TickEnds

-----------------------------------------------------------------------------
\* A message counts once for each task it is about.
LEMMA CountedIs ==
    ASSUME RemindersAssumption, TypeOK, NEW k \in Ticks, tick[k].pc = "send"
    PROVE  /\ Counted(k) \in [Tasks -> Sent]
           /\ \A t \in Tasks :
                 /\ Counted(k)[t].version = sent[t].version
                 /\ Counted(k)[t].cut = sent[t].cut
                 /\ Counted(k)[t].crossed = sent[t].crossed
                 /\ sent[t].count > 0 => Counted(k)[t].count > 0
                 /\ IF t \in DOMAIN tick[k].due \cap DOMAIN task /\ tick[k].due[t] = sent[t].version
                    THEN /\ Counted(k)[t].count > 0
                         /\ Counted(k)[t].minute = tick[k].now
                         /\ Counted(k)[t].count =
                               IF task[t].schedule.mode = "once" \/ sent[t].minute = tick[k].now
                               THEN sent[t].count + 1 ELSE 1
                    ELSE Counted(k)[t] = sent[t]
<1>1. tick[k].now \in 0 .. MaxMinute
  BY TickType, RestingType
<1>2. \A t \in Tasks : sent[t] \in Sent /\ sent[t].count \in Nat
  BY DEF TypeOK, Sent
<1> DEFINE About(t) == t \in DOMAIN tick[k].due \cap DOMAIN task /\ tick[k].due[t] = sent[t].version
           n(t) == IF task[t].schedule.mode = "once" \/ sent[t].minute = tick[k].now
                   THEN sent[t].count + 1 ELSE 1
<1>3. ASSUME NEW t \in Tasks, About(t)
      PROVE  Counted(k)[t] = [sent[t] EXCEPT !.count = n(t), !.minute = tick[k].now]
  BY <1>3 DEF Counted
<1>4. ASSUME NEW t \in Tasks, ~About(t) PROVE Counted(k)[t] = sent[t]
  BY <1>4 DEF Counted
<1>5. \A t \in Tasks : n(t) \in Nat /\ n(t) > 0
  BY <1>2
<1> HIDE DEF n
<1>6. ASSUME NEW t \in Tasks, About(t)
      PROVE  /\ Counted(k)[t] \in Sent
             /\ Counted(k)[t].count = n(t) /\ Counted(k)[t].minute = tick[k].now
             /\ Counted(k)[t].version = sent[t].version /\ Counted(k)[t].cut = sent[t].cut
             /\ Counted(k)[t].crossed = sent[t].crossed
  <2>0. PICK new : new = Counted(k)[t]
    OBVIOUS
  <2>1. PICK s \in Sent, m \in 0 .. MaxMinute, i \in Nat :
           s = sent[t] /\ m = tick[k].now /\ i = n(t)
    BY <1>1, <1>2, <1>5
  <2>2. new = [s EXCEPT !.count = i, !.minute = m]
    BY <1>3, <1>6, <2>0, <2>1
  <2>3. /\ new \in Sent
        /\ new.count = i /\ new.minute = m
        /\ new.version = s.version /\ new.cut = s.cut /\ new.crossed = s.crossed
    <3>1. s \in Sent /\ m \in 0 .. MaxMinute /\ i \in Nat
      BY <2>1
    <3> QED  BY ONLY <2>2, <3>1 DEF Sent
  <2> QED  BY <2>0, <2>1, <2>3
<1>7. \A t \in Tasks : Counted(k)[t] \in Sent
  BY <1>2, <1>4, <1>6
<1>8. Counted(k) = [t \in Tasks |-> Counted(k)[t]]
  BY DEF Counted
<1>9. Counted(k) \in [Tasks -> Sent]
  BY <1>7, <1>8
<1>10. ASSUME NEW t \in Tasks
       PROVE  /\ Counted(k)[t].version = sent[t].version
              /\ Counted(k)[t].cut = sent[t].cut
              /\ Counted(k)[t].crossed = sent[t].crossed
              /\ sent[t].count > 0 => Counted(k)[t].count > 0
              /\ IF About(t)
                 THEN /\ Counted(k)[t].count > 0
                      /\ Counted(k)[t].minute = tick[k].now
                      /\ Counted(k)[t].count = n(t)
                 ELSE Counted(k)[t] = sent[t]
  <2>1. CASE About(t)
    BY <1>5, <1>6, <2>1
  <2>2. CASE ~About(t)
    BY <1>4, <2>2
  <2> QED  BY <2>1, <2>2
<1> QED  BY <1>9, <1>10 DEF n

LEMMA SendSucceedsStep ==
    ASSUME RemindersAssumption, IInv, NEW k \in Ticks, SendSucceeds(k)
    PROVE  IInv'
<1> DEFINE local == [tick[k] EXCEPT !.pc = "latch"]
<1>1. tick[k].pc = "send" /\ tick[k] # Resting
  BY RestingType DEF SendSucceeds
<1>2. /\ local \in TickLocals
      /\ local.pc = "latch" /\ local.cron = tick[k].cron /\ local.due = tick[k].due
  BY <1>1, TickType DEF IInv, TickLocals
<1>3. Local(k, local)
  BY DEF SendSucceeds
<1> HIDE DEF local
<1>4. /\ tick' \in [Ticks -> TickLocals]
      /\ tick'[k] = local
      /\ \A i \in Ticks \ {k} : tick'[i] = tick[i]
  BY <1>2, <1>3, LocalGoes DEF IInv
<1>5. sent' = Counted(k)
  BY DEF SendSucceeds
<1>6. TypeOK'
  BY <1>1, <1>4, <1>5, CountedIs DEF IInv, TypeOK, SendSucceeds, database
<1>7. (CronOwned /\ WaitHolds /\ TickOwned)'
  BY <1>1, <1>2, <1>4, SchedulerKept DEF SendSucceeds
<1>8. \A t \in Tasks :
         /\ sent'[t].version = sent[t].version
         /\ sent'[t].crossed = sent[t].crossed
         /\ sent[t].count > 0 => sent'[t].count > 0
  BY <1>1, <1>5, CountedIs DEF IInv
<1>9. VersionsPast'
  BY <1>8 DEF IInv, VersionsPast, SendSucceeds
<1>10. LatchMeansReminded'
  BY <1>8 DEF IInv, TypeOK, LatchMeansReminded, SendSucceeds, database
<1>11. HoldsSound'
  <2> SUFFICES ASSUME NEW i \in Ticks, NEW t \in Tasks, Held(i, t)'
               PROVE  /\ tick'[i].due[t] <= edits'
                      /\ tick'[i].due[t] # sent'[t].version => sent'[t].crossed
                      /\ tick'[i].pc = "latch" /\ t \in DOMAIN task' =>
                             sent'[t].crossed \/ sent'[t].count > 0
    BY DEF HoldsSound
  <2>1. CASE i # k
    BY <1>4, <1>8, <2>1 DEF IInv, HoldsSound, Held, SendSucceeds, database
  <2>2. CASE i = k
    <3>1. Held(k, t) /\ tick'[i].due[t] = tick[k].due[t] /\ t \in DOMAIN tick[k].due
      BY <1>1, <1>2, <1>4, <2>2 DEF Held
    <3>2. /\ tick'[i].due[t] <= edits'
          /\ tick'[i].due[t] # sent'[t].version => sent'[t].crossed
      BY <1>8, <3>1 DEF IInv, HoldsSound, SendSucceeds
    <3>3. CASE tick[k].due[t] = sent[t].version
      <4>1. t \in DOMAIN task => sent'[t].count > 0
        BY <1>1, <1>5, <3>1, <3>3, CountedIs DEF IInv
      <4> QED  BY <3>2, <4>1 DEF SendSucceeds, database
    <3>4. CASE tick[k].due[t] # sent[t].version
      <4>1. sent'[t].crossed
        BY <1>8, <3>1, <3>2, <3>4
      <4> QED  BY <3>2, <4>1
    <3> QED  BY <3>3, <3>4
  <2> QED  BY <2>1, <2>2
<1> QED  BY <1>6, <1>7, <1>9, <1>10, <1>11 DEF IInv

\* What the latch leaves to be done
LEMMA LatchGoes ==
    ASSUME IInv, NEW k \in Ticks, UpdateTaskLastReminded(k)
    PROVE  \E t \in DOMAIN tick[k].due :
              /\ t \in Tasks
              /\ task' = IF t \in DOMAIN task THEN [task EXCEPT ![t].last = tick[k].now] ELSE task
              /\ tick' \in [Ticks -> TickLocals]
              /\ \A i \in Ticks \ {k} : tick'[i] = tick[i]
              /\ tick'[k].cron = tick[k].cron /\ tick'[k].now = tick[k].now
              /\ tick'[k].todo = tick[k].todo
              /\ \/ tick'[k].pc = "tasks" /\ DOMAIN tick[k].due = {t}
                 \/ /\ tick'[k].pc = "latch"
                    /\ DOMAIN tick'[k].due = DOMAIN tick[k].due \ {t}
                    /\ \A u \in DOMAIN tick'[k].due : tick'[k].due[u] = tick[k].due[u]
<1>1. PICK t \in DOMAIN tick[k].due :
         /\ task' = IF t \in DOMAIN task THEN [task EXCEPT ![t].last = tick[k].now] ELSE task
         /\ Local(k, IF DOMAIN tick[k].due \ {t} = {}
                     THEN ToTasks(k, tick[k].todo)
                     ELSE [tick[k] EXCEPT !.due = Restrict(@, DOMAIN tick[k].due \ {t})])
  BY DEF UpdateTaskLastReminded
<1>2. /\ tick[k] # Resting
      /\ tick[k] \in [pc : {"send", "latch"}, cron : Crons, now : 1 .. MaxMinute,
                      todo : SUBSET Lists, list : Lists, due : Due]
      /\ tick[k].pc = "latch"
  BY RestingType, TickType DEF IInv, UpdateTaskLastReminded
<1>3. t \in Tasks
  BY <1>2, DueType
<1> DEFINE local == [tick[k] EXCEPT !.due = Restrict(@, DOMAIN tick[k].due \ {t})]
           rest  == Restrict(tick[k].due, DOMAIN tick[k].due \ {t})
<1>4. /\ rest \in Due
      /\ DOMAIN rest = DOMAIN tick[k].due \ {t}
      /\ \A u \in DOMAIN rest : rest[u] = tick[k].due[u]
  <2>1. /\ DOMAIN tick[k].due \ {t} \in SUBSET Tasks
        /\ \A u \in DOMAIN tick[k].due : tick[k].due[u] \in 0 .. MaxEdits
    BY <1>2, DueType
  <2>2. rest \in [DOMAIN tick[k].due \ {t} -> 0 .. MaxEdits]
    BY <2>1 DEF Restrict
  <2> QED  BY <2>1, <2>2 DEF Due, Restrict
<1>5. local = [tick[k] EXCEPT !.due = rest]
  BY <1>2
<1> HIDE DEF local, rest
<1>6. /\ local \in TickLocals
      /\ local.pc = "latch" /\ local.cron = tick[k].cron /\ local.now = tick[k].now
      /\ local.todo = tick[k].todo /\ local.due = rest
  BY <1>2, <1>4, <1>5 DEF TickLocals
<1>7. CASE Local(k, local)
  <2>1. tick' \in [Ticks -> TickLocals] /\ tick'[k] = local
        /\ \A i \in Ticks \ {k} : tick'[i] = tick[i]
    BY <1>6, <1>7, LocalGoes DEF IInv
  <2> QED  BY <1>1, <1>3, <1>4, <1>6, <2>1
<1>8. CASE DOMAIN tick[k].due = {t} /\ Local(k, ToTasks(k, tick[k].todo))
  <2>1. /\ ToTasks(k, tick[k].todo) \in TickLocals
        /\ ToTasks(k, tick[k].todo).pc = "tasks"
        /\ ToTasks(k, tick[k].todo).cron = tick[k].cron
        /\ ToTasks(k, tick[k].todo).now = tick[k].now
        /\ ToTasks(k, tick[k].todo).todo = tick[k].todo
    BY <1>2, ToTasksType DEF IInv
  <2>2. tick' \in [Ticks -> TickLocals] /\ tick'[k] = ToTasks(k, tick[k].todo)
        /\ \A i \in Ticks \ {k} : tick'[i] = tick[i]
    BY <1>8, <2>1, LocalGoes DEF IInv
  <2> QED  BY <1>1, <1>3, <1>8, <2>1, <2>2
<1> QED  BY <1>1, <1>7, <1>8 DEF local

LEMMA UpdateTaskLastRemindedStep ==
    ASSUME IInv, NEW k \in Ticks, UpdateTaskLastReminded(k)
    PROVE  IInv'
<1>1. PICK t \in DOMAIN tick[k].due :
         /\ t \in Tasks
         /\ task' = IF t \in DOMAIN task THEN [task EXCEPT ![t].last = tick[k].now] ELSE task
         /\ tick' \in [Ticks -> TickLocals]
         /\ \A i \in Ticks \ {k} : tick'[i] = tick[i]
         /\ tick'[k].cron = tick[k].cron
         /\ \/ tick'[k].pc = "tasks"
            \/ /\ tick'[k].pc = "latch"
               /\ DOMAIN tick'[k].due \subseteq DOMAIN tick[k].due
               /\ \A u \in DOMAIN tick'[k].due : tick'[k].due[u] = tick[k].due[u]
  BY LatchGoes
<1>2. tick[k] # Resting /\ tick[k].now \in 1 .. MaxMinute /\ tick[k].pc = "latch"
  BY RestingType, TickType DEF IInv, UpdateTaskLastReminded
<1>3. /\ DOMAIN task' = DOMAIN task
      /\ \A u \in DOMAIN task : task'[u] \in Row
      /\ \A u \in DOMAIN task \ {t} : task'[u] = task[u]
  <2>1. \A u \in DOMAIN task : task[u] \in Row
    BY DEF IInv, TypeOK
  <2>2. \A u \in DOMAIN task : [task[u] EXCEPT !.last = tick[k].now] \in Row
    BY <1>2, <2>1 DEF Row
  <2>3. CASE t \in DOMAIN task
    <3>1. task' = [task EXCEPT ![t] = [task[t] EXCEPT !.last = tick[k].now]]
      BY <1>1, <2>3
    <3> QED  BY <2>1, <2>2, <2>3, <3>1
  <2>4. CASE t \notin DOMAIN task
    BY <1>1, <2>1, <2>4
  <2> QED  BY <2>3, <2>4
<1>4. UNCHANGED <<minute, listStatus, cron, scheduler, caller, edits, exits, sent>>
  BY DEF UpdateTaskLastReminded
<1>5. TypeOK'
  BY <1>1, <1>3, <1>4 DEF IInv, TypeOK
<1>6. (CronOwned /\ WaitHolds /\ TickOwned)'
  BY <1>1, <1>2, <1>4, SchedulerKept
<1>7. HoldsSound'
  BY <1>1, <1>2, <1>3, <1>4 DEF IInv, HoldsSound, Held
<1>8. LatchMeansReminded'
  <2>1. t \in DOMAIN task => sent[t].crossed \/ sent[t].count > 0
    BY <1>1, <1>2 DEF IInv, HoldsSound, Held
  <2> QED  BY <1>3, <1>4, <2>1 DEF IInv, LatchMeansReminded
<1>9. VersionsPast'
  BY <1>4 DEF IInv, VersionsPast
<1> QED  BY <1>5, <1>6, <1>7, <1>8, <1>9 DEF IInv

-----------------------------------------------------------------------------
\* When the process ends, only the count of cuts changes.
LEMMA CutIs ==
    ASSUME IInv, ProcessEnds
    PROVE  /\ sent' \in [Tasks -> Sent]
           /\ \A t \in Tasks :
                 /\ sent'[t].version = sent[t].version /\ sent'[t].count = sent[t].count
                 /\ sent'[t].minute = sent[t].minute /\ sent'[t].crossed = sent[t].crossed
                 /\ sent'[t].cut =
                       IF \E k \in Ticks : /\ tick[k].pc = "latch" /\ t \in DOMAIN tick[k].due
                                           /\ tick[k].due[t] = sent[t].version
                       THEN sent[t].cut + 1
                       ELSE sent[t].cut
<1>1. ASSUME NEW s \in Sent, NEW new, new = [s EXCEPT !.cut = @ + 1]
      PROVE  /\ new \in Sent /\ new.version = s.version /\ new.count = s.count
             /\ new.minute = s.minute /\ new.crossed = s.crossed /\ new.cut = s.cut + 1
  BY <1>1 DEF Sent
<1>2. \A t \in Tasks : sent[t] \in Sent
  BY DEF IInv, TypeOK
<1> DEFINE Cut(t) == \E k \in Ticks : /\ tick[k].pc = "latch" /\ t \in DOMAIN tick[k].due
                                      /\ tick[k].due[t] = sent[t].version
<1>3. sent' = [t \in Tasks |-> IF Cut(t) THEN [sent[t] EXCEPT !.cut = @ + 1] ELSE sent[t]]
  BY DEF ProcessEnds
<1> HIDE DEF Cut
<1>4. \A t \in Tasks :
         /\ sent'[t] \in Sent
         /\ sent'[t].version = sent[t].version /\ sent'[t].count = sent[t].count
         /\ sent'[t].minute = sent[t].minute /\ sent'[t].crossed = sent[t].crossed
         /\ sent'[t].cut = IF Cut(t) THEN sent[t].cut + 1 ELSE sent[t].cut
  <2> SUFFICES ASSUME NEW t \in Tasks
               PROVE  /\ sent'[t] \in Sent
                      /\ sent'[t].version = sent[t].version /\ sent'[t].count = sent[t].count
                      /\ sent'[t].minute = sent[t].minute /\ sent'[t].crossed = sent[t].crossed
                      /\ sent'[t].cut = IF Cut(t) THEN sent[t].cut + 1 ELSE sent[t].cut
    OBVIOUS
  <2>1. CASE Cut(t)
    <3>1. sent'[t] = [sent[t] EXCEPT !.cut = @ + 1]
      BY <1>3, <2>1
    <3> QED  BY <1>1, <1>2, <2>1, <3>1
  <2>2. CASE ~Cut(t)
    BY <1>2, <1>3, <2>2
  <2> QED  BY <2>1, <2>2
<1>5. sent' \in [Tasks -> Sent]
  BY <1>3, <1>4
<1> QED  BY <1>4, <1>5 DEF Cut

LEMMA ProcessEndsStep == ASSUME RemindersAssumption, IInv, ProcessEnds PROVE IInv'
<1>1. exits' \in 0 .. MaxExits
  BY DEF IInv, TypeOK, ProcessEnds, RemindersAssumption
<1>2. TypeOK'
  BY <1>1, CutIs, RestingType DEF IInv, TypeOK, ProcessEnds, database, RemindersAssumption
<1>3. (CronOwned /\ WaitHolds /\ TickOwned)'
  BY DEF CronOwned, WaitHolds, TickOwned, ProcessEnds
<1>4. HoldsSound'
  BY RestingType DEF HoldsSound, Held, ProcessEnds
<1>5. (VersionsPast /\ LatchMeansReminded)'
  BY CutIs DEF IInv, TypeOK, VersionsPast, LatchMeansReminded, ProcessEnds, database
<1> QED  BY <1>2, <1>3, <1>4, <1>5 DEF IInv

LEMMA NextPreserves == ASSUME RemindersAssumption, IInv, [Next]_vars PROVE IInv'
<1>1. CASE UNCHANGED vars
  <2>1. TypeOK'
    BY <1>1 DEF IInv, TypeOK, vars
  <2> QED  BY <1>1, <2>1, RowsChanged DEF vars
<1>2. CASE Rows
  BY <1>2, SetListStatusStep, UpdateTaskStatusStep, DeleteTaskStep, UpdateTaskFieldsStep DEF Rows
<1>3. ASSUME NEW g \in Callers, CallerStep(g) PROVE IInv'
  BY <1>3, StopCronStep, StopReturnStep, StartStep DEF CallerStep
<1>4. ASSUME NEW k \in Ticks, TickStep(k) PROVE IInv'
  BY <1>4, GetAllActiveListsStep, GetTasksByListStep, SendSucceedsStep, SendFailsStep,
     UpdateTaskLastRemindedStep, TickEndsStep DEF TickStep
<1>5. CASE Crash \/ Shutdown
  BY <1>5, ProcessEndsStep DEF Crash, Shutdown
<1> QED  BY <1>1, <1>2, <1>3, <1>4, <1>5, AdvanceStep, ConnectStep, FireStep DEF Next

LEMMA Invariance == Spec => []IInv
<1>1. Init => IInv
  BY InitEstablishes, RemindersAssumption
<1>2. IInv /\ [Next]_vars => IInv'
  BY NextPreserves, RemindersAssumption
<1> QED  BY <1>1, <1>2, PTL DEF Spec

\* Type correctness of the scheduler.
THEOREM TypeCorrect == Spec => []TypeOK
<1>1. IInv => TypeOK
  BY DEF IInv
<1> QED  BY <1>1, Invariance, PTL

\* However many Connected events come at once, with a shutdown or without, one cron
\* runs at most.
THEOREM OneCronRuns == Spec => []OneCron
<1>1. IInv => OneCron
  BY DEF IInv, CronOwned, OneCron
<1> QED  BY <1>1, Invariance, PTL

\* When Stop has returned, and nobody has called Start, no tick is at work.
THEOREM StopIsSilent == Spec => []StoppedIsSilent
<1>1. ASSUME IInv, scheduler = [cron |-> NoCron, mu |-> NoCron], NEW k \in Ticks
      PROVE  tick[k] = Resting
  <2>1. tick[k] # Resting => tick[k].cron = NoCron
    BY <1>1 DEF IInv, TickOwned
  <2>2. tick[k] # Resting => tick[k].cron \in Crons
    BY <1>1, TickType DEF IInv
  <2> QED  BY <2>1, <2>2, NoCronIsNone, RemindersAssumption
<1>2. IInv => StoppedIsSilent
  BY <1>1 DEF StoppedIsSilent
<1> QED  BY <1>2, Invariance, PTL

\* A failed send is never latched: whatever edits, deletes, ticks and crashes come in
\* between, a reminder that is latched was sent, unless the schedule was set while a
\* tick was still to latch the one before.
THEOREM LatchedWereSent == Spec => []LatchMeansReminded
<1>1. IInv => LatchMeansReminded
  BY DEF IInv
<1> QED  BY <1>1, Invariance, PTL
-----------------------------------------------------------------------------
\* No reminder twice, when no tick outlasts a minute.

\* A tick is about to send, or to latch, a reminder for the schedule t has now.
Sends(k, t) ==
    tick[k].pc = "send" /\ t \in DOMAIN tick[k].due /\ tick[k].due[t] = sent[t].version

Latches(k, t) ==
    tick[k].pc = "latch" /\ t \in DOMAIN tick[k].due /\ tick[k].due[t] = sent[t].version

\* A one-shot reminder that may be sent again was sent no more often than the
\* process ended before the latch.
SentOnce ==
    \A t \in DOMAIN task :
        task[t].schedule.mode = "once" =>
            /\ sent[t].count <= 1 + sent[t].cut
            /\ task[t].last = 0 => sent[t].count <= sent[t].cut \/ \E k \in Ticks : Latches(k, t)
            /\ \A k \in Ticks : Sends(k, t) => sent[t].count <= sent[t].cut

\* A recurring one is sent once in its minute, and in no minute after the last
\* one told apart.
SentOnTheMinute ==
    \A t \in DOMAIN task :
        task[t].schedule.mode # "once" =>
            /\ sent[t].count <= 1
            /\ \A k \in Ticks : Sends(k, t) => tick[k].now < MaxMinute

\* A running tick may still send a reminder of t.
Pending(k, t) ==
    \/ tick[k].pc = "lists"
    \/ tick[k].pc \in {"tasks", "send", "latch"} /\ ListOf[t] \in tick[k].todo
    \/ tick[k].pc = "send" /\ t \in DOMAIN tick[k].due

\* What was sent was sent before the minute of a tick that may still send it, and
\* before the minute the cron fires at next.
TimesFresh ==
    /\ \A t \in Tasks : sent[t].minute <= minute
    /\ \A k \in Ticks : tick[k] # Resting => tick[k].now <= minute
    /\ \A k \in Ticks, t \in Tasks :
          /\ Pending(k, t) => sent[t].minute < tick[k].now \/ tick[k].now = MaxMinute
          /\ Held(k, t) => ListOf[t] \notin tick[k].todo
    /\ \A c \in Crons :
          cron[c] \notin {0, MaxMinute} =>
              /\ \A t \in Tasks : sent[t].minute < cron[c]
              /\ \A k \in Ticks : tick[k] # Resting => tick[k].now < cron[c]

OnceInv == SentOnce /\ SentOnTheMinute /\ TimesFresh

LEMMA OnceInit == ASSUME RemindersAssumption, Init PROVE OnceInv
<1>1. SentOnce /\ SentOnTheMinute
  BY RestingType DEF Init, SentOnce, SentOnTheMinute, Sends, Unsent
<1>2. TimesFresh
  BY RestingType DEF Init, TimesFresh, Pending, Held, Unsent
<1> QED  BY <1>1, <1>2 DEF OnceInv

LEMMA SentType ==
    ASSUME TypeOK, NEW t \in Tasks
    PROVE  /\ sent[t].count \in Nat /\ sent[t].cut \in Nat
           /\ sent[t].minute \in Nat /\ sent[t].version \in Nat
BY DEF TypeOK, Sent

LEMMA TimeType ==
    ASSUME RemindersAssumption, TypeOK
    PROVE  /\ minute \in 1 .. MaxMinute /\ MaxMinute \in Nat /\ MaxMinute >= 1
           /\ \A c \in Crons : cron[c] \in 0 .. MaxMinute
           /\ DOMAIN task \subseteq Tasks
BY DEF RemindersAssumption, TypeOK

\* Steps of others than ticks leave the ticks alone.
LEMMA CountsKept ==
    ASSUME IInv, OnceInv, DOMAIN task' \subseteq DOMAIN task,
           \A t \in DOMAIN task' :
               task'[t].schedule = task[t].schedule /\ task'[t].last = task[t].last,
           UNCHANGED <<sent, tick>>
    PROVE  (SentOnce /\ SentOnTheMinute)'
BY DEF OnceInv, SentOnce, SentOnTheMinute, Sends, Latches

LEMMA TimesKept ==
    ASSUME RemindersAssumption, IInv, OnceInv, UNCHANGED <<minute, cron, sent, tick>>
    PROVE  TimesFresh'
BY DEF OnceInv, TimesFresh, Pending, Held

LEMMA OnceAdvance == ASSUME RemindersAssumption, IInv, OnceInv, Advance PROVE OnceInv'
<1>1. (SentOnce /\ SentOnTheMinute)'
  BY CountsKept DEF Advance, database
<1>2. \A t \in Tasks : sent[t].minute \in Nat
  BY SentType DEF IInv
<1>3. \A k \in Ticks : tick[k] # Resting => tick[k].now \in Nat
  BY TickType DEF IInv
<1>4. TimesFresh'
  BY <1>2, <1>3, TimeType DEF IInv, OnceInv, TimesFresh, Pending, Held, Advance
<1> QED  BY <1>1, <1>4 DEF OnceInv

LEMMA StatusChanged ==
    ASSUME IInv, NEW u \in Tasks, UpdateTaskStatus(u)
    PROVE  /\ DOMAIN task' = DOMAIN task
           /\ \A t \in DOMAIN task :
                 task'[t].schedule = task[t].schedule /\ task'[t].last = task[t].last
<1>1. PICK s : task' = [task EXCEPT ![u].status = s]
  BY DEF UpdateTaskStatus
<1>2. \A t \in DOMAIN task : task[t] \in Row
  BY DEF IInv, TypeOK
<1> QED  BY <1>1, <1>2 DEF Row

\* An edit sets a schedule that no tick has read.
LEMMA EditIs ==
    ASSUME IInv, NEW u \in Tasks, UpdateTaskFields(u)
    PROVE  /\ DOMAIN task' = DOMAIN task /\ u \in DOMAIN task
           /\ task'[u].schedule \in Schedules /\ task'[u].last = 0
           /\ \A t \in DOMAIN task \ {u} : task'[t] = task[t]
           /\ \A t \in Tasks \ {u} : sent'[t] = sent[t]
           /\ sent'[u].count = 0 /\ sent'[u].cut = 0 /\ sent'[u].minute = 0
           /\ sent'[u].crossed \in BOOLEAN
           /\ \A k \in Ticks : ~Sends(k, u)' /\ ~Latches(k, u)'
<1>1. PICK s \in Schedules : task' = [task EXCEPT ![u].schedule = s, ![u].last = 0]
  BY DEF UpdateTaskFields
<1>2. /\ DOMAIN task' = DOMAIN task /\ u \in DOMAIN task /\ tick' = tick
      /\ \A t \in DOMAIN task \ {u} : task'[t] = task[t]
  BY <1>1 DEF UpdateTaskFields
<1>3. task'[u].schedule = s /\ task'[u].last = 0
  <2>1. task[u] \in Row
    BY <1>2 DEF IInv, TypeOK
  <2>2. task'[u] = [task[u] EXCEPT !.schedule = s, !.last = 0]
    BY <1>1, <1>2
  <2> QED  BY <2>1, <2>2 DEF Row
<1> DEFINE fresh == Unsent(edits + 1, HeldByTick(u))
<1>4. /\ fresh.version = edits + 1 /\ fresh.count = 0 /\ fresh.cut = 0 /\ fresh.minute = 0
      /\ fresh.crossed \in BOOLEAN
  BY DEF Unsent, HeldByTick
<1> HIDE DEF fresh
<1>5. sent'[u] = fresh /\ \A t \in Tasks \ {u} : sent'[t] = sent[t]
  BY DEF IInv, TypeOK, UpdateTaskFields, fresh
<1>6. ASSUME NEW k \in Ticks, Sends(k, u)' \/ Latches(k, u)' PROVE FALSE
  <2>1. Held(k, u) /\ tick[k].due[u] = edits + 1
    BY <1>2, <1>4, <1>5, <1>6 DEF Held, Sends, Latches
  <2>2. edits \in Nat /\ tick[k].due[u] <= edits
    BY <2>1 DEF IInv, TypeOK, HoldsSound
  <2> QED  BY <2>1, <2>2
<1> QED  BY <1>2, <1>3, <1>4, <1>5, <1>6

LEMMA OnceRows == ASSUME RemindersAssumption, IInv, OnceInv, Rows PROVE OnceInv'
<1>1. UNCHANGED <<minute, cron, tick>>
  BY DEF Rows, SetListStatus, UpdateTaskStatus, DeleteTask, UpdateTaskFields
<1>2. ASSUME NEW l \in Lists, SetListStatus(l) PROVE OnceInv'
  <2>1. UNCHANGED sent
    BY <1>2 DEF SetListStatus
  <2>2. DOMAIN task' \subseteq DOMAIN task /\ \A t \in DOMAIN task' : task'[t] = task[t]
    BY <1>2 DEF SetListStatus, Restrict
  <2> QED  BY <1>1, <2>1, <2>2, CountsKept, TimesKept DEF OnceInv
<1>3. ASSUME NEW u \in Tasks, UpdateTaskStatus(u) PROVE OnceInv'
  <2>1. UNCHANGED sent
    BY <1>3 DEF UpdateTaskStatus
  <2> QED  BY <1>1, <1>3, <2>1, StatusChanged, CountsKept, TimesKept DEF OnceInv
<1>4. ASSUME NEW u \in Tasks, DeleteTask(u) PROVE OnceInv'
  <2>1. UNCHANGED sent
    BY <1>4 DEF DeleteTask
  <2>2. DOMAIN task' \subseteq DOMAIN task /\ \A t \in DOMAIN task' : task'[t] = task[t]
    BY <1>4 DEF DeleteTask, Restrict
  <2> QED  BY <1>1, <2>1, <2>2, CountsKept, TimesKept DEF OnceInv
<1>5. ASSUME NEW u \in Tasks, UpdateTaskFields(u) PROVE OnceInv'
  <2>1. /\ DOMAIN task' = DOMAIN task
        /\ \A t \in DOMAIN task \ {u} : task'[t] = task[t]
        /\ \A t \in Tasks \ {u} : sent'[t] = sent[t]
        /\ sent'[u].count = 0 /\ sent'[u].cut = 0 /\ sent'[u].minute = 0
        /\ \A k \in Ticks : ~Sends(k, u)'
    BY <1>5, EditIs
  <2>6. SentOnce'
    <3> SUFFICES ASSUME NEW t \in DOMAIN task', task'[t].schedule.mode = "once"
                 PROVE  /\ sent'[t].count <= 1 + sent'[t].cut
                        /\ task'[t].last = 0 =>
                              sent'[t].count <= sent'[t].cut \/ \E k \in Ticks : Latches(k, t)'
                        /\ \A k \in Ticks : Sends(k, t)' => sent'[t].count <= sent'[t].cut
      BY DEF SentOnce
    <3>1. CASE t = u
      BY <2>1, <3>1
    <3>2. CASE t # u
      BY <1>1, <2>1, <3>2, TimeType DEF IInv, OnceInv, SentOnce, Sends, Latches
    <3> QED  BY <3>1, <3>2
  <2>7. SentOnTheMinute'
    <3> SUFFICES ASSUME NEW t \in DOMAIN task', task'[t].schedule.mode # "once"
                 PROVE  /\ sent'[t].count <= 1
                        /\ \A k \in Ticks : Sends(k, t)' => tick'[k].now < MaxMinute
      BY DEF SentOnTheMinute
    <3>1. CASE t = u
      BY <2>1, <3>1
    <3>2. CASE t # u
      BY <1>1, <2>1, <3>2, TimeType DEF IInv, OnceInv, SentOnTheMinute, Sends
    <3> QED  BY <3>1, <3>2
  <2>8. TimesFresh'
    <3>1. \A t \in Tasks : sent'[t].minute \in {0, sent[t].minute}
      BY <2>1
    <3>2. \A k \in Ticks : tick[k] # Resting => tick[k].now >= 1
      BY TickType DEF IInv
    <3>3. \A k \in Ticks, t \in Tasks : Pending(k, t) => tick[k] # Resting
      BY RestingType DEF Pending
    <3>4. \A k \in Ticks, t \in Tasks :
             (Pending(k, t)' <=> Pending(k, t)) /\ (Held(k, t)' <=> Held(k, t))
      BY <1>1 DEF Pending, Held
    <3>5. \A t \in Tasks : sent[t].minute \in Nat
      BY SentType DEF IInv
    <3>6. \A k \in Ticks : tick[k] # Resting => tick[k].now \in Nat
      BY TickType DEF IInv
    <3>7. \A t \in Tasks : sent'[t].minute <= minute
      BY <3>1, <3>5, TimeType DEF IInv, OnceInv, TimesFresh
    <3>8. \A k \in Ticks, t \in Tasks :
             Pending(k, t) => sent'[t].minute < tick[k].now \/ tick[k].now = MaxMinute
      BY <3>1, <3>2, <3>3, <3>6 DEF OnceInv, TimesFresh
    <3>9. \A c \in Crons :
             cron[c] \notin {0, MaxMinute} => \A t \in Tasks : sent'[t].minute < cron[c]
      BY <3>1, TimeType DEF IInv, OnceInv, TimesFresh
    <3> QED  BY <1>1, <3>4, <3>7, <3>8, <3>9 DEF OnceInv, TimesFresh
  <2> QED  BY <2>6, <2>7, <2>8 DEF OnceInv
<1> QED  BY <1>2, <1>3, <1>4, <1>5 DEF Rows

\* A cron that starts fires at the next minute.
LEMMA CronStarts ==
    ASSUME RemindersAssumption, IInv, OnceInv, UNCHANGED <<minute, sent, tick>>,
           \A c \in Crons : cron'[c] \in {0, cron[c], NextMinute}
    PROVE  TimesFresh'
<1>1. \A t \in Tasks : sent[t].minute \in Nat
  BY SentType DEF IInv
<1>2. \A k \in Ticks : tick[k] # Resting => tick[k].now \in Nat
  BY TickType DEF IInv
<1>3. NextMinute = MaxMinute \/ NextMinute > minute
  BY NextMinuteType DEF IInv
<1> QED  BY <1>1, <1>2, <1>3, TimeType DEF IInv, OnceInv, TimesFresh, Pending, Held, NextMinute

LEMMA OnceCallers ==
    ASSUME RemindersAssumption, IInv, OnceInv,
           \/ \E g \in Conns : Connect(g)
           \/ Signal
           \/ \E g \in Callers : CallerStep(g)
    PROVE  OnceInv'
<1>1. UNCHANGED <<minute, task, sent, tick>>
  BY DEF Connect, Signal, CallerStep, StopCron, StopReturn, Start, database
<1>2. \A c \in Crons : cron'[c] \in {0, cron[c], NextMinute}
  BY DEF IInv, TypeOK, Connect, Signal, CallerStep, StopCron, StopReturn, Start
<1> QED  BY <1>1, <1>2, CountsKept, CronStarts DEF OnceInv
-----------------------------------------------------------------------------
LEMMA OnceFire ==
    ASSUME RemindersAssumption, IInv, OnceInv, NEW c \in Crons, NEW k, Ticks = {k}, Fire(c, k)
    PROVE  OnceInv'
<1>1. /\ cron[c] # 0 /\ minute >= cron[c] /\ tick[k] = Resting
      /\ cron' = [cron EXCEPT ![c] = NextMinute]
      /\ tick' = [tick EXCEPT ![k] = [pc |-> "lists", cron |-> c, now |-> minute]]
      /\ UNCHANGED <<minute, database, scheduler, caller, edits, exits, sent>>
  BY DEF Fire
<1>2. tick'[k].pc = "lists" /\ tick'[k].now = minute
  BY <1>1 DEF IInv, TypeOK
<1>3. (SentOnce /\ SentOnTheMinute)'
  BY <1>1, <1>2, RestingType DEF OnceInv, SentOnce, SentOnTheMinute, Sends, Latches, database
<1>4. \A d \in Crons \ {c} : cron'[d] = 0
  BY <1>1 DEF IInv, TypeOK, CronOwned
<1>5. cron'[c] = MaxMinute \/ cron'[c] > minute
  BY <1>1, NextMinuteType DEF IInv, TypeOK
<1>6. \A t \in Tasks : sent[t].minute \in Nat
  BY SentType DEF IInv
<1>7. \A t \in Tasks : sent[t].minute < minute \/ minute = MaxMinute
  BY <1>1, <1>6, TimeType DEF IInv, OnceInv, TimesFresh
<1>8. \A t \in Tasks : ~Held(k, t)'
  BY <1>2 DEF Held
<1>9. \A t \in Tasks : sent'[t].minute <= minute' /\ sent'[t] = sent[t]
  BY <1>1 DEF OnceInv, TimesFresh
<1>10. \A d \in Crons :
          cron'[d] \notin {0, MaxMinute} => minute < cron'[d]
  BY <1>4, <1>5
<1>11. \A d \in Crons : cron'[d] \in Nat
  BY <1>4, <1>1, NextMinuteType DEF IInv, TypeOK
<1>12. TimesFresh'
  BY <1>1, <1>2, <1>6, <1>7, <1>8, <1>9, <1>10, <1>11, TimeType DEF IInv, TimesFresh
<1> QED  BY <1>3, <1>12 DEF OnceInv

\* A tick that goes on without sending
LEMMA TimesTick ==
    ASSUME RemindersAssumption, IInv, OnceInv, NEW k, Ticks = {k},
           UNCHANGED <<minute, cron, sent>>,
           tick[k] # Resting,
           tick'[k] # Resting => tick'[k].now = tick[k].now,
           \A t \in Tasks : Pending(k, t)' => Pending(k, t) /\ tick'[k] # Resting,
           \A t \in Tasks : Held(k, t)' => ListOf[t] \notin tick'[k].todo
    PROVE  TimesFresh'
BY DEF OnceInv, TimesFresh

LEMMA OnceRead ==
    ASSUME RemindersAssumption, IInv, OnceInv, NEW k, Ticks = {k},
           GetAllActiveLists(k) \/ SendFails(k) \/ TickEnds(k)
    PROVE  OnceInv'
<1>1. /\ UNCHANGED <<minute, database, cron, sent>>
      /\ tick[k].pc \in {"lists", "send", "tasks"}
  BY DEF GetAllActiveLists, SendFails, TickEnds
<1>2. tick[k] # Resting
  BY <1>1, RestingType
<1>3. \/ /\ tick'[k].pc = "tasks" /\ tick'[k].now = tick[k].now
         /\ tick[k].pc = "lists" \/ tick'[k].todo = tick[k].todo
      \/ tick'[k] = Resting
  BY DEF GetAllActiveLists, SendFails, TickEnds, IInv, TypeOK, Local, ToTasks
<1>4. \A t : ~Sends(k, t)' /\ ~Latches(k, t)' /\ ~Held(k, t)' /\ ~Latches(k, t)
  BY <1>1, <1>3, RestingType DEF Sends, Latches, Held
<1>5. (SentOnce /\ SentOnTheMinute)'
  BY <1>1, <1>4 DEF OnceInv, SentOnce, SentOnTheMinute, database
<1>6. \A t \in Tasks : Pending(k, t)' => Pending(k, t) /\ tick'[k] # Resting
  BY <1>1, <1>3, RestingType, TickType DEF IInv, Pending
<1> QED  BY <1>1, <1>2, <1>3, <1>4, <1>5, <1>6, TimesTick DEF OnceInv

\* Recurring schedules match no minute after the last one told apart.
LEMMA DueWhen ==
    ASSUME RemindersAssumption, IInv, NEW l, NEW now, NEW t \in DueTasks(l, now)
    PROVE  /\ t \in DOMAIN task /\ t \in Tasks /\ ListOf[t] = l
           /\ task[t].schedule.mode = "once" => task[t].last = 0
           /\ task[t].schedule.mode # "once" => now < MaxMinute
<1>1. t \in DOMAIN task /\ t \in Tasks /\ ListOf[t] = l /\ taskDue(task[t], now)
  BY DEF DueTasks, IInv, TypeOK
<1>2. task[t].schedule \in Schedules
  BY <1>1 DEF IInv, TypeOK, Row
<1>3. CASE task[t].schedule.mode = "once"
  BY <1>1, <1>3 DEF taskDue
<1>4. CASE task[t].schedule.mode # "once"
  <2>1. task[t].schedule.mode = "cron" /\ now \in task[t].schedule.minutes
    BY <1>1, <1>4 DEF taskDue
  <2>2. PICK ms \in SUBSET (1 .. MaxMinute - 1) : task[t].schedule = Cron(ms)
    BY <1>2, <2>1 DEF RemindersAssumption, None, Once
  <2>3. task[t].schedule.minutes = ms
    BY <2>2 DEF Cron
  <2>4. now \in 1 .. MaxMinute - 1
    BY <2>1, <2>2, <2>3
  <2> QED  BY <1>1, <1>4, <2>4 DEF RemindersAssumption
<1> QED  BY <1>3, <1>4, <1>1

LEMMA OnceDue ==
    ASSUME RemindersAssumption, IInv, OnceInv, NEW k, Ticks = {k}, GetTasksByList(k)
    PROVE  OnceInv'
<1>1. PICK l \in tick[k].todo :
         LET due  == DueTasks(l, tick[k].now)
             todo == tick[k].todo \ {l}
         IN  Local(k, IF due = {}
                      THEN ToTasks(k, todo)
                      ELSE [pc |-> "send", cron |-> tick[k].cron, now |-> tick[k].now,
                            todo |-> todo, list |-> l,
                            due |-> [t \in due |-> sent[t].version]])
  BY DEF GetTasksByList
<1>2. /\ UNCHANGED <<minute, database, cron, sent>>
      /\ tick[k].pc = "tasks" /\ tick[k] # Resting /\ k \in Ticks
  BY RestingType DEF GetTasksByList
<1>3. /\ tick'[k].now = tick[k].now /\ tick'[k].todo = tick[k].todo \ {l}
      /\ tick'[k].pc \in {"tasks", "send"}
      /\ tick'[k].pc = "send" => DOMAIN tick'[k].due = DueTasks(l, tick[k].now)
  BY <1>1, <1>2 DEF IInv, TypeOK, Local, ToTasks
<1>4. \A t : Sends(k, t)' => t \in DueTasks(l, tick[k].now)
  BY <1>3 DEF Sends
<1>5. \A t : ~Latches(k, t)' /\ ~Latches(k, t) /\ ~Sends(k, t)
  BY <1>2, <1>3 DEF Sends, Latches
<1>6. SentOnce'
  BY <1>2, <1>4, <1>5, DueWhen DEF OnceInv, SentOnce, database
<1>7. SentOnTheMinute'
  BY <1>2, <1>3, <1>4, DueWhen DEF OnceInv, SentOnTheMinute, database
<1>8. tick'[k] # Resting
  BY <1>3, RestingType
<1>9. \A t \in Tasks : Pending(k, t)' => Pending(k, t)
  BY <1>1, <1>2, <1>3, DueWhen DEF Pending
<1>10. \A t \in Tasks : Held(k, t)' => ListOf[t] \notin tick'[k].todo
  BY <1>3, DueWhen DEF Held
<1> QED  BY <1>2, <1>3, <1>6, <1>7, <1>8, <1>9, <1>10, TimesTick DEF OnceInv

LEMMA OnceSend ==
    ASSUME RemindersAssumption, IInv, OnceInv, NEW k, Ticks = {k}, SendSucceeds(k)
    PROVE  OnceInv'
<1>1. /\ tick[k].pc = "send" /\ tick[k] # Resting /\ k \in Ticks
      /\ sent' = Counted(k)
      /\ UNCHANGED <<minute, database, cron>>
  BY RestingType DEF SendSucceeds
<1>2. /\ tick'[k].pc = "latch" /\ tick'[k].now = tick[k].now /\ tick'[k].todo = tick[k].todo
      /\ tick'[k].due = tick[k].due
  <2>1. /\ tick' = [tick EXCEPT ![k] = [tick[k] EXCEPT !.pc = "latch"]]
        /\ tick[k] \in [pc : {"send", "latch"}, cron : Crons, now : 1 .. MaxMinute,
                        todo : SUBSET Lists, list : Lists, due : Due]
    BY <1>1, TickType DEF IInv, SendSucceeds, Local
  <2> QED  BY <1>1, <2>1 DEF IInv, TypeOK
<1>3. \A t \in Tasks : sent'[t].version = sent[t].version /\ sent'[t].cut = sent[t].cut
  BY <1>1, CountedIs DEF IInv
<1>4. \A t \in Tasks : ~(Sends(k, t) /\ t \in DOMAIN task) => sent'[t] = sent[t]
  BY <1>1, CountedIs DEF IInv, Sends
<1>5. \A t \in Tasks :
         Sends(k, t) /\ t \in DOMAIN task =>
             /\ sent'[t].minute = tick[k].now
             /\ sent'[t].count =
                   IF task[t].schedule.mode = "once" \/ sent[t].minute = tick[k].now
                   THEN sent[t].count + 1 ELSE 1
  BY <1>1, CountedIs DEF IInv, Sends
<1>6. \A t \in Tasks : (Latches(k, t)' <=> Sends(k, t)) /\ ~Sends(k, t)' /\ ~Latches(k, t)
  BY <1>1, <1>2, <1>3 DEF Sends, Latches
<1>7. tick[k].now \in 1 .. MaxMinute /\ \A t \in Tasks : sent[t].minute \in Nat
  BY <1>1, TickType, SentType DEF IInv
<1>8. SentOnce'
  <2> SUFFICES ASSUME NEW t \in DOMAIN task, task[t].schedule.mode = "once"
               PROVE  /\ sent'[t].count <= 1 + sent'[t].cut
                      /\ task[t].last = 0 =>
                            sent'[t].count <= sent'[t].cut \/ \E i \in Ticks : Latches(i, t)'
                      /\ \A i \in Ticks : ~Sends(i, t)'
    BY <1>1 DEF SentOnce, database
  <2>1. t \in Tasks /\ sent[t].count \in Nat /\ sent[t].cut \in Nat
    BY TimeType, SentType DEF IInv
  <2>2. CASE Sends(k, t)
    <3>1. sent[t].count <= sent[t].cut
      BY <1>1, <2>2 DEF OnceInv, SentOnce
    <3>2. sent'[t].count = sent[t].count + 1
      BY <1>5, <2>1, <2>2
    <3> QED  BY <1>1, <1>3, <1>6, <2>1, <2>2, <3>1, <3>2
  <2>3. CASE ~Sends(k, t)
    <3>1. sent'[t] = sent[t]
      BY <1>4, <2>1, <2>3
    <3>2. \A i \in Ticks : ~Latches(i, t)
      BY <1>6, <2>1
    <3> QED  BY <1>6, <2>1, <3>1, <3>2 DEF OnceInv, SentOnce
  <2> QED  BY <2>2, <2>3
<1>9. SentOnTheMinute'
  <2> SUFFICES ASSUME NEW t \in DOMAIN task, task[t].schedule.mode # "once"
               PROVE  sent'[t].count <= 1 /\ \A i \in Ticks : ~Sends(i, t)'
    BY <1>1 DEF SentOnTheMinute, database
  <2>1. t \in Tasks
    BY TimeType DEF IInv
  <2>2. CASE Sends(k, t)
    <3>1. tick[k].now < MaxMinute
      BY <1>1, <2>2 DEF OnceInv, SentOnTheMinute
    <3>2. Pending(k, t)
      BY <2>2 DEF Sends, Pending
    <3>3. sent[t].minute # tick[k].now
      BY <1>1, <1>7, <2>1, <3>1, <3>2, TimeType DEF IInv, OnceInv, TimesFresh
    <3> QED  BY <1>5, <1>6, <2>1, <2>2, <3>3
  <2>3. CASE ~Sends(k, t)
    BY <1>4, <1>6, <2>1, <2>3 DEF OnceInv, SentOnTheMinute
  <2> QED  BY <2>2, <2>3
<1>10. TimesFresh'
  <2>1. \A t \in Tasks :
           sent'[t] = sent[t] \/ (sent'[t].minute = tick[k].now /\ t \in DOMAIN tick[k].due)
    BY <1>4, <1>5 DEF Sends
  <2>2. \A t \in Tasks : (Held(k, t) <=> Held(k, t)') /\ (Held(k, t) <=> t \in DOMAIN tick[k].due)
    BY <1>1, <1>2 DEF Held
  <2>3. \A t \in Tasks : Pending(k, t)' => Pending(k, t) /\ ListOf[t] \in tick[k].todo
    BY <1>1, <1>2 DEF Pending
  <2>4. \A t \in Tasks : Held(k, t) => ListOf[t] \notin tick[k].todo
    BY <1>1 DEF OnceInv, TimesFresh
  <2>5. \A t \in Tasks : Pending(k, t)' => sent'[t] = sent[t]
    BY <2>1, <2>2, <2>3, <2>4
  <2>6. tick'[k] # Resting
    BY <1>2, RestingType
  <2>7. tick[k].now <= minute
    BY <1>1 DEF OnceInv, TimesFresh
  <2>8. \A t \in Tasks : sent'[t].minute <= minute
    BY <2>1, <2>7 DEF OnceInv, TimesFresh
  <2>9. \A c \in Crons : cron[c] \notin {0, MaxMinute} =>
           /\ \A t \in Tasks : sent'[t].minute < cron[c]
           /\ tick[k].now < cron[c]
    BY <1>1, <2>1 DEF OnceInv, TimesFresh
  <2>10. \A t \in Tasks :
            Pending(k, t)' => sent'[t].minute < tick'[k].now \/ tick'[k].now = MaxMinute
    BY <1>1, <1>2, <2>3, <2>5 DEF OnceInv, TimesFresh
  <2> QED  BY <1>1, <1>2, <2>2, <2>4, <2>7, <2>8, <2>9, <2>10 DEF TimesFresh
<1> QED  BY <1>8, <1>9, <1>10 DEF OnceInv

LEMMA OnceLatch ==
    ASSUME RemindersAssumption, IInv, OnceInv, NEW k, Ticks = {k}, UpdateTaskLastReminded(k)
    PROVE  OnceInv'
<1>1. /\ tick[k].pc = "latch" /\ tick[k] # Resting /\ k \in Ticks
      /\ UNCHANGED <<minute, cron, sent>>
  BY RestingType DEF UpdateTaskLastReminded
<1>2. PICK t \in DOMAIN tick[k].due :
         /\ t \in Tasks
         /\ task' = IF t \in DOMAIN task THEN [task EXCEPT ![t].last = tick[k].now] ELSE task
         /\ tick'[k].now = tick[k].now
         /\ tick'[k].todo = tick[k].todo
         /\ \/ tick'[k].pc = "tasks" /\ DOMAIN tick[k].due = {t}
            \/ /\ tick'[k].pc = "latch"
               /\ DOMAIN tick'[k].due = DOMAIN tick[k].due \ {t}
               /\ \A u \in DOMAIN tick'[k].due : tick'[k].due[u] = tick[k].due[u]
  BY <1>1, LatchGoes
<1>3. tick[k].now \in 1 .. MaxMinute
  BY <1>1, TickType DEF IInv
<1>4. /\ DOMAIN task' = DOMAIN task
      /\ \A u \in DOMAIN task \ {t} : task'[u] = task[u]
      /\ t \in DOMAIN task => task'[t].schedule = task[t].schedule /\ task'[t].last # 0
  <2>1. \A u \in DOMAIN task : task[u] \in Row
    BY DEF IInv, TypeOK
  <2>2. CASE t \in DOMAIN task
    <3>1. task' = [task EXCEPT ![t] = [task[t] EXCEPT !.last = tick[k].now]]
      BY <1>2, <2>2
    <3>2. /\ [task[t] EXCEPT !.last = tick[k].now].last = tick[k].now
          /\ [task[t] EXCEPT !.last = tick[k].now].schedule = task[t].schedule
      BY <2>1, <2>2 DEF Row
    <3> DEFINE row == [task[t] EXCEPT !.last = tick[k].now]
    <3>3. row.last # 0 /\ row.schedule = task[t].schedule
      BY <1>3, <3>2
    <3> HIDE DEF row
    <3>4. task' = [task EXCEPT ![t] = row]
      BY <3>1 DEF row
    <3> QED  BY <2>2, <3>3, <3>4
  <2>3. CASE t \notin DOMAIN task
    BY <1>2, <2>3
  <2> QED  BY <2>2, <2>3
<1>5. \A u : u # t /\ Latches(k, u) => Latches(k, u)'
  BY <1>1, <1>2 DEF Latches
<1>6. \A u : ~Sends(k, u)'
  BY <1>2 DEF Sends
<1>7. SentOnce'
  BY <1>1, <1>4, <1>5, <1>6 DEF OnceInv, SentOnce
<1>8. SentOnTheMinute'
  BY <1>1, <1>4, <1>6 DEF OnceInv, SentOnTheMinute
<1>9. \A u \in Tasks : Pending(k, u)' => Pending(k, u)
  BY <1>1, <1>2 DEF Pending
<1>10. \A u \in Tasks : Held(k, u)' => ListOf[u] \notin tick'[k].todo
  <2>1. \A u \in Tasks : Held(k, u) => ListOf[u] \notin tick[k].todo
    BY <1>1 DEF OnceInv, TimesFresh
  <2> QED  BY <1>1, <1>2, <2>1 DEF Held
<1>11. tick'[k] # Resting
  BY <1>2, RestingType
<1> QED  BY <1>1, <1>2, <1>7, <1>8, <1>9, <1>10, <1>11, TimesTick DEF OnceInv

LEMMA OnceEnds ==
    ASSUME RemindersAssumption, IInv, OnceInv, NEW k, Ticks = {k}, ProcessEnds
    PROVE  OnceInv'
<1>1. /\ UNCHANGED <<minute, task>> /\ tick'[k] = Resting
      /\ \A c \in Crons : cron'[c] = 0
  BY DEF ProcessEnds, database
<1>2. \A t : ~Sends(k, t)' /\ ~Held(k, t)' /\ ~Pending(k, t)'
  BY <1>1, RestingType DEF Sends, Held, Pending
<1>3. \A t \in Tasks :
         /\ sent'[t].count = sent[t].count /\ sent'[t].minute = sent[t].minute
         /\ sent'[t].cut = IF Latches(k, t) THEN sent[t].cut + 1 ELSE sent[t].cut
  BY CutIs DEF Latches
<1>4. \A t \in DOMAIN task :
         t \in Tasks /\ sent[t].count \in Nat /\ sent[t].cut \in Nat
  BY TimeType, SentType DEF IInv
<1>5. SentOnce'
  BY <1>1, <1>2, <1>3, <1>4 DEF OnceInv, SentOnce
<1>6. SentOnTheMinute'
  BY <1>1, <1>2, <1>3, <1>4 DEF OnceInv, SentOnTheMinute
<1>7. TimesFresh'
  BY <1>1, <1>2, <1>3 DEF OnceInv, TimesFresh
<1> QED  BY <1>5, <1>6, <1>7 DEF OnceInv

LEMMA OnceStep ==
    ASSUME RemindersAssumption, IInv, OnceInv, NEW k, Ticks = {k}, [Next]_vars
    PROVE  OnceInv'
<1>1. CASE UNCHANGED vars
  BY <1>1, CountsKept, TimesKept DEF OnceInv, vars
<1>2. CASE TickStep(k)
  BY <1>2, OnceRead, OnceDue, OnceSend, OnceLatch DEF TickStep
<1>3. CASE Crash \/ Shutdown
  BY <1>3, OnceEnds DEF Crash, Shutdown
<1> QED  BY <1>1, <1>2, <1>3, OnceAdvance, OnceRows, OnceCallers, OnceFire DEF Next

\* A schedule set once is kept once, if no tick outlasts a minute: whatever edits,
\* status changes, reconnects and process ends come in between, a one-shot reminder
\* is sent once, and again only for a process that ended before the latch; a
\* recurring one once in its minute.
THEOREM RemindedAtMostOnce == ASSUME NEW k, Ticks = {k} PROVE Spec => []AtMostOnce
<1>1. Init => OnceInv
  BY OnceInit, RemindersAssumption
<1>2. IInv /\ OnceInv /\ [Next]_vars => OnceInv'
  BY OnceStep, RemindersAssumption
<1>3. OnceInv => AtMostOnce
  BY DEF OnceInv, SentOnce, SentOnTheMinute, AtMostOnce
<1> QED  BY <1>1, <1>2, <1>3, Invariance, PTL DEF Spec
-----------------------------------------------------------------------------
\* Each one-shot reminder is a OneShotReminder, when no tick outlasts a minute.

\* What a tick is about to send is due and not latched; what it is about to latch
\* was sent, by a process that has not ended since.
HeldInTime ==
    \A t \in DOMAIN task :
        task[t].schedule.mode = "once" =>
            /\ sent[t].cut <= sent[t].count
            /\ \A k \in Ticks :
                  /\ Sends(k, t) => task[t].last = 0 /\ task[t].schedule.at <= minute
                  /\ Latches(k, t) => task[t].last = 0 /\ sent[t].cut < sent[t].count

LEMMA OnceSchedule ==
    ASSUME RemindersAssumption, NEW s \in Schedules, s.mode = "once"
    PROVE  s.at \in 1 .. MaxMinute
<1>1. s \in {None} \cup {Once(m) : m \in 1 .. MaxMinute}
             \cup {Cron(ms) : ms \in SUBSET (1 .. MaxMinute - 1)}
  BY DEF RemindersAssumption
<1>2. s # None /\ \A ms : s # Cron(ms)
  BY DEF None, Cron
<1>3. PICK m \in 1 .. MaxMinute : s = Once(m)
  BY <1>1, <1>2
<1> QED  BY <1>3 DEF Once

LEMMA OneShotType ==
    ASSUME RemindersAssumption, TypeOK, NEW t \in DOMAIN task, task[t].schedule.mode = "once"
    PROVE  task[t].schedule.at \in 1 .. MaxMinute /\ task[t].schedule.at \in Nat
<1>1. task[t].schedule \in Schedules
  BY DEF TypeOK, Row
<1>2. task[t].schedule.at \in 1 .. MaxMinute
  BY <1>1, OnceSchedule
<1>3. MaxMinute \in Nat
  BY DEF RemindersAssumption
<1> QED  BY <1>2, <1>3

LEMMA HeldInit == ASSUME Init PROVE HeldInTime
BY RestingType DEF Init, HeldInTime, Sends, Latches, Unsent

\* Steps of others than ticks leave the ticks alone.
LEMMA HeldKept ==
    ASSUME RemindersAssumption, IInv, HeldInTime, DOMAIN task' \subseteq DOMAIN task,
           \A t \in DOMAIN task' :
               task'[t].schedule = task[t].schedule /\ task'[t].last = task[t].last,
           UNCHANGED <<sent, tick>>, minute' \in Nat, minute <= minute'
    PROVE  HeldInTime'
<1>1. \A t \in DOMAIN task : task[t].schedule.mode = "once" => task[t].schedule.at \in Nat
  BY OneShotType DEF IInv
<1>2. minute \in Nat
  BY TimeType DEF IInv
<1>3. ASSUME NEW t \in DOMAIN task', task'[t].schedule.mode = "once"
      PROVE  /\ sent'[t].cut <= sent'[t].count
             /\ \A k \in Ticks :
                   /\ Sends(k, t)' => task'[t].last = 0 /\ task'[t].schedule.at <= minute'
                   /\ Latches(k, t)' => task'[t].last = 0 /\ sent'[t].cut < sent'[t].count
  <2>1. \A k \in Ticks : (Sends(k, t)' <=> Sends(k, t)) /\ (Latches(k, t)' <=> Latches(k, t))
    BY DEF Sends, Latches
  <2>2. task'[t].schedule = task[t].schedule /\ task'[t].last = task[t].last /\ t \in DOMAIN task
    OBVIOUS
  <2>3. task[t].schedule.at <= minute => task[t].schedule.at <= minute'
    BY <1>1, <1>2, <1>3, <2>2
  <2> QED  BY <1>3, <2>1, <2>2, <2>3 DEF HeldInTime
<1> QED  BY <1>3 DEF HeldInTime

\* A tick that holds nothing after a step
LEMMA HeldNone ==
    ASSUME HeldInTime, NEW k, Ticks = {k}, tick'[k].pc \notin {"send", "latch"},
           UNCHANGED <<task, sent>>
    PROVE  HeldInTime'
BY DEF HeldInTime, Sends, Latches

LEMMA HeldRows == ASSUME RemindersAssumption, IInv, HeldInTime, Rows PROVE HeldInTime'
<1>1. UNCHANGED <<minute, tick>> /\ minute' \in Nat /\ minute <= minute'
  <2>1. UNCHANGED <<minute, tick>>
    BY DEF Rows, SetListStatus, UpdateTaskStatus, DeleteTask, UpdateTaskFields
  <2>2. minute \in Nat
    BY TimeType DEF IInv
  <2> QED  BY <2>1, <2>2
<1>2. ASSUME NEW l \in Lists, SetListStatus(l) PROVE HeldInTime'
  <2>1. DOMAIN task' \subseteq DOMAIN task /\ \A t \in DOMAIN task' : task'[t] = task[t]
    BY <1>2 DEF SetListStatus, Restrict
  <2> QED  BY <1>1, <1>2, <2>1, HeldKept DEF SetListStatus
<1>3. ASSUME NEW u \in Tasks, UpdateTaskStatus(u) PROVE HeldInTime'
  <2>1. /\ DOMAIN task' = DOMAIN task
        /\ \A t \in DOMAIN task :
              task'[t].schedule = task[t].schedule /\ task'[t].last = task[t].last
    BY <1>3, StatusChanged
  <2> QED  BY <1>1, <1>3, <2>1, HeldKept DEF UpdateTaskStatus
<1>4. ASSUME NEW u \in Tasks, DeleteTask(u) PROVE HeldInTime'
  <2>1. DOMAIN task' \subseteq DOMAIN task /\ \A t \in DOMAIN task' : task'[t] = task[t]
    BY <1>4 DEF DeleteTask, Restrict
  <2> QED  BY <1>1, <1>4, <2>1, HeldKept DEF DeleteTask
<1>5. ASSUME NEW u \in Tasks, UpdateTaskFields(u) PROVE HeldInTime'
  <2>1. /\ DOMAIN task' = DOMAIN task
        /\ \A t \in DOMAIN task \ {u} : task'[t] = task[t] /\ sent'[t] = sent[t]
        /\ sent'[u].count = 0 /\ sent'[u].cut = 0
        /\ \A k \in Ticks : ~Sends(k, u)' /\ ~Latches(k, u)'
    BY <1>5, EditIs, TimeType DEF IInv
  <2>2. \A k \in Ticks, t \in DOMAIN task \ {u} :
           (Sends(k, t)' <=> Sends(k, t)) /\ (Latches(k, t)' <=> Latches(k, t))
    BY <1>1, <2>1 DEF Sends, Latches
  <2> QED  BY <1>1, <2>1, <2>2 DEF HeldInTime
<1> QED  BY <1>2, <1>3, <1>4, <1>5 DEF Rows

LEMMA HeldDue ==
    ASSUME RemindersAssumption, IInv, OnceInv, HeldInTime, NEW k, Ticks = {k}, GetTasksByList(k)
    PROVE  HeldInTime'
<1>1. PICK l \in tick[k].todo :
         LET due  == DueTasks(l, tick[k].now)
             todo == tick[k].todo \ {l}
         IN  Local(k, IF due = {}
                      THEN ToTasks(k, todo)
                      ELSE [pc |-> "send", cron |-> tick[k].cron, now |-> tick[k].now,
                            todo |-> todo, list |-> l,
                            due |-> [t \in due |-> sent[t].version]])
  BY DEF GetTasksByList
<1>2. UNCHANGED <<minute, task, sent>> /\ tick[k].pc = "tasks" /\ tick[k] # Resting /\ k \in Ticks
  BY RestingType DEF GetTasksByList, database
<1>3. /\ tick'[k].pc \in {"tasks", "send"}
      /\ tick'[k].pc = "send" => DOMAIN tick'[k].due = DueTasks(l, tick[k].now)
  BY <1>1, <1>2 DEF IInv, TypeOK, Local, ToTasks
<1>4. tick[k].now <= minute /\ tick[k].now \in Nat /\ minute \in Nat
  BY <1>2, TickType, TimeType DEF IInv, OnceInv, TimesFresh
<1>5. ASSUME NEW t \in DOMAIN task, task[t].schedule.mode = "once", Sends(k, t)'
      PROVE  task[t].last = 0 /\ task[t].schedule.at <= minute
  <2>1. taskDue(task[t], tick[k].now)
    BY <1>3, <1>5 DEF Sends, DueTasks
  <2>2. task[t].last = 0 /\ task[t].schedule.at <= tick[k].now
    BY <1>5, <2>1 DEF taskDue
  <2>3. task[t].schedule.at \in Nat
    BY <1>5, OneShotType DEF IInv
  <2> QED  BY <1>4, <2>2, <2>3
<1>6. \A t : ~Latches(k, t)'
  BY <1>3 DEF Latches
<1> QED  BY <1>2, <1>5, <1>6 DEF HeldInTime

\* What becomes of a one-shot reminder when a message is sent
LEMMA SendIs ==
    ASSUME RemindersAssumption, IInv, NEW k, Ticks = {k}, SendSucceeds(k)
    PROVE  /\ UNCHANGED <<minute, task>>
           /\ \A t \in Tasks :
                 /\ sent'[t].cut = sent[t].cut /\ sent'[t].crossed = sent[t].crossed
                 /\ (Latches(k, t)' <=> Sends(k, t)) /\ ~Sends(k, t)'
                 /\ ~(Sends(k, t) /\ t \in DOMAIN task) => sent'[t] = sent[t]
                 /\ Sends(k, t) /\ t \in DOMAIN task /\ task[t].schedule.mode = "once" =>
                       sent'[t].count = sent[t].count + 1
<1>1. /\ tick[k].pc = "send" /\ tick[k] # Resting /\ k \in Ticks
      /\ sent' = Counted(k)
      /\ UNCHANGED <<minute, task>>
  BY RestingType DEF SendSucceeds, database
<1>2. tick'[k].pc = "latch" /\ tick'[k].due = tick[k].due
  <2>1. /\ tick' = [tick EXCEPT ![k] = [tick[k] EXCEPT !.pc = "latch"]]
        /\ tick[k] \in [pc : {"send", "latch"}, cron : Crons, now : 1 .. MaxMinute,
                        todo : SUBSET Lists, list : Lists, due : Due]
    BY <1>1, TickType DEF IInv, SendSucceeds, Local
  <2> QED  BY <1>1, <2>1 DEF IInv, TypeOK
<1>3. \A t \in Tasks :
         /\ sent'[t].version = sent[t].version
         /\ sent'[t].cut = sent[t].cut /\ sent'[t].crossed = sent[t].crossed
         /\ ~(Sends(k, t) /\ t \in DOMAIN task) => sent'[t] = sent[t]
         /\ Sends(k, t) /\ t \in DOMAIN task /\ task[t].schedule.mode = "once" =>
               sent'[t].count = sent[t].count + 1
  BY <1>1, CountedIs DEF IInv, Sends
<1>4. \A t \in Tasks : (Latches(k, t)' <=> Sends(k, t)) /\ ~Sends(k, t)'
  BY <1>1, <1>2, <1>3 DEF Sends, Latches
<1> QED  BY <1>1, <1>3, <1>4

LEMMA HeldSend ==
    ASSUME RemindersAssumption, IInv, HeldInTime, NEW k, Ticks = {k}, SendSucceeds(k)
    PROVE  HeldInTime'
<1>1. \A t \in DOMAIN task :
         t \in Tasks /\ sent[t].count \in Nat /\ sent[t].cut \in Nat /\ ~Latches(k, t)
  BY TimeType, SentType DEF IInv, SendSucceeds, Latches
<1> QED  BY <1>1, SendIs DEF HeldInTime

\* What becomes of a task when a reminder is latched
LEMMA LatchIs ==
    ASSUME IInv, NEW k, Ticks = {k}, UpdateTaskLastReminded(k)
    PROVE  /\ UNCHANGED <<minute, sent>> /\ DOMAIN task' = DOMAIN task
           /\ \A t : ~Sends(k, t)' /\ (Latches(k, t)' => Latches(k, t))
           /\ \E u \in Tasks :
                 /\ tick[k].pc = "latch" /\ u \in DOMAIN tick[k].due /\ ~Latches(k, u)'
                 /\ \A t \in DOMAIN task \ {u} : task'[t] = task[t]
                 /\ u \in DOMAIN task => task'[u].schedule = task[u].schedule /\ task'[u].last # 0
<1>1. tick[k].pc = "latch" /\ tick[k] # Resting /\ k \in Ticks /\ UNCHANGED <<minute, sent>>
  BY RestingType DEF UpdateTaskLastReminded
<1>2. PICK u \in DOMAIN tick[k].due :
         /\ u \in Tasks
         /\ task' = IF u \in DOMAIN task THEN [task EXCEPT ![u].last = tick[k].now] ELSE task
         /\ \/ tick'[k].pc = "tasks" /\ DOMAIN tick[k].due = {u}
            \/ /\ tick'[k].pc = "latch"
               /\ DOMAIN tick'[k].due = DOMAIN tick[k].due \ {u}
               /\ \A t \in DOMAIN tick'[k].due : tick'[k].due[t] = tick[k].due[t]
  BY <1>1, LatchGoes
<1>3. /\ DOMAIN task' = DOMAIN task
      /\ \A t \in DOMAIN task \ {u} : task'[t] = task[t]
      /\ u \in DOMAIN task => task'[u].schedule = task[u].schedule /\ task'[u].last # 0
  <2>1. tick[k].now \in 1 .. MaxMinute
    BY <1>1, TickType DEF IInv
  <2>2. CASE u \in DOMAIN task
    <3>1. task[u] \in Row /\ task'[u] = [task[u] EXCEPT !.last = tick[k].now]
      BY <1>2, <2>2 DEF IInv, TypeOK
    <3>2. task'[u].last = tick[k].now /\ task'[u].schedule = task[u].schedule
      BY <3>1 DEF Row
    <3>3. tick[k].now # 0
      BY <2>1
    <3> QED  BY <1>2, <2>2, <3>2, <3>3
  <2>3. CASE u \notin DOMAIN task
    BY <1>2, <2>3
  <2> QED  BY <2>2, <2>3
<1>4. \A t : ~Sends(k, t)' /\ (Latches(k, t)' => Latches(k, t) /\ t # u)
  BY <1>1, <1>2 DEF Sends, Latches
<1> QED  BY <1>1, <1>2, <1>3, <1>4

LEMMA HeldLatch ==
    ASSUME IInv, HeldInTime, NEW k, Ticks = {k}, UpdateTaskLastReminded(k)
    PROVE  HeldInTime'
<1>1. PICK u \in Tasks :
         /\ ~Latches(k, u)'
         /\ \A t \in DOMAIN task \ {u} : task'[t] = task[t]
         /\ u \in DOMAIN task => task'[u].schedule = task[u].schedule
  BY LatchIs
<1> QED  BY <1>1, LatchIs DEF HeldInTime

LEMMA HeldEnds ==
    ASSUME RemindersAssumption, IInv, HeldInTime, NEW k, Ticks = {k}, ProcessEnds
    PROVE  HeldInTime'
<1>1. UNCHANGED <<minute, task>> /\ tick'[k] = Resting
  BY DEF ProcessEnds, database
<1>2. \A t : ~Sends(k, t)' /\ ~Latches(k, t)'
  BY <1>1, RestingType DEF Sends, Latches
<1>3. \A t \in Tasks :
         /\ sent'[t].count = sent[t].count
         /\ sent'[t].cut = IF Latches(k, t) THEN sent[t].cut + 1 ELSE sent[t].cut
  BY CutIs DEF Latches
<1>4. \A t \in DOMAIN task :
         t \in Tasks /\ sent[t].count \in Nat /\ sent[t].cut \in Nat
  BY TimeType, SentType DEF IInv
<1> QED  BY <1>1, <1>2, <1>3, <1>4 DEF HeldInTime

LEMMA HeldStep ==
    ASSUME RemindersAssumption, IInv, OnceInv, HeldInTime, NEW k, Ticks = {k}, [Next]_vars
    PROVE  HeldInTime'
<1>1. minute \in Nat
  BY TimeType DEF IInv
<1>2. CASE UNCHANGED vars \/ Advance
  <2>1. /\ UNCHANGED <<task, sent, tick>>
        /\ minute' \in {minute, minute + 1}
    BY <1>2 DEF vars, Advance, database
  <2> QED  BY <1>1, <2>1, HeldKept
<1>3. CASE Signal \/ (\E g \in Conns : Connect(g)) \/ (\E g \in Callers : CallerStep(g))
  <2>1. UNCHANGED <<minute, task, sent, tick>>
    BY <1>3 DEF Connect, Signal, CallerStep, StopCron, StopReturn, Start, database
  <2> QED  BY <1>1, <2>1, HeldKept
<1>4. ASSUME NEW c \in Crons, Fire(c, k) PROVE HeldInTime'
  <2>1. tick'[k].pc = "lists" /\ UNCHANGED <<task, sent>>
    BY <1>4 DEF Fire, IInv, TypeOK, database
  <2> QED  BY <2>1, HeldNone
<1>5. CASE GetAllActiveLists(k) \/ SendFails(k) \/ TickEnds(k)
  <2>1. tick'[k].pc \in {"tasks", "rest"} /\ UNCHANGED <<task, sent>>
    BY <1>5, RestingType
    DEF GetAllActiveLists, SendFails, TickEnds, IInv, TypeOK, Local, ToTasks, database
  <2> QED  BY <2>1, HeldNone
<1>6. CASE TickStep(k)
  BY <1>5, <1>6, HeldDue, HeldSend, HeldLatch DEF TickStep
<1>7. CASE Crash \/ Shutdown
  BY <1>7, HeldEnds DEF Crash, Shutdown
<1> QED  BY <1>2, <1>3, <1>4, <1>6, <1>7, HeldRows DEF Next

-----------------------------------------------------------------------------
ReminderStep(t) ==
    UNCHANGED <<minute, Stage(t), At(t), Crossed(t)>> \/ Reminder(t)!Next

LEMMA StageIs ==
    ASSUME NEW t
    PROVE  /\ ~HasOneShot(t) => Stage(t) = "none" /\ At(t) = 0 /\ Crossed(t) = FALSE
           /\ HasOneShot(t) =>
                 /\ At(t) = task[t].schedule.at
                 /\ Untold(t) /\ ~Told(t) /\ task[t].last = 0 => Stage(t) = "armed"
                 /\ Told(t) /\ ~Untold(t) /\ task[t].last = 0 => Stage(t) = "sent"
                 /\ Told(t) /\ ~Untold(t) /\ task[t].last # 0 => Stage(t) = "latched"
                 /\ Untold(t) /\ ~Told(t) /\ task[t].last # 0 => Stage(t) = "disarmed"
<1>1. ~HasOneShot(t) => Stage(t) = "none" /\ At(t) = 0 /\ Crossed(t) = FALSE
  BY DEF Stage, At, Crossed
<1>2. HasOneShot(t) => At(t) = task[t].schedule.at
  BY DEF At
<1>3. HasOneShot(t) /\ Untold(t) /\ ~Told(t) /\ task[t].last = 0 => Stage(t) = "armed"
  BY DEF Stage
<1>4. HasOneShot(t) /\ Told(t) /\ ~Untold(t) /\ task[t].last = 0 => Stage(t) = "sent"
  BY DEF Stage
<1>5. HasOneShot(t) /\ Told(t) /\ ~Untold(t) /\ task[t].last # 0 => Stage(t) = "latched"
  BY DEF Stage
<1>6. HasOneShot(t) /\ Untold(t) /\ ~Told(t) /\ task[t].last # 0 => Stage(t) = "disarmed"
  BY DEF Stage
<1> QED  BY <1>1, <1>2, <1>3, <1>4, <1>5, <1>6

\* The same of the next state
LEMMA StageWillBe ==
    ASSUME NEW t
    PROVE  /\ ~HasOneShot(t)' => Stage(t)' = "none" /\ At(t)' = 0 /\ Crossed(t)' = FALSE
           /\ HasOneShot(t)' =>
                 /\ At(t)' = task'[t].schedule.at
                 /\ Untold(t)' /\ ~Told(t)' /\ task'[t].last = 0 => Stage(t)' = "armed"
                 /\ Told(t)' /\ ~Untold(t)' /\ task'[t].last = 0 => Stage(t)' = "sent"
                 /\ Told(t)' /\ ~Untold(t)' /\ task'[t].last # 0 => Stage(t)' = "latched"
                 /\ Untold(t)' /\ ~Told(t)' /\ task'[t].last # 0 => Stage(t)' = "disarmed"
<1>1. ~HasOneShot(t)' => Stage(t)' = "none" /\ At(t)' = 0 /\ Crossed(t)' = FALSE
  BY DEF Stage, At, Crossed
<1>2. HasOneShot(t)' => At(t)' = task'[t].schedule.at
  BY DEF At
<1>3. HasOneShot(t)' /\ Untold(t)' /\ ~Told(t)' /\ task'[t].last = 0 => Stage(t)' = "armed"
  BY DEF Stage
<1>4. HasOneShot(t)' /\ Told(t)' /\ ~Untold(t)' /\ task'[t].last = 0 => Stage(t)' = "sent"
  BY DEF Stage
<1>5. HasOneShot(t)' /\ Told(t)' /\ ~Untold(t)' /\ task'[t].last # 0 => Stage(t)' = "latched"
  BY DEF Stage
<1>6. HasOneShot(t)' /\ Untold(t)' /\ ~Told(t)' /\ task'[t].last # 0 => Stage(t)' = "disarmed"
  BY DEF Stage
<1> QED  BY <1>1, <1>2, <1>3, <1>4, <1>5, <1>6

\* The reminder of t stays as it is.
LEMMA Stands ==
    ASSUME NEW t, HasOneShot(t)' <=> HasOneShot(t),
           HasOneShot(t) =>
               /\ task'[t].schedule = task[t].schedule /\ task'[t].last = task[t].last
               /\ sent'[t].count = sent[t].count /\ sent'[t].cut = sent[t].cut
               /\ sent'[t].crossed = sent[t].crossed
    PROVE  UNCHANGED <<Stage(t), At(t), Crossed(t)>>
<1>1. CASE HasOneShot(t)
  BY <1>1 DEF Stage, At, Crossed, Told, Untold
<1>2. CASE ~HasOneShot(t)
  BY <1>2 DEF Stage, At, Crossed
<1> QED  BY <1>1, <1>2

\* Steps that leave the tasks and what was sent for them alone
LEMMA StandsQuietly ==
    ASSUME NEW t, UNCHANGED <<minute, task, sent>>
    PROVE  ReminderStep(t)
<1>1. UNCHANGED <<Stage(t), At(t), Crossed(t)>>
  BY Stands DEF HasOneShot
<1> QED  BY <1>1 DEF ReminderStep

LEMMA ReminderInit == ASSUME RemindersAssumption, Init, NEW t \in Tasks PROVE Reminder(t)!Init
<1>1. TypeOK /\ minute = 1 /\ DOMAIN task = Tasks
  BY InitEstablishes DEF IInv, Init
<1>2. task[t].last = 0 /\ sent[t].count = 0 /\ sent[t].cut = 0 /\ sent[t].crossed = FALSE
  BY DEF Init, Unsent
<1>3. Untold(t) /\ ~Told(t) /\ Crossed(t) = FALSE
  BY <1>2 DEF Untold, Told, Crossed
<1>4. At(t) \in Nat
  BY <1>1, OneShotType DEF At, HasOneShot
<1>5. Stage(t) \in {"none", "armed"}
  BY <1>2, <1>3, StageIs
<1> QED  BY <1>1, <1>3, <1>4, <1>5 DEF Reminder!Init

LEMMA StepOfAdvance == ASSUME Advance, NEW t \in Tasks PROVE ReminderStep(t)
<1>1. UNCHANGED <<task, sent>> /\ minute' = minute + 1
  BY DEF Advance, database
<1>2. UNCHANGED <<Stage(t), At(t), Crossed(t)>>
  BY <1>1, Stands DEF HasOneShot
<1> QED  BY <1>1, <1>2 DEF ReminderStep, Reminder!Pass, Reminder!Next

\* A task that is there no more has no reminder.
LEMMA Cleared ==
    ASSUME NEW t, ~HasOneShot(t)', UNCHANGED minute
    PROVE  ReminderStep(t)
<1>1. Stage(t)' = "none" /\ At(t)' = 0 /\ Crossed(t)' = FALSE
  BY StageWillBe
<1> QED  BY <1>1 DEF ReminderStep, Reminder!Clear, Reminder!Next

LEMMA StepOfDelete ==
    ASSUME NEW t, DOMAIN task' \subseteq DOMAIN task,
           \A u \in DOMAIN task' : task'[u] = task[u],
           UNCHANGED <<minute, sent>>
    PROVE  ReminderStep(t)
<1>1. CASE HasOneShot(t)' <=> HasOneShot(t)
  <2>1. HasOneShot(t) => task'[t] = task[t]
    BY <1>1 DEF HasOneShot
  <2>2. UNCHANGED <<Stage(t), At(t), Crossed(t)>>
    BY <1>1, <2>1, Stands
  <2> QED  BY <2>2 DEF ReminderStep
<1>2. CASE ~HasOneShot(t)'
  BY <1>2, Cleared
<1>3. HasOneShot(t)' => HasOneShot(t)
  BY DEF HasOneShot
<1> QED  BY <1>1, <1>2, <1>3

LEMMA StepOfRows ==
    ASSUME RemindersAssumption, IInv, Rows, NEW t \in Tasks
    PROVE  ReminderStep(t)
<1>1. UNCHANGED minute
  BY DEF Rows, SetListStatus, UpdateTaskStatus, DeleteTask, UpdateTaskFields
<1>2. ASSUME NEW l \in Lists, SetListStatus(l) PROVE ReminderStep(t)
  <2>1. /\ DOMAIN task' \subseteq DOMAIN task /\ \A u \in DOMAIN task' : task'[u] = task[u]
        /\ UNCHANGED sent
    BY <1>2 DEF SetListStatus, Restrict
  <2> QED  BY <1>1, <2>1, StepOfDelete
<1>3. ASSUME NEW u \in Tasks, UpdateTaskStatus(u) PROVE ReminderStep(t)
  <2>1. UNCHANGED sent
    BY <1>3 DEF UpdateTaskStatus
  <2>2. UNCHANGED <<Stage(t), At(t), Crossed(t)>>
    BY <1>3, <2>1, StatusChanged, Stands DEF HasOneShot
  <2> QED  BY <1>1, <2>2 DEF ReminderStep
<1>4. ASSUME NEW u \in Tasks, DeleteTask(u) PROVE ReminderStep(t)
  <2>1. /\ DOMAIN task' \subseteq DOMAIN task /\ \A v \in DOMAIN task' : task'[v] = task[v]
        /\ UNCHANGED sent
    BY <1>4 DEF DeleteTask, Restrict
  <2> QED  BY <1>1, <2>1, StepOfDelete
<1>5. ASSUME NEW u \in Tasks, UpdateTaskFields(u) PROVE ReminderStep(t)
  <2>1. CASE t # u
    <3>1. /\ DOMAIN task' = DOMAIN task
          /\ t \in DOMAIN task => task'[t] = task[t]
          /\ sent'[t] = sent[t]
      BY <1>5, <2>1, EditIs
    <3>2. UNCHANGED <<Stage(t), At(t), Crossed(t)>>
      BY <3>1, Stands DEF HasOneShot
    <3> QED  BY <1>1, <3>2 DEF ReminderStep
  <2>2. CASE t = u /\ HasOneShot(t)'
    <3>1. /\ task'[t].schedule \in Schedules /\ task'[t].last = 0
          /\ sent'[t].count = 0 /\ sent'[t].cut = 0 /\ sent'[t].crossed \in BOOLEAN
      BY <1>5, <2>2, EditIs
    <3>2. Stage(t)' = "armed" /\ At(t)' = task'[t].schedule.at
      <4>1. Untold(t)' /\ ~Told(t)'
        BY <3>1 DEF Untold, Told
      <4> QED  BY <2>2, <3>1, <4>1, StageWillBe
    <3>3. task'[t].schedule.at \in 1 .. MaxMinute /\ MaxMinute \in Nat
      BY <2>2, <3>1, OnceSchedule DEF HasOneShot, RemindersAssumption
    <3>4. Crossed(t)' \in BOOLEAN
      BY DEF Crossed
    <3>5. At(t)' \in Nat
      BY <3>2, <3>3
    <3> QED  BY <1>1, <3>2, <3>4, <3>5 DEF ReminderStep, Reminder!Set, Reminder!Next
  <2>3. CASE ~HasOneShot(t)'
    BY <1>1, <2>3, Cleared
  <2> QED  BY <2>1, <2>2, <2>3
<1> QED  BY <1>2, <1>3, <1>4, <1>5 DEF Rows

\* What a task with a one-shot reminder was told, in figures
LEMMA Figures ==
    ASSUME RemindersAssumption, IInv, NEW t \in Tasks, HasOneShot(t)
    PROVE  /\ t \in DOMAIN task /\ task[t].schedule.mode = "once"
           /\ sent[t].count \in Nat /\ sent[t].cut \in Nat
           /\ task[t].schedule.at \in Nat /\ minute \in Nat
BY SentType, TimeType, OneShotType DEF IInv, HasOneShot

LEMMA StepOfSend ==
    ASSUME RemindersAssumption, IInv, OnceInv, HeldInTime, NEW k, Ticks = {k}, SendSucceeds(k),
           NEW t \in Tasks
    PROVE  ReminderStep(t)
<1>1. UNCHANGED <<minute, task>> /\ (HasOneShot(t)' <=> HasOneShot(t))
  BY SendIs DEF HasOneShot
<1>2. CASE HasOneShot(t) /\ Sends(k, t)
  <2>1. /\ sent[t].count <= sent[t].cut /\ sent[t].cut <= sent[t].count
        /\ task[t].last = 0 /\ task[t].schedule.at <= minute
    BY <1>2, Figures DEF OnceInv, SentOnce, HeldInTime
  <2>2. sent'[t].count = sent[t].count + 1 /\ sent'[t].cut = sent[t].cut
    BY <1>2, Figures, SendIs
  <2>3. Untold(t) /\ ~Told(t) /\ Told(t)' /\ ~Untold(t)'
    BY <1>2, <2>1, <2>2, Figures DEF Untold, Told
  <2>4. Stage(t) = "armed" /\ Stage(t)' = "sent" /\ At(t) = task[t].schedule.at
    BY <1>1, <1>2, <2>1, <2>3, StageIs, StageWillBe
  <2>5. UNCHANGED <<At(t), Crossed(t)>>
    BY <1>1, SendIs DEF At, Crossed
  <2> QED
    BY <1>1, <2>1, <2>4, <2>5 DEF ReminderStep, Reminder!Next, Reminder!Send, Reminder!Moves
<1>3. CASE ~(HasOneShot(t) /\ Sends(k, t))
  <2>1. HasOneShot(t) => sent'[t] = sent[t]
    BY <1>3, SendIs DEF HasOneShot
  <2>2. UNCHANGED <<Stage(t), At(t), Crossed(t)>>
    BY <1>1, <2>1, Stands
  <2> QED  BY <1>1, <2>2 DEF ReminderStep
<1> QED  BY <1>2, <1>3

LEMMA StepOfLatch ==
    ASSUME RemindersAssumption, IInv, OnceInv, HeldInTime, NEW k, Ticks = {k},
           UpdateTaskLastReminded(k), NEW t \in Tasks
    PROVE  ReminderStep(t)
<1>1. PICK u \in Tasks :
         /\ tick[k].pc = "latch" /\ u \in DOMAIN tick[k].due
         /\ \A v \in DOMAIN task \ {u} : task'[v] = task[v]
         /\ u \in DOMAIN task => task'[u].schedule = task[u].schedule /\ task'[u].last # 0
  BY LatchIs
<1>2. UNCHANGED <<minute, sent>> /\ DOMAIN task' = DOMAIN task
  BY LatchIs
<1>3. (HasOneShot(t)' <=> HasOneShot(t)) /\ UNCHANGED <<At(t), Crossed(t)>>
  BY <1>1, <1>2 DEF HasOneShot, At, Crossed
<1>4. CASE t # u \/ ~HasOneShot(t)
  <2>1. HasOneShot(t) => task'[t] = task[t]
    BY <1>1, <1>4 DEF HasOneShot
  <2>2. UNCHANGED <<Stage(t), At(t), Crossed(t)>>
    BY <1>2, <1>3, <2>1, Stands
  <2> QED  BY <1>2, <2>2 DEF ReminderStep
<1>5. CASE t = u /\ HasOneShot(t) /\ task[t].last # 0
  <2>1. UNCHANGED Stage(t)
    <3>1. UNCHANGED <<Told(t), Untold(t)>>
      BY <1>2 DEF Told, Untold
    <3>2. task'[t].last # 0
      BY <1>1, <1>5 DEF HasOneShot
    <3> QED  BY <1>3, <1>5, <3>1, <3>2 DEF Stage
  <2> QED  BY <1>2, <1>3, <2>1 DEF ReminderStep
<1>6. CASE t = u /\ HasOneShot(t) /\ task[t].last = 0 /\ Latches(k, t)
  <2>1. sent[t].cut < sent[t].count /\ sent[t].count <= 1 + sent[t].cut
    BY <1>6, Figures DEF OnceInv, SentOnce, HeldInTime
  <2>2. Told(t) /\ ~Untold(t)
    BY <1>6, <2>1, Figures DEF Told, Untold
  <2>3. Told(t)' /\ ~Untold(t)'
    BY <1>2, <2>2 DEF Told, Untold
  <2>4. task'[t].last # 0
    BY <1>1, <1>6 DEF HasOneShot
  <2>5. Stage(t) = "sent" /\ Stage(t)' = "latched"
    BY <1>3, <1>6, <2>2, <2>3, <2>4, StageIs, StageWillBe
  <2> QED  BY <1>2, <1>3, <2>5 DEF ReminderStep, Reminder!Next, Reminder!Latch, Reminder!Moves
<1>7. CASE t = u /\ HasOneShot(t) /\ task[t].last = 0 /\ ~Latches(k, t)
  <2>1. sent[t].crossed
    BY <1>1, <1>7 DEF IInv, HoldsSound, Held, Latches
  <2>2. \A i \in Ticks : ~Latches(i, t)
    BY <1>7
  <2>3. sent[t].count <= sent[t].cut /\ sent[t].cut <= sent[t].count
    BY <1>7, <2>2, Figures DEF OnceInv, SentOnce, HeldInTime
  <2>4. Untold(t) /\ ~Told(t)
    BY <1>7, <2>3, Figures DEF Told, Untold
  <2>5. Untold(t)' /\ ~Told(t)'
    BY <1>2, <2>4 DEF Told, Untold
  <2>6. task'[t].last # 0
    BY <1>1, <1>7 DEF HasOneShot
  <2>7. Stage(t) = "armed" /\ Stage(t)' = "disarmed"
    BY <1>3, <1>7, <2>4, <2>5, <2>6, StageIs, StageWillBe
  <2>8. Crossed(t)
    BY <1>7, <2>1 DEF Crossed
  <2> QED
    BY <1>2, <1>3, <2>7, <2>8 DEF ReminderStep, Reminder!Next, Reminder!Disarm, Reminder!Moves
<1> QED  BY <1>4, <1>5, <1>6, <1>7

LEMMA StepOfEnd ==
    ASSUME RemindersAssumption, IInv, OnceInv, HeldInTime, NEW k, Ticks = {k}, ProcessEnds,
           NEW t \in Tasks
    PROVE  ReminderStep(t)
<1>1. UNCHANGED <<minute, task>> /\ (HasOneShot(t)' <=> HasOneShot(t))
  BY DEF ProcessEnds, database, HasOneShot
<1>2. /\ sent'[t].count = sent[t].count /\ sent'[t].crossed = sent[t].crossed
      /\ sent'[t].cut = IF Latches(k, t) THEN sent[t].cut + 1 ELSE sent[t].cut
  BY CutIs DEF Latches
<1>3. CASE HasOneShot(t) /\ Latches(k, t)
  <2>1. /\ sent[t].cut < sent[t].count /\ sent[t].count <= 1 + sent[t].cut
        /\ task[t].last = 0
    BY <1>3, Figures DEF OnceInv, SentOnce, HeldInTime
  <2>2. Told(t) /\ ~Untold(t) /\ Untold(t)' /\ ~Told(t)'
    BY <1>2, <1>3, <2>1, Figures DEF Told, Untold
  <2>3. Stage(t) = "sent" /\ Stage(t)' = "armed"
    BY <1>1, <1>3, <2>1, <2>2, StageIs, StageWillBe
  <2>4. UNCHANGED <<At(t), Crossed(t)>>
    BY <1>1, <1>2 DEF At, Crossed
  <2> QED  BY <1>1, <2>3, <2>4 DEF ReminderStep, Reminder!Next, Reminder!Forget, Reminder!Moves
<1>4. CASE ~(HasOneShot(t) /\ Latches(k, t))
  <2>1. HasOneShot(t) => sent'[t].cut = sent[t].cut
    BY <1>2, <1>4
  <2>2. UNCHANGED <<Stage(t), At(t), Crossed(t)>>
    BY <1>1, <1>2, <2>1, Stands
  <2> QED  BY <1>1, <2>2 DEF ReminderStep
<1> QED  BY <1>3, <1>4

LEMMA ReminderSteps ==
    ASSUME RemindersAssumption, IInv, OnceInv, HeldInTime, NEW k, Ticks = {k}, [Next]_vars,
           NEW t \in Tasks
    PROVE  ReminderStep(t)
<1>1. CASE UNCHANGED vars
  BY <1>1, StandsQuietly DEF vars, database
<1>2. CASE Signal \/ (\E g \in Conns : Connect(g)) \/ (\E g \in Callers : CallerStep(g))
  <2>1. UNCHANGED <<minute, task, sent>>
    BY <1>2 DEF Connect, Signal, CallerStep, StopCron, StopReturn, Start, database
  <2> QED  BY <2>1, StandsQuietly
<1>3. ASSUME NEW c \in Crons, Fire(c, k) PROVE ReminderStep(t)
  BY <1>3, StandsQuietly DEF Fire, database
<1>4. CASE GetAllActiveLists(k) \/ GetTasksByList(k) \/ SendFails(k) \/ TickEnds(k)
  BY <1>4, StandsQuietly DEF GetAllActiveLists, GetTasksByList, SendFails, TickEnds, database
<1>5. CASE TickStep(k)
  BY <1>4, <1>5, StepOfSend, StepOfLatch DEF TickStep
<1>6. CASE Crash \/ Shutdown
  BY <1>6, StepOfEnd DEF Crash, Shutdown
<1> QED  BY <1>1, <1>2, <1>3, <1>5, <1>6, StepOfAdvance, StepOfRows DEF Next

LEMMA OnceAlways == ASSUME NEW k, Ticks = {k} PROVE Spec => [](OnceInv /\ HeldInTime)
<1>1. Init => OnceInv /\ HeldInTime
  BY OnceInit, HeldInit, RemindersAssumption
<1>2. IInv /\ OnceInv /\ HeldInTime /\ [Next]_vars => (OnceInv /\ HeldInTime)'
  BY OnceStep, HeldStep, RemindersAssumption
<1> QED  BY <1>1, <1>2, Invariance, PTL DEF Spec

\* No one-shot reminder is sent before its minute, and none twice, between any edits,
\* deletes, reconnects and failed messages; a process that ends between message and
\* latch arms it again, and only an edit under a running tick can disarm it.
THEOREM OneShotsAreReminders == ASSUME NEW k, Ticks = {k} PROVE Spec => OneShotsFireOnce
<1>1. Init => \A t \in Tasks : Reminder(t)!Init
  BY ReminderInit, RemindersAssumption
<1>2. IInv /\ OnceInv /\ HeldInTime /\ [Next]_vars =>
         [\A t \in Tasks :
             UNCHANGED <<minute, Stage(t), At(t), Crossed(t)>> \/ Reminder(t)!Next]_vars
  BY ReminderSteps, RemindersAssumption DEF ReminderStep
<1> QED  BY <1>1, <1>2, Invariance, OnceAlways, PTL DEF Spec, OneShotsFireOnce

\* The same as a refinement.
THEOREM ImplementsOneShotReminder ==
    ASSUME NEW k, Ticks = {k}, NEW t \in Tasks
    PROVE  Spec => Reminder(t)!Spec
<1>1. Init => Reminder(t)!Init
  BY ReminderInit, RemindersAssumption
<1>2. IInv /\ OnceInv /\ HeldInTime /\ [Next]_vars =>
         [Reminder(t)!Next]_(Reminder(t)!reminderVars)
  BY ReminderSteps, RemindersAssumption DEF ReminderStep, Reminder!reminderVars
<1> QED  BY <1>1, <1>2, Invariance, OnceAlways, PTL DEF Spec, Reminder!Spec
=============================================================================
