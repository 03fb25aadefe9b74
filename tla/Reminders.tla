------------------------------ MODULE Reminders ------------------------------
(***************************************************************************)
(* The scheduler: scheduler/pulse.go, its cron, and the goroutines that    *)
(* start and stop it.  A tick reads the lists, then the tasks of one list  *)
(* after the other, sends one reminder per list and only then latches      *)
(* last_reminded_at task by task, while chat commands and web requests go  *)
(* on changing lists and tasks.  The process may die at any time.          *)
(*                                                                         *)
(* Time is counted in minutes and stands still at MaxMinute, which stands  *)
(* for every later minute too: there the cron keeps firing.                *)
(***************************************************************************)
EXTENDS Naturals, FiniteSets, Functions

CONSTANTS
    Lists, Tasks,
    ListOf,        \* the list of each task
    Schedules,     \* reminder schedules a form can ask for
    Ticks,         \* ticks that can run at once: one, unless a tick outlasts a minute
    Conns,         \* goroutines that can handle a Connected event at once
    Main,          \* the main goroutine, which stops the scheduler on a signal
    Crons,         \* cron instances
    NoCron,
    MaxMinute,     \* bound: the last minute told apart
    MaxEdits,      \* bound: edits of tasks
    MaxExits       \* bound: crashes and shutdowns

None == [mode |-> "none"]

Once(at) == [mode |-> "once", at |-> at]      \* ModeAt and ModeDeadline

Cron(ms) == [mode |-> "cron", minutes |-> ms] \* ModeCron: the minutes that match

ASSUME RemindersAssumption ==
    /\ MaxMinute \in Nat \ {0} /\ MaxEdits \in Nat /\ MaxExits \in Nat
    /\ ListOf \in [Tasks -> Lists]
    /\ Main \notin Conns
    /\ NoCron \notin Crons \cup Conns \cup {Main}
    /\ Schedules \subseteq {None} \cup {Once(at) : at \in 1 .. MaxMinute}
                             \cup {Cron(ms) : ms \in SUBSET (1 .. MaxMinute - 1)}

VARIABLES
    minute,      \* the wall clock
    listStatus,  \* task_lists.status, or "gone"
    task,        \* the rows of tasks that exist: the columns the scheduler reads
    cron,        \* the minute each cron instance fires at next, 0 when it is stopped
    scheduler,   \* s.cron and who holds s.mu
    caller,      \* how far each goroutine that calls Stop and Start has come
    tick,        \* local variables of each running tick
    edits, exits,
    sent         \* history: what was sent for the schedule a task has now; see Row

database == <<listStatus, task>>
vars == <<minute, listStatus, task, cron, scheduler, caller, tick, edits, exits, sent>>

Callers == Conns \cup {Main}

Row == [status : {"todo", "done"}, schedule : Schedules, last : 0 .. MaxMinute]

\* version: the edit that set the schedule; count: its reminders (those of the
\* last such minute, when it recurs); cut: process exits that lost its latch;
\* crossed: it was set while a tick held the task.
Sent == [version : 0 .. MaxEdits, count : Nat, minute : 0 .. MaxMinute, cut : Nat,
         crossed : BOOLEAN]

Unsent(version, crossed) ==
    [version |-> version, count |-> 0, minute |-> 0, cut |-> 0, crossed |-> crossed]

Resting == [pc |-> "rest"]

\* The tasks that a tick found due, and which schedule of theirs (history).
Due == UNION {[S -> 0 .. MaxEdits] : S \in SUBSET Tasks}

TickLocals ==
    {Resting}
        \cup [pc : {"lists"}, cron : Crons, now : 1 .. MaxMinute]
        \cup [pc : {"tasks"}, cron : Crons, now : 1 .. MaxMinute, todo : SUBSET Lists]
        \cup [pc : {"send", "latch"}, cron : Crons, now : 1 .. MaxMinute, todo : SUBSET Lists,
              list : Lists, due : Due]

TypeOK ==
    /\ minute \in 1 .. MaxMinute
    /\ listStatus \in [Lists -> {"unpublished", "active", "stopped", "gone"}]
    /\ DOMAIN task \subseteq Tasks
    /\ \A t \in DOMAIN task : task[t] \in Row
    /\ cron \in [Crons -> 0 .. MaxMinute]
    /\ scheduler \in [cron : Crons \cup {NoCron}, mu : Callers \cup {NoCron}]
    /\ caller \in [Callers -> {"idle", "stop", "wait", "start", "exit"}]
    /\ tick \in [Ticks -> TickLocals]
    /\ edits \in 0 .. MaxEdits /\ exits \in 0 .. MaxExits
    /\ sent \in [Tasks -> Sent]

Init ==
    /\ minute = 1
    /\ listStatus = [l \in Lists |-> "unpublished"]
    /\ task \in [Tasks -> [status : {"todo"}, schedule : Schedules, last : {0}]]
    /\ cron = [c \in Crons |-> 0]
    /\ scheduler = [cron |-> NoCron, mu |-> NoCron]
    /\ caller = [g \in Callers |-> "idle"]
    /\ tick = [k \in Ticks |-> Resting]
    /\ edits = 0 /\ exits = 0
    /\ sent = [t \in Tasks |-> Unsent(0, FALSE)]

NextMinute == IF minute < MaxMinute THEN minute + 1 ELSE MaxMinute

Advance ==
    /\ minute < MaxMinute
    /\ minute' = minute + 1
    /\ UNCHANGED <<database, cron, scheduler, caller, tick, edits, exits, sent>>

-----------------------------------------------------------------------------
\* What commands, web requests and replies do to the rows meanwhile.
SetListStatus(l) ==
    /\ \/ listStatus[l] = "unpublished" /\ listStatus' = [listStatus EXCEPT ![l] = "active"]
       \/ /\ listStatus[l] # "gone"
          /\ \E s \in {"stopped", "gone"} : listStatus' = [listStatus EXCEPT ![l] = s]
    /\ task' = IF listStatus'[l] = "gone"
               THEN Restrict(task, {t \in DOMAIN task : ListOf[t] # l})
               ELSE task
    /\ UNCHANGED <<minute, cron, scheduler, caller, tick, edits, exits, sent>>

UpdateTaskStatus(t) ==
    /\ t \in DOMAIN task
    /\ task' = [task EXCEPT ![t].status = IF @ = "todo" THEN "done" ELSE "todo"]
    /\ UNCHANGED <<minute, listStatus, cron, scheduler, caller, tick, edits, exits, sent>>

DeleteTask(t) ==
    /\ t \in DOMAIN task
    /\ task' = Restrict(task, DOMAIN task \ {t})
    /\ UNCHANGED <<minute, listStatus, cron, scheduler, caller, tick, edits, exits, sent>>

\* A tick has decided to remind of t, and has not latched it yet.
HeldByTick(t) == \E k \in Ticks : tick[k].pc \in {"send", "latch"} /\ t \in DOMAIN tick[k].due

\* UPDATE tasks SET ..., last_reminded_at = 0
UpdateTaskFields(t) ==
    /\ t \in DOMAIN task
    /\ edits < MaxEdits /\ edits' = edits + 1
    /\ \E s \in Schedules : task' = [task EXCEPT ![t].schedule = s, ![t].last = 0]
    /\ sent' = [sent EXCEPT ![t] = Unsent(edits + 1, HeldByTick(t))]
    /\ UNCHANGED <<minute, listStatus, cron, scheduler, caller, tick, exits>>

-----------------------------------------------------------------------------
\* handleConnected, once the groups are synced: Stop, then Start.  Several can
\* be under way: each Connected event comes on a goroutine of its own.
Connect(g) ==
    /\ g \in Conns /\ caller[g] = "idle"
    /\ caller' = [caller EXCEPT ![g] = "stop"]
    /\ UNCHANGED <<minute, database, cron, scheduler, tick, edits, exits, sent>>

\* main, on SIGTERM: Stop, then the process ends.
Signal ==
    /\ caller[Main] = "idle" /\ exits < MaxExits
    /\ caller' = [caller EXCEPT ![Main] = "stop"]
    /\ UNCHANGED <<minute, database, cron, scheduler, tick, edits, exits, sent>>

AfterStop(g) == IF g = Main THEN "exit" ELSE "start"

\* Stop takes the mutex, stops the cron and waits for its ticks.
StopCron(g) ==
    /\ caller[g] = "stop" /\ scheduler.mu = NoCron
    /\ IF scheduler.cron = NoCron
       THEN /\ caller' = [caller EXCEPT ![g] = AfterStop(g)]
            /\ UNCHANGED <<cron, scheduler>>
       ELSE /\ caller' = [caller EXCEPT ![g] = "wait"]
            /\ cron' = [cron EXCEPT ![scheduler.cron] = 0]
            /\ scheduler' = [scheduler EXCEPT !.mu = g]
    /\ UNCHANGED <<minute, database, tick, edits, exits, sent>>

RunningTicks(c) == {k \in Ticks : tick[k] # Resting /\ tick[k].cron = c}

\* Mutant: Stop does not wait for ctx.Done().
StopReturnAtOnce(g) ==
    /\ caller[g] = "wait"
    /\ scheduler' = [cron |-> NoCron, mu |-> NoCron]
    /\ caller' = [caller EXCEPT ![g] = AfterStop(g)]
    /\ UNCHANGED <<minute, database, cron, tick, edits, exits, sent>>

StopReturn(g) ==
    /\ caller[g] = "wait"
    /\ RunningTicks(scheduler.cron) = {}
    /\ scheduler' = [cron |-> NoCron, mu |-> NoCron]
    /\ caller' = [caller EXCEPT ![g] = AfterStop(g)]
    /\ UNCHANGED <<minute, database, cron, tick, edits, exits, sent>>

\* Mutant: Start does not look whether a cron is running.
StartAlways(g) ==
    /\ caller[g] = "start" /\ scheduler.mu = NoCron
    /\ \E c \in Crons :
          /\ cron[c] = 0 /\ RunningTicks(c) = {}
          /\ cron' = [cron EXCEPT ![c] = NextMinute]
          /\ scheduler' = [scheduler EXCEPT !.cron = c]
    /\ caller' = [caller EXCEPT ![g] = "idle"]
    /\ UNCHANGED <<minute, database, tick, edits, exits, sent>>

\* A new cron fires first at the next full minute.
Start(g) ==
    /\ caller[g] = "start" /\ scheduler.mu = NoCron
    /\ IF scheduler.cron # NoCron
       THEN UNCHANGED <<cron, scheduler>>
       ELSE \E c \in Crons :
              /\ cron[c] = 0 /\ RunningTicks(c) = {}
              /\ cron' = [cron EXCEPT ![c] = NextMinute]
              /\ scheduler' = [scheduler EXCEPT !.cron = c]
    /\ caller' = [caller EXCEPT ![g] = "idle"]
    /\ UNCHANGED <<minute, database, tick, edits, exits, sent>>

-----------------------------------------------------------------------------
\* The cron starts a tick in a goroutine of its own.
Fire(c, k) ==
    /\ cron[c] # 0 /\ minute >= cron[c]
    /\ tick[k] = Resting
    /\ cron' = [cron EXCEPT ![c] = NextMinute]
    /\ tick' = [tick EXCEPT ![k] = [pc |-> "lists", cron |-> c, now |-> minute]]
    /\ UNCHANGED <<minute, database, scheduler, caller, edits, exits, sent>>

Local(k, local) == tick' = [tick EXCEPT ![k] = local]

ToTasks(k, todo) == [pc |-> "tasks", cron |-> tick[k].cron, now |-> tick[k].now, todo |-> todo]

\* Mutant: the tick locks s.mu.
GetAllActiveListsLocked(k) ==
    /\ tick[k].pc = "lists" /\ scheduler.mu = NoCron
    /\ Local(k, ToTasks(k, {l \in Lists : listStatus[l] = "active"}))
    /\ UNCHANGED <<minute, database, cron, scheduler, caller, edits, exits, sent>>

GetAllActiveLists(k) ==
    /\ tick[k].pc = "lists"
    /\ Local(k, ToTasks(k, {l \in Lists : listStatus[l] = "active"}))
    /\ UNCHANGED <<minute, database, cron, scheduler, caller, edits, exits, sent>>

\* Mutant: seconds are rounded, where the code cuts them off.
TaskDueEarly(row, now) ==
    \/ row.schedule.mode = "once" /\ row.schedule.at <= now + 1 /\ row.last = 0
    \/ row.schedule.mode = "cron" /\ now \in row.schedule.minutes

\* Mutant: one-shot reminders fire on their minute only.
TaskDueOnTheMinute(row, now) ==
    \/ row.schedule.mode = "once" /\ row.schedule.at = now /\ row.last = 0
    \/ row.schedule.mode = "cron" /\ now \in row.schedule.minutes

taskDue(row, now) ==
    \/ row.schedule.mode = "once" /\ row.schedule.at <= now /\ row.last = 0
    \/ row.schedule.mode = "cron" /\ now \in row.schedule.minutes

DueTasks(l, now) ==
    {t \in DOMAIN task : /\ ListOf[t] = l
                         /\ task[t].status = "todo"
                         /\ task[t].last < now
                         /\ taskDue(task[t], now)}

\* The tasks of the next list; nothing due, next list.
GetTasksByList(k) ==
    /\ tick[k].pc = "tasks"
    /\ \E l \in tick[k].todo :
          LET due  == DueTasks(l, tick[k].now)
              todo == tick[k].todo \ {l}
          IN  Local(k, IF due = {}
                       THEN ToTasks(k, todo)
                       ELSE [pc |-> "send", cron |-> tick[k].cron, now |-> tick[k].now,
                             todo |-> todo, list |-> l,
                             due |-> [t \in due |-> sent[t].version]])
    /\ UNCHANGED <<minute, database, cron, scheduler, caller, edits, exits, sent>>

\* A reminder counts for the schedule the task has now, not for an older one.
Counted(k) ==
    [t \in Tasks |->
        IF /\ t \in DOMAIN tick[k].due \cap DOMAIN task
           /\ tick[k].due[t] = sent[t].version
        THEN LET again == task[t].schedule.mode = "once" \/ sent[t].minute = tick[k].now
             IN  [sent[t] EXCEPT !.count = IF again THEN @ + 1 ELSE 1, !.minute = tick[k].now]
        ELSE sent[t]]

\* SendGroupMessage (the presence check before it, and SaveMessageMapping after
\* it, leave these columns alone).
SendSucceeds(k) ==
    /\ tick[k].pc = "send"
    /\ sent' = Counted(k)
    /\ Local(k, [tick[k] EXCEPT !.pc = "latch"])
    /\ UNCHANGED <<minute, database, cron, scheduler, caller, edits, exits>>

\* Mutant: a reminder that could not be sent is latched all the same.
SendFailsButLatches(k) ==
    /\ tick[k].pc = "send"
    /\ Local(k, [tick[k] EXCEPT !.pc = "latch"])
    /\ UNCHANGED <<minute, database, cron, scheduler, caller, edits, exits, sent>>

SendFails(k) ==
    /\ tick[k].pc = "send"
    /\ Local(k, ToTasks(k, tick[k].todo))
    /\ UNCHANGED <<minute, database, cron, scheduler, caller, edits, exits, sent>>

\* Mutant: the statement inserts the row when there is none.
LatchUpserts(k) ==
    /\ tick[k].pc = "latch"
    /\ \E t \in DOMAIN tick[k].due :
          /\ task' = [u \in DOMAIN task \cup {t} |->
                        IF u # t THEN task[u]
                        ELSE IF t \in DOMAIN task THEN [task[t] EXCEPT !.last = tick[k].now]
                        ELSE [last |-> tick[k].now]]
          /\ Local(k, ToTasks(k, tick[k].todo))
    /\ UNCHANGED <<minute, listStatus, cron, scheduler, caller, edits, exits, sent>>

\* Mutant: only the list's first due task is latched.
LatchOne(k) ==
    /\ tick[k].pc = "latch"
    /\ \E t \in DOMAIN tick[k].due :
          /\ task' = IF t \in DOMAIN task THEN [task EXCEPT ![t].last = tick[k].now] ELSE task
          /\ Local(k, ToTasks(k, tick[k].todo))
    /\ UNCHANGED <<minute, listStatus, cron, scheduler, caller, edits, exits, sent>>

\* UpdateTaskLastReminded, by id: the schedule may be another one by now.
UpdateTaskLastReminded(k) ==
    /\ tick[k].pc = "latch"
    /\ \E t \in DOMAIN tick[k].due :
          LET left == DOMAIN tick[k].due \ {t}
          IN  /\ task' = IF t \in DOMAIN task THEN [task EXCEPT ![t].last = tick[k].now] ELSE task
              /\ Local(k, IF left = {}
                          THEN ToTasks(k, tick[k].todo)
                          ELSE [tick[k] EXCEPT !.due = Restrict(@, left)])
    /\ UNCHANGED <<minute, listStatus, cron, scheduler, caller, edits, exits, sent>>

TickEnds(k) ==
    /\ tick[k].pc = "tasks" /\ tick[k].todo = {}
    /\ Local(k, Resting)
    /\ UNCHANGED <<minute, database, cron, scheduler, caller, edits, exits, sent>>

-----------------------------------------------------------------------------
\* The process ends, with its goroutines; a new one starts, not yet connected.
ProcessEnds ==
    /\ exits < MaxExits /\ exits' = exits + 1
    /\ cron' = [c \in Crons |-> 0]
    /\ scheduler' = [cron |-> NoCron, mu |-> NoCron]
    /\ caller' = [g \in Callers |-> "idle"]
    /\ tick' = [k \in Ticks |-> Resting]
    /\ sent' = [t \in Tasks |->
                    IF \E k \in Ticks : /\ tick[k].pc = "latch" /\ t \in DOMAIN tick[k].due
                                      /\ tick[k].due[t] = sent[t].version
                    THEN [sent[t] EXCEPT !.cut = @ + 1]
                    ELSE sent[t]]
    /\ UNCHANGED <<minute, database, edits>>

Crash == ProcessEnds

Shutdown == caller[Main] = "exit" /\ ProcessEnds

-----------------------------------------------------------------------------
Rows ==
    \/ \E l \in Lists : SetListStatus(l)
    \/ \E t \in Tasks : UpdateTaskStatus(t)
    \/ \E t \in Tasks : DeleteTask(t)
    \/ \E t \in Tasks : UpdateTaskFields(t)

CallerStep(g) == StopCron(g) \/ StopReturn(g) \/ Start(g)

TickStep(k) ==
    \/ GetAllActiveLists(k)
    \/ GetTasksByList(k)
    \/ SendSucceeds(k)
    \/ SendFails(k)
    \/ UpdateTaskLastReminded(k)
    \/ TickEnds(k)

Next ==
    \/ Advance
    \/ Rows
    \/ \E g \in Conns : Connect(g)
    \/ Signal
    \/ \E g \in Callers : CallerStep(g)
    \/ \E c \in Crons, k \in Ticks : Fire(c, k)
    \/ \E k \in Ticks : TickStep(k)
    \/ Crash
    \/ Shutdown

Spec == Init /\ [][Next]_vars

\* Time passes and goroutines run; a goroutine that waits for a Go mutex gets it,
\* however often others take it first.  WhatsApp connects again after a loss,
\* does not lose the connection every single minute, and takes a message
\* eventually.
Fairness ==
    /\ WF_vars(Advance)
    /\ WF_vars(scheduler.cron = NoCron /\ \E g \in Conns : Connect(g))
    /\ \A g \in Callers : SF_vars(CallerStep(g))
    /\ SF_vars(\E c \in Crons, k \in Ticks : Fire(c, k))
    /\ \A k \in Ticks : WF_vars(TickStep(k)) /\ SF_vars(SendSucceeds(k))

FairSpec == Spec /\ Fairness

-----------------------------------------------------------------------------
\* A schedule set once is kept once: a one-shot reminder is sent once, and again
\* only for each time the process ended between the message and the latch; a
\* recurring one once in a minute, even then.
AtMostOnce ==
    \A t \in DOMAIN task :
        sent[t].count <= IF task[t].schedule.mode = "once" THEN 1 + sent[t].cut ELSE 1

\* The comment of taskDue: the latch makes one-shot reminders fire exactly once.
ExactlyOnce == \A t \in DOMAIN task : task[t].schedule.mode = "once" => sent[t].count <= 1

\* A latched reminder was sent, unless the schedule was set while a tick was
\* still to latch the one before it: a failed send is tried again, never lost.
LatchMeansReminded ==
    \A t \in DOMAIN task : task[t].last # 0 /\ ~sent[t].crossed => sent[t].count > 0

\* The comment of UpdateTaskFields: an edit arms a one-shot reminder again, so it
\* is not disarmed before it was sent.
EditRearms ==
    \A t \in DOMAIN task :
        task[t].schedule.mode = "once" /\ task[t].last # 0 => sent[t].count > 0

\* However Connected events and the shutdown interleave, one cron runs at most:
\* two would remind twice.
OneCron == \A c, d \in Crons : cron[c] # 0 /\ cron[d] # 0 => c = d

\* When Stop has returned and nobody has called Start, nothing is being sent: a
\* shutdown that meets no Connected event cuts no tick short.
StoppedIsSilent ==
    scheduler = [cron |-> NoCron, mu |-> NoCron] => \A k \in Ticks : tick[k] = Resting

Outstanding(t) ==
    /\ t \in DOMAIN task
    /\ listStatus[ListOf[t]] = "active"
    /\ task[t].status = "todo"
    /\ task[t].schedule.mode = "once" /\ task[t].schedule.at <= minute
    /\ task[t].last = 0

\* A one-shot reminder whose minute has come, or was missed while the bot was
\* offline or its list unpublished, does not stay outstanding for ever.
RemindedEventually == \A t \in Tasks : Outstanding(t) ~> ~Outstanding(t)

\* Stop returns: neither the ticks it waits for nor the goroutines it shares the
\* mutex with can hold up a shutdown for ever.
ShutdownProceeds == caller[Main] = "stop" ~> caller[Main] \in {"exit", "idle"}
-----------------------------------------------------------------------------
\* Each one-shot reminder is a OneShotReminder, if ticks end within their minute.
HasOneShot(t) == t \in DOMAIN task /\ task[t].schedule.mode = "once"

\* It was sent, and no end of a process undid that.
Told(t) == sent[t].count = sent[t].cut + 1

Untold(t) == sent[t].count = sent[t].cut

Stage(t) ==
    CASE ~HasOneShot(t)                                   -> "none"
      [] HasOneShot(t) /\ Untold(t) /\ task[t].last = 0   -> "armed"
      [] HasOneShot(t) /\ Told(t) /\ task[t].last = 0     -> "sent"
      [] HasOneShot(t) /\ Told(t) /\ task[t].last # 0     -> "latched"
      [] HasOneShot(t) /\ Untold(t) /\ task[t].last # 0   -> "disarmed"
      [] OTHER                                            -> "repeated"

At(t) == IF HasOneShot(t) THEN task[t].schedule.at ELSE 0

Crossed(t) == HasOneShot(t) /\ sent[t].crossed

Reminder(t) ==
    INSTANCE OneShotReminder WITH now <- minute, stage <- Stage(t), at <- At(t),
                                  crossed <- Crossed(t)

\* Whatever edits, deletes, reconnects and process ends come between the reads of a
\* tick, its message and its latches: a reminder is not sent before its minute, is
\* sent once and then latched, and is armed again only by an edit or a process
\* end.  (Reminder(t)!Spec for all t, in the form TLC evaluates.)
OneShotsFireOnce ==
    /\ \A t \in Tasks : Reminder(t)!Init
    /\ [][\A t \in Tasks :
              UNCHANGED <<minute, Stage(t), At(t), Crossed(t)>> \/ Reminder(t)!Next]_vars
=============================================================================
