# PM-WA in TLA+

PM-WA is a WhatsApp bot that keeps task lists for groups. The owner of a list
manages it by private messages or on a web page, members of the group mark
tasks as done by replying to the summaries the bot posts, and a scheduler sends
reminders. This directory holds TLA+ models of the program, the TLC
configurations that check them, and TLAPS proofs. Line numbers refer to the
source tree the models were written from.

## The program

### Goroutines

| goroutine | started by | runs |
|---|---|---|
| events | whatsmeow, one event after the other | chat commands (`cmd/`), group replies (`reply/`), kicks, departures, joins (`main.go`) |
| connected | whatsmeow, a goroutine of its own per `Connected` event | `syncGroups`, then `Stop` and `Start` of the scheduler |
| web request | `net/http`, one per request, for all accounts | `web/handlers.go`, `web/auth.go` |
| tick | robfig/cron, one per minute, **also when the last one still runs** | `scheduler.tick` |
| main | the runtime | start-up, then `Stop` on a signal |

They share one SQLite database per account. Its pool holds one connection
(`db/db.go:19`), so a statement, and a transaction, is atomic. Nothing else is:
a handler makes several calls, often with a WhatsApp request in between, and the
calls of two handlers interleave. Every model takes a database call (or a
WhatsApp request) as its atomic step and keeps what a handler read earlier in
the handler's local variables.

### Components

| component | state | operations | what makes it correct |
|---|---|---|---|
| task tables (`db/task.go`, `db/web.go`) | `tasks`, `task_assignees` | insert a batch, delete and renumber, rename, reassign, set status, mark departures | positions are 1..n in creation order; titles unique per list; a batch is stored whole or not at all |
| task commands and pages (`cmd/add_task*.go`, `cmd/delete_task.go`, `web/handlers.go`) | local variables | check, ask WhatsApp, write | what was checked earlier cannot damage the tables later |
| list lifecycle (`cmd/*_list.go`, `web/handlers.go`, `db/tasklist.go`, `db/message_map.go`) | `task_lists`, `message_map` | add, publish, stop, delete, post a summary | names unique per group; stop is final; a reply reaches the list its summary showed |
| group events (`main.go`) | `wa_groups` | kick, departure, join, sync | a kick or the owner's departure stops the lists concerned |
| scheduler (`scheduler/pulse.go`) | `s.cron`, `s.mu`, `last_reminded_at` | start, stop, tick | no reminder lost or repeated; one cron; stopping ends |
| assignee presence (`scheduler/presend.go`, `main.go`) | `left_group` | departures, check before a reminder | nobody is flagged without a reason; owners are told of flags; no departure goes unnoticed for good |
| group replies (`reply/`) | none | validate on a snapshot, write by position, post a summary | the tasks marked are the tasks meant, and authorised |
| web sign-in (`web/auth.go`, `db/web.go`, `cmd/tasklist_web.go`) | `web_tokens`, `web_sessions`, `webLastSent` | issue, consume, sign in, sign out | a link signs in once, within its time |
| start-up (`accounts/`, `pair.go`, `main.go`) | files | resolve accounts, move legacy files, open accounts, pair | nothing of an old install is lost or left behind; an account stays paired |
| parsers (`cmd/parser.go`, `cmd/bulk.go`, `cmd/reminder.go`, `reply/parser.go`) | none | text to fields | pure |
| membership (`bot/group.go`) | none | phone and LID addresses | pure |
| formatting (`format/`), WhatsApp wrapper (`bot/`), server and pages (`web/server.go`, templates, scripts), listings | none | | not modelled: wording, layout, I/O, reads |

The behaviours that are hard to get right are interleavings of a check and the
write it allows (names, titles, the status a publish read, the tasks a tick or
a reply read), notices that cross other operations, the two writes of one
operation (a message and its latch, a message and its mapping, two `DELETE`s),
crashes between them, ticks that overlap, and the mutex that `Stop` holds while
it waits. `PROJECT.json` lists them one by one, with the properties that watch
them.

## The modules

| module | models |
|---|---|
| `TaskTable` | the task tables as a value, and each statement or transaction on them as an operator |
| `TaskStore` | the handlers that change tasks, as interleaved processes over `TaskTable` |
| `MCTaskStore` | its instance for TLC |
| `TaskSequence`, `SequenceChanges` | what a list of tasks is to its users; `TaskStore` and `GroupReply` implement it for every list |
| `TaskTableProofs`, `TaskStoreProofs` | lemmas about the operators; theorems about `TaskStore` |
| `ListLifecycle`, `MCListLifecycle` | lists, summaries, groups, and the goroutines that change them |
| `ListStages` | the life of a list, and what the group sees of it; `ListLifecycle` implements it for every list |
| `Reminders`, `MCReminders` | the scheduler, its callers, its ticks, and the edits they race |
| `OneShotReminder` | what the latch promises of a reminder; `Reminders` implements it for every task, when ticks end within their minute |
| `GroupReply`, `MCGroupReply` | replies in the group, over `TaskTable`, and the writes they race |
| `WebAuth`, `MCWebAuth` | sign-in links, sessions, cookies and logout, for several accounts in one process |
| `SingleUseLink` | what a sign-in link promises; `WebAuth` implements it for every link |
| `Presence`, `MCPresence` | who is flagged as having left, and who is told |
| `Startup`, `MCStartup` | server starts and pairings, over the files of an old install and of each account |
| `ListLifecycleProofs`, `RemindersProofs`, `GroupReplyProofs`, `WebAuthProofs`, `PresenceProofs`, `StartupProofs` | theorems about these modules |

Definitions whose name begins as one of the program's functions (`CreateTasks`,
`handleX`, `taskDue`) stand for that function. Definitions marked *Mutant* are
not used: each is a plausible bug in the definition that follows, and stands
there so that every property has a bug that it catches (`PROJECT.json`,
`mutants`).

Four specifications describe no code: `TaskSequence`, `ListStages`, `OneShotReminder` and
`SingleUseLink` say what users see of one list, reminder or link, as if
nothing ran beside it. The detailed modules implement them by a refinement
mapping, which is where the interleavings, the stale reads and the renumbering
have to come out right together. Each refinement is a theorem, and is checked by
TLC in the form of the step that every step must be (`ListsAreSequences`,
`RepliesOnlyMark`, `ListsGoThroughStages`, `OneShotsFireOnce`, `SingleUse`), since
TLC cannot take a whole specification under a quantifier.

### TaskTable, TaskStore and TaskSequence

A table is a function from ids to rows. Ids are AUTOINCREMENT, so `nextTask`
only grows. `RemoveAt` deletes the row at a position and gives every other row
of the list its rank, which is what the loop of `DeleteTask` writes: the i-th id
of `SELECT ... ORDER BY position` gets `i + 1`. The loop never meets
`UNIQUE(task_list_id, position)` half way because it lowers positions in
increasing order; the proof that ranks are the old positions, minus one above
the gap (`RankIsShift`), is the same argument.

A handler is *idle*, or holds what it read. `BeginAdd`, `BeginBulk`,
`BeginDelete` and `BeginEdit` are the reads and checks up to the last one,
`CommitCreate`, `CommitDelete`, `EditFields` and `EditAssignees` the writes.
Constraints are part of the writes: a batch that meets a taken title, a repeated
assignee or a deleted list is rolled back. `DeleteTaskList`, `MarkAssigneeLeft`,
`SetAssigneeLeft` and `Crash` happen at any time; a crash forgets the handlers and
keeps the tables. The column `left_group` has two writers. The notice of a
departure flags all tasks of a person in the group by one UPDATE
(`MarkAssigneeLeft`). The check before a reminder flags one row at a time, by id
and with a WhatsApp request after each (`SetAssigneeLeft`), so that other handlers,
and the end of the process, come between two tasks of the same person. A row id
that an edit has replaced meanwhile flags nothing, since `task_assignees.id` is
AUTOINCREMENT; which rows a check names, and when, is in `Presence`.

Simplified: the status of the list is left out (a stopped list refuses some of
these operations, so the model has more behaviours than the program); the reads
of the group, the list and its owner are one step with the check that follows,
since none of them can be undone by another handler except by deleting the list,
which the write meets as a broken foreign key or an empty update. Deadlines and
reminder columns do not bear on these properties and are in `Reminders`.

In `TaskSequence` a list is the sequence of its tasks, each named by its number:
new ones go to the end, a deleted one takes its number along, renames, reassigned
people, departures and status changes leave all tasks where they are, and a list
is dropped as a whole. A departure shows at all tasks of a person at once (`Left`,
the notice) or at one of them (`LeftAt`, the check). `Shown` maps the table to it: under each number the task,
as `GetTasksByList` returns it.

### ListLifecycle and ListStages

`lists`, `waGroups` and `messageMap` are the tables. `botIn`, `inbox` and
`posted` are WhatsApp: where the bot is, which notices are on their way, which
summaries were sent. `handler` is the local state of the event goroutine
(`Chat`) and of the web requests; `sync` is that of `syncGroups`. Every handler
takes the steps the code takes: a publish reads the list, counts its tasks,
writes the status, posts, maps the message; a delete unmaps, then drops; a kick
reads the open lists, stops them one by one, then deletes the group.

Of the tasks only `filled` is kept, which decides whether a publish goes on.
`serial`, `posted` and `revived` are history that the code does not have: the
list a row and a message were made for, and the lists that a publish took out of
"stopped". Owners are the only users: a command of anybody else changes nothing.
Private messages are left out, their failure is only logged. A crash may lose
the notice that was being handled (`MayLoseNotice`), because whatsmeow may or
may not have acknowledged it; the violation runs do not use that freedom.

`ListStages` is the life of one list as `GLOSSARY.md` tells it: unpublished, active,
stopped for good, deleted; and what the group sees: no summary before the list is
published, no reply to it but by a summary of it. `Stage` maps the row (and its
absence), `SummariesOf` the messages sent, `MappedTo` the mapping rows, and
`PublishInFlight` a publish that has read the list unpublished. The last is the
only way out of "stopped", and the gap between the glossary and the code.

### Reminders and OneShotReminder

Time is the minute. At `MaxMinute` it stands still, which stands for all later
minutes: the cron keeps firing there, and the latch compares as it would later.
`caller` is how far each goroutine that restarts or stops the scheduler has
come, `scheduler` is `s.cron` and the holder of `s.mu`, `cron` the next minute of
each cron instance (a stopped one never fires), `tick` the local state of each
running tick. A tick reads the active lists, then for each list its tasks,
sends one message, and latches the due tasks one statement at a time. Rows are
edited, finished and deleted, and lists published, stopped and deleted, in any
of these gaps. `Ticks` bounds how many ticks run at once: with one, a tick ends
before the next begins; with two, it may outlast its minute.

`ModeAt` and `ModeDeadline` differ only in the column that holds the time and
are one schedule here. A cron expression is the set of minutes it matches.
Errors of SQLite are left out; `SendFails` is the error of WhatsApp. `sent` is
history: which edit set the schedule a task has now, and how often that schedule
was reminded of.

`OneShotReminder` is one reminder of one task: armed, sent when its minute has
come, latched. Two steps of it are gaps in what the comment of `taskDue` says,
and it has no others: the end of a process between message and latch arms the
reminder again (`Forget`), and a reminder that is set while a tick holds the task
may be latched in place of the one before (`Disarm`). `Stage` reads it off the
columns of the row and the history; what would be a second message has the stage
"repeated", which no step of `OneShotReminder` reaches.

### GroupReply

Replies are handled by the event goroutine, one after the other (`chat`), in the
steps of `HandleGroupReply` (that goroutine also handles notices, so
`MarkAssigneeLeft` waits for it; a tick's `SetAssigneeLeft` does not): look up the quoted message and its list, read the
tasks and check all numbers, write all of them in one transaction, read the
tasks again, post and map the summary. Between these, web requests insert, delete
and reassign tasks, stop and delete the list, ticks flag assignees, row by row,
and post messages; each of their writes is one step, because `TaskStore` has
shown what the earlier reads of those handlers can do. A reply may quote any
message ever posted about the list. Lists are published: an unpublished one has
no message to reply to.

`messages[m].numbering` is history: the task that a message showed under each
number, which is what its readers mean by the number. A person stands for all
their addresses, phone and LID; `Presence` tells them apart. `GetTasksByList` reads the assignees of each task with a
statement of its own, and is one step here: a reassignment in the middle of it
counts as before or after. What a reply says is its action and its set of
numbers, since a repeated number writes the same value twice.

To a list, this module too is a `TaskSequence` (`RepliesOnlyMark`, with the mapping of
`TaskStore`): a reply gives some of its tasks one status and changes nothing else
about it, although it was validated against rows that others have changed since.

### WebAuth and SingleUseLink

An admin asks the bot of an account for a link (`AskLink`, the check of
`webLastSent` under its mutex; `CreateWebToken`; `SendLink`: the steps of
`tasklistWeb`). A web request spends the link (`ConsumeWebToken`, one
transaction), makes a session, sets the cookie; or it finds a session by the
cookie of its mount (`RequireSession`), serves the page, or signs out. An
answer may be lost. All accounts share the process and `webLastSent`; each has
its own database, which is why a row carries its account, and its own mount: the
account's name, or the root if it is the only one served. `Restart` forgets the
maps and goroutines and may serve other accounts, so a cookie of the root can
meet another account there. An account that is started alone although several are
declared keeps its own mount in the program; here that is a run that serves the
others too, idly.

`SingleUseLink` is the promise of the message, "valid for 15 minutes, single
use": a link is issued, spent by its deadline at the latest, opens one session,
which once closed never opens again. `Stage` and `Deadline` map the state of
`WebAuth` to it. TLC checks that every step is one of `SingleUseLink`, or none,
for every link (`SingleUse`); `ImplementsSingleUseLink` is the refinement as such.

Tokens and session ids are random and taken to be distinct. The CSRF token is
checked by `handleLogout` before anything happens and has no state of its own
beyond the session. `signIns` and `signedOut` are history.

### Presence

WhatsApp lists a participant by phone number or by LID and may or may not add
the number to a LID (`PhoneListed`, `NumberKnown`); the rows of `task_assignees`
hold numbers. `members` is the group, `notices` the departures the bot will be
told of; the others are lost. The event goroutine handles a departure in the
steps of `handleMemberLeft`: stop the lists of whoever left, one by one; select
the rows concerned, update the rows concerned; alert the owner of each task's
list. The tick's check (`refreshAssigneePresence`) asks for the participants,
reads the rows, flags one after the other by id, and alerts. Meanwhile commands
and forms insert and replace rows, which are validated against the participants
before they are written, and tasks are deleted, lists published and stopped.

`away` is history: who was out of the group at some time. It makes the reason
of a flag: `FlagHasReason` allows for one on a person who was away, or whose
number WhatsApp does not show. (A mixed group may list somebody by LID alone:
the check then flags them although they never left.) `told` and `untold` are
the flagged rows whose owner was sent an alert, or for which that was given up:
the message failed, the list was not active, the row was written between the
`SELECT` and the `UPDATE`, or the process ended. Each of these is a place in the
model where a row enters `untold`; `FlagsAreTold` says that there are no others.

### Startup

`root` is the set of legacy files still at the root, `data[a][f]` what each file
of account `a` holds: nothing, what came from the old install, a new database, a
session store with a device or without. A server start resolves `WA_ACCOUNTS`,
plans the moves (none if `data/default` is there), moves the files one by one,
then opens each account in turn; a single account shows a QR code, one of several
without a device is left out. `pm-wa pair` is a process of its own. Either may
end at any step. A rename replaces what is there: a pairing that has the session
store open goes on writing to a file that no name leads to (`onDisk`).

`Exit` stands for signals, crashes and errors alike. `had`, `paired`,
`forgotten`, `cutOff`, `early` and `overlapped` are history, from which the
properties say what is allowed. `NothingLost` is about files: a WAL that a cut-off
start left at the root while its database was moved counts as kept, although
SQLite will not read it there; `NothingLeftBehind` says when that can be.

## What is checked

| run | instance | shows |
|---|---|---|
| `task_store` | 2 lists, 3 titles, 1 person, 2 handlers, batches of up to 2, 3 rows ever | dense positions, creation order, unique titles, no task without a list, whole batches only, an edit stays on its task; every list implements `TaskSequence` |
| `list_lifecycle` | 2 names, 1 group, 1 owner, the event goroutine and 1 web request, 2 lists ever, 1 summary, 1 notice waiting, crashes | unique names, replies reach their list, a stop is final once no publish is in flight, notices stop what they concern; every list implements `ListStages` |
| `stop_final` | 1 name, otherwise the same | **violated**: a publish in flight undoes a stop |
| `reminders` | 2 tasks of 1 list, two one-shot schedules and a recurring one, 1 tick slot, 2 connected goroutines and main, 3 minutes, 1 edit, 1 exit | no reminder repeated except after a crash, none latched unsent, one cron, silence after a stop; every one-shot reminder implements `OneShotReminder` |
| `reminders_live` | 1 task, 1 connected goroutine, fair | a due reminder does not stay outstanding, a shutdown proceeds |
| `exactly_once` | 2 tick slots, no crash, no edit | **violated**: overlapping ticks send a one-shot reminder twice |
| `edit_rearms` | 1 tick slot, 1 edit | **violated**: a tick disarms a reminder set after it read the task |
| `group_reply` | 1 list, 2 titles, 2 people and the admin, 3 rows ever, 2 messages ever, crashes | a reply marks the tasks its message showed, by somebody entitled to mark them, and posts a summary only if it marked one, unless a task was deleted; a reply changes nothing but the status of tasks |
| `latest_summary` | the same with 2 rows | **violated**: after a delete on the web, a reply to the latest summary marks another task |
| `web_auth` | 2 accounts, 1 admin, 1 browser, 2 requests at once, 3 links ever, 1 restart, 2 instants | links are single use, pages act for their admin, signing out is for good, few links are good at once |
| `presence` | 1 list and task, its owner and an assignee listed by number, a person listed by LID alone, 1 web request, 2 rows ever, 2 moves, 1 restart, fair | flags have reasons, owners are told, no departure goes unnoticed for good |
| `startup` | 2 accounts, 5 values of `WA_ACCOUNTS`, 6 processes ever, 3 kinds of old install | nothing of an old install is lost or left behind, pairings last, but for the exceptions the properties name |

The bounds are small because the hazards are: each needs two actors (a handler
and another, a tick and an edit, a sync and a kick), one object they fight over,
and a second object that must not be hit by mistake (two lists, two titles
already stored, two tasks in a tick). Three rows suffice to close a gap in the
middle and to reuse the freed position. Two lists ever created suffice to ask
whether an id, or a summary, is taken for another list's. Three minutes are one
before, one at and one after the scheduled one, and the last never ends; the second
one-shot schedule is for the third minute, so that a tick comes before it is due. Two
messages let a reply quote the older one; two people let one be entitled to a
task and the other not. In `web_auth` a link and a session are good until the
clock moves (`LinkTTL = 0`), so that two instants are before and after, and the
cooldown is over when they have passed; three links are one more than an account
gets in one instant without a restart. In `presence`, two moves are a departure and a
return, two rows a replacement; the alerts of several tasks to one owner are not
exercised there, and are covered by the proof. Six processes suffice for a start
that is cut off, a pairing beside it, and a start that finds what they left.

In a few words, the four violated properties:

- **A stop can be undone.** `publishList` and `handlePublish` decide on a status
  read before several other calls. `UpdateListStatus(id, "active")` then
  overwrites a stop that came in between. `StopIsFinalOnceSettled` shows that
  this window is the only way.
- **A one-shot reminder can be sent twice** when a tick takes longer than a
  minute, since the latch follows the message and cron does not hold back the
  next tick. `AtMostOnce` shows that with ticks that end in time only a crash
  between the message and the latch can repeat it.
- **An edit can disarm the reminder it sets**, when it lands between a tick's
  read and that tick's latch. `LatchMeansReminded` shows that no other latch is
  ever set without a message.
- **The latest summary can show stale numbers.** The delete button of the web
  page renumbers the list and, unlike the `delete-task` command, posts no
  summary. A reply to the latest summary is then accepted for whatever task has
  the number now. `NumbersShiftOnlyByDeletion` shows that without a delete even
  the oldest message keeps its meaning.

Seen on the way, and not written as a run because no text of the repository
promises otherwise, or because it depends on what the repository does not show:

- A sync whose answer is older than a kick writes the group back into
  `wa_groups` (`main.go:376`), if whatsmeow handles `Connected` beside its queue
  of other events.
- The reminder that follows the check is composed from the rows read before it
  (`scheduler/pulse.go:110`) and still mentions those whom the alert just sent
  says will show as left (`scheduler/presend.go:45`).
- A late notice flags a person who is back, and nothing takes the flag away but
  an edit of the task's assignees.
- Somebody whom a mixed group lists by LID alone is flagged by the check before
  the first reminder.
- A failed `DeleteWebSession` is not looked at: the session outlives the logout
  (`signedOut` only holds those that were carried out).
- "No manual step is needed when upgrading" does not hold after a start that was
  cut off between two moves, nor when `pair` made `data/default` before the first
  start: the remaining files stay at the root. A rename during a start can also
  replace a session paired meanwhile. `NothingLeftBehind` and `PairingSurvives`
  name these exceptions and show that there are no others.
- A crash while a kick or a departure is handled loses the notice, if WhatsApp
  does not deliver it again: lists stay open in a group the bot has left.
  `NoticeStopsLists` is about notices that are handled to the end.
- An alert that WhatsApp refuses, or that a crash cuts off, is never sent again,
  since its row is flagged by then; nor is one for a row that came between the
  `SELECT` and the `UPDATE`. These are what `FlagsAreTold` exempts.

In `PROJECT.json` the hazards behind these points carry no property, or one that
limits them, and a note.

### Fairness

In `Reminders`, for `reminders_live`: Time passes and ticks and
callers run (weak fairness: the Go scheduler runs what can run). A caller that
waits for `s.mu` gets it although others may take it first again and again
(strong fairness: a Go mutex hands itself over to a waiter that starved for a
millisecond). WhatsApp connects again after a loss, as whatsmeow does; it does
not lose the connection in every single minute, so a cron fires again and again
(strong fairness of `Fire`); and a message that is tried again and again is
taken (strong fairness of `SendSucceeds`). Nothing is assumed of users, of edits
or of crashes, which are bounded in number.

In `Presence`, for `DepartureNoticed`: a tick that has begun its check goes on
(weak fairness of `TickStep`), and a list that is again and again active, with a task
due and the participants known, is checked again and again (strong fairness of
`GetGroupParticipants`): the cron comes every minute. So the property is about
lists whose reminders keep coming; a list that sends none is never checked.
Departures, notices and edits are not fair.

## What is proved

Every safety property that a passing run checks is also proved, for every value
of the constants (`AtMostOnce`, `OneShotsFireOnce` for any value but that of
`Ticks`, see below). Each `...Proofs` module shows that an inductive invariant `IInv` holds at
first (`InitEstablishes`), is kept by each action (one lemma per action,
`NextPreserves`), and implies the properties; the action properties follow from it
step by step. The proofs assume the `ASSUME` of the module, which says that bounds
are numbers and that the constants have their types, and nothing else.

Each refinement (five, since two modules implement `TaskSequence`) is proved in two forms: the property TLC checks, and
`Spec => X!Spec` for the instance `X` of the abstract specification of each list, task or
link. The initial states map to initial states, and each action to a step or a
stutter, by a lemma per action, from the inductive invariants.

The invariants, and why the properties are not inductive alone:

**`TaskStoreProofs`**: `TypeOK /\ WellFormed(tasks) /\ NoOrphanTasks`, where
`WellFormed` joins density, creation order and unique titles. Renumbering by rank
keeps positions unique and dense only because they were dense: then the rank of
a row is its position, or one less above the gap (`RankIsShift` in
`TaskTableProofs`). New rows come after the last position
(`LastPositionIsLast`) and have larger ids, which needs `DOMAIN tasks \subseteq
1 .. nextTask - 1` of the type invariant. `BatchAllOrNothing` and
`EditStaysOnItsTask` look at one step from there. So does the refinement: in
well-formed tables `Shown` is a sequence, and each operator on tables moves it in
one of the ways of `SequenceChanges` (the lemmas on `Moves` in `TaskTableProofs`, which
`GroupReplyProofs` uses as well). Distinct titles are part of what a step of
`TaskSequence` asks for, so the constraints that roll back a batch are needed there.

**`ListLifecycleProofs`**: an id is the place of its list in the order of
creation (`SerialIsId`, which is AUTOINCREMENT), a handler holds a snapshot of
the list whose id it holds, and a message about to be mapped shows that list
(`HandlersSound`); while a notice is handled, each list it concerns is still to
be stopped, stopped, newer, or revived (`NoticeCovered`). Without `SerialIsId` a
mapping that is saved late could lead to a newer list. `StopIsFinalOnceSettled`
adds that nobody loads a stopped list for a publish. The refinement needs a second
invariant, `HandlersSeen`, of what handlers remember: a list they read has been
created, so that "deleted" is what its absence means, and whoever is about to
post or map a summary of a list holds one that was published, whatever became of it
since. `lists` alone cannot say that once the row is gone, and the handler's
snapshot must be known to have come from the row.

**`RemindersProofs`**: a cron that fires is `s.cron` and nobody holds `s.mu`
(`CronOwned`); who waits in `Stop` holds `s.mu` (`WaitHolds`); a tick belongs to
`s.cron` (`TickOwned`), for `Stop` waits for it; what a tick holds of a task it
was so before the last edit, or the task counts as crossed (`HoldsSound`).
`AtMostOnce` is false with two tick slots, which is `exactly_once`; it is proved
for `Ticks = {k}`, that is, when a tick ends before the next begins. There the
second invariant `OnceInv` says that a one-shot reminder sent and not latched is in
the hands of the tick that sent it, or a process ended in between. For the
refinement, `HeldInTime` adds that what a tick is about to send is due and not
latched, and that what it is about to latch was sent by this process.

**`GroupReplyProofs`**: each number of a message names the task it was posted
with, unless the task of that number or of a lower one is gone (`Sound`); what a
reply read is what is stored, unless a task it read is gone (`ReadSound`). Both
are kept by any step that moves a task only when a lower row of its list goes
(`Follows`), and every statement is such a step. The argument needs that the
numbers of a message have no gap, and that what they show below is what was
deleted: density and unique positions, so the tables are well formed here too. The
refinement needs that rows belong to lists that are still there (`Owned`): a list that
is gone has no tasks and gets none.

**`WebAuthProofs`**: between the two calls of a sign-in the request holds a spent
link that no session was made of and that no other request holds
(`SpenderAlone`); at most one session was made of a link (`MadeOnce`); sessions and
pages stand for the account and admin of their link (`SessionsProven`,
`PagesProven`); a session signed out of is gone (`SignedOutGone`). `LiveLinksBounded`
counts: of the links that an admin was sent since an instant, each earlier run of the
process accounts for no more than the cooldown lets through from then on, and this run
for what it has let through so far (`CountBounded`). What is good now was stored no
longer ago than a link lives (`StoredInTime`). The cooldown is what `webLastSent`
remembers, and a link that is about to be stored is in it (`AskRecorded`). So the count
needs no history: a restart turns the share of this run into that of an earlier one.

**`PresenceProofs`**: notices and answers of WhatsApp that miss a person are
evidence (`EvidenceSound`); an id that a tick read still means the same person
(`IdsStable`, AUTOINCREMENT again: the mutant of `FlagHasReason` reuses ids);
rows that the `SELECT` did not see are new (`SelectedKnown`); an owner who was
alerted once was told of all rows of that person in all their lists
(`NotifiedTold`), which is why one alert per owner is enough.

**`StartupProofs`**: the plan of a start covers what is at the root
(`PlanCovers`); `pair` never writes unasked to the old session (`PairOnItsWay`);
files move only while nobody pairs and `data/default` is not paired
(`MovesAlone`); a server that opens an account has made its directory
(`ServerOnItsWay`).

Checked by TLC only: the liveness properties `RemindedEventually`,
`ShutdownProceeds` and `DepartureNoticed`, which rest on fairness and `ENABLED` and
are beyond the proof system. The four violated properties have counterexamples and
no proofs.

## What is left

- Pure operators checked against definitions over bounded inputs: the
  validation of a bulk payload, the recurring dates, the progress bar. They keep
  no state and have table tests in the repository.
- Abstract specifications that `Presence` and `Startup` implement: the flag of one
  person in one task, and the session of one account. Their invariants state the
  promise already, with the exceptions by name.
- What two overlapping ticks can do at most to a one-shot reminder (`OneShotReminder`
  holds for ticks that end within their minute).

## Not modelled

Wording and layout of messages and pages, the splitting of text into fields
(`cmd/parser.go`, `cmd/bulk.go`, `cmd/reminder.go`, `reply/parser.go`: pure
functions, reduced to the values they accept), routing and browser scripts,
group names (and with them the refusal of ambiguous ones), menus, the listing
commands, errors of SQLite and of the file system other than those named above,
the schema migrations after V1 (a runner that executes fixed statements once, at
start, before any goroutine), and the functions that nothing calls:
`scheduler.handleBotKicked`, `ResetAllAssigneesLeft`, `DeleteExpiredWebAuth`.

## Running

    tlc -config MCTaskStore.cfg MCTaskStore
    tlc -config MCRemindersLive.cfg MCReminders
    tlapm TaskStoreProofs.tla

and so on: `PROJECT.json` names the module of every configuration and lists the
theorems. Each TLC run takes a minute or two at most on two cores.
