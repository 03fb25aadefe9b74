------------------------------ MODULE Presence ------------------------------
(***************************************************************************)
(* Who of the assignees has left the group: task_assignees.left_group, the *)
(* notices WhatsApp sends when members leave (main.go, handleMemberLeft),  *)
(* the check before a reminder (scheduler/presend.go) and the alerts both  *)
(* send to the owners of lists.  One group; its lists and tasks.  The      *)
(* event goroutine handles notices and chat commands one after the other;  *)
(* web requests and the scheduler's tick run beside it.                    *)
(*                                                                         *)
(* WhatsApp lists a participant by phone number or by LID, and may or may  *)
(* not add the number to a LID; rows of task_assignees hold numbers.       *)
(***************************************************************************)
EXTENDS Naturals, FiniteSets, FiniteSetsExt, Functions, SequencesExt

CONSTANTS
    People, Bot,
    PhoneListed,   \* participants (of People and Bot) listed by their number
    NumberKnown,   \* participants listed by LID, with their number
    Lists, Tasks,
    ListOf,        \* the list of each task
    Owner,         \* task_lists.admin_jid
    Events, Web,   \* the event goroutine, and those of web requests
    MaxRows,       \* bound: rows of task_assignees ever inserted
    MaxMoves,      \* bound: people that leave or come back
    MaxRestarts    \* bound: restarts of the process

ASSUME PresenceAssumption ==
    /\ IsFiniteSet(People)
    /\ Bot \notin People /\ Events \notin Web
    /\ PhoneListed \subseteq People \cup {Bot} /\ NumberKnown \subseteq People \cup {Bot}
    /\ PhoneListed \cap NumberKnown = {}
    /\ ListOf \in [Tasks -> Lists]
    /\ Owner \in [Lists -> People]
    /\ MaxRows \in Nat /\ MaxMoves \in Nat /\ MaxRestarts \in Nat

VARIABLES
    members,    \* WhatsApp: who of the people is in the group
    notices,    \* WhatsApp: whose departure the bot will be told of
    status,     \* task_lists.status
    stage,      \* the rows of tasks: to be added, there, deleted
    rows,       \* task_assignees: a function from the ids in use to rows
    nextRow,    \* sqlite_sequence of task_assignees
    local,      \* local variables of the event goroutine and the web requests
    tick,       \* local variables of the scheduler's tick
    moves, restarts,
    away,       \* history: people that were out of the group at some time
    told,       \* history: ids of flagged rows whose owner was sent an alert
    untold      \* history: ids of flagged rows an alert about which was not sent

tables  == <<status, stage, rows, nextRow>>
history == <<away, told, untold>>
vars    == <<members, notices, status, stage, rows, nextRow, local, tick, moves, restarts,
             away, told, untold>>

RowIds == 1 .. MaxRows

Row == [task : Tasks, person : People, left : BOOLEAN]

Idle == [pc |-> "idle"]

Locals ==
    {Idle}
        \cup [pc : {"stop"}, person : People, todo : SUBSET Lists]
        \cup [pc : {"mark"}, person : People, affected : SUBSET Tasks,
              before : RowIds \cup {MaxRows + 1}]
        \cup [pc : {"alert"}, person : People, todo : SUBSET Tasks, notified : SUBSET People]
        \cup [pc : {"insert", "replace"}, task : Tasks, people : SUBSET People]

TickLocals ==
    {Idle}
        \cup [pc : {"assignees"}, list : Lists, present : SUBSET (People \cup {Bot})]
        \cup [pc : {"check"}, list : Lists, present : SUBSET (People \cup {Bot}),
              todo : SUBSET [id : RowIds, person : People, left : BOOLEAN]]
        \cup [pc : {"alert"}, list : Lists, present : SUBSET (People \cup {Bot}), row : RowIds,
              person : People, todo : SUBSET [id : RowIds, person : People, left : BOOLEAN]]

TypeOK ==
    /\ members \subseteq People /\ notices \subseteq People
    /\ status \in [Lists -> {"unpublished", "active", "stopped"}]
    /\ stage \in [Tasks -> {"new", "there", "deleted"}]
    /\ DOMAIN rows \subseteq 1 .. nextRow - 1
    /\ \A i \in DOMAIN rows : rows[i] \in Row /\ stage[rows[i].task] = "there"
    /\ nextRow \in 1 .. MaxRows + 1
    /\ local \in [{Events} \cup Web -> Locals]
    /\ tick \in TickLocals
    /\ moves \in 0 .. MaxMoves /\ restarts \in 0 .. MaxRestarts
    /\ away \subseteq People
    /\ told \subseteq RowIds /\ untold \subseteq RowIds

Init ==
    /\ members = People /\ notices = {}
    /\ status = [l \in Lists |-> "unpublished"]
    /\ stage = [t \in Tasks |-> "new"]
    /\ rows = [i \in {} |-> 0] /\ nextRow = 1
    /\ local = [g \in {Events} \cup Web |-> Idle]
    /\ tick = Idle
    /\ moves = 0 /\ restarts = 0
    /\ away = {} /\ told = {} /\ untold = {}

RowsOf(t) == {i \in DOMAIN rows : rows[i].task = t}

Goto(g, l) == local' = [local EXCEPT ![g] = l]

-----------------------------------------------------------------------------
\* WhatsApp.
\* Somebody leaves, and the notice is lost or not.
Leave(p) ==
    /\ moves < MaxMoves /\ moves' = moves + 1
    /\ p \in members
    /\ members' = members \ {p}
    /\ notices' \in {notices, notices \cup {p}}
    /\ away' = away \cup {p}
    /\ UNCHANGED <<tables, local, tick, restarts, told, untold>>

Return(p) ==
    /\ moves < MaxMoves /\ moves' = moves + 1
    /\ p \in People \ members
    /\ members' = members \cup {p}
    /\ UNCHANGED <<notices, tables, local, tick, restarts, history>>

Participants == members \cup {Bot}

\* GetGroupParticipantsEx: the participants whose number is among its keys ...
Indexed(ps) == ps \cap (PhoneListed \cup NumberKnown)

\* Mutant: only participants listed by number count.
HasPhoneListed(ps) == ps \cap PhoneListed # {}

\* ... hasPhoneJIDs, and lidPrimary (LIDPrimaryOnly).
HasPhoneJIDs(ps) == ps \cap (PhoneListed \cup NumberKnown) # {}

LidPrimary(ps) == ps \cap PhoneListed = {}

-----------------------------------------------------------------------------
\* Tasks and their assignees, the participants asked for before the write.
\* Mutant: ids are given out again.
LargestRowPlusOne(kept) == IF DOMAIN kept = {} THEN 1 ELSE 1 + Max(DOMAIN kept)

\* AUTOINCREMENT
FirstRow(kept) == nextRow

NewRows(t, ps, first) ==
    [i \in first .. first + Cardinality(ps) - 1 |->
        [task |-> t, person |-> SetToSeq(ps)[i - first + 1], left |-> FALSE]]

Insert(t, ps, kept) ==
    /\ LET new == NewRows(t, ps, FirstRow(kept))
       IN  rows' = [i \in DOMAIN new \cup DOMAIN kept |->
                       IF i \in DOMAIN new THEN new[i] ELSE kept[i]]
    /\ nextRow' = FirstRow(kept) + Cardinality(ps)

Fits(ps) == nextRow + Cardinality(ps) <= MaxRows + 1

\* Chat commands take anybody while nobody is listed by number; web forms never do.
Valid(g, ps) ==
    IF g = Events /\ LidPrimary(Participants) THEN TRUE ELSE ps \subseteq Indexed(Participants)

\* A task of a stopped list can still be edited on the web.
Validate(g, t, ps) ==
    /\ local[g] = Idle
    /\ ps # {} /\ Valid(g, ps)
    /\ Fits(ps)
    /\ \/ stage[t] = "new" /\ status[ListOf[t]] # "stopped"
             /\ Goto(g, [pc |-> "insert", task |-> t, people |-> ps])
       \/ stage[t] = "there" /\ g \in Web
             /\ Goto(g, [pc |-> "replace", task |-> t, people |-> ps])
    /\ UNCHANGED <<members, notices, tables, tick, moves, restarts, history>>

\* CreateTask.  (Two requests never add the same task.)
CreateTask(g) ==
    /\ local[g].pc = "insert"
    /\ IF stage[local[g].task] = "new" /\ Fits(local[g].people)
       THEN /\ stage' = [stage EXCEPT ![local[g].task] = "there"]
            /\ Insert(local[g].task, local[g].people, rows)
       ELSE UNCHANGED <<stage, rows, nextRow>>
    /\ Goto(g, Idle)
    /\ UNCHANGED <<members, notices, status, tick, moves, restarts, history>>

\* Mutant: foreign keys are off.
ReplaceTaskAssigneesNoForeignKey(g) ==
    /\ local[g].pc = "replace"
    /\ LET t == local[g].task
       IN  IF Fits(local[g].people)
           THEN Insert(t, local[g].people, Restrict(rows, DOMAIN rows \ RowsOf(t)))
           ELSE UNCHANGED <<rows, nextRow>>
    /\ Goto(g, Idle)
    /\ UNCHANGED <<members, notices, status, stage, tick, moves, restarts, history>>

\* ReplaceTaskAssignees; the foreign key fails when the task is gone.
ReplaceTaskAssignees(g) ==
    /\ local[g].pc = "replace"
    /\ LET t == local[g].task
       IN  IF stage[t] = "there" /\ Fits(local[g].people)
           THEN Insert(t, local[g].people, Restrict(rows, DOMAIN rows \ RowsOf(t)))
           ELSE UNCHANGED <<rows, nextRow>>
    /\ Goto(g, Idle)
    /\ UNCHANGED <<members, notices, status, stage, tick, moves, restarts, history>>

DeleteTask(t) ==
    /\ stage[t] = "there"
    /\ stage' = [stage EXCEPT ![t] = "deleted"]
    /\ rows' = Restrict(rows, DOMAIN rows \ RowsOf(t))
    /\ UNCHANGED <<members, notices, status, nextRow, local, tick, moves, restarts, history>>

PublishList(l) ==
    /\ status[l] = "unpublished"
    /\ status' = [status EXCEPT ![l] = "active"]
    /\ UNCHANGED <<members, notices, stage, rows, nextRow, local, tick, moves, restarts, history>>

StopList(l) ==
    /\ status[l] # "stopped"
    /\ status' = [status EXCEPT ![l] = "stopped"]
    /\ UNCHANGED <<members, notices, stage, rows, nextRow, local, tick, moves, restarts, history>>

-----------------------------------------------------------------------------
\* handleMemberLeft.
\* The notice names people as they are listed: by LID, it matches no row.
Matches(p) == p \in PhoneListed

MemberLeft(p) ==
    /\ p \in notices /\ notices' = notices \ {p}
    /\ local[Events] = Idle
    /\ Goto(Events, [pc |-> "stop", person |-> p,
                     todo |-> {l \in Lists : Matches(p) /\ Owner[l] = p /\ status[l] # "stopped"}])
    /\ UNCHANGED <<members, tables, tick, moves, restarts, history>>

StopOwnList ==
    /\ local[Events].pc = "stop"
    /\ \E l \in local[Events].todo :
          /\ status' = [status EXCEPT ![l] = "stopped"]
          /\ Goto(Events, [local[Events] EXCEPT !.todo = @ \ {l}])
    /\ UNCHANGED <<members, notices, stage, rows, nextRow, tick, moves, restarts, history>>

\* Mutant: the UPDATE comes first, and leaves nothing to select.
AffectedAfterUpdate(p) == {}

AffectedTasks(p) ==
    {rows[i].task : i \in {j \in DOMAIN rows : Matches(p) /\ rows[j].person = p /\ ~rows[j].left}}

\* MarkAssigneeLeft: the SELECT ...
SelectAffected ==
    /\ local[Events].pc = "stop" /\ local[Events].todo = {}
    /\ Goto(Events, [pc |-> "mark", person |-> local[Events].person,
                     affected |-> AffectedTasks(local[Events].person), before |-> nextRow])
    /\ UNCHANGED <<members, notices, tables, tick, moves, restarts, history>>

Flag(ids) == rows' = [i \in DOMAIN rows |-> IF i \in ids THEN [rows[i] EXCEPT !.left = TRUE]
                                                         ELSE rows[i]]

AlertNext(p, todo, notified) ==
    Goto(Events, IF todo = {} THEN Idle
                 ELSE [pc |-> "alert", person |-> p, todo |-> todo, notified |-> notified])

\* ... and the UPDATE, which may find rows the SELECT had not.
MarkAssigneeLeft ==
    /\ local[Events].pc = "mark"
    /\ LET p   == local[Events].person
           ids == {i \in DOMAIN rows : Matches(p) /\ rows[i].person = p}
       IN  /\ Flag(ids)
           /\ untold' = untold \cup {i \in ids : i >= local[Events].before}
           /\ AlertNext(p, local[Events].affected, {})
    /\ UNCHANGED <<members, notices, status, stage, nextRow, tick, moves, restarts, away, told>>

FlaggedOf(t, p) == {i \in RowsOf(t) : rows[i].left /\ rows[i].person = p}

\* What an alert to an owner about somebody tells of: rows in lists of that owner
FlaggedFor(o, p) == UNION {FlaggedOf(t, p) : t \in {u \in Tasks : Owner[ListOf[u]] = o}}

\* SendPM, which may fail: that is not looked at.
SendPM(ids) ==
    \/ told' = told \cup ids /\ untold' = untold
    \/ told' = told /\ untold' = untold \cup ids

\* The task's list is read again: no alert while it is not active
Suppressed(t) == status[ListOf[t]] # "active"

\* One task of the loop over those affected; each owner is alerted once.
AlertOwner ==
    /\ local[Events].pc = "alert"
    /\ LET p        == local[Events].person
           notified == local[Events].notified
       IN  \E t \in local[Events].todo :
             LET o == Owner[ListOf[t]]
             IN  /\ AlertNext(p, local[Events].todo \ {t},
                              IF Suppressed(t) THEN notified ELSE notified \cup {o})
                 /\ CASE Suppressed(t) -> told' = told /\ untold' = untold \cup FlaggedOf(t, p)
                      [] ~Suppressed(t) /\ o \in notified -> UNCHANGED <<told, untold>>
                      [] OTHER -> SendPM(FlaggedFor(o, p))
    /\ UNCHANGED <<members, notices, tables, tick, moves, restarts, away>>

-----------------------------------------------------------------------------
NextOfTick(l) == tick' = l /\ UNCHANGED <<members, notices, local, moves, restarts>>

\* refreshAssigneePresence, in a tick that has found tasks of the list due.  While
\* the request fails or no number is known, nothing is checked.  (The reminder
\* that follows is in Reminders.)
GetGroupParticipants(l) ==
    /\ tick = Idle
    /\ status[l] = "active" /\ \E t \in Tasks : ListOf[t] = l /\ stage[t] = "there"
    /\ HasPhoneJIDs(Participants)
    /\ NextOfTick([pc |-> "assignees", list |-> l, present |-> Indexed(Participants)])
    /\ UNCHANGED <<tables, history>>

CheckNext(todo) ==
    NextOfTick(IF todo = {} THEN Idle
               ELSE [pc |-> "check", list |-> tick.list, present |-> tick.present, todo |-> todo])

GetAssigneesByGroup ==
    /\ tick.pc = "assignees"
    /\ CheckNext({[id |-> i, person |-> rows[i].person, left |-> rows[i].left] :
                     i \in {j \in DOMAIN rows : ListOf[rows[j].task] = tick.list}})
    /\ UNCHANGED <<tables, history>>

\* SetAssigneeLeft, by the id that was read
SetAssigneeLeft ==
    /\ tick.pc = "check"
    /\ \E r \in tick.todo :
          IF r.person \notin tick.present /\ ~r.left
          THEN /\ Flag({r.id} \cap DOMAIN rows)
               /\ NextOfTick([pc |-> "alert", list |-> tick.list, present |-> tick.present,
                              row |-> r.id, person |-> r.person, todo |-> tick.todo \ {r}])
          ELSE rows' = rows /\ CheckNext(tick.todo \ {r})
    /\ UNCHANGED <<status, stage, nextRow, history>>

AlertOfTick ==
    /\ tick.pc = "alert"
    /\ SendPM({tick.row} \cap DOMAIN rows)
    /\ CheckNext(tick.todo)
    /\ UNCHANGED <<tables, away>>

\* The rows whose owner is about to be alerted
Pending ==
    (IF local[Events].pc = "alert"
     THEN UNION {FlaggedOf(t, local[Events].person) : t \in local[Events].todo} ELSE {})
        \cup (IF tick.pc = "alert" THEN {tick.row} \cap DOMAIN rows ELSE {})

\* The process ends and starts again; what it has not got to may be lost.
Restart ==
    /\ restarts < MaxRestarts /\ restarts' = restarts + 1
    /\ notices' \in SUBSET notices
    /\ local' = [g \in {Events} \cup Web |-> Idle]
    /\ tick' = Idle
    /\ untold' = untold \cup Pending
    /\ UNCHANGED <<members, tables, moves, away, told>>

-----------------------------------------------------------------------------
NoticeStep == StopOwnList \/ SelectAffected \/ MarkAssigneeLeft \/ AlertOwner

TickStep == GetAssigneesByGroup \/ SetAssigneeLeft \/ AlertOfTick

Next ==
    \/ \E p \in People : Leave(p) \/ Return(p) \/ MemberLeft(p)
    \/ NoticeStep
    \/ \E g \in {Events} \cup Web :
          \/ \E t \in Tasks, ps \in SUBSET People : Validate(g, t, ps)
          \/ CreateTask(g) \/ ReplaceTaskAssignees(g)
    \/ \E t \in Tasks : DeleteTask(t)
    \/ \E l \in Lists : PublishList(l) \/ StopList(l) \/ GetGroupParticipants(l)
    \/ TickStep
    \/ Restart

Spec == Init /\ [][Next]_vars

\* The cron fires as long as a task recurs, WhatsApp answers some of the requests,
\* and a tick that has started goes on.
Fairness ==
    /\ WF_vars(TickStep)
    /\ \A l \in Lists : SF_vars(GetGroupParticipants(l))

FairSpec == Spec /\ Fairness

-----------------------------------------------------------------------------
\* Nobody is flagged without a reason: who is shown as left was out of the group
\* at some time, or is listed without a number, whatever notices, checks, edits
\* of the assignees and restarts interleave with one another.
FlagHasReason ==
    \A i \in DOMAIN rows :
        rows[i].left => rows[i].person \in away \cup (People \ (PhoneListed \cup NumberKnown))

\* Nobody is flagged behind the owner's back: of every flagged row the owner was
\* alerted or is about to be, unless that very alert was lost: refused by
\* WhatsApp, cut off by a restart, suppressed as the list was not active, or
\* passed over because the row came between the SELECT and the UPDATE.
FlagsAreTold ==
    \A i \in DOMAIN rows : rows[i].left => i \in told \cup untold \cup Pending

Unnoticed(t, p) ==
    /\ p \notin members
    /\ status[ListOf[t]] = "active"
    /\ Participants \cap (PhoneListed \cup NumberKnown) # {}
    /\ \E i \in RowsOf(t) : rows[i].person = p /\ ~rows[i].left

\* A departure is noticed also when its notice was lost: an assignee that stays
\* away is flagged by a check before a reminder, as long as reminders of the list
\* recur.
DepartureNoticed == \A t \in Tasks, p \in People : []<>~Unnoticed(t, p)
=============================================================================
