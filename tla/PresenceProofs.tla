---------------------------- MODULE PresenceProofs ----------------------------
(***************************************************************************)
(* Flags of departed assignees have a reason and are told, for any group,  *)
(* lists, tasks, web requests, and any number of moves and restarts.       *)
(***************************************************************************)
EXTENDS Presence, FiniteSetTheorems, TLAPS

\* Who may be flagged without an error
Excused(p) == p \in away \cup (People \ (PhoneListed \cup NumberKnown))

\* A notice or a list of participants that somebody is missing from is evidence.
EvidenceSound ==
    /\ People \ members \subseteq away
    /\ notices \subseteq away
    /\ local[Events].pc \in {"stop", "mark"} => local[Events].person \in away
    /\ tick # Idle => \A p \in People \ tick.present : Excused(p)

\* An id that the tick has read still means the same person, if anybody: ids are
\* never given out again.
IdsStable ==
    tick.pc \in {"check", "alert"} =>
        \A r \in tick.todo :
            /\ r.id < nextRow
            /\ r.id \in DOMAIN rows => rows[r.id].person = r.person

\* Between the SELECT and the UPDATE, rows that the SELECT has not seen are new.
SelectedKnown ==
    local[Events].pc = "mark" =>
        /\ local[Events].before <= nextRow
        /\ \A i \in DOMAIN rows :
              /\ i < local[Events].before
              /\ rows[i].person = local[Events].person /\ Matches(local[Events].person)
              /\ ~rows[i].left
              => rows[i].task \in local[Events].affected

TickPending == IF tick.pc = "alert" THEN {tick.row} \cap DOMAIN rows ELSE {}

\* An owner on the list of those notified has been sent an alert that covers every
\* row of that person in any list of that owner.
NotifiedTold ==
    local[Events].pc = "alert" =>
        \A i \in DOMAIN rows :
            /\ rows[i].left /\ rows[i].person = local[Events].person
            /\ Owner[ListOf[rows[i].task]] \in local[Events].notified
            => i \in told \cup untold \cup TickPending

\* The inductive invariant
IInv ==
    /\ TypeOK
    /\ EvidenceSound
    /\ IdsStable
    /\ SelectedKnown
    /\ NotifiedTold
    /\ FlagHasReason
    /\ FlagsAreTold

USE PresenceAssumption

LEMMA IdleType == Idle \in Locals /\ Idle \in TickLocals /\ Idle.pc = "idle"
BY DEF Idle, Locals, TickLocals

LEMMA LocalType ==
    ASSUME TypeOK, NEW g \in {Events} \cup Web
    PROVE  /\ local[g].pc = "stop" =>
                 local[g] \in [pc : {"stop"}, person : People, todo : SUBSET Lists]
           /\ local[g].pc = "mark" =>
                 local[g] \in [pc : {"mark"}, person : People, affected : SUBSET Tasks,
                               before : RowIds \cup {MaxRows + 1}]
           /\ local[g].pc = "alert" =>
                 local[g] \in [pc : {"alert"}, person : People, todo : SUBSET Tasks,
                               notified : SUBSET People]
           /\ local[g].pc \in {"insert", "replace"} =>
                 local[g] \in [pc : {"insert", "replace"}, task : Tasks, people : SUBSET People]
<1>1. local[g] \in Locals
  BY DEF TypeOK
<1> QED  BY <1>1 DEF Locals, Idle

LEMMA GotoType ==
    ASSUME TypeOK, NEW g \in {Events} \cup Web, NEW l \in Locals, Goto(g, l)
    PROVE  /\ local' \in [{Events} \cup Web -> Locals]
           /\ local'[g] = l
           /\ g # Events => local'[Events] = local[Events]
BY DEF TypeOK, Goto

LEMMA RowsType ==
    ASSUME TypeOK, NEW i \in DOMAIN rows
    PROVE  /\ rows[i] \in Row /\ rows[i].task \in Tasks /\ rows[i].person \in People
           /\ rows[i].left \in BOOLEAN
           /\ i \in RowIds /\ i < nextRow /\ i \in Nat /\ nextRow \in Nat
           /\ stage[rows[i].task] = "there"
<1>1. nextRow \in 1 .. MaxRows + 1 /\ i \in 1 .. nextRow - 1 /\ rows[i] \in Row
      /\ stage[rows[i].task] = "there"
  BY DEF TypeOK
<1> QED  BY <1>1 DEF Row, RowIds

-----------------------------------------------------------------------------
\* The rows that are inserted for some people
LEMMA SeqOfPeople ==
    ASSUME NEW ps \in SUBSET People
    PROVE  /\ Cardinality(ps) \in Nat
           /\ SetToSeq(ps) \in [1 .. Cardinality(ps) -> ps]
<1>1. IsFiniteSet(ps)
  BY FS_Subset
<1>2. Cardinality(ps) \in Nat /\ ExistsBijection(1 .. Cardinality(ps), ps)
  BY <1>1, FS_CardinalityType
<1>3. \E f \in [1 .. Cardinality(ps) -> ps] : IsInjective(f)
  BY <1>2 DEF ExistsBijection, Bijection, Injection
<1> QED  BY <1>2, <1>3 DEF SetToSeq

\* Rows are inserted with new ids and unflagged, beside those that are kept.
LEMMA Inserted ==
    ASSUME TypeOK, NEW t \in Tasks, NEW ps \in SUBSET People, Fits(ps),
           NEW kept, DOMAIN kept \subseteq DOMAIN rows,
           \A i \in DOMAIN kept : kept[i] = rows[i],
           Insert(t, ps, kept)
    PROVE  /\ nextRow' \in 1 .. MaxRows + 1 /\ nextRow <= nextRow'
           /\ DOMAIN rows' \subseteq 1 .. nextRow' - 1
           /\ \A i \in DOMAIN rows' :
                 \/ i \in DOMAIN kept /\ rows'[i] = rows[i]
                 \/ /\ i >= nextRow /\ rows'[i] \in Row /\ ~rows'[i].left
                    /\ rows'[i].task = t
<1> DEFINE n == Cardinality(ps)
           new == NewRows(t, ps, nextRow)
<1>1. n \in Nat /\ SetToSeq(ps) \in [1 .. n -> ps]
  BY SeqOfPeople
<1> HIDE DEF n
<1>2. nextRow \in Nat /\ nextRow >= 1 /\ DOMAIN rows \subseteq 1 .. nextRow - 1
  BY DEF TypeOK
<1>3. /\ nextRow' = nextRow + n /\ nextRow + n <= MaxRows + 1
      /\ rows' = [i \in DOMAIN new \cup DOMAIN kept |->
                     IF i \in DOMAIN new THEN new[i] ELSE kept[i]]
  BY DEF Insert, FirstRow, Fits, n
<1>4. /\ DOMAIN new = nextRow .. nextRow + n - 1
      /\ \A i \in DOMAIN new : new[i] = [task |-> t, person |-> SetToSeq(ps)[i - nextRow + 1],
                                         left |-> FALSE]
  BY DEF NewRows, n
<1> HIDE DEF new
<1>5. \A i \in DOMAIN new : new[i] \in Row /\ ~new[i].left /\ new[i].task = t
  <2> SUFFICES ASSUME NEW i \in DOMAIN new
               PROVE  new[i] \in Row /\ ~new[i].left /\ new[i].task = t
    OBVIOUS
  <2>1. i - nextRow + 1 \in 1 .. n
    BY <1>1, <1>2, <1>4
  <2>2. SetToSeq(ps)[i - nextRow + 1] \in People
    BY <1>1, <2>1
  <2>3. FALSE \in BOOLEAN
    OBVIOUS
  <2>4. [task |-> t, person |-> SetToSeq(ps)[i - nextRow + 1], left |-> FALSE] \in Row
    BY <2>2, <2>3 DEF Row
  <2>5. new[i].left = FALSE /\ new[i].task = t
    BY <1>4
  <2>6. ~new[i].left
    BY <2>5, Zenon
  <2> QED  BY <1>4, <2>4, <2>5, <2>6
<1>6. /\ DOMAIN rows' = DOMAIN new \cup DOMAIN kept
      /\ \A i \in DOMAIN rows' : rows'[i] = IF i \in DOMAIN new THEN new[i] ELSE kept[i]
  BY <1>3
<1>7. nextRow' \in 1 .. MaxRows + 1 /\ nextRow <= nextRow'
  BY <1>1, <1>2, <1>3
<1>8. DOMAIN rows' \subseteq 1 .. nextRow' - 1
  BY <1>1, <1>2, <1>3, <1>4, <1>6
<1>9. \A i \in DOMAIN new : i >= nextRow
  BY <1>1, <1>2, <1>4
<1> QED  BY <1>5, <1>6, <1>7, <1>8, <1>9

LEMMA InitEstablishes == ASSUME Init PROVE IInv
<1>1. TypeOK
  BY IdleType DEF Init, TypeOK
<1>2. local[Events].pc = "idle" /\ tick.pc = "idle"
  BY IdleType DEF Init
<1> QED  BY <1>1, <1>2 DEF Init, IInv, EvidenceSound, IdsStable, SelectedKnown, NotifiedTold,
                           FlagHasReason, FlagsAreTold

-----------------------------------------------------------------------------
\* Rows come and go, none is flagged, and the tick and the handler of notices
\* stay where they are, or the latter starts or ends nothing it has to tell of.
LEMMA NothingFlagged ==
    ASSUME IInv, TypeOK', EvidenceSound',
           \A i \in DOMAIN rows' :
               \/ i \in DOMAIN rows /\ rows'[i] = rows[i]
               \/ i >= nextRow /\ ~rows'[i].left,
           nextRow <= nextRow',
           UNCHANGED <<tick, told, untold>>, away \subseteq away',
           \/ local'[Events] = local[Events]
           \/ /\ local[Events].pc # "alert"
              /\ local'[Events].pc \notin {"mark", "alert"}
    PROVE  IInv'
<1>1. nextRow \in Nat /\ nextRow' \in Nat
  BY DEF IInv, TypeOK
<1>2. IdsStable'
  <2> SUFFICES ASSUME tick.pc \in {"check", "alert"}, NEW r \in tick.todo
               PROVE  /\ r.id < nextRow'
                      /\ r.id \in DOMAIN rows' => rows'[r.id].person = r.person
    BY DEF IdsStable
  <2>1. r.id < nextRow /\ (r.id \in DOMAIN rows => rows[r.id].person = r.person)
    BY DEF IInv, IdsStable
  <2>2. r.id \in Nat
    BY DEF IInv, TypeOK, TickLocals, Idle, RowIds
  <2> QED  BY <1>1, <2>1, <2>2
<1>3. SelectedKnown'
  <2> SUFFICES ASSUME local'[Events].pc = "mark"
               PROVE  /\ local'[Events].before <= nextRow'
                      /\ \A i \in DOMAIN rows' :
                            /\ i < local'[Events].before
                            /\ rows'[i].person = local'[Events].person
                            /\ Matches(local'[Events].person)
                            /\ ~rows'[i].left
                            => rows'[i].task \in local'[Events].affected
    BY DEF SelectedKnown, Matches
  <2>1. local'[Events] = local[Events]
    OBVIOUS
  <2>2. local[Events].before \in Nat /\ local[Events].before <= nextRow
    BY <2>1, LocalType DEF IInv, SelectedKnown, RowIds
  <2>3. ASSUME NEW i \in DOMAIN rows', i < local'[Events].before
        PROVE  i \in DOMAIN rows /\ rows'[i] = rows[i]
    <3>1. i \in Nat
      BY DEF TypeOK
    <3> QED  BY <1>1, <2>1, <2>2, <2>3, <3>1
  <2> QED  BY <1>1, <2>1, <2>2, <2>3 DEF IInv, SelectedKnown
<1>4. \A i \in DOMAIN rows' : rows'[i].left => i \in DOMAIN rows /\ rows'[i] = rows[i]
  OBVIOUS
<1>5. NotifiedTold'
  BY <1>4 DEF IInv, NotifiedTold, TickPending
<1>6. FlagsAreTold'
  <2> SUFFICES ASSUME NEW i \in DOMAIN rows', rows'[i].left
               PROVE  i \in told' \cup untold' \cup Pending'
    BY DEF FlagsAreTold
  <2>1. i \in DOMAIN rows /\ rows'[i] = rows[i]
    BY <1>4
  <2>2. i \in told \cup untold \cup Pending
    BY <2>1 DEF IInv, FlagsAreTold
  <2>3. CASE i \in told \cup untold
    BY <2>3
  <2>4. CASE tick.pc = "alert" /\ i \in {tick.row} \cap DOMAIN rows
    BY <2>4 DEF Pending
  <2>5. CASE local[Events].pc = "alert"
             /\ i \in UNION {FlaggedOf(t, local[Events].person) : t \in local[Events].todo}
    <3>1. local'[Events] = local[Events]
      BY <2>5
    <3>2. PICK t \in local[Events].todo : i \in FlaggedOf(t, local[Events].person)
      BY <2>5
    <3>3. i \in FlaggedOf(t, local[Events].person)'
      BY <2>1, <3>1, <3>2 DEF FlaggedOf, RowsOf
    <3> QED  BY <2>5, <3>1, <3>3 DEF Pending
  <2> QED  BY <2>2, <2>3, <2>4, <2>5 DEF Pending
<1>7. FlagHasReason'
  BY <1>4 DEF IInv, FlagHasReason
<1> QED  BY <1>2, <1>3, <1>5, <1>6, <1>7 DEF IInv

\* Of the members and the handlers' knowledge nothing changes.
LEMMA EvidenceKept ==
    ASSUME IInv, UNCHANGED <<members, notices, tick, away>>,
           \/ local'[Events] = local[Events]
           \/ local'[Events].pc \notin {"stop", "mark"}
    PROVE  EvidenceSound'
BY DEF IInv, EvidenceSound, Excused

LEMMA LeaveStep == ASSUME IInv, NEW p \in People, Leave(p) PROVE IInv'
<1>1. /\ members' = members \ {p} /\ notices' \in {notices, notices \cup {p}}
      /\ away' = away \cup {p} /\ moves' = moves + 1 /\ moves < MaxMoves
      /\ UNCHANGED <<status, stage, rows, nextRow, local, tick, restarts, told, untold>>
  BY DEF Leave, tables
<1>2. TypeOK'
  BY <1>1 DEF IInv, TypeOK
<1>3. EvidenceSound'
  BY <1>1 DEF IInv, EvidenceSound, Excused
<1>4. nextRow <= nextRow'
  BY <1>1 DEF IInv, TypeOK
<1> QED  BY <1>1, <1>2, <1>3, <1>4, NothingFlagged

LEMMA ReturnStep == ASSUME IInv, NEW p \in People, Return(p) PROVE IInv'
<1>1. /\ members' = members \cup {p} /\ moves' = moves + 1 /\ moves < MaxMoves
      /\ UNCHANGED <<notices, status, stage, rows, nextRow, local, tick, restarts, away, told,
                     untold>>
  BY DEF Return, tables, history
<1>2. TypeOK'
  BY <1>1 DEF IInv, TypeOK
<1>3. EvidenceSound'
  BY <1>1 DEF IInv, EvidenceSound, Excused
<1>4. nextRow <= nextRow'
  BY <1>1 DEF IInv, TypeOK
<1> QED  BY <1>1, <1>2, <1>3, <1>4, NothingFlagged

LEMMA ValidateStep ==
    ASSUME IInv, NEW g \in {Events} \cup Web, NEW t \in Tasks, NEW ps \in SUBSET People,
           Validate(g, t, ps)
    PROVE  IInv'
<1>1. PICK pc \in {"insert", "replace"} : Goto(g, [pc |-> pc, task |-> t, people |-> ps])
  BY DEF Validate
<1>2. [pc |-> pc, task |-> t, people |-> ps] \in Locals
  BY DEF Locals
<1>3. /\ local' \in [{Events} \cup Web -> Locals]
      /\ local'[g] = [pc |-> pc, task |-> t, people |-> ps]
      /\ g # Events => local'[Events] = local[Events]
  BY <1>1, <1>2, GotoType DEF IInv
<1>4. UNCHANGED <<members, notices, status, stage, rows, nextRow, tick, moves, restarts, away,
                  told, untold>> /\ local[g].pc = "idle"
  BY IdleType DEF Validate, tables, history
<1>5. TypeOK'
  BY <1>3, <1>4 DEF IInv, TypeOK
<1>6. EvidenceSound'
  BY <1>3, <1>4, EvidenceKept
<1>7. nextRow <= nextRow'
  BY <1>4 DEF IInv, TypeOK
<1> QED  BY <1>3, <1>4, <1>5, <1>6, <1>7, NothingFlagged

\* A handler that has validated its assignees ends, having written or not.
LEMMA WriteEnds ==
    ASSUME IInv, NEW g \in {Events} \cup Web, local[g].pc \in {"insert", "replace"},
           Goto(g, Idle),
           UNCHANGED <<members, notices, status, tick, moves, restarts, away, told, untold>>,
           stage' \in [Tasks -> {"new", "there", "deleted"}],
           nextRow' \in 1 .. MaxRows + 1, nextRow <= nextRow',
           DOMAIN rows' \subseteq 1 .. nextRow' - 1,
           \A i \in DOMAIN rows' :
              /\ rows'[i] \in Row /\ stage'[rows'[i].task] = "there"
              /\ \/ i \in DOMAIN rows /\ rows'[i] = rows[i]
                 \/ i >= nextRow /\ ~rows'[i].left
    PROVE  IInv'
<1>1. /\ local' \in [{Events} \cup Web -> Locals]
      /\ local'[g].pc = "idle"
      /\ g # Events => local'[Events] = local[Events]
  BY IdleType, GotoType DEF IInv
<1>2. TypeOK'
  BY <1>1 DEF IInv, TypeOK
<1>3. EvidenceSound'
  BY <1>1, EvidenceKept
<1> QED  BY <1>1, <1>2, <1>3, NothingFlagged

LEMMA CreateTaskStep ==
    ASSUME IInv, NEW g \in {Events} \cup Web, CreateTask(g)
    PROVE  IInv'
<1> DEFINE t == local[g].task
           ps == local[g].people
<1>1. t \in Tasks /\ ps \in SUBSET People
  BY LocalType DEF IInv, CreateTask
<1>2. UNCHANGED <<members, notices, status, tick, moves, restarts, away, told, untold>>
  BY DEF CreateTask, history
<1>3. /\ nextRow \in 1 .. MaxRows + 1 /\ DOMAIN rows \subseteq 1 .. nextRow - 1
      /\ \A i \in DOMAIN rows : rows[i] \in Row /\ stage[rows[i].task] = "there"
      /\ stage \in [Tasks -> {"new", "there", "deleted"}]
  BY DEF IInv, TypeOK
<1>4. CASE stage[t] = "new" /\ Fits(ps)
  <2>1. stage' = [stage EXCEPT ![t] = "there"] /\ Insert(t, ps, rows)
    BY <1>4 DEF CreateTask
  <2>2. /\ nextRow' \in 1 .. MaxRows + 1 /\ nextRow <= nextRow'
        /\ DOMAIN rows' \subseteq 1 .. nextRow' - 1
        /\ \A i \in DOMAIN rows' :
              \/ i \in DOMAIN rows /\ rows'[i] = rows[i]
              \/ /\ i >= nextRow /\ rows'[i] \in Row /\ ~rows'[i].left
                 /\ rows'[i].task = t
    BY <1>1, <1>4, <2>1, Inserted DEF IInv
  <2> HIDE DEF t, ps
  <2>3. /\ stage' \in [Tasks -> {"new", "there", "deleted"}] /\ stage'[t] = "there"
        /\ \A u : stage[u] = "there" /\ u \in Tasks => stage'[u] = "there"
    BY <1>1, <1>3, <2>1
  <2>4. \A i \in DOMAIN rows : rows[i].task \in Tasks
    BY RowsType DEF IInv
  <2>5. \A i \in DOMAIN rows' :
              /\ rows'[i] \in Row /\ stage'[rows'[i].task] = "there"
              /\ \/ i \in DOMAIN rows /\ rows'[i] = rows[i]
                 \/ i >= nextRow /\ ~rows'[i].left
    BY <1>3, <2>2, <2>3, <2>4
  <2> QED  BY <1>2, <2>2, <2>3, <2>5, WriteEnds DEF CreateTask
<1>5. CASE UNCHANGED <<stage, rows, nextRow>>
  <2>1. /\ nextRow' \in 1 .. MaxRows + 1 /\ nextRow <= nextRow'
        /\ DOMAIN rows' \subseteq 1 .. nextRow' - 1
    BY <1>3, <1>5
  <2>2. stage' \in [Tasks -> {"new", "there", "deleted"}]
    BY <1>2, <1>3, <1>5
  <2>3. \A i \in DOMAIN rows' :
              /\ rows'[i] \in Row /\ stage'[rows'[i].task] = "there"
              /\ i \in DOMAIN rows /\ rows'[i] = rows[i]
    BY <1>2, <1>3, <1>5
  <2>4. local[g].pc \in {"insert", "replace"} /\ Goto(g, Idle)
    BY DEF CreateTask
  <2> QED  BY <1>2, <2>1, <2>2, <2>3, <2>4, WriteEnds
<1> QED  BY <1>4, <1>5 DEF CreateTask

LEMMA ReplaceTaskAssigneesStep ==
    ASSUME IInv, NEW g \in {Events} \cup Web, ReplaceTaskAssignees(g)
    PROVE  IInv'
<1> DEFINE t == local[g].task
           ps == local[g].people
           kept == Restrict(rows, DOMAIN rows \ RowsOf(t))
<1>1. t \in Tasks /\ ps \in SUBSET People
  BY LocalType DEF IInv, ReplaceTaskAssignees
<1>2. UNCHANGED <<members, notices, status, stage, tick, moves, restarts, away, told, untold>>
  BY DEF ReplaceTaskAssignees, history
<1>3. /\ nextRow \in 1 .. MaxRows + 1 /\ DOMAIN rows \subseteq 1 .. nextRow - 1
      /\ \A i \in DOMAIN rows : rows[i] \in Row /\ stage[rows[i].task] = "there"
      /\ stage \in [Tasks -> {"new", "there", "deleted"}]
  BY DEF IInv, TypeOK
<1>4. CASE stage[t] = "there" /\ Fits(ps)
  <2>1. Insert(t, ps, kept)
    BY <1>4 DEF ReplaceTaskAssignees
  <2>2. DOMAIN kept \subseteq DOMAIN rows /\ \A i \in DOMAIN kept : kept[i] = rows[i]
    BY DEF Restrict
  <2> HIDE DEF t, ps, kept
  <2>3. /\ nextRow' \in 1 .. MaxRows + 1 /\ nextRow <= nextRow'
        /\ DOMAIN rows' \subseteq 1 .. nextRow' - 1
        /\ \A i \in DOMAIN rows' :
              \/ i \in DOMAIN kept /\ rows'[i] = rows[i]
              \/ /\ i >= nextRow /\ rows'[i] \in Row /\ ~rows'[i].left
                 /\ rows'[i].task = t
    BY <1>1, <1>4, <2>1, <2>2, Inserted DEF IInv
  <2>4. \A i \in DOMAIN rows' :
              /\ rows'[i] \in Row /\ stage'[rows'[i].task] = "there"
              /\ \/ i \in DOMAIN rows /\ rows'[i] = rows[i]
                 \/ i >= nextRow /\ ~rows'[i].left
    BY <1>2, <1>3, <1>4, <2>2, <2>3
  <2>5. local[g].pc \in {"insert", "replace"} /\ Goto(g, Idle)
    BY DEF ReplaceTaskAssignees
  <2>6. stage' \in [Tasks -> {"new", "there", "deleted"}]
    BY <1>2, <1>3
  <2> QED  BY <1>2, <2>3, <2>4, <2>5, <2>6, WriteEnds
<1>5. CASE UNCHANGED <<rows, nextRow>>
  <2>1. /\ nextRow' \in 1 .. MaxRows + 1 /\ nextRow <= nextRow'
        /\ DOMAIN rows' \subseteq 1 .. nextRow' - 1
    BY <1>3, <1>5
  <2>2. stage' \in [Tasks -> {"new", "there", "deleted"}]
    BY <1>2, <1>3, <1>5
  <2>3. \A i \in DOMAIN rows' :
              /\ rows'[i] \in Row /\ stage'[rows'[i].task] = "there"
              /\ i \in DOMAIN rows /\ rows'[i] = rows[i]
    BY <1>2, <1>3, <1>5
  <2>4. local[g].pc \in {"insert", "replace"} /\ Goto(g, Idle)
    BY DEF ReplaceTaskAssignees
  <2> QED  BY <1>2, <2>1, <2>2, <2>3, <2>4, WriteEnds
<1> QED  BY <1>4, <1>5 DEF ReplaceTaskAssignees

LEMMA DeleteTaskStep == ASSUME IInv, NEW t \in Tasks, DeleteTask(t) PROVE IInv'
<1>1. /\ stage' = [stage EXCEPT ![t] = "deleted"]
      /\ DOMAIN rows' = DOMAIN rows \ RowsOf(t)
      /\ \A i \in DOMAIN rows' : rows'[i] = rows[i]
      /\ UNCHANGED <<members, notices, status, nextRow, local, tick, moves, restarts, away,
                     told, untold>>
  BY DEF DeleteTask, Restrict, history
<1>2. \A i \in DOMAIN rows' : rows'[i] \in Row /\ stage'[rows'[i].task] = "there"
  BY <1>1, RowsType DEF IInv, TypeOK, RowsOf
<1>3. TypeOK'
  BY <1>1, <1>2 DEF IInv, TypeOK
<1>4. EvidenceSound'
  BY <1>1, EvidenceKept
<1>5. nextRow <= nextRow'
  BY <1>1 DEF IInv, TypeOK
<1> QED  BY <1>1, <1>3, <1>4, <1>5, NothingFlagged

LEMMA StatusStep == ASSUME IInv, NEW l \in Lists, PublishList(l) \/ StopList(l) PROVE IInv'
<1>1. /\ status' \in [Lists -> {"unpublished", "active", "stopped"}]
      /\ UNCHANGED <<members, notices, stage, rows, nextRow, local, tick, moves, restarts, away,
                     told, untold>>
  BY DEF IInv, TypeOK, PublishList, StopList, history
<1>2. TypeOK'
  BY <1>1 DEF IInv, TypeOK
<1>3. EvidenceSound'
  BY <1>1, EvidenceKept
<1>4. nextRow <= nextRow'
  BY <1>1 DEF IInv, TypeOK
<1> QED  BY <1>1, <1>2, <1>3, <1>4, NothingFlagged

-----------------------------------------------------------------------------
\* The handler of notices
LEMMA MemberLeftStep == ASSUME IInv, NEW p \in People, MemberLeft(p) PROVE IInv'
<1> DEFINE l == [pc |-> "stop", person |-> p,
                 todo |-> {k \in Lists : Matches(p) /\ Owner[k] = p /\ status[k] # "stopped"}]
<1>1. l \in Locals
  BY DEF Locals
<1>2. /\ local' \in [{Events} \cup Web -> Locals]
      /\ local'[Events] = l
  BY <1>1, GotoType DEF IInv, MemberLeft
<1>3. /\ notices' = notices \ {p} /\ p \in notices /\ local[Events].pc = "idle"
      /\ UNCHANGED <<members, status, stage, rows, nextRow, tick, moves, restarts, away, told,
                     untold>>
  BY IdleType DEF MemberLeft, tables, history
<1>4. TypeOK'
  BY <1>2, <1>3 DEF IInv, TypeOK
<1>5. EvidenceSound'
  BY <1>2, <1>3 DEF IInv, EvidenceSound, Excused
<1>6. nextRow <= nextRow'
  BY <1>3 DEF IInv, TypeOK
<1> QED  BY <1>2, <1>3, <1>4, <1>5, <1>6, NothingFlagged

LEMMA StopOwnListStep == ASSUME IInv, StopOwnList PROVE IInv'
<1>1. PICK l \in local[Events].todo :
          /\ status' = [status EXCEPT ![l] = "stopped"]
          /\ Goto(Events, [local[Events] EXCEPT !.todo = @ \ {l}])
  BY DEF StopOwnList
<1>2. local[Events] \in [pc : {"stop"}, person : People, todo : SUBSET Lists]
  BY LocalType DEF IInv, StopOwnList
<1>3. /\ [local[Events] EXCEPT !.todo = @ \ {l}] \in Locals
      /\ [local[Events] EXCEPT !.todo = @ \ {l}].pc = "stop"
      /\ [local[Events] EXCEPT !.todo = @ \ {l}].person = local[Events].person
  BY <1>2 DEF Locals
<1>4. /\ local' \in [{Events} \cup Web -> Locals]
      /\ local'[Events].pc = "stop" /\ local'[Events].person = local[Events].person
  BY <1>1, <1>3, GotoType DEF IInv
<1>5. /\ local[Events].pc = "stop"
      /\ UNCHANGED <<members, notices, stage, rows, nextRow, tick, moves, restarts, away, told,
                     untold>>
  BY DEF StopOwnList, history
<1>6. status' \in [Lists -> {"unpublished", "active", "stopped"}]
  BY <1>1 DEF IInv, TypeOK
<1>7. TypeOK'
  BY <1>4, <1>5, <1>6 DEF IInv, TypeOK
<1>8. EvidenceSound'
  BY <1>4, <1>5 DEF IInv, EvidenceSound, Excused
<1>9. nextRow <= nextRow'
  BY <1>5 DEF IInv, TypeOK
<1> QED  BY <1>4, <1>5, <1>7, <1>8, <1>9, NothingFlagged

LEMMA SelectAffectedStep == ASSUME IInv, SelectAffected PROVE IInv'
<1> DEFINE p == local[Events].person
           l == [pc |-> "mark", person |-> p, affected |-> AffectedTasks(p), before |-> nextRow]
<1>1. p \in People /\ local[Events].pc = "stop"
  BY LocalType DEF IInv, SelectAffected
<1>2. AffectedTasks(p) \subseteq Tasks
  BY RowsType DEF IInv, AffectedTasks
<1>3. nextRow \in RowIds \cup {MaxRows + 1}
  BY DEF IInv, TypeOK, RowIds
<1>4. l \in Locals
  BY <1>1, <1>2, <1>3 DEF Locals
<1>5. local' \in [{Events} \cup Web -> Locals] /\ local'[Events] = l
  BY <1>4, GotoType DEF IInv, SelectAffected
<1>6. UNCHANGED <<members, notices, status, stage, rows, nextRow, tick, moves, restarts, away,
                  told, untold>>
  BY DEF SelectAffected, tables, history
<1>7. TypeOK'
  BY <1>5, <1>6 DEF IInv, TypeOK
<1>8. EvidenceSound'
  BY <1>1, <1>5, <1>6 DEF IInv, EvidenceSound, Excused
<1>9. (IdsStable /\ FlagHasReason)'
  BY <1>6 DEF IInv, IdsStable, FlagHasReason
<1>10. NotifiedTold'
  BY <1>5 DEF NotifiedTold
<1>11. SelectedKnown'
  <2>1. nextRow <= nextRow'
    BY <1>6 DEF IInv, TypeOK
  <2>2. ASSUME NEW i \in DOMAIN rows, rows[i].person = p, Matches(p), ~rows[i].left
        PROVE  rows[i].task \in AffectedTasks(p)
    BY <2>2 DEF AffectedTasks
  <2> HIDE DEF p
  <2>3. local'[Events].before = nextRow /\ local'[Events].person = p
        /\ local'[Events].affected = AffectedTasks(p)
    BY <1>5
  <2> QED  BY <1>6, <2>1, <2>2, <2>3 DEF SelectedKnown, Matches
<1>12. FlagsAreTold'
  BY <1>1, <1>5, <1>6 DEF IInv, FlagsAreTold, Pending
<1> QED  BY <1>7, <1>8, <1>9, <1>10, <1>11, <1>12 DEF IInv

\* Flagging rows changes nothing else of them.
LEMMA Flagged ==
    ASSUME TypeOK, NEW ids, Flag(ids)
    PROVE  /\ DOMAIN rows' = DOMAIN rows
           /\ \A i \in DOMAIN rows :
                 /\ rows'[i] \in Row
                 /\ rows'[i].task = rows[i].task /\ rows'[i].person = rows[i].person
                 /\ i \in ids => rows'[i].left
                 /\ i \notin ids => rows'[i] = rows[i]
<1>1. rows' = [i \in DOMAIN rows |-> IF i \in ids THEN [rows[i] EXCEPT !.left = TRUE]
                                                 ELSE rows[i]]
  BY DEF Flag
<1>2. DOMAIN rows' = DOMAIN rows
  BY <1>1
<1>3. ASSUME NEW i \in DOMAIN rows
      PROVE  /\ rows'[i] \in Row
             /\ rows'[i].task = rows[i].task /\ rows'[i].person = rows[i].person
             /\ i \in ids => rows'[i].left
             /\ i \notin ids => rows'[i] = rows[i]
  <2>1. rows[i] \in Row
    BY RowsType
  <2>2. CASE i \in ids
    <3>1. rows'[i] = [rows[i] EXCEPT !.left = TRUE]
      BY <1>1, <2>2
    <3>2. rows'[i] \in Row /\ rows'[i].task = rows[i].task /\ rows'[i].person = rows[i].person
      BY <2>1, <3>1 DEF Row
    <3>3. rows'[i].left = TRUE
      BY <2>1, <3>1 DEF Row
    <3>4. rows'[i].left
      BY <3>3, Zenon
    <3> QED  BY <2>2, <3>2, <3>4
  <2>3. CASE i \notin ids
    BY <1>1, <2>1, <2>3
  <2> QED  BY <2>2, <2>3
<1> QED  BY <1>2, <1>3

LEMMA MarkAssigneeLeftStep == ASSUME IInv, MarkAssigneeLeft PROVE IInv'
<1>1. PICK p \in People, affected \in SUBSET Tasks :
          p = local[Events].person /\ affected = local[Events].affected
  BY LocalType DEF IInv, MarkAssigneeLeft
<1> DEFINE ids == {i \in DOMAIN rows : Matches(p) /\ rows[i].person = p}
<1>2. /\ local[Events].pc = "mark"
      /\ Flag(ids)
      /\ untold' = untold \cup {i \in ids : i >= local[Events].before}
      /\ AlertNext(p, affected, {})
      /\ UNCHANGED <<members, notices, status, stage, nextRow, tick, moves, restarts, away, told>>
  BY <1>1 DEF MarkAssigneeLeft
<1>3. /\ local' \in [{Events} \cup Web -> Locals]
      /\ affected = {} => local'[Events].pc = "idle"
      /\ affected # {} => local'[Events] = [pc |-> "alert", person |-> p, todo |-> affected,
                                            notified |-> {}]
  <2>1. [pc |-> "alert", person |-> p, todo |-> affected, notified |-> {}] \in Locals
    BY <1>1 DEF Locals
  <2> QED  BY <1>2, <2>1, IdleType, GotoType DEF IInv, AlertNext
<1>4. /\ DOMAIN rows' = DOMAIN rows
      /\ \A i \in DOMAIN rows :
            /\ rows'[i] \in Row
            /\ rows'[i].task = rows[i].task /\ rows'[i].person = rows[i].person
            /\ i \in ids => rows'[i].left
            /\ i \notin ids => rows'[i] = rows[i]
  BY <1>2, Flagged DEF IInv
<1>5. ids \subseteq RowIds
  BY RowsType DEF IInv
<1>6. TypeOK'
  BY <1>2, <1>3, <1>4, <1>5 DEF IInv, TypeOK
<1>7. local'[Events].pc \in {"idle", "alert"}
  BY <1>3
<1>8. EvidenceSound'
  BY <1>2, <1>7, EvidenceKept
<1>9. IdsStable'
  BY <1>2, <1>4 DEF IInv, IdsStable
<1>10. SelectedKnown'
  BY <1>7 DEF SelectedKnown
<1>11. NotifiedTold'
  <2>1. local'[Events].pc = "alert" => local'[Events].notified = {}
    BY <1>3
  <2> QED  BY <2>1 DEF NotifiedTold
<1>12. FlagHasReason'
  <2>1. p \in away
    BY <1>1, <1>2 DEF IInv, EvidenceSound
  <2> QED  BY <1>2, <1>4, <2>1 DEF IInv, FlagHasReason
<1>13. FlagsAreTold'
  <2> SUFFICES ASSUME NEW i \in DOMAIN rows, rows'[i].left
               PROVE  i \in told' \cup untold' \cup Pending'
    BY <1>4 DEF FlagsAreTold
  <2>1. CASE rows[i].left
    <3>1. i \in told \cup untold \cup TickPending
      BY <1>2, <2>1 DEF IInv, FlagsAreTold, Pending, TickPending
    <3> QED  BY <1>2, <1>4, <3>1 DEF Pending, TickPending
  <2>2. CASE ~rows[i].left
    <3>1. i \in ids
      BY <1>4, <2>2
    <3>2. CASE i >= local[Events].before
      BY <1>2, <3>1, <3>2
    <3>3. CASE ~(i >= local[Events].before)
      <4>1. i < local[Events].before
        <5>1. i \in Nat /\ local[Events].before \in Nat
          BY <1>2, LocalType, RowsType DEF IInv, RowIds
        <5> QED  BY <3>3, <5>1
      <4>0. PICK t \in Tasks : t = rows[i].task
        BY RowsType DEF IInv
      <4>2. t \in affected
        BY <1>1, <1>2, <2>2, <3>1, <4>0, <4>1 DEF IInv, SelectedKnown
      <4>3. /\ local'[Events].pc = "alert" /\ local'[Events].person = p
            /\ t \in local'[Events].todo
        BY <1>3, <4>2
      <4>4. i \in FlaggedOf(t, p)'
        BY <1>4, <3>1, <4>0 DEF FlaggedOf, RowsOf
      <4> QED  BY <4>3, <4>4 DEF Pending
    <3> QED  BY <3>2, <3>3
  <2> QED  BY <2>1, <2>2
<1> QED  BY <1>6, <1>8, <1>9, <1>10, <1>11, <1>12, <1>13 DEF IInv

LEMMA SendPMGrows ==
    ASSUME NEW ids, ids \subseteq RowIds, SendPM(ids), TypeOK
    PROVE  /\ told' \cup untold' = told \cup untold \cup ids
           /\ told' \subseteq RowIds /\ untold' \subseteq RowIds
BY DEF SendPM, TypeOK

LEMMA AlertOwnerStep == ASSUME IInv, AlertOwner PROVE IInv'
<1>1. /\ local[Events].pc = "alert"
      /\ local[Events] \in [pc : {"alert"}, person : People, todo : SUBSET Tasks,
                            notified : SUBSET People]
  BY LocalType DEF IInv, AlertOwner
<1>2. PICK p \in People, notified \in SUBSET People, todo \in SUBSET Tasks :
          /\ p = local[Events].person
          /\ notified = local[Events].notified
          /\ todo = local[Events].todo
  BY <1>1
<1>3. PICK t \in todo :
          LET o == Owner[ListOf[t]]
          IN  /\ AlertNext(p, todo \ {t}, IF Suppressed(t) THEN notified ELSE notified \cup {o})
              /\ CASE Suppressed(t) -> told' = told /\ untold' = untold \cup FlaggedOf(t, p)
                   [] ~Suppressed(t) /\ o \in notified -> UNCHANGED <<told, untold>>
                   [] OTHER -> SendPM(FlaggedFor(o, p))
  BY <1>2 DEF AlertOwner
<1> DEFINE o == Owner[ListOf[t]]
           n == IF Suppressed(t) THEN notified ELSE notified \cup {o}
<1>4. t \in Tasks /\ o \in People /\ n \in SUBSET People
  BY <1>2
<1>5. UNCHANGED <<members, notices, status, stage, rows, nextRow, tick, moves, restarts, away>>
  BY DEF AlertOwner, tables
<1>6. /\ \A i \in FlaggedOf(t, p) : i \in DOMAIN rows /\ i \in RowIds
      /\ \A i \in FlaggedFor(o, p) : i \in DOMAIN rows /\ i \in RowIds
  BY RowsType DEF IInv, FlaggedOf, FlaggedFor, RowsOf
<1>7. AlertNext(p, todo \ {t}, n)
  BY <1>3
<1> HIDE DEF o, n
<1>8. /\ local' \in [{Events} \cup Web -> Locals]
      /\ todo = {t} => local'[Events].pc = "idle"
      /\ todo # {t} => local'[Events] = [pc |-> "alert", person |-> p, todo |-> todo \ {t},
                                         notified |-> n]
  <2>1. [pc |-> "alert", person |-> p, todo |-> todo \ {t}, notified |-> n] \in Locals
    BY <1>2, <1>4 DEF Locals
  <2> DEFINE next == IF todo \ {t} = {} THEN Idle
                     ELSE [pc |-> "alert", person |-> p, todo |-> todo \ {t}, notified |-> n]
  <2>2. next \in Locals /\ Goto(Events, next)
    BY <1>7, <2>1, IdleType DEF AlertNext
  <2> HIDE DEF next
  <2>3. local' \in [{Events} \cup Web -> Locals] /\ local'[Events] = next
    BY <2>2, GotoType DEF IInv
  <2>4. todo \ {t} = {} <=> todo = {t}
    OBVIOUS
  <2> QED  BY <2>3, <2>4, IdleType DEF next
\* The rows of t are told of, and every row of an owner newly notified.
<1>9. /\ told' \subseteq RowIds /\ untold' \subseteq RowIds
      /\ told \cup untold \subseteq told' \cup untold'
      /\ \A i \in DOMAIN rows :
            /\ rows[i].left /\ rows[i].person = p
            /\ rows[i].task = t \/ Owner[ListOf[rows[i].task]] \in n
            => i \in told' \cup untold' \cup TickPending
  <2>1. \A i \in DOMAIN rows :
            /\ rows[i].left /\ rows[i].person = p
            /\ Owner[ListOf[rows[i].task]] \in notified
            => i \in told \cup untold \cup TickPending
    BY <1>1, <1>2 DEF IInv, NotifiedTold
  <2>2. \A i \in DOMAIN rows :
            rows[i].left /\ rows[i].person = p /\ rows[i].task = t => i \in FlaggedOf(t, p)
    BY DEF FlaggedOf, RowsOf
  <2>3. told \subseteq RowIds /\ untold \subseteq RowIds
    BY DEF IInv, TypeOK
  <2>4. CASE Suppressed(t)
    <3>1. told' = told /\ untold' = untold \cup FlaggedOf(t, p) /\ n = notified
      BY <1>3, <2>4 DEF n
    <3> QED  BY <1>6, <2>1, <2>2, <2>3, <3>1
  <2>5. CASE ~Suppressed(t) /\ o \in notified
    <3>1. told' = told /\ untold' = untold /\ n = notified
      BY <1>3, <2>5 DEF n, o
    <3> QED  BY <2>1, <2>3, <2>5, <3>1 DEF o
  <2>6. CASE ~Suppressed(t) /\ o \notin notified
    <3>1. SendPM(FlaggedFor(o, p)) /\ n = notified \cup {o}
      BY <1>3, <2>6 DEF n, o
    <3>2. /\ told' \cup untold' = told \cup untold \cup FlaggedFor(o, p)
          /\ told' \subseteq RowIds /\ untold' \subseteq RowIds
      BY <1>6, <3>1, SendPMGrows DEF IInv
    <3>3. ASSUME NEW i \in DOMAIN rows, rows[i].left, rows[i].person = p,
                 Owner[ListOf[rows[i].task]] = o
          PROVE  i \in FlaggedFor(o, p)
      <4>1. rows[i].task \in Tasks
        BY RowsType DEF IInv
      <4> QED  BY <3>3, <4>1 DEF FlaggedFor, FlaggedOf, RowsOf
    <3> QED  BY <2>1, <3>1, <3>2, <3>3 DEF o
  <2> QED  BY <2>4, <2>5, <2>6
<1>10. TypeOK'
  BY <1>5, <1>8, <1>9 DEF IInv, TypeOK
<1>11. local'[Events].pc \in {"idle", "alert"}
  BY <1>8
<1>12. EvidenceSound'
  BY <1>5, <1>11, EvidenceKept
<1>13. (IdsStable /\ FlagHasReason)'
  BY <1>5 DEF IInv, IdsStable, FlagHasReason
<1>14. SelectedKnown'
  BY <1>11 DEF SelectedKnown
<1>15. TickPending' = TickPending
  BY <1>5 DEF TickPending
<1>16. NotifiedTold'
  <2> SUFFICES ASSUME local'[Events].pc = "alert", NEW i \in DOMAIN rows, rows[i].left,
                      rows[i].person = local'[Events].person,
                      Owner[ListOf[rows[i].task]] \in local'[Events].notified
               PROVE  i \in told' \cup untold' \cup TickPending
    BY <1>5, <1>15 DEF NotifiedTold
  <2>1. local'[Events].person = p /\ local'[Events].notified = n
    BY <1>8
  <2> QED  BY <1>9, <2>1
<1>17. FlagsAreTold'
  <2> SUFFICES ASSUME NEW i \in DOMAIN rows, rows[i].left
               PROVE  i \in told' \cup untold' \cup Pending'
    BY <1>5 DEF FlagsAreTold
  <2>1. TickPending \subseteq Pending'
    BY <1>5 DEF Pending, TickPending
  <2>2. CASE i \in told \cup untold \cup TickPending
    BY <1>9, <2>1, <2>2
  <2>3. CASE i \notin told \cup untold \cup TickPending
    <3>1. PICK u \in todo : i \in FlaggedOf(u, p)
      BY <1>1, <1>2, <2>3 DEF IInv, FlagsAreTold, Pending, TickPending
    <3>2. rows[i].person = p /\ rows[i].task = u
      BY <3>1 DEF FlaggedOf, RowsOf
    <3>3. CASE u = t
      BY <1>9, <2>1, <3>2, <3>3
    <3>4. CASE u # t
      <4>1. local'[Events].pc = "alert" /\ local'[Events].person = p
            /\ u \in local'[Events].todo
        BY <1>8, <3>4
      <4>2. i \in FlaggedOf(u, p)'
        BY <1>5, <3>1 DEF FlaggedOf, RowsOf
      <4> QED  BY <4>1, <4>2 DEF Pending
    <3> QED  BY <3>3, <3>4
  <2> QED  BY <2>2, <2>3
<1> QED  BY <1>10, <1>12, <1>13, <1>14, <1>16, <1>17 DEF IInv

-----------------------------------------------------------------------------
\* The tick
Assignees == [id : RowIds, person : People, left : BOOLEAN]

LEMMA TickType ==
    ASSUME TypeOK
    PROVE  /\ tick.pc = "assignees" =>
                 tick.list \in Lists /\ tick.present \in SUBSET (People \cup {Bot})
           /\ tick.pc \in {"check", "alert"} =>
                 /\ tick.list \in Lists /\ tick.present \in SUBSET (People \cup {Bot})
                 /\ tick.todo \in SUBSET Assignees
           /\ tick.pc = "alert" => tick.row \in RowIds /\ tick.person \in People
           /\ tick # Idle => tick.pc \in {"assignees", "check", "alert"}
<1>1. tick \in TickLocals
  BY DEF TypeOK
<1> QED  BY <1>1 DEF TickLocals, Idle, Assignees

\* Reading on: the tick has what it reads, no row changes.
LEMMA TickReads ==
    ASSUME IInv, tick' \in TickLocals,
           UNCHANGED <<members, notices, tables, local, moves, restarts, history>>,
           tick.pc # "alert", tick'.pc # "alert",
           EvidenceSound', IdsStable'
    PROVE  IInv'
<1>1. UNCHANGED <<status, stage, rows, nextRow, away, told, untold>>
  BY DEF tables, history
<1>2. TypeOK'
  BY <1>1 DEF IInv, TypeOK
<1>3. (SelectedKnown /\ FlagHasReason)'
  BY <1>1 DEF IInv, SelectedKnown, FlagHasReason
<1>4. (NotifiedTold /\ FlagsAreTold)'
  BY <1>1 DEF IInv, NotifiedTold, FlagsAreTold, TickPending, Pending, FlaggedOf, RowsOf
<1> QED  BY <1>2, <1>3, <1>4 DEF IInv

LEMMA GetGroupParticipantsStep ==
    ASSUME IInv, NEW l \in Lists, GetGroupParticipants(l)
    PROVE  IInv'
<1> DEFINE next == [pc |-> "assignees", list |-> l, present |-> Indexed(Participants)]
<1>1. /\ tick' = next /\ tick.pc = "idle"
      /\ UNCHANGED <<members, notices, tables, local, moves, restarts, history>>
  BY IdleType DEF GetGroupParticipants, NextOfTick
<1>2. Indexed(Participants) \in SUBSET (People \cup {Bot})
  BY DEF Indexed, Participants, IInv, TypeOK
<1>3. next \in TickLocals
  BY <1>2 DEF TickLocals
<1>4. EvidenceSound'
  <2>1. \A p \in People \ Indexed(Participants) :
            p \notin members \/ p \notin PhoneListed \cup NumberKnown
    BY DEF Indexed, Participants
  <2>2. tick'.present = Indexed(Participants)
    BY <1>1
  <2> QED  BY <1>1, <2>1, <2>2 DEF IInv, EvidenceSound, Excused, history
<1>5. IdsStable'
  BY <1>1 DEF IdsStable
<1> QED  BY <1>1, <1>3, <1>4, <1>5, TickReads

\* To the next assignee, or to the end
LEMMA CheckNextType ==
    ASSUME TypeOK, tick.pc \in {"assignees", "check", "alert"},
           NEW todo \in SUBSET Assignees, CheckNext(todo)
    PROVE  /\ tick' \in TickLocals /\ tick'.pc \in {"idle", "check"}
           /\ tick' # Idle => tick'.present = tick.present
           /\ tick'.pc = "check" => tick'.todo = todo
           /\ UNCHANGED <<members, notices, local, moves, restarts>>
<1> DEFINE next == [pc |-> "check", list |-> tick.list, present |-> tick.present, todo |-> todo]
<1>1. next \in TickLocals
  BY TickType DEF TickLocals, Assignees
<1>2. /\ tick' = Idle \/ tick' = next
      /\ UNCHANGED <<members, notices, local, moves, restarts>>
  BY DEF CheckNext, NextOfTick
<1> QED  BY <1>1, <1>2, IdleType

LEMMA GetAssigneesByGroupStep == ASSUME IInv, GetAssigneesByGroup PROVE IInv'
<1> DEFINE todo == {[id |-> i, person |-> rows[i].person, left |-> rows[i].left] :
                       i \in {j \in DOMAIN rows : ListOf[rows[j].task] = tick.list}}
<1>1. \A i \in DOMAIN rows :
          [id |-> i, person |-> rows[i].person, left |-> rows[i].left] \in Assignees
  BY RowsType DEF IInv, Assignees
<1>2. todo \in SUBSET Assignees
  BY <1>1
<1>3. \A r \in todo : r.id < nextRow /\ (r.id \in DOMAIN rows => rows[r.id].person = r.person)
  <2> SUFFICES ASSUME NEW i \in DOMAIN rows
               PROVE  i < nextRow
    OBVIOUS
  <2> QED  BY RowsType DEF IInv
<1>4. /\ tick.pc = "assignees" /\ CheckNext(todo)
      /\ UNCHANGED <<tables, history>>
  BY DEF GetAssigneesByGroup
<1> HIDE DEF todo
<1>5. /\ tick' \in TickLocals /\ tick'.pc \in {"idle", "check"}
      /\ tick' # Idle => tick'.present = tick.present
      /\ tick'.pc = "check" => tick'.todo = todo
      /\ UNCHANGED <<members, notices, local, moves, restarts>>
  BY <1>2, <1>4, CheckNextType DEF IInv
<1>6. EvidenceSound'
  BY <1>4, <1>5, IdleType DEF IInv, EvidenceSound, Excused, history
<1>7. IdsStable'
  BY <1>3, <1>4, <1>5 DEF IdsStable, tables
<1> QED  BY <1>4, <1>5, <1>6, <1>7, TickReads

LEMMA AlertOfTickStep == ASSUME IInv, AlertOfTick PROVE IInv'
<1>1. /\ tick.pc = "alert" /\ tick.todo \in SUBSET Assignees /\ CheckNext(tick.todo)
      /\ SendPM({tick.row} \cap DOMAIN rows)
      /\ UNCHANGED <<status, stage, rows, nextRow, away>>
  BY TickType DEF IInv, AlertOfTick, tables
<1>2. /\ tick' \in TickLocals /\ tick'.pc \in {"idle", "check"}
      /\ tick' # Idle => tick'.present = tick.present
      /\ tick'.pc = "check" => tick'.todo = tick.todo
      /\ UNCHANGED <<members, notices, local, moves, restarts>>
  BY <1>1, CheckNextType DEF IInv
<1>3. {tick.row} \cap DOMAIN rows \subseteq RowIds
  BY <1>1, TickType DEF IInv
<1>4. /\ told' \cup untold' = told \cup untold \cup TickPending
      /\ told' \subseteq RowIds /\ untold' \subseteq RowIds
  BY <1>1, <1>3, SendPMGrows DEF IInv, TickPending
<1>5. TypeOK'
  BY <1>1, <1>2, <1>4 DEF IInv, TypeOK
<1>6. EvidenceSound'
  BY <1>1, <1>2, IdleType DEF IInv, EvidenceSound, Excused
<1>7. (IdsStable /\ SelectedKnown /\ FlagHasReason)'
  BY <1>1, <1>2 DEF IInv, IdsStable, SelectedKnown, FlagHasReason
<1>8. NotifiedTold'
  BY <1>1, <1>2, <1>4 DEF IInv, NotifiedTold
<1>9. FlagsAreTold'
  <2> SUFFICES ASSUME NEW i \in DOMAIN rows, rows[i].left
               PROVE  i \in told' \cup untold' \cup Pending'
    BY <1>1 DEF FlagsAreTold
  <2>1. CASE i \in told \cup untold \cup TickPending
    BY <1>4, <2>1
  <2>2. CASE i \notin told \cup untold \cup TickPending
    <3>1. local[Events].pc = "alert"
      BY <2>2 DEF IInv, FlagsAreTold, Pending, TickPending
    <3>2. PICK t \in local[Events].todo : i \in FlaggedOf(t, local[Events].person)
      BY <2>2, <3>1 DEF IInv, FlagsAreTold, Pending, TickPending
    <3>3. i \in FlaggedOf(t, local[Events].person)'
      BY <1>1, <1>2, <3>2 DEF FlaggedOf, RowsOf
    <3> QED  BY <1>2, <3>1, <3>3 DEF Pending
  <2> QED  BY <2>1, <2>2
<1> QED  BY <1>5, <1>6, <1>7, <1>8, <1>9 DEF IInv

LEMMA SetAssigneeLeftStep == ASSUME IInv, SetAssigneeLeft PROVE IInv'
<1>1. /\ tick.pc = "check" /\ tick.todo \in SUBSET Assignees
      /\ tick.list \in Lists /\ tick.present \in SUBSET (People \cup {Bot})
      /\ UNCHANGED <<status, stage, nextRow, away, told, untold>>
  BY TickType DEF IInv, SetAssigneeLeft, history
<1>2. PICK r \in tick.todo :
          IF r.person \notin tick.present /\ ~r.left
          THEN /\ Flag({r.id} \cap DOMAIN rows)
               /\ NextOfTick([pc |-> "alert", list |-> tick.list, present |-> tick.present,
                              row |-> r.id, person |-> r.person, todo |-> tick.todo \ {r}])
          ELSE rows' = rows /\ CheckNext(tick.todo \ {r})
  BY DEF SetAssigneeLeft
<1>3. r \in Assignees /\ r.id \in RowIds /\ r.person \in People
      /\ tick.todo \ {r} \in SUBSET Assignees
  BY <1>1 DEF Assignees
<1>4. CASE ~(r.person \notin tick.present /\ ~r.left)
  <2>1. rows' = rows /\ CheckNext(tick.todo \ {r})
    BY <1>2, <1>4
  <2>2. /\ tick' \in TickLocals /\ tick'.pc \in {"idle", "check"}
        /\ tick' # Idle => tick'.present = tick.present
        /\ tick'.pc = "check" => tick'.todo = tick.todo \ {r}
        /\ UNCHANGED <<members, notices, local, moves, restarts>>
    BY <1>1, <1>3, <2>1, CheckNextType DEF IInv
  <2>3. EvidenceSound'
    BY <1>1, <2>2, IdleType DEF IInv, EvidenceSound, Excused
  <2>4. IdsStable'
    BY <1>1, <2>1, <2>2 DEF IInv, IdsStable
  <2> QED  BY <1>1, <2>1, <2>2, <2>3, <2>4, TickReads DEF tables, history
<1>5. CASE r.person \notin tick.present /\ ~r.left
  <2> DEFINE next == [pc |-> "alert", list |-> tick.list, present |-> tick.present,
                      row |-> r.id, person |-> r.person, todo |-> tick.todo \ {r}]
             ids == {r.id} \cap DOMAIN rows
  <2>1. Flag(ids) /\ tick' = next /\ UNCHANGED <<members, notices, local, moves, restarts>>
    BY <1>2, <1>5 DEF NextOfTick
  <2>2. next \in TickLocals
    BY <1>1, <1>3 DEF TickLocals, Assignees
  <2>3. /\ DOMAIN rows' = DOMAIN rows
        /\ \A i \in DOMAIN rows :
              /\ rows'[i] \in Row
              /\ rows'[i].task = rows[i].task /\ rows'[i].person = rows[i].person
              /\ i \in ids => rows'[i].left
              /\ i \notin ids => rows'[i] = rows[i]
    BY <2>1, Flagged DEF IInv
  <2>4. /\ tick'.pc = "alert" /\ tick'.present = tick.present /\ tick'.row = r.id
        /\ tick'.todo = tick.todo \ {r}
    BY <2>1
  <2>5. TypeOK'
    BY <1>1, <2>1, <2>2, <2>3 DEF IInv, TypeOK
  <2>6. Excused(r.person)
    BY <1>1, <1>3, <1>5, IdleType DEF IInv, EvidenceSound
  <2>7. EvidenceSound'
    BY <1>1, <2>1, <2>4, IdleType DEF IInv, EvidenceSound, Excused
  <2>8. IdsStable'
    BY <1>1, <2>3, <2>4 DEF IInv, IdsStable
  <2>9. SelectedKnown'
    BY <1>1, <2>1, <2>3 DEF IInv, SelectedKnown
  <2>10. FlagHasReason'
    <3>1. r.id \in DOMAIN rows => rows[r.id].person = r.person
      BY <1>1 DEF IInv, IdsStable
    <3> QED  BY <1>1, <2>3, <2>6, <3>1 DEF IInv, FlagHasReason, Excused
  <2>11. TickPending = {} /\ TickPending' = ids
    BY <1>1, <2>3, <2>4 DEF TickPending
  <2>12. NotifiedTold'
    BY <1>1, <2>1, <2>3, <2>11 DEF IInv, NotifiedTold
  <2>13. FlagsAreTold'
    <3> SUFFICES ASSUME NEW i \in DOMAIN rows, rows'[i].left
                 PROVE  i \in told' \cup untold' \cup Pending'
      BY <2>3 DEF FlagsAreTold
    <3>1. CASE i \in ids
      BY <2>3, <2>4, <3>1 DEF Pending
    <3>2. CASE i \notin ids /\ i \in told \cup untold
      BY <1>1, <3>2
    <3>3. CASE i \notin ids /\ i \notin told \cup untold
      <4>1. rows[i].left /\ rows'[i] = rows[i]
        BY <2>3, <3>3
      <4>2. local[Events].pc = "alert"
        BY <1>1, <3>3, <4>1 DEF IInv, FlagsAreTold, Pending
      <4>3. PICK t \in local[Events].todo : i \in FlaggedOf(t, local[Events].person)
        BY <1>1, <3>3, <4>1, <4>2 DEF IInv, FlagsAreTold, Pending
      <4>4. i \in FlaggedOf(t, local[Events].person)'
        BY <2>1, <2>3, <4>1, <4>3 DEF FlaggedOf, RowsOf
      <4> QED  BY <2>1, <4>2, <4>4 DEF Pending
    <3> QED  BY <3>1, <3>2, <3>3
  <2> QED  BY <2>5, <2>7, <2>8, <2>9, <2>10, <2>12, <2>13 DEF IInv
<1> QED  BY <1>4, <1>5

-----------------------------------------------------------------------------
LEMMA RestartStep == ASSUME IInv, Restart PROVE IInv'
<1>1. /\ restarts' = restarts + 1 /\ restarts < MaxRestarts
      /\ notices' \subseteq notices
      /\ local' = [g \in {Events} \cup Web |-> Idle]
      /\ tick' = Idle
      /\ untold' = untold \cup Pending
      /\ UNCHANGED <<members, status, stage, rows, nextRow, moves, away, told>>
  BY DEF Restart, tables
<1>2. Pending \subseteq RowIds
  BY RowsType DEF IInv, Pending, FlaggedOf, RowsOf
<1>3. local' \in [{Events} \cup Web -> Locals] /\ tick' \in TickLocals
  BY <1>1, IdleType
<1>4. local'[Events].pc = "idle" /\ tick'.pc = "idle"
  BY <1>1, IdleType
<1>5. TypeOK'
  BY <1>1, <1>2, <1>3 DEF IInv, TypeOK
<1>6. EvidenceSound'
  BY <1>1, <1>4 DEF IInv, EvidenceSound
<1>7. (IdsStable /\ SelectedKnown /\ NotifiedTold)'
  BY <1>4 DEF IdsStable, SelectedKnown, NotifiedTold
<1>8. (FlagHasReason /\ FlagsAreTold)'
  BY <1>1 DEF IInv, FlagHasReason, FlagsAreTold
<1> QED  BY <1>5, <1>6, <1>7, <1>8 DEF IInv

LEMMA NextPreserves == ASSUME IInv, [Next]_vars PROVE IInv'
<1>1. CASE UNCHANGED vars
  <2>1. UNCHANGED <<members, notices, status, stage, rows, nextRow, local, tick, moves, restarts,
                    away, told, untold>>
    BY <1>1 DEF vars
  <2>2. TypeOK'
    BY <2>1 DEF IInv, TypeOK
  <2>3. EvidenceSound'
    BY <2>1, EvidenceKept
  <2>4. nextRow <= nextRow'
    BY <2>1 DEF IInv, TypeOK
  <2> QED  BY <2>1, <2>2, <2>3, <2>4, NothingFlagged
<1>2. ASSUME NEW p \in People, Leave(p) \/ Return(p) \/ MemberLeft(p) PROVE IInv'
  BY <1>2, LeaveStep, ReturnStep, MemberLeftStep
<1>3. CASE NoticeStep
  BY <1>3, StopOwnListStep, SelectAffectedStep, MarkAssigneeLeftStep, AlertOwnerStep
     DEF NoticeStep
<1>4. ASSUME NEW g \in {Events} \cup Web,
             \/ \E t \in Tasks, ps \in SUBSET People : Validate(g, t, ps)
             \/ CreateTask(g) \/ ReplaceTaskAssignees(g)
      PROVE  IInv'
  BY <1>4, ValidateStep, CreateTaskStep, ReplaceTaskAssigneesStep
<1>5. ASSUME NEW l \in Lists, PublishList(l) \/ StopList(l) \/ GetGroupParticipants(l)
      PROVE  IInv'
  BY <1>5, StatusStep, GetGroupParticipantsStep
<1>6. CASE TickStep
  BY <1>6, GetAssigneesByGroupStep, SetAssigneeLeftStep, AlertOfTickStep DEF TickStep
<1> QED  BY <1>1, <1>2, <1>3, <1>4, <1>5, <1>6, DeleteTaskStep, RestartStep DEF Next

LEMMA Invariance == Spec => []IInv
<1>1. Init => IInv
  BY InitEstablishes
<1>2. IInv /\ [Next]_vars => IInv'
  BY NextPreserves
<1> QED  BY <1>1, <1>2, PTL DEF Spec

\* Type correctness of assignee presence; rows refer to tasks that are there.
THEOREM TypeCorrect == Spec => []TypeOK
<1>1. IInv => TypeOK
  BY DEF IInv
<1> QED  BY <1>1, Invariance, PTL

\* Nobody is flagged as having left without a reason, however notices, checks,
\* edits of the assignees and restarts interleave.
THEOREM FlagsHaveReasons == Spec => []FlagHasReason
<1>1. IInv => FlagHasReason
  BY DEF IInv
<1> QED  BY <1>1, Invariance, PTL

\* The owner is alerted of every flag, or that very alert was lost.
THEOREM OwnersAreTold == Spec => []FlagsAreTold
<1>1. IInv => FlagsAreTold
  BY DEF IInv
<1> QED  BY <1>1, Invariance, PTL
=============================================================================
