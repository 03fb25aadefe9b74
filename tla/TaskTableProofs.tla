--------------------------- MODULE TaskTableProofs ---------------------------
(***************************************************************************)
(* What the statements of TaskTable do to a well-formed table.  The        *)
(* central fact is that DeleteTask's renumbering loop, which counts the    *)
(* rows that are left, moves the later positions down by exactly one.      *)
(***************************************************************************)
EXTENDS TaskTable, FiniteSetTheorems, TLAPS

WellFormed(ts) ==
    /\ Typed(ts)
    /\ UniquePositions(ts)
    /\ NoGaps(ts)
    /\ InCreationOrder(ts)
    /\ UniqueTitles(ts)

\* The position a task has once position p is deleted.
Shift(p, q) == IF p < q THEN q - 1 ELSE q

\* The position that task had before.
Unshift(p, q) == IF q < p THEN q ELSE q + 1

LEMMA RowType ==
    ASSUME NEW ts, Typed(ts), NEW i \in DOMAIN ts
    PROVE  /\ i \in Nat \ {0}
           /\ ts[i].list \in TaskLists
           /\ ts[i].position \in Nat \ {0}
           /\ ts[i].title \in Titles
BY DEF Typed, Row

\* Without gaps, every position up to one in use is in use.
LEMMA RowAt ==
    ASSUME NEW ts, NoGaps(ts), NEW i \in DOMAIN ts,
           NEW q \in 1 .. ts[i].position
    PROVE  \E j \in DOMAIN ts : ts[j].list = ts[i].list /\ ts[j].position = q
BY DEF NoGaps, IdsAt, RowsOf

\* The loop of DeleteTask numbers each later row one lower, and no other row
\* differently.
LEMMA RankIsShift ==
    ASSUME NEW ts, WellFormed(ts), NEW l, NEW p \in Nat \ {0},
           NEW i \in DOMAIN ts \ IdsAt(ts, l, p), ts[i].list = l
    PROVE  Rank(ts, DOMAIN ts \ IdsAt(ts, l, p), l, i) = Shift(p, ts[i].position)
<1> DEFINE kept == DOMAIN ts \ IdsAt(ts, l, p)
           S    == {j \in kept : ts[j].list = l /\ ts[j].position <= ts[i].position}
           n    == Shift(p, ts[i].position)
           at(q) == {j \in S : ts[j].position = Unshift(p, q)}
           f    == [q \in 1 .. n |-> CHOOSE j \in S : ts[j].position = Unshift(p, q)]
<1>1. ts[i].position \in Nat \ {0} /\ ts[i].position # p
  BY RowType DEF WellFormed, IdsAt, RowsOf
<1>2. n \in Nat
  BY <1>1 DEF Shift
<1>3. ASSUME NEW q \in 1 .. n
      PROVE  \E j \in S : ts[j].position = Unshift(p, q)
  <2>1. Unshift(p, q) \in 1 .. ts[i].position /\ Unshift(p, q) # p
    BY <1>1, <1>2 DEF Shift, Unshift
  <2>2. PICK j \in DOMAIN ts : ts[j].list = l /\ ts[j].position = Unshift(p, q)
    BY <2>1, RowAt DEF WellFormed
  <2>3. j \in S
    BY <2>1, <2>2 DEF IdsAt, RowsOf
  <2> QED  BY <2>2, <2>3
<1>4. f \in [1 .. n -> S] /\ \A q \in 1 .. n : ts[f[q]].position = Unshift(p, q)
  BY <1>3
<1>5. IsInjective(f)
  <2> SUFFICES ASSUME NEW a \in 1 .. n, NEW b \in 1 .. n, f[a] = f[b]
               PROVE  a = b
    BY <1>4 DEF IsInjective
  <2>1. Unshift(p, a) = Unshift(p, b)
    BY <1>4
  <2> QED  BY <2>1, <1>2 DEF Unshift
<1>6. ASSUME NEW j \in S PROVE \E q \in 1 .. n : f[q] = j
  <2>1. ts[j].position \in Nat \ {0} /\ ts[j].position # p
    BY RowType DEF WellFormed, IdsAt, RowsOf
  <2>2. PICK q \in 1 .. n : Unshift(p, q) = ts[j].position
    <3>1. Shift(p, ts[j].position) \in 1 .. n
      BY <1>1, <2>1 DEF Shift
    <3>2. Unshift(p, Shift(p, ts[j].position)) = ts[j].position
      BY <2>1 DEF Shift, Unshift
    <3> QED  BY <3>1, <3>2
  <2>3. f[q] \in S /\ ts[f[q]].position = ts[j].position
    BY <1>4, <2>2
  <2>4. f[q] = j
    BY <2>3 DEF WellFormed, UniquePositions
  <2> QED  BY <2>4
<1>7. f \in Bijection(1 .. n, S)
  BY <1>4, <1>5, <1>6 DEF Bijection, Injection, Surjection
<1>8. Cardinality(S) = n
  BY <1>2, <1>7, FS_CountingElements DEF ExistsBijection
<1> QED  BY <1>8 DEF Rank

\* A list's rows sit at 1 .. n, n being their number: COALESCE(MAX(position), 0)
\* is how many there are, and no row lies beyond it.
LEMMA LastPositionIsLast ==
    ASSUME NEW ts, WellFormed(ts), NEW l
    PROVE  /\ LastPosition(ts, l) \in Nat
           /\ \A i \in RowsOf(ts, l) : ts[i].position <= LastPosition(ts, l)
           /\ \A q \in 1 .. LastPosition(ts, l) : IdsAt(ts, l, q) # {}
<1> DEFINE R == RowsOf(ts, l)
           c == Cardinality(R)
           f == [i \in R |-> ts[i].position]
           P == {0} \cup {ts[i].position : i \in R}
<1>1. IsFiniteSet(R) /\ c \in Nat
  <2>1. R \in SUBSET DOMAIN ts /\ IsFiniteSet(DOMAIN ts)
    BY DEF RowsOf, WellFormed, Typed
  <2>2. IsFiniteSet(R)
    BY <2>1, FS_Subset
  <2> QED  BY <2>2, FS_CardinalityType
<1>2. \A i \in R : i \in DOMAIN ts /\ ts[i].list = l /\ ts[i].position \in Nat \ {0}
  BY RowType DEF WellFormed, RowsOf
<1>3. ASSUME NEW i \in R PROVE ts[i].position \in 1 .. c
  <2> DEFINE k == ts[i].position
             g == [q \in 1 .. k |-> CHOOSE j \in R : ts[j].position = q]
  <2>1. \A q \in 1 .. k : \E j \in R : ts[j].position = q
    BY <1>2, RowAt DEF WellFormed, RowsOf
  <2>2. g \in [1 .. k -> R] /\ \A q \in 1 .. k : ts[g[q]].position = q
    BY <2>1
  <2>3. g \in Injection(1 .. k, R)
    BY <2>2 DEF Injection, IsInjective
  <2>4. Cardinality(1 .. k) <= c
    BY <2>3, <1>1, FS_Injection
  <2>5. Cardinality(1 .. k) = k
    BY <1>2, FS_Interval
  <2> QED  BY <2>4, <2>5, <1>1, <1>2
<1>4. f \in Injection(R, 1 .. c)
  <2>1. f \in [R -> 1 .. c]
    BY <1>3
  <2>2. IsInjective(f)
    BY <1>2 DEF IsInjective, WellFormed, UniquePositions
  <2> QED  BY <2>1, <2>2 DEF Injection
<1>5. IsFiniteSet(1 .. c) /\ Cardinality(1 .. c) = c
  BY <1>1, FS_Interval
<1>6. f \in Surjection(R, 1 .. c)
  BY <1>4, <1>5, FS_Injection
<1>7. \A q \in 1 .. c : \E i \in R : ts[i].position = q
  BY <1>6 DEF Surjection
<1>8. c \in P /\ \A y \in P : c >= y
  BY <1>1, <1>3, <1>7
<1>9. ASSUME NEW x \in P, \A y \in P : x >= y PROVE x = c
  BY <1>8, <1>9, <1>1, <1>3
<1>10. LastPosition(ts, l) = c
  BY <1>8, <1>9 DEF LastPosition, Max
<1> QED  BY <1>1, <1>3, <1>7, <1>10 DEF IdsAt

-----------------------------------------------------------------------------
\* A statement that rewrites columns other than the list and the position, and
\* keeps titles apart, keeps the table well formed.
LEMMA RewriteKeepsWellFormed ==
    ASSUME NEW ts, WellFormed(ts), NEW us, DOMAIN us = DOMAIN ts,
           \A i \in DOMAIN us : /\ us[i] \in Row
                               /\ us[i].list = ts[i].list
                               /\ us[i].position = ts[i].position,
           UniqueTitles(us)
    PROVE  WellFormed(us)
<1>1. Typed(us)
  BY DEF WellFormed, Typed
<1>2. UniquePositions(us) /\ InCreationOrder(us)
  BY DEF WellFormed, UniquePositions, InCreationOrder
<1>3. NoGaps(us)
  BY DEF WellFormed, NoGaps, IdsAt, RowsOf
<1> QED  BY <1>1, <1>2, <1>3 DEF WellFormed

\* The rows left by RemoveAt, and where they stand.
LEMMA RemoveAtRows ==
    ASSUME NEW ts, WellFormed(ts), NEW l, NEW p \in Nat \ {0},
           NEW i \in DOMAIN ts \ IdsAt(ts, l, p)
    PROVE  /\ RemoveAt(ts, l, p)[i] \in Row
           /\ RemoveAt(ts, l, p)[i].list = ts[i].list
           /\ RemoveAt(ts, l, p)[i].title = ts[i].title
           /\ RemoveAt(ts, l, p)[i].status = ts[i].status
           /\ RemoveAt(ts, l, p)[i].assignees = ts[i].assignees
           /\ RemoveAt(ts, l, p)[i].position =
                  IF ts[i].list = l THEN Shift(p, ts[i].position) ELSE ts[i].position
<1>1. /\ ts[i] \in Row
      /\ ts[i].position \in Nat \ {0}
      /\ ts[i].list = l => ts[i].position # p
  BY RowType DEF WellFormed, Typed, IdsAt, RowsOf
<1>2. CASE ts[i].list = l
  <2>1. RemoveAt(ts, l, p)[i] = [ts[i] EXCEPT !.position = Shift(p, ts[i].position)]
    BY <1>2, RankIsShift DEF RemoveAt
  <2>2. Shift(p, ts[i].position) \in Nat \ {0}
    BY <1>1 DEF Shift
  <2> QED  BY <1>1, <1>2, <2>1, <2>2 DEF Row
<1>3. CASE ts[i].list # l
  BY <1>1, <1>3 DEF RemoveAt
<1> QED  BY <1>2, <1>3

\* DeleteTask leaves positions dense and in creation order.
LEMMA RemoveAtWellFormed ==
    ASSUME NEW ts, WellFormed(ts), NEW l, NEW p \in Nat \ {0}
    PROVE  WellFormed(RemoveAt(ts, l, p))
<1> DEFINE kept == DOMAIN ts \ IdsAt(ts, l, p)
           us   == RemoveAt(ts, l, p)
<1>1. DOMAIN us = kept
  BY DEF RemoveAt
<1>2. \A i \in kept : /\ i \in DOMAIN ts
                      /\ ts[i] \in Row
                      /\ ts[i].position \in Nat \ {0}
                      /\ ts[i].list = l => ts[i].position # p
  BY RowType DEF WellFormed, Typed, IdsAt, RowsOf
<1>3. \A i \in kept :
          /\ us[i] \in Row
          /\ us[i].list = ts[i].list
          /\ us[i].title = ts[i].title
          /\ us[i].position = IF ts[i].list = l THEN Shift(p, ts[i].position)
                                               ELSE ts[i].position
  BY RemoveAtRows
<1> HIDE DEF us
<1>4. Typed(us)
  <2>1. IsFiniteSet(kept)
    BY FS_Subset DEF WellFormed, Typed
  <2> QED  BY <1>1, <1>2, <1>3, <2>1 DEF WellFormed, Typed
<1>5. UniquePositions(us)
  BY <1>1, <1>2, <1>3 DEF WellFormed, UniquePositions, Shift
<1>6. InCreationOrder(us)
  <2> SUFFICES ASSUME NEW i \in kept, NEW j \in kept, ts[i].list = ts[j].list, i < j
               PROVE  us[i].position < us[j].position
    BY <1>1, <1>3 DEF InCreationOrder
  <2>1. ts[i].position < ts[j].position
    BY DEF WellFormed, InCreationOrder
  <2> QED  BY <2>1, <1>2, <1>3 DEF Shift
<1>7. UniqueTitles(us)
  BY <1>1, <1>2, <1>3 DEF WellFormed, UniqueTitles
<1>8. NoGaps(us)
  <2> SUFFICES ASSUME NEW i \in kept, NEW q \in 1 .. us[i].position
               PROVE  \E j \in kept : us[j].list = us[i].list /\ us[j].position = q
    BY <1>1 DEF NoGaps, IdsAt, RowsOf
  <2>1. CASE ts[i].list # l
    <3>1. PICK j \in DOMAIN ts : ts[j].list = ts[i].list /\ ts[j].position = q
      BY <2>1, <1>2, <1>3, RowAt DEF WellFormed
    <3>2. j \in kept
      BY <2>1, <3>1 DEF IdsAt, RowsOf
    <3> QED  BY <2>1, <3>1, <3>2, <1>3
  <2>2. CASE ts[i].list = l
    <3>1. Unshift(p, q) \in 1 .. ts[i].position /\ Unshift(p, q) # p
      BY <2>2, <1>2, <1>3 DEF Shift, Unshift
    <3>2. PICK j \in DOMAIN ts : ts[j].list = l /\ ts[j].position = Unshift(p, q)
      BY <2>2, <3>1, RowAt DEF WellFormed
    <3>3. j \in kept
      BY <3>1, <3>2 DEF IdsAt, RowsOf
    <3>4. Shift(p, Unshift(p, q)) = q
      BY <1>2, <1>3 DEF Shift, Unshift
    <3> QED  BY <2>2, <3>2, <3>3, <3>4, <1>3
  <2> QED  BY <2>1, <2>2
<1>9. WellFormed(us)
  BY <1>4, <1>5, <1>6, <1>7, <1>8 DEF WellFormed
<1> QED  BY <1>9 DEF us

\* Deleting a list leaves the tables of the other lists as they are.
LEMMA DropListWellFormed ==
    ASSUME NEW ts, WellFormed(ts), NEW l
    PROVE  /\ WellFormed(DropList(ts, l))
           /\ \A i \in DOMAIN DropList(ts, l) :
                 i \in DOMAIN ts /\ DropList(ts, l)[i] = ts[i] /\ ts[i].list # l
<1> DEFINE us == DropList(ts, l)
<1>1. /\ DOMAIN us \subseteq DOMAIN ts
      /\ \A i \in DOMAIN ts : ts[i].list # l => i \in DOMAIN us
      /\ \A i \in DOMAIN us : us[i] = ts[i] /\ ts[i].list # l
  BY DEF DropList, RowsOf
<1> HIDE DEF us
<1>2. Typed(us)
  <2>1. IsFiniteSet(DOMAIN us)
    BY <1>1, FS_Subset DEF WellFormed, Typed
  <2> QED  BY <1>1, <2>1 DEF WellFormed, Typed
<1>3. UniquePositions(us) /\ InCreationOrder(us) /\ UniqueTitles(us)
  BY <1>1 DEF WellFormed, UniquePositions, InCreationOrder, UniqueTitles
<1>4. NoGaps(us)
  <2> SUFFICES ASSUME NEW i \in DOMAIN us, NEW q \in 1 .. us[i].position
               PROVE  \E j \in DOMAIN us : us[j].list = us[i].list /\ us[j].position = q
    BY DEF NoGaps, IdsAt, RowsOf
  <2>1. PICK j \in DOMAIN ts : ts[j].list = ts[i].list /\ ts[j].position = q
    BY <1>1, RowAt DEF WellFormed
  <2> QED  BY <1>1, <2>1
<1> QED  BY <1>1, <1>2, <1>3, <1>4 DEF WellFormed, us

-----------------------------------------------------------------------------
\* Freshly inserted assignees are a value of the column.
LEMMA AssignedType ==
    ASSUME NEW jids \in Seq(People)
    PROVE  Assigned(jids) \in UNION {[S -> BOOLEAN] : S \in SUBSET People}
<1>1. Range(jids) \in SUBSET People
  BY DEF Range
<1>2. Assigned(jids) \in [Range(jids) -> BOOLEAN]
  BY DEF Assigned
<1> QED  BY <1>1, <1>2

LEMMA NewRowType ==
    ASSUME NEW l \in TaskLists, NEW pos \in Nat \ {0},
           NEW form \in [title : Titles, assign : Seq(People)]
    PROVE  /\ NewRow(l, pos, form) \in Row
           /\ NewRow(l, pos, form).list = l
           /\ NewRow(l, pos, form).position = pos
           /\ NewRow(l, pos, form).title = form.title
<1>1. Assigned(form.assign) \in UNION {[S -> BOOLEAN] : S \in SUBSET People}
  BY AssignedType
<1> HIDE DEF Assigned
<1> QED  BY <1>1 DEF NewRow, Row, Statuses

LEMMA SeqElements ==
    ASSUME NEW T, NEW s \in Seq(T)
    PROVE  /\ Len(s) \in Nat
           /\ DOMAIN s = 1 .. Len(s)
           /\ \A m \in 1 .. Len(s) : s[m] \in T
OBVIOUS

\* CreateTasks appends its batch: the rows that were there stay as they are, the
\* new ones continue the positions, and no title is taken twice.
LEMMA InsertBatchWellFormed ==
    ASSUME NEW ts, WellFormed(ts), NEW l \in TaskLists,
           NEW next \in Nat \ {0}, DOMAIN ts \subseteq 1 .. (next - 1),
           NEW batch \in Seq([title : Titles, assign : Seq(People)]),
           BatchFits(ts, l, batch)
    PROVE  /\ WellFormed(InsertBatch(ts, l, batch, next))
           /\ DOMAIN InsertBatch(ts, l, batch, next)
                 = DOMAIN ts \cup (next .. next + Len(batch) - 1)
           /\ \A i \in DOMAIN ts : InsertBatch(ts, l, batch, next)[i] = ts[i]
           /\ \A i \in next .. next + Len(batch) - 1 :
                 InsertBatch(ts, l, batch, next)[i].list = l
<1> DEFINE us   == InsertBatch(ts, l, batch, next)
           new  == next .. next + Len(batch) - 1
           last == LastPosition(ts, l)
<1>1. /\ last \in Nat
      /\ \A i \in RowsOf(ts, l) : ts[i].position <= last
      /\ \A q \in 1 .. last : IdsAt(ts, l, q) # {}
  BY LastPositionIsLast
<1>2. ASSUME NEW i \in DOMAIN ts
      PROVE  i \in Nat \ {0} /\ i < next /\ ts[i] \in Row /\ ts[i].position \in Nat \ {0}
  BY RowType DEF WellFormed, Typed
<1>3. ASSUME NEW i \in DOMAIN ts, ts[i].list = l PROVE ts[i].position <= last
  BY <1>1, <1>3 DEF RowsOf
<1>4. DOMAIN us = DOMAIN ts \cup new
  BY DEF InsertBatch
<1>5. \A i \in DOMAIN ts : us[i] = ts[i]
  BY DEF InsertBatch
<1>6. /\ Len(batch) \in Nat
      /\ DOMAIN batch = 1 .. Len(batch)
      /\ \A m \in 1 .. Len(batch) : batch[m] \in [title : Titles, assign : Seq(People)]
  BY SeqElements
<1>7. last \in Nat
  BY <1>1
<1>8. \A i \in new : /\ i \in Nat \ {0}
                    /\ i \notin DOMAIN ts
                    /\ i - next + 1 \in DOMAIN batch
                    /\ last + (i - next) + 1 \in Nat \ {0}
  <2> TAKE i \in new
  <2>1. i \in Int /\ next <= i /\ i <= next + Len(batch) - 1
    BY <1>6
  <2> QED  BY <2>1, <1>1, <1>2, <1>6
<1>9. ASSUME NEW i \in new
      PROVE  /\ us[i] \in Row
             /\ us[i].list = l
             /\ us[i].position = last + (i - next) + 1
             /\ us[i].title = batch[i - next + 1].title
  <2>1. us[i] = NewRow(l, last + (i - next) + 1, batch[i - next + 1])
    BY <1>8 DEF InsertBatch
  <2>2. batch[i - next + 1] \in [title : Titles, assign : Seq(People)]
    BY <1>6, <1>8
  <2>3. last + (i - next) + 1 \in Nat \ {0}
    BY <1>8
  <2> QED  BY <2>1, <2>2, <2>3, NewRowType
<1>10. ASSUME NEW i \in new, NEW j \in DOMAIN ts, ts[j].list = l
      PROVE  us[i].title # ts[j].title
  <2> DEFINE m == i - next + 1
  <2>1. m \in DOMAIN batch /\ us[i].title = batch[m].title
    BY <1>8, <1>9
  <2> HIDE DEF m
  <2>2. ts[j].title \in TitlesOf(ts, l)
    BY <1>10 DEF TitlesOf, RowsOf
  <2> QED  BY <2>1, <2>2 DEF BatchFits
<1>11. ASSUME NEW i \in new, NEW j \in new, us[i].title = us[j].title
      PROVE  i = j
  <2> DEFINE m == i - next + 1
             n == j - next + 1
  <2>1. /\ m \in DOMAIN batch /\ us[i].title = batch[m].title
        /\ n \in DOMAIN batch /\ us[j].title = batch[n].title
    BY <1>8, <1>9
  <2> HIDE DEF m, n
  <2>2. m = n
    BY <2>1, <1>11 DEF BatchFits
  <2> QED  BY <2>2 DEF m, n
<1>12. ASSUME NEW i \in new
       PROVE  /\ i \in Nat \ {0}
              /\ next <= i
              /\ us[i].position \in Nat \ {0}
              /\ last < us[i].position
              /\ us[i].position - i = last - next + 1
  <2>1. i \in Int /\ next <= i
    BY <1>6
  <2>2. us[i].position = last + (i - next) + 1
    BY <1>9
  <2> DEFINE pos == us[i].position
  <2> HIDE DEF pos, last, new
  <2>3. pos = last + (i - next) + 1
    BY <2>2 DEF pos
  <2>4. /\ i \in Nat \ {0} /\ next <= i
        /\ pos \in Nat \ {0} /\ last < pos /\ pos - i = last - next + 1
    BY <2>1, <2>3, <1>7
  <2> QED  BY <2>4 DEF pos
<1>13. ASSUME NEW q \in Nat, last < q, NEW i \in new, q <= us[i].position
       PROVE  \E j \in new : us[j].position = q
  <2> DEFINE j == q - last - 1 + next
  <2> HIDE DEF us, last
  <2>1. i <= next + Len(batch) - 1 /\ j <= i /\ next <= j
    BY <1>1, <1>6, <1>12, <1>13
  <2>2. j \in new
    BY <2>1, <1>1, <1>6, <1>13
  <2>3. us[j].position \in Nat /\ us[j].position - j = last - next + 1
    BY <2>2, <1>12
  <2>4. us[j].position = q
    BY <2>3, <1>13, <1>7
  <2> QED  BY <2>2, <2>4
<1>14. IsFiniteSet(new)
  BY <1>6, FS_Interval
<1>15. ASSUME NEW i \in DOMAIN ts, NEW j \in new, us[i].list = us[j].list
       PROVE  us[i].position < us[j].position
  <2> DEFINE a == us[i].position
             b == us[j].position
  <2> HIDE DEF us, last, new, a, b
  <2>1. ts[i].list = l
    BY <1>5, <1>9, <1>15
  <2>2. a \in Nat /\ a <= last
    BY <2>1, <1>2, <1>5, <1>3 DEF a
  <2>3. b \in Nat /\ last < b
    BY <1>12 DEF b
  <2>4. a < b
    BY <2>2, <2>3, <1>7
  <2> QED  BY <2>4 DEF a, b
<1> HIDE DEF us, last, new
<1>16. Typed(us)
  <2>1. IsFiniteSet(DOMAIN ts \cup new)
    BY <1>14, FS_Union DEF WellFormed, Typed
  <2>2. ASSUME NEW i \in DOMAIN us PROVE i \in Nat \ {0} /\ us[i] \in Row
    <3>1. CASE i \in DOMAIN ts
      BY <3>1, <1>2, <1>5
    <3>2. CASE i \in new
      BY <3>2, <1>9, <1>12
    <3> QED  BY <3>1, <3>2, <1>4
  <2> QED  BY <2>1, <2>2, <1>4 DEF Typed
<1>17. UniquePositions(us)
  <2> SUFFICES ASSUME NEW i \in DOMAIN us, NEW j \in DOMAIN us, us[i].list = us[j].list,
                      us[i].position = us[j].position
               PROVE  i = j
    BY DEF UniquePositions
  <2>1. CASE i \in DOMAIN ts /\ j \in DOMAIN ts
    BY <2>1, <1>5 DEF WellFormed, UniquePositions
  <2>2. CASE i \in new /\ j \in new
    BY <2>2, <1>1, <1>12
  <2>3. CASE i \in DOMAIN ts /\ j \in new
    BY <2>3, <1>2, <1>5, <1>15
  <2>4. CASE i \in new /\ j \in DOMAIN ts
    BY <2>4, <1>2, <1>5, <1>15
  <2> QED  BY <2>1, <2>2, <2>3, <2>4, <1>4
<1>18. InCreationOrder(us)
  <2> SUFFICES ASSUME NEW i \in DOMAIN us, NEW j \in DOMAIN us, us[i].list = us[j].list,
                      i < j
               PROVE  us[i].position < us[j].position
    BY DEF InCreationOrder
  <2>1. CASE i \in DOMAIN ts /\ j \in DOMAIN ts
    BY <2>1, <1>5 DEF WellFormed, InCreationOrder
  <2>2. CASE i \in new /\ j \in new
    BY <2>2, <1>1, <1>12
  <2>3. CASE i \in DOMAIN ts /\ j \in new
    BY <2>3, <1>2, <1>5, <1>15
  <2>4. CASE i \in new /\ j \in DOMAIN ts
    BY <2>4, <1>2, <1>12
  <2> QED  BY <2>1, <2>2, <2>3, <2>4, <1>4
<1>19. UniqueTitles(us)
  <2> SUFFICES ASSUME NEW i \in DOMAIN us, NEW j \in DOMAIN us, us[i].list = us[j].list,
                      us[i].title = us[j].title
               PROVE  i = j
    BY DEF UniqueTitles
  <2>1. CASE i \in DOMAIN ts /\ j \in DOMAIN ts
    BY <2>1, <1>5 DEF WellFormed, UniqueTitles
  <2>2. CASE i \in new /\ j \in new
    BY <2>2, <1>11
  <2>3. CASE i \in DOMAIN ts /\ j \in new
    BY <2>3, <1>5, <1>9, <1>10
  <2>4. CASE i \in new /\ j \in DOMAIN ts
    BY <2>4, <1>5, <1>9, <1>10
  <2> QED  BY <2>1, <2>2, <2>3, <2>4, <1>4
<1>20. NoGaps(us)
  <2> SUFFICES ASSUME NEW i \in DOMAIN us, NEW q \in 1 .. us[i].position
               PROVE  \E j \in DOMAIN us : us[j].list = us[i].list /\ us[j].position = q
    BY DEF NoGaps, IdsAt, RowsOf
  <2>1. CASE i \in DOMAIN ts
    <3>1. PICK j \in DOMAIN ts : ts[j].list = ts[i].list /\ ts[j].position = q
      BY <2>1, <1>5, RowAt DEF WellFormed
    <3> QED  BY <2>1, <3>1, <1>4, <1>5
  <2>2. CASE i \in new /\ q <= last
    <3>1. PICK j \in DOMAIN ts : ts[j].list = l /\ ts[j].position = q
      BY <2>2, <1>1 DEF IdsAt, RowsOf
    <3> QED  BY <2>2, <3>1, <1>4, <1>5, <1>9
  <2>3. CASE i \in new /\ q > last
    <3>1. q \in Nat /\ q <= us[i].position
      BY <2>3, <1>12
    <3>2. PICK j \in new : us[j].position = q
      BY <2>3, <3>1, <1>13
    <3> QED  BY <2>3, <3>2, <1>4, <1>9
  <2>4. q \in Int
    OBVIOUS
  <2> QED  BY <2>1, <2>2, <2>3, <2>4, <1>1, <1>4
<1>21. WellFormed(us)
  BY <1>16, <1>17, <1>18, <1>19, <1>20 DEF WellFormed
<1> QED  BY <1>4, <1>5, <1>9, <1>21 DEF us, new

-----------------------------------------------------------------------------
(***************************************************************************)
(* The list as it is shown.  What each statement does to it is one of the  *)
(* changes of SequenceChanges, or nothing.                                 *)
(***************************************************************************)
Changes == INSTANCE SequenceChanges

LEMMA SequenceLength ==
    ASSUME NEW n \in Nat, NEW s, DOMAIN s = 1 .. n, s = [p \in 1 .. n |-> s[p]]
    PROVE  s \in Seq({s[p] : p \in 1 .. n}) /\ Len(s) = n
<1>1. s \in [1 .. n -> {s[p] : p \in 1 .. n}]
  OBVIOUS
<1>2. s \in Seq({s[p] : p \in 1 .. n})
  BY <1>1
<1> QED  BY <1>2

\* Every number from 1 to the last shows the one row that has it.
LEMMA ShownRows ==
    ASSUME NEW ts, WellFormed(ts), NEW l
    PROVE  LET n == LastPosition(ts, l)
               s == Shown(ts, l)
           IN  /\ n \in Nat
               /\ DOMAIN s = 1 .. n
               /\ Len(s) = n
               /\ s = [p \in 1 .. n |-> s[p]]
               /\ \A i \in RowsOf(ts, l) :
                     i \in DOMAIN ts /\ ts[i].position \in 1 .. n /\ s[ts[i].position] = Item(ts, i)
               /\ \A p \in 1 .. n : \E i \in RowsOf(ts, l) : ts[i].position = p
<1> DEFINE n == LastPosition(ts, l)
           s == Shown(ts, l)
<1>1. /\ n \in Nat
      /\ \A i \in RowsOf(ts, l) : ts[i].position <= n
      /\ \A p \in 1 .. n : IdsAt(ts, l, p) # {}
  BY LastPositionIsLast
<1>2. \A i \in RowsOf(ts, l) : i \in DOMAIN ts /\ ts[i].list = l /\ ts[i].position \in Nat \ {0}
  BY RowType DEF WellFormed, RowsOf
<1>3. \A p \in 1 .. n : \E i \in RowsOf(ts, l) : ts[i].position = p
  BY <1>1 DEF IdsAt
<1>4. \A i \in RowsOf(ts, l) : ts[i].position \in 1 .. n
  BY <1>1, <1>2
<1>5. {ts[i].position : i \in RowsOf(ts, l)} = 1 .. n
  BY <1>3, <1>4
<1>6. ASSUME NEW i \in RowsOf(ts, l)
      PROVE  (CHOOSE j \in IdsAt(ts, l, ts[i].position) : TRUE) = i
  <2>1. i \in IdsAt(ts, l, ts[i].position)
    BY DEF IdsAt
  <2>2. \A j \in IdsAt(ts, l, ts[i].position) : j = i
    BY <1>2 DEF IdsAt, WellFormed, UniquePositions
  <2> QED  BY <2>1, <2>2
<1>7. s = [p \in 1 .. n |-> Item(ts, CHOOSE i \in IdsAt(ts, l, p) : TRUE)]
  BY <1>5 DEF Shown
<1>8. DOMAIN s = 1 .. n /\ s = [p \in 1 .. n |-> s[p]]
  BY <1>7
<1>9. \A i \in RowsOf(ts, l) : s[ts[i].position] = Item(ts, i)
  BY <1>4, <1>6, <1>7
<1> HIDE DEF n, s
<1>10. Len(s) = n
  BY <1>1, <1>8, SequenceLength
<1> QED  BY <1>1, <1>2, <1>3, <1>4, <1>8, <1>9, <1>10 DEF n, s

\* Two lists of the same length that show the same at every number are equal.
LEMMA ShownEqual ==
    ASSUME NEW ts, WellFormed(ts), NEW us, WellFormed(us), NEW l,
           LastPosition(us, l) = LastPosition(ts, l),
           \A p \in 1 .. LastPosition(ts, l) : Shown(us, l)[p] = Shown(ts, l)[p]
    PROVE  Shown(us, l) = Shown(ts, l)
<1> DEFINE n == LastPosition(ts, l)
           s == Shown(ts, l)
           u == Shown(us, l)
<1>1. s = [p \in 1 .. n |-> s[p]] /\ u = [p \in 1 .. n |-> u[p]]
  BY ShownRows
<1> HIDE DEF n, s, u
<1>2. \A p \in 1 .. n : u[p] = s[p]
  BY DEF n, s, u
<1> QED  BY <1>1, <1>2 DEF s, u

\* The last number is the largest one in use.
LEMMA LastIs ==
    ASSUME NEW ts, WellFormed(ts), NEW l, NEW n \in Nat,
           \A i \in RowsOf(ts, l) : ts[i].position <= n,
           n # 0 => \E i \in RowsOf(ts, l) : ts[i].position = n
    PROVE  LastPosition(ts, l) = n
<1> DEFINE m == LastPosition(ts, l)
<1>1. /\ m \in Nat
      /\ \A i \in RowsOf(ts, l) : ts[i].position \in 1 .. m
      /\ \A p \in 1 .. m : \E i \in RowsOf(ts, l) : ts[i].position = p
  BY ShownRows
<1> HIDE DEF m
<1>2. m <= n
  <2>1. CASE m = 0
    BY <2>1
  <2>2. CASE m # 0
    <3>1. m \in 1 .. m
      BY <1>1, <2>2
    <3> QED  BY <1>1, <3>1
  <2> QED  BY <2>1, <2>2
<1>3. n <= m
  BY <1>1
<1> QED  BY <1>1, <1>2, <1>3 DEF m

LEMMA ItemFields ==
    ASSUME NEW ts, NEW i
    PROVE  /\ Item(ts, i).task = i
           /\ Item(ts, i).title = ts[i].title
           /\ Item(ts, i).status = ts[i].status
           /\ Item(ts, i).assignees = ts[i].assignees
BY DEF Item

\* No task and no title is shown twice.
LEMMA ShownDistinct ==
    ASSUME NEW ts, WellFormed(ts), NEW l
    PROVE  Changes!Distinct(Shown(ts, l))
<1> DEFINE s == Shown(ts, l)
<1> SUFFICES ASSUME NEW p \in DOMAIN s, NEW q \in DOMAIN s,
                    s[p].task = s[q].task \/ s[p].title = s[q].title
             PROVE  p = q
  BY DEF Changes!Distinct
<1>0. \A r \in DOMAIN s : \E i \in RowsOf(ts, l) : ts[i].position = r /\ s[r] = Item(ts, i)
  <2> SUFFICES ASSUME NEW r \in DOMAIN s
               PROVE  \E i \in RowsOf(ts, l) : ts[i].position = r /\ s[r] = Item(ts, i)
    OBVIOUS
  <2>0. DOMAIN s = 1 .. LastPosition(ts, l)
    BY ShownRows
  <2>1. PICK i \in RowsOf(ts, l) : ts[i].position = r
    BY <2>0, ShownRows
  <2>2. s[ts[i].position] = Item(ts, i)
    BY ShownRows
  <2> QED  BY <2>1, <2>2
<1> HIDE DEF s
<1>1. PICK i \in RowsOf(ts, l) : ts[i].position = p /\ s[p] = Item(ts, i)
  BY <1>0
<1>2. PICK j \in RowsOf(ts, l) : ts[j].position = q /\ s[q] = Item(ts, j)
  BY <1>0
<1>3. i = j \/ ts[i].title = ts[j].title
  BY <1>1, <1>2, ItemFields
<1>4. i = j
  BY <1>3 DEF RowsOf, WellFormed, UniqueTitles
<1> QED  BY <1>1, <1>2, <1>4

\* A statement that leaves the list of every row and its number alone.
LEMMA ShownInPlace ==
    ASSUME NEW ts, WellFormed(ts), NEW us, WellFormed(us), NEW l,
           RowsOf(us, l) = RowsOf(ts, l),
           \A i \in RowsOf(ts, l) : us[i].position = ts[i].position
    PROVE  /\ LastPosition(us, l) = LastPosition(ts, l)
           /\ \A p \in 1 .. LastPosition(ts, l) :
                 \E i \in RowsOf(ts, l) : /\ ts[i].position = p
                                          /\ Shown(ts, l)[p] = Item(ts, i)
                                          /\ Shown(us, l)[p] = Item(us, i)
<1> DEFINE n == LastPosition(ts, l)
<1>1. /\ n \in Nat
      /\ \A i \in RowsOf(ts, l) :
            ts[i].position \in 1 .. n /\ Shown(ts, l)[ts[i].position] = Item(ts, i)
      /\ \A p \in 1 .. n : \E i \in RowsOf(ts, l) : ts[i].position = p
  BY ShownRows
<1>2. \A i \in RowsOf(us, l) : Shown(us, l)[us[i].position] = Item(us, i)
  BY ShownRows
<1> HIDE DEF n
<1>3. LastPosition(us, l) = n
  <2>1. \A i \in RowsOf(us, l) : us[i].position <= n
    BY <1>1
  <2>2. n # 0 => \E i \in RowsOf(us, l) : us[i].position = n
    <3> SUFFICES ASSUME n # 0 PROVE \E i \in RowsOf(us, l) : us[i].position = n
      OBVIOUS
    <3>1. n \in 1 .. n
      BY <1>1
    <3> QED  BY <1>1, <3>1
  <2> QED  BY <1>1, <2>1, <2>2, LastIs
<1> QED  BY <1>1, <1>2, <1>3 DEF n

\* The rows of the list are as they were: so is what it shows.
LEMMA ShownSame ==
    ASSUME NEW ts, WellFormed(ts), NEW us, WellFormed(us), NEW l,
           RowsOf(us, l) = RowsOf(ts, l),
           \A i \in RowsOf(ts, l) : us[i] = ts[i]
    PROVE  Shown(us, l) = Shown(ts, l)
<1>1. /\ LastPosition(us, l) = LastPosition(ts, l)
      /\ \A p \in 1 .. LastPosition(ts, l) :
                 \E i \in RowsOf(ts, l) : /\ ts[i].position = p
                                          /\ Shown(ts, l)[p] = Item(ts, i)
                                          /\ Shown(us, l)[p] = Item(us, i)
  BY ShownInPlace
<1>2. \A i \in RowsOf(ts, l) : Item(us, i) = Item(ts, i)
  BY DEF Item
<1>3. \A p \in 1 .. LastPosition(ts, l) : Shown(us, l)[p] = Shown(ts, l)[p]
  BY <1>1, <1>2
<1> QED  BY <1>1, <1>3, ShownEqual

\* A statement that rewrites one row and leaves its list and number alone.
LEMMA ShownAt ==
    ASSUME NEW ts, WellFormed(ts), NEW us, WellFormed(us), NEW l, NEW id \in RowsOf(ts, l),
           DOMAIN us = DOMAIN ts,
           \A i \in DOMAIN ts : /\ us[i].list = ts[i].list
                                /\ us[i].position = ts[i].position
                                /\ i # id => us[i] = ts[i]
    PROVE  LET s == Shown(ts, l)
               u == Shown(us, l)
               p == ts[id].position
           IN  /\ p \in DOMAIN s /\ s[p] = Item(ts, id)
               /\ Changes!ChangedAt(s, u, p) /\ u[p] = Item(us, id)
<1> DEFINE n == LastPosition(ts, l)
           s == Shown(ts, l)
           u == Shown(us, l)
           p == ts[id].position
<1>1. RowsOf(us, l) = RowsOf(ts, l)
  BY DEF RowsOf
<1>2. \A i \in RowsOf(ts, l) : i \in DOMAIN ts
  BY DEF RowsOf
<1>3. DOMAIN s = 1 .. n /\ p \in 1 .. n /\ s[p] = Item(ts, id)
  BY ShownRows
<1>4. DOMAIN u = 1 .. LastPosition(us, l)
  BY ShownRows
<1>5. /\ LastPosition(us, l) = n
      /\ \A q \in 1 .. n :
            \E i \in RowsOf(ts, l) : ts[i].position = q /\ s[q] = Item(ts, i) /\ u[q] = Item(us, i)
  BY <1>1, <1>2, ShownInPlace
<1> HIDE DEF n, s, u, p
<1>6. ASSUME NEW q \in 1 .. n
      PROVE  u[q] = IF q = p THEN Item(us, id) ELSE s[q]
  <2>1. PICK i \in RowsOf(ts, l) :
            ts[i].position = q /\ s[q] = Item(ts, i) /\ u[q] = Item(us, i)
    BY <1>5
  <2>2. q = p <=> i = id
    BY <1>2, <2>1 DEF WellFormed, UniquePositions, RowsOf, p
  <2>3. i # id => Item(us, i) = Item(ts, i)
    BY <1>2 DEF Item
  <2> QED  BY <2>1, <2>2, <2>3
<1>7. Changes!ChangedAt(s, u, p) /\ u[p] = Item(us, id)
  BY <1>3, <1>4, <1>5, <1>6 DEF Changes!ChangedAt
<1> QED  BY <1>3, <1>7 DEF s, u, p

\* UpdateTaskFields renames the task where it is.
LEMMA ShownRenamed ==
    ASSUME NEW ts, WellFormed(ts), NEW l, NEW id \in RowsOf(ts, l), NEW title \in Titles,
           WellFormed(SetTitle(ts, id, title))
    PROVE  Changes!Renamed(Shown(ts, l), Shown(SetTitle(ts, id, title), l))
<1> DEFINE us == SetTitle(ts, id, title)
           s  == Shown(ts, l)
           u  == Shown(us, l)
           p  == ts[id].position
<1>1. id \in DOMAIN ts /\ DOMAIN us = DOMAIN ts /\ \A i \in DOMAIN ts : ts[i] \in Row
  BY DEF WellFormed, Typed, RowsOf, SetTitle
<1>2. \A i \in DOMAIN ts : us[i] = IF i = id THEN [ts[i] EXCEPT !.title = title] ELSE ts[i]
  BY DEF SetTitle
<1> HIDE DEF us
<1>3. \A i \in DOMAIN ts : /\ us[i].list = ts[i].list
                           /\ us[i].position = ts[i].position
                           /\ i # id => us[i] = ts[i]
  BY <1>1, <1>2 DEF Row
<1>4. Item(us, id) = [Item(ts, id) EXCEPT !.title = title]
  BY <1>1, <1>2 DEF Row, Item
<1>5. /\ p \in DOMAIN s /\ s[p] = Item(ts, id)
      /\ Changes!ChangedAt(s, u, p) /\ u[p] = Item(us, id)
  BY <1>1, <1>3, ShownAt DEF us
<1> HIDE DEF s, u, p
<1>6. u[p] = [s[p] EXCEPT !.title = title]
  BY <1>4, <1>5
<1>7. Changes!Renamed(s, u)
  BY <1>5, <1>6 DEF Changes!Renamed
<1> QED  BY <1>7 DEF s, u, us

\* ReplaceTaskAssignees gives the task where it is other assignees.
LEMMA ShownReassigned ==
    ASSUME NEW ts, WellFormed(ts), NEW l, NEW id \in RowsOf(ts, l), NEW jids \in Seq(People),
           WellFormed(SetAssignees(ts, id, jids))
    PROVE  Changes!Reassigned(Shown(ts, l), Shown(SetAssignees(ts, id, jids), l))
<1> DEFINE us == SetAssignees(ts, id, jids)
           s  == Shown(ts, l)
           u  == Shown(us, l)
           p  == ts[id].position
<1>1. id \in DOMAIN ts /\ DOMAIN us = DOMAIN ts /\ \A i \in DOMAIN ts : ts[i] \in Row
  BY DEF WellFormed, Typed, RowsOf, SetAssignees
<1>2. \A i \in DOMAIN ts :
          us[i] = IF i = id THEN [ts[i] EXCEPT !.assignees = Assigned(jids)] ELSE ts[i]
  BY DEF SetAssignees
<1>3. Range(jids) \in SUBSET People
  BY DEF Range
<1>4. Assigned(jids) = Changes!Present(Range(jids))
  BY DEF Assigned, Changes!Present
<1> HIDE DEF us
<1>5. \A i \in DOMAIN ts : /\ us[i].list = ts[i].list
                           /\ us[i].position = ts[i].position
                           /\ i # id => us[i] = ts[i]
  BY <1>1, <1>2 DEF Row
<1>6. Item(us, id) = [Item(ts, id) EXCEPT !.assignees = Assigned(jids)]
  BY <1>1, <1>2 DEF Row, Item
<1>7. /\ p \in DOMAIN s /\ s[p] = Item(ts, id)
      /\ Changes!ChangedAt(s, u, p) /\ u[p] = Item(us, id)
  BY <1>1, <1>5, ShownAt DEF us
<1> HIDE DEF s, u, p
<1>8. u[p] = [s[p] EXCEPT !.assignees = Changes!Present(Range(jids))]
  BY <1>4, <1>6, <1>7
<1>9. Changes!Reassigned(s, u)
  BY <1>3, <1>7, <1>8 DEF Changes!Reassigned
<1> QED  BY <1>9 DEF s, u, us

\* UpdateTaskStatus, once per number of a reply.
LEMMA ShownMarked ==
    ASSUME NEW ts, WellFormed(ts), NEW l, NEW ps, NEW status \in Statuses,
           WellFormed(SetStatus(ts, l, ps, status))
    PROVE  Changes!Marked(Shown(ts, l), Shown(SetStatus(ts, l, ps, status), l))
<1> DEFINE us == SetStatus(ts, l, ps, status)
           n  == LastPosition(ts, l)
           s  == Shown(ts, l)
           u  == Shown(us, l)
<1>1. DOMAIN us = DOMAIN ts /\ \A i \in DOMAIN ts : ts[i] \in Row
  BY DEF WellFormed, Typed, SetStatus
<1>2. \A i \in RowsOf(ts, l) :
          us[i] = IF ts[i].position \in ps THEN [ts[i] EXCEPT !.status = status] ELSE ts[i]
  BY DEF SetStatus, RowsOf
<1>3. \A i \in DOMAIN ts : us[i].list = ts[i].list
  BY <1>1 DEF SetStatus, Row
<1> HIDE DEF us
<1>4. RowsOf(us, l) = RowsOf(ts, l)
  BY <1>1, <1>3 DEF RowsOf
<1>5. ASSUME NEW i \in RowsOf(ts, l)
      PROVE  /\ us[i].position = ts[i].position
             /\ Item(us, i) = IF ts[i].position \in ps
                              THEN [Item(ts, i) EXCEPT !.status = status] ELSE Item(ts, i)
  <2>1. ts[i] \in Row
    BY <1>1 DEF RowsOf
  <2> QED  BY <1>2, <2>1 DEF Row, Item
<1>6. DOMAIN s = 1 .. n
  BY ShownRows
<1>7. DOMAIN u = 1 .. LastPosition(us, l)
  BY ShownRows DEF us
<1>8. /\ LastPosition(us, l) = n
      /\ \A q \in 1 .. n :
            \E i \in RowsOf(ts, l) : ts[i].position = q /\ s[q] = Item(ts, i) /\ u[q] = Item(us, i)
  BY <1>4, <1>5, ShownInPlace DEF us
<1> HIDE DEF n, s, u
<1>9. ASSUME NEW q \in 1 .. n
      PROVE  u[q] \in {s[q], [s[q] EXCEPT !.status = status]}
  <2>1. PICK i \in RowsOf(ts, l) :
            ts[i].position = q /\ s[q] = Item(ts, i) /\ u[q] = Item(us, i)
    BY <1>8
  <2>2. u[q] = s[q] \/ u[q] = [s[q] EXCEPT !.status = status]
    BY <1>5, <2>1
  <2> QED  BY <2>2
<1>10. DOMAIN u = DOMAIN s /\ \A q \in DOMAIN s : u[q] \in {s[q], [s[q] EXCEPT !.status = status]}
  BY <1>6, <1>7, <1>8, <1>9
<1>11. status \in {"todo", "done"}
  BY DEF Statuses
<1>12. Changes!Marked(s, u)
  BY <1>10, <1>11, Zenon DEF Changes!Marked
<1> QED  BY <1>12 DEF s, u, us

\* SetAssigneeLeft writes one row's left_group and nothing else.
LEMMA RowLeftRewrites ==
    ASSUME NEW ts, Typed(ts), NEW id, NEW person, NEW i \in DOMAIN ts
    PROVE  LET us == SetRowLeft(ts, id, person)
           IN  /\ us[i] \in Row
               /\ us[i].list = ts[i].list
               /\ us[i].position = ts[i].position
               /\ us[i].title = ts[i].title
               /\ us[i].status = ts[i].status
               /\ i # id => us[i] = ts[i]
<1> DEFINE us == SetRowLeft(ts, id, person)
           marked == [ts[i].assignees EXCEPT ![person] = TRUE]
<1>1. ts[i] \in Row
  BY DEF Typed
<1>2. CASE i = id /\ person \in DOMAIN ts[i].assignees
  <2>1. us[i] = [ts[i] EXCEPT !.assignees = marked]
    BY <1>2 DEF SetRowLeft
  <2>2. PICK S \in SUBSET People : ts[i].assignees \in [S -> BOOLEAN]
    BY <1>1 DEF Row
  <2>3. marked \in [S -> BOOLEAN]
    BY <2>2
  <2> HIDE DEF marked, us
  <2>4. /\ us[i] \in Row
        /\ us[i].list = ts[i].list /\ us[i].position = ts[i].position
        /\ us[i].title = ts[i].title /\ us[i].status = ts[i].status
    BY <1>1, <2>1, <2>3 DEF Row
  <2> QED  BY <1>2, <2>4 DEF us
<1>3. CASE ~(i = id /\ person \in DOMAIN ts[i].assignees)
  BY <1>1, <1>3 DEF SetRowLeft
<1> QED  BY <1>2, <1>3

\* One task shows that somebody left; nothing else moves or changes.
LEMMA ShownRowLeft ==
    ASSUME NEW ts, WellFormed(ts), NEW l, NEW id \in RowsOf(ts, l),
           NEW person \in DOMAIN ts[id].assignees, WellFormed(SetRowLeft(ts, id, person))
    PROVE  Changes!LeftAt(Shown(ts, l), Shown(SetRowLeft(ts, id, person), l))
<1> DEFINE us == SetRowLeft(ts, id, person)
           s  == Shown(ts, l)
           u  == Shown(us, l)
           p  == ts[id].position
<1>1. id \in DOMAIN ts /\ DOMAIN us = DOMAIN ts /\ ts[id] \in Row
  BY DEF WellFormed, Typed, RowsOf, SetRowLeft
<1>2. us[id] = [ts[id] EXCEPT !.assignees[person] = TRUE]
  BY <1>1 DEF SetRowLeft
<1>3. \A i \in DOMAIN ts : /\ us[i].list = ts[i].list
                           /\ us[i].position = ts[i].position
                           /\ i # id => us[i] = ts[i]
  BY RowLeftRewrites DEF WellFormed
<1> HIDE DEF us
<1>4. Item(us, id) = [Item(ts, id) EXCEPT !.assignees[person] = TRUE]
  <2> DEFINE marked == [ts[id].assignees EXCEPT ![person] = TRUE]
  <2>1. us[id] = [ts[id] EXCEPT !.assignees = marked]
    BY <1>2
  <2>2. Item(ts, id).assignees = ts[id].assignees
    BY DEF Item
  <2> HIDE DEF marked
  <2>3. Item(us, id) = [Item(ts, id) EXCEPT !.assignees = marked]
    BY <1>1, <2>1 DEF Row, Item
  <2> QED  BY <2>2, <2>3 DEF marked
<1>5. /\ p \in DOMAIN s /\ s[p] = Item(ts, id)
      /\ Changes!ChangedAt(s, u, p) /\ u[p] = Item(us, id)
  BY <1>1, <1>3, ShownAt DEF us
<1>6. person \in DOMAIN s[p].assignees
  BY <1>5 DEF Item
<1> HIDE DEF s, u, p
<1>7. u[p] = [s[p] EXCEPT !.assignees[person] = TRUE]
  BY <1>4, <1>5
<1>8. Changes!LeftAt(s, u)
  BY <1>5, <1>6, <1>7 DEF Changes!LeftAt
<1> QED  BY <1>8 DEF s, u, us

\* MarkAssigneeLeft, in a list of the group that was left.
LEMMA ShownLeft ==
    ASSUME NEW ts, WellFormed(ts), NEW ls, NEW l \in ls, NEW person \in People,
           WellFormed(SetLeft(ts, ls, person))
    PROVE  Changes!Left(Shown(ts, l), Shown(SetLeft(ts, ls, person), l))
<1> DEFINE us == SetLeft(ts, ls, person)
           n  == LastPosition(ts, l)
           s  == Shown(ts, l)
           u  == Shown(us, l)
<1>1. DOMAIN us = DOMAIN ts /\ \A i \in DOMAIN ts : ts[i] \in Row
  BY DEF WellFormed, Typed, SetLeft
<1>2. \A i \in RowsOf(ts, l) :
          us[i] = IF person \in DOMAIN ts[i].assignees
                  THEN [ts[i] EXCEPT !.assignees[person] = TRUE] ELSE ts[i]
  BY DEF SetLeft, RowsOf
<1>3. \A i \in DOMAIN ts : us[i].list = ts[i].list
  BY <1>1 DEF SetLeft, Row
<1> HIDE DEF us
<1>4. RowsOf(us, l) = RowsOf(ts, l)
  BY <1>1, <1>3 DEF RowsOf
<1>5. ASSUME NEW i \in RowsOf(ts, l)
      PROVE  /\ us[i].position = ts[i].position
             /\ Item(us, i) = IF person \in DOMAIN Item(ts, i).assignees
                              THEN [Item(ts, i) EXCEPT !.assignees[person] = TRUE]
                              ELSE Item(ts, i)
  <2>1. ts[i] \in Row
    BY <1>1 DEF RowsOf
  <2> QED  BY <1>2, <2>1 DEF Row, Item
<1>6. DOMAIN s = 1 .. n
  BY ShownRows
<1>7. DOMAIN u = 1 .. LastPosition(us, l)
  BY ShownRows DEF us
<1>8. /\ LastPosition(us, l) = n
      /\ \A q \in 1 .. n :
            \E i \in RowsOf(ts, l) : ts[i].position = q /\ s[q] = Item(ts, i) /\ u[q] = Item(us, i)
  BY <1>4, <1>5, ShownInPlace DEF us
<1> HIDE DEF n, s, u
<1>9. ASSUME NEW q \in 1 .. n
      PROVE  u[q] = IF person \in DOMAIN s[q].assignees
                    THEN [s[q] EXCEPT !.assignees[person] = TRUE] ELSE s[q]
  <2>1. PICK i \in RowsOf(ts, l) :
            ts[i].position = q /\ s[q] = Item(ts, i) /\ u[q] = Item(us, i)
    BY <1>8
  <2> QED  BY <1>5, <2>1
<1>10. DOMAIN u = DOMAIN s /\ \A q \in DOMAIN s :
                                 u[q] = IF person \in DOMAIN s[q].assignees
                                        THEN [s[q] EXCEPT !.assignees[person] = TRUE] ELSE s[q]
  BY <1>6, <1>7, <1>8, <1>9
<1>11. Changes!Left(s, u)
  BY <1>10, Zenon DEF Changes!Left
<1> QED  BY <1>11 DEF s, u, us

\* DeleteTask: the later tasks move up by one, and nothing else happens.
LEMMA ShownRemoved ==
    ASSUME NEW ts, WellFormed(ts), NEW l, NEW p \in Nat \ {0}
    PROVE  \/ Changes!Removed(Shown(ts, l), Shown(RemoveAt(ts, l, p), l))
           \/ Shown(RemoveAt(ts, l, p), l) = Shown(ts, l)
<1> DEFINE us   == RemoveAt(ts, l, p)
           kept == DOMAIN ts \ IdsAt(ts, l, p)
           n    == LastPosition(ts, l)
           s    == Shown(ts, l)
           u    == Shown(us, l)
<1>1. WellFormed(us) /\ DOMAIN us = kept
  BY RemoveAtWellFormed DEF RemoveAt
<1>2. ASSUME NEW i \in kept
      PROVE  /\ us[i].list = ts[i].list
             /\ ts[i].list = l => us[i].position = Shift(p, ts[i].position)
             /\ Item(us, i) = Item(ts, i)
  BY RemoveAtRows DEF Item
<1> HIDE DEF us
<1>3. /\ n \in Nat
      /\ s = [q \in 1 .. n |-> s[q]]
      /\ Len(s) = n
      /\ \A i \in RowsOf(ts, l) : ts[i].position \in 1 .. n /\ s[ts[i].position] = Item(ts, i)
      /\ \A q \in 1 .. n : \E i \in RowsOf(ts, l) : ts[i].position = q
  BY ShownRows
<1>4. /\ u = [q \in 1 .. LastPosition(us, l) |-> u[q]]
      /\ \A i \in RowsOf(us, l) : u[us[i].position] = Item(us, i)
  BY <1>1, ShownRows
<1>5. RowsOf(us, l) = {i \in RowsOf(ts, l) : ts[i].position # p}
  BY <1>1, <1>2 DEF RowsOf, IdsAt
<1>6. \A i \in RowsOf(us, l) : i \in kept /\ i \in RowsOf(ts, l) /\ ts[i].list = l
  BY <1>1, <1>5 DEF RowsOf
<1> HIDE DEF n, s, u, kept
<1>7. CASE p \notin 1 .. n
  <2>1. RowsOf(us, l) = RowsOf(ts, l)
    BY <1>3, <1>5, <1>7
  <2>2. ASSUME NEW i \in RowsOf(ts, l) PROVE us[i].position = ts[i].position
    <3>1. ts[i].position \in 1 .. n /\ us[i].position = Shift(p, ts[i].position)
      BY <1>2, <1>3, <1>6, <2>1
    <3> QED  BY <1>3, <1>7, <3>1 DEF Shift
  <2>3. /\ LastPosition(us, l) = n
        /\ \A q \in 1 .. n :
              \E i \in RowsOf(ts, l) : /\ ts[i].position = q
                                       /\ s[q] = Item(ts, i)
                                       /\ u[q] = Item(us, i)
    BY <1>1, <2>1, <2>2, ShownInPlace DEF n, s, u
  <2>4. \A q \in 1 .. n : u[q] = s[q]
    BY <1>2, <1>6, <2>1, <2>3
  <2>5. u = s
    BY <1>3, <1>4, <2>3, <2>4
  <2> QED  BY <2>5 DEF s, u, us
<1>8. CASE p \in 1 .. n
  <2>1. ASSUME NEW q \in 1 .. n - 1
        PROVE  \E i \in RowsOf(us, l) : /\ us[i].position = q
                                        /\ u[q] = IF q < p THEN s[q] ELSE s[q + 1]
    <3> DEFINE r == Unshift(p, q)
    <3>1. r \in 1 .. n /\ r # p /\ Shift(p, r) = q /\ r = IF q < p THEN q ELSE q + 1
      BY <1>3, <1>8 DEF Shift, Unshift
    <3> HIDE DEF r
    <3>2. PICK i \in RowsOf(ts, l) : ts[i].position = r
      BY <1>3, <3>1
    <3>3. i \in RowsOf(us, l) /\ s[r] = Item(ts, i)
      BY <1>3, <1>5, <3>1, <3>2
    <3>4. us[i].position = q /\ u[q] = s[r]
      BY <1>2, <1>4, <1>6, <3>1, <3>2, <3>3
    <3> QED  BY <3>1, <3>3, <3>4
  <2>2. LastPosition(us, l) = n - 1
    <3>1. n - 1 \in Nat
      BY <1>3, <1>8
    <3>2. ASSUME NEW i \in RowsOf(us, l) PROVE us[i].position <= n - 1
      <4>1. ts[i].position \in 1 .. n /\ ts[i].position # p
        BY <1>3, <1>5
      <4>2. us[i].position = Shift(p, ts[i].position)
        BY <1>2, <1>6
      <4> QED  BY <1>3, <1>8, <4>1, <4>2 DEF Shift
    <3>3. n - 1 # 0 => \E i \in RowsOf(us, l) : us[i].position = n - 1
      <4> SUFFICES ASSUME n - 1 # 0 PROVE \E i \in RowsOf(us, l) : us[i].position = n - 1
        OBVIOUS
      <4>1. n - 1 \in 1 .. n - 1
        BY <1>3, <3>1
      <4> QED  BY <2>1, <4>1
    <3> QED  BY <1>1, <3>1, <3>2, <3>3, LastIs
  <2>3. \A q \in 1 .. n - 1 : u[q] = IF q < p THEN s[q] ELSE s[q + 1]
    BY <2>1
  <2>4. DOMAIN u = 1 .. Len(s) - 1 /\ DOMAIN s = 1 .. n
    BY <1>3, <1>4, <2>2
  <2>5. \A q \in DOMAIN u : u[q] = s[IF q < p THEN q ELSE q + 1]
    BY <1>3, <2>3, <2>4
  <2>6. Changes!Removed(s, u)
    BY <1>8, <2>4, <2>5 DEF Changes!Removed
  <2> QED  BY <2>6 DEF s, u, us
<1> QED  BY <1>7, <1>8

\* CreateTasks: the batch goes to the end of the list, to do and with everybody in
\* the group.
LEMMA ShownExtended ==
    ASSUME NEW ts, WellFormed(ts), NEW l \in TaskLists,
           NEW next \in Nat \ {0}, DOMAIN ts \subseteq 1 .. (next - 1),
           NEW batch \in Seq([title : Titles, assign : Seq(People)]), Len(batch) > 0,
           BatchFits(ts, l, batch)
    PROVE  Changes!Extended(Shown(ts, l), Shown(InsertBatch(ts, l, batch, next), l))
<1> DEFINE us   == InsertBatch(ts, l, batch, next)
           k    == Len(batch)
           new  == next .. next + k - 1
           n    == LastPosition(ts, l)
           s    == Shown(ts, l)
           u    == Shown(us, l)
<1>1. WellFormed(us)
  BY InsertBatchWellFormed
<1>2. DOMAIN us = DOMAIN ts \cup new /\ \A i \in DOMAIN ts : us[i] = ts[i]
  BY DEF InsertBatch
<1>3. k \in Nat /\ DOMAIN batch = 1 .. k
      /\ \A m \in 1 .. k : batch[m] \in [title : Titles, assign : Seq(People)]
  BY SeqElements
<1>4. /\ n \in Nat
      /\ Len(s) = n /\ DOMAIN s = 1 .. n
      /\ \A i \in RowsOf(ts, l) : ts[i].position \in 1 .. n /\ s[ts[i].position] = Item(ts, i)
      /\ \A q \in 1 .. n : \E i \in RowsOf(ts, l) : ts[i].position = q
  BY ShownRows
<1>5. ASSUME NEW m \in 1 .. k
      PROVE  us[next + m - 1] = NewRow(l, n + m, batch[m]) /\ next + m - 1 \in new
  <2> DEFINE i == next + m - 1
  <2>1. i \in new /\ i \notin DOMAIN ts /\ i - next + 1 = m /\ i - next = m - 1
    BY <1>3
  <2> HIDE DEF i
  <2>2. us[i] = NewRow(l, n + (m - 1) + 1, batch[m])
    BY <2>1 DEF InsertBatch
  <2>3. n + (m - 1) + 1 = n + m
    BY <1>3, <1>4
  <2> HIDE DEF us, n, new, k
  <2>4. us[i] = NewRow(l, n + m, batch[m])
    BY <2>2, <2>3
  <2> QED  BY <2>1, <2>4 DEF i
<1>6. ASSUME NEW i \in new PROVE \E m \in 1 .. k : i = next + m - 1
  <2>1. i - next + 1 \in 1 .. k /\ i = next + (i - next + 1) - 1
    BY <1>3
  <2> QED  BY <2>1
<1> HIDE DEF us, k, new
<1>7. /\ Len(u) = LastPosition(us, l) /\ DOMAIN u = 1 .. LastPosition(us, l)
      /\ \A i \in RowsOf(us, l) : u[us[i].position] = Item(us, i)
  BY <1>1, ShownRows
<1> HIDE DEF n, s, u
<1>8. ASSUME NEW i \in RowsOf(ts, l)
      PROVE  i \in RowsOf(us, l) /\ us[i].position = ts[i].position /\ Item(us, i) = Item(ts, i)
  BY <1>2 DEF RowsOf, Item
<1>9. ASSUME NEW m \in 1 .. k
      PROVE  /\ next + m - 1 \in RowsOf(us, l)
             /\ us[next + m - 1].position = n + m
             /\ u[n + m].status = "todo"
             /\ u[n + m].assignees = Changes!Present(Range(batch[m].assign))
             /\ Range(batch[m].assign) \in SUBSET People
  <2> DEFINE i == next + m - 1
  <2>1. us[i] = NewRow(l, n + m, batch[m]) /\ i \in DOMAIN us
    BY <1>2, <1>5
  <2> HIDE DEF i
  <2>2. /\ us[i].list = l /\ us[i].position = n + m /\ us[i].status = "todo"
        /\ us[i].assignees = Changes!Present(Range(batch[m].assign))
    BY <2>1 DEF NewRow, Assigned, Changes!Present
  <2>3. i \in RowsOf(us, l)
    BY <2>1, <2>2 DEF RowsOf
  <2>4. u[n + m] = Item(us, i)
    BY <1>7, <2>2, <2>3
  <2>5. batch[m].assign \in Seq(People)
    BY <1>3
  <2>6. Range(batch[m].assign) \in SUBSET People
    BY <2>5 DEF Range
  <2> QED  BY <2>2, <2>3, <2>4, <2>6, ItemFields DEF i
<1>10. LastPosition(us, l) = n + k
  <2>1. n + k \in Nat
    BY <1>3, <1>4
  <2>2. ASSUME NEW i \in RowsOf(us, l) PROVE us[i].position <= n + k
    <3>1. CASE i \in DOMAIN ts
      <4>1. i \in RowsOf(ts, l)
        BY <1>2, <3>1 DEF RowsOf
      <4> QED  BY <1>3, <1>4, <1>8, <4>1
    <3>2. CASE i \in new
      <4>1. PICK m \in 1 .. k : i = next + m - 1
        BY <1>6, <3>2
      <4>2. us[i].position = n + m
        BY <1>9, <4>1
      <4> QED  BY <1>3, <1>4, <4>2
    <3> QED  BY <1>2, <3>1, <3>2 DEF RowsOf
  <2>3. \E i \in RowsOf(us, l) : us[i].position = n + k
    <3>1. k \in 1 .. k
      BY <1>3 DEF k
    <3> QED  BY <1>9, <3>1
  <2> QED  BY <1>1, <2>1, <2>2, <2>3, LastIs
<1>11. Len(s) < Len(u) /\ Len(u) = n + k
  <2>1. k > 0
    BY DEF k
  <2> QED  BY <1>3, <1>4, <1>7, <1>10, <2>1
<1>12. ASSUME NEW q \in 1 .. Len(s) PROVE u[q] = s[q]
  <2>1. PICK i \in RowsOf(ts, l) : ts[i].position = q
    BY <1>4
  <2> QED  BY <1>4, <1>7, <1>8, <2>1
<1>13. ASSUME NEW q \in Len(s) + 1 .. Len(u)
       PROVE  /\ u[q].status = "todo"
              /\ \E persons \in SUBSET People : u[q].assignees = Changes!Present(persons)
  <2>1. q - n \in 1 .. k /\ n + (q - n) = q
    BY <1>3, <1>4, <1>11
  <2> QED  BY <1>9, <2>1
<1>14. /\ DOMAIN u = 1 .. Len(u) /\ DOMAIN s = 1 .. Len(s)
       /\ DOMAIN u \ DOMAIN s = Len(s) + 1 .. Len(u)
  BY <1>3, <1>4, <1>7, <1>11
<1>15. Changes!Extended(s, u)
  BY <1>11, <1>12, <1>13, <1>14 DEF Changes!Extended
<1> QED  BY <1>15 DEF s, u, us

\* A list without rows shows nothing.
LEMMA ShownEmpty ==
    ASSUME NEW ts, NEW l, RowsOf(ts, l) = {}
    PROVE  Shown(ts, l) = <<>>
<1>1. {ts[i].position : i \in RowsOf(ts, l)} = {}
  OBVIOUS
<1> DEFINE item(p) == Item(ts, CHOOSE i \in IdsAt(ts, l, p) : TRUE)
<1>2. Shown(ts, l) = [p \in {} |-> item(p)]
  BY <1>1 DEF Shown
<1> HIDE DEF item
<1>3. [p \in {} |-> item(p)] = <<>>
  OBVIOUS
<1> QED  BY <1>2, <1>3

-----------------------------------------------------------------------------
\* What the statements do to any list, the one they name or another.
Moves(ts, us, l) ==
    Shown(us, l) = Shown(ts, l) \/ Changes!Follows(Shown(ts, l), Shown(us, l))

LEMMA SameMoves ==
    ASSUME NEW ts, WellFormed(ts), NEW us, WellFormed(us), NEW l,
           RowsOf(us, l) = RowsOf(ts, l),
           \A i \in RowsOf(ts, l) : us[i] = ts[i]
    PROVE  Moves(ts, us, l)
BY ShownSame DEF Moves

LEMMA InsertMoves ==
    ASSUME NEW ts, WellFormed(ts), NEW k \in TaskLists,
           NEW next \in Nat \ {0}, DOMAIN ts \subseteq 1 .. (next - 1),
           NEW batch \in Seq([title : Titles, assign : Seq(People)]),
           BatchFits(ts, k, batch), NEW l
    PROVE  Moves(ts, InsertBatch(ts, k, batch, next), l)
<1> DEFINE us == InsertBatch(ts, k, batch, next)
<1>1. WellFormed(us) /\ Len(batch) \in Nat
  BY InsertBatchWellFormed, SeqElements
<1>2. /\ DOMAIN us = DOMAIN ts \cup (next .. next + Len(batch) - 1)
      /\ \A i \in DOMAIN ts : us[i] = ts[i]
  BY DEF InsertBatch
<1>3. ASSUME NEW i \in next .. next + Len(batch) - 1 PROVE us[i].list = k
  <2>1. i \notin DOMAIN ts
    OBVIOUS
  <2> QED  BY <2>1 DEF InsertBatch, NewRow
<1>4. CASE l = k /\ Len(batch) > 0
  <2>1. Changes!Extended(Shown(ts, l), Shown(us, l)) /\ Changes!Distinct(Shown(us, l))
    BY <1>1, <1>4, ShownExtended, ShownDistinct
  <2> QED  BY <2>1 DEF Moves, Changes!Follows
<1>5. CASE l # k \/ ~(Len(batch) > 0)
  <2> HIDE DEF us
  <2>1. RowsOf(us, l) = RowsOf(ts, l)
    BY <1>1, <1>2, <1>3, <1>5 DEF RowsOf
  <2>2. \A i \in RowsOf(ts, l) : us[i] = ts[i]
    BY <1>2 DEF RowsOf
  <2> QED  BY <1>1, <2>1, <2>2, SameMoves DEF us
<1> QED  BY <1>4, <1>5

LEMMA RemovalMoves ==
    ASSUME NEW ts, WellFormed(ts), NEW k, NEW p \in Nat \ {0}, NEW l
    PROVE  Moves(ts, RemoveAt(ts, k, p), l)
<1> DEFINE us == RemoveAt(ts, k, p)
<1>1. CASE l = k
  BY <1>1, ShownRemoved DEF Moves, Changes!Follows
<1>2. CASE l # k
  <2>1. DOMAIN us = DOMAIN ts \ IdsAt(ts, k, p)
    BY DEF RemoveAt
  <2>2. \A i \in DOMAIN ts \ IdsAt(ts, k, p) : us[i].list = ts[i].list
    BY RemoveAtRows
  <2>3. \A i \in DOMAIN ts : ts[i].list = l => i \notin IdsAt(ts, k, p)
    BY <1>2 DEF IdsAt, RowsOf
  <2>4. RowsOf(us, l) = RowsOf(ts, l)
    BY <2>1, <2>2, <2>3 DEF RowsOf
  <2>5. \A i \in RowsOf(ts, l) : us[i] = ts[i]
    BY <1>2 DEF RemoveAt, RowsOf, IdsAt
  <2> QED  BY <2>4, <2>5, RemoveAtWellFormed, SameMoves
<1> QED  BY <1>1, <1>2

\* A statement that rewrites one row leaves the other lists as they are, or, when
\* the row is gone, all of them.
LEMMA OthersMove ==
    ASSUME NEW ts, WellFormed(ts), NEW us, WellFormed(us), NEW l,
           NEW id, id \notin RowsOf(ts, l),
           DOMAIN us = DOMAIN ts,
           \A i \in DOMAIN ts : us[i].list = ts[i].list /\ (i # id => us[i] = ts[i])
    PROVE  Moves(ts, us, l)
BY SameMoves DEF RowsOf

LEMMA TitleMoves ==
    ASSUME NEW ts, WellFormed(ts), NEW id, NEW title \in Titles, NEW l,
           WellFormed(SetTitle(ts, id, title))
    PROVE  Moves(ts, SetTitle(ts, id, title), l)
<1> DEFINE us == SetTitle(ts, id, title)
<1>1. CASE id \in RowsOf(ts, l)
  <2>1. Changes!Renamed(Shown(ts, l), Shown(us, l)) /\ Changes!Distinct(Shown(us, l))
    BY <1>1, ShownRenamed, ShownDistinct
  <2> QED  BY <2>1 DEF Moves, Changes!Follows
<1>2. CASE id \notin RowsOf(ts, l)
  <2>1. DOMAIN us = DOMAIN ts
    BY DEF SetTitle
  <2>2. ASSUME NEW i \in DOMAIN ts
        PROVE  us[i].list = ts[i].list /\ (i # id => us[i] = ts[i])
    <3>1. ts[i] \in Row
      BY DEF WellFormed, Typed
    <3> QED  BY <3>1 DEF SetTitle, Row
  <2> QED  BY <1>2, <2>1, <2>2, OthersMove
<1> QED  BY <1>1, <1>2

LEMMA AssigneesMove ==
    ASSUME NEW ts, WellFormed(ts), NEW id, NEW jids \in Seq(People), NEW l,
           WellFormed(SetAssignees(ts, id, jids))
    PROVE  Moves(ts, SetAssignees(ts, id, jids), l)
<1> DEFINE us == SetAssignees(ts, id, jids)
<1>1. CASE id \in RowsOf(ts, l)
  BY <1>1, ShownReassigned DEF Moves, Changes!Follows
<1>2. CASE id \notin RowsOf(ts, l)
  <2>1. DOMAIN us = DOMAIN ts
    BY DEF SetAssignees
  <2>2. ASSUME NEW i \in DOMAIN ts
        PROVE  us[i].list = ts[i].list /\ (i # id => us[i] = ts[i])
    <3>1. ts[i] \in Row
      BY DEF WellFormed, Typed
    <3> QED  BY <3>1 DEF SetAssignees, Row
  <2> QED  BY <1>2, <2>1, <2>2, OthersMove
<1> QED  BY <1>1, <1>2

LEMMA StatusMoves ==
    ASSUME NEW ts, WellFormed(ts), NEW k, NEW ps, NEW status \in Statuses, NEW l,
           WellFormed(SetStatus(ts, k, ps, status))
    PROVE  Moves(ts, SetStatus(ts, k, ps, status), l)
<1> DEFINE us == SetStatus(ts, k, ps, status)
<1>1. CASE l = k
  BY <1>1, ShownMarked DEF Moves, Changes!Follows
<1>2. CASE l # k
  <2>1. DOMAIN us = DOMAIN ts
    BY DEF SetStatus
  <2>2. ASSUME NEW i \in DOMAIN ts
        PROVE  us[i].list = ts[i].list /\ (ts[i].list = l => us[i] = ts[i])
    <3>1. ts[i] \in Row
      BY DEF WellFormed, Typed
    <3> QED  BY <1>2, <3>1 DEF SetStatus, Row
  <2>3. RowsOf(us, l) = RowsOf(ts, l) /\ \A i \in RowsOf(ts, l) : us[i] = ts[i]
    BY <2>1, <2>2 DEF RowsOf
  <2> QED  BY <2>3, SameMoves
<1> QED  BY <1>1, <1>2

LEMMA LeftMoves ==
    ASSUME NEW ts, WellFormed(ts), NEW ls, NEW person \in People, NEW l,
           WellFormed(SetLeft(ts, ls, person))
    PROVE  Moves(ts, SetLeft(ts, ls, person), l)
<1> DEFINE us == SetLeft(ts, ls, person)
<1>1. CASE l \in ls
  BY <1>1, ShownLeft DEF Moves, Changes!Follows
<1>2. CASE l \notin ls
  <2>1. DOMAIN us = DOMAIN ts
    BY DEF SetLeft
  <2>2. ASSUME NEW i \in DOMAIN ts
        PROVE  us[i].list = ts[i].list /\ (ts[i].list = l => us[i] = ts[i])
    <3>1. ts[i] \in Row
      BY DEF WellFormed, Typed
    <3> QED  BY <1>2, <3>1 DEF SetLeft, Row
  <2>3. RowsOf(us, l) = RowsOf(ts, l) /\ \A i \in RowsOf(ts, l) : us[i] = ts[i]
    BY <2>1, <2>2 DEF RowsOf
  <2> QED  BY <2>3, SameMoves
<1> QED  BY <1>1, <1>2

LEMMA RowLeftMoves ==
    ASSUME NEW ts, WellFormed(ts), NEW id \in DOMAIN ts,
           NEW person \in DOMAIN ts[id].assignees, NEW l, WellFormed(SetRowLeft(ts, id, person))
    PROVE  Moves(ts, SetRowLeft(ts, id, person), l)
<1> DEFINE us == SetRowLeft(ts, id, person)
<1>1. CASE id \in RowsOf(ts, l)
  BY <1>1, ShownRowLeft DEF Moves, Changes!Follows
<1>2. CASE id \notin RowsOf(ts, l)
  <2>1. DOMAIN us = DOMAIN ts
    BY DEF SetRowLeft
  <2>2. \A i \in DOMAIN ts : us[i].list = ts[i].list /\ (i # id => us[i] = ts[i])
    BY RowLeftRewrites DEF WellFormed
  <2> QED  BY <1>2, <2>1, <2>2, OthersMove
<1> QED  BY <1>1, <1>2

LEMMA DropMoves ==
    ASSUME NEW ts, WellFormed(ts), NEW k, NEW l
    PROVE  IF l = k THEN Shown(DropList(ts, k), l) = <<>> ELSE Moves(ts, DropList(ts, k), l)
<1> DEFINE us == DropList(ts, k)
<1>1. CASE l = k
  <2>1. RowsOf(us, l) = {}
    BY <1>1 DEF DropList, RowsOf
  <2> QED  BY <1>1, <2>1, ShownEmpty
<1>2. CASE l # k
  <2>1. RowsOf(us, l) = RowsOf(ts, l) /\ \A i \in RowsOf(ts, l) : us[i] = ts[i]
    BY <1>2 DEF DropList, RowsOf
  <2> QED  BY <1>2, <2>1, DropListWellFormed, SameMoves
<1> QED  BY <1>1, <1>2
=============================================================================
