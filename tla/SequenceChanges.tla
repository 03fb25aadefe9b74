--------------------------- MODULE SequenceChanges ---------------------------
(***************************************************************************)
(* How the tasks of a list follow from those it had.  s and t are the      *)
(* sequence of them before and after a change: of each task, which it is,  *)
(* its title and status, and for each assignee whether they left.          *)
(***************************************************************************)
EXTENDS Naturals, Sequences

CONSTANTS Titles, People

\* Everybody is in the group when a task is assigned.
Present(persons) == [person \in persons |-> FALSE]

Extended(s, t) ==
    /\ Len(s) < Len(t) /\ DOMAIN t = 1 .. Len(t)
    /\ \A p \in DOMAIN s : t[p] = s[p]
    /\ \A p \in DOMAIN t \ DOMAIN s :
          t[p].status = "todo" /\ \E persons \in SUBSET People : t[p].assignees = Present(persons)

Removed(s, t) ==
    /\ DOMAIN t = 1 .. Len(s) - 1
    /\ \E p \in DOMAIN s : \A q \in DOMAIN t : t[q] = s[IF q < p THEN q ELSE q + 1]

\* Somebody is found to have left the group, and so all their tasks.
Left(s, t) ==
    /\ DOMAIN t = DOMAIN s
    /\ \E person \in People : \A p \in DOMAIN s :
          t[p] = IF person \in DOMAIN s[p].assignees
                 THEN [s[p] EXCEPT !.assignees[person] = TRUE]
                 ELSE s[p]

\* One task is changed where it is.
ChangedAt(s, t, p) == DOMAIN t = DOMAIN s /\ \A q \in DOMAIN s \ {p} : t[q] = s[q]

\* Somebody is found to have left at one of their tasks, and not (yet) at others.
LeftAt(s, t) ==
    \E p \in DOMAIN s :
        /\ ChangedAt(s, t, p)
        /\ \E person \in DOMAIN s[p].assignees :
              t[p] = [s[p] EXCEPT !.assignees[person] = TRUE]

Renamed(s, t) ==
    \E p \in DOMAIN s : /\ ChangedAt(s, t, p)
                        /\ \E title \in Titles : t[p] = [s[p] EXCEPT !.title = title]

Reassigned(s, t) ==
    \E p \in DOMAIN s :
        /\ ChangedAt(s, t, p)
        /\ \E persons \in SUBSET People : t[p] = [s[p] EXCEPT !.assignees = Present(persons)]

\* Some tasks get the same status.
Marked(s, t) ==
    /\ DOMAIN t = DOMAIN s
    /\ \E status \in {"todo", "done"} : \A p \in DOMAIN s :
          t[p] \in {s[p], [s[p] EXCEPT !.status = status]}

Distinct(s) == \A p, q \in DOMAIN s : s[p].task = s[q].task \/ s[p].title = s[q].title => p = q

Follows(s, t) ==
    \/ Extended(s, t) /\ Distinct(t)
    \/ Removed(s, t)
    \/ Left(s, t)
    \/ LeftAt(s, t)
    \/ Renamed(s, t) /\ Distinct(t)
    \/ Reassigned(s, t)
    \/ Marked(s, t)
==============================================================================
