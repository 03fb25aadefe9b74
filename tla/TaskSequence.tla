---------------------------- MODULE TaskSequence ----------------------------
(***************************************************************************)
(* What a task list is to its users: a sequence of tasks, each named by    *)
(* its number (GLOSSARY.md, "Position").  New tasks go to the end.  A      *)
(* deleted task takes its number along, and those after it move up by one. *)
(* Whatever else happens to a task leaves it where it is.  The list is     *)
(* deleted as a whole, for good.                                           *)
(***************************************************************************)
EXTENDS SequenceChanges

VARIABLES
    listed,   \* whether the list is there
    items     \* its tasks

listVars == <<listed, items>>

Init == listed /\ items = <<>>

\* (The quantifiers have TLC evaluate each of the two once.)
Change == listed /\ listed' /\ \E s \in {items}, t \in {items'} : Follows(s, t)

Drop == listed /\ ~listed' /\ items' = <<>>

Next == Change \/ Drop

Spec == Init /\ [][Next]_listVars
=============================================================================
