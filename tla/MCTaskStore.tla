----------------------------- MODULE MCTaskStore -----------------------------
(***************************************************************************)
(* TaskStore on a small instance: two handlers, add-tasks payloads of up   *)
(* to two blocks, and assignee fields that name one person once or twice.  *)
(***************************************************************************)
EXTENDS TaskStore, TLC

CONSTANTS alice

MCAssignments == {<<alice>>, <<alice, alice>>}

MCGroupOf == [l \in TaskLists |-> "group"]

Symmetry == Permutations(Handlers) \cup Permutations(Titles) \cup Permutations(TaskLists)
=============================================================================
