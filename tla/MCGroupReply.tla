----------------------------- MODULE MCGroupReply -----------------------------
(***************************************************************************)
(* GroupReply on small instances: one list, tasks of one person each.      *)
(***************************************************************************)
EXTENDS GroupReply, TLC

MCAssignments == {<<person>> : person \in People}

MCGroupOf == [l \in TaskLists |-> "group"]

Symmetry == Permutations(People) \cup Permutations(Titles)
=============================================================================
