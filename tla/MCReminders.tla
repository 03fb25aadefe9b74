----------------------------- MODULE MCReminders -----------------------------
(***************************************************************************)
(* Reminders on small instances: the tasks of one list, a one-shot and a   *)
(* recurring schedule.                                                     *)
(***************************************************************************)
EXTENDS Reminders, TLC

CONSTANTS list

MCListOf == [t \in Tasks |-> list]

MCSchedules == {Once(2), Once(3), Cron({2})}

Symmetry == Permutations(Tasks) \cup Permutations(Conns) \cup Permutations(Crons)
=============================================================================
