---------------------------- MODULE OneShotReminder ----------------------------
(***************************************************************************)
(* What the comment of taskDue says of a one-shot reminder: it fires at    *)
(* its minute or once late, and a latch keeps it from firing again         *)
(* (scheduler/pulse.go).  The program keeps to it but for two gaps: the    *)
(* process may end between the message and the latch, and a schedule that  *)
(* is set while a tick is under way may be latched in place of the one     *)
(* before it.                                                              *)
(***************************************************************************)
EXTENDS Naturals

VARIABLES
    now,       \* the minute
    stage,     \* how far the reminder has come; "none" if the task has none
    at,        \* its minute
    crossed    \* whether it was set while a tick held the task

reminderVars == <<now, stage, at, crossed>>

Stages == {"none", "armed", "sent", "latched", "disarmed"}

Init == now \in Nat /\ stage \in {"none", "armed"} /\ at \in Nat /\ crossed = FALSE

Pass ==
    /\ now' = now + 1
    /\ UNCHANGED <<stage, at, crossed>>

\* An edit sets a reminder, or the same one anew.
Set ==
    /\ stage' = "armed" /\ at' \in Nat /\ crossed' \in BOOLEAN
    /\ now' = now

\* An edit asks for no one-shot reminder, or the task is deleted.
Clear ==
    /\ stage' = "none" /\ at' = 0 /\ crossed' = FALSE
    /\ now' = now

Moves(from, to) ==
    /\ stage = from /\ stage' = to
    /\ UNCHANGED <<now, at, crossed>>

Send == at <= now /\ Moves("armed", "sent")

Latch == Moves("sent", "latched")

\* The process ends between the message and the latch.
Forget == Moves("sent", "armed")

\* The latch was meant for the schedule before.
Disarm == crossed /\ Moves("armed", "disarmed")

Next == Pass \/ Set \/ Clear \/ Send \/ Latch \/ Forget \/ Disarm

Spec == Init /\ [][Next]_reminderVars
=============================================================================
