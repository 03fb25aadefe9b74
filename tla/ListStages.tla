------------------------------ MODULE ListStages ------------------------------
(***************************************************************************)
(* The life of one task list as GLOSSARY.md tells it ("List lifecycle"),   *)
(* with what the group gets to see of it.  An unpublished list is not      *)
(* visible to the group.  A list that is stopped or deleted stays so, but  *)
(* that a publish begun before the stop may still end after it: the gap    *)
(* between the glossary and the code (StopIsFinal of ListLifecycle).       *)
(***************************************************************************)

VARIABLES
    stage,       \* "none" before it is added, "deleted" after
    publishing,  \* whether a publish that read it unpublished is under way
    shown,       \* the summaries of it that were sent to the group
    answered     \* those to which a reply is a reply to it

stageVars == <<stage, publishing, shown, answered>>

Stages == {"none", "unpublished", "active", "stopped", "deleted"}

Kept == {"unpublished", "active", "stopped"}

Init == stage = "none" /\ publishing = FALSE /\ shown = {} /\ answered = {}

BeginPublish ==
    /\ stage = "unpublished"
    /\ publishing' = TRUE
    /\ UNCHANGED <<stage, shown, answered>>

GoTo(to) == stage' = to /\ UNCHANGED <<shown, answered>>

Add == stage = "none" /\ GoTo("unpublished")

Activate == publishing /\ stage \in Kept /\ GoTo("active")

Stop == stage \in Kept /\ GoTo("stopped")

Delete == stage \in Kept /\ stage' = "deleted" /\ answered' = {} /\ UNCHANGED shown

\* A summary is sent, perhaps one that was composed before the list was deleted.
Show ==
    /\ stage \notin {"none", "unpublished"}
    /\ \E m \in shown' : shown' = shown \cup {m}
    /\ UNCHANGED <<stage, answered>>

Map ==
    /\ stage \in {"active", "stopped"}
    /\ \E m \in shown : answered' = answered \cup {m}
    /\ UNCHANGED <<stage, shown>>

\* The first half of a delete, which may remain the only one.
Unmap == answered' = {} /\ UNCHANGED <<stage, shown>>

\* A publish under way may end with any of these, or with none.
EndPublish == UNCHANGED <<stage, shown, answered>>

Next ==
    \/ BeginPublish
    \/ /\ publishing' => publishing
       /\ Add \/ Activate \/ Stop \/ Delete \/ Show \/ Map \/ Unmap \/ EndPublish

Spec == Init /\ [][Next]_stageVars
=============================================================================
