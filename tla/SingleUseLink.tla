---------------------------- MODULE SingleUseLink ----------------------------
(***************************************************************************)
(* What the message with a sign-in link promises: "valid for 15 minutes,   *)
(* single use" (cmd/tasklist_web.go).  The link is issued, may be spent    *)
(* until its deadline, opens one session at most, and that session, once   *)
(* closed, does not open again.                                            *)
(***************************************************************************)
EXTENDS Naturals

CONSTANT LinkTTL    \* webTokenTTL

VARIABLES
    now,
    stage,      \* how far the link has come
    deadline    \* until when it is good

linkVars == <<now, stage, deadline>>

Stages == {"unissued", "live", "spent", "open", "closed"}

Init == now = 0 /\ stage = "unissued" /\ deadline = 0

Pass ==
    /\ now' = now + 1
    /\ UNCHANGED <<stage, deadline>>

Issue ==
    /\ stage = "unissued" /\ stage' = "live"
    /\ deadline' = now + LinkTTL
    /\ now' = now

\* From one stage to the next, for good
Moves(from, to) ==
    /\ stage = from /\ stage' = to
    /\ UNCHANGED <<now, deadline>>

Spend == now <= deadline /\ Moves("live", "spent")

Open == Moves("spent", "open")

Close == Moves("open", "closed")

Next == Pass \/ Issue \/ Spend \/ Open \/ Close

Spec == Init /\ [][Next]_linkVars
=============================================================================
