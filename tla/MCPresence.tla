----------------------------- MODULE MCPresence -----------------------------
\* One list: its owner and an assignee are listed by number, one person by LID
\* alone, and the bot by LID with its number.
EXTENDS Presence

CONSTANTS list, u1

MCListOf == [t \in Tasks |-> list]

MCOwner == [l \in Lists |-> u1]
=============================================================================
