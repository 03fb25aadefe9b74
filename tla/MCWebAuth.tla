------------------------------ MODULE MCWebAuth ------------------------------
\* Two accounts, one admin, two requests at once and one restart.
EXTENDS WebAuth, TLC

CONSTANTS q1, q2, a1, a2

Sym == Permutations({q1, q2}) \cup Permutations({a1, a2})
=============================================================================
