---------------------------- MODULE MCScoreboard ----------------------------
(* Instances of ScoreboardCheck.  A commit record is a number: the          *)
(* scoreboard only ever compares two of them for equality.                 *)
EXTENDS ScoreboardCheck

Kinds == 1 .. 5

\* A list over at most n kinds of commit, renamed in the order they first appear:
\* one list stands for all that repeat in the same places.
Renamed(n, len) ==
    { s \in [1 .. len -> 1 .. n] :
        \A k \in 1 .. len : s[k] = 1 \/ \E j \in 1 .. k - 1 : s[j] = s[k] - 1 }

\* Every list of up to five commits of three kinds, repetitions included.
ShortLists == UNION { Renamed(3, len) : len \in 0 .. 5 }

\* Lists of four and five different commits, as long as the lookahead window and longer.
DistinctLists == { [k \in 1 .. len |-> k] : len \in 4 .. 5 }

AllLists == ShortLists \cup DistinctLists
=============================================================================
