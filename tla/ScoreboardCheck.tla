-------------------------- MODULE ScoreboardCheck --------------------------
(***************************************************************************)
(* The scoreboard fed with anything a device could report, and what its    *)
(* counters then say.  What was loaded and what was reported are kept      *)
(* beside it: the scoreboard itself forgets both.                          *)
(***************************************************************************)
EXTENDS Scoreboard

CONSTANTS
    Commits,       \* the commit records
    EXPECTED,      \* the lists the reference model may produce
    MAX_ACTUAL     \* bound on the number of commits reported

ASSUME ExpectedAssumption == EXPECTED \subseteq Seq(Commits)

VARIABLES
    sb,       \* the scoreboard
    loaded,   \* the list it was loaded with
    seen      \* the commits reported so far

vars == <<sb, loaded, seen>>

Init == /\ loaded \in EXPECTED
        /\ sb = LoadExpected(loaded)
        /\ seen = <<>>

\* actual_reg, actual_mem
Actual(c) == /\ Len(seen) < MAX_ACTUAL
             /\ sb' = Compare(sb, c)
             /\ seen' = Append(seen, c)
             /\ UNCHANGED loaded

Next == \E c \in Commits : Actual(c)

Spec == Init /\ [][Next]_vars
-----------------------------------------------------------------------------
TypeOK ==
    /\ loaded \in Seq(Commits) /\ seen \in Seq(Commits)
    /\ sb \in [expected : Seq(Commits), total : Nat, errors : Nat,
               matched : Nat, dropped : Nat, extra : Nat]

\* The entries the scoreboard has consumed.
Consumed == SubSeq(loaded, 1, Len(loaded) - Remaining(sb))

\* The queue is what is left of the loaded list, and every entry and every report
\* is accounted for exactly once: an entry is matched, dropped, wrong or still
\* expected; a report is matched, wrong or extra.
Accounted ==
    /\ sb.total = Len(loaded)
    /\ Remaining(sb) <= Len(loaded)
    /\ sb.expected = SubSeq(loaded, Len(loaded) - Remaining(sb) + 1, Len(loaded))
    /\ Len(Consumed) = sb.matched + sb.dropped + Wrong(sb)
    /\ Len(seen) = sb.matched + Wrong(sb) + sb.extra
    /\ Wrong(sb) >= 0

\* A clean verdict is never wrong: as long as no error is counted, what the device
\* has reported, followed by what is still expected, is the list that was loaded.
CleanMeansEqual == sb.errors = 0 => seen \o sb.expected = loaded

\* A device that is right so far is never blamed, whatever repeats in the list.
EqualMeansClean == IsPrefix(seen, loaded) => sb.errors = 0

\* An explanation of the report t of the list s names the entry each commit stands for,
\* 0 for none, in the order of the list.
InOrder(entry) ==
    \A j \in DOMAIN entry : entry[j] # 0 => \A i \in 1 .. j - 1 : entry[i] < entry[j]

\* The single-commit faults it takes for granted: entries lost, commits added, and
\* commits that differ from their entry.
Faults(entry, s, t) ==
    Cardinality({k \in DOMAIN s : \A j \in DOMAIN t : entry[j] # k})
      + Cardinality({j \in DOMAIN t : entry[j] = 0})
      + Cardinality({j \in DOMAIN t : entry[j] # 0 /\ s[entry[j]] # t[j]})

Explained(s, t, errors) ==
    \E entry \in [DOMAIN t -> 0 .. Len(s)] : InOrder(entry) /\ Faults(entry, s, t) <= errors

\* The error count is the cost of a real explanation of what was seen: it never
\* goes below the fewest faults that account for it.
ErrorsCoverFaults == Explained(Consumed, seen, sb.errors)

\* A device that lost up to LOOKAHEAD - 1 commits in one place, in a list without
\* repetitions, costs exactly that many errors, all of them counted as dropped.
Distinct(s) == \A m, n \in 1 .. Len(s) : m # n => s[m] # s[n]

DropIsPinpointed ==
    \A at \in 0 .. Len(loaded), k \in 1 .. LOOKAHEAD - 1 :
        LET rest == SubSeq(loaded, at + k + 1, Len(loaded))
        IN  (/\ Distinct(loaded) /\ rest # <<>>
             /\ seen = SubSeq(loaded, 1, at) \o rest)
            => sb.errors = k /\ sb.dropped = k /\ AllMatched(sb)

\* pipe_scoreboard.h 20-21 promises one error, not a cascade, for a flush that
\* failed once: one commit too many in an otherwise correct run.
PhantomCostsOneError ==
    \A at \in 0 .. Len(loaded) :
        (/\ Distinct(loaded)
         /\ Len(seen) > at /\ seen[at + 1] \notin Range(loaded)
         /\ IsPrefix(RemoveAt(seen, at + 1), loaded))
        => sb.errors <= 1
=============================================================================
