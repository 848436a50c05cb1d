----------------------------- MODULE Scoreboard -----------------------------
(***************************************************************************)
(* cpp_tb/pipeline/pipe_scoreboard.h: compares the commits the monitor     *)
(* reports with the list the reference model expects, and on a mismatch    *)
(* looks a few entries ahead, so that a dropped commit does not turn every *)
(* later one into an error.  A scoreboard is a record; the operators       *)
(* return the scoreboard after the call.                                   *)
(***************************************************************************)
EXTENDS Integers, Sequences, SequencesExt

CONSTANT LOOKAHEAD    \* 4 in the code

ASSUME LookaheadAssumption == LOOKAHEAD \in Nat

\* load_expected
LoadExpected(commits) ==
    [expected |-> commits, total |-> Len(commits),
     errors |-> 0, matched |-> 0, dropped |-> 0, extra |-> 0]

\* Faulty: the window one entry short.
LookaheadMatches_Short(expected, actual) ==
    { k \in 1 .. Len(expected) - 1 : k < LOOKAHEAD - 1 /\ expected[k + 1] = actual }

\* The scan of the mismatch case: offsets 1 .. scan_limit - 1 past the front
\* whose entry equals the actual commit.
LookaheadMatches(expected, actual) ==
    { k \in 1 .. Len(expected) - 1 : k < LOOKAHEAD /\ expected[k + 1] = actual }

\* The queue is empty: the DUT emitted one more commit than expected.
ExtraCommit(sb) == [sb EXCEPT !.errors = @ + 1, !.extra = @ + 1]

\* Faulty: the matched entry stays in the queue.
MatchAt_NoPop(sb, k) ==
    [sb EXCEPT !.expected = SubSeq(@, k + 1, Len(@)),
               !.errors = @ + k, !.dropped = @ + k, !.matched = @ + 1]
\* Faulty: dropped entries are not errors.
MatchAt_Silent(sb, k) ==
    [sb EXCEPT !.expected = SubSeq(@, k + 2, Len(@)), !.dropped = @ + k, !.matched = @ + 1]
\* Faulty: a run of dropped entries is one error.
MatchAt_OneError(sb, k) ==
    [sb EXCEPT !.expected = SubSeq(@, k + 2, Len(@)), !.dropped = @ + k, !.matched = @ + 1,
               !.errors = IF k > 0 THEN @ + 1 ELSE @]

\* The k entries in front of the match were dropped.
MatchAt(sb, k) ==
    [sb EXCEPT !.expected = SubSeq(@, k + 2, Len(@)),
               !.errors = @ + k, !.dropped = @ + k, !.matched = @ + 1]

\* The front entry is consumed to allow continuation.
WrongValue(sb) == [sb EXCEPT !.expected = Tail(@), !.errors = @ + 1]

\* Faulty: a later equal entry is preferred to the front one.
Compare_ScanFirst(sb, actual) ==
    LET matches == LookaheadMatches(sb.expected, actual)
    IN  IF sb.expected = <<>> THEN ExtraCommit(sb)
        ELSE IF matches # {} THEN MatchAt(sb, CHOOSE k \in matches : \A m \in matches : k <= m)
        ELSE IF actual = Head(sb.expected) THEN MatchAt(sb, 0)
        ELSE WrongValue(sb)

\* compare
Compare(sb, actual) ==
    LET matches == LookaheadMatches(sb.expected, actual)
    IN  IF sb.expected = <<>> THEN ExtraCommit(sb)
        ELSE IF actual = Head(sb.expected) THEN MatchAt(sb, 0)
        ELSE IF matches # {} THEN MatchAt(sb, CHOOSE k \in matches : \A m \in matches : k <= m)
        ELSE WrongValue(sb)

AllMatched(sb) == sb.expected = <<>>
Remaining(sb)  == Len(sb.expected)
Wrong(sb)      == sb.errors - sb.dropped - sb.extra
=============================================================================
