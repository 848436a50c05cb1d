-------------------------- MODULE ScoreboardProofs --------------------------
(***************************************************************************)
(* Theorems about the scoreboard for every look-ahead, every set of        *)
(* commits, every expected list and every report of any length.            *)
(***************************************************************************)
EXTENDS ScoreboardCheck, CommonLemmas, FiniteSetTheorems

-----------------------------------------------------------------------------
(* Dropping the first j entries of the last r of a list leaves its last     *)
(* r - j.                                                                   *)

LastOf(s, r) == SubSeq(s, Len(s) - r + 1, Len(s))

\* Dropping entries in front of a suffix gives a shorter suffix.
LEMMA LastOfLast ==
    ASSUME NEW S, NEW s \in Seq(S), NEW r \in 0 .. Len(s), NEW j \in 1 .. r
    PROVE  /\ LastOf(s, r) \in Seq(S) /\ Len(LastOf(s, r)) = r
           /\ SubSeq(LastOf(s, r), j + 1, r) = LastOf(s, r - j)
           /\ LastOf(s, r - j) \in Seq(S) /\ Len(LastOf(s, r - j)) = r - j
  <1>1. \A n \in 0 .. Len(s) : LastOf(s, n) \in Seq(S) /\ Len(LastOf(s, n)) = n
    <2> TAKE n \in 0 .. Len(s)
    <2>1. Len(s) \in Nat /\ \A i \in Len(s) - n + 1 .. Len(s) : s[i] \in S
      OBVIOUS
    <2>2. QED
      BY <2>1, SubSeqProperties DEF LastOf
  <1>2. SubSeq(LastOf(s, r), j + 1, r) = LastOf(s, r - j)
    <2>1. CASE j = r
      BY <2>1, SubSeqEmpty DEF LastOf
    <2>2. CASE j # r
      <3> DEFINE i == Len(s) - r + 1
      <3>1. /\ i \in 1 .. Len(s) /\ Len(s) \in 1 .. Len(s)
            /\ j + 1 \in 1 .. Len(s) - i + 1 /\ r \in 1 .. Len(s) - i + 1
            /\ i + (j + 1) - 1 = Len(s) - (r - j) + 1 /\ i + r - 1 = Len(s)
        BY <2>2
      <3>2. SubSeq(SubSeq(s, i, Len(s)), j + 1, r) = SubSeq(s, i + (j + 1) - 1, i + r - 1)
        BY <3>1, SubSeqOfSubSeq
      <3>3. QED
        BY <3>1, <3>2 DEF LastOf
    <2>3. QED
      BY <2>1, <2>2
  <1>3. r - j \in 0 .. Len(s)
    OBVIOUS
  <1>4. QED
    BY <1>1, <1>2, <1>3

-----------------------------------------------------------------------------
(* The invariant.  The counters are stated as numbers of entries consumed   *)
(* and of reports seen.                                                     *)

Tally(errors, matched, dropped, extra, consumed, reports) ==
    /\ consumed = matched + dropped + (errors - dropped - extra)
    /\ reports = matched + (errors - dropped - extra) + extra
    /\ errors >= dropped + extra

TallyOf(b, consumed, reports) == Tally(b.errors, b.matched, b.dropped, b.extra, consumed, reports)

\* The sums still balance after an extra commit, a wrong value or a match behind k others.
LEMMA TallySteps ==
    ASSUME NEW e \in Nat, NEW m \in Nat, NEW d \in Nat, NEW x \in Nat, NEW c \in Int,
           NEW n \in Nat, Tally(e, m, d, x, c, n)
    PROVE  /\ Tally(e + 1, m + 0, d + 0, x + 1, c, n + 1)
           /\ Tally(e + 1, m + 0, d + 0, x + 0, c + 1, n + 1)
           /\ \A k \in Nat : Tally(e + k, m + 1, d + k, x + 0, c + (k + 1), n + 1)
  BY DEF Tally

\* The queue of b is the end of the list s, and b has tallied n reports.
Tracks(b, s, n) ==
    /\ Counters(b, Commits) /\ b.total = Len(s)
    /\ \E r \in 0 .. Len(s) :
          b.expected = LastOf(s, r) /\ Len(b.expected) = r /\ TallyOf(b, Len(s) - r, n)

\* What the outcome of a compare does to the queue and to the tally.
LEMMA CompareTracks ==
    ASSUME NEW b, NEW c, NEW s \in Seq(Commits), NEW n \in Nat, Tracks(b, s, n)
    PROVE  Tracks(Compare(b, c), s, n + 1)
  <1> DEFINE b2 == Compare(b, c)
  <1>1. PICK r \in 0 .. Len(s) :
           b.expected = LastOf(s, r) /\ Len(b.expected) = r /\ TallyOf(b, Len(s) - r, n)
    BY DEF Tracks
  <1>2. /\ Counters(b, Commits) /\ b.total = Len(s)
        /\ b.expected \in Seq(Commits) /\ r \in Nat /\ Len(s) \in Nat
        /\ b.errors \in Nat /\ b.matched \in Nat /\ b.dropped \in Nat /\ b.extra \in Nat
    BY DEF Counters, Tracks
  <1> DEFINE consumed == Len(s) - r
  <1>c. consumed \in Int /\ Tally(b.errors, b.matched, b.dropped, b.extra, consumed, n)
    BY <1>1, <1>2 DEF TallyOf
  <1> HIDE DEF consumed
  <1>3. \/ b.expected = <<>> /\ b2 = ExtraCommit(b)
        \/ \E k \in 0 .. Len(b.expected) - 1 : b2 = MatchAt(b, k)
        \/ b.expected # <<>> /\ b2 = WrongValue(b)
    BY <1>2, CompareCases
  <1> HIDE DEF b2
  <1>4. ASSUME b.expected = <<>>, b2 = ExtraCommit(b) PROVE Tracks(b2, s, n + 1)
    <2>1. Advanced(Commits, b2, b, b.expected, 1, 0, 0, 1)
      BY <1>2, <1>4, Outcomes
    <2>2. TallyOf(b2, Len(s) - r, n + 1)
      <3>1. Tally(b.errors + 1, b.matched + 0, b.dropped + 0, b.extra + 1, consumed, n + 1)
        BY <1>2, <1>c, TallySteps, Zenon
      <3>2. QED
        BY <3>1, <2>1, Zenon DEF TallyOf, Advanced, consumed
    <2>3. QED
      BY <1>1, <1>2, <2>1, <2>2, Zenon DEF Tracks, Advanced
  <1>5. ASSUME NEW k \in 0 .. Len(b.expected) - 1, b2 = MatchAt(b, k) PROVE Tracks(b2, s, n + 1)
    <2> DEFINE rest == r - (k + 1)
    <2>1. /\ k + 1 \in 1 .. r /\ k \in Nat /\ rest \in 0 .. Len(s) /\ k + 2 = (k + 1) + 1
      BY <1>1, <1>2
    <2>2. /\ SubSeq(LastOf(s, r), (k + 1) + 1, r) = LastOf(s, rest)
          /\ LastOf(s, rest) \in Seq(Commits) /\ Len(LastOf(s, rest)) = rest
      BY <2>1, LastOfLast, ZenonT(60)
    <2>3. Advanced(Commits, b2, b, LastOf(s, rest), k, 1, k, 0)
      <3>1. LastOf(s, rest) = SubSeq(b.expected, k + 2, Len(b.expected))
        BY <1>1, <2>1, <2>2, Zenon
      <3>2. QED
        BY <1>2, <1>5, <2>1, <2>2, <3>1, Outcomes, Zenon
    <2>4. TallyOf(b2, Len(s) - rest, n + 1)
      <3>1. Tally(b.errors + k, b.matched + 1, b.dropped + k, b.extra + 0, consumed + (k + 1), n + 1)
        BY <1>2, <1>c, <2>1, TallySteps, Zenon
      <3>2. consumed + (k + 1) = Len(s) - rest
        BY <1>2, <2>1 DEF consumed
      <3>3. QED
        BY <3>1, <3>2, <2>3, Zenon DEF TallyOf, Advanced
    <2>5. QED
      BY <1>2, <2>1, <2>2, <2>3, <2>4, Zenon DEF Tracks, Advanced
  <1>6. ASSUME b.expected # <<>>, b2 = WrongValue(b) PROVE Tracks(b2, s, n + 1)
    <2>1. 1 \in 1 .. r /\ r - 1 \in 0 .. Len(s)
      BY <1>1, <1>2, <1>6
    <2>2. /\ SubSeq(LastOf(s, r), 1 + 1, r) = LastOf(s, r - 1)
          /\ LastOf(s, r - 1) \in Seq(Commits) /\ Len(LastOf(s, r - 1)) = r - 1
      BY <2>1, LastOfLast, Zenon
    <2>3. Advanced(Commits, b2, b, LastOf(s, r - 1), 1, 0, 0, 0)
      <3>1. Tail(b.expected) = SubSeq(b.expected, 2, Len(b.expected))
        BY <1>2, <1>6, TailIsSubSeq
      <3>2. 2 = 1 + 1
        OBVIOUS
      <3>3. LastOf(s, r - 1) = Tail(b.expected)
        BY <1>1, <2>2, <3>1, <3>2, Zenon
      <3>4. QED
        BY <1>2, <1>6, <2>2, <3>3, Outcomes, Zenon
    <2>4. TallyOf(b2, Len(s) - (r - 1), n + 1)
      <3>1. Tally(b.errors + 1, b.matched + 0, b.dropped + 0, b.extra + 0, consumed + 1, n + 1)
        BY <1>2, <1>c, TallySteps, Zenon
      <3>2. consumed + 1 = Len(s) - (r - 1)
        BY <1>2 DEF consumed
      <3>3. QED
        BY <3>1, <3>2, <2>3, Zenon DEF TallyOf, Advanced
    <2>5. QED
      BY <1>2, <2>1, <2>2, <2>3, <2>4, Zenon DEF Tracks, Advanced
  <1>7. QED
    BY <1>3, <1>4, <1>5, <1>6, Zenon DEF b2

\* Moving the front of one list to the end of another leaves their concatenation.
LEMMA MoveFront ==
    ASSUME NEW S, NEW s \in Seq(S), NEW q \in Seq(S), q # <<>>
    PROVE  Append(s, Head(q)) \o Tail(q) = s \o q
  <1>1. /\ Append(s, Head(q)) = s \o <<Head(q)>> /\ Head(q) \in S
        /\ <<Head(q)>> \in Seq(S) /\ Tail(q) \in Seq(S)
    BY AppendIsConcat, HeadTailProperties
  <1>2. (s \o <<Head(q)>>) \o Tail(q) = s \o (<<Head(q)>> \o Tail(q))
    BY <1>1, ConcatAssociative
  <1>3. <<Head(q)>> \o Tail(q) = q
    <2> DEFINE t == <<Head(q)>> \o Tail(q)
    <2>1. Len(q) \in Nat /\ Len(q) >= 1 /\ Head(q) = q[1]
      OBVIOUS
    <2>2. /\ t \in Seq(S) /\ Len(t) = Len(q)
          /\ \A i \in 1 .. Len(q) : t[i] = IF i <= 1 THEN Head(q) ELSE Tail(q)[i - 1]
      BY <1>1, <2>1, ConcatProperties, HeadTailProperties
    <2>3. \A i \in 1 .. Len(q) : i > 1 => Tail(q)[i - 1] = q[i]
      BY <2>1, HeadTailProperties
    <2> HIDE DEF t
    <2>4. \A i \in 1 .. Len(t) : t[i] = q[i]
      BY <2>1, <2>2, <2>3
    <2>5. QED
      BY <2>2, <2>4, SeqEqual DEF t
  <1>4. QED
    BY <1>1, <1>2, <1>3

\* A list that extends the reports by one starts with them, and names the next entry.
LEMMA NextOfPrefix ==
    ASSUME NEW S, NEW s \in Seq(S), NEW q \in Seq(S), NEW c \in S, IsPrefix(Append(s, c), s \o q)
    PROVE  IsPrefix(s, s \o q) /\ q # <<>> /\ c = Head(q)
  <1> DEFINE t == s \o q
             a == Append(s, c)
             n == Len(s)
  <1>1. /\ t \in Seq(S) /\ Len(t) = n + Len(q) /\ n \in Nat /\ Len(q) \in Nat
        /\ \A i \in 1 .. n + Len(q) : t[i] = IF i <= n THEN s[i] ELSE q[i - n]
    BY ConcatProperties
  <1>2. a \in Seq(S) /\ Len(a) = n + 1 /\ a[n + 1] = c
    BY AppendProperties
  <1> HIDE DEF t, a
  <1>3. n + 1 <= Len(t) /\ SubSeq(a, 1, n + 1) = SubSeq(t, 1, n + 1)
    BY <1>2 DEF IsPrefix, a, t
  <1>4. c = t[n + 1]
    <2>1. /\ \A i \in 1 .. n + 1 : a[i] \in S /\ t[i] \in S
          /\ n + 1 \in Int /\ n + 1 \in 1 .. n + 1 - 1 + 1
      BY <1>1, <1>2, <1>3
    <2>2. SubSeq(a, 1, n + 1)[n + 1] = a[n + 1] /\ SubSeq(t, 1, n + 1)[n + 1] = t[n + 1]
      BY <2>1, SubSeqProperties
    <2>3. QED
      BY <1>2, <1>3, <2>2
  <1>5. Len(q) >= 1 /\ q # <<>> /\ t[n + 1] = q[1] /\ Head(q) = q[1]
    BY <1>1, <1>3
  <1>6. IsPrefix(s, t)
    <2>1. \A i \in 1 .. n : t[i] = s[i] /\ s[i] \in S
      BY <1>1
    <2>2. SubSeq(s, 1, n) = SubSeq(t, 1, n)
      <3>1. /\ SubSeq(s, 1, n) \in Seq(S) /\ SubSeq(t, 1, n) \in Seq(S)
            /\ Len(SubSeq(s, 1, n)) = n /\ Len(SubSeq(t, 1, n)) = n
            /\ \A i \in 1 .. n : SubSeq(s, 1, n)[i] = s[i] /\ SubSeq(t, 1, n)[i] = t[i]
        BY <1>1, <2>1, SubSeqProperties
      <3>2. QED
        BY <2>1, <3>1, SeqEqual
    <2>3. QED
      BY <1>1, <2>2 DEF IsPrefix
  <1>7. QED
    BY <1>4, <1>5, <1>6 DEF t

\* A list that starts with more starts with less.
LEMMA ShorterPrefix ==
    ASSUME NEW S, NEW s \in Seq(S), NEW c \in S, NEW t \in Seq(S), IsPrefix(Append(s, c), t)
    PROVE  IsPrefix(s, t)
  <1> DEFINE a == Append(s, c)
             n == Len(s)
  <1>1. /\ a \in Seq(S) /\ Len(a) = n + 1 /\ n \in Nat /\ Len(t) \in Nat
        /\ \A i \in 1 .. n : a[i] = s[i]
    BY AppendProperties
  <1> HIDE DEF a
  <1>2. n + 1 <= Len(t) /\ SubSeq(a, 1, n + 1) = SubSeq(t, 1, n + 1)
    BY <1>1 DEF IsPrefix, a
  <1>3. /\ \A i \in 1 .. n + 1 : a[i] \in S /\ t[i] \in S
        /\ \A i \in 1 .. n : s[i] \in S
        /\ n + 1 \in Int /\ \A i \in 1 .. n : i \in 1 .. n + 1 - 1 + 1
    BY <1>1, <1>2
  <1>4. \A i \in 1 .. n + 1 : SubSeq(a, 1, n + 1)[i] = a[i] /\ SubSeq(t, 1, n + 1)[i] = t[i]
    BY <1>3, SubSeqProperties
  <1>5. \A i \in 1 .. n : s[i] = t[i]
    BY <1>1, <1>2, <1>4
  <1>6. /\ SubSeq(s, 1, n) \in Seq(S) /\ SubSeq(t, 1, n) \in Seq(S)
        /\ Len(SubSeq(s, 1, n)) = n /\ Len(SubSeq(t, 1, n)) = n
        /\ \A i \in 1 .. n : SubSeq(s, 1, n)[i] = s[i] /\ SubSeq(t, 1, n)[i] = t[i]
    BY <1>1, <1>3, SubSeqProperties
  <1>7. SubSeq(s, 1, n) = SubSeq(t, 1, n)
    BY <1>5, <1>6, SeqEqual
  <1>8. QED
    BY <1>1, <1>2, <1>7 DEF IsPrefix

-----------------------------------------------------------------------------
(* Commits lost in one place.                                               *)

\* t reports the beginning of s without the k entries that follow the first `at`.
Lost(s, t, at, k) ==
    /\ at + k < Len(s)
    /\ Len(t) > at => Len(t) + k <= Len(s)
    /\ \A i \in 1 .. Len(t) : t[i] = s[IF i <= at THEN i ELSE i + k]

\* Before the gap nothing is counted (EqualMeansClean); behind it, the gap.
GapIsCounted(s, t, b) ==
    \A at \in 0 .. Len(s), k \in 1 .. LOOKAHEAD - 1 :
        Distinct(s) /\ Lost(s, t, at, k) /\ Len(t) > at => b.errors = k /\ b.dropped = k

\* What a loss begins with is a loss.
LEMMA LostBefore ==
    ASSUME NEW S, NEW s \in Seq(S), NEW t \in Seq(S), NEW c \in S, NEW at \in 0 .. Len(s),
           NEW k \in Nat, Lost(s, Append(t, c), at, k)
    PROVE  /\ Lost(s, t, at, k)
           /\ c = s[IF Len(t) + 1 <= at THEN Len(t) + 1 ELSE Len(t) + 1 + k]
           /\ Len(t) + 1 > at => Len(t) + 1 + k <= Len(s)
  <1> DEFINE a == Append(t, c)
  <1>1. /\ Len(a) = Len(t) + 1 /\ Len(t) \in Nat /\ Len(s) \in Nat
        /\ a[Len(t) + 1] = c /\ \A i \in 1 .. Len(t) : a[i] = t[i]
    BY AppendProperties
  <1>2. Lost(s, a, at, k)
    OBVIOUS
  <1> HIDE DEF a
  <1>3. QED
    BY <1>1, <1>2 DEF Lost

\* Before the gap, the reports begin the list.
LEMMA LostIsPrefix ==
    ASSUME NEW S, NEW s \in Seq(S), NEW t \in Seq(S), NEW at \in 0 .. Len(s), NEW k \in Nat,
           Lost(s, t, at, k), Len(t) <= at
    PROVE  IsPrefix(t, s)
  <1> DEFINE n == Len(t)
  <1>1. n \in Nat /\ Len(s) \in Nat /\ n <= Len(s) /\ \A i \in 1 .. n : t[i] = s[i] /\ t[i] \in S
    BY LenProperties, ElementOfSeq DEF Lost
  <1>2. /\ SubSeq(t, 1, n) \in Seq(S) /\ SubSeq(s, 1, n) \in Seq(S)
        /\ Len(SubSeq(t, 1, n)) = n /\ Len(SubSeq(s, 1, n)) = n
        /\ \A i \in 1 .. n : SubSeq(t, 1, n)[i] = t[i] /\ SubSeq(s, 1, n)[i] = s[i]
    BY <1>1, SubSeqProperties
  <1>3. SubSeq(t, 1, n) = SubSeq(s, 1, n)
    BY <1>1, <1>2, SeqEqual
  <1>4. QED
    BY <1>1, <1>3 DEF IsPrefix

\* The only entry that equals the report is found, if the scan gets that far.
LEMMA CompareUnique ==
    ASSUME NEW S, NEW b, NEW c, b.expected \in Seq(S), NEW k \in 0 .. Len(b.expected) - 1,
           k = 0 \/ k < LOOKAHEAD, b.expected[k + 1] = c,
           \A j \in 0 .. Len(b.expected) - 1 : b.expected[j + 1] = c => j = k
    PROVE  Compare(b, c) = MatchAt(b, k)
  <1> DEFINE q == b.expected
             M == LookaheadMatches(q, c)
  <1>1. Len(q) \in Nat /\ Len(q) >= 1 /\ q # <<>> /\ Head(q) = q[1]
    BY LenProperties
  <1>2. CASE k = 0
    <2>1. c = Head(q)
      BY <1>1, <1>2
    <2>2. QED
      BY <1>1, <1>2, <2>1, Zenon DEF Compare
  <1>3. CASE k # 0
    <2>1. c # Head(q)
      <3>1. 0 \in 0 .. Len(q) - 1 /\ 0 + 1 = 1
        BY <1>1
      <3>2. QED
        BY <1>1, <1>3, <3>1
    <2>2. M = {k}
      <3>1. \A j \in 1 .. Len(q) - 1 : j \in 0 .. Len(q) - 1
        BY <1>1
      <3>2. k \in 1 .. Len(q) - 1 /\ k < LOOKAHEAD
        BY <1>1, <1>3
      <3>3. QED
        BY <3>1, <3>2 DEF LookaheadMatches
    <2>3. (CHOOSE i \in M : \A m \in M : i <= m) = k
      <3>1. k <= k
        OBVIOUS
      <3> HIDE DEF M
      <3>2. QED
        BY <2>2, <3>1
    <2>4. M # {}
      BY <2>2
    <2>5. Compare(b, c) = MatchAt(b, CHOOSE i \in M : \A m \in M : i <= m)
      BY <1>1, <2>1, <2>4, Zenon DEF Compare
    <2>6. QED
      BY <2>3, <2>5
  <1>4. QED
    BY <1>2, <1>3

\* A match counts as many errors as entries dropped.
LEMMA MatchCounts ==
    ASSUME NEW S, NEW b, Counters(b, S), NEW k \in 0 .. Len(b.expected) - 1
    PROVE  MatchAt(b, k).errors = b.errors + k /\ MatchAt(b, k).dropped = b.dropped + k
  <1> DEFINE q == b.expected
             t == SubSeq(q, k + 2, Len(q))
             b2 == MatchAt(b, k)
  <1>1. q \in Seq(S)
    BY DEF Counters
  <1>2. k \in Nat /\ t \in Seq(S)
    <2>1. k \in Nat /\ Len(q) \in Nat /\ k + 2 \in Int /\ \A n \in k + 2 .. Len(q) : q[n] \in S
      BY <1>1
    <2>2. QED
      BY <2>1, SubSeqProperties
  <1>3. t = SubSeq(b.expected, k + 2, Len(b.expected))
    OBVIOUS
  <1> HIDE DEF t, b2
  <1>4. b2 = MatchAt(b, k)
    BY DEF b2
  <1>5. Advanced(S, b2, b, t, k, 1, k, 0)
    BY <1>2, <1>3, <1>4, Outcomes, Zenon
  <1>6. QED
    BY <1>4, <1>5, Zenon DEF Advanced

\* The entries of the end of a list, in the list.
LEMMA LastOfEntries ==
    ASSUME NEW S, NEW s \in Seq(S), NEW r \in 0 .. Len(s)
    PROVE  \A j \in 1 .. r : LastOf(s, r)[j] = s[Len(s) - r + j]
  <1>1. Len(s) \in Nat /\ \A i \in Len(s) - r + 1 .. Len(s) : s[i] \in S
    OBVIOUS
  <1>2. \A j \in 1 .. Len(s) - (Len(s) - r + 1) + 1 :
           SubSeq(s, Len(s) - r + 1, Len(s))[j] = s[(Len(s) - r + 1) + j - 1]
    BY <1>1, SubSeqProperties
  <1>3. \A j \in 1 .. r : /\ j \in 1 .. Len(s) - (Len(s) - r + 1) + 1
                         /\ (Len(s) - r + 1) + j - 1 = Len(s) - r + j
    BY <1>1
  <1>4. QED
    BY <1>2, <1>3 DEF LastOf

\* A compare keeps the count right: the report behind the gap is found k entries ahead,
\* every later one at the front.
LEMMA CompareCountsGap ==
    ASSUME NEW b, NEW c \in Commits, NEW s \in Seq(Commits), NEW t \in Seq(Commits),
           Tracks(b, s, Len(t)), GapIsCounted(s, t, b),
           IsPrefix(t, s) => b.errors = 0
    PROVE  GapIsCounted(s, Append(t, c), Compare(b, c))
  <1> DEFINE n == Len(t)
             a == Append(t, c)
             b2 == Compare(b, c)
  <1> SUFFICES ASSUME NEW at \in 0 .. Len(s), NEW k \in 1 .. LOOKAHEAD - 1,
                      Distinct(s), Lost(s, a, at, k), Len(a) > at
               PROVE  b2.errors = k /\ b2.dropped = k
    BY DEF GapIsCounted
  <1>1. /\ n \in Nat /\ Len(a) = n + 1 /\ k \in Nat /\ k >= 1 /\ k < LOOKAHEAD /\ Len(s) \in Nat
        /\ n + 1 > at
    BY AppendProperties, LenProperties, LookaheadAssumption
  <1>2. Lost(s, t, at, k) /\ c = s[n + 1 + k] /\ n + 1 + k <= Len(s)
    BY <1>1, LostBefore
  <1>3. PICK r \in 0 .. Len(s) :
           b.expected = LastOf(s, r) /\ Len(b.expected) = r /\ TallyOf(b, Len(s) - r, n)
    BY DEF Tracks
  <1>4. /\ Counters(b, Commits) /\ b.expected \in Seq(Commits)
        /\ b.errors \in Nat /\ b.matched \in Nat /\ b.dropped \in Nat /\ b.extra \in Nat
    BY DEF Tracks, Counters
  <1>5. /\ Len(s) - r = b.matched + b.dropped + (b.errors - b.dropped - b.extra)
        /\ n = b.matched + (b.errors - b.dropped - b.extra) + b.extra
        /\ b.errors >= b.dropped + b.extra
    BY <1>3 DEF TallyOf, Tally
  <1>6. \A j \in 1 .. r : b.expected[j] = s[Len(s) - r + j]
    BY <1>3, LastOfEntries
  <1> HIDE DEF n, a, b2
  <1>7. \A i, j \in 1 .. Len(s) : s[i] = s[j] => i = j
    BY DEF Distinct
  <1>8. CASE n <= at
    <2>1. b.errors = 0
      BY <1>1, <1>2, <1>8, LostIsPrefix DEF n
    <2>2. b.dropped = 0 /\ Len(s) - r = n
      BY <1>4, <1>5, <2>1
    <2>3. k \in 0 .. Len(b.expected) - 1 /\ r = Len(s) - n
      BY <1>1, <1>2, <1>3, <2>2
    <2>4. b.expected[k + 1] = c
      <3>1. k + 1 \in 1 .. r /\ Len(s) - r + (k + 1) = n + 1 + k
        BY <1>1, <1>2, <2>3
      <3>2. QED
        BY <1>2, <1>6, <3>1
    <2>5. ASSUME NEW j \in 0 .. Len(b.expected) - 1, b.expected[j + 1] = c PROVE j = k
      <3>1. j + 1 \in 1 .. r /\ Len(s) - r + (j + 1) = n + 1 + j /\ n + 1 + j \in 1 .. Len(s)
        BY <1>1, <1>3, <2>3
      <3>2. s[n + 1 + j] = s[n + 1 + k] /\ n + 1 + k \in 1 .. Len(s)
        <4>1. b.expected[j + 1] = s[Len(s) - r + (j + 1)]
          BY <1>6, <3>1, Zenon
        <4>2. s[n + 1 + j] = s[n + 1 + k]
          BY <1>2, <2>5, <3>1, <4>1, Zenon
        <4>3. QED
          BY <1>1, <1>2, <4>2
      <3>3. n + 1 + j = n + 1 + k
        <4> DEFINE x == n + 1 + j
                   y == n + 1 + k
        <4>1. x \in 1 .. Len(s) /\ y \in 1 .. Len(s) /\ s[x] = s[y]
          BY <3>1, <3>2
        <4> HIDE DEF x, y
        <4>2. x = y
          BY <1>7, <4>1, Zenon
        <4>3. QED
          BY <4>2 DEF x, y
      <3>4. QED
        BY <1>1, <3>3
    <2>6. b2 = MatchAt(b, k)
      BY <1>1, <1>4, <2>3, <2>4, <2>5, CompareUnique DEF b2
    <2>7. QED
      BY <1>1, <1>4, <2>1, <2>2, <2>3, <2>6, MatchCounts
  <1>9. CASE n > at
    <2>1. b.errors = k /\ b.dropped = k
      BY <1>2, <1>9 DEF GapIsCounted, n
    <2>2. Len(s) - r = n + k
      BY <1>1, <1>4, <1>5, <2>1
    <2>3. 0 \in 0 .. Len(b.expected) - 1 /\ r = Len(s) - n - k
      BY <1>1, <1>2, <1>3, <2>2
    <2>4. b.expected[0 + 1] = c
      <3>1. 0 + 1 \in 1 .. r /\ Len(s) - r + (0 + 1) = n + 1 + k
        BY <1>1, <1>2, <2>3
      <3>2. QED
        BY <1>2, <1>6, <3>1
    <2>5. ASSUME NEW j \in 0 .. Len(b.expected) - 1, b.expected[j + 1] = c PROVE j = 0
      <3>1. /\ j + 1 \in 1 .. r /\ Len(s) - r + (j + 1) = n + 1 + k + j
            /\ n + 1 + k + j \in 1 .. Len(s)
        BY <1>1, <1>3, <2>3
      <3>2. s[n + 1 + k + j] = s[n + 1 + k] /\ n + 1 + k \in 1 .. Len(s)
        <4>1. b.expected[j + 1] = s[Len(s) - r + (j + 1)]
          BY <1>6, <3>1, Zenon
        <4>2. s[n + 1 + k + j] = s[n + 1 + k]
          BY <1>2, <2>5, <3>1, <4>1, Zenon
        <4>3. QED
          BY <1>1, <1>2, <4>2
      <3>3. n + 1 + k + j = n + 1 + k
        <4> DEFINE x == n + 1 + k + j
                   y == n + 1 + k
        <4>1. x \in 1 .. Len(s) /\ y \in 1 .. Len(s) /\ s[x] = s[y]
          BY <3>1, <3>2
        <4> HIDE DEF x, y
        <4>2. x = y
          BY <1>7, <4>1, Zenon
        <4>3. QED
          BY <4>2 DEF x, y
      <3>4. QED
        BY <1>1, <3>3
    <2>6. b2 = MatchAt(b, 0)
      <3> DEFINE z == 0
      <3>1. /\ z = 0 \/ z < LOOKAHEAD
            /\ z \in 0 .. Len(b.expected) - 1 /\ b.expected[z + 1] = c
        BY <2>3, <2>4
      <3>2. ASSUME NEW j \in 0 .. Len(b.expected) - 1, b.expected[j + 1] = c PROVE j = z
        BY <2>5, <3>2
      <3> HIDE DEF z
      <3>3. Compare(b, c) = MatchAt(b, z)
        BY <1>4, <3>1, <3>2, CompareUnique
      <3>4. QED
        BY <3>3 DEF b2, z
    <2>7. b2.errors = b.errors + 0 /\ b2.dropped = b.dropped + 0
      BY <1>4, <2>3, <2>6, MatchCounts
    <2>8. QED
      BY <1>1, <2>1, <2>7
  <1>10. QED
    BY <1>1, <1>8, <1>9

-----------------------------------------------------------------------------
(* An explanation with as many faults as errors.  It gains the commit just  *)
(* reported, and the entries compare has just taken off the queue.          *)

LostIn(p, m, n) == {k \in 1 .. m : \A j \in 1 .. n : p[j] # k}
AddedIn(p, n) == {j \in 1 .. n : p[j] = 0}
AlteredIn(p, s, t, n) == {j \in 1 .. n : p[j] # 0 /\ s[p[j]] # t[j]}

FaultsIn(p, s, t, m, n) ==
    Cardinality(LostIn(p, m, n)) + Cardinality(AddedIn(p, n)) + Cardinality(AlteredIn(p, s, t, n))

\* The report t is explained by the first m entries of s.
ExplainedUpTo(s, t, m, errors) ==
    \E p \in [1 .. Len(t) -> 0 .. m] :
        InOrder(p) /\ FaultsIn(p, s, t, m, Len(t)) <= errors

\* Some or no new element, counted.
LEMMA UnionBound ==
    ASSUME NEW A, IsFiniteSet(A), NEW B, IsFiniteSet(B), NEW T, T \subseteq A \cup B
    PROVE  /\ IsFiniteSet(T) /\ Cardinality(T) \in Nat
           /\ Cardinality(T) <= Cardinality(A) + Cardinality(B)
  <1>1. IsFiniteSet(A \cup B) /\ Cardinality(A \cup B) = Cardinality(A) + Cardinality(B) - Cardinality(A \cap B)
    BY FS_Union
  <1>2. IsFiniteSet(A \cap B)
    BY FS_Intersection
  <1>3. Cardinality(A) \in Nat /\ Cardinality(B) \in Nat /\ Cardinality(A \cap B) \in Nat
    BY <1>2, FS_CardinalityType
  <1>4. IsFiniteSet(T) /\ Cardinality(T) <= Cardinality(A \cup B)
    BY <1>1, FS_Subset
  <1>5. Cardinality(T) \in Nat
    BY <1>4, FS_CardinalityType
  <1>6. QED
    BY <1>1, <1>3, <1>4, <1>5

\* What is explained with some faults is explained with more allowed.
LEMMA MoreErrors ==
    ASSUME NEW s \in Seq(Commits), NEW t \in Seq(Commits), NEW m \in Nat,
           NEW d \in Int, NEW e \in Int, d <= e, ExplainedUpTo(s, t, m, d)
    PROVE  ExplainedUpTo(s, t, m, e)
  <1>1. PICK p \in [1 .. Len(t) -> 0 .. m] : InOrder(p) /\ FaultsIn(p, s, t, m, Len(t)) <= d
    BY DEF ExplainedUpTo
  <1>2. FaultsIn(p, s, t, m, Len(t)) \in Int
    <2>1. /\ LostIn(p, m, Len(t)) \subseteq 1 .. m /\ AddedIn(p, Len(t)) \subseteq 1 .. Len(t)
          /\ AlteredIn(p, s, t, Len(t)) \subseteq 1 .. Len(t)
      BY DEF LostIn, AddedIn, AlteredIn
    <2>2. IsFiniteSet(1 .. m) /\ IsFiniteSet(1 .. Len(t))
      BY LenProperties, FS_Interval
    <2>3. /\ Cardinality(LostIn(p, m, Len(t))) \in Nat /\ Cardinality(AddedIn(p, Len(t))) \in Nat
          /\ Cardinality(AlteredIn(p, s, t, Len(t))) \in Nat
      BY <2>1, <2>2, FS_Subset, FS_CardinalityType
    <2>4. QED
      BY <2>3 DEF FaultsIn
  <1>3. FaultsIn(p, s, t, m, Len(t)) <= e
    BY <1>1, <1>2
  <1>4. QED
    BY <1>1, <1>3 DEF ExplainedUpTo

\* The commit c stands for entry v, behind all entries explained so far, or for none.
LEMMA ExplainOneMore ==
    ASSUME NEW s \in Seq(Commits), NEW t \in Seq(Commits), NEW c \in Commits,
           NEW m \in Nat, NEW m2 \in Nat, m <= m2, NEW v \in {0} \cup (m + 1 .. m2),
           NEW e \in Nat, ExplainedUpTo(s, t, m, e),
           NEW lost \in Nat, Cardinality((m + 1 .. m2) \ {v}) = lost,
           NEW wrong \in Nat, wrong = IF v # 0 /\ s[v] = c THEN 0 ELSE 1
    PROVE  ExplainedUpTo(s, Append(t, c), m2, e + (lost + wrong))
  <1> DEFINE n == Len(t)
             a == Append(t, c)
             new == (m + 1 .. m2) \ {v}
  <1>1. PICK p \in [1 .. n -> 0 .. m] : InOrder(p) /\ FaultsIn(p, s, t, m, n) <= e
    BY DEF ExplainedUpTo
  <1> DEFINE q == [j \in 1 .. n + 1 |-> IF j = n + 1 THEN v ELSE p[j]]
  <1>2. /\ n \in Nat /\ Len(a) = n + 1 /\ a[n + 1] = c
        /\ \A j \in 1 .. n : a[j] = t[j]
    BY AppendProperties, LenProperties
  <1> HIDE DEF a, n
  <1>3. q \in [1 .. n + 1 -> 0 .. m2] /\ q[n + 1] = v /\ \A j \in 1 .. n : q[j] = p[j] /\ p[j] \in 0 .. m
    BY <1>1, <1>2
  <1> HIDE DEF q
  <1>4. InOrder(q)
    <2> SUFFICES ASSUME NEW j \in 1 .. n + 1, q[j] # 0, NEW i \in 1 .. j - 1 PROVE q[i] < q[j]
      BY <1>3 DEF InOrder
    <2>1. i \in 1 .. n /\ q[i] = p[i] /\ p[i] \in 0 .. m
      BY <1>2, <1>3
    <2>2. CASE j \in 1 .. n
      <3>1. p[j] # 0 /\ q[j] = p[j] /\ j \in DOMAIN p
        BY <1>1, <1>3, <2>2
      <3>2. \A h \in 1 .. j - 1 : p[h] < p[j]
        BY <1>1, <3>1, Zenon DEF InOrder
      <3>3. p[i] < p[j]
        BY <3>2
      <3>4. QED
        BY <2>1, <3>1, <3>3, Zenon
    <2>3. CASE j \notin 1 .. n
      <3>1. j = n + 1
        BY <1>2, <2>3
      <3>2. q[j] = v
        BY <1>3, <3>1
      <3>3. QED
        BY <2>1, <3>2
    <2>4. QED
      BY <2>2, <2>3
  <1>5. LostIn(q, m2, n + 1) \subseteq LostIn(p, m, n) \cup new
    <2> SUFFICES ASSUME NEW k \in 1 .. m2, \A j \in 1 .. n + 1 : q[j] # k, k \notin new
                 PROVE  k \in 1 .. m /\ \A j \in 1 .. n : p[j] # k
      BY DEF LostIn
    <2>1. k # v
      BY <1>2, <1>3
    <2>2. k \in 1 .. m
      BY <2>1
    <2>3. QED
      BY <1>2, <1>3, <2>2
  <1> DEFINE one == IF v = 0 THEN {n + 1} ELSE {}
             two == IF v # 0 /\ s[v] # c THEN {n + 1} ELSE {}
  <1>6. AddedIn(q, n + 1) \subseteq AddedIn(p, n) \cup one
    <2> SUFFICES ASSUME NEW j \in 1 .. n + 1, q[j] = 0 PROVE j \in AddedIn(p, n) \cup one
      BY DEF AddedIn
    <2>1. CASE j = n + 1
      BY <1>3, <2>1
    <2>2. CASE j # n + 1
      <3>1. j \in 1 .. n
        BY <1>2, <2>2
      <3>2. QED
        BY <1>3, <3>1 DEF AddedIn
    <2>3. QED
      BY <2>1, <2>2
  <1>7. AlteredIn(q, s, a, n + 1) \subseteq AlteredIn(p, s, t, n) \cup two
    <2> SUFFICES ASSUME NEW j \in 1 .. n + 1, q[j] # 0, s[q[j]] # a[j]
                 PROVE  j \in AlteredIn(p, s, t, n) \cup two
      BY DEF AlteredIn
    <2>1. CASE j = n + 1
      BY <1>2, <1>3, <2>1
    <2>2. CASE j # n + 1
      <3>1. j \in 1 .. n
        BY <1>2, <2>2
      <3>2. q[j] = p[j] /\ a[j] = t[j]
        BY <1>2, <1>3, <3>1
      <3>3. QED
        BY <3>1, <3>2 DEF AlteredIn
    <2>3. QED
      BY <2>1, <2>2
  <1>8. /\ IsFiniteSet(LostIn(p, m, n)) /\ IsFiniteSet(AddedIn(p, n)) /\ IsFiniteSet(AlteredIn(p, s, t, n))
        /\ IsFiniteSet(new) /\ IsFiniteSet(one) /\ IsFiniteSet(two)
    <2>1. IsFiniteSet(1 .. m) /\ IsFiniteSet(1 .. n) /\ IsFiniteSet(m + 1 .. m2) /\ IsFiniteSet({n + 1})
      <3>1. 1 \in Int /\ m \in Int /\ n \in Int /\ m + 1 \in Int /\ m2 \in Int
        BY <1>2
      <3>2. QED
        BY <3>1, FS_Interval, FS_Singleton
    <2>2. /\ LostIn(p, m, n) \subseteq 1 .. m /\ AddedIn(p, n) \subseteq 1 .. n
          /\ AlteredIn(p, s, t, n) \subseteq 1 .. n /\ new \subseteq m + 1 .. m2
      BY DEF LostIn, AddedIn, AlteredIn
    <2>3. one \subseteq {n + 1} /\ two \subseteq {n + 1}
      OBVIOUS
    <2> HIDE DEF new, one, two
    <2>4. QED
      BY <2>1, <2>2, <2>3, FS_Subset
  <1>9. Cardinality(one) + Cardinality(two) <= wrong /\ Cardinality(one) \in Nat /\ Cardinality(two) \in Nat
    <2>1. Cardinality({n + 1}) = 1 /\ Cardinality({}) = 0
      BY FS_Singleton, FS_EmptySet
    <2>2. CASE v = 0
      <3>1. one = {n + 1} /\ two = {} /\ wrong = 1
        BY <2>2
      <3>2. QED
        BY <2>1, <3>1
    <2>3. CASE v # 0 /\ s[v] = c
      <3>1. one = {} /\ two = {} /\ wrong = 0
        BY <2>3
      <3>2. QED
        BY <2>1, <3>1
    <2>4. CASE v # 0 /\ s[v] # c
      <3>1. one = {} /\ two = {n + 1} /\ wrong = 1
        BY <2>4
      <3>2. QED
        BY <2>1, <3>1
    <2>5. QED
      BY <2>2, <2>3, <2>4
  <1>10. Cardinality(new) = lost
    OBVIOUS
  <1> HIDE DEF new, one, two
  <1>11. FaultsIn(q, s, a, m2, n + 1) <= e + (lost + wrong)
    <2>1. /\ Cardinality(LostIn(p, m, n)) \in Nat /\ Cardinality(AddedIn(p, n)) \in Nat
          /\ Cardinality(AlteredIn(p, s, t, n)) \in Nat
      BY <1>8, FS_CardinalityType
    <2>2. /\ Cardinality(LostIn(q, m2, n + 1)) \in Nat
          /\ Cardinality(LostIn(q, m2, n + 1)) <= Cardinality(LostIn(p, m, n)) + lost
      BY <1>5, <1>8, <1>10, UnionBound
    <2>3. /\ Cardinality(AddedIn(q, n + 1)) \in Nat
          /\ Cardinality(AddedIn(q, n + 1)) <= Cardinality(AddedIn(p, n)) + Cardinality(one)
      BY <1>6, <1>8, UnionBound
    <2>4. /\ Cardinality(AlteredIn(q, s, a, n + 1)) \in Nat
          /\ Cardinality(AlteredIn(q, s, a, n + 1)) <= Cardinality(AlteredIn(p, s, t, n)) + Cardinality(two)
      BY <1>7, <1>8, UnionBound
    <2>5. \A l1, a1, d1, l2, a2, d2, x, y \in Nat :
             /\ l1 + a1 + d1 <= e /\ l2 <= l1 + lost /\ a2 <= a1 + x /\ d2 <= d1 + y /\ x + y <= wrong
             => l2 + a2 + d2 <= e + (lost + wrong)
      OBVIOUS
    <2>6. QED
      BY <1>1, <1>9, <2>1, <2>2, <2>3, <2>4, <2>5, Zenon DEF FaultsIn
  <1>12. ExplainedUpTo(s, a, m2, e + (lost + wrong))
    BY <1>2, <1>3, <1>4, <1>11 DEF ExplainedUpTo
  <1>13. QED
    BY <1>12 DEF a

\* Compare counts an error for every fault of the step it explains: k lost entries, a
\* commit that differs, or one that should not be there.
LEMMA CompareExplains ==
    ASSUME NEW b, NEW c \in Commits, NEW s \in Seq(Commits), NEW t \in Seq(Commits),
           Tracks(b, s, Len(t)), ExplainedUpTo(s, t, Len(s) - Len(b.expected), b.errors)
    PROVE  ExplainedUpTo(s, Append(t, c), Len(s) - Len(Compare(b, c).expected), Compare(b, c).errors)
  <1> DEFINE b2 == Compare(b, c)
             a == Append(t, c)
  <1>1. PICK r \in 0 .. Len(s) : b.expected = LastOf(s, r) /\ Len(b.expected) = r
    BY DEF Tracks
  <1> DEFINE m == Len(s) - r
  <1>2. /\ Counters(b, Commits) /\ b.expected \in Seq(Commits) /\ b.errors \in Nat
        /\ Len(s) \in Nat /\ r \in Nat /\ r <= Len(s) /\ m \in Nat
    BY <1>1, LenProperties DEF Tracks, Counters
  <1>3. ExplainedUpTo(s, t, m, b.errors)
    BY <1>1
  <1>4. \A j \in 1 .. r : b.expected[j] = s[m + j]
    BY <1>1, LastOfEntries
  <1>5. \/ b.expected = <<>> /\ b2 = ExtraCommit(b)
        \/ \E k \in 0 .. r - 1 : b.expected[k + 1] = c /\ b2 = MatchAt(b, k)
        \/ b.expected # <<>> /\ b2 = WrongValue(b)
    BY <1>1, <1>2, CompareCases
  <1> HIDE DEF b2, a
  <1>6. ASSUME b.expected = <<>>, b2 = ExtraCommit(b)
        PROVE  ExplainedUpTo(s, a, Len(s) - Len(b2.expected), b2.errors)
    <2>1. Advanced(Commits, b2, b, b.expected, 1, 0, 0, 1)
      BY <1>2, <1>6, Outcomes
    <2>2. b2.errors = b.errors + (0 + 1) /\ Len(s) - Len(b2.expected) = m
      BY <1>1, <2>1 DEF Advanced
    <2>3. Cardinality((m + 1 .. m) \ {0}) = 0
      <3>1. (m + 1 .. m) \ {0} = {}
        BY <1>2
      <3>2. QED
        BY <3>1, FS_EmptySet
    <2>4. ExplainedUpTo(s, a, m, b.errors + (0 + 1))
      <3> HIDE DEF m
      <3>1. m <= m /\ 0 \in {0} \cup (m + 1 .. m) /\ 1 = IF 0 # 0 /\ s[0] = c THEN 0 ELSE 1
        BY <1>2
      <3>2. QED
        BY <1>2, <1>3, <2>3, <3>1, ExplainOneMore DEF a
    <2>5. QED
      BY <2>2, <2>4
  <1>7. ASSUME NEW k \in 0 .. r - 1, b.expected[k + 1] = c, b2 = MatchAt(b, k)
        PROVE  ExplainedUpTo(s, a, Len(s) - Len(b2.expected), b2.errors)
    <2> DEFINE m2 == m + (k + 1)
    <2>1. /\ k \in Nat /\ k + 1 \in 1 .. r /\ r - (k + 1) \in 0 .. Len(s) /\ k + 2 = (k + 1) + 1
          /\ m2 \in Nat /\ m <= m2 /\ m2 # 0 /\ m2 \in m + 1 .. m2
      <3>1. k \in Nat /\ k + 1 \in 1 .. r /\ r - (k + 1) \in 0 .. Len(s) /\ k + 2 = (k + 1) + 1
        BY <1>2
      <3> HIDE DEF m
      <3>2. QED
        BY <1>2, <3>1
    <2>2. b2.errors = b.errors + (k + 0) /\ Len(b2.expected) = r - (k + 1)
      <3> DEFINE rest == LastOf(s, r - (k + 1))
      <3>1. /\ SubSeq(LastOf(s, r), (k + 1) + 1, r) = rest
            /\ rest \in Seq(Commits) /\ Len(rest) = r - (k + 1)
        BY <2>1, LastOfLast, ZenonT(60)
      <3> HIDE DEF rest
      <3>2. rest = SubSeq(b.expected, k + 2, Len(b.expected))
        BY <1>1, <2>1, <3>1, Zenon
      <3>3. Advanced(Commits, b2, b, rest, k, 1, k, 0)
        BY <1>2, <1>7, <2>1, <3>1, <3>2, Outcomes, Zenon
      <3>4. k + 0 = k
        BY <2>1
      <3>5. QED
        BY <3>1, <3>3, <3>4, Zenon DEF Advanced
    <2>3. s[m2] = c
      BY <1>4, <1>7, <2>1
    <2>4. Cardinality((m + 1 .. m2) \ {m2}) = k
      <3> HIDE DEF m
      <3>1. (m + 1 .. m2) \ {m2} = m + 1 .. m + k
        BY <1>2, <2>1
      <3>2. m + 1 \in Int /\ m + k \in Int /\ (IF m + 1 > m + k THEN 0 ELSE (m + k) - (m + 1) + 1) = k
        BY <1>2, <2>1
      <3>3. Cardinality(m + 1 .. m + k) = IF m + 1 > m + k THEN 0 ELSE (m + k) - (m + 1) + 1
        <4> DEFINE x == m + 1
                   y == m + k
        <4>1. x \in Int /\ y \in Int
          BY <3>2
        <4> HIDE DEF x, y
        <4>2. Cardinality(x .. y) = IF x > y THEN 0 ELSE y - x + 1
          BY <4>1, FS_Interval
        <4>3. QED
          BY <4>2, Zenon DEF x, y
      <3>4. QED
        BY <3>1, <3>2, <3>3
    <2>5. Len(s) - Len(b2.expected) = m2
      BY <1>2, <2>1, <2>2
    <2>6. ExplainedUpTo(s, a, m2, b.errors + (k + 0))
      <3> HIDE DEF m, m2
      <3>1. m2 \in {0} \cup (m + 1 .. m2) /\ 0 = IF m2 # 0 /\ s[m2] = c THEN 0 ELSE 1
        BY <2>1, <2>3
      <3>2. QED
        BY <1>2, <1>3, <2>1, <2>4, <3>1, ExplainOneMore DEF a
    <2>7. QED
      BY <2>2, <2>5, <2>6
  <1>8. ASSUME b.expected # <<>>, b2 = WrongValue(b)
        PROVE  ExplainedUpTo(s, a, Len(s) - Len(b2.expected), b2.errors)
    <2> DEFINE wrong == IF s[m + 1] = c THEN 0 ELSE 1
    <2>1. /\ 1 \in 1 .. r /\ r - 1 \in 0 .. Len(s) /\ m + 1 \in Nat /\ m + 1 # 0
          /\ m + 1 \in {0} \cup (m + 1 .. m + 1) /\ m <= m + 1
      <3>1. r # 0
        BY <1>1, <1>2, <1>8
      <3>2. 1 \in 1 .. r /\ r - 1 \in 0 .. Len(s)
        BY <1>2, <3>1
      <3> HIDE DEF m
      <3>3. QED
        BY <1>2, <3>2
    <2>2. b2.errors = b.errors + 1 /\ Len(b2.expected) = r - 1
      <3> DEFINE rest == Tail(b.expected)
      <3>1. rest \in Seq(Commits) /\ Len(rest) = r - 1
        BY <1>1, <1>2, <1>8
      <3> HIDE DEF rest
      <3>2. Advanced(Commits, b2, b, rest, 1, 0, 0, 0)
        BY <1>2, <1>8, <3>1, Outcomes DEF rest
      <3>3. QED
        BY <3>1, <3>2 DEF Advanced
    <2>3. Cardinality((m + 1 .. m + 1) \ {m + 1}) = 0
      <3>1. (m + 1 .. m + 1) \ {m + 1} = {}
        BY <2>1
      <3>2. QED
        BY <3>1, FS_EmptySet
    <2>4. ExplainedUpTo(s, a, m + 1, b.errors + (0 + wrong))
      <3> DEFINE v == m + 1
      <3>1. /\ v \in Nat /\ v # 0 /\ v \in {0} \cup (m + 1 .. v) /\ m <= v /\ wrong \in Nat
            /\ wrong = (IF v # 0 /\ s[v] = c THEN 0 ELSE 1) /\ Cardinality((m + 1 .. v) \ {v}) = 0
        BY <2>1, <2>3
      <3> HIDE DEF m, v, wrong
      <3>2. ExplainedUpTo(s, a, v, b.errors + (0 + wrong))
        BY <1>2, <1>3, <3>1, ExplainOneMore DEF a
      <3>3. QED
        BY <3>2 DEF v
    <2>5. ExplainedUpTo(s, a, m + 1, b.errors + 1)
      <3> DEFINE d == b.errors + (0 + wrong)
                 e == b.errors + 1
      <3>1. d \in Int /\ e \in Int /\ d <= e
        BY <1>2
      <3>2. ExplainedUpTo(s, a, m + 1, d) /\ a \in Seq(Commits)
        BY <2>4 DEF a
      <3> HIDE DEF d, e, m, wrong
      <3>3. ExplainedUpTo(s, a, m + 1, e)
        BY <2>1, <3>1, <3>2, MoreErrors
      <3>4. QED
        BY <3>3 DEF e
    <2>6. Len(s) - Len(b2.expected) = m + 1
      BY <1>2, <2>2
    <2>7. QED
      BY <2>2, <2>5, <2>6
  <1>9. QED
    BY <1>5, <1>6, <1>7, <1>8 DEF b2, a

-----------------------------------------------------------------------------
(* The theorems.                                                            *)

Inv ==
    /\ seen \in Seq(Commits) /\ loaded \in Seq(Commits)
    /\ Tracks(sb, loaded, Len(seen))
    /\ CleanMeansEqual /\ EqualMeansClean
    /\ GapIsCounted(loaded, seen, sb)
    /\ ExplainedUpTo(loaded, seen, Len(loaded) - Remaining(sb), sb.errors)

\* The inductive invariant: with a list loaded and nothing reported,
LEMMA InvInit == Init => Inv
  <1> SUFFICES ASSUME Init PROVE Inv
    OBVIOUS
  <1>1. loaded \in Seq(Commits) /\ seen = <<>> /\ sb = LoadExpected(loaded) /\ Len(loaded) \in Nat
    BY ExpectedAssumption DEF Init
  <1>2. Counters(sb, Commits) /\ sb.total = Len(loaded) /\ sb.expected = loaded /\ sb.errors = 0
    BY <1>1 DEF Counters, LoadExpected
  <1>3. TallyOf(sb, Len(loaded) - Len(loaded), Len(seen))
    <2>1. sb.matched = 0 /\ sb.dropped = 0 /\ sb.extra = 0
      BY <1>1 DEF LoadExpected
    <2>2. Len(seen) = 0
      BY <1>1
    <2>3. Tally(0, 0, 0, 0, Len(loaded) - Len(loaded), 0)
      BY <1>1 DEF Tally
    <2>4. QED
      BY <1>2, <2>1, <2>2, <2>3, Zenon DEF TallyOf
  <1>4. sb.expected = LastOf(loaded, Len(loaded)) /\ Len(loaded) \in 0 .. Len(loaded)
    <2>1. Len(loaded) - Len(loaded) + 1 = 1
      BY <1>1
    <2>2. QED
      BY <1>1, <1>2, <2>1, SubSeqFull DEF LastOf
  <1>5. seen \o sb.expected = loaded
    BY <1>1, <1>2, ConcatEmptySeq
  <1>6. seen \in Seq(Commits)
    BY <1>1, EmptySeq
  <1>7. Tracks(sb, loaded, Len(seen))
    BY <1>2, <1>3, <1>4, Zenon DEF Tracks
  <1>8. GapIsCounted(loaded, seen, sb)
    <2>1. Len(seen) = 0
      BY <1>1
    <2>2. QED
      BY <2>1 DEF GapIsCounted
  <1>9. ExplainedUpTo(loaded, seen, Len(loaded) - Remaining(sb), sb.errors)
    <2> DEFINE p == [j \in 1 .. 0 |-> 0]
    <2>1. Len(seen) = 0 /\ Len(loaded) - Remaining(sb) = 0 /\ sb.errors = 0
      BY <1>1, <1>2 DEF Remaining
    <2>2. p \in [1 .. 0 -> 0 .. 0] /\ InOrder(p)
      BY DEF InOrder
    <2>3. LostIn(p, 0, 0) = {} /\ AddedIn(p, 0) = {} /\ AlteredIn(p, loaded, seen, 0) = {}
      BY DEF LostIn, AddedIn, AlteredIn
    <2> HIDE DEF p
    <2>4. FaultsIn(p, loaded, seen, 0, 0) <= 0
      BY <2>3, FS_EmptySet DEF FaultsIn
    <2>5. QED
      BY <2>1, <2>2, <2>4 DEF ExplainedUpTo
  <1>10. QED
    BY <1>1, <1>2, <1>5, <1>6, <1>7, <1>8, <1>9 DEF Inv, CleanMeansEqual, EqualMeansClean

\* after one more reported commit,
LEMMA InvStep ==
    ASSUME Inv, NEW c \in Commits, Actual(c) PROVE Inv'
  <1>1. /\ sb' = Compare(sb, c) /\ seen' = Append(seen, c) /\ loaded' = loaded
        /\ seen \in Seq(Commits) /\ loaded \in Seq(Commits) /\ Counters(sb, Commits)
    BY DEF Actual, Inv, Tracks
  <1>2. seen' \in Seq(Commits) /\ Len(seen') = Len(seen) + 1 /\ Len(seen) \in Nat
    BY <1>1, AppendProperties
  <1>3. Tracks(sb, loaded, Len(seen))'
    <2>1. Tracks(Compare(sb, c), loaded, Len(seen) + 1)
      BY <1>1, <1>2, CompareTracks DEF Inv
    <2>2. QED
      BY <1>1, <1>2, <2>1 DEF Tracks
  <1>4. sb.expected \in Seq(Commits)
    BY <1>1 DEF Counters
  <1>5. CleanMeansEqual'
    <2> SUFFICES ASSUME sb'.errors = 0 PROVE seen' \o sb'.expected = loaded'
      BY DEF CleanMeansEqual
    <2>1. /\ sb.errors = 0 /\ sb.expected # <<>> /\ c = Head(sb.expected)
          /\ sb'.expected = Tail(sb.expected)
      BY <1>1, CompareClean
    <2>2. seen \o sb.expected = loaded
      BY <2>1 DEF Inv, CleanMeansEqual
    <2>3. QED
      BY <1>1, <1>4, <2>1, <2>2, MoveFront
  <1>6. EqualMeansClean'
    <2> SUFFICES ASSUME IsPrefix(seen', loaded') PROVE sb'.errors = 0
      BY DEF EqualMeansClean
    <2>1. CASE sb.errors = 0
      <3>1. loaded = seen \o sb.expected
        BY <2>1 DEF Inv, CleanMeansEqual
      <3>2. IsPrefix(Append(seen, c), seen \o sb.expected)
        BY <1>1, <3>1
      <3>3. sb.expected # <<>> /\ c = Head(sb.expected)
        BY <1>1, <1>4, <3>2, NextOfPrefix
      <3>4. QED
        BY <1>1, <2>1, <3>3, CompareClean
    <2>2. CASE sb.errors # 0
      <3>1. IsPrefix(seen, loaded)
        BY <1>1, ShorterPrefix
      <3>2. QED
        BY <2>2, <3>1 DEF Inv, EqualMeansClean
    <2>3. QED
      BY <2>1, <2>2
  <1>7. GapIsCounted(loaded, seen, sb)'
    <2>1. /\ Tracks(sb, loaded, Len(seen)) /\ GapIsCounted(loaded, seen, sb)
          /\ IsPrefix(seen, loaded) => sb.errors = 0
      BY DEF Inv, EqualMeansClean
    <2>2. GapIsCounted(loaded, Append(seen, c), Compare(sb, c))
      BY <1>1, <2>1, CompareCountsGap
    <2>3. QED
      BY <1>1, <2>2 DEF GapIsCounted
  <1>8. ExplainedUpTo(loaded, seen, Len(loaded) - Remaining(sb), sb.errors)'
    <2>1. /\ Tracks(sb, loaded, Len(seen))
          /\ ExplainedUpTo(loaded, seen, Len(loaded) - Len(sb.expected), sb.errors)
      BY DEF Inv, Remaining
    <2>2. ExplainedUpTo(loaded, Append(seen, c), Len(loaded) - Len(Compare(sb, c).expected),
                        Compare(sb, c).errors)
      BY <1>1, <2>1, CompareExplains
    <2>3. QED
      BY <1>1, <2>2 DEF ExplainedUpTo, Remaining
  <1>9. QED
    BY <1>1, <1>2, <1>3, <1>5, <1>6, <1>7, <1>8 DEF Inv

\* and so of every report against every expected list: the counters and the queue follow
\* from what has been loaded and seen.
THEOREM InvHolds == Spec => []Inv
  <1>1. Inv /\ [Next]_vars => Inv'
    <2>1. CASE \E c \in Commits : Actual(c)
      BY <2>1, InvStep
    <2>2. CASE UNCHANGED vars
      BY <2>2 DEF vars, Inv, Tracks, CleanMeansEqual, EqualMeansClean, GapIsCounted, ExplainedUpTo, Remaining
    <2>3. QED
      BY <2>1, <2>2 DEF Next
  <1>2. QED
    BY <1>1, InvInit, PTL DEF Spec

\* Every entry of the expected list and every report is accounted for exactly once,
\* however long the list and the report.
THEOREM EverythingIsAccounted == Spec => []Accounted
  <1>1. Inv => Accounted
    <2> SUFFICES ASSUME Inv PROVE Accounted
      OBVIOUS
    <2>1. PICK r \in 0 .. Len(loaded) : /\ sb.expected = LastOf(loaded, r) /\ Len(sb.expected) = r
                                        /\ TallyOf(sb, Len(loaded) - r, Len(seen))
      BY DEF Inv, Tracks
    <2>2. loaded \in Seq(Commits) /\ sb.total = Len(loaded) /\ Remaining(sb) = r /\ Len(loaded) \in Nat
      BY <2>1 DEF Inv, Tracks, Remaining
    <2>3. Len(Consumed) = Len(loaded) - r
      <3>1. \A i \in 1 .. Len(loaded) - r : loaded[i] \in Commits
        BY <2>2
      <3>2. Len(SubSeq(loaded, 1, Len(loaded) - r)) = Len(loaded) - r
        BY <2>2, <3>1, SubSeqProperties
      <3>3. QED
        BY <2>2, <3>2 DEF Consumed
    <2>4. /\ sb.errors \in Nat /\ sb.dropped \in Nat /\ sb.extra \in Nat /\ sb.matched \in Nat
      BY DEF Inv, Tracks, Counters
    <2>5. /\ Len(loaded) - r = sb.matched + sb.dropped + Wrong(sb)
          /\ Len(seen) = sb.matched + Wrong(sb) + sb.extra
          /\ Wrong(sb) >= 0
      <3>1. Tally(sb.errors, sb.matched, sb.dropped, sb.extra, Len(loaded) - r, Len(seen))
        BY <2>1 DEF TallyOf
      <3>2. \A e, d, x \in Nat : e >= d + x => e - d - x >= 0
        OBVIOUS
      <3>3. QED
        BY <2>4, <3>1, <3>2, Zenon DEF Tally, Wrong
    <2>6. QED
      BY <2>1, <2>2, <2>3, <2>5 DEF Accounted, LastOf
  <1>2. QED
    BY <1>1, InvHolds, PTL

\* A clean verdict is right: as long as the scoreboard counts no error, the reports
\* followed by its queue are the expected list.
THEOREM VerdictIsRight == Spec => []CleanMeansEqual
  <1>1. Inv => CleanMeansEqual
    BY DEF Inv
  <1>2. QED
    BY <1>1, InvHolds, PTL

\* A device that is right so far is never blamed: reports that begin the expected list
\* cost no error, whatever repeats in it.
THEOREM RightDeviceIsClean == Spec => []EqualMeansClean
  <1>1. Inv => EqualMeansClean
    BY DEF Inv
  <1>2. QED
    BY <1>1, InvHolds, PTL

\* The scoreboard never counts fewer errors than there are faults: the commits lost,
\* added or altered in the part of the list it has consumed.  No fault hides another,
\* for every list, report and look-ahead.
THEOREM NoFaultIsHidden == Spec => []ErrorsCoverFaults
  <1>1. Inv => ErrorsCoverFaults
    <2> SUFFICES ASSUME Inv PROVE ErrorsCoverFaults
      OBVIOUS
    <2> DEFINE m == Len(loaded) - Remaining(sb)
               n == Len(seen)
    <2>1. /\ loaded \in Seq(Commits) /\ seen \in Seq(Commits) /\ m \in 0 .. Len(loaded)
          /\ Len(loaded) \in Nat /\ n \in Nat
      BY LenProperties DEF Inv, Tracks, Remaining
    <2>2. Len(Consumed) = m /\ DOMAIN Consumed = 1 .. m /\ \A k \in 1 .. m : Consumed[k] = loaded[k]
      <3>1. \A i \in 1 .. m : loaded[i] \in Commits
        BY <2>1
      <3>2. Len(SubSeq(loaded, 1, m)) = m /\ DOMAIN SubSeq(loaded, 1, m) = 1 .. m
        BY <2>1, <3>1, SubSeqProperties
      <3>3. \A k \in 1 .. m : SubSeq(loaded, 1, m)[k] = loaded[k]
        BY <2>1, <3>1
      <3>4. QED
        BY <3>2, <3>3 DEF Consumed
    <2>3. DOMAIN seen = 1 .. n
      BY <2>1
    <2>4. PICK p \in [1 .. n -> 0 .. m] : InOrder(p) /\ FaultsIn(p, loaded, seen, m, n) <= sb.errors
      BY DEF Inv, ExplainedUpTo
    <2> HIDE DEF m, n
    <2>5. Faults(p, Consumed, seen) = FaultsIn(p, loaded, seen, m, n)
      <3>1. {k \in DOMAIN Consumed : \A j \in DOMAIN seen : p[j] # k} = LostIn(p, m, n)
        BY <2>2, <2>3 DEF LostIn
      <3>2. {j \in DOMAIN seen : p[j] = 0} = AddedIn(p, n)
        BY <2>3 DEF AddedIn
      <3>3. {j \in DOMAIN seen : p[j] # 0 /\ Consumed[p[j]] # seen[j]} = AlteredIn(p, loaded, seen, n)
        <4>1. \A j \in 1 .. n : p[j] # 0 => p[j] \in 1 .. m
          BY <2>1, <2>4
        <4>2. \A j \in 1 .. n : p[j] # 0 => Consumed[p[j]] = loaded[p[j]]
          BY <2>2, <4>1
        <4>3. QED
          BY <2>3, <4>2 DEF AlteredIn
      <3>4. QED
        BY <3>1, <3>2, <3>3, Zenon DEF Faults, FaultsIn
    <2>6. QED
      BY <2>2, <2>3, <2>4, <2>5 DEF ErrorsCoverFaults, Explained
  <1>2. QED
    BY <1>1, InvHolds, PTL

\* A device that loses fewer commits than the look-ahead, in one place of a list without
\* repetitions, costs one error for each, all counted as dropped, and nothing is left
\* over: one loss never cascades, for every look-ahead, list, place and length of the gap.
THEOREM OneLossIsPinpointed == Spec => []DropIsPinpointed
  <1>1. Inv => DropIsPinpointed
    <2> SUFFICES ASSUME Inv, NEW at \in 0 .. Len(loaded), NEW k \in 1 .. LOOKAHEAD - 1,
                        Distinct(loaded), SubSeq(loaded, at + k + 1, Len(loaded)) # <<>>,
                        seen = SubSeq(loaded, 1, at) \o SubSeq(loaded, at + k + 1, Len(loaded))
                 PROVE  sb.errors = k /\ sb.dropped = k /\ AllMatched(sb)
      BY DEF DropIsPinpointed
    <2> DEFINE L == Len(loaded)
               s1 == SubSeq(loaded, 1, at)
               s2 == SubSeq(loaded, at + k + 1, L)
    <2>1. /\ loaded \in Seq(Commits) /\ seen \in Seq(Commits) /\ L \in Nat /\ k \in Nat /\ k >= 1
          /\ at \in Nat /\ at <= L
      BY LenProperties, LookaheadAssumption DEF Inv
    <2>2. at + k < L
      <3>1. CASE at + k + 1 > L
        <4>1. s2 = <<>>
          BY <2>1, <3>1, SubSeqEmpty
        <4>2. QED
          BY <4>1
      <3>2. QED
        BY <2>1, <3>1
    <2>3. /\ s1 \in Seq(Commits) /\ Len(s1) = at
          /\ \A i \in 1 .. at : s1[i] = loaded[i]
      <3>1. \A i \in 1 .. at : loaded[i] \in Commits /\ 1 + i - 1 = i
        BY <2>1
      <3>2. \A i \in 1 .. at - 1 + 1 : s1[i] = loaded[1 + i - 1]
        BY <2>1, <3>1, SubSeqProperties
      <3>3. s1 \in Seq(Commits) /\ Len(s1) = at
        BY <2>1, <3>1, SubSeqProperties
      <3>4. QED
        BY <2>1, <3>1, <3>2, <3>3
    <2>4. /\ s2 \in Seq(Commits) /\ Len(s2) = L - at - k
          /\ \A i \in 1 .. L - at - k : s2[i] = loaded[at + k + i]
      <3>1. \A i \in at + k + 1 .. L : loaded[i] \in Commits
        BY <2>1
      <3>2. \A i \in 1 .. L - (at + k + 1) + 1 : s2[i] = loaded[(at + k + 1) + i - 1]
        BY <2>1, <2>2, <3>1, SubSeqProperties
      <3>3. s2 \in Seq(Commits) /\ Len(s2) = L - (at + k + 1) + 1
        BY <2>1, <2>2, <3>1, SubSeqProperties
      <3>4. /\ L - (at + k + 1) + 1 = L - at - k
            /\ \A i \in 1 .. L - at - k : (at + k + 1) + i - 1 = at + k + i
        BY <2>1
      <3>5. QED
        BY <3>2, <3>3, <3>4
    <2> HIDE DEF s1, s2
    <2>5. /\ Len(seen) = L - k
          /\ \A i \in 1 .. L - k : seen[i] = IF i <= at THEN s1[i] ELSE s2[i - at]
      <3>1. seen = s1 \o s2
        BY DEF s1, s2
      <3>2. /\ Len(s1 \o s2) = Len(s1) + Len(s2)
            /\ \A i \in 1 .. Len(s1) + Len(s2) :
                  (s1 \o s2)[i] = IF i <= Len(s1) THEN s1[i] ELSE s2[i - Len(s1)]
        BY <2>3, <2>4, ConcatProperties
      <3>3. Len(s1) + Len(s2) = L - k
        BY <2>1, <2>3, <2>4
      <3>4. QED
        BY <2>3, <3>1, <3>2, <3>3
    <2>6. Lost(loaded, seen, at, k) /\ Len(seen) > at
      <3>1. \A i \in 1 .. L - k : i > at => /\ i - at \in 1 .. L - at - k
                                         /\ at + k + (i - at) = i + k
        BY <2>1
      <3>2. \A i \in 1 .. L - k : i <= at => i \in 1 .. at
        BY <2>1
      <3>3. ASSUME NEW i \in 1 .. L - k PROVE seen[i] = loaded[IF i <= at THEN i ELSE i + k]
        <4>1. CASE i <= at
          <5>1. seen[i] = s1[i] /\ s1[i] = loaded[i]
            BY <2>3, <2>5, <3>2, <4>1
          <5>2. QED
            BY <4>1, <5>1
        <4>2. CASE ~(i <= at)
          <5>1. i > at
            BY <2>1, <4>2
          <5>2. i - at \in 1 .. L - at - k /\ at + k + (i - at) = i + k
            BY <3>1, <5>1
          <5>3. seen[i] = s2[i - at]
            BY <2>5, <4>2
          <5>4. s2[i - at] = loaded[i + k]
            <6> DEFINE j == i - at
            <6> HIDE DEF j
            <6>1. j \in 1 .. L - at - k /\ at + k + j = i + k
              BY <5>2 DEF j
            <6>2. s2[j] = loaded[at + k + j]
              BY <2>4, <6>1, Zenon
            <6>3. QED
              BY <6>1, <6>2 DEF j
          <5>5. QED
            BY <4>2, <5>3, <5>4
        <4>3. QED
          BY <4>1, <4>2
      <3>4. Len(seen) + k <= L /\ Len(seen) > at
        <4>1. \A n, m, a, g \in Nat : n = m - g /\ a + g < m => n + g <= m /\ n > a
          OBVIOUS
        <4>2. Len(seen) \in Nat /\ Len(seen) = L - k
          BY <2>1, <2>5, LenProperties, Zenon
        <4>3. QED
          BY <2>1, <2>2, <4>1, <4>2, Zenon
      <3>5. \A i \in 1 .. Len(seen) : seen[i] = loaded[IF i <= at THEN i ELSE i + k]
        BY <2>5, <3>3
      <3>6. QED
        BY <2>2, <3>4, <3>5, Zenon DEF Lost
    <2>7. sb.errors = k /\ sb.dropped = k
      <3>1. GapIsCounted(loaded, seen, sb)
        BY DEF Inv
      <3>2. QED
        BY <2>6, <3>1, Zenon DEF GapIsCounted
    <2>8. PICK r \in 0 .. L : Len(sb.expected) = r /\ TallyOf(sb, L - r, Len(seen))
      BY DEF Inv, Tracks
    <2>9. sb.matched \in Nat /\ sb.extra \in Nat /\ sb.expected \in Seq(Commits)
      BY DEF Inv, Tracks, Counters
    <2>10. Len(sb.expected) = 0
      <3>1. \A n, m, x, g \in Nat : \A i \in 0 .. n :
               Tally(g, m, g, x, n - i, n - g) => i = 0
        BY DEF Tally
      <3>2. Tally(k, sb.matched, k, sb.extra, L - r, L - k)
        BY <2>5, <2>7, <2>8, Zenon DEF TallyOf
      <3>3. r = 0
        BY <2>1, <2>9, <3>1, <3>2, Zenon
      <3>4. QED
        BY <2>8, <3>3
    <2>11. QED
      <3>1. 0 \notin Nat \ {0}
        OBVIOUS
      <3>2. sb.expected = <<>>
        BY <2>9, <2>10, <3>1, EmptySeq, Zenon
      <3>3. QED
        BY <2>7, <3>2 DEF AllMatched
  <1>2. QED
    BY <1>1, InvHolds, PTL
=============================================================================
