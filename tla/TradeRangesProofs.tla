-------------------------- MODULE TradeRangesProofs --------------------------
(***************************************************************************)
(* The arithmetic on covered ranges, for any time line: marking a range    *)
(* covers exactly its steps and keeps the list merged, and the gaps are    *)
(* exactly missing.  First, what the proofs about the choices of several   *)
(* modules (the first, the last, the minimum, the maximum) rest on: a      *)
(* finite set of integers has a least and a greatest element.              *)
(***************************************************************************)
EXTENDS TradeRanges, FiniteSetTheorems, WellFoundedInduction, TLAPS

-----------------------------------------------------------------------------
(* Least and greatest elements *)

(* The least element of a finite set S of integers is the one whose        *)
(* initial segment in S is minimal.                                        *)
LEMMA LeastExists ==
  ASSUME NEW S, S \subseteq Int, S # {}, IsFiniteSet(S)
  PROVE  \E m \in S : \A n \in S : m <= n
<1> DEFINE Upto(m) == {k \in S : k <= m}
           F == {Upto(m) : m \in S}
           R == StrictSubsetOrdering(S)
<1>1. IsWellFoundedOn(R, FiniteSubsetsOf(S))
  BY FS_StrictSubsetOrderingWellFounded
<1>2. F \subseteq FiniteSubsetsOf(S) /\ F # {}
  <2>1. \A m \in S : Upto(m) \in SUBSET S /\ IsFiniteSet(Upto(m))
    BY FS_Subset
  <2>2. \A m \in S : Upto(m) \in FiniteSubsetsOf(S)
    BY <2>1 DEF FiniteSubsetsOf
  <2> HIDE DEF Upto
  <2>3. QED
    BY <2>2
<1>3. PICK X \in F : \A Y \in F : <<Y, X>> \notin R
  <2> HIDE DEF R, F
  <2>1. QED
    BY <1>1, <1>2, WFMin
<1>4. PICK m \in S : X = Upto(m)
  BY <1>3
<1>5. ASSUME NEW n \in S, n < m
      PROVE  FALSE
  <2>1. n \in Int /\ m \in Int /\ \A k \in S : k \in Int
    OBVIOUS
  <2>2. Upto(n) \in F
    OBVIOUS
  <2>3. Upto(n) \subseteq X
    <3>1. \A k \in S : k <= n => k <= m
      BY <1>5, <2>1
    <3>2. QED
      BY <1>4, <3>1
  <2>4. m \in X /\ m \notin Upto(n)
    BY <1>4, <1>5, <2>1
  <2>5. X \in SUBSET S /\ Upto(n) \in SUBSET S
    BY <1>4
  <2>6. <<Upto(n), X>> \in R
    BY <2>3, <2>4, <2>5 DEF StrictSubsetOrdering
  <2>7. QED
    BY <2>2, <2>6, <1>3
<1>6. QED
  BY <1>5

LEMMA GreatestExists ==
  ASSUME NEW S, S \subseteq Int, S # {}, IsFiniteSet(S)
  PROVE  \E m \in S : \A n \in S : n <= m
<1> DEFINE From(m) == {k \in S : m <= k}
           F == {From(m) : m \in S}
           R == StrictSubsetOrdering(S)
<1>1. IsWellFoundedOn(R, FiniteSubsetsOf(S))
  BY FS_StrictSubsetOrderingWellFounded
<1>2. F \subseteq FiniteSubsetsOf(S) /\ F # {}
  <2>1. \A m \in S : From(m) \in SUBSET S /\ IsFiniteSet(From(m))
    BY FS_Subset
  <2>2. \A m \in S : From(m) \in FiniteSubsetsOf(S)
    BY <2>1 DEF FiniteSubsetsOf
  <2> HIDE DEF From
  <2>3. QED
    BY <2>2
<1>3. PICK X \in F : \A Y \in F : <<Y, X>> \notin R
  <2> HIDE DEF R, F
  <2>1. QED
    BY <1>1, <1>2, WFMin
<1>4. PICK m \in S : X = From(m)
  BY <1>3
<1>5. ASSUME NEW n \in S, m < n
      PROVE  FALSE
  <2>1. n \in Int /\ m \in Int /\ \A k \in S : k \in Int
    OBVIOUS
  <2>2. From(n) \in F
    OBVIOUS
  <2>3. From(n) \subseteq X
    <3>1. \A k \in S : n <= k => m <= k
      BY <1>5, <2>1
    <3>2. QED
      BY <1>4, <3>1
  <2>4. m \in X /\ m \notin From(n)
    BY <1>4, <1>5, <2>1
  <2>5. X \in SUBSET S /\ From(n) \in SUBSET S
    BY <1>4
  <2>6. <<From(n), X>> \in R
    BY <2>3, <2>4, <2>5 DEF StrictSubsetOrdering
  <2>7. QED
    BY <2>2, <2>6, <1>3
<1>6. QED
  BY <1>5

(* ... and so has any part of an interval.                                 *)
LEMMA BoundedHasEnds ==
  ASSUME NEW a \in Int, NEW b \in Int, NEW S \in SUBSET (a..b), S # {}
  PROVE  /\ \E m \in S : \A n \in S : m <= n
         /\ \E m \in S : \A n \in S : n <= m
<1>1. IsFiniteSet(a..b)
  BY FS_Interval
<1>2. IsFiniteSet(S)
  BY <1>1, FS_Subset
<1>3. S \subseteq Int
  OBVIOUS
<1>4. QED
  BY <1>2, <1>3, LeastExists, GreatestExists

-----------------------------------------------------------------------------
(* Ranges *)

LEMMA MinIs ==
  ASSUME NEW a \in Int, NEW b \in Int, NEW S \in SUBSET (a..b), S # {}
  PROVE  Min(S) \in S /\ \A n \in S : Min(S) <= n
<1>1. \E m \in S : \A n \in S : m <= n
  BY BoundedHasEnds
<1>2. QED
  BY <1>1 DEF Min

LEMMA MaxIs ==
  ASSUME NEW a \in Int, NEW b \in Int, NEW S \in SUBSET (a..b), S # {}
  PROVE  Max(S) \in S /\ \A n \in S : n <= Max(S)
<1>1. \E m \in S : \A n \in S : n <= m
  BY BoundedHasEnds
<1>2. \E m \in S : \A n \in S : m >= n
  BY <1>1
<1>3. QED
  BY <1>2 DEF Max

(* Ranges on the time line 0..T.                                           *)
RangesUpTo(T) == [from : 0..T, to : 0..T]

LEMMA RangeFields ==
  ASSUME NEW T \in Nat, NEW r \in RangesUpTo(T)
  PROVE  r.from \in 0..T /\ r.to \in 0..T /\ r.from \in Nat /\ r.to \in Nat
BY DEF RangesUpTo

-----------------------------------------------------------------------------
(* Marking *)

(* The two ends of the interval that marking from..to makes.               *)
Low(covered, from, to) == Min({from} \cup {r.from : r \in Touching(covered, from, to)})
High(covered, from, to) == Max({to} \cup {r.to : r \in Touching(covered, from, to)})

LEMMA LowIs ==
  ASSUME NEW T \in Nat, NEW covered \in SUBSET RangesUpTo(T),
         NEW from \in 0..T, NEW to \in 0..T
  PROVE  LET m == Low(covered, from, to) touching == Touching(covered, from, to) IN
         /\ m \in 0..T /\ m <= from
         /\ \A r \in touching : m <= r.from
         /\ m = from \/ \E r \in touching : m = r.from
<1> DEFINE S == {from} \cup {r.from : r \in Touching(covered, from, to)}
<1>1. \A r \in Touching(covered, from, to) : r \in RangesUpTo(T)
  BY DEF Touching
<1>2. S \in SUBSET (0..T) /\ S # {}
  BY <1>1 DEF RangesUpTo
<1>3. Min(S) \in S /\ \A n \in S : Min(S) <= n
  <2> HIDE DEF S
  <2>1. 0 \in Int /\ T \in Int
    OBVIOUS
  <2>2. QED
    BY <1>2, <2>1, MinIs
<1>4. QED
  BY <1>2, <1>3 DEF Low

LEMMA HighIs ==
  ASSUME NEW T \in Nat, NEW covered \in SUBSET RangesUpTo(T),
         NEW from \in 0..T, NEW to \in 0..T
  PROVE  LET m == High(covered, from, to) touching == Touching(covered, from, to) IN
         /\ m \in 0..T /\ to <= m
         /\ \A r \in touching : r.to <= m
         /\ m = to \/ \E r \in touching : m = r.to
<1> DEFINE S == {to} \cup {r.to : r \in Touching(covered, from, to)}
<1>1. \A r \in Touching(covered, from, to) : r \in RangesUpTo(T)
  BY DEF Touching
<1>2. S \in SUBSET (0..T) /\ S # {}
  BY <1>1 DEF RangesUpTo
<1>3. Max(S) \in S /\ \A n \in S : n <= Max(S)
  <2> HIDE DEF S
  <2>1. 0 \in Int /\ T \in Int
    OBVIOUS
  <2>2. QED
    BY <1>2, <2>1, MaxIs
<1>4. QED
  BY <1>2, <1>3 DEF High

LEMMA MarkedIs ==
  ASSUME NEW covered, NEW from \in Int, NEW to \in Int
  PROVE  MarkCovered(covered, from, to) =
           IF to <= from THEN covered
           ELSE (covered \ Touching(covered, from, to)) \cup
                  {Interval(Low(covered, from, to), High(covered, from, to))}
BY DEF MarkCovered, Low, High

(* What the new interval holds was in the range or in one it touched.      *)
LEMMA MarkedFrom ==
  ASSUME NEW T \in Nat, NEW covered \in SUBSET RangesUpTo(T),
         NEW from \in 0..T, NEW to \in 0..T, from < to,
         NEW m \in Low(covered, from, to)..High(covered, from, to)
  PROVE  \/ m \in from..to
         \/ \E r \in Touching(covered, from, to) : m \in r.from..r.to
<1> DEFINE lo == Low(covered, from, to)
           hi == High(covered, from, to)
           touching == Touching(covered, from, to)
<1>1. /\ lo \in 0..T /\ lo <= from
      /\ lo = from \/ \E r \in touching : lo = r.from
  BY LowIs
<1>2. /\ hi \in 0..T /\ to <= hi
      /\ hi = to \/ \E r \in touching : hi = r.to
  BY HighIs
<1>3. \A r \in touching : /\ r.from \in Nat /\ r.to \in Nat
                          /\ r.from <= to /\ from <= r.to
  BY RangeFields DEF Touching
<1>4. m \in lo..hi /\ m \in Int /\ lo \in Int /\ hi \in Int
  BY <1>1, <1>2
<1> HIDE DEF lo, hi, touching
<1>5. CASE m < from
  <2>1. PICK r \in touching : lo = r.from
    BY <1>1, <1>4, <1>5
  <2>2. m \in r.from..r.to
    BY <1>3, <1>4, <1>5, <2>1
  <2>3. QED
    BY <2>2 DEF touching
<1>6. CASE to < m
  <2>1. PICK r \in touching : hi = r.to
    BY <1>2, <1>4, <1>6
  <2>2. m \in r.from..r.to
    BY <1>3, <1>4, <1>6, <2>1
  <2>3. QED
    BY <2>2 DEF touching
<1>7. CASE from <= m /\ m <= to
  BY <1>4, <1>7
<1>8. QED
  BY <1>4, <1>5, <1>6, <1>7

LEMMA StepsAre ==
  ASSUME NEW T \in Nat, NEW covered \in SUBSET RangesUpTo(T), NEW m \in Int
  PROVE  m \in Steps(covered) <=> \E r \in covered : r.from <= m /\ m < r.to
<1>1. \A r \in covered : r.from \in Int /\ r.to \in Int
  BY RangeFields
<1>2. \A r \in covered : m \in r.from..(r.to - 1) <=> (r.from <= m /\ m < r.to)
  BY <1>1
<1>3. QED
  BY <1>2 DEF Steps

(* Marking a range keeps the list on the time line ...                     *)
LEMMA MarkedType ==
  ASSUME NEW T \in Nat, NEW covered \in SUBSET RangesUpTo(T),
         NEW from \in 0..T, NEW to \in Int, to < from \/ to \in 0..T
  PROVE  MarkCovered(covered, from, to) \in SUBSET RangesUpTo(T)
<1>1. CASE to <= from
  BY <1>1, MarkedIs
<1>2. CASE ~(to <= from)
  <2>1. to \in 0..T
    BY <1>2
  <2>2. Low(covered, from, to) \in 0..T /\ High(covered, from, to) \in 0..T
    BY <2>1, LowIs, HighIs
  <2>3. Interval(Low(covered, from, to), High(covered, from, to)) \in RangesUpTo(T)
    BY <2>2 DEF Interval, RangesUpTo
  <2>4. QED
    BY <1>2, <2>3, MarkedIs
<1>3. QED
  BY <1>1, <1>2

(* ... brings no point that was not in it or covered before ...            *)
LEMMA MarkedWithin ==
  ASSUME NEW T \in Nat, NEW covered \in SUBSET RangesUpTo(T),
         NEW from \in 0..T, NEW to \in Int, to < from \/ to \in 0..T, NEW P,
         \A r \in covered : r.from..r.to \subseteq P,
         from..to \subseteq P
  PROVE  \A r \in MarkCovered(covered, from, to) : r.from..r.to \subseteq P
<1>1. CASE to <= from
  BY <1>1, MarkedIs
<1>2. CASE ~(to <= from)
  <2> DEFINE new == Interval(Low(covered, from, to), High(covered, from, to))
  <2>1. to \in 0..T /\ from < to
    BY <1>2
  <2>2. ASSUME NEW m \in Low(covered, from, to)..High(covered, from, to)
        PROVE  m \in P
    <3>1. m \in from..to \/ \E r \in Touching(covered, from, to) : m \in r.from..r.to
      BY <2>1, <2>2, MarkedFrom
    <3>2. QED
      BY <3>1 DEF Touching
  <2>3. new.from..new.to \subseteq P
    BY <2>2 DEF Interval
  <2>4. MarkCovered(covered, from, to) \subseteq covered \cup {new}
    BY <1>2, MarkedIs
  <2> HIDE DEF new
  <2>5. QED
    BY <2>3, <2>4
<1>3. QED
  BY <1>1, <1>2

(* ... and leaves no two intervals that touch.                             *)
LEMMA MarkedIsMerged ==
  ASSUME NEW T \in Nat, NEW covered \in SUBSET RangesUpTo(T), Merged(covered),
         NEW from \in 0..T, NEW to \in Int, to < from \/ to \in 0..T
  PROVE  Merged(MarkCovered(covered, from, to))
<1>1. CASE to <= from
  BY <1>1, MarkedIs
<1>2. CASE ~(to <= from)
  <2> DEFINE lo == Low(covered, from, to)
             hi == High(covered, from, to)
             touching == Touching(covered, from, to)
             new == Interval(lo, hi)
  <2>1. to \in 0..T /\ from < to
    BY <1>2
  <2>2. /\ lo \in 0..T /\ lo <= from
        /\ lo = from \/ \E r \in touching : lo = r.from
    BY <2>1, LowIs
  <2>3. /\ hi \in 0..T /\ to <= hi
        /\ hi = to \/ \E r \in touching : hi = r.to
    BY <2>1, HighIs
  <2>4. new.from = lo /\ new.to = hi
    BY DEF Interval
  <2>5. MarkCovered(covered, from, to) = (covered \ touching) \cup {new}
    BY <1>2, MarkedIs
  <2>6. \A r \in covered : /\ r.from \in Int /\ r.to \in Int /\ r.from < r.to
                           /\ r \in touching <=> (r.from <= to /\ from <= r.to)
    BY RangeFields DEF Merged, Touching
  <2>7. touching \subseteq covered
    BY DEF Touching
  <2>8. \A r, s \in covered : r # s => r.to < s.from \/ s.to < r.from
    BY DEF Merged
  <2>9. lo \in Int /\ hi \in Int
    BY <2>2, <2>3
  <2> HIDE DEF lo, hi, touching, new
  <2>10. ASSUME NEW s \in covered \ touching
         PROVE  s.to < lo \/ hi < s.from
    <3>1. /\ s.from \in Int /\ s.to \in Int /\ s.from < s.to
          /\ to < s.from \/ s.to < from
      BY <2>6
    <3>2. ASSUME NEW r \in touching
          PROVE  /\ r.from \in Int /\ r.to \in Int /\ r.from < r.to
                 /\ r.from <= to /\ from <= r.to
                 /\ r.to < s.from \/ s.to < r.from
      BY <2>6, <2>7, <2>8
    <3>3. CASE to < s.from
      <4>1. \A r \in touching : r.to < s.from
        BY <2>1, <3>1, <3>2, <3>3
      <4>2. QED
        BY <2>3, <3>3, <4>1
    <3>4. CASE s.to < from
      <4>1. \A r \in touching : s.to < r.from
        BY <2>1, <3>1, <3>2, <3>4
      <4>2. QED
        BY <2>2, <3>4, <4>1
    <3>5. QED
      BY <3>1, <3>3, <3>4
  <2>11. lo < hi
    BY <2>1, <2>2, <2>3, <2>9
  <2>12. QED
    BY <2>4, <2>5, <2>6, <2>8, <2>10, <2>11 DEF Merged
<1>3. QED
  BY <1>1, <1>2

(* Marking covers the steps of the range, and no other ones.               *)
THEOREM MarkedSteps ==
  ASSUME NEW T \in Nat, NEW covered \in SUBSET RangesUpTo(T), Merged(covered),
         NEW from \in 0..T, NEW to \in 0..T, from < to
  PROVE  Steps(MarkCovered(covered, from, to)) = Steps(covered) \cup (from..(to - 1))
<1> DEFINE lo == Low(covered, from, to)
           hi == High(covered, from, to)
           touching == Touching(covered, from, to)
           new == Interval(lo, hi)
           marked == MarkCovered(covered, from, to)
<1>1. /\ lo \in 0..T /\ lo <= from /\ \A r \in touching : lo <= r.from
      /\ lo = from \/ \E r \in touching : lo = r.from
  BY LowIs
<1>2. /\ hi \in 0..T /\ to <= hi /\ \A r \in touching : r.to <= hi
      /\ hi = to \/ \E r \in touching : hi = r.to
  BY HighIs
<1>3. new.from = lo /\ new.to = hi
  BY DEF Interval
<1>4. marked = (covered \ touching) \cup {new}
  BY MarkedIs
<1>5. \A r \in covered : /\ r.from \in Int /\ r.to \in Int /\ r.from < r.to
                         /\ r \in touching <=> (r.from <= to /\ from <= r.to)
  BY RangeFields DEF Merged, Touching
<1>6. touching \subseteq covered
  BY DEF Touching
<1>7. marked \in SUBSET RangesUpTo(T)
  BY MarkedType
<1>8. \A S \in SUBSET RangesUpTo(T) : \A m : m \in Steps(S) => m \in Int
  BY RangeFields DEF Steps
<1> HIDE DEF lo, hi, touching, new, marked
<1>9. ASSUME NEW m \in Int
      PROVE  m \in Steps(marked) <=> (m \in Steps(covered) \/ m \in from..(to - 1))
  <2>1. m \in Steps(marked) <=> (\/ \E r \in covered \ touching : r.from <= m /\ m < r.to
                                 \/ lo <= m /\ m < hi)
    BY <1>3, <1>4, <1>7, StepsAre
  <2>2. m \in Steps(covered) <=> \E r \in covered : r.from <= m /\ m < r.to
    BY StepsAre
  <2>3. ASSUME lo <= m, m < hi
        PROVE  m \in from..(to - 1) \/ \E r \in touching : r.from <= m /\ m < r.to
    <3>1. CASE m < from
      BY <1>1, <1>5, <1>6, <2>3, <3>1
    <3>2. CASE to <= m
      BY <1>2, <1>5, <1>6, <2>3, <3>2
    <3>3. QED
      BY <3>1, <3>2
  <2>4. m \in from..(to - 1) => lo <= m /\ m < hi
    BY <1>1, <1>2
  <2>5. \A r \in touching : r.from <= m /\ m < r.to => lo <= m /\ m < hi
    BY <1>1, <1>2, <1>5, <1>6
  <2>6. QED
    BY <1>6, <2>1, <2>2, <2>3, <2>4, <2>5
<1>10. QED
  BY <1>7, <1>8, <1>9 DEF marked

-----------------------------------------------------------------------------
(* Gaps *)

(* In a merged list, at most one interval holds a point or ends at it.     *)
LEMMA OnlyOneHolds ==
  ASSUME NEW T \in Nat, NEW covered \in SUBSET RangesUpTo(T), Merged(covered),
         NEW r \in covered, NEW s \in covered, NEW m \in Int,
         r.from <= m, m <= r.to, s.from <= m, m <= s.to
  PROVE  r = s
BY RangeFields DEF Merged

(* The cursor of OldestGap: the first step from "from" on not covered.     *)
OldestCursor(covered, from) ==
  Max({from} \cup {r.to : r \in {s \in covered : s.from <= from /\ from < s.to}})

LEMMA OldestCursorIs ==
  ASSUME NEW T \in Nat, NEW covered \in SUBSET RangesUpTo(T), Merged(covered),
         NEW from \in 0..T
  PROVE  LET c == OldestCursor(covered, from) IN
         /\ c \in 0..T /\ from <= c
         /\ \A m \in from..(c - 1) : m \in Steps(covered)
         /\ c \notin Steps(covered)
<1> DEFINE here == {r \in covered : r.from <= from /\ from < r.to}
           S == {from} \cup {r.to : r \in here}
           c == OldestCursor(covered, from)
<1>1. \A r \in covered : /\ r.from \in 0..T /\ r.to \in 0..T
                         /\ r.from \in Int /\ r.to \in Int /\ r.from < r.to
  BY RangeFields DEF Merged
<1>2. S \in SUBSET (0..T) /\ S # {}
  BY <1>1
<1>3. c \in S /\ \A n \in S : n <= c
  <2>1. 0 \in Int /\ T \in Int /\ c = Max(S)
    BY DEF OldestCursor
  <2> HIDE DEF S, c
  <2>2. QED
    BY <1>2, <2>1, MaxIs
<1> HIDE DEF c
<1>4. c \in 0..T /\ from <= c
  BY <1>2, <1>3
<1>5. CASE here = {}
  <2>1. c = from
    BY <1>3, <1>5
  <2>2. ~ \E r \in covered : r.from <= from /\ from < r.to
    BY <1>5
  <2>3. from \notin Steps(covered)
    BY <2>2, StepsAre
  <2>4. QED
    BY <1>4, <2>1, <2>3 DEF c
<1>6. CASE here # {}
  <2>1. PICK r \in here : TRUE
    BY <1>6
  <2>2. from < r.to /\ r.to <= c /\ r \in covered /\ r.from <= from
    BY <1>3, <2>1
  <2>3. PICK s \in here : c = s.to
    BY <1>1, <1>3, <2>2
  <2>4. s \in covered /\ s.from <= from /\ from < s.to
    BY <2>3
  <2>5. ASSUME NEW m \in from..(c - 1)
        PROVE  m \in Steps(covered)
    <3>1. m \in Int /\ s.from <= m /\ m < s.to
      BY <1>1, <1>4, <2>3, <2>4
    <3>2. QED
      BY <2>4, <3>1, StepsAre
  <2>6. ASSUME c \in Steps(covered)
        PROVE  FALSE
    <3>1. c \in Int
      BY <1>4
    <3>2. PICK q \in covered : q.from <= c /\ c < q.to
      BY <2>6, <3>1, StepsAre
    <3>3. s.from <= c /\ c <= s.to /\ c <= q.to
      BY <1>1, <1>4, <2>3, <2>4, <3>2
    <3>4. s = q
      BY <2>4, <3>1, <3>2, <3>3, OnlyOneHolds
    <3>5. QED
      BY <1>1, <2>3, <2>4, <3>2, <3>4
  <2>7. QED
    BY <1>4, <2>5, <2>6 DEF c
<1>7. QED
  BY <1>5, <1>6

(* OldestGap is missing from end to end, and everything before it is       *)
(* covered.                                                                *)
THEOREM OldestGapIs ==
  ASSUME NEW T \in Nat, NEW covered \in SUBSET RangesUpTo(T), Merged(covered),
         NEW from \in 0..T, NEW to \in 0..T
  PROVE  LET g == OldestGap(covered, from, to) IN
         IF IsGap(g)
           THEN /\ g \in RangesUpTo(T) /\ from <= g.from /\ g.to <= to
                /\ from..(g.from - 1) \subseteq Steps(covered)
                /\ (g.from..(g.to - 1)) \cap Steps(covered) = {}
           ELSE g = NoGap /\ from..(to - 1) \subseteq Steps(covered)
<1> DEFINE g == OldestGap(covered, from, to)
           c == OldestCursor(covered, from)
           later == {s \in covered : s.from > c}
           E == {to} \cup {r.from : r \in later}
           end == Min(E)
<1>1. /\ c \in 0..T /\ from <= c
      /\ \A m \in from..(c - 1) : m \in Steps(covered)
      /\ c \notin Steps(covered)
  BY OldestCursorIs
<1>2. g = IF c < to THEN Interval(c, end) ELSE NoGap
  BY DEF OldestGap, OldestCursor
<1>3. \A r \in covered : r.from \in 0..T /\ r.to \in 0..T /\ r.from \in Int /\ r.to \in Int
  BY RangeFields
<1>4. E \in SUBSET (0..T) /\ E # {}
  BY <1>3
<1>5. end \in E /\ \A n \in E : end <= n
  <2> HIDE DEF E
  <2>1. 0 \in Int /\ T \in Int
    OBVIOUS
  <2>2. QED
    BY <1>4, <2>1, MinIs
<1> HIDE DEF c, end, g
<1>6. CASE c < to
  <2>1. end \in 0..T /\ end <= to /\ c < end
    <3>1. \A n \in E : c < n
      BY <1>6
    <3> HIDE DEF E
    <3>2. to \in E
      BY DEF E
    <3>3. QED
      BY <1>4, <1>5, <3>1, <3>2
  <2>2. g = [from |-> c, to |-> end] /\ IsGap(g)
    BY <1>1, <1>2, <1>6, <2>1 DEF Interval, IsGap
  <2>3. ASSUME NEW m \in c..(end - 1), m \in Steps(covered)
        PROVE  FALSE
    <3>1. m \in Int /\ c <= m /\ m < end /\ c \in Int
      BY <1>1, <2>1
    <3>2. PICK s \in covered : s.from <= m /\ m < s.to
      BY <2>3, <3>1, StepsAre
    <3>3. ~(s.from > c)
      <4>1. s.from > c => s.from \in E
        OBVIOUS
      <4> HIDE DEF E
      <4>2. s.from > c => end <= s.from
        BY <1>5, <4>1
      <4>3. QED
        BY <1>3, <2>1, <3>1, <3>2, <4>2
    <3>4. s.from <= c /\ c < s.to
      BY <1>3, <3>1, <3>2, <3>3
    <3>5. QED
      BY <1>1, <3>1, <3>4, StepsAre
  <2>4. g \in RangesUpTo(T)
    BY <1>1, <2>1, <2>2 DEF RangesUpTo
  <2>5. QED
    BY <1>1, <2>1, <2>2, <2>3, <2>4 DEF g
<1>7. CASE ~(c < to)
  <2>1. g = NoGap /\ ~IsGap(g)
    BY <1>2, <1>7 DEF NoGap, Interval, IsGap
  <2>2. from..(to - 1) \subseteq from..(c - 1)
    BY <1>1, <1>7
  <2>3. QED
    BY <1>1, <2>1, <2>2 DEF g
<1>8. QED
  BY <1>6, <1>7

(* The cursor of NewestGap: what comes right before it is not covered.     *)
NewestCursor(covered, to) ==
  Min({to} \cup {r.from : r \in {s \in covered : s.from < to /\ to <= s.to}})

LEMMA NewestCursorIs ==
  ASSUME NEW T \in Nat, NEW covered \in SUBSET RangesUpTo(T), Merged(covered),
         NEW to \in 0..T
  PROVE  LET c == NewestCursor(covered, to) IN
         /\ c \in 0..T /\ c <= to
         /\ \A m \in c..(to - 1) : m \in Steps(covered)
         /\ c - 1 \notin Steps(covered)
<1> DEFINE here == {r \in covered : r.from < to /\ to <= r.to}
           S == {to} \cup {r.from : r \in here}
           c == NewestCursor(covered, to)
<1>1. \A r \in covered : /\ r.from \in 0..T /\ r.to \in 0..T
                         /\ r.from \in Int /\ r.to \in Int /\ r.from < r.to
  BY RangeFields DEF Merged
<1>2. S \in SUBSET (0..T) /\ S # {}
  BY <1>1
<1>3. c \in S /\ \A n \in S : c <= n
  <2>1. 0 \in Int /\ T \in Int /\ c = Min(S)
    BY DEF NewestCursor
  <2> HIDE DEF S, c
  <2>2. QED
    BY <1>2, <2>1, MinIs
<1> HIDE DEF c
<1>4. c \in 0..T /\ c <= to /\ c - 1 \in Int
  BY <1>2, <1>3
<1>5. CASE here = {}
  <2>1. c = to
    BY <1>3, <1>5
  <2>2. ~ \E r \in covered : r.from < to /\ to <= r.to
    BY <1>5
  <2>3. ~ \E r \in covered : r.from <= c - 1 /\ c - 1 < r.to
    BY <1>1, <1>4, <2>1, <2>2
  <2>4. c - 1 \notin Steps(covered)
    BY <1>4, <2>3, StepsAre
  <2>5. QED
    BY <1>4, <2>1, <2>4 DEF c
<1>6. CASE here # {}
  <2>1. PICK r \in here : TRUE
    BY <1>6
  <2>2. r.from < to /\ c <= r.from /\ r \in covered
    BY <1>3, <2>1
  <2>3. PICK s \in here : c = s.from
    BY <1>1, <1>3, <2>2
  <2>4. s \in covered /\ s.from < to /\ to <= s.to
    BY <2>3
  <2>5. ASSUME NEW m \in c..(to - 1)
        PROVE  m \in Steps(covered)
    <3>1. m \in Int /\ s.from <= m /\ m < s.to
      BY <1>1, <1>4, <2>3, <2>4
    <3>2. QED
      BY <2>4, <3>1, StepsAre
  <2>6. ASSUME c - 1 \in Steps(covered)
        PROVE  FALSE
    <3>1. PICK q \in covered : q.from <= c - 1 /\ c - 1 < q.to
      BY <1>4, <2>6, StepsAre
    <3>2. /\ c \in Int /\ s.from <= c /\ c <= s.to /\ q.from <= c /\ c <= q.to
      BY <1>1, <1>4, <2>3, <2>4, <3>1
    <3>3. s = q
      BY <2>4, <3>1, <3>2, OnlyOneHolds
    <3>4. QED
      BY <1>1, <1>4, <2>3, <2>4, <3>1, <3>3
  <2>7. QED
    BY <1>4, <2>5, <2>6 DEF c
<1>7. QED
  BY <1>5, <1>6

(* NewestGap is missing from end to end, and everything after it is        *)
(* covered.                                                                *)
THEOREM NewestGapIs ==
  ASSUME NEW T \in Nat, NEW covered \in SUBSET RangesUpTo(T), Merged(covered),
         NEW from \in 0..T, NEW to \in 0..T
  PROVE  LET g == NewestGap(covered, from, to) IN
         IF IsGap(g)
           THEN /\ g \in RangesUpTo(T) /\ from <= g.from /\ g.to <= to
                /\ g.to..(to - 1) \subseteq Steps(covered)
                /\ (g.from..(g.to - 1)) \cap Steps(covered) = {}
           ELSE from..(to - 1) \subseteq Steps(covered)
<1> DEFINE g == NewestGap(covered, from, to)
           c == NewestCursor(covered, to)
           earlier == {s \in covered : s.to < c}
           B == {from} \cup {r.to : r \in earlier}
           begin == Max(B)
<1>1. /\ c \in 0..T /\ c <= to
      /\ \A m \in c..(to - 1) : m \in Steps(covered)
      /\ c - 1 \notin Steps(covered)
  BY NewestCursorIs
<1>2. g = IF from < c THEN Interval(begin, c) ELSE NoGap
  BY DEF NewestGap, NewestCursor
<1>3. \A r \in covered : r.from \in 0..T /\ r.to \in 0..T /\ r.from \in Int /\ r.to \in Int
  BY RangeFields
<1>4. B \in SUBSET (0..T) /\ B # {}
  BY <1>3
<1>5. begin \in B /\ \A n \in B : n <= begin
  <2> HIDE DEF B
  <2>1. 0 \in Int /\ T \in Int
    OBVIOUS
  <2>2. QED
    BY <1>4, <2>1, MaxIs
<1> HIDE DEF c, begin, g
<1>6. CASE from < c
  <2>1. begin \in 0..T /\ from <= begin /\ begin < c
    <3>1. \A n \in B : n < c
      BY <1>6
    <3>2. from \in B
      OBVIOUS
    <3> HIDE DEF B
    <3>3. QED
      BY <1>4, <1>5, <3>1, <3>2
  <2>2. g = [from |-> begin, to |-> c] /\ IsGap(g)
    BY <1>1, <1>2, <1>6, <2>1 DEF Interval, IsGap
  <2>3. ASSUME NEW m \in begin..(c - 1), m \in Steps(covered)
        PROVE  FALSE
    <3>1. m \in Int /\ begin <= m /\ m < c /\ c \in Int
      BY <1>1, <2>1
    <3>2. PICK s \in covered : s.from <= m /\ m < s.to
      BY <2>3, <3>1, StepsAre
    <3>3. ~(s.to < c)
      <4>1. s.to < c => s.to \in B
        OBVIOUS
      <4> HIDE DEF B
      <4>2. s.to < c => s.to <= begin
        BY <1>5, <4>1
      <4>3. QED
        BY <1>3, <2>1, <3>1, <3>2, <4>2
    <3>4. s.from <= c - 1 /\ c - 1 < s.to /\ c - 1 \in Int
      BY <1>3, <3>1, <3>2, <3>3
    <3>5. QED
      BY <1>1, <3>4, StepsAre
  <2>4. g \in RangesUpTo(T)
    BY <1>1, <2>1, <2>2 DEF RangesUpTo
  <2>5. QED
    BY <1>1, <2>1, <2>2, <2>3, <2>4 DEF g
<1>7. CASE ~(from < c)
  <2>1. g = NoGap /\ ~IsGap(g)
    BY <1>2, <1>7 DEF NoGap, Interval, IsGap
  <2>2. from..(to - 1) \subseteq c..(to - 1)
    BY <1>1, <1>7
  <2>3. QED
    BY <1>1, <2>1, <2>2 DEF g
<1>8. QED
  BY <1>6, <1>7

(* The gap that is chosen is missing, and none is chosen only when nothing *)
(* is missing.                                                             *)
THEOREM SelectedGapIs ==
  ASSUME NEW T \in Nat, NEW covered \in SUBSET RangesUpTo(T), Merged(covered),
         NEW from \in 0..T, NEW to \in 0..T, NEW liveTail
  PROVE  LET g == SelectGap(covered, from, to, liveTail) IN
         IF IsGap(g)
           THEN /\ g \in RangesUpTo(T) /\ from <= g.from /\ g.to <= to
                /\ (g.from..(g.to - 1)) \cap Steps(covered) = {}
           ELSE from..(to - 1) \subseteq Steps(covered)
<1> DEFINE g == SelectGap(covered, from, to, liveTail)
           newest == NewestGap(covered, from, to)
           oldest == OldestGap(covered, from, to)
<1>1. \/ g = oldest /\ IsGap(oldest)
      \/ g = newest
  BY DEF SelectGap
<1>2. CASE g = newest
  <2>1. QED
    BY <1>2, NewestGapIs
<1>3. CASE g = oldest /\ IsGap(oldest)
  <2>1. QED
    BY <1>3, OldestGapIs
<1>4. QED
  BY <1>1, <1>2, <1>3

(* The chunk that one worker gets is the newest part of its gap.           *)
LEMMA ChunkIs ==
  ASSUME NEW T \in Nat, NEW g \in RangesUpTo(T), IsGap(g), NEW length \in Nat \ {0}
  PROVE  LET c == Chunk(g, length) IN
         /\ c \in RangesUpTo(T) /\ IsGap(c)
         /\ g.from <= c.from /\ c.to = g.to
<1> DEFINE S == {g.from, g.to - length}
           m == Max(S)
<1>1. /\ g.from \in 0..T /\ g.to \in 0..T /\ g.from < g.to
      /\ T \in Int /\ length \in Int
  BY DEF RangesUpTo, IsGap
<1>2. S \in SUBSET ((-length)..T) /\ S # {} /\ -length \in Int
  BY <1>1
<1>3. m \in S /\ \A n \in S : n <= m
  <2> HIDE DEF S
  <2>1. QED
    BY <1>1, <1>2, MaxIs
<1>4. m \in 0..T /\ g.from <= m /\ m < g.to
  <2>1. m = g.from \/ m = g.to - length
    BY <1>3
  <2>2. g.from <= m
    BY <1>3
  <2> HIDE DEF m
  <2>3. QED
    BY <1>1, <2>1, <2>2
<1>5. Chunk(g, length) = [from |-> m, to |-> g.to]
  BY DEF Chunk, Interval
<1> HIDE DEF m
<1>6. QED
  BY <1>1, <1>4, <1>5 DEF RangesUpTo, IsGap
=============================================================================
