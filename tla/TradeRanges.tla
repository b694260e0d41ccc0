----------------------------- MODULE TradeRanges -----------------------------
(***************************************************************************)
(* Arithmetic on the list of covered trade ranges of a chart               *)
(* (KlineChart.covered_trade_ranges in src/chart/kline.rs).  The code      *)
(* keeps it sorted and merged; here it is the set of its intervals.  The   *)
(* loops of the code that walk the sorted list become "the interval that   *)
(* holds the cursor" and "the nearest interval after it".                  *)
(***************************************************************************)
EXTENDS Integers, FiniteSetsExt

Interval(from, to) == [from |-> from, to |-> to]

NoGap == Interval(0, 0)

IsGap(gap) == gap.from < gap.to

(* Mutant: ranges that meet at one point are not merged.                   *)
MutantTouching(covered, from, to) == {r \in covered : r.from < to /\ from < r.to}

(* mark_trade_range_covered: an interval absorbs every one it touches.     *)
Touching(covered, from, to) == {r \in covered : r.from <= to /\ from <= r.to}

MarkCovered(covered, from, to) ==
  LET touching == Touching(covered, from, to)
  IN  IF to <= from THEN covered
      ELSE (covered \ touching) \cup
             {Interval(Min({from} \cup {r.from : r \in touching}),
                       Max({to} \cup {r.to : r \in touching}))}

(* subtract_covered_ranges: the oldest part of from..to not yet covered.   *)
OldestGap(covered, from, to) ==
  LET here   == {r \in covered : r.from <= from /\ from < r.to}
      cursor == Max({from} \cup {r.to : r \in here})
      end    == Min({to} \cup {r.from : r \in {s \in covered : s.from > cursor}})
  IN  IF cursor < to THEN Interval(cursor, end) ELSE NoGap

(* subtract_covered_ranges_latest: the newest one.                         *)
NewestGap(covered, from, to) ==
  LET here   == {r \in covered : r.from < to /\ to <= r.to}
      cursor == Min({to} \cup {r.from : r \in here})
      begin  == Max({from} \cup {r.to : r \in {s \in covered : s.to < cursor}})
  IN  IF from < cursor THEN Interval(begin, cursor) ELSE NoGap

(* select_trade_fetch_gap: newest first, except that a short tail at the   *)
(* live edge lets an older gap go first.                                   *)
SelectGap(covered, from, to, liveTail) ==
  LET newest == NewestGap(covered, from, to)
      oldest == OldestGap(covered, from, to)
  IN  IF newest.to = to /\ newest.to - newest.from <= liveTail /\ IsGap(oldest)
      THEN oldest
      ELSE newest

(* The newest part of a gap that one worker may download.                  *)
Chunk(gap, length) ==
  Interval(Max({gap.from, gap.to - length}), gap.to)

-----------------------------------------------------------------------------
(* Reference: the unit steps p..p+1 of the time line that are covered.     *)
Steps(covered) == UNION {r.from..(r.to - 1) : r \in covered}

(* No two intervals of a merged list touch.                                *)
Merged(covered) ==
  /\ \A r \in covered : r.from < r.to
  /\ \A r, s \in covered : r # s => r.to < s.from \/ s.to < r.from
=============================================================================
