------------------------------ MODULE SeekCache ------------------------------
(***************************************************************************)
(* The per-stream tables of src/demuxer.rs's `SeekCache` and the two       *)
(* searches over them.  A table is a sequence in index order; a search     *)
(* bisects it when it is in order and otherwise scans it.                  *)
(***************************************************************************)
EXTENDS Integers, Sequences, SequencesExt

None == [pts |-> -1, off |-> -1]      \* Option::None

\* Vec::is_sorted, as the cache records it while a table is built.
NonDecreasing(s) == \A i \in 2 .. Len(s) : s[i - 1] <= s[i]

\* slice::partition_point over a slice whose elements that satisfy the
\* predicate come first: their number.
PartitionPoint(s, Test(_)) == Cardinality({i \in DOMAIN s : Test(s[i])})

\* The numbers of S from the least up.
InOrder(S) ==
  [i \in 1 .. Cardinality(S) |-> CHOOSE n \in S : Cardinality({k \in S : k < n}) = i - 1]

\* The elements of s that pass the test, in the order of s.
Kept(s, Test(_)) ==
  LET own == InOrder({i \in DOMAIN s : Test(s[i])}) IN [n \in DOMAIN own |-> s[own[n]]]

-----------------------------------------------------------------------------
(* seek_cache_select_keyframe                                              *)

\* The table in order: bisect, then back up to the start of the equal-pts run.
Bisect(keyframes, target) ==
  LET p == PartitionPoint(keyframes, LAMBDA k : k.pts <= target)
      best == keyframes[p].pts
  IN IF p = 0 THEN keyframes[1]
     ELSE keyframes[CHOOSE i \in 1 .. p :
            /\ \A j \in i .. p : keyframes[j].pts = best
            /\ i > 1 => keyframes[i - 1].pts # best]

\* The table out of order: keep the first maximum of the entries that qualify.
Scan(keyframes, target) ==
  LET better(best, k) ==
        IF k.pts <= target /\ (best = None \/ best.pts < k.pts) THEN k ELSE best
      found == FoldLeft(better, None, keyframes)
  IN IF found = None THEN keyframes[1] ELSE found

SelectKeyframe(keyframes, target) ==
  IF keyframes = <<>> THEN None
  ELSE IF NonDecreasing([i \in DOMAIN keyframes |-> keyframes[i].pts])
       THEN Bisect(keyframes, target)
       ELSE Scan(keyframes, target)

-----------------------------------------------------------------------------
(* The counters after a seek                                               *)

Offsets(entries) == [i \in DOMAIN entries |-> entries[i].off]
OfStream(entries, t) == Kept(entries, LAMBDA e : e.trk = t)

\* Mutant: entries strictly before the landing point only.
ResetBefore(entries, t, target_off) ==
  LET own == OfStream(entries, t)
      p == PartitionPoint(own, LAMBDA e : e.off < target_off)
  IN IF p = 0 THEN 0 ELSE own[p].pts

\* idx1 in order: the stream's latest entry at or before the landing point.
ResetByBisection(entries, t, target_off) ==
  LET own == OfStream(entries, t)
      p == PartitionPoint(own, LAMBDA e : e.off <= target_off)
  IN IF p = 0 THEN 0 ELSE own[p].pts

\* idx1 out of order: walk the table and stop at the first entry past it.
ResetByWalk(entries, t, target_off) ==
  LET past == SelectInSeq(entries, LAMBDA e : e.off > target_off)
      walked == IF past = 0 THEN entries ELSE SubSeq(entries, 1, past - 1)
      own == OfStream(walked, t)
  IN IF own = <<>> THEN 0 ELSE Last(own).pts

\* Mutant: a stream without an entry keeps the sign of None.
Idx1CounterUnset(entries, t, target_off) ==
  IF \E i \in DOMAIN entries : entries[i].trk = t /\ entries[i].off <= target_off
  THEN ResetByBisection(entries, t, target_off) ELSE -1

\* The counter reset of seek_to.
Idx1Counter(entries, t, target_off) ==
  IF NonDecreasing(Offsets(entries))
  THEN ResetByBisection(entries, t, target_off)
  ELSE ResetByWalk(entries, t, target_off)

\* The counter reset of seek_via_std_indexes over the entries of one stream:
\* bisection in order, the last entry that qualifies otherwise.
StdCounter(own, target_off) ==
  LET p == PartitionPoint(own, LAMBDA e : e.off <= target_off)
      last == SelectLastInSeq(own, LAMBDA e : e.off <= target_off)
      i == IF NonDecreasing(Offsets(own)) THEN p ELSE last
  IN IF i = 0 THEN 0 ELSE own[i].pts

=============================================================================
