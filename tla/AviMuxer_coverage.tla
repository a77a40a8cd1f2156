-------------------------- MODULE AviMuxer_coverage --------------------------
(***************************************************************************)
(* That the standard indexes of a finished OpenDML file list every chunk   *)
(* exactly once and that the spans of the ix## records add up, for a       *)
(* caller who stops at the first failure: EveryChunkIndexedOnce and        *)
(* SpansAddUp.                                                             *)
(*                                                                         *)
(* A chunk gets its entry when it is placed (Entered); a flush moves the   *)
(* entries of a stream from memory into an ix## chunk and its span into a  *)
(* record (FlushedInto).  The one chunk that gets no entry stands so far   *)
(* into its segment that the segment cannot be closed (Doomed, in          *)
(* AviMuxer_discipline), so that Covering never speaks of a file that ends *)
(* in Ok without it.                                                       *)
(***************************************************************************)
EXTENDS AviMuxer_discipline

-----------------------------------------------------------------------------
(* Sums over a sequence                                                    *)

\* h gives every subset of S the sum of f over it: whichever element is taken
\* out, the sum is less by its value.
Additive(h, f, S) ==
  /\ h \in [SUBSET S -> Int]
  /\ h[{}] = 0
  /\ \A T \in SUBSET S : \A x \in T : h[T] = f[x] + h[T \ {x}]

\* The recursive function in SumFunction, which takes elements out by CHOOSE.
IsSum(g, f, S) ==
  g = [T \in SUBSET S |-> IF T = {} THEN 0
                          ELSE LET x == CHOOSE x \in T : TRUE
                               IN f[x] + g[T \ {x}]]

LEMMA SumFunctionIs ==
  ASSUME NEW f
  PROVE  SumFunction(f) = (CHOOSE g : IsSum(g, f, DOMAIN f))[DOMAIN f]
BY Zenon DEF SumFunction, SumFunctionOnSet, FoldFunctionOnSet, MapThenFoldSet, IsSum

\* A function on 1 .. n has sums, by induction on n.
LEMMA SumExists ==
  ASSUME NEW f, NEW n \in Nat, \A i \in 1 .. n : f[i] \in Int
  PROVE  \E h : Additive(h, f, 1 .. n)
<1> DEFINE Bad == {k \in 0 .. n : ~ \E h : Additive(h, f, 1 .. k)}
<1>1. Bad = {}
  <2> SUFFICES ASSUME Bad # {} PROVE FALSE
    OBVIOUS
  <2>1. PICK k \in Bad : \A j \in Bad : k <= j
    <3>1. Bad \subseteq Nat OBVIOUS
    <3> HIDE DEF Bad
    <3> QED BY <3>1, NatLeast
  <2>2. k # 0
    <3> DEFINE z == [T \in SUBSET (1 .. 0) |-> 0]
    <3>1. Additive(z, f, 1 .. 0)
      <4>1. 1 .. 0 = {} OBVIOUS
      <4>2. z \in [SUBSET (1 .. 0) -> Int] OBVIOUS
      <4>3. z[{}] = 0 OBVIOUS
      <4>4. \A T \in SUBSET (1 .. 0) : T = {} BY <4>1
      <4> HIDE DEF z
      <4> QED BY <4>2, <4>3, <4>4 DEF Additive
    <3> QED BY <3>1
  <2>3. k - 1 \in 0 .. n /\ k \in 1 .. n /\ ~(k <= k - 1) BY <2>2
  <2> DEFINE S == 1 .. k - 1
             U == 1 .. k
  <2>4. PICK h : Additive(h, f, S) BY <2>1, <2>3
  <2>5. U = S \cup {k} /\ k \notin S /\ f[k] \in Int /\ \A i \in U : f[i] \in Int
    BY <2>3
  <2> DEFINE e == [T \in SUBSET U |-> IF k \in T THEN f[k] + h[T \ {k}] ELSE h[T]]
  <2>6. Additive(e, f, U)
    <3> HIDE DEF S, U
    <3>1. \A T \in SUBSET U : T \ {k} \in SUBSET S /\ (k \notin T => T \in SUBSET S)
      BY <2>5
    <3>2. \A T \in SUBSET S : h[T] \in Int BY <2>4 DEF Additive
    <3>3. e \in [SUBSET U -> Int] BY <2>5, <3>1, <3>2
    <3>4. e[{}] = 0 BY <2>4 DEF Additive
    <3>5. ASSUME NEW T \in SUBSET U, NEW x \in T
          PROVE  e[T] = f[x] + e[T \ {x}]
      <4>1. T \ {x} \in SUBSET U OBVIOUS
      <4>2. CASE x = k
        <5>1. k \notin T \ {x} /\ T \ {x} = T \ {k} BY <4>2
        <5> QED BY <4>1, <4>2, <5>1
      <4>3. CASE x # k /\ k \notin T
        <5>1. T \in SUBSET S /\ k \notin T \ {x} BY <3>1, <4>3
        <5>2. h[T] = f[x] + h[T \ {x}] BY <2>4, <5>1 DEF Additive
        <5> QED BY <4>1, <4>3, <5>1, <5>2
      <4>4. CASE x # k /\ k \in T
        <5> DEFINE V == T \ {k}
        <5>1. V \in SUBSET S /\ x \in V /\ V \ {x} \in SUBSET S BY <3>1, <4>4
        <5>2. (T \ {x}) \ {k} = V \ {x} /\ k \in T \ {x} BY <4>4
        <5> HIDE DEF V
        <5>3. h[V] = f[x] + h[V \ {x}] BY <2>4, <5>1 DEF Additive
        <5>4. e[T] = f[k] + h[V] BY <4>4 DEF V
        <5>5. e[T \ {x}] = f[k] + h[V \ {x}] BY <4>1, <5>2
        <5>6. f[x] \in Int /\ f[k] \in Int /\ h[V \ {x}] \in Int /\ h[V] \in Int
          BY <2>5, <3>2, <5>1
        <5> HIDE DEF e
        <5> QED BY <5>3, <5>4, <5>5, <5>6
      <4> QED BY <4>2, <4>3, <4>4
    <3> HIDE DEF e
    <3> QED BY <3>3, <3>4, <3>5 DEF Additive
  <2> QED BY <2>1, <2>6
<1> QED BY <1>1

\* An additive function is the recursive function of SumFunction.
LEMMA SumIs ==
  ASSUME NEW f, NEW n \in Nat, DOMAIN f = 1 .. n, NEW h, Additive(h, f, 1 .. n)
  PROVE  SumFunction(f) = h[1 .. n]
<1> DEFINE S == 1 .. n
           G == CHOOSE g : IsSum(g, f, S)
<1>1. SumFunction(f) = G[S] BY SumFunctionIs
<1>2. IsSum(h, f, S)
  <2>1. h = [T \in SUBSET S |-> h[T]] BY DEF Additive
  <2>2. ASSUME NEW T \in SUBSET S
        PROVE  h[T] = IF T = {} THEN 0 ELSE LET x == CHOOSE x \in T : TRUE
                                            IN f[x] + h[T \ {x}]
    BY DEF Additive
  <2> HIDE DEF S
  <2> QED BY <2>1, <2>2 DEF IsSum
<1>3. IsSum(G, f, S) BY <1>2
<1>4. IsFiniteSet(S)
  <2>1. 1 \in Int /\ n \in Int OBVIOUS
  <2> QED BY <2>1, FS_Interval
<1> HIDE DEF S, G
<1>8. \A T \in SUBSET S : IsFiniteSet(T) BY <1>4, FS_Subset
<1>9. \A T \in SUBSET S : Cardinality(T) \in Nat BY <1>8, FS_CardinalityType
<1> DEFINE Bad == {c \in Nat : \E T \in SUBSET S : Cardinality(T) = c /\ G[T] # h[T]}
<1>5. Bad = {}
  <2> SUFFICES ASSUME Bad # {} PROVE FALSE
    OBVIOUS
  <2>1. PICK c \in Bad : \A j \in Bad : c <= j
    <3>1. Bad \subseteq Nat OBVIOUS
    <3> HIDE DEF Bad
    <3> QED BY <3>1, NatLeast
  <2>2. PICK T \in SUBSET S : Cardinality(T) = c /\ G[T] # h[T] BY <2>1
  <2>3. T # {} BY <1>2, <1>3, <2>2 DEF IsSum
  <2> DEFINE x == CHOOSE x \in T : TRUE
  <2>4. x \in T BY <2>3
  <2>5. G[T] = f[x] + G[T \ {x}] /\ h[T] = f[x] + h[T \ {x}]
    BY <1>2, <1>3, <2>3 DEF IsSum
  <2> HIDE DEF x
  <2>6. T \ {x} \in SUBSET S /\ Cardinality(T \ {x}) = c - 1
    BY <1>8, <2>2, <2>4, FS_RemoveElement
  <2>7. c - 1 \in Nat /\ ~(c <= c - 1)
    <3>1. c - 1 \in Nat BY <1>9, <2>6
    <3> QED BY <3>1
  <2>8. G[T \ {x}] = h[T \ {x}] BY <2>1, <2>6, <2>7
  <2> QED BY <2>2, <2>5, <2>8
<1>6. S \in SUBSET S OBVIOUS
<1>7. G[S] = h[S] BY <1>9, <1>5, <1>6
<1> QED BY <1>1, <1>7 DEF S

\* The sum of one more value.
LEMMA SumMore ==
  ASSUME NEW f, NEW g, NEW n \in Nat, DOMAIN f = 1 .. n, DOMAIN g = 1 .. n + 1,
         \A i \in 1 .. n + 1 : g[i] \in Int, \A i \in 1 .. n : f[i] = g[i]
  PROVE  SumFunction(g) = SumFunction(f) + g[n + 1] /\ SumFunction(f) \in Int
<1> DEFINE S == 1 .. n
           U == 1 .. n + 1
<1>1. PICK h : Additive(h, g, U)
  BY SumExists
<1>2. SumFunction(g) = h[U] BY <1>1, SumIs
<1>3. U = S \cup {n + 1} /\ n + 1 \notin S /\ g[n + 1] \in Int /\ U \ {n + 1} = S
  OBVIOUS
<1> DEFINE r == [T \in SUBSET S |-> h[T]]
<1>4. Additive(r, f, S)
  <2>1. \A T \in SUBSET S : T \in SUBSET U /\ \A x \in T : x \in S /\ T \ {x} \in SUBSET S
    BY <1>3
  <2>2. \A x \in S : f[x] = g[x] OBVIOUS
  <2> HIDE DEF S, U
  <2>3. \A T \in SUBSET S : h[T] \in Int BY <1>1, <2>1 DEF Additive
  <2>4. r \in [SUBSET S -> Int] BY <2>3
  <2>5. r[{}] = 0 BY <1>1 DEF Additive
  <2>6. ASSUME NEW T \in SUBSET S, NEW x \in T PROVE r[T] = f[x] + r[T \ {x}]
    <3>1. h[T] = g[x] + h[T \ {x}] BY <1>1, <2>1 DEF Additive
    <3> QED BY <2>1, <2>2, <3>1
  <2> HIDE DEF r
  <2> QED BY <2>4, <2>5, <2>6 DEF Additive
<1>5. SumFunction(f) = r[S] BY <1>4, SumIs
<1>6. S \in SUBSET S /\ S \in SUBSET U /\ U \in SUBSET U /\ n + 1 \in U BY <1>3
<1> HIDE DEF S, U
<1>7. h[U] = g[n + 1] + h[S]
  <2> DEFINE x == n + 1
  <2>1. U \in SUBSET U /\ x \in U /\ U \ {x} = S BY <1>3, <1>6
  <2> HIDE DEF x
  <2>2. h[U] = g[x] + h[U \ {x}] BY <1>1, <2>1 DEF Additive
  <2> QED BY <2>1, <2>2 DEF x
<1>8. h[S] \in Int BY <1>1, <1>6 DEF Additive
<1>9. r[S] = h[S] BY <1>6
<1> QED BY <1>2, <1>3, <1>5, <1>7, <1>8, <1>9

\* The sum of no values.
LEMMA SumNone ==
  ASSUME NEW f, DOMAIN f = {}
  PROVE  SumFunction(f) = 0
<1>1. 1 .. 0 = {} /\ \A i \in 1 .. 0 : f[i] \in Int OBVIOUS
<1>2. PICK h : Additive(h, f, 1 .. 0) BY <1>1, SumExists
<1>3. SumFunction(f) = h[1 .. 0] BY <1>1, <1>2, SumIs
<1> QED BY <1>1, <1>2, <1>3 DEF Additive

-----------------------------------------------------------------------------
(* The invariant                                                           *)

IxIds == MediaIds \cup {"ix"}

Media(s, t) == {at \in DOMAIN s.disk : s.disk[at].id \in MediaIds /\ s.disk[at].trk = t}
IxChunksOf(s, t) == {at \in DOMAIN s.disk : s.disk[at].id = "ix" /\ s.disk[at].trk = t}

\* The header that entry i of the ix## chunk at x leads to.
Leads(s, x, i) == IxTarget(s.disk[x].base, s.disk[x].ents[i])

\* No two entries of stream t lead to the same chunk; ents, with the base b,
\* are those that are in no ix## chunk.
Once(s, t, b, ents) ==
  /\ \A i \in DOMAIN ents : \A j \in DOMAIN ents :
       IxTarget(b, ents[i]) = IxTarget(b, ents[j]) => i = j
  /\ \A x \in IxChunksOf(s, t) : \A i \in DOMAIN s.disk[x].ents :
       /\ \A j \in DOMAIN ents : Leads(s, x, i) # IxTarget(b, ents[j])
       /\ \A y \in IxChunksOf(s, t) : \A j \in DOMAIN s.disk[y].ents :
            Leads(s, x, i) = Leads(s, y, j) => x = y /\ i = j

\* Entry i of ents leads to the chunk at offset at, or one of an ix## chunk.
Reached(s, t, b, ents, at) ==
  \/ \E i \in DOMAIN ents : IxTarget(b, ents[i]) = at
  \/ \E x \in IxChunksOf(s, t) : \E i \in DOMAIN s.disk[x].ents : Leads(s, x, i) = at

Pending(s, t) == s.tracks[t].ix_entries

\* Every chunk has an entry, and a stream with no entry pending has its samples
\* in the records of its ix## chunks.
Covered(s) ==
  \A t \in Streams :
    /\ Pending(s, t) = <<>> => s.tracks[t].ticks_at_last_ix_flush = s.tracks[t].sample_count
    /\ \A at \in Media(s, t) : Reached(s, t, QwBase(s), Pending(s, t), at)

Durations(k) == [i \in DOMAIN k.ix_chunk_records |-> k.ix_chunk_records[i].dur]

\* The invariant: the records of a stream span the samples flushed so far,
\* entries are never doubled, the compact layout never has more than fit, and
\* no chunk is missed in a segment that can still be closed.
Covering(s) ==
  /\ s.riff_size_off <= s.movi_size_off
  /\ \A t \in Streams :
       /\ SumFunction(Durations(s.tracks[t])) = s.tracks[t].ticks_at_last_ix_flush
       /\ Once(s, t, QwBase(s), Pending(s, t))
       /\ s.strl_std_active => Len(Pending(s, t)) <= opts.strl_std
  /\ \A t \in Streams : s.tracks[t].indx.kind = "none"
  /\ OpenDml => Covered(s) \/ Doomed(s)

-----------------------------------------------------------------------------
(* Steps that write neither an indexed chunk nor an index                  *)

\* The indexed chunks and the index chunks are the same before and after.
SameIx(s, w) ==
  /\ \A at \in DOMAIN w.disk : w.disk[at].id \in IxIds =>
       at \in DOMAIN s.disk /\ w.disk[at] = s.disk[at]
  /\ \A at \in DOMAIN s.disk : s.disk[at].id \in IxIds =>
       at \in DOMAIN w.disk /\ w.disk[at] = s.disk[at]

LEMMA WritesSameIx ==
  ASSUME NEW s, NEW w, NEW heads, NEW ids, Writes(s, w, heads, ids),
         ids \cap IxIds = {},
         \A at \in heads : at \in DOMAIN s.disk => s.disk[at].id \notin IxIds
  PROVE  SameIx(s, w)
BY DEF Writes, Resized, SameIx

LEMMA SameIxTrans ==
  ASSUME NEW s, NEW v, NEW w, SameIx(s, v), SameIx(v, w)
  PROVE  SameIx(s, w)
BY DEF SameIx

\* Such a step leaves what Once and Reached say of the chunks alone.
LEMMA SameIxFacts ==
  ASSUME NEW s, NEW w, SameIx(s, w), NEW t
  PROVE  /\ Media(w, t) = Media(s, t)
         /\ IxChunksOf(w, t) = IxChunksOf(s, t)
         /\ \A x \in IxChunksOf(s, t) : w.disk[x] = s.disk[x]
         /\ \A x \in IxChunksOf(s, t) : \A i : Leads(w, x, i) = Leads(s, x, i)
<1>1. Media(w, t) = Media(s, t)
  <2>1. ASSUME NEW at \in Media(w, t) PROVE at \in Media(s, t)
    BY DEF Media, SameIx, IxIds
  <2>2. ASSUME NEW at \in Media(s, t) PROVE at \in Media(w, t)
    BY DEF Media, SameIx, IxIds
  <2> QED BY <2>1, <2>2
<1>2. IxChunksOf(w, t) = IxChunksOf(s, t)
  <2>1. ASSUME NEW at \in IxChunksOf(w, t) PROVE at \in IxChunksOf(s, t)
    BY DEF IxChunksOf, SameIx, IxIds
  <2>2. ASSUME NEW at \in IxChunksOf(s, t) PROVE at \in IxChunksOf(w, t)
    BY DEF IxChunksOf, SameIx, IxIds
  <2> QED BY <2>1, <2>2
<1>3. \A x \in IxChunksOf(s, t) : w.disk[x] = s.disk[x]
  BY DEF IxChunksOf, SameIx, IxIds
<1>4. \A x \in IxChunksOf(s, t) : \A i : Leads(w, x, i) = Leads(s, x, i)
  BY <1>3 DEF Leads
<1> QED BY <1>1, <1>2, <1>3, <1>4

LEMMA OnceSame ==
  ASSUME NEW s, NEW w, SameIx(s, w), NEW t, NEW b, NEW c, NEW ents,
         Once(s, t, b, ents), c = b \/ ents = <<>>
  PROVE  Once(w, t, c, ents)
<1> USE SameIxFacts
<1>1. CASE c = b BY <1>1 DEF Once
<1>2. CASE ents = <<>>
  <2>1. \A i : i \notin DOMAIN ents BY <1>2
  <2> QED BY <2>1 DEF Once
<1> QED BY <1>1, <1>2

LEMMA ReachedSame ==
  ASSUME NEW s, NEW w, SameIx(s, w), NEW t, NEW b, NEW c, NEW ents, NEW at,
         Reached(s, t, b, ents, at), c = b \/ ents = <<>>
  PROVE  Reached(w, t, c, ents, at)
<1> USE SameIxFacts
<1>1. CASE c = b BY <1>1 DEF Reached
<1>2. CASE ents = <<>>
  <2>1. \A i : i \notin DOMAIN ents BY <1>2
  <2> QED BY <2>1 DEF Reached
<1> QED BY <1>1, <1>2

\* The base of the entries is the same, or none is pending.
SameBase(s, w) ==
  w.movi_size_off = s.movi_size_off \/ \A t \in Streams : Pending(s, t) = <<>>

LEMMA CoveredKept ==
  ASSUME NEW s, Covered(s), NEW w, SameIx(s, w), w.tracks = s.tracks, SameBase(s, w)
  PROVE  Covered(w)
<1> SUFFICES ASSUME NEW t \in Streams
             PROVE  /\ Pending(w, t) = <<>> =>
                         w.tracks[t].ticks_at_last_ix_flush = w.tracks[t].sample_count
                    /\ \A at \in Media(w, t) : Reached(w, t, QwBase(w), Pending(w, t), at)
  BY DEF Covered
<1>1. Pending(w, t) = Pending(s, t) BY DEF Pending
<1>2. QwBase(w) = QwBase(s) \/ Pending(s, t) = <<>>
  BY DEF SameBase, QwBase, MoviStart
<1>3. \A at \in Media(s, t) : Reached(s, t, QwBase(s), Pending(s, t), at)
  BY DEF Covered
<1>4. Media(w, t) = Media(s, t) BY SameIxFacts
<1>5. \A at \in Media(w, t) : Reached(w, t, QwBase(w), Pending(w, t), at)
  BY <1>1, <1>2, <1>3, <1>4, ReachedSame
<1>6. Pending(s, t) = <<>> => s.tracks[t].ticks_at_last_ix_flush = s.tracks[t].sample_count
  BY DEF Covered
<1> QED BY <1>1, <1>5, <1>6

LEMMA CoveringKept ==
  ASSUME NEW s, Covering(s), NEW w, SameIx(s, w), w.tracks = s.tracks, SameBase(s, w),
         w.strl_std_active => s.strl_std_active,
         w.riff_size_off <= w.movi_size_off,
         Doomed(s) => Doomed(w)
  PROVE  Covering(w)
<1>1. ASSUME NEW t \in Streams
      PROVE  /\ SumFunction(Durations(w.tracks[t])) = w.tracks[t].ticks_at_last_ix_flush
             /\ Once(w, t, QwBase(w), Pending(w, t))
             /\ w.strl_std_active => Len(Pending(w, t)) <= opts.strl_std
  <2>1. Pending(w, t) = Pending(s, t) BY DEF Pending
  <2>2. QwBase(w) = QwBase(s) \/ Pending(s, t) = <<>>
    BY DEF SameBase, QwBase, MoviStart
  <2>3. /\ SumFunction(Durations(s.tracks[t])) = s.tracks[t].ticks_at_last_ix_flush
        /\ Once(s, t, QwBase(s), Pending(s, t))
        /\ s.strl_std_active => Len(Pending(s, t)) <= opts.strl_std
    BY DEF Covering
  <2>4. Once(w, t, QwBase(w), Pending(w, t)) BY <2>1, <2>2, <2>3, OnceSame
  <2> QED BY <2>1, <2>3, <2>4
<1>2. OpenDml => Covered(w) \/ Doomed(w) BY CoveredKept DEF Covering
<1> QED BY <1>1, <1>2 DEF Covering

\* A step of that kind within a segment.
LEMMA CoveringWrites ==
  ASSUME NEW s, Typed(s), Covering(s), NEW w, Typed(w), NEW heads, NEW ids,
         Writes(s, w, heads, ids), ids \cap IxIds = {},
         \A at \in heads : at \in DOMAIN s.disk => s.disk[at].id \in ListIds,
         w.tracks = s.tracks, Near(s, w), w.strl_std_active => s.strl_std_active
  PROVE  Covering(w)
<1>1. SameIx(s, w)
  <2>1. \A at \in heads : at \in DOMAIN s.disk => s.disk[at].id \notin IxIds
    BY DEF ListIds, IxIds, MediaIds
  <2> QED BY <2>1, WritesSameIx
<1>2. Doomed(s) => Doomed(w) BY DoomedKept DEF Writes, Near
<1>3. w.riff_size_off <= w.movi_size_off BY DEF Covering, Near
<1> QED BY <1>1, <1>2, <1>3, CoveringKept DEF SameBase, Near
-----------------------------------------------------------------------------
(* Flushing the pending entries                                            *)

\* The durations of a track with one record more.
LEMMA DurationsMore ==
  ASSUME NEW k \in TrackState, NEW r \in IxRecord,
         NEW h, h.ix_chunk_records = Append(k.ix_chunk_records, r)
  PROVE  SumFunction(Durations(h)) = SumFunction(Durations(k)) + r.dur
         /\ SumFunction(Durations(k)) \in Int
<1> DEFINE q == k.ix_chunk_records
           n == Len(q)
           f == Durations(k)
           g == Durations(h)
<1>1. q \in Seq(IxRecord) BY DEF TrackState
<1>2. n \in Nat /\ DOMAIN q = 1 .. n BY <1>1
<1>3. /\ DOMAIN h.ix_chunk_records = 1 .. n + 1
      /\ \A i \in 1 .. n : h.ix_chunk_records[i] = q[i]
      /\ h.ix_chunk_records[n + 1] = r
  BY <1>1, AppendProperties
<1>4. DOMAIN f = 1 .. n /\ DOMAIN g = 1 .. n + 1 BY <1>2, <1>3 DEF Durations
<1>5. \A i \in 1 .. n : f[i] = q[i].dur /\ q[i].dur \in Int
  <2>1. \A i \in 1 .. n : q[i] \in IxRecord BY <1>1, <1>2
  <2>2. \A i \in 1 .. n : f[i] = q[i].dur BY <1>2 DEF Durations
  <2> QED BY <2>1, <2>2 DEF IxRecord
<1>6. r.dur \in Int BY DEF IxRecord
<1>7. \A i \in 1 .. n : i \in 1 .. n + 1 BY <1>2
<1>8. \A i \in 1 .. n + 1 : i = n + 1 \/ i \in 1 .. n BY <1>2
<1>9. n + 1 \in 1 .. n + 1 BY <1>2
<1> HIDE DEF n
<1>10. g[n + 1] = r.dur BY <1>3, <1>9 DEF Durations
<1>11. \A i \in 1 .. n : f[i] = g[i] BY <1>3, <1>5, <1>7 DEF Durations
<1>12. \A i \in 1 .. n + 1 : g[i] \in Int BY <1>5, <1>6, <1>8, <1>10, <1>11
<1> HIDE DEF f, g
<1>13. SumFunction(g) = SumFunction(f) + g[n + 1] /\ SumFunction(f) \in Int
  BY <1>2, <1>4, <1>11, <1>12, SumMore
<1> QED BY <1>10, <1>13 DEF f, g

\* What flush_ix_for_track does to the index: nothing, or one ix## chunk that
\* holds the pending entries of the stream.
FlushedInto(s, w, t) ==
  /\ Placed(s, w, IxCell(s, t))
  /\ w.tracks[t] = Flushed(s, t)
  /\ \A x \in Streams : x # t => w.tracks[x] = s.tracks[x]
  /\ Only(s, w, {"disk", "pos", "tracks"})

LEMMA FlushIxForTrackIndex ==
  ASSUME NEW s, Good(s), NEW t \in Streams, NEW w, w = FlushIxForTrack(s, t)
  PROVE  \/ w = s
         \/ Pending(s, t) # <<>> /\ FlushedInto(s, w, t)
<1>1. CASE s.tracks[t].ix_entries = <<>>
  BY <1>1 DEF FlushIxForTrack
<1>2. CASE s.tracks[t].ix_entries # <<>>
  <2> DEFINE k == Flushed(s, t)
             tracks == [s.tracks EXCEPT ![t] = k]
             u == SetTracks(s, tracks)
             cell == IxCell(s, t)
  <2>1. s.tracks \in [Streams -> TrackState] BY DEF Good, Typed, MuxerRecord
  <2>2. k \in TrackState /\ cell \in CellType
    BY FlushedTyped
  <2>3. w = WriteChunk(u, cell)
    <3>1. w = WriteChunk([s EXCEPT !.tracks[t] = k], cell)
      BY <1>2 DEF FlushIxForTrack
    <3>2. u = [s EXCEPT !.tracks[t] = k]
      BY DEF SetTracks
    <3> QED BY <3>1, <3>2
  <2> HIDE DEF k, cell
  <2>4. /\ tracks \in [Streams -> TrackState] /\ tracks[t] = k
        /\ \A x \in Streams : x # t => tracks[x] = s.tracks[x]
    BY <2>1, <2>2
  <2> HIDE DEF tracks
  <2>5. Typed(u) /\ u.disk = s.disk /\ u.pos = s.pos /\ u.tracks = tracks
    BY <2>4, TracksTyped DEF Good
  <2>6. Only(s, u, {"tracks"})
    BY DEF Good, Typed, MuxerRecord, SetTracks, Only, Fields
  <2> HIDE DEF u
  <2>7. Below(u) BY <2>5 DEF Good, Below
  <2>8. Only(u, w, {"disk", "pos"}) /\ Placed(u, w, cell)
    BY <2>2, <2>3, <2>5, <2>7, WriteChunkStep
  <2>9. Only(s, w, {"disk", "pos", "tracks"})
    BY <2>6, <2>8 DEF Only
  <2>10. w.tracks = tracks BY <2>5, <2>8 DEF Only, Fields
  <2>11. Placed(s, w, cell) BY <2>5, <2>8 DEF Placed
  <2> QED BY <1>2, <2>4, <2>9, <2>10, <2>11 DEF FlushedInto, Pending, k, cell
<1> QED BY <1>1, <1>2
\* The chunk written is the one ix## chunk more, and it holds the entries that
\* were pending.
LEMMA FlushedFacts ==
  ASSUME NEW s, Good(s), NEW t \in Streams, NEW w, FlushedInto(s, w, t)
  PROVE  /\ \A u : Media(w, u) = Media(s, u)
         /\ \A u : u # t => IxChunksOf(w, u) = IxChunksOf(s, u)
         /\ IxChunksOf(w, t) = IxChunksOf(s, t) \cup {s.pos}
         /\ \A x \in DOMAIN s.disk : w.disk[x] = s.disk[x] /\ x # s.pos
         /\ w.disk[s.pos].base = QwBase(s) /\ w.disk[s.pos].ents = Pending(s, t)
         /\ Pending(w, t) = <<>> /\ QwBase(w) = QwBase(s)
         /\ \A u \in Streams : u # t => w.tracks[u] = s.tracks[u]
<1> DEFINE cell == IxCell(s, t)
<1>1. cell.id = "ix" /\ cell.trk = t /\ cell.base = QwBase(s) /\ cell.ents = Pending(s, t)
  BY DEF IxCell, Cell, Pending
<1>2. /\ DOMAIN w.disk = DOMAIN s.disk \cup {s.pos}
      /\ w.disk[s.pos] = cell
      /\ \A at \in DOMAIN s.disk : w.disk[at] = s.disk[at] /\ at # s.pos
  BY DEF FlushedInto, Placed
<1> HIDE DEF cell
<1>3. \A u : Media(w, u) = Media(s, u)
  <2>1. TAKE u
  <2>2. ASSUME NEW at \in Media(w, u) PROVE at \in Media(s, u)
    BY <1>1, <1>2 DEF Media, MediaIds
  <2>3. ASSUME NEW at \in Media(s, u) PROVE at \in Media(w, u)
    BY <1>2 DEF Media
  <2> QED BY <2>2, <2>3
<1>4. \A u : u # t => IxChunksOf(w, u) = IxChunksOf(s, u)
  <2>1. SUFFICES ASSUME NEW u, u # t PROVE IxChunksOf(w, u) = IxChunksOf(s, u)
    OBVIOUS
  <2>2. ASSUME NEW at \in IxChunksOf(w, u) PROVE at \in IxChunksOf(s, u)
    BY <1>1, <1>2, <2>1 DEF IxChunksOf
  <2>3. ASSUME NEW at \in IxChunksOf(s, u) PROVE at \in IxChunksOf(w, u)
    BY <1>2 DEF IxChunksOf
  <2> QED BY <2>2, <2>3
<1>5. IxChunksOf(w, t) = IxChunksOf(s, t) \cup {s.pos}
  <2>1. ASSUME NEW at \in IxChunksOf(w, t) PROVE at \in IxChunksOf(s, t) \cup {s.pos}
    BY <1>2 DEF IxChunksOf
  <2>2. ASSUME NEW at \in IxChunksOf(s, t) PROVE at \in IxChunksOf(w, t)
    BY <1>2 DEF IxChunksOf
  <2>3. s.pos \in IxChunksOf(w, t) BY <1>1, <1>2 DEF IxChunksOf
  <2> QED BY <2>1, <2>2, <2>3
<1>6. Pending(w, t) = <<>> BY FlushedTyped DEF FlushedInto, Pending
<1>7. QwBase(w) = QwBase(s) BY DEF FlushedInto, Only, Fields, QwBase, MoviStart
<1>8. \A u \in Streams : u # t => w.tracks[u] = s.tracks[u] BY DEF FlushedInto
<1> QED BY <1>1, <1>2, <1>3, <1>4, <1>5, <1>6, <1>7, <1>8

\* A flushed stream has its entries once, in the new chunk and those before it.
LEMMA FlushOnce ==
  ASSUME NEW s, Good(s), NEW t \in Streams, NEW w, FlushedInto(s, w, t), NEW u \in Streams,
         Once(s, u, QwBase(s), Pending(s, u))
  PROVE  Once(w, u, QwBase(w), Pending(w, u))
<1> DEFINE b == QwBase(s)
           z == s.pos
<1>1. /\ IxChunksOf(w, t) = IxChunksOf(s, t) \cup {z}
      /\ \A x \in DOMAIN s.disk : w.disk[x] = s.disk[x] /\ x # z
      /\ w.disk[z].base = b /\ w.disk[z].ents = Pending(s, t)
      /\ Pending(w, t) = <<>> /\ QwBase(w) = b
      /\ u # t => IxChunksOf(w, u) = IxChunksOf(s, u) /\ w.tracks[u] = s.tracks[u]
  BY FlushedFacts
<1>2. \A v : \A x \in IxChunksOf(s, v) :
        /\ w.disk[x].ents = s.disk[x].ents
        /\ \A i : Leads(w, x, i) = Leads(s, x, i)
  BY <1>1 DEF IxChunksOf, Leads
<1>3. \A i : Leads(w, z, i) = IxTarget(b, Pending(s, t)[i])
  BY <1>1 DEF Leads
<1> HIDE DEF b, z
<1>4. CASE u # t
  <2>1. IxChunksOf(w, u) = IxChunksOf(s, u) /\ Pending(w, u) = Pending(s, u) /\ QwBase(w) = b
    BY <1>1, <1>4 DEF Pending
  <2>2. Once(s, u, b, Pending(s, u)) BY DEF b
  <2>3. Once(w, u, b, Pending(s, u)) BY <1>2, <2>1, <2>2 DEF Once
  <2> QED BY <2>1, <2>3
<1>5. CASE u = t
  <2> DEFINE p == Pending(s, t)
             C == IxChunksOf(s, t)
  <2>1. \A i \in DOMAIN p : \A j \in DOMAIN p : IxTarget(b, p[i]) = IxTarget(b, p[j]) => i = j
    BY <1>5 DEF Once, b
  <2>2. \A x \in C : \A i \in DOMAIN s.disk[x].ents :
          /\ \A j \in DOMAIN p : Leads(s, x, i) # IxTarget(b, p[j])
          /\ \A y \in C : \A j \in DOMAIN s.disk[y].ents :
               Leads(s, x, i) = Leads(s, y, j) => x = y /\ i = j
    BY <1>5 DEF Once, b
  <2>3. \A i : i \notin DOMAIN Pending(w, t) BY <1>1
  <2>4. ASSUME NEW x \in IxChunksOf(w, t), NEW i \in DOMAIN w.disk[x].ents,
               NEW y \in IxChunksOf(w, t), NEW j \in DOMAIN w.disk[y].ents,
               Leads(w, x, i) = Leads(w, y, j)
        PROVE  x = y /\ i = j
    <3>1. (x \in C \/ x = z) /\ (y \in C \/ y = z) BY <1>1
    <3>2. x \in C => i \in DOMAIN s.disk[x].ents /\ Leads(w, x, i) = Leads(s, x, i)
      BY <1>2
    <3>3. y \in C => j \in DOMAIN s.disk[y].ents /\ Leads(w, y, j) = Leads(s, y, j)
      BY <1>2
    <3>4. x = z => i \in DOMAIN p /\ Leads(w, x, i) = IxTarget(b, p[i]) BY <1>1, <1>3
    <3>5. y = z => j \in DOMAIN p /\ Leads(w, y, j) = IxTarget(b, p[j]) BY <1>1, <1>3
    <3> HIDE DEF p, C
    <3>6. CASE x \in C /\ y \in C
      <4>1. i \in DOMAIN s.disk[x].ents /\ j \in DOMAIN s.disk[y].ents
        BY <3>2, <3>3, <3>6
      <4>2. Leads(s, x, i) = Leads(s, y, j) BY <2>4, <3>2, <3>3, <3>6
      <4> QED BY <2>2, <3>6, <4>1, <4>2, ZenonT(40)
    <3>7. CASE x \in C /\ y = z
      <4>1. i \in DOMAIN s.disk[x].ents /\ j \in DOMAIN p BY <3>2, <3>5, <3>7
      <4>2. Leads(s, x, i) = IxTarget(b, p[j]) BY <2>4, <3>2, <3>5, <3>7
      <4> QED BY <2>2, <3>7, <4>1, <4>2, Zenon
    <3>8. CASE x = z /\ y \in C
      <4>1. j \in DOMAIN s.disk[y].ents /\ i \in DOMAIN p BY <3>3, <3>4, <3>8
      <4>2. Leads(s, y, j) = IxTarget(b, p[i]) BY <2>4, <3>3, <3>4, <3>8
      <4> QED BY <2>2, <3>8, <4>1, <4>2, Zenon
    <3>9. CASE x = z /\ y = z BY <2>1, <2>4, <3>4, <3>5, <3>9
    <3> QED BY <3>1, <3>6, <3>7, <3>8, <3>9
  <2> QED BY <1>5, <2>3, <2>4 DEF Once
<1> QED BY <1>4, <1>5

LEMMA FlushReached ==
  ASSUME NEW s, Good(s), NEW t \in Streams, NEW w, FlushedInto(s, w, t), NEW u \in Streams,
         NEW at, Reached(s, u, QwBase(s), Pending(s, u), at)
  PROVE  Reached(w, u, QwBase(w), Pending(w, u), at)
<1> DEFINE b == QwBase(s)
           z == s.pos
<1>1. /\ IxChunksOf(w, t) = IxChunksOf(s, t) \cup {z}
      /\ \A x \in DOMAIN s.disk : w.disk[x] = s.disk[x] /\ x # z
      /\ w.disk[z].base = b /\ w.disk[z].ents = Pending(s, t)
      /\ Pending(w, t) = <<>> /\ QwBase(w) = b
      /\ u # t => IxChunksOf(w, u) = IxChunksOf(s, u) /\ w.tracks[u] = s.tracks[u]
  BY FlushedFacts
<1>2. \A v : \A x \in IxChunksOf(s, v) :
        /\ w.disk[x].ents = s.disk[x].ents
        /\ \A i : Leads(w, x, i) = Leads(s, x, i)
  BY <1>1 DEF IxChunksOf, Leads
<1>3. \A i : Leads(w, z, i) = IxTarget(b, Pending(s, t)[i])
  BY <1>1 DEF Leads
<1>4. IxChunksOf(s, u) \subseteq IxChunksOf(w, u) BY <1>1
<1> HIDE DEF z
<1>5. CASE \E i \in DOMAIN Pending(s, u) : IxTarget(b, Pending(s, u)[i]) = at
  <2>1. CASE u # t
    <3>1. Pending(w, u) = Pending(s, u) BY <1>1, <2>1 DEF Pending
    <3> QED BY <1>1, <1>5, <3>1 DEF Reached
  <2>2. CASE u = t
    <3>1. PICK i \in DOMAIN Pending(s, t) : IxTarget(b, Pending(s, t)[i]) = at
      BY <1>5, <2>2
    <3>2. z \in IxChunksOf(w, u) /\ i \in DOMAIN w.disk[z].ents /\ Leads(w, z, i) = at
      BY <1>1, <1>3, <2>2, <3>1
    <3> QED BY <3>2 DEF Reached
  <2> QED BY <2>1, <2>2
<1>6. CASE \E x \in IxChunksOf(s, u) : \E i \in DOMAIN s.disk[x].ents : Leads(s, x, i) = at
  BY <1>2, <1>4, <1>6 DEF Reached
<1> QED BY <1>5, <1>6 DEF Reached
LEMMA FlushIxForTrackCovering ==
  ASSUME NEW s, Good(s), Covering(s), NEW t \in Streams, NEW w, w = FlushIxForTrack(s, t),
         opts \in Options
  PROVE  Covering(w)
<1>1. CASE w = s BY <1>1
<1>2. CASE Pending(s, t) # <<>> /\ FlushedInto(s, w, t)
  <2>1. /\ Pending(w, t) = <<>> /\ QwBase(w) = QwBase(s)
        /\ \A u \in Streams : u # t => w.tracks[u] = s.tracks[u]
        /\ \A u : Media(w, u) = Media(s, u)
    BY <1>2, FlushedFacts
  <2>2. w.strl_std_active = s.strl_std_active /\ w.riff_size_off = s.riff_size_off
    BY <1>2 DEF FlushedInto, Only, Fields
  <2>3. /\ w.tracks[t].ix_chunk_records
             = Append(s.tracks[t].ix_chunk_records, IxRecordOf(s, t))
        /\ IxRecordOf(s, t) \in IxRecord /\ s.tracks[t] \in TrackState
    BY <1>2, FlushedTyped DEF FlushedInto
  <2>4. /\ w.tracks[t].ticks_at_last_ix_flush = s.tracks[t].sample_count
        /\ w.tracks[t].sample_count = s.tracks[t].sample_count
    BY <1>2, <2>3, Zenon DEF FlushedInto, Flushed, TrackState
  <2>5. SumFunction(Durations(w.tracks[t])) = w.tracks[t].ticks_at_last_ix_flush
    <3> DEFINE k == s.tracks[t]
               r == IxRecordOf(s, t)
    <3>1. SumFunction(Durations(w.tracks[t])) = SumFunction(Durations(k)) + r.dur
      BY <2>3, DurationsMore
    <3>2. r.dur = k.sample_count - k.ticks_at_last_ix_flush BY DEF IxRecordOf
    <3>3. k.sample_count \in Nat /\ k.ticks_at_last_ix_flush \in Nat BY <2>3 DEF TrackState
    <3>4. SumFunction(Durations(k)) = k.ticks_at_last_ix_flush BY DEF Covering
    <3> HIDE DEF k, r
    <3>5. SumFunction(Durations(w.tracks[t])) = k.sample_count BY <3>1, <3>2, <3>3, <3>4
    <3> QED BY <2>4, <3>5 DEF k
  <2>6. ASSUME NEW u \in Streams
        PROVE  /\ SumFunction(Durations(w.tracks[u])) = w.tracks[u].ticks_at_last_ix_flush
               /\ Once(w, u, QwBase(w), Pending(w, u))
               /\ w.strl_std_active => Len(Pending(w, u)) <= opts.strl_std
    <3>1. /\ SumFunction(Durations(s.tracks[u])) = s.tracks[u].ticks_at_last_ix_flush
          /\ Once(s, u, QwBase(s), Pending(s, u))
          /\ s.strl_std_active => Len(Pending(s, u)) <= opts.strl_std
      BY DEF Covering
    <3>2. Once(w, u, QwBase(w), Pending(w, u)) BY <1>2, <3>1, FlushOnce
    <3>3. SumFunction(Durations(w.tracks[u])) = w.tracks[u].ticks_at_last_ix_flush
      BY <2>1, <2>5, <3>1
    <3>4. w.strl_std_active => Len(Pending(w, u)) <= opts.strl_std
      <4>1. CASE u = t
        <5>1. opts.strl_std \in Nat BY OptsTyped DEF Config
        <5>2. Len(Pending(w, t)) = 0 BY <2>1
        <5> QED BY <4>1, <5>1, <5>2
      <4>2. CASE u # t BY <2>1, <2>2, <3>1, <4>2 DEF Pending
      <4> QED BY <4>1, <4>2
    <3> QED BY <3>2, <3>3, <3>4
  <2>7. Covered(s) => Covered(w)
    <3> SUFFICES ASSUME Covered(s), NEW u \in Streams
                 PROVE  /\ Pending(w, u) = <<>> =>
                             w.tracks[u].ticks_at_last_ix_flush = w.tracks[u].sample_count
                        /\ \A at \in Media(w, u) : Reached(w, u, QwBase(w), Pending(w, u), at)
      BY DEF Covered
    <3>1. \A at \in Media(s, u) : Reached(s, u, QwBase(s), Pending(s, u), at)
      BY DEF Covered
    <3>2. \A at \in Media(w, u) : Reached(w, u, QwBase(w), Pending(w, u), at)
      BY <1>2, <2>1, <3>1, FlushReached
    <3>3. Pending(w, u) = <<>> =>
            w.tracks[u].ticks_at_last_ix_flush = w.tracks[u].sample_count
      BY <2>1, <2>4 DEF Covered, Pending
    <3> QED BY <3>2, <3>3
  <2>8. Doomed(s) => Doomed(w)
    <3>1. Good(w) /\ IxFlush(s, w) BY FlushIxForTrackGood, FlushIxForTrackStep
    <3> QED BY <2>2, <3>1, DoomedKept DEF IxFlush, Writes, Good
  <2>9. OpenDml => Covered(w) \/ Doomed(w) BY <2>7, <2>8 DEF Covering
  <2>10. w.riff_size_off <= w.movi_size_off
    BY <1>2 DEF FlushedInto, Only, Fields, Covering
  <2>11. \A u \in Streams : w.tracks[u].indx.kind = "none"
    <3>1. w.tracks[t].indx = s.tracks[t].indx BY <1>2, FlushedTyped DEF FlushedInto
    <3>2. \A u \in Streams : s.tracks[u].indx.kind = "none" BY DEF Covering
    <3> QED BY <2>1, <3>1, <3>2
  <2> QED BY <2>6, <2>9, <2>10, <2>11 DEF Covering
<1> QED BY <1>1, <1>2, FlushIxForTrackIndex

LEMMA FlushIxChunksCovering ==
  ASSUME NEW s, Good(s), Covering(s), NEW w, w = FlushIxChunks(s), opts \in Options
  PROVE  Covering(w)
<1>1. PICK f : /\ w = f[NumStreams] /\ f[0] = s
               /\ \A i \in 1 .. NumStreams : f[i] = FlushIxForTrack(f[i - 1], i - 1)
  BY FlushSteps
<1>2. NumStreams \in Nat BY MuxerAssumption
<1> DEFINE Fine(v) == Good(v) /\ Covering(v)
           Bad == {i \in 0 .. NumStreams : ~Fine(f[i])}
<1>3. Bad = {}
  <2> SUFFICES ASSUME Bad # {} PROVE FALSE
    OBVIOUS
  <2>1. PICK i \in Bad : \A j \in Bad : i <= j
    <3>1. Bad \subseteq Nat OBVIOUS
    <3> HIDE DEF Bad
    <3> QED BY <3>1, NatLeast
  <2>2. i # 0 BY <1>1
  <2>3. i - 1 \in Streams /\ i \in 1 .. NumStreams
    BY <1>2, <2>2 DEF Streams
  <2>4. Fine(f[i - 1])
    <3>1. i - 1 \in 0 .. NumStreams /\ ~(i <= i - 1) BY <1>2, <2>3
    <3> QED BY <2>1, <3>1
  <2> DEFINE v == f[i - 1]
             z == f[i]
             j == i - 1
  <2>5. z = FlushIxForTrack(v, j) /\ j \in Streams /\ Good(v) /\ Covering(v)
    BY <1>1, <2>3, <2>4
  <2> HIDE DEF z, v, j
  <2>6. Good(z) /\ Covering(z) BY <2>5, FlushIxForTrackGood, FlushIxForTrackCovering
  <2> QED BY <2>6 DEF z
<1>4. NumStreams \in 0 .. NumStreams BY <1>2
<1> QED BY <1>1, <1>3, <1>4
-----------------------------------------------------------------------------
(* Placing a chunk                                                         *)

\* The index fields of w are those of s, with the entry of the chunk at s.pos
\* added unless its offset does not fit 32 bits.
Entered(s, w, cell) ==
  LET t == cell.trk IN
  /\ \A u \in Streams : u # t => w.tracks[u] = s.tracks[u]
  /\ w.tracks[t].ix_chunk_records = s.tracks[t].ix_chunk_records
  /\ w.tracks[t].ticks_at_last_ix_flush = s.tracks[t].ticks_at_last_ix_flush
  /\ w.tracks[t].indx = s.tracks[t].indx
  /\ w.strl_std_active => s.strl_std_active
  /\ \/ /\ Pending(w, t) = Pending(s, t)
        /\ OpenDml => s.pos + 8 - QwBase(s) > DwMax
     \/ /\ \E e \in IxEntry : /\ Pending(w, t) = Append(Pending(s, t), e)
                              /\ IxTarget(QwBase(s), e) = s.pos
        /\ w.strl_std_active => Len(Pending(s, t)) + 1 <= opts.strl_std

LEMMA StampIxEnters ==
  ASSUME NEW s, Good(s), NEW cell, IsMedia(cell), NEW field2 \in Nat \cup {NoField2},
         NEW w, w = StampIx(s, s.pos, cell, field2)
  PROVE  Entered(s, w, cell)
<1> DEFINE t == cell.trk
           d == s.pos + 8 - QwBase(s)
           f2 == IF field2 # NoField2 /\ d + field2 <= DwMax THEN d + field2 ELSE 0
           entry == [off |-> d, len |-> cell.len, key |-> cell.key, field2 |-> f2]
           copy == [id |-> cell.id, trk |-> t, off |-> d - 4, len |-> cell.len, key |-> cell.key]
           k == [s.tracks[t] EXCEPT !.ix_entries = Append(@, entry)]
           tracks == [s.tracks EXCEPT ![t] = k]
           active == s.strl_std_active /\ Len(s.tracks[t].ix_entries) + 1 <= opts.strl_std
           snapshot == IF opts.synth /\ InPrimary(s) THEN Append(s.snapshot, copy) ELSE s.snapshot
<1>1. CASE ~OpenDml \/ d > DwMax
  <2>1. w = s BY <1>1 DEF StampIx
  <2> QED BY <1>1, <2>1 DEF Entered
<1>2. CASE ~(~OpenDml \/ d > DwMax)
  <2>1. /\ s.pos \in Nat /\ s.movi_size_off \in Nat /\ s.movi_size_off + 8 <= s.pos
        /\ s.tracks \in [Streams -> TrackState] /\ s.tracks[t] \in TrackState
        /\ cell.len \in Nat /\ cell.key \in BOOLEAN /\ t \in Streams
    BY DEF Good, Heads, IsList, Typed, MuxerRecord, IsMedia, CellType
  <2>2. d \in Nat /\ QwBase(s) + d - 8 = s.pos
    BY <2>1 DEF QwBase, MoviStart
  <2>3. w = SetStamped(s, tracks, active, snapshot)
    BY <1>2, Zenon DEF StampIx, SetStamped
  <2>4. f2 \in Nat
    BY <2>2 DEF NoField2
  <2> HIDE DEF d, f2, copy
  <2>5. entry \in IxEntry BY <2>1, <2>2, <2>4 DEF IxEntry
  <2>6. IxTarget(QwBase(s), entry) = s.pos BY <2>2 DEF IxTarget
  <2> HIDE DEF entry, snapshot
  <2>7. /\ k.ix_entries = Append(s.tracks[t].ix_entries, entry)
        /\ k.ix_chunk_records = s.tracks[t].ix_chunk_records
        /\ k.ticks_at_last_ix_flush = s.tracks[t].ticks_at_last_ix_flush
        /\ k.indx = s.tracks[t].indx
    BY <2>1, Zenon DEF TrackState
  <2> HIDE DEF k
  <2>8. tracks[t] = k /\ \A u \in Streams : u # t => tracks[u] = s.tracks[u]
    BY <2>1
  <2> HIDE DEF tracks
  <2>9. active => s.strl_std_active /\ Len(s.tracks[t].ix_entries) + 1 <= opts.strl_std
    OBVIOUS
  <2> HIDE DEF active
  <2>10. w.tracks = tracks /\ w.strl_std_active = active
    BY <2>3 DEF Good, Typed, MuxerRecord, SetStamped
  <2> QED BY <2>5, <2>6, <2>7, <2>8, <2>9, <2>10 DEF Entered, Pending
<1> QED BY <1>1, <1>2

\* A chunk is placed, and entered in the index of its stream.
Indexes(s, w, cell) ==
  /\ Placed(s, w, cell)
  /\ Entered(s, w, cell)
  /\ Near(s, w)

LEMMA PlaceChunkIndexes ==
  ASSUME NEW s, Good(s), NEW cell, IsMedia(cell), NEW field2 \in Nat \cup {NoField2},
         NEW w, w = PlaceChunk(s, s.pos, cell, field2)
  PROVE  Indexes(s, w, cell)
<1> DEFINE a == StampIx(s, s.pos, cell, field2)
           b == StampIdx1(a, s.pos, cell)
           c == WriteChunk(b, cell)
           packets == c.rec_packets + 1
           bytes == c.rec_bytes + 8 + Pad(cell.len)
           g == SetRecCounts(c, packets, bytes)
<1>1. Placed(s, w, cell) /\ Only(s, w, PlaceFields) BY PlaceChunkStep
<1>2. Near(s, w) BY <1>1 DEF Only, Fields, PlaceFields, Near
<1>3. Entered(s, a, cell) BY StampIxEnters
<1>4. w = IF Clustering THEN g ELSE c
  BY DEF PlaceChunk, SetRecCounts
<1>5. /\ Typed(a) /\ a.disk = s.disk /\ a.pos = s.pos /\ Near(s, a)
  BY StampIxGood
<1> HIDE DEF a
<1>14. b = StampIdx1(a, a.pos, cell) BY <1>5, Zenon
<1>6. Typed(b) /\ b.disk = a.disk /\ b.pos = a.pos /\ b.tracks = a.tracks
  <2>1. a.movi_size_off + 8 <= a.pos BY <1>5 DEF Good, Heads, IsList, Near
  <2> QED BY <1>5, <1>14, <2>1, StampIdx1Typed
<1>7. b.strl_std_active = a.strl_std_active
  <2> DEFINE index == Append(a.index, ChunkEntry(a, cell))
  <2>1. b = a \/ b = SetIndex(a, index) BY <1>14 DEF StampIdx1, SetIndex, ChunkEntry
  <2> HIDE DEF b, index
  <2> QED BY <1>5, <2>1 DEF Typed, MuxerRecord, SetIndex
<1> HIDE DEF b
<1>8. Below(b) /\ cell \in CellType BY <1>5, <1>6 DEF Good, Below, IsMedia
<1>9. Typed(c) /\ Only(b, c, {"disk", "pos"})
  BY <1>6, <1>8, WriteChunkGood, WriteChunkStep
<1> HIDE DEF c, packets, bytes
<1>10. c.tracks = b.tracks /\ c.strl_std_active = b.strl_std_active
  BY <1>9 DEF Only, Fields
<1>11. g.tracks = c.tracks /\ g.strl_std_active = c.strl_std_active
  BY <1>9 DEF Typed, MuxerRecord, SetRecCounts
<1> HIDE DEF g
<1>12. w.tracks = a.tracks /\ w.strl_std_active = a.strl_std_active
  BY <1>4, <1>6, <1>7, <1>10, <1>11
<1>13. Entered(s, w, cell) BY <1>3, <1>12 DEF Entered, Pending
<1> QED BY <1>1, <1>2, <1>13 DEF Indexes

LEMMA PlacePacketIndexes ==
  ASSUME NEW s, Good(s), NEW p \in Packets, NEW w, w = PlacePacket(s, s.pos, p)
  PROVE  Indexes(s, w, PacketCell(p))
<1> DEFINE cell == PacketCell(p)
           field2 == IF p.trk \in opts.field2 THEN s.pending_field2 ELSE NoField2
           a == SetPending(s, NoField2)
           c == PlaceChunk(a, s.pos, cell, field2)
           k == Counted(c.tracks[p.trk], p)
           tracks == [c.tracks EXCEPT ![p.trk] = k]
           packets == c.segment_packets + 1
<1>1. w = SetPlaced(c, packets, tracks)
  BY DEF PlacePacket, SetPlaced, SetPending, PacketCell
<1>2. IsMedia(cell) /\ p.trk \in Streams /\ cell.trk = p.trk BY PacketCellMedia
<1>3. Placed(s, w, cell) /\ Only(s, w, PlaceFields \cup {"segment_packets", "pending_field2"})
  BY PlacePacketStep
<1>4. Near(s, w) BY <1>3 DEF Only, Fields, PlaceFields, Near
<1> HIDE DEF cell
<1>5. field2 \in Nat \cup {NoField2}
  BY DEF Good, Typed, MuxerRecord
<1> HIDE DEF field2
<1>6. Typed(a) /\ a.disk = s.disk /\ a.pos = s.pos /\ SameFields(s, a)
  BY PendingTyped DEF Good
<1>7. a.strl_std_active = s.strl_std_active
  BY DEF Good, Typed, MuxerRecord, SetPending
<1> HIDE DEF a
<1>8. Good(a) BY <1>6, GoodSameDisk
<1>20. c = PlaceChunk(a, a.pos, cell, field2) BY <1>6, Zenon
<1> HIDE DEF c
<1>9. Entered(a, c, cell) /\ Good(c)
  BY <1>2, <1>5, <1>8, <1>20, PlaceChunkIndexes, PlaceChunkGood DEF Indexes
<1>10. Entered(s, c, cell)
  <2>1. Pending(a, cell.trk) = Pending(s, cell.trk) /\ QwBase(a) = QwBase(s)
        /\ a.tracks = s.tracks /\ a.pos = s.pos
    BY <1>6 DEF SameFields, Near, Pending, QwBase, MoviStart
  <2> QED BY <1>7, <1>9, <2>1 DEF Entered
<1>11. c.tracks \in [Streams -> TrackState] /\ c.tracks[p.trk] \in TrackState
  BY <1>2, <1>9 DEF Good, Typed, MuxerRecord
<1>12. /\ k.ix_entries = c.tracks[p.trk].ix_entries
       /\ k.ix_chunk_records = c.tracks[p.trk].ix_chunk_records
       /\ k.ticks_at_last_ix_flush = c.tracks[p.trk].ticks_at_last_ix_flush
       /\ k.indx = c.tracks[p.trk].indx
  BY <1>11, Zenon DEF Counted, TrackState
<1> HIDE DEF k
<1>13. tracks[p.trk] = k /\ \A t \in Streams : t # p.trk => tracks[t] = c.tracks[t]
  BY <1>2, <1>11
<1> HIDE DEF tracks, packets
<1>14. w.tracks = tracks /\ w.strl_std_active = c.strl_std_active
  BY <1>1, <1>9 DEF Good, Typed, MuxerRecord, SetPlaced
<1>15. Entered(s, w, cell)
  <2> DEFINE t == cell.trk
  <2>1. /\ Pending(w, t) = Pending(c, t)
        /\ w.tracks[t].ix_chunk_records = c.tracks[t].ix_chunk_records
        /\ w.tracks[t].ticks_at_last_ix_flush = c.tracks[t].ticks_at_last_ix_flush
        /\ w.tracks[t].indx = c.tracks[t].indx
    BY <1>2, <1>12, <1>13, <1>14 DEF Pending
  <2>2. \A u \in Streams : u # t => w.tracks[u] = c.tracks[u]
    BY <1>2, <1>13, <1>14
  <2> QED BY <1>10, <1>14, <2>1, <2>2 DEF Entered
<1> QED BY <1>3, <1>4, <1>15 DEF Indexes, cell

\* The new chunk is the one chunk more, and no entry leads to it yet.
LEMMA PlacedFacts ==
  ASSUME NEW s, Good(s), NEW cell, IsMedia(cell), NEW w, Placed(s, w, cell)
  PROVE  /\ \A u : Media(w, u) \subseteq Media(s, u) \cup {s.pos}
         /\ \A u : u # cell.trk => Media(w, u) = Media(s, u)
         /\ \A u : IxChunksOf(w, u) = IxChunksOf(s, u)
         /\ \A u : \A x \in IxChunksOf(s, u) :
              /\ w.disk[x] = s.disk[x]
              /\ \A i \in DOMAIN s.disk[x].ents : Leads(s, x, i) # s.pos
         /\ \A u \in Streams : \A i \in DOMAIN Pending(s, u) :
              IxTarget(QwBase(s), Pending(s, u)[i]) # s.pos
<1>1. /\ DOMAIN w.disk = DOMAIN s.disk \cup {s.pos}
      /\ w.disk[s.pos] = cell
      /\ \A at \in DOMAIN s.disk : w.disk[at] = s.disk[at] /\ at # s.pos
  BY DEF Placed
<1>2. cell.id \in MediaIds BY DEF IsMedia
<1>3. \A u : Media(w, u) \subseteq Media(s, u) \cup {s.pos}
  <2> SUFFICES ASSUME NEW u, NEW at \in Media(w, u)
               PROVE  at \in Media(s, u) \cup {s.pos}
    OBVIOUS
  <2> QED BY <1>1 DEF Media
<1>4. \A u : u # cell.trk => Media(w, u) = Media(s, u)
  <2> SUFFICES ASSUME NEW u, u # cell.trk PROVE Media(w, u) = Media(s, u)
    OBVIOUS
  <2>1. ASSUME NEW at \in Media(w, u) PROVE at \in Media(s, u) BY <1>1 DEF Media
  <2>2. ASSUME NEW at \in Media(s, u) PROVE at \in Media(w, u) BY <1>1 DEF Media
  <2> QED BY <2>1, <2>2
<1>5. \A u : IxChunksOf(w, u) = IxChunksOf(s, u)
  <2> TAKE u
  <2>1. ASSUME NEW at \in IxChunksOf(w, u) PROVE at \in IxChunksOf(s, u)
    BY <1>1, <1>2 DEF IxChunksOf, MediaIds
  <2>2. ASSUME NEW at \in IxChunksOf(s, u) PROVE at \in IxChunksOf(w, u)
    BY <1>1 DEF IxChunksOf
  <2> QED BY <2>1, <2>2
<1>6. ASSUME NEW u, NEW x \in IxChunksOf(s, u)
      PROVE  /\ w.disk[x] = s.disk[x]
             /\ \A i \in DOMAIN s.disk[x].ents : Leads(s, x, i) # s.pos
  <2>1. x \in DOMAIN s.disk /\ s.disk[x].id = "ix" BY DEF IxChunksOf
  <2>2. EntsPoint(s, s.disk[x].base, s.disk[x].trk, s.disk[x].ents)
    BY <2>1 DEF Good, Entries
  <2>3. \A i \in DOMAIN s.disk[x].ents : Leads(s, x, i) \in DOMAIN s.disk
    BY <2>2 DEF EntsPoint, Points, Leads
  <2> QED BY <1>1, <2>1, <2>3
<1>7. ASSUME NEW u \in Streams, NEW i \in DOMAIN Pending(s, u)
      PROVE  IxTarget(QwBase(s), Pending(s, u)[i]) # s.pos
  <2>1. EntsPoint(s, QwBase(s), u, Pending(s, u)) BY DEF Good, Entries, Pending
  <2> QED BY <1>1, <2>1 DEF EntsPoint, Points
<1> QED BY <1>3, <1>4, <1>5, <1>6, <1>7
LEMMA PlacedCovering ==
  ASSUME NEW s, Good(s), Covering(s), NEW cell, IsMedia(cell), NEW w, Typed(w),
         Indexes(s, w, cell), OpenDml => \A u \in Streams : u # cell.trk =>
           w.tracks[u].sample_count = s.tracks[u].sample_count
  PROVE  Covering(w)
<1> DEFINE t == cell.trk
           b == QwBase(s)
           z == s.pos
<1>1. /\ \A u : Media(w, u) \subseteq Media(s, u) \cup {z}
      /\ \A u : u # t => Media(w, u) = Media(s, u)
      /\ \A u : IxChunksOf(w, u) = IxChunksOf(s, u)
      /\ \A u : \A x \in IxChunksOf(s, u) :
           /\ w.disk[x] = s.disk[x]
           /\ \A i \in DOMAIN s.disk[x].ents : Leads(s, x, i) # z
      /\ \A u \in Streams : \A i \in DOMAIN Pending(s, u) :
           IxTarget(b, Pending(s, u)[i]) # z
  BY PlacedFacts DEF Indexes
<1>2. QwBase(w) = b BY DEF Indexes, Near, QwBase, MoviStart
<1>3. Entered(s, w, cell) /\ t \in Streams BY DEF Indexes, IsMedia
<1>4. \A u : \A x \in IxChunksOf(s, u) : \A i : Leads(w, x, i) = Leads(s, x, i)
  BY <1>1 DEF Leads
<1>5. \A u \in Streams : u # t => w.tracks[u] = s.tracks[u] /\ Pending(w, u) = Pending(s, u)
  BY <1>3 DEF Entered, Pending
<1>6. \A u \in Streams : Once(s, u, b, Pending(s, u)) BY DEF Covering
<1>7. \A u \in Streams : Pending(w, u) = Pending(s, u) => Once(w, u, b, Pending(w, u))
  BY <1>1, <1>4, <1>6 DEF Once
<1>11. \A u \in Streams : w.tracks[u].indx.kind = "none"
  <2>1. w.tracks[t].indx = s.tracks[t].indx BY <1>3 DEF Entered
  <2>2. \A u \in Streams : s.tracks[u].indx.kind = "none" BY DEF Covering
  <2> QED BY <1>5, <2>1, <2>2
<1> HIDE DEF b, z
<1> DEFINE p == Pending(s, t)
           q == Pending(w, t)
<1>8. CASE q = p /\ (OpenDml => z + 8 - b > DwMax)
  <2>1. ASSUME NEW u \in Streams
        PROVE  /\ SumFunction(Durations(w.tracks[u])) = w.tracks[u].ticks_at_last_ix_flush
               /\ Once(w, u, QwBase(w), Pending(w, u))
               /\ w.strl_std_active => Len(Pending(w, u)) <= opts.strl_std
    <3>1. Pending(w, u) = Pending(s, u) BY <1>5, <1>8
    <3>2. SumFunction(Durations(w.tracks[u])) = w.tracks[u].ticks_at_last_ix_flush
      <4>1. SumFunction(Durations(s.tracks[u])) = s.tracks[u].ticks_at_last_ix_flush
        BY DEF Covering
      <4>2. /\ w.tracks[u].ix_chunk_records = s.tracks[u].ix_chunk_records
            /\ w.tracks[u].ticks_at_last_ix_flush = s.tracks[u].ticks_at_last_ix_flush
        BY <1>3, <1>5 DEF Entered
      <4> QED BY <4>1, <4>2 DEF Durations
    <3>3. w.strl_std_active => Len(Pending(s, u)) <= opts.strl_std
      BY <1>3 DEF Entered, Covering
    <3> QED BY <1>2, <1>7, <3>1, <3>2, <3>3
  <2>2. OpenDml => Doomed(w)
    <3>1. OpenDml => z + 8 - b > DwMax BY <1>8
    <3>2. w.pos = z + 8 + Pad(cell.len) /\ Pad(cell.len) \in Nat
      <4>1. cell.len \in Nat BY DEF IsMedia, CellType
      <4> QED BY <4>1, PadNat DEF Indexes, Placed, z
    <3>3. w.riff_size_off = s.riff_size_off /\ s.riff_size_off <= s.movi_size_off
      BY DEF Indexes, Near, Covering
    <3>4. z \in Nat /\ s.riff_size_off \in Nat /\ s.movi_size_off \in Nat /\ DwMax \in Nat
      BY MuxerAssumption DEF Good, Typed, MuxerRecord, z
    <3>5. b = s.movi_size_off + 8 BY <3>4 DEF b, QwBase, MoviStart
    <3>6. z + 8 - b > DwMax => w.pos - (w.riff_size_off + 4) > DwMax
      BY <3>2, <3>3, <3>4, <3>5
    <3> QED BY <3>1, <3>6 DEF Doomed
  <2>3. w.riff_size_off <= w.movi_size_off BY DEF Indexes, Near, Covering
  <2> QED BY <1>11, <2>1, <2>2, <2>3 DEF Covering
<1>9. CASE /\ \E e \in IxEntry : q = Append(p, e) /\ IxTarget(b, e) = z
           /\ w.strl_std_active => Len(p) + 1 <= opts.strl_std
  <2> DEFINE n == Len(p)
             k == n + 1
  <2>1. PICK e \in IxEntry : q = Append(p, e) /\ IxTarget(b, e) = z BY <1>9
  <2>2. p \in Seq(IxEntry)
    <3>1. s.tracks[t] \in TrackState BY <1>3 DEF Good, Typed, MuxerRecord
    <3> QED BY <3>1 DEF TrackState, Pending
  <2>3. /\ n \in Nat /\ DOMAIN p = 1 .. n /\ DOMAIN q = 1 .. k /\ Len(q) = k
        /\ \A i \in 1 .. n : q[i] = p[i]
        /\ q[k] = e /\ q # <<>>
    BY <2>1, <2>2, AppendProperties
  <2>4. /\ \A i \in 1 .. k : i = k \/ i \in 1 .. n
        /\ \A i \in 1 .. n : i \in 1 .. k
        /\ k \in 1 .. k /\ k \notin 1 .. n
    BY <2>3
  <2>5. /\ \A i \in DOMAIN q : i = k \/ (i \in DOMAIN p /\ q[i] = p[i])
        /\ \A i \in DOMAIN p : i \in DOMAIN q /\ q[i] = p[i]
        /\ k \in DOMAIN q /\ IxTarget(b, q[k]) = z
    BY <2>1, <2>3, <2>4
  <2>6. \A i \in DOMAIN p : IxTarget(b, p[i]) # z BY <1>1, <1>3
  <2> HIDE DEF k
  <2>7. Once(w, t, b, q)
    <3>1. Once(s, t, b, p) BY <1>3, <1>6
    <3> HIDE DEF p, q
    <3>2. \A i \in DOMAIN q : \A j \in DOMAIN q :
            IxTarget(b, q[i]) = IxTarget(b, q[j]) => i = j
      BY <2>5, <2>6, <3>1 DEF Once
    <3>3. ASSUME NEW x \in IxChunksOf(w, t), NEW i \in DOMAIN w.disk[x].ents
          PROVE  /\ \A j \in DOMAIN q : Leads(w, x, i) # IxTarget(b, q[j])
                 /\ \A y \in IxChunksOf(w, t) : \A j \in DOMAIN w.disk[y].ents :
                      Leads(w, x, i) = Leads(w, y, j) => x = y /\ i = j
      <4>1. /\ x \in IxChunksOf(s, t) /\ i \in DOMAIN s.disk[x].ents
            /\ Leads(w, x, i) = Leads(s, x, i) /\ Leads(s, x, i) # z
        BY <1>1, <1>4
      <4>2. \A j \in DOMAIN q : Leads(w, x, i) # IxTarget(b, q[j])
        BY <2>5, <3>1, <4>1 DEF Once
      <4>3. ASSUME NEW y \in IxChunksOf(w, t), NEW j \in DOMAIN w.disk[y].ents,
                   Leads(w, x, i) = Leads(w, y, j)
            PROVE  x = y /\ i = j
        <5>1. /\ y \in IxChunksOf(s, t) /\ j \in DOMAIN s.disk[y].ents
              /\ Leads(w, y, j) = Leads(s, y, j)
          BY <1>1, <1>4
        <5>2. Leads(s, x, i) = Leads(s, y, j) BY <4>1, <4>3, <5>1
        <5>3. \A a \in IxChunksOf(s, t) : \A h \in DOMAIN s.disk[a].ents :
                \A c \in IxChunksOf(s, t) : \A g \in DOMAIN s.disk[c].ents :
                  Leads(s, a, h) = Leads(s, c, g) => a = c /\ h = g
          BY <3>1, Zenon DEF Once
        <5> QED BY <4>1, <5>1, <5>2, <5>3
      <4> QED BY <4>2, <4>3
    <3> QED BY <3>2, <3>3 DEF Once
  <2>8. ASSUME NEW u \in Streams
        PROVE  /\ SumFunction(Durations(w.tracks[u])) = w.tracks[u].ticks_at_last_ix_flush
               /\ Once(w, u, QwBase(w), Pending(w, u))
               /\ w.strl_std_active => Len(Pending(w, u)) <= opts.strl_std
    <3>1. SumFunction(Durations(w.tracks[u])) = w.tracks[u].ticks_at_last_ix_flush
      <4>1. SumFunction(Durations(s.tracks[u])) = s.tracks[u].ticks_at_last_ix_flush
        BY DEF Covering
      <4>2. /\ w.tracks[u].ix_chunk_records = s.tracks[u].ix_chunk_records
            /\ w.tracks[u].ticks_at_last_ix_flush = s.tracks[u].ticks_at_last_ix_flush
        BY <1>3, <1>5 DEF Entered
      <4> QED BY <4>1, <4>2 DEF Durations
    <3>2. CASE u # t
      <4>1. w.strl_std_active => Len(Pending(s, u)) <= opts.strl_std
        BY <1>3 DEF Entered, Covering
      <4> QED BY <1>2, <1>5, <1>7, <3>1, <3>2, <4>1
    <3>3. CASE u = t
      <4>1. w.strl_std_active => Len(q) <= opts.strl_std BY <1>9, <2>3 DEF k
      <4> QED BY <1>2, <2>7, <3>1, <3>3, <4>1
    <3> QED BY <3>2, <3>3
  <2>9. OpenDml => (Covered(s) => Covered(w))
    <3> SUFFICES ASSUME OpenDml, Covered(s), NEW u \in Streams
                 PROVE  /\ Pending(w, u) = <<>> =>
                             w.tracks[u].ticks_at_last_ix_flush = w.tracks[u].sample_count
                        /\ \A at \in Media(w, u) : Reached(w, u, QwBase(w), Pending(w, u), at)
      BY DEF Covered
    <3>1. Pending(w, u) = <<>> =>
            w.tracks[u].ticks_at_last_ix_flush = w.tracks[u].sample_count
      <4>1. CASE u = t BY <2>3, <4>1
      <4>2. CASE u # t BY <1>5, <4>2 DEF Covered, Pending
      <4> QED BY <4>1, <4>2
    <3>2. ASSUME NEW at \in Media(w, u)
          PROVE  Reached(w, u, b, Pending(w, u), at)
      <4>1. \A a \in Media(s, u) : Reached(s, u, b, Pending(s, u), a) BY DEF Covered, b
      <4>2. CASE u # t
        <5>1. Reached(s, u, b, Pending(s, u), at) /\ Pending(w, u) = Pending(s, u)
          BY <1>1, <1>5, <4>1, <4>2
        <5> QED BY <1>1, <1>4, <5>1 DEF Reached
      <4>3. CASE u = t /\ at = z BY <2>5, <4>3 DEF Reached
      <4>4. CASE u = t /\ at \in Media(s, t)
        <5>1. Reached(s, t, b, p, at) BY <4>1, <4>4
        <5> HIDE DEF p, q
        <5>2. CASE \E i \in DOMAIN p : IxTarget(b, p[i]) = at
          <6>1. \E i \in DOMAIN q : IxTarget(b, q[i]) = at BY <2>5, <5>2
          <6> QED BY <4>4, <6>1 DEF Reached, q
        <5>3. CASE \E x \in IxChunksOf(s, t) : \E i \in DOMAIN s.disk[x].ents : Leads(s, x, i) = at
          <6>1. \E x \in IxChunksOf(w, t) : \E i \in DOMAIN w.disk[x].ents : Leads(w, x, i) = at
            BY <1>1, <1>4, <5>3
          <6> QED BY <4>4, <6>1 DEF Reached
        <5> QED BY <5>1, <5>2, <5>3 DEF Reached
      <4> QED BY <1>1, <4>2, <4>3, <4>4
    <3> QED BY <1>2, <3>1, <3>2
  <2>10. Doomed(s) => Doomed(w)
    <3>1. Typed(s) /\ w.pos >= s.pos /\ w.riff_size_off = s.riff_size_off
      <4>1. cell.len \in Nat /\ s.pos \in Nat /\ w.pos = s.pos + 8 + Pad(cell.len)
        BY DEF Good, Typed, MuxerRecord, IsMedia, CellType, Indexes, Placed
      <4>2. Pad(cell.len) \in Nat BY <4>1, PadNat
      <4>3. w.pos >= s.pos BY <4>1, <4>2
      <4> QED BY <4>3 DEF Good, Indexes, Near
    <3> QED BY <3>1, DoomedKept
  <2>11. w.riff_size_off <= w.movi_size_off BY DEF Indexes, Near, Covering
  <2> QED BY <1>11, <2>8, <2>9, <2>10, <2>11 DEF Covering
<1>10. \/ q = p /\ (OpenDml => z + 8 - b > DwMax)
       \/ /\ \E e \in IxEntry : q = Append(p, e) /\ IxTarget(b, e) = z
          /\ w.strl_std_active => Len(p) + 1 <= opts.strl_std
  BY <1>3 DEF Entered, b, z
<1> QED BY <1>8, <1>9, <1>10
-----------------------------------------------------------------------------
(* The private methods                                                     *)

\* A step that leaves the output, the tracks and the segment alone.
LEMMA CoveringSilent ==
  ASSUME NEW s, Typed(s), Covering(s), NEW w, Typed(w), NEW F, Only(s, w, F),
         F \cap {"disk", "pos", "tracks", "riff_size_off", "movi_size_off",
                 "strl_std_active"} = {}
  PROVE  Covering(w)
<1>1. /\ w.disk = s.disk /\ w.pos = s.pos /\ w.tracks = s.tracks
      /\ w.riff_size_off = s.riff_size_off /\ w.movi_size_off = s.movi_size_off
      /\ w.strl_std_active = s.strl_std_active
  BY DEF Only, Fields
<1>2. SameIx(s, w) BY <1>1 DEF SameIx
<1>3. Doomed(s) => Doomed(w) BY <1>1 DEF Doomed
<1> QED BY <1>1, <1>2, <1>3, CoveringKept DEF SameBase, Covering

LEMMA SetOkCovering ==
  ASSUME NEW s, Typed(s), Covering(s), NEW b \in BOOLEAN, NEW w, w = SetOk(s, b)
  PROVE  Covering(w)
<1>1. Only(s, w, {"ok"}) BY DEF Typed, MuxerRecord, SetOk, Only, Fields
<1>2. Typed(w) BY OkTyped
<1> QED BY <1>1, <1>2, CoveringSilent

LEMMA OpenRecClusterCovering ==
  ASSUME NEW s, Good(s), Covering(s), NEW w, w = OpenRecCluster(s)
  PROVE  Covering(w)
<1> DEFINE none == {}
           recs == {"rec"}
<1>1. /\ Writes(s, w, none, recs)
      /\ Only(s, w, {"disk", "pos"} \cup ClusterFields)
  BY OpenRecClusterStep
<1>2. Good(w) /\ Near(s, w) /\ w.tracks = s.tracks BY OpenRecClusterGood
<1>3. w.strl_std_active = s.strl_std_active BY <1>1 DEF Only, Fields, ClusterFields
<1>4. recs \cap IxIds = {} /\ \A at : at \notin none BY DEF IxIds, MediaIds
<1> HIDE DEF none, recs
<1> QED BY <1>1, <1>2, <1>3, <1>4, CoveringWrites DEF Good

LEMMA CloseRecClusterCovering ==
  ASSUME NEW s, Good(s), Covering(s), s.ok, NEW w, w = CloseRecCluster(s)
  PROVE  /\ Covering(w) /\ w.strl_std_active = s.strl_std_active
         /\ w.tracks = s.tracks /\ w.riff_size_off = s.riff_size_off /\ w.pos >= s.pos
<1>1. Good(w) /\ Near(s, w) /\ w.tracks = s.tracks BY CloseRecClusterGood
<1>2. s.pos \in Nat BY DEF Good, Typed, MuxerRecord
<1>3. \/ w = s
      \/ w.disk = s.disk /\ Only(s, w, {"ok", "disk", "rec_open_size_off"})
      \/ /\ s.rec_open_size_off # NoList
         /\ Writes(s, w, {s.rec_open_size_off - 4}, {})
         /\ Only(s, w, {"ok", "disk"} \cup ClusterFields)
  BY CloseRecClusterStep DEF Closed
<1>4. CASE w = s BY <1>2, <1>4
<1>5. CASE w.disk = s.disk /\ Only(s, w, {"ok", "disk", "rec_open_size_off"})
  <2>1. w.pos = s.pos /\ w.strl_std_active = s.strl_std_active BY <1>5 DEF Only, Fields
  <2> DEFINE none == {}
  <2>2. Writes(s, w, none, none) BY <1>5, <2>1, WritesNothing DEF Good
  <2>3. none \cap IxIds = {} /\ \A at : at \notin none OBVIOUS
  <2> HIDE DEF none
  <2>4. Covering(w) BY <1>1, <2>1, <2>2, <2>3, CoveringWrites DEF Good
  <2> QED BY <1>1, <1>2, <2>1, <2>4 DEF Near
<1>6. CASE /\ s.rec_open_size_off # NoList
           /\ Writes(s, w, {s.rec_open_size_off - 4}, {})
           /\ Only(s, w, {"ok", "disk"} \cup ClusterFields)
  <2>1. w.pos = s.pos /\ w.strl_std_active = s.strl_std_active
    BY <1>6 DEF Only, Fields, ClusterFields
  <2> DEFINE none == {}
             heads == {s.rec_open_size_off - 4}
  <2>2. Writes(s, w, heads, none) BY <1>6
  <2>3. none \cap IxIds = {} OBVIOUS
  <2>4. \A at \in heads : at \in DOMAIN s.disk => s.disk[at].id \in ListIds
    BY <1>6, ThreeHeads
  <2> HIDE DEF none, heads
  <2>5. Covering(w) BY <1>1, <2>1, <2>2, <2>3, <2>4, CoveringWrites DEF Good
  <2> QED BY <1>1, <1>2, <2>1, <2>5 DEF Near
<1> QED BY <1>3, <1>4, <1>5, <1>6

LEMMA ClusterCovering ==
  ASSUME NEW s, Good(s), Covering(s), s.ok, NEW len, NEW w, w = Cluster(s, len)
  PROVE  Covering(w)
<1> DEFINE c == CloseRecCluster(s)
<1>1. Good(c) /\ Covering(c) BY CloseRecClusterGood, CloseRecClusterCovering
<1>2. \/ w = s \/ w = c
      \/ w = OpenRecCluster(s) \/ w = OpenRecCluster(c)
  BY DEF Cluster, Then
<1> HIDE DEF c
<1> QED BY <1>1, <1>2, OpenRecClusterCovering

\* The tail of a segment: after it, if it answers Ok, the RIFF fits 32 bits.
LEMMA FinishSegmentCovering ==
  ASSUME NEW s, Good(s), Covering(s), s.ok, NEW w, w = FinishSegment(s)
  PROVE  /\ Good(w) /\ Covering(w) /\ w.tracks = s.tracks
         /\ w.strl_std_active = s.strl_std_active
         /\ w.ok => ~Doomed(w)
         /\ OpenDml /\ w.ok => Covered(w)
<1>1. Good(w) /\ Near(s, w) /\ w.tracks = s.tracks BY FinishSegmentGood
<1> DEFINE heads == {s.riff_size_off - 4, s.movi_size_off - 4}
           ids == {"idx1"}
<1>2. /\ Writes(s, w, heads, ids)
      /\ Only(s, w, {"ok", "disk", "pos", "segments"})
      /\ w.ok => w.pos - (s.riff_size_off + 4) <= DwMax
  BY FinishSegmentStep
<1>3. w.strl_std_active = s.strl_std_active BY <1>2 DEF Only, Fields
<1>4. ids \cap IxIds = {} BY DEF IxIds, MediaIds
<1>5. \A at \in heads : at \in DOMAIN s.disk => s.disk[at].id \in ListIds BY ThreeHeads
<1> HIDE DEF heads, ids
<1>6. Covering(w) BY <1>1, <1>2, <1>3, <1>4, <1>5, CoveringWrites DEF Good
<1>7. w.ok => ~Doomed(w)
  <2>1. w.pos \in Nat /\ s.riff_size_off \in Nat /\ DwMax \in Nat
    BY <1>1, MuxerAssumption DEF Good, Typed, MuxerRecord
  <2> QED BY <1>1, <1>2, <2>1 DEF Doomed, Near
<1>8. OpenDml /\ w.ok => Covered(w) BY <1>6, <1>7 DEF Covering
<1> QED BY <1>1, <1>3, <1>6, <1>7, <1>8

LEMMA CloseCurrentSegmentCovering ==
  ASSUME NEW s, Good(s), Covering(s), s.ok, NEW w, w = CloseCurrentSegment(s),
         opts \in Options
  PROVE  Covering(w) /\ (w.ok => ~Doomed(w))
<1> DEFINE a == SetActive(s, FALSE)
           c == CloseRecCluster(a)
           x == FlushIxChunks(c)
           f == FinishSegment(x)
<1>1. w = IF c.ok THEN f ELSE c
  BY DEF CloseCurrentSegment, Then, SetActive
<1>2. Good(a) /\ a.ok /\ Covering(a)
  <2>1. Typed(a) /\ a.disk = s.disk /\ a.pos = s.pos /\ SameFields(s, a) BY ActiveTyped DEF Good
  <2>2. Good(a) BY <2>1, GoodSameDisk
  <2>3. a.ok = s.ok /\ a.strl_std_active = FALSE
    BY DEF Good, Typed, MuxerRecord, SetActive
  <2> HIDE DEF a
  <2>4. SameIx(s, a) BY <2>1 DEF SameIx
  <2>5. Doomed(s) => Doomed(a) BY <2>1 DEF Doomed, SameFields, Near
  <2>6. Covering(a)
    BY <2>1, <2>3, <2>4, <2>5, CoveringKept DEF SameBase, Covering, SameFields, Near
  <2> QED BY <2>2, <2>3, <2>6
<1> HIDE DEF a
<1>3. Good(c) /\ Covering(c)
  BY <1>2, CloseRecClusterGood, CloseRecClusterCovering
<1> HIDE DEF c
<1>4. Good(x) /\ Covering(x) /\ x.ok = c.ok
  <2>1. Covering(x) BY <1>3, FlushIxChunksCovering
  <2>2. Good(x) BY <1>3, FlushIxChunksGood DEF Cleared
  <2>3. IxFlush(c, x) BY <1>3, FlushIxChunksStep
  <2> QED BY <2>1, <2>2, <2>3 DEF IxFlush, Only, Fields
<1> HIDE DEF x
<1>5. c.ok => Covering(f) /\ (f.ok => ~Doomed(f))
  BY <1>4, FinishSegmentCovering
<1> HIDE DEF f
<1> QED BY <1>1, <1>3, <1>5

LEMMA RollCovering ==
  ASSUME NEW s, Good(s), Covering(s), s.ok, NEW len, NEW w, w = Roll(s, len),
         opts \in Options
  PROVE  Covering(w)
<1> DEFINE c == CloseCurrentSegment(s)
           a == OpenAvixSegment(c)
<1>1. w = s \/ w = c \/ (c.ok /\ w = a)
  BY DEF Roll, Then
<1>2. Good(c) /\ (c.ok => \A t \in Streams : c.tracks[t].ix_entries = <<>>)
  BY CloseCurrentSegmentGood
<1>3. Covering(c) /\ (c.ok => ~Doomed(c)) BY CloseCurrentSegmentCovering
<1> HIDE DEF c
<1>4. CASE c.ok /\ w = a
  <2> DEFINE none == {}
             ids == {"RIFF", "movi"}
  <2>1. /\ Writes(c, a, none, ids)
        /\ Only(c, a, {"disk", "pos", "riff_size_off", "movi_size_off", "segment_packets",
                       "rec_open_size_off", "rec_open_idx1_slot", "rec_packets", "rec_bytes"})
        /\ a.riff_size_off = c.pos + 4 /\ a.movi_size_off = c.pos + 16
    BY <1>2, OpenAvixSegmentStep
  <2>2. a.tracks = c.tracks /\ a.strl_std_active = c.strl_std_active
    BY <2>1 DEF Only, Fields
  <2>3. ids \cap IxIds = {} /\ \A at : at \notin none BY DEF IxIds, MediaIds
  <2> HIDE DEF none, ids, a
  <2>4. SameIx(c, a) BY <2>1, <2>3, WritesSameIx
  <2>5. c.pos \in Nat BY <1>2 DEF Good, Typed, MuxerRecord
  <2>6. a.riff_size_off <= a.movi_size_off BY <2>1, <2>5
  <2>7. SameBase(c, a) BY <1>2, <1>4 DEF SameBase, Pending
  <2> QED BY <1>3, <1>4, <2>2, <2>4, <2>6, <2>7, CoveringKept
<1> QED BY <1>1, <1>3, <1>4

LEMMA EmitPaddingJunkCovering ==
  ASSUME NEW s, Good(s), Covering(s), NEW w, w = EmitPaddingJunk(s), opts \in Options
  PROVE  Covering(w)
<1> DEFINE none == {}
           ids == {"JUNK"}
<1>1. Writes(s, w, none, ids) /\ Only(s, w, {"disk", "pos", "rec_bytes"})
  BY EmitPaddingJunkStep
<1>2. Good(w) BY EmitPaddingJunkGood
<1>3. Near(s, w) /\ w.tracks = s.tracks /\ w.strl_std_active = s.strl_std_active
  BY <1>1 DEF Only, Fields, Near
<1>4. ids \cap IxIds = {} /\ \A at : at \notin none BY DEF IxIds, MediaIds
<1> HIDE DEF none, ids
<1> QED BY <1>1, <1>2, <1>3, <1>4, CoveringWrites DEF Good

LEMMA MidMoviFlushCovering ==
  ASSUME NEW s, Good(s), Covering(s), s.ok, NEW t \in Streams, NEW w,
         w = MidMoviFlush(s, t), opts \in Options
  PROVE  Covering(w)
<1> DEFINE c == CloseRecCluster(s)
<1>1. w = s \/ w = c \/ w = FlushIxForTrack(c, t) BY DEF MidMoviFlush, Then
<1>2. Good(c) /\ Covering(c) BY CloseRecClusterGood, CloseRecClusterCovering
<1> HIDE DEF c
<1> QED BY <1>1, <1>2, FlushIxForTrackCovering

LEMMA CheckCeilingCovering ==
  ASSUME NEW s, Good(s), Covering(s), NEW w, w = CheckCeiling(s)
  PROVE  Covering(w)
<1>1. w = s \/ w = SetOk(s, FALSE) BY DEF CheckCeiling, SetOk
<1>2. Covering(SetOk(s, FALSE)) BY SetOkCovering DEF Good
<1> QED BY <1>1, <1>2

LEMMA PlacePacketCovering ==
  ASSUME NEW s, Good(s), Covering(s), NEW p \in Packets, NEW w, w = PlacePacket(s, s.pos, p)
  PROVE  Covering(w)
<1> DEFINE cell == PacketCell(p)
<1>1. IsMedia(cell) BY PacketCellMedia
<1>2. Indexes(s, w, cell) BY PlacePacketIndexes
<1>3. Typed(w) BY PlacePacketGood DEF Good
<1> HIDE DEF cell
<1>4. \A u \in Streams : u # cell.trk => w.tracks[u] = s.tracks[u]
  BY <1>2 DEF Indexes, Entered
<1> QED BY <1>1, <1>2, <1>3, <1>4, PlacedCovering

LEMMA PlaceSideCovering ==
  ASSUME NEW s, Good(s), Covering(s), NEW cell, IsMedia(cell),
         NEW w, w = PlaceChunk(s, s.pos, cell, NoField2)
  PROVE  Covering(w)
<1>1. PICK f2 \in Nat \cup {NoField2} : w = PlaceChunk(s, s.pos, cell, f2)
  OBVIOUS
<1>2. Indexes(s, w, cell) BY <1>1, PlaceChunkIndexes
<1>3. Typed(w) BY <1>1, PlaceChunkGood DEF Good
<1>4. \A u \in Streams : u # cell.trk => w.tracks[u] = s.tracks[u]
  BY <1>2 DEF Indexes, Entered
<1> QED BY <1>2, <1>3, <1>4, PlacedCovering
-----------------------------------------------------------------------------
(* write_trailer                                                           *)

\* The compact layout reserves room for as many entries as it may hold.
LEMMA StdRoom ==
  ASSUME opts \in Options, StrlStdRequested(opts), NEW t \in Streams
  PROVE  IndxBytes(t) \div EntrySize(t) = opts.strl_std
<1>1. opts.strl_std \in Nat BY OptsTyped DEF Config
<1>2. IndxBytes(t) = opts.strl_std * EntrySize(t) BY DEF IndxBytes
<1>3. (opts.strl_std * 8) \div 8 = opts.strl_std /\ (opts.strl_std * 12) \div 12 = opts.strl_std
  BY <1>1
<1>4. EntrySize(t) = 8 \/ EntrySize(t) = 12 BY DEF EntrySize
<1> QED BY <1>2, <1>3, <1>4

\* What the patch of the indx chunks makes of a track: in the compact layout
\* the pending entries, if they fit; else the ix## records.
PatchedTrack(s, w, t) ==
  /\ w.tracks[t].ix_chunk_records = s.tracks[t].ix_chunk_records
  /\ w.tracks[t].ticks_at_last_ix_flush = s.tracks[t].ticks_at_last_ix_flush
  /\ w.tracks[t].sample_count = s.tracks[t].sample_count
  /\ ~s.strl_std_active => w.tracks[t].indx.kind = "super"
  /\ s.strl_std_active =>
       /\ w.tracks[t].indx.kind = "std"
       /\ w.tracks[t].indx.base = QwBase(s)
       /\ StrlStdRequested(opts) /\ Len(Pending(s, t)) <= opts.strl_std =>
            w.tracks[t].indx.ents = Pending(s, t)

LEMMA PatchIndxTracks ==
  ASSUME NEW s, Good(s), NEW w, w = PatchIndx(s), OpenDml, opts \in Options,
         NEW t \in Streams
  PROVE  PatchedTrack(s, w, t)
<1>1. s.tracks \in [Streams -> TrackState] /\ s.tracks[t] \in TrackState
  BY DEF Good, Typed, MuxerRecord
<1>2. ASSUME NEW tracks, w = SetTracks(s, tracks)
      PROVE  w.tracks = tracks
  BY <1>2 DEF Good, Typed, MuxerRecord, SetTracks
<1>3. CASE s.strl_std_active
  <2> DEFINE entries(x) == s.tracks[x].ix_entries
             capacity(x) == IndxBytes(x) \div EntrySize(x)
             n(x) == IF Len(entries(x)) < capacity(x) THEN Len(entries(x)) ELSE capacity(x)
             ents(x) == SubSeq(entries(x), 1, n(x))
             indx(x) == [kind |-> "std", base |-> QwBase(s), ents |-> ents(x)]
             tracks == [x \in Streams |->
                          [s.tracks[x] EXCEPT !.ix_entries = <<>>, !.indx = indx(x)]]
  <2>1. w = SetTracks(s, tracks)
    BY <1>3 DEF PatchIndx, PatchStrlStdIndexes, SetTracks
  <2>2. w.tracks = tracks BY <1>2, <2>1
  <2>3. StrlStdRequested(opts) /\ Len(Pending(s, t)) <= opts.strl_std => ents(t) = Pending(s, t)
    <3> SUFFICES ASSUME StrlStdRequested(opts), Len(Pending(s, t)) <= opts.strl_std
                 PROVE  ents(t) = Pending(s, t)
      OBVIOUS
    <3>1. entries(t) = Pending(s, t) /\ Pending(s, t) \in Seq(IxEntry)
      BY <1>1 DEF TrackState, Pending
    <3>2. capacity(t) = opts.strl_std BY StdRoom
    <3>3. opts.strl_std \in Nat /\ Len(Pending(s, t)) \in Nat BY <3>1, OptsTyped DEF Config
    <3>4. n(t) = Len(Pending(s, t)) BY <3>1, <3>2, <3>3
    <3>5. ents(t) = SubSeq(Pending(s, t), 1, Len(Pending(s, t))) BY <3>1, <3>4
    <3> HIDE DEF ents
    <3> QED BY <3>1, <3>5, SubSeqFull
  <2> HIDE DEF ents
  <2>4. /\ tracks[t].ix_chunk_records = s.tracks[t].ix_chunk_records
        /\ tracks[t].ticks_at_last_ix_flush = s.tracks[t].ticks_at_last_ix_flush
        /\ tracks[t].sample_count = s.tracks[t].sample_count
        /\ tracks[t].indx = indx(t)
    BY <1>1, Zenon DEF TrackState
  <2> HIDE DEF tracks
  <2> QED BY <1>3, <2>2, <2>3, <2>4 DEF PatchedTrack
<1>4. CASE ~s.strl_std_active
  <2> DEFINE records(x) == s.tracks[x].ix_chunk_records
             capacity(x) == IndxBytes(x) \div SuperEntry
             n(x) == IF Len(records(x)) < capacity(x) THEN Len(records(x)) ELSE capacity(x)
             ents(x) == SubSeq(records(x), 1, n(x))
             indx(x) == [kind |-> "super", base |-> 0, ents |-> ents(x)]
             tracks == [x \in Streams |-> [s.tracks[x] EXCEPT !.indx = indx(x)]]
  <2>1. w = SetTracks(s, tracks)
    BY <1>4 DEF PatchIndx, PatchSuperIndex, SetTracks
  <2>2. w.tracks = tracks BY <1>2, <2>1
  <2> HIDE DEF ents
  <2>3. /\ tracks[t].ix_chunk_records = s.tracks[t].ix_chunk_records
        /\ tracks[t].ticks_at_last_ix_flush = s.tracks[t].ticks_at_last_ix_flush
        /\ tracks[t].sample_count = s.tracks[t].sample_count
        /\ tracks[t].indx = indx(t)
    BY <1>1, Zenon DEF TrackState
  <2> HIDE DEF tracks
  <2> QED BY <1>4, <2>2, <2>3 DEF PatchedTrack
<1> QED BY <1>3, <1>4

\* The dwDuration values of each stream add up to the ticks flushed so far.
Sums(s) ==
  \A t \in Streams :
    SumFunction(Durations(s.tracks[t])) = s.tracks[t].ticks_at_last_ix_flush

StdEntsOf(s, t) ==
  IF s.tracks[t].indx.kind = "std" THEN s.tracks[t].indx.ents ELSE <<>>

\* EveryChunkIndexedOnce and the second half of SpansAddUp, of the state of a
\* finished muxer.
ListedOnce(s) ==
  OpenDml => \A t \in Streams :
    LET base == s.tracks[t].indx.base IN
    /\ Once(s, t, base, StdEntsOf(s, t))
    /\ \A at \in Media(s, t) : Reached(s, t, base, StdEntsOf(s, t), at)

Spanned(s) ==
  \A t \in Streams : s.tracks[t].indx.kind = "super" =>
    s.tracks[t].ticks_at_last_ix_flush = s.tracks[t].sample_count

\* The patches make entries of the compact layout of what is still pending, and
\* leave none out.
LEMMA PatchesListed ==
  ASSUME NEW s, Good(s), Covering(s), opts \in Options, OpenDml => Covered(s),
         OpenDml /\ s.strl_std_active => StrlStdRequested(opts),
         OpenDml /\ ~s.strl_std_active => \A t \in Streams : Pending(s, t) = <<>>,
         NEW w, w = Conclude(PatchIndx(PatchPostCounts(s)))
  PROVE  Sums(w) /\ ListedOnce(w) /\ Spanned(w)
<1> DEFINE u == PatchPostCounts(s)
           v == PatchIndx(u)
<1>1. w = Conclude(v) OBVIOUS
<1>2. Good(u) /\ Only(s, u, {"stamp"}) BY PatchPostCountsGood, PatchPostCountsStep
<1> HIDE DEF u
<1>3. Good(v) /\ Only(u, v, {"tracks"}) BY <1>2, PatchIndxGood, PatchIndxStep
<1>4. OpenDml => \A t \in Streams : PatchedTrack(u, v, t) BY <1>2, PatchIndxTracks
<1>5. ~OpenDml => v = u BY DEF PatchIndx
<1> HIDE DEF v
<1>6. Only(v, w, {"over_budget", "ok", "trailer_written"}) BY <1>1, <1>3, ConcludeStep
<1>7. /\ u.disk = s.disk /\ u.tracks = s.tracks /\ u.movi_size_off = s.movi_size_off
      /\ u.strl_std_active = s.strl_std_active
  BY <1>2 DEF Only, Fields
<1>8. v.disk = u.disk BY <1>3 DEF Only, Fields
<1>9. w.disk = v.disk /\ w.tracks = v.tracks BY <1>6 DEF Only, Fields
<1>10. SameIx(s, w) BY <1>7, <1>8, <1>9 DEF SameIx
<1>11. QwBase(u) = QwBase(s) /\ \A t : Pending(u, t) = Pending(s, t)
  BY <1>7 DEF QwBase, MoviStart, Pending
<1>12. ASSUME ~OpenDml
       PROVE  Sums(w) /\ ListedOnce(w) /\ Spanned(w)
  <2>1. w.tracks = s.tracks BY <1>5, <1>7, <1>9, <1>12
  <2>2. \A t \in Streams : s.tracks[t].indx.kind = "none" BY DEF Covering
  <2>3. \A t \in Streams :
          SumFunction(Durations(s.tracks[t])) = s.tracks[t].ticks_at_last_ix_flush
    BY DEF Covering
  <2> QED BY <1>12, <2>1, <2>2, <2>3 DEF Sums, ListedOnce, Spanned
<1>13. ASSUME OpenDml, NEW t \in Streams
       PROVE  /\ SumFunction(Durations(w.tracks[t])) = w.tracks[t].ticks_at_last_ix_flush
              /\ Once(w, t, w.tracks[t].indx.base, StdEntsOf(w, t))
              /\ \A at \in Media(w, t) :
                   Reached(w, t, w.tracks[t].indx.base, StdEntsOf(w, t), at)
              /\ w.tracks[t].indx.kind = "super" =>
                   w.tracks[t].ticks_at_last_ix_flush = w.tracks[t].sample_count
  <2> DEFINE base == w.tracks[t].indx.base
             ents == StdEntsOf(w, t)
  <2>1. PatchedTrack(u, v, t) BY <1>4, <1>13
  <2>2. /\ SumFunction(Durations(s.tracks[t])) = s.tracks[t].ticks_at_last_ix_flush
        /\ Once(s, t, QwBase(s), Pending(s, t))
        /\ s.strl_std_active => Len(Pending(s, t)) <= opts.strl_std
    BY DEF Covering
  <2>3. /\ Pending(s, t) = <<>> =>
             s.tracks[t].ticks_at_last_ix_flush = s.tracks[t].sample_count
        /\ \A at \in Media(s, t) : Reached(s, t, QwBase(s), Pending(s, t), at)
    BY <1>13 DEF Covered
  <2>4. SumFunction(Durations(w.tracks[t])) = w.tracks[t].ticks_at_last_ix_flush
    BY <1>7, <1>9, <2>1, <2>2 DEF PatchedTrack, Durations
  <2>5. ents = Pending(s, t) /\ (base = QwBase(s) \/ ents = <<>>)
    <3>1. CASE s.strl_std_active
      <4>1. v.tracks[t].indx.base = QwBase(s) /\ v.tracks[t].indx.kind = "std"
            /\ v.tracks[t].indx.ents = Pending(s, t)
        BY <1>7, <1>11, <1>13, <2>1, <2>2, <3>1 DEF PatchedTrack
      <4> QED BY <1>9, <4>1 DEF StdEntsOf
    <3>2. CASE ~s.strl_std_active
      <4>1. v.tracks[t].indx.kind = "super" BY <1>7, <2>1, <3>2 DEF PatchedTrack
      <4>2. Pending(s, t) = <<>> BY <1>13, <3>2
      <4> QED BY <1>9, <4>1, <4>2 DEF StdEntsOf
    <3> QED BY <3>1, <3>2
  <2>6. w.tracks[t].indx.kind = "super" =>
          w.tracks[t].ticks_at_last_ix_flush = w.tracks[t].sample_count
    <3>1. CASE s.strl_std_active BY <1>7, <1>9, <2>1, <3>1 DEF PatchedTrack
    <3>2. CASE ~s.strl_std_active
      <4>1. Pending(s, t) = <<>> BY <1>13, <3>2
      <4> QED BY <1>7, <1>9, <2>1, <2>3, <4>1 DEF PatchedTrack
    <3> QED BY <3>1, <3>2
  <2> HIDE DEF base, ents
  <2>7. Once(s, t, QwBase(s), ents) /\ (base = QwBase(s) \/ ents = <<>>) BY <2>2, <2>5
  <2>8. Once(w, t, base, ents) BY <1>10, <2>7, OnceSame
  <2>9. ASSUME NEW at \in Media(w, t)
        PROVE  Reached(w, t, base, ents, at)
    <3>1. at \in Media(s, t) BY <1>10, SameIxFacts
    <3>2. Reached(s, t, QwBase(s), ents, at) BY <2>3, <2>5, <3>1
    <3> QED BY <1>10, <2>7, <3>2, ReachedSame
  <2> QED BY <2>4, <2>6, <2>8, <2>9 DEF base, ents
<1>14. CASE OpenDml BY <1>13, <1>14 DEF Sums, ListedOnce, Spanned
<1> QED BY <1>12, <1>14
\* write_trailer: what is pending becomes ix## chunks or the compact layout,
\* and an Ok says that the last segment was not too long for its entries.
LEMMA WriteTrailerCovering ==
  ASSUME Going(m), Covering(m), WriteTrailer, opts \in Options
  PROVE  Sums(m') /\ (m'.trailer_written => ListedOnce(m') /\ Spanned(m'))
<1> DEFINE s0 == SetOk(m, TRUE)
           s1 == CloseRecCluster(s0)
           s2 == IF OpenDml /\ ~s1.strl_std_active THEN FlushIxChunks(s1) ELSE s1
           f == FinishSegment(s2)
           s3 == Then(s1, f)
           s4 == Conclude(PatchIndx(PatchPostCounts(s3)))
<1>1. m' = Then(s3, s4)
  BY DEF WriteTrailer, SetOk
<1>2. Going(s0) /\ Covering(s0) /\ s0.ok /\ Good(s0)
  <2>1. Typed(m) BY DEF Going, Sound, Good
  <2>2. Going(s0) /\ s0.ok BY <2>1, SetOkGoing, OkTyped
  <2>3. Covering(s0)
    <3>1. Typed(s0) BY <2>2 DEF Going, Sound, Good
    <3> QED BY <2>1, <3>1, SetOkCovering
  <2> QED BY <2>2, <2>3 DEF Going, Sound
<1> HIDE DEF s0
<1>3. Going(s1) /\ Covering(s1) /\ Good(s1)
  BY <1>2, CloseRecClusterGoing, CloseRecClusterCovering, CloseRecClusterGood
<1> HIDE DEF s1
<1>4. /\ Good(s2) /\ Covering(s2) /\ s2.ok = s1.ok
      /\ s2.strl_std_active = s1.strl_std_active
      /\ s2.trailer_written = s1.trailer_written
      /\ OpenDml /\ ~s2.strl_std_active => \A t \in Streams : Pending(s2, t) = <<>>
  <2>1. CASE OpenDml /\ ~s1.strl_std_active
    <3>1. s2 = FlushIxChunks(s1) BY <2>1
    <3> HIDE DEF s2
    <3>2. Covering(s2) BY <1>2, <1>3, <3>1, FlushIxChunksCovering
    <3>3. Cleared(s1, s2, NumStreams) BY <1>3, <3>1, FlushIxChunksGood
    <3>4. \A t \in Streams : t < NumStreams BY MuxerAssumption DEF Streams
    <3>5. Good(s2) /\ \A t \in Streams : Pending(s2, t) = <<>>
      BY <3>3, <3>4 DEF Cleared, Pending
    <3>6. IxFlush(s1, s2) BY <1>3, <3>1, FlushIxChunksStep
    <3>7. /\ s2.ok = s1.ok /\ s2.strl_std_active = s1.strl_std_active
          /\ s2.trailer_written = s1.trailer_written
      BY <3>6 DEF IxFlush, Only, Fields
    <3> QED BY <3>2, <3>5, <3>7
  <2>2. CASE ~(OpenDml /\ ~s1.strl_std_active)
    <3>1. s2 = s1 BY <2>2
    <3> QED BY <1>3, <2>2, <3>1
  <2> QED BY <2>1, <2>2
<1> HIDE DEF s2
<1>5. ASSUME s1.ok
      PROVE  /\ Good(f) /\ Covering(f) /\ ~f.trailer_written
             /\ OpenDml /\ f.ok => Covered(f)
             /\ OpenDml /\ f.strl_std_active => StrlStdRequested(opts)
             /\ OpenDml /\ ~f.strl_std_active => \A t \in Streams : Pending(f, t) = <<>>
  <2>1. s2.ok BY <1>4, <1>5
  <2>2. /\ Good(f) /\ Covering(f) /\ f.tracks = s2.tracks
        /\ f.strl_std_active = s2.strl_std_active
        /\ OpenDml /\ f.ok => Covered(f)
    BY <1>4, <2>1, FinishSegmentCovering
  <2>3. Only(s2, f, {"ok", "disk", "pos", "segments"}) BY <1>4, <2>1, FinishSegmentStep
  <2>4. f.trailer_written = s2.trailer_written BY <2>3 DEF Only, Fields
  <2>5. Compact(s1) /\ ~s1.trailer_written BY <1>3 DEF Going
  <2> HIDE DEF f
  <2>6. f.strl_std_active => StrlStdRequested(opts) BY <1>4, <2>2, <2>5 DEF Compact
  <2>7. \A t : Pending(f, t) = Pending(s2, t) BY <2>2 DEF Pending
  <2> QED BY <1>4, <2>2, <2>4, <2>5, <2>6, <2>7
<1> HIDE DEF f
<1>6. \A s : Covering(s) => Sums(s) BY DEF Covering, Sums
<1>7. CASE ~s1.ok
  <2>1. m' = s1 BY <1>1, <1>7 DEF Then
  <2> QED BY <1>3, <1>6, <2>1 DEF Going
<1>8. CASE s1.ok
  <2>1. s3 = f BY <1>8 DEF Then
  <2> HIDE DEF s3
  <2>2. CASE ~f.ok
    <3>1. m' = f BY <1>1, <2>1, <2>2 DEF Then
    <3> QED BY <1>5, <1>6, <1>8, <3>1
  <2>3. CASE f.ok
    <3>1. m' = s4 BY <1>1, <2>1, <2>3 DEF Then
    <3>2. Good(s3) /\ Covering(s3) /\ (OpenDml => Covered(s3))
      BY <1>5, <1>8, <2>1, <2>3
    <3>3. /\ OpenDml /\ s3.strl_std_active => StrlStdRequested(opts)
          /\ OpenDml /\ ~s3.strl_std_active => \A t \in Streams : Pending(s3, t) = <<>>
      BY <1>5, <1>8, <2>1
    <3>4. Sums(s4) /\ ListedOnce(s4) /\ Spanned(s4) BY <3>2, <3>3, PatchesListed
    <3> HIDE DEF s4
    <3> QED BY <3>1, <3>4
  <2> QED BY <2>2, <2>3
<1> QED BY <1>7, <1>8

-----------------------------------------------------------------------------
(* The specification                                                       *)

CInv ==
  /\ LInv
  /\ Sums(m)
  /\ trailers = 0 => Covering(m)
  /\ m.trailer_written => ListedOnce(m) /\ Spanned(m)

\* The options never change, so CInv may be shown of m' under the same ones.
LEMMA CoverageNext ==
  ASSUME opts' = opts, LInv', Sums(m'), trailers' = 0 => Covering(m'),
         m'.trailer_written => ListedOnce(m') /\ Spanned(m')
  PROVE  CInv'
<1>1. Sums(m') <=> Sums(m)' BY DEF Sums, Durations
<1>2. Spanned(m') <=> Spanned(m)' BY DEF Spanned
<1>3. \A t, b, ents : Once(m', t, b, ents) <=> Once(m, t, b, ents)'
  BY DEF Once, IxChunksOf, Leads, IxTarget
<1>4. \A t, b, ents, at : Reached(m', t, b, ents, at) <=> Reached(m, t, b, ents, at)'
  BY DEF Reached, IxChunksOf, Leads, IxTarget
<1>5. \A t : Media(m', t) = Media(m, t)' /\ StdEntsOf(m', t) = StdEntsOf(m, t)'
            /\ Pending(m', t) = Pending(m, t)'
  BY DEF Media, StdEntsOf, Pending
<1>6. OpenDml' <=> OpenDml BY DEF OpenDml
<1>7. QwBase(m') = QwBase(m)' BY DEF QwBase, MoviStart
<1>8. ListedOnce(m') <=> ListedOnce(m)' BY <1>3, <1>4, <1>5, <1>6 DEF ListedOnce
<1>9. Covered(m') <=> Covered(m)' BY <1>4, <1>5, <1>7 DEF Covered
<1>10. Doomed(m') <=> Doomed(m)' BY DEF Doomed
<1>11. Covering(m') <=> Covering(m)'
  BY <1>3, <1>5, <1>6, <1>7, <1>9, <1>10 DEF Covering, Durations
<1> QED BY <1>1, <1>2, <1>8, <1>11 DEF CInv
\* write_packet
LEMMA WritePacketCInv ==
  ASSUME CInv, Disciplined, NEW p \in Packets, WritePacket(p)
  PROVE  CInv'
<1> DEFINE s0 == SetOk(m, TRUE)
           s1 == Roll(s0, p.len)
           s2 == Then(s1, Cluster(s1, p.len))
           s3 == Then(s2, EmitPaddingJunk(s2))
           s4 == Then(s3, PlacePacket(s3, s3.pos, p))
           s5 == Then(s4, MidMoviFlush(s4, p.trk))
           s6 == Then(s5, CheckCeiling(s5))
<1>1. m' = s6 /\ opts' = opts /\ trailers' = trailers
  BY PacketSteps
<1>2. opts \in Options /\ p.trk \in Streams BY MuxerAssumption DEF CInv, LInv, DInv, SInv
<1>3. LInv' BY WritePacketLInv DEF CInv
<1>4. Good(m) /\ Typed(m) /\ Covering(m) /\ trailers = 0
  BY DEF CInv, LInv, DInv, Going, Sound, Good, WritePacket, MayWrite
<1>5. Good(s0) /\ Covering(s0) /\ s0.ok
  <2>1. Good(s0) /\ Typed(s0) /\ s0.ok BY <1>4, SetOkGood, OkTyped
  <2> QED BY <1>4, <2>1, SetOkCovering
<1> HIDE DEF s0
<1>6. Good(s1) /\ Covering(s1) BY <1>2, <1>5, RollGood, RollCovering
<1> HIDE DEF s1
<1>7. Good(s2) /\ Covering(s2) BY <1>6, ClusterGood, ClusterCovering DEF Then
<1> HIDE DEF s2
<1>8. Good(s3) /\ Covering(s3)
  BY <1>2, <1>7, EmitPaddingJunkGood, EmitPaddingJunkCovering DEF Then
<1> HIDE DEF s3
<1>9. Good(s4) /\ Covering(s4) BY <1>8, PlacePacketGood, PlacePacketCovering DEF Then
<1> HIDE DEF s4
<1>10. Good(s5) /\ Covering(s5)
  BY <1>2, <1>9, MidMoviFlushGood, MidMoviFlushCovering DEF Then
<1> HIDE DEF s5
<1>11. Good(s6) /\ Covering(s6) BY <1>10, CheckCeilingGood, CheckCeilingCovering DEF Then
<1> HIDE DEF s6
<1>12. ~m'.trailer_written
  <2>1. m'.header_written BY <1>1, <1>11 DEF Good
  <2>2. LInv' => (m'.header_written /\ trailers' = 0 => ~m'.trailer_written)
    BY DEF LInv, DInv, Going
  <2> QED BY <1>1, <1>3, <1>4, <2>1, <2>2
<1>13. Covering(m') /\ Sums(m') BY <1>1, <1>11 DEF Covering, Sums
<1> QED BY <1>1, <1>3, <1>12, <1>13, CoverageNext

\* write_text_chunk and write_palette_change
LEMMA WriteSidebandChunkCInv ==
  ASSUME CInv, Disciplined, NEW c \in SideChunks, WriteSidebandChunk(c)
  PROVE  CInv'
<1> DEFINE cell == Cell(c.kind, c.trk, c.len)
           s0 == SetOk(m, TRUE)
           s1 == Roll(s0, c.len)
           s2 == Then(s1, Cluster(s1, c.len))
           s3 == Then(s2, PlaceChunk(s2, s2.pos, cell, NoField2))
<1>1. m' = s3 /\ opts' = opts /\ trailers' = trailers
  BY DEF WriteSidebandChunk, SetOk
<1>2. IsMedia(cell) BY SideCellMedia
<1> HIDE DEF cell
<1>3. opts \in Options BY DEF CInv, LInv, DInv, SInv
<1>4. LInv' BY WriteSidebandChunkLInv DEF CInv
<1>5. Good(m) /\ Typed(m) /\ Covering(m) /\ trailers = 0
  BY DEF CInv, LInv, DInv, Going, Sound, Good, WriteSidebandChunk, MayWrite
<1>6. Good(s0) /\ Covering(s0) /\ s0.ok
  <2>1. Good(s0) /\ Typed(s0) /\ s0.ok BY <1>5, SetOkGood, OkTyped
  <2> QED BY <1>5, <2>1, SetOkCovering
<1> HIDE DEF s0
<1>7. Good(s1) /\ Covering(s1) BY <1>3, <1>6, RollGood, RollCovering
<1> HIDE DEF s1
<1>8. Good(s2) /\ Covering(s2) BY <1>7, ClusterGood, ClusterCovering DEF Then
<1> HIDE DEF s2
<1>9. Good(s3) /\ Covering(s3)
  <2>1. PICK f2 \in Nat \cup {NoField2} : f2 = NoField2 OBVIOUS
  <2>2. s2.ok => s3 = PlaceChunk(s2, s2.pos, cell, f2) BY <2>1 DEF Then
  <2>3. ~s2.ok => s3 = s2 BY DEF Then
  <2>4. s2.ok => s3 = PlaceChunk(s2, s2.pos, cell, NoField2) BY DEF Then
  <2> HIDE DEF s3
  <2>5. s2.ok => Good(s3) BY <1>2, <1>8, <2>2, PlaceChunkGood
  <2>6. s2.ok => Covering(s3) BY <1>2, <1>8, <2>4, PlaceSideCovering
  <2> QED BY <1>8, <2>3, <2>5, <2>6
<1> HIDE DEF s3
<1>10. ~m'.trailer_written
  <2>1. m'.header_written BY <1>1, <1>9 DEF Good
  <2>2. LInv' => (m'.header_written /\ trailers' = 0 => ~m'.trailer_written)
    BY DEF LInv, DInv, Going
  <2> QED BY <1>1, <1>4, <1>5, <2>1, <2>2
<1>11. Covering(m') /\ Sums(m') BY <1>1, <1>9 DEF Covering, Sums
<1> QED BY <1>1, <1>4, <1>10, <1>11, CoverageNext

\* A muxer without a chunk and without an entry.
LEMMA FreshCovering ==
  ASSUME NEW s, Fresh(s), s.riff_size_off = 0, s.movi_size_off = 0, opts \in Options,
         \A t \in Streams : /\ s.tracks[t].ticks_at_last_ix_flush = 0
                            /\ s.tracks[t].sample_count = 0
  PROVE  Covering(s)
<1>1. \A t : Media(s, t) = {} /\ IxChunksOf(s, t) = {} BY DEF Fresh, Media, IxChunksOf
<1>2. ASSUME NEW t \in Streams
      PROVE  /\ SumFunction(Durations(s.tracks[t])) = s.tracks[t].ticks_at_last_ix_flush
             /\ Once(s, t, QwBase(s), Pending(s, t))
             /\ s.strl_std_active => Len(Pending(s, t)) <= opts.strl_std
             /\ s.tracks[t].indx.kind = "none"
  <2>1. Pending(s, t) = <<>> /\ s.tracks[t].ix_chunk_records = <<>>
        /\ s.tracks[t].indx.kind = "none"
    BY DEF Fresh, Pending
  <2>2. DOMAIN Durations(s.tracks[t]) = {} BY <2>1 DEF Durations
  <2>3. SumFunction(Durations(s.tracks[t])) = 0 BY <2>2, SumNone
  <2>4. Once(s, t, QwBase(s), Pending(s, t)) BY <1>1, <2>1 DEF Once
  <2>5. opts.strl_std \in Nat BY OptsTyped DEF Config
  <2>6. Len(Pending(s, t)) <= opts.strl_std BY <2>1, <2>5
  <2> QED BY <2>1, <2>3, <2>4, <2>6
<1>3. Covered(s) BY <1>1 DEF Covered
<1> QED BY <1>2, <1>3 DEF Covering
\* open_avi
LEMMA InitCInv == Init => CInv
<1> SUFFICES ASSUME Init PROVE CInv
  OBVIOUS
<1>1. /\ ~m.header_written /\ ~m.trailer_written
      /\ m.riff_size_off = 0 /\ m.movi_size_off = 0
      /\ m.tracks = [t \in Streams |-> NewTrack]
      /\ trailers = 0
  BY Zenon DEF Init
<1>2. LInv BY <1>1, InitDInv DEF LInv
<1>3. Fresh(m) /\ opts \in Options
  BY <1>1, <1>2 DEF LInv, DInv, SInv, Early, Sound, Good
<1>4. \A t \in Streams : /\ m.tracks[t].ticks_at_last_ix_flush = 0
                         /\ m.tracks[t].sample_count = 0
  BY <1>1 DEF NewTrack
<1>5. Covering(m) BY <1>1, <1>3, <1>4, FreshCovering
<1> QED BY <1>1, <1>2, <1>5 DEF CInv, Covering, Sums

\* write_header
LEMMA WriteHeaderCInv ==
  ASSUME CInv, WriteHeader
  PROVE  CInv'
<1> DEFINE none == {}
           ids == {"RIFF", "hdrl", "movi"}
<1>1. Early(m) /\ opts \in Options /\ trailers = 0 /\ ~m.trailer_written
  BY DEF CInv, LInv, DInv, SInv, Sound, WriteHeader, Good
<1>2. m' = HeaderState(m) /\ opts' = opts /\ trailers' = trailers
  BY DEF WriteHeader, HeaderState, SetHeader
<1>3. LInv' BY WriteHeaderLInv DEF CInv
<1>4. Fresh(m) BY <1>1 DEF Early
<1>5. /\ Only(m, m', {"disk", "pos"} \cup HeaderFields)
      /\ Writes(m, m', none, ids)
      /\ m'.riff_size_off = 4 /\ m'.movi_size_off = 16 + opts.hdrl
  BY <1>1, <1>2, <1>4, HeaderStep
<1>6. ids \cap IxIds = {} BY DEF IxIds, MediaIds
<1>7. \A at \in none : at \in DOMAIN m.disk => m.disk[at].id \notin IxIds OBVIOUS
<1> HIDE DEF none, ids
<1>8. SameIx(m, m') BY <1>5, <1>6, <1>7, WritesSameIx
<1>9. /\ m'.tracks = m.tracks /\ m'.strl_std_active = m.strl_std_active
      /\ m'.trailer_written = m.trailer_written
  BY <1>5 DEF Only, Fields, HeaderFields
<1>10. SameBase(m, m') BY <1>4 DEF SameBase, Pending, Fresh
<1>11. ~Doomed(m)
  <2>1. m.pos = 0 /\ m.riff_size_off \in Nat /\ DwMax \in Nat
    BY <1>4, MuxerAssumption DEF Fresh, Typed, MuxerRecord
  <2> QED BY <2>1 DEF Doomed
<1>12. m'.riff_size_off <= m'.movi_size_off
  <2>1. opts.hdrl \in Nat BY <1>1, OptsTyped DEF Config
  <2> QED BY <1>5, <2>1
<1>13. Covering(m) BY <1>1 DEF CInv
<1>14. Covering(m') BY <1>8, <1>9, <1>10, <1>11, <1>12, <1>13, CoveringKept
<1>15. Sums(m') BY <1>14 DEF Covering, Sums
<1> QED BY <1>1, <1>2, <1>3, <1>9, <1>14, <1>15, CoverageNext

\* write_trailer
LEMMA WriteTrailerCInv ==
  ASSUME CInv, Disciplined, WriteTrailer
  PROVE  CInv'
<1>1. /\ Going(m) /\ Covering(m) /\ opts \in Options
      /\ opts' = opts /\ trailers' # 0
  BY DEF CInv, LInv, DInv, SInv, WriteTrailer
<1>2. Sums(m') /\ (m'.trailer_written => ListedOnce(m') /\ Spanned(m'))
  BY <1>1, WriteTrailerCovering
<1>3. LInv' BY WriteTrailerLInv DEF CInv
<1> QED BY <1>1, <1>2, <1>3, CoverageNext

\* The calls that write nothing.
LEMMA LightCInv ==
  ASSUME CInv, Disciplined,
         (\E off \in Field2Offs : SetField2Offset(off)) \/ EarlyReturn
  PROVE  CInv'
<1>1. LInv' BY LightLInv DEF CInv
<1>2. Typed(m) /\ Typed(m')
  <2>1. Typed(m) BY DEF CInv, LInv, DInv, SInv, Sound, Early, Good, Fresh
  <2>2. ASSUME NEW off \in Field2Offs, SetField2Offset(off)
        PROVE  Typed(m')
    <3>1. m' = SetPending(m, off) BY <2>2 DEF SetField2Offset, SetPending
    <3>2. off \in Nat \cup {NoField2} BY <2>2, MuxerAssumption
    <3> QED BY <2>1, <3>1, <3>2, PendingTyped
  <2>3. ASSUME EarlyReturn
        PROVE  Typed(m')
    <3>1. PICK b \in BOOLEAN : m' = SetOk(m, b) BY <2>3 DEF EarlyReturn, SetOk
    <3> QED BY <2>1, <3>1, OkTyped
  <2> QED BY <2>1, <2>2, <2>3
<1>3. opts' = opts /\ trailers' = trailers BY DEF SetField2Offset, EarlyReturn
<1> DEFINE F == {"ok", "pending_field2"}
<1>4. Only(m, m', F)
  <2>1. ASSUME NEW off \in Field2Offs, SetField2Offset(off)
        PROVE  Only(m, m', F)
    <3>1. m' = SetPending(m, off) BY <2>1 DEF SetField2Offset, SetPending
    <3> QED BY <1>2, <3>1 DEF Typed, MuxerRecord, SetPending, Only, Fields
  <2>2. ASSUME EarlyReturn
        PROVE  Only(m, m', F)
    <3>1. PICK b \in BOOLEAN : m' = SetOk(m, b) BY <2>2 DEF EarlyReturn, SetOk
    <3> QED BY <1>2, <3>1 DEF Typed, MuxerRecord, SetOk, Only, Fields
  <2> QED BY <2>1, <2>2
<1>5. m'.disk = m.disk /\ m'.tracks = m.tracks /\ m'.trailer_written = m.trailer_written
  BY <1>4 DEF Only, Fields
<1>6. F \cap {"disk", "pos", "tracks", "riff_size_off", "movi_size_off",
              "strl_std_active"} = {}
  OBVIOUS
<1> HIDE DEF F
<1>7. trailers' = 0 => Covering(m')
  BY <1>2, <1>3, <1>4, <1>6, CoveringSilent DEF CInv
<1>8. Sums(m') /\ (Spanned(m) => Spanned(m'))
  BY <1>5 DEF CInv, Sums, Spanned
<1>9. ListedOnce(m) => ListedOnce(m')
  BY <1>5 DEF ListedOnce, Once, Reached, IxChunksOf, Leads, Media, StdEntsOf
<1> QED BY <1>1, <1>3, <1>5, <1>7, <1>8, <1>9, CoverageNext DEF CInv

\* CInv is an invariant of the muxer for a disciplined caller.
THEOREM CoverageAlways ==
  ASSUME Disciplined
  PROVE  Spec => []CInv
<1>1. ASSUME CInv, UNCHANGED vars PROVE CInv'
  <2>1. m' = m /\ opts' = opts /\ trailers' = trailers BY <1>1 DEF vars
  <2>2. LInv'
    <3>1. DInv' BY <1>1, StutterDInv DEF CInv, LInv
    <3> QED BY <1>1, <2>1, <3>1, LayoutNext DEF CInv, LInv
  <2> QED BY <1>1, <2>1, <2>2, CoverageNext DEF CInv
<1>2. CInv /\ [Next]_vars => CInv'
  BY <1>1, WriteHeaderCInv, WritePacketCInv, WriteSidebandChunkCInv,
     WriteTrailerCInv, LightCInv DEF Next
<1> QED BY <1>2, InitCInv, PTL DEF Spec

\* The dwDuration values of a stream's ix## records add up to the ticks flushed
\* so far, and in a finished two-tier file to the stream's sample count.
THEOREM SpansAddUpHolds ==
  ASSUME Disciplined
  PROVE  Spec => []SpansAddUp
<1>1. CInv => SpansAddUp
  <2> SUFFICES ASSUME CInv, NEW t \in Streams
               PROVE  LET k == m.tracks[t]
                          dur == [i \in DOMAIN k.ix_chunk_records |-> k.ix_chunk_records[i].dur]
                      IN /\ SumFunction(dur) = k.ticks_at_last_ix_flush
                         /\ m.trailer_written /\ k.indx.kind = "super" =>
                              SumFunction(dur) = k.sample_count
    BY DEF SpansAddUp
  <2>1. SumFunction(Durations(m.tracks[t])) = m.tracks[t].ticks_at_last_ix_flush
    BY DEF CInv, Sums
  <2>2. m.trailer_written /\ m.tracks[t].indx.kind = "super" =>
          m.tracks[t].ticks_at_last_ix_flush = m.tracks[t].sample_count
    BY DEF CInv, Spanned
  <2> QED BY <2>1, <2>2 DEF Durations
<1> QED BY <1>1, CoverageAlways, PTL

\* When write_trailer has answered Ok, the standard indexes of an OpenDML file
\* list every chunk of every stream exactly once.
THEOREM EveryChunkIndexedOnceHolds ==
  ASSUME Disciplined
  PROVE  Spec => []EveryChunkIndexedOnce
<1>1. ASSUME CInv, IxResolves, m.trailer_written, OpenDml, NEW t \in Streams
      PROVE  /\ {r.to : r \in IxRefs(t)} = MediaOf(t)
             /\ \A r, q \in IxRefs(t) : r.to = q.to => r = q
  <2> DEFINE base == m.tracks[t].indx.base
             ents == StdEntsOf(m, t)
  <2>1. /\ Once(m, t, base, ents)
        /\ \A at \in Media(m, t) : Reached(m, t, base, ents, at)
    BY <1>1 DEF CInv, ListedOnce
  <2>2. MediaOf(t) = Media(m, t) /\ IxOf(t) = IxChunksOf(m, t) /\ StdEnts(t) = ents
    BY DEF MediaOf, Media, IxOf, IxChunksOf, StdEnts, StdEntsOf, Chunks
  <2>3. \A i \in DOMAIN ents : IxTarget(base, ents[i]) \in Media(m, t)
    <3>1. CASE m.tracks[t].indx.kind = "std"
      <4>1. ents = m.tracks[t].indx.ents BY <3>1 DEF StdEntsOf
      <4>2. \A i \in DOMAIN m.tracks[t].indx.ents :
              Resolves(IxTarget(base, m.tracks[t].indx.ents[i]), MediaIds, t,
                       m.tracks[t].indx.ents[i])
        BY <1>1, <3>1 DEF IxResolves
      <4> HIDE DEF base, ents
      <4> QED BY <4>1, <4>2 DEF Resolves, Media
    <3>2. CASE m.tracks[t].indx.kind # "std" BY <3>2 DEF StdEntsOf
    <3> QED BY <3>1, <3>2
  <2>4. \A x \in IxChunksOf(m, t) : \A i \in DOMAIN m.disk[x].ents :
          Leads(m, x, i) \in Media(m, t)
    <3>1. ASSUME NEW x \in IxChunksOf(m, t), NEW i \in DOMAIN m.disk[x].ents
          PROVE  Leads(m, x, i) \in Media(m, t)
      <4>1. x \in Chunks(m, {"ix"}) /\ m.disk[x].trk = t BY DEF IxChunksOf, Chunks
      <4>2. Resolves(IxTarget(m.disk[x].base, m.disk[x].ents[i]), MediaIds,
                     m.disk[x].trk, m.disk[x].ents[i])
        BY <1>1, <4>1 DEF IxResolves
      <4> QED BY <4>1, <4>2 DEF Resolves, Media, Leads
    <3> QED BY <3>1
  <2> DEFINE disk(r) == \E x \in IxChunksOf(m, t) : \E i \in DOMAIN m.disk[x].ents :
               r = [from |-> x, nr |-> i, to |-> Leads(m, x, i)]
             strl(r) == \E i \in DOMAIN ents :
               r = [from |-> -1, nr |-> i, to |-> IxTarget(base, ents[i])]
  <2>6. \A r : r \in IxRefs(t) <=> disk(r) \/ strl(r)
    <3> DEFINE inner(x) == {IxRef(x, m.disk[x].base, m.disk[x].ents, i) :
                              i \in DOMAIN m.disk[x].ents}
               outer == UNION {inner(x) : x \in IxOf(t)}
               last == {IxRef(-1, base, StdEnts(t), i) : i \in DOMAIN StdEnts(t)}
    <3>1. IxRefs(t) = outer \cup last BY DEF IxRefs
    <3>2. \A r : r \in last <=> strl(r) BY <2>2 DEF IxRef
    <3>3. \A x, r : r \in inner(x) <=>
            \E i \in DOMAIN m.disk[x].ents :
              r = [from |-> x, nr |-> i, to |-> Leads(m, x, i)]
      BY DEF IxRef, Leads
    <3> HIDE DEF inner
    <3>4. \A r : r \in outer <=> \E x \in IxChunksOf(m, t) : r \in inner(x) BY <2>2
    <3> HIDE DEF outer, last
    <3>5. \A r : r \in outer <=> disk(r) BY <3>3, <3>4
    <3> QED BY <3>1, <3>2, <3>5
  <2> HIDE DEF base, ents
  <2>7. {r.to : r \in IxRefs(t)} \subseteq MediaOf(t) BY <2>2, <2>3, <2>4, <2>6
  <2>8. ASSUME NEW at \in MediaOf(t)
        PROVE  \E r \in IxRefs(t) : r.to = at
    <3>1. Reached(m, t, base, ents, at) BY <2>1, <2>2
    <3>2. CASE \E i \in DOMAIN ents : IxTarget(base, ents[i]) = at
      <4>1. PICK i \in DOMAIN ents : IxTarget(base, ents[i]) = at BY <3>2
      <4> DEFINE r == [from |-> -1, nr |-> i, to |-> IxTarget(base, ents[i])]
      <4>2. strl(r) /\ r.to = at BY <4>1
      <4> HIDE DEF r
      <4> QED BY <2>6, <4>2
    <3>3. CASE \E x \in IxChunksOf(m, t) : \E i \in DOMAIN m.disk[x].ents : Leads(m, x, i) = at
      <4>1. PICK x \in IxChunksOf(m, t) :
              \E i \in DOMAIN m.disk[x].ents : Leads(m, x, i) = at
        BY <3>3
      <4>3. PICK i \in DOMAIN m.disk[x].ents : Leads(m, x, i) = at BY <4>1
      <4> DEFINE r == [from |-> x, nr |-> i, to |-> Leads(m, x, i)]
      <4>2. disk(r) /\ r.to = at BY <4>3
      <4> HIDE DEF r
      <4> QED BY <2>6, <4>2
    <3> QED BY <3>1, <3>2, <3>3 DEF Reached
  <2>9. ASSUME NEW r \in IxRefs(t), NEW q \in IxRefs(t), r.to = q.to
        PROVE  r = q
    <3>1. (disk(r) \/ strl(r)) /\ (disk(q) \/ strl(q)) BY <2>6
    <3>2. CASE disk(r) /\ disk(q)
      <4>1. \A x \in IxChunksOf(m, t) : \A i \in DOMAIN m.disk[x].ents :
              \A y \in IxChunksOf(m, t) : \A j \in DOMAIN m.disk[y].ents :
                Leads(m, x, i) = Leads(m, y, j) => x = y /\ i = j
        BY <2>1, Zenon DEF Once
      <4> QED BY <2>9, <3>2, <4>1
    <3>3. CASE strl(r) /\ strl(q) BY <2>1, <2>9, <3>3 DEF Once
    <3>4. \A x \in IxChunksOf(m, t) : \A i \in DOMAIN m.disk[x].ents :
            \A j \in DOMAIN ents : Leads(m, x, i) # IxTarget(base, ents[j])
      BY <2>1 DEF Once
    <3>5. ~(disk(r) /\ strl(q)) /\ ~(strl(r) /\ disk(q)) BY <2>9, <3>4
    <3> QED BY <3>1, <3>2, <3>3, <3>5
  <2>10. MediaOf(t) \subseteq {r.to : r \in IxRefs(t)} BY <2>8
  <2> QED BY <2>7, <2>9, <2>10
<1>2. CInv /\ IxResolves => EveryChunkIndexedOnce BY <1>1 DEF EveryChunkIndexedOnce
<1> QED BY <1>2, CoverageAlways, StandardIndexesResolve, PTL
=============================================================================
