--------------------------- MODULE AviMuxer_refines ---------------------------
(***************************************************************************)
(* That AviMuxer implements AviContainer, for a caller who stops at the    *)
(* first failure: every call adds one chunk at the end of the file, in the *)
(* current segment or in a new one behind a segment with a packet, opens   *)
(* the file, finishes it, or leaves its chunks alone.                      *)
(*                                                                         *)
(* The chunks of the abstract file are those on disk in the order of their *)
(* offsets.  The proof shows first that the order of a finite set of       *)
(* numbers lists each of them once, and that a number above them all comes *)
(* last; then that the private methods before and after the chunk is       *)
(* placed leave the chunks alone (Quiet), but for the roll, which starts a *)
(* segment and is always followed by a chunk in the same call (Ahead).     *)
(***************************************************************************)
EXTENDS AviMuxerRefinement, AviMuxer_discipline

-----------------------------------------------------------------------------
(* Numbers in order                                                        *)

\* The members of S below n.
Under(S, n) == {b \in S : b < n}

\* FileOrder, of a set of offsets.
Order(S) ==
  [i \in 1 .. Cardinality(S) |-> CHOOSE at \in S : Cardinality(Under(S, at)) = i - 1]

\* Every place in the order is taken by a member, and every member has one.
Ordered(S) ==
  /\ \A i \in 1 .. Cardinality(S) : Order(S)[i] \in S
  /\ \A at \in S : \E i \in 1 .. Cardinality(S) : Order(S)[i] = at

\* A number above all others comes last, and the others keep their places.
LEMMA OrderAppend ==
  ASSUME NEW S, S \subseteq Nat, IsFiniteSet(S), NEW p \in Nat, \A b \in S : b < p
  PROVE  /\ p \notin S
         /\ Cardinality(S \cup {p}) = Cardinality(S) + 1
         /\ \A i \in 1 .. Cardinality(S) : Order(S \cup {p})[i] = Order(S)[i]
         /\ Order(S \cup {p})[Cardinality(S) + 1] = p
<1> DEFINE n == Cardinality(S)
           T == S \cup {p}
<1>1. p \notin S /\ n \in Nat /\ Cardinality(T) = n + 1 /\ IsFiniteSet(T)
  BY FS_CardinalityType, FS_AddElement
<1>2. ASSUME NEW at \in S PROVE Under(T, at) = Under(S, at)
  <2>1. ~(p < at) /\ at \in Nat OBVIOUS
  <2> QED BY <2>1 DEF Under
<1>3. Under(T, p) = S
  <2>1. ASSUME NEW b \in S PROVE b \in Under(T, p)
    BY DEF Under
  <2>2. ASSUME NEW b \in Under(T, p) PROVE b \in S
    <3>1. b < p /\ (b \in S \/ b = p) BY DEF Under
    <3> QED BY <3>1
  <2> QED BY <2>1, <2>2
<1>4. ASSUME NEW at \in S
      PROVE  Cardinality(Under(S, at)) \in Nat /\ Cardinality(Under(S, at)) < n
  <2>1. Under(S, at) \in SUBSET S /\ at \notin Under(S, at) BY DEF Under
  <2>2. /\ IsFiniteSet(Under(S, at)) /\ Cardinality(Under(S, at)) <= n
        /\ n = Cardinality(Under(S, at)) => S = Under(S, at)
    BY <2>1, FS_Subset
  <2>3. Cardinality(Under(S, at)) \in Nat BY <2>2, FS_CardinalityType
  <2> QED BY <1>1, <1>4, <2>1, <2>2, <2>3
<1>5. ASSUME NEW i \in 1 .. n PROVE Order(T)[i] = Order(S)[i]
  <2>1. i - 1 # n /\ i \in 1 .. n + 1 BY <1>1
  <2>2. \A at : /\ at \in T /\ Cardinality(Under(T, at)) = i - 1
            <=> /\ at \in S /\ Cardinality(Under(S, at)) = i - 1
    BY <1>1, <1>2, <1>3, <2>1
  <2> HIDE DEF T
  <2>3. (CHOOSE at \in T : Cardinality(Under(T, at)) = i - 1)
        = (CHOOSE at \in S : Cardinality(Under(S, at)) = i - 1)
    BY <2>2
  <2>4. Order(T)[i] = CHOOSE at \in T : Cardinality(Under(T, at)) = i - 1
    BY <1>1, <2>1 DEF Order
  <2>5. Order(S)[i] = CHOOSE at \in S : Cardinality(Under(S, at)) = i - 1
    BY DEF Order
  <2> QED BY <2>3, <2>4, <2>5
<1>6. Order(T)[n + 1] = p
  <2>1. n + 1 \in 1 .. n + 1 /\ n + 1 - 1 = n BY <1>1
  <2>2. Order(T)[n + 1] = CHOOSE at \in T : Cardinality(Under(T, at)) = n + 1 - 1
    <3> HIDE DEF T, n
    <3> QED BY <1>1, <2>1 DEF Order
  <2>3. p \in T /\ \A at \in T : Cardinality(Under(T, at)) = n + 1 - 1 <=> at = p
    BY <1>1, <1>2, <1>3, <1>4
  <2> HIDE DEF T, n
  <2> QED BY <2>2, <2>3
<1> QED BY <1>1, <1>5, <1>6

\* Numbers below a bound have a largest one.
LEMMA MostOf ==
  ASSUME NEW S, S \subseteq Nat, S # {}, NEW top \in Nat, \A at \in S : at < top
  PROVE  \E p \in S : \A b \in S : b <= p
<1> DEFINE K == {k \in Nat : \A b \in S : b <= k}
<1>1. K \subseteq Nat /\ top \in K OBVIOUS
<1>2. PICK k \in K : \A j \in K : k <= j
  <2> HIDE DEF K
  <2> QED BY <1>1, NatLeast
<1>3. ASSUME k \notin S PROVE FALSE
  <2>1. PICK b \in S : TRUE OBVIOUS
  <2>2. \A c \in S : c \in Nat /\ c <= k /\ c # k BY <1>2, <1>3
  <2>3. k - 1 \in Nat /\ \A c \in S : c <= k - 1 BY <1>2, <2>1, <2>2
  <2>4. k - 1 \in K BY <2>3
  <2> QED BY <1>2, <2>4
<1> QED BY <1>2, <1>3

\* By induction on the number of members.
LEMMA OrderLists ==
  ASSUME NEW S, S \subseteq Nat, IsFiniteSet(S), NEW top \in Nat, \A at \in S : at < top
  PROVE  Ordered(S)
<1> DEFINE Bad == {n \in Nat : \E T \in SUBSET S : Cardinality(T) = n /\ ~Ordered(T)}
<1>1. \A T \in SUBSET S : IsFiniteSet(T) /\ Cardinality(T) \in Nat /\ T \subseteq Nat
  BY FS_Subset, FS_CardinalityType
<1>2. Bad = {}
  <2> SUFFICES ASSUME Bad # {} PROVE FALSE
    OBVIOUS
  <2>1. PICK n \in Bad : \A k \in Bad : n <= k
    <3>1. Bad \subseteq Nat OBVIOUS
    <3> HIDE DEF Bad
    <3> QED BY <3>1, NatLeast
  <2>2. PICK T \in SUBSET S : Cardinality(T) = n /\ ~Ordered(T) BY <2>1
  <2>3. IsFiniteSet(T) /\ n \in Nat /\ T \subseteq Nat BY <1>1, <2>2
  <2>4. T # {}
    <3>1. Cardinality({}) = 0 /\ 1 .. 0 = {} BY FS_EmptySet
    <3> QED BY <2>2, <3>1 DEF Ordered
  <2>5. PICK p \in T : \A b \in T : b <= p
    BY <2>2, <2>3, <2>4, MostOf
  <2> DEFINE U == T \ {p}
  <2>6. U \in SUBSET S /\ U \subseteq Nat /\ IsFiniteSet(U) /\ Cardinality(U) = n - 1
    BY <1>1, <2>2, <2>3, <2>5, FS_RemoveElement
  <2>7. Ordered(U)
    <3>1. n - 1 \in Nat /\ ~(n <= n - 1) BY <1>1, <2>3, <2>6
    <3> QED BY <2>1, <2>6, <3>1
  <2>8. p \in Nat /\ (\A b \in U : b < p) /\ T = U \cup {p} /\ p \notin U
    BY <2>3, <2>5
  <2> HIDE DEF U
  <2>9. /\ Cardinality(U \cup {p}) = Cardinality(U) + 1
        /\ \A i \in 1 .. Cardinality(U) : Order(U \cup {p})[i] = Order(U)[i]
        /\ Order(U \cup {p})[Cardinality(U) + 1] = p
    BY <2>6, <2>8, OrderAppend
  <2>10. /\ Cardinality(T) = Cardinality(U) + 1
         /\ \A i \in 1 .. Cardinality(U) : Order(T)[i] = Order(U)[i]
         /\ Order(T)[Cardinality(U) + 1] = p
    BY <2>8, <2>9
  <2>11. /\ Cardinality(U) \in Nat
         /\ \A i \in 1 .. Cardinality(T) : i \in 1 .. Cardinality(U) \/ i = Cardinality(U) + 1
         /\ Cardinality(U) + 1 \in 1 .. Cardinality(T)
         /\ \A i \in 1 .. Cardinality(U) : i \in 1 .. Cardinality(T)
    BY <2>6, <2>10, FS_CardinalityType
  <2>12. Ordered(T) BY <2>7, <2>8, <2>10, <2>11 DEF Ordered
  <2> QED BY <2>2, <2>12
<1> QED BY <1>1, <1>2

-----------------------------------------------------------------------------
(* The chunks of a muxer state                                             *)

Media(s) == {at \in DOMAIN s.disk : s.disk[at].id \in MediaIds}
Riffs(s) == {at \in DOMAIN s.disk : s.disk[at].id = "RIFF"}

\* The entry of the abstract file for the chunk at offset at.
LogEntry(s, at) == [seg |-> Cardinality(Under(Riffs(s), at)), chunk |-> s.disk[at]]

\* MediaLog, of a muxer state.
Log(s) == [i \in 1 .. Cardinality(Media(s)) |-> LogEntry(s, Order(Media(s))[i])]

LEMMA LogOfMuxer == MediaLog = Log(m) /\ Chunks(m, {"RIFF"}) = Riffs(m)
<1>1. Chunks(m, MediaIds) = Media(m) /\ Chunks(m, {"RIFF"}) = Riffs(m)
  BY DEF Chunks, Media, Riffs
<1>2. FileOrder = Order(Media(m))
  BY <1>1 DEF FileOrder, Order, Under
<1>3. DOMAIN FileOrder = 1 .. Cardinality(Media(m))
  BY <1>2 DEF Order
<1>4. \A at : SegmentAt(at) = Cardinality(Under(Riffs(m), at))
  BY <1>1 DEF SegmentAt, Under
<1> QED BY <1>1, <1>2, <1>3, <1>4 DEF MediaLog, Log, LogEntry

\* The offsets of the chunks and of the segments are finitely many numbers.
LEMMA MediaFinite ==
  ASSUME NEW s, Typed(s), Below(s)
  PROVE  /\ Media(s) \subseteq Nat /\ IsFiniteSet(Media(s)) /\ Ordered(Media(s))
         /\ Riffs(s) \subseteq Nat /\ IsFiniteSet(Riffs(s))
         /\ Cardinality(Media(s)) \in Nat /\ Cardinality(Riffs(s)) \in Nat
<1>1. Media(s) \subseteq DOMAIN s.disk /\ Riffs(s) \subseteq DOMAIN s.disk
  BY DEF Media, Riffs
<1>2. s.pos \in Nat /\ \A at \in DOMAIN s.disk : at \in Nat /\ at < s.pos
  BY DEF Typed, MuxerRecord, DiskOK, Below
<1>3. /\ IsFiniteSet(Media(s)) /\ Cardinality(Media(s)) \in Nat
      /\ IsFiniteSet(Riffs(s)) /\ Cardinality(Riffs(s)) \in Nat
  BY <1>1, DiskFinite
<1>4. /\ Media(s) \subseteq Nat /\ Riffs(s) \subseteq Nat
      /\ \A at \in Media(s) : at < s.pos
  BY <1>1, <1>2
<1>5. Ordered(Media(s)) BY <1>2, <1>3, <1>4, OrderLists
<1> QED BY <1>3, <1>4, <1>5

\* The step leaves the chunks and the segments alone.
Quiet(s, w) ==
  /\ Media(w) = Media(s) /\ Riffs(w) = Riffs(s)
  /\ \A at \in Media(s) : w.disk[at] = s.disk[at]

LEMMA QuietLog ==
  ASSUME NEW s, Typed(s), Below(s), NEW w, Quiet(s, w)
  PROVE  Log(w) = Log(s) /\ Cardinality(Riffs(w)) = Cardinality(Riffs(s))
<1>1. Ordered(Media(s)) BY MediaFinite
<1>2. \A i \in 1 .. Cardinality(Media(s)) : Order(Media(s))[i] \in Media(s)
  BY <1>1 DEF Ordered
<1>3. \A at \in Media(s) : LogEntry(w, at) = LogEntry(s, at)
  BY DEF Quiet, LogEntry
<1> QED BY <1>2, <1>3 DEF Quiet, Log

\* The step adds the chunk cell at the end of the file, in the current segment
\* or, when that has a packet, in a new one.
Added(s, w, cell) ==
  \E p \in Nat :
    /\ Media(w) = Media(s) \cup {p} /\ w.disk[p] = cell
    /\ \A at \in Media(s) : at < p /\ w.disk[at] = s.disk[at]
    /\ \A r \in Riffs(w) : r < p
    /\ \/ Riffs(w) = Riffs(s)
       \/ /\ OpenDml /\ s.segment_packets > 0
          /\ \E r \in Nat : /\ Riffs(w) = Riffs(s) \cup {r} /\ r \notin Riffs(s)
                            /\ \A at \in Media(s) : at < r

LEMMA AddedLog ==
  ASSUME NEW s, Typed(s), Below(s), NEW w, Typed(w), Below(w), NEW cell, Added(s, w, cell)
  PROVE  /\ Log(w) = Append(Log(s), [seg |-> Cardinality(Riffs(w)), chunk |-> cell])
         /\ \/ Cardinality(Riffs(w)) = Cardinality(Riffs(s))
            \/ /\ OpenDml /\ s.segment_packets > 0
               /\ Cardinality(Riffs(w)) = Cardinality(Riffs(s)) + 1
<1> DEFINE n == Cardinality(Media(s))
           last == [seg |-> Cardinality(Riffs(w)), chunk |-> cell]
<1>1. PICK p \in Nat :
        /\ Media(w) = Media(s) \cup {p} /\ w.disk[p] = cell
        /\ \A at \in Media(s) : at < p /\ w.disk[at] = s.disk[at]
        /\ \A r \in Riffs(w) : r < p
        /\ \/ Riffs(w) = Riffs(s)
           \/ /\ OpenDml /\ s.segment_packets > 0
              /\ \E r \in Nat : /\ Riffs(w) = Riffs(s) \cup {r} /\ r \notin Riffs(s)
                                /\ \A at \in Media(s) : at < r
  BY DEF Added
<1>2. /\ Media(s) \subseteq Nat /\ IsFiniteSet(Media(s)) /\ Ordered(Media(s))
      /\ IsFiniteSet(Riffs(s)) /\ Riffs(s) \subseteq Nat /\ n \in Nat
  BY MediaFinite
<1>3. /\ Cardinality(Media(s) \cup {p}) = n + 1
      /\ \A i \in 1 .. n : Order(Media(s) \cup {p})[i] = Order(Media(s))[i]
      /\ Order(Media(s) \cup {p})[n + 1] = p
  BY <1>1, <1>2, OrderAppend
<1>4. /\ Cardinality(Media(w)) = n + 1
      /\ \A i \in 1 .. n : Order(Media(w))[i] = Order(Media(s))[i]
      /\ Order(Media(w))[n + 1] = p
  BY <1>1, <1>3
<1>5. \A i \in 1 .. n : Order(Media(s))[i] \in Media(s)
  BY <1>2 DEF Ordered
<1>6. ASSUME NEW at \in Media(s) PROVE LogEntry(w, at) = LogEntry(s, at)
  <2>1. Under(Riffs(w), at) = Under(Riffs(s), at)
    <3>1. CASE Riffs(w) = Riffs(s) BY <3>1
    <3>2. ASSUME NEW r \in Nat, Riffs(w) = Riffs(s) \cup {r}, at < r
          PROVE  Under(Riffs(w), at) = Under(Riffs(s), at)
      <4>1. at \in Nat /\ ~(r < at) BY <1>2, <3>2
      <4> QED BY <3>2, <4>1 DEF Under
    <3> QED BY <1>1, <3>1, <3>2
  <2> QED BY <1>1, <2>1 DEF LogEntry
<1>7. LogEntry(w, p) = last
  <2>1. Under(Riffs(w), p) = Riffs(w) BY <1>1 DEF Under
  <2> QED BY <1>1, <2>1 DEF LogEntry
<1> HIDE DEF last
<1>8. Len(Log(s)) = n /\ DOMAIN Log(s) = 1 .. n BY <1>2 DEF Log
<1>9. Append(Log(s), last)
      = [i \in 1 .. n + 1 |-> IF i = n + 1 THEN last ELSE Log(s)[i]]
  <2> DEFINE S == {Log(s)[i] : i \in 1 .. n} \cup {last}
  <2>1. Log(s) = [i \in 1 .. n |-> Log(s)[i]] BY DEF Log
  <2>2. Log(s) \in Seq(S) /\ last \in S
    <3>1. \A i \in 1 .. n : Log(s)[i] \in S OBVIOUS
    <3> HIDE DEF S
    <3>2. Log(s) \in [1 .. n -> S] BY <2>1, <3>1
    <3> QED BY <1>2, <3>2, IsASeq DEF S
  <2> HIDE DEF S
  <2> DEFINE q == Append(Log(s), last)
  <2>3. /\ q \in Seq(S) /\ Len(q) = n + 1 /\ q[n + 1] = last
        /\ \A i \in 1 .. n : q[i] = Log(s)[i]
    BY <1>8, <2>2, AppendProperties
  <2> HIDE DEF q
  <2>4. q = [i \in 1 .. n + 1 |-> q[i]] BY <2>3
  <2>5. \A i \in 1 .. n + 1 : q[i] = IF i = n + 1 THEN last ELSE Log(s)[i]
    BY <1>2, <2>3
  <2> QED BY <2>4, <2>5 DEF q
<1>10. Log(w) = [i \in 1 .. n + 1 |-> LogEntry(w, Order(Media(w))[i])]
  BY <1>4 DEF Log
<1>11. ASSUME NEW i \in 1 .. n + 1
       PROVE  LogEntry(w, Order(Media(w))[i]) = IF i = n + 1 THEN last ELSE Log(s)[i]
  <2>1. CASE i = n + 1 BY <1>4, <1>7, <2>1
  <2>2. CASE i # n + 1
    <3>1. i \in 1 .. n BY <1>2, <2>2
    <3>2. Log(s)[i] = LogEntry(s, Order(Media(s))[i]) BY <3>1 DEF Log
    <3> QED BY <1>4, <1>5, <1>6, <2>2, <3>1, <3>2
  <2> QED BY <2>1, <2>2
<1>12. Log(w) = Append(Log(s), last) BY <1>9, <1>10, <1>11
<1>13. \/ Cardinality(Riffs(w)) = Cardinality(Riffs(s))
       \/ /\ OpenDml /\ s.segment_packets > 0
          /\ Cardinality(Riffs(w)) = Cardinality(Riffs(s)) + 1
  BY <1>1, <1>2, FS_AddElement
<1> QED BY <1>12, <1>13 DEF last

\* Every segment on disk starts where the current one does or before, and the
\* packets segment_packets counts are behind that point.
Current(s) ==
  /\ \A r \in Riffs(s) : r <= s.riff_size_off - 4
  /\ s.segment_packets > 0 =>
       \E at \in DOMAIN s.disk : s.disk[at].id = "data" /\ s.riff_size_off - 4 < at

\* The condition under which a segment may be left behind.
LEMMA StartedLog ==
  ASSUME NEW s, Good(s), Current(s), s.segment_packets > 0
  PROVE  \E i \in DOMAIN Log(s) : /\ Log(s)[i].seg = Cardinality(Riffs(s))
                                  /\ Log(s)[i].chunk.id = "data"
<1>1. PICK at \in DOMAIN s.disk : s.disk[at].id = "data" /\ s.riff_size_off - 4 < at
  BY DEF Current
<1>2. Typed(s) /\ Below(s) BY DEF Good
<1>3. at \in Media(s) BY <1>1 DEF Media, MediaIds
<1>4. PICK i \in 1 .. Cardinality(Media(s)) : Order(Media(s))[i] = at
  BY <1>2, <1>3, MediaFinite DEF Ordered
<1>5. at \in Nat /\ s.riff_size_off \in Nat /\ Riffs(s) \subseteq Nat
  BY <1>2, <1>3, MediaFinite DEF Typed, MuxerRecord
<1>6. \A r \in Riffs(s) : r < at BY <1>1, <1>5 DEF Current
<1>7. Under(Riffs(s), at) = Riffs(s) BY <1>6 DEF Under
<1>8. i \in DOMAIN Log(s) /\ Log(s)[i] = LogEntry(s, at) BY <1>4 DEF Log
<1>9. LogEntry(s, at).seg = Cardinality(Riffs(s)) /\ LogEntry(s, at).chunk.id = "data"
  BY <1>1, <1>7 DEF LogEntry
<1> QED BY <1>8, <1>9
-----------------------------------------------------------------------------
(* The private methods                                                     *)

\* The step leaves the chunks and the current segment alone.
Calm(s, w) ==
  /\ Quiet(s, w)
  /\ w.riff_size_off = s.riff_size_off /\ w.segment_packets = s.segment_packets
  /\ w.trailer_written = s.trailer_written

LEMMA CalmTrans ==
  ASSUME NEW s, NEW v, NEW w, Calm(s, v), Calm(v, w)
  PROVE  Calm(s, w)
BY DEF Calm, Quiet

LEMMA CalmSame == ASSUME NEW s PROVE Calm(s, s)
BY DEF Calm, Quiet

LEMMA CalmCurrent ==
  ASSUME NEW s, Current(s), NEW w, Calm(s, w)
  PROVE  Current(w)
<1>1. \A at \in DOMAIN s.disk : s.disk[at].id = "data" => at \in Media(s)
  BY DEF Media, MediaIds
<1>2. \A at \in Media(w) : at \in DOMAIN w.disk BY DEF Media
<1> QED BY <1>1, <1>2 DEF Calm, Quiet, Current

\* A step that writes other chunks and patches the sizes of lists.
LEMMA CalmStep ==
  ASSUME NEW s, NEW w, NEW heads, NEW ids, Writes(s, w, heads, ids),
         ids \cap (MediaIds \cup {"RIFF"}) = {},
         \A at \in heads : at \in DOMAIN s.disk => s.disk[at].id \in ListIds,
         NEW F, Only(s, w, F),
         F \cap {"riff_size_off", "segment_packets", "trailer_written"} = {}
  PROVE  Calm(s, w)
<1>1. /\ w.riff_size_off = s.riff_size_off /\ w.segment_packets = s.segment_packets
      /\ w.trailer_written = s.trailer_written
  BY DEF Only, Fields
<1>2. \A at \in DOMAIN s.disk : at \in DOMAIN w.disk /\ w.disk[at].id = s.disk[at].id
  BY DEF Writes, Resized
<1>3. \A at \in DOMAIN w.disk : w.disk[at].id \in MediaIds \cup {"RIFF"} => at \in DOMAIN s.disk
  BY DEF Writes
<1>4. \A at \in Media(s) : at \notin heads /\ at \in DOMAIN s.disk
  BY DEF Media, MediaIds, ListIds
<1>5. \A at \in Media(s) : w.disk[at] = s.disk[at] BY <1>4 DEF Writes
<1>6. Media(w) = Media(s) /\ Riffs(w) = Riffs(s) BY <1>2, <1>3 DEF Media, Riffs
<1> QED BY <1>1, <1>5, <1>6 DEF Calm, Quiet

\* A step that writes nothing.
LEMMA CalmFields ==
  ASSUME NEW s, Typed(s), NEW w, NEW F, Only(s, w, F),
         F \cap {"disk", "pos", "riff_size_off", "segment_packets", "trailer_written"} = {}
  PROVE  Calm(s, w)
<1> DEFINE none == {}
<1>1. w.disk = s.disk /\ w.pos = s.pos BY DEF Only, Fields
<1>2. Writes(s, w, none, none) BY <1>1, WritesNothing
<1>3. /\ none \cap (MediaIds \cup {"RIFF"}) = {}
      /\ \A at \in none : at \in DOMAIN s.disk => s.disk[at].id \in ListIds
      /\ F \cap {"riff_size_off", "segment_packets", "trailer_written"} = {}
  OBVIOUS
<1> HIDE DEF none
<1> QED BY <1>2, <1>3, CalmStep

LEMMA SetOkCalm ==
  ASSUME NEW s, Typed(s), NEW b \in BOOLEAN, NEW w, w = SetOk(s, b)
  PROVE  Calm(s, w)
<1>1. Only(s, w, {"ok"}) BY DEF Typed, MuxerRecord, SetOk, Only, Fields
<1> QED BY <1>1, CalmFields

\* open_rec_cluster
LEMMA OpenRecClusterCalm ==
  ASSUME NEW s, Good(s), NEW w, w = OpenRecCluster(s)
  PROVE  Calm(s, w) /\ w.ok = s.ok
<1> DEFINE none == {}
           F == {"disk", "pos"} \cup ClusterFields
<1>1. Writes(s, w, none, {"rec"}) /\ Only(s, w, F) BY OpenRecClusterStep
<1>2. /\ {"rec"} \cap (MediaIds \cup {"RIFF"}) = {}
      /\ \A at \in none : at \in DOMAIN s.disk => s.disk[at].id \in ListIds
      /\ F \cap {"riff_size_off", "segment_packets", "trailer_written"} = {}
  BY DEF MediaIds, ClusterFields
<1>3. w.ok = s.ok BY <1>1 DEF Only, Fields, ClusterFields
<1> HIDE DEF none, F
<1> QED BY <1>1, <1>2, <1>3, CalmStep

\* close_rec_cluster
LEMMA CloseRecClusterCalm ==
  ASSUME NEW s, Good(s), s.ok, NEW w, w = CloseRecCluster(s)
  PROVE  Calm(s, w)
<1>1. CASE w = s BY <1>1, CalmSame
<1>2. CASE w.disk = s.disk /\ Only(s, w, {"ok", "disk", "rec_open_size_off"})
  <2>1. /\ Media(w) = Media(s) /\ Riffs(w) = Riffs(s)
        /\ w.riff_size_off = s.riff_size_off /\ w.segment_packets = s.segment_packets
        /\ w.trailer_written = s.trailer_written
    BY <1>2 DEF Media, Riffs, Only, Fields
  <2> QED BY <1>2, <2>1 DEF Calm, Quiet
<1>3. CASE s.rec_open_size_off # NoList /\ Closed(s, w)
  <2> DEFINE none == {}
             heads == {s.rec_open_size_off - 4}
             F == {"ok", "disk"} \cup ClusterFields
  <2>1. Writes(s, w, heads, none) /\ Only(s, w, F) BY <1>3 DEF Closed
  <2>2. /\ none \cap (MediaIds \cup {"RIFF"}) = {}
        /\ \A at \in heads : at \in DOMAIN s.disk => s.disk[at].id \in ListIds
        /\ F \cap {"riff_size_off", "segment_packets", "trailer_written"} = {}
    BY <1>3, ThreeHeads DEF ClusterFields
  <2> HIDE DEF none, heads, F
  <2> QED BY <2>1, <2>2, CalmStep
<1> QED BY <1>1, <1>2, <1>3, CloseRecClusterStep

\* The cluster step: no cluster is open right after a roll, and then it cannot
\* fail.
LEMMA ClusterCalm ==
  ASSUME NEW s, Sound(s), s.ok, NEW len, NEW w, w = Cluster(s, len)
  PROVE  Calm(s, w) /\ (s.rec_open_size_off = NoList => w.ok)
<1> DEFINE c == CloseRecCluster(s)
<1>1. Good(s) BY DEF Sound
<1>2. CASE w = s BY <1>2, CalmSame
<1>3. CASE w = OpenRecCluster(s) BY <1>1, <1>3, OpenRecClusterCalm
<1>4. CASE s.rec_open_size_off # NoList /\ w = Then(c, OpenRecCluster(c))
  <2>1. Calm(s, c) /\ Sound(c) BY <1>1, CloseRecClusterCalm, CloseRecClusterSound
  <2> HIDE DEF c
  <2>2. Good(c) BY <2>1 DEF Sound
  <2>3. Calm(c, OpenRecCluster(c)) BY <2>2, OpenRecClusterCalm
  <2> QED BY <1>4, <2>1, <2>3, CalmTrans DEF Then
<1> QED BY <1>2, <1>3, <1>4 DEF Cluster

\* Flushing index entries.
LEMMA FlushCalm ==
  ASSUME NEW s, NEW w, IxFlush(s, w)
  PROVE  Calm(s, w)
<1> DEFINE none == {}
           F == {"disk", "pos", "tracks"}
<1>1. Writes(s, w, none, {"ix"}) /\ Only(s, w, F) BY DEF IxFlush
<1>2. /\ {"ix"} \cap (MediaIds \cup {"RIFF"}) = {}
      /\ \A at \in none : at \in DOMAIN s.disk => s.disk[at].id \in ListIds
      /\ F \cap {"riff_size_off", "segment_packets", "trailer_written"} = {}
  BY DEF MediaIds
<1> HIDE DEF none, F
<1> QED BY <1>1, <1>2, CalmStep

\* Closing a segment.
LEMMA FinishSegmentCalm ==
  ASSUME NEW s, Good(s), s.ok, NEW w, w = FinishSegment(s)
  PROVE  Calm(s, w)
<1> DEFINE heads == {s.riff_size_off - 4, s.movi_size_off - 4}
           F == {"ok", "disk", "pos", "segments"}
<1>1. Writes(s, w, heads, {"idx1"}) /\ Only(s, w, F) BY FinishSegmentStep
<1>2. /\ {"idx1"} \cap (MediaIds \cup {"RIFF"}) = {}
      /\ \A at \in heads : at \in DOMAIN s.disk => s.disk[at].id \in ListIds
      /\ F \cap {"riff_size_off", "segment_packets", "trailer_written"} = {}
  BY ThreeHeads DEF MediaIds
<1> HIDE DEF heads, F
<1> QED BY <1>1, <1>2, CalmStep

LEMMA CloseCurrentSegmentCalm ==
  ASSUME NEW s, Sound(s), s.ok, NEW w, w = CloseCurrentSegment(s)
  PROVE  Calm(s, w) /\ Sound(w)
<1> DEFINE a == SetActive(s, FALSE)
           c == CloseRecCluster(a)
           x == FlushIxChunks(c)
           f == FinishSegment(x)
<1>1. w = IF c.ok THEN f ELSE c
  BY DEF CloseCurrentSegment, Then, SetActive
<1>2. Sound(w) BY CloseCurrentSegmentSound
<1>3. Sound(a) /\ a.ok /\ Calm(s, a)
  <2>1. Only(s, a, {"strl_std_active"})
    BY DEF Sound, Good, Typed, MuxerRecord, SetActive, Only, Fields
  <2>2. Calm(s, a) BY <2>1, CalmFields DEF Sound, Good
  <2> QED BY <2>2, SetActiveSound
<1> HIDE DEF a
<1>4. Sound(c) /\ Calm(a, c) /\ c.rec_open_size_off = NoList
  <2>1. Good(a) BY <1>3 DEF Sound
  <2> QED BY <1>3, <2>1, CloseRecClusterSound, CloseRecClusterGood, CloseRecClusterCalm
<1> HIDE DEF c
<1>5. Sound(x) /\ Calm(c, x) /\ x.ok = c.ok
  <2>1. Good(c) BY <1>4 DEF Sound
  <2>2. IxFlush(c, x) BY <2>1, FlushIxChunksStep
  <2> QED BY <1>4, <2>2, FlushCalm, FlushIxChunksSound
<1> HIDE DEF x
<1>6. c.ok => Calm(x, f)
  <2>1. Good(x) BY <1>5 DEF Sound
  <2> QED BY <1>5, <2>1, FinishSegmentCalm
<1> HIDE DEF f
<1> QED BY <1>1, <1>2, <1>3, <1>4, <1>5, <1>6, CalmTrans

\* The step starts a segment behind one that has a packet.
Rolled(s, w) ==
  /\ OpenDml /\ s.segment_packets > 0
  /\ Media(w) = Media(s) /\ \A at \in Media(s) : w.disk[at] = s.disk[at]
  /\ w.segment_packets = 0 /\ w.trailer_written = s.trailer_written
  /\ \E r \in Nat : /\ Riffs(w) = Riffs(s) \cup {r}
                    /\ \A at \in DOMAIN s.disk : at < r
                    /\ w.riff_size_off - 4 = r

\* The roll, which leaves no cluster open.
LEMMA RollCalm ==
  ASSUME NEW s, Going(s), s.ok, NEW len, NEW w, w = Roll(s, len)
  PROVE  \/ Calm(s, w)
         \/ Rolled(s, w) /\ w.ok /\ w.rec_open_size_off = NoList
<1> DEFINE c == CloseCurrentSegment(s)
           a == OpenAvixSegment(c)
<1>1. \/ w = s
      \/ OpenDml /\ s.segment_packets > 0 /\ w = IF c.ok THEN a ELSE c
  BY DEF Roll, MustRoll, Then
<1>2. Calm(s, c) /\ Sound(c) BY CloseCurrentSegmentCalm DEF Going
<1>3. \A at \in DOMAIN s.disk : at < c.pos
  <2>1. Typed(s) /\ Typed(c) /\ Below(s) BY <1>2 DEF Going, Sound, Good
  <2>2. c.pos >= s.pos BY CloseCurrentSegmentGoing DEF Tidy
  <2>3. s.pos \in Nat /\ c.pos \in Nat BY <2>1 DEF Typed, MuxerRecord
  <2> HIDE DEF c
  <2>4. \A at \in DOMAIN s.disk : at \in Nat /\ at < s.pos
    BY <2>1 DEF Typed, DiskOK, Below
  <2> QED BY <2>2, <2>3, <2>4
<1> HIDE DEF c
<1>4. CASE w = s BY <1>4, CalmSame
<1>5. CASE ~c.ok /\ w = c BY <1>2, <1>5
<1>6. CASE OpenDml /\ s.segment_packets > 0 /\ c.ok /\ w = a
  <2>1. Good(c) BY <1>2 DEF Sound
  <2>2. /\ Writes(c, w, {}, {"RIFF", "movi"})
        /\ Only(c, w, {"disk", "pos", "riff_size_off", "movi_size_off", "segment_packets",
                       "rec_open_size_off", "rec_open_idx1_slot", "rec_packets", "rec_bytes"})
        /\ w.rec_open_size_off = NoList /\ w.riff_size_off = c.pos + 4
        /\ DOMAIN w.disk = DOMAIN c.disk \cup {c.pos, c.pos + 12}
        /\ w.disk[c.pos] = Cell("RIFF", NoTrack, 0)
        /\ w.disk[c.pos + 12] = Cell("movi", NoTrack, 0)
    BY <1>6, <2>1, OpenAvixSegmentStep
  <2>3. w.ok = c.ok /\ w.trailer_written = c.trailer_written
    BY <2>2 DEF Only, Fields
  <2>4. w.segment_packets = 0 BY <1>6 DEF OpenAvixSegment
  <2>5. c.pos \in Nat /\ c.pos \notin DOMAIN c.disk /\ c.pos + 12 \notin DOMAIN c.disk
    BY SMTT(40), <2>1 DEF Good, Typed, MuxerRecord, DiskOK, Below
  <2>6. \A at \in DOMAIN c.disk : at \in DOMAIN w.disk /\ w.disk[at] = c.disk[at]
    BY <2>2 DEF Writes
  <2>7. w.disk[c.pos].id = "RIFF" /\ w.disk[c.pos + 12].id = "movi"
    BY <2>2 DEF Cell
  <2>8. Media(w) = Media(c) /\ Riffs(w) = Riffs(c) \cup {c.pos}
    BY <2>2, <2>5, <2>6, <2>7 DEF Media, Riffs, MediaIds
  <2>9. \A at \in Media(c) : w.disk[at] = c.disk[at] BY <2>6 DEF Media
  <2>10. w.riff_size_off - 4 = c.pos BY <2>2, <2>5
  <2> QED BY <1>2, <1>3, <1>6, <2>2, <2>3, <2>4, <2>5, <2>8, <2>9, <2>10
          DEF Calm, Quiet, Rolled
<1> QED BY <1>1, <1>4, <1>5, <1>6

\* emit_padding_junk_for
LEMMA EmitPaddingJunkCalm ==
  ASSUME NEW s, Good(s), NEW w, w = EmitPaddingJunk(s), opts \in Options
  PROVE  Calm(s, w) /\ w.ok = s.ok
<1> DEFINE none == {}
           F == {"disk", "pos", "rec_bytes"}
<1>1. Writes(s, w, none, {"JUNK"}) /\ Only(s, w, F) BY EmitPaddingJunkStep
<1>2. /\ {"JUNK"} \cap (MediaIds \cup {"RIFF"}) = {}
      /\ \A at \in none : at \in DOMAIN s.disk => s.disk[at].id \in ListIds
      /\ F \cap {"riff_size_off", "segment_packets", "trailer_written"} = {}
  BY DEF MediaIds
<1>3. w.ok = s.ok BY <1>1 DEF Only, Fields
<1> HIDE DEF none, F
<1> QED BY <1>1, <1>2, <1>3, CalmStep

\* The mid-movi flush.
LEMMA MidMoviFlushCalm ==
  ASSUME NEW s, Sound(s), s.ok, NEW t \in Streams, NEW w, w = MidMoviFlush(s, t)
  PROVE  Calm(s, w)
<1> DEFINE c == CloseRecCluster(s)
           x == FlushIxForTrack(c, t)
<1>1. w = s \/ w = c \/ w = x BY DEF MidMoviFlush, Then
<1>2. Calm(s, c) /\ Good(c) BY CloseRecClusterCalm, CloseRecClusterGood DEF Sound
<1> HIDE DEF c
<1>3. IxFlush(c, x) BY <1>2, FlushIxForTrackStep
<1>4. Calm(c, x) BY <1>3, FlushCalm
<1> QED BY <1>1, <1>2, <1>4, CalmSame, CalmTrans

\* The 2 GiB test.
LEMMA CheckCeilingCalm ==
  ASSUME NEW s, Typed(s), NEW w, w = CheckCeiling(s)
  PROVE  Calm(s, w)
<1>1. w = s \/ w = SetOk(s, FALSE) BY DEF CheckCeiling, SetOk
<1> QED BY <1>1, CalmSame, SetOkCalm

\* A chunk placed behind everything on disk.
LEMMA PlacedAdded ==
  ASSUME NEW s, Good(s), Current(s), NEW cell, IsMedia(cell), NEW w, Placed(s, w, cell),
         w.riff_size_off = s.riff_size_off,
         w.segment_packets > 0 => s.segment_packets > 0 \/ cell.id = "data"
  PROVE  /\ Current(w)
         /\ s.pos \in Nat /\ \A at \in DOMAIN s.disk : at < s.pos
         /\ Media(w) = Media(s) \cup {s.pos} /\ w.disk[s.pos] = cell
         /\ Riffs(w) = Riffs(s)
         /\ \A at \in DOMAIN s.disk : w.disk[at] = s.disk[at]
<1>1. /\ DOMAIN w.disk = DOMAIN s.disk \cup {s.pos} /\ w.disk[s.pos] = cell
      /\ \A at \in DOMAIN s.disk : w.disk[at] = s.disk[at] /\ at # s.pos
  BY DEF Placed
<1>2. s.pos \in Nat /\ \A at \in DOMAIN s.disk : at < s.pos
  BY DEF Good, Typed, MuxerRecord, Below
<1>3. cell.id \in MediaIds /\ cell.id # "RIFF" BY DEF IsMedia, MediaIds
<1>4. Media(w) = Media(s) \cup {s.pos} /\ Riffs(w) = Riffs(s)
  BY <1>1, <1>3 DEF Media, Riffs
<1>5. s.riff_size_off - 4 < s.pos BY <1>2 DEF Good, Heads, IsList
<1>6. Current(w)
  <2>1. \A r \in Riffs(w) : r <= w.riff_size_off - 4 BY <1>4 DEF Current
  <2>2. ASSUME s.segment_packets > 0
        PROVE  \E at \in DOMAIN w.disk : w.disk[at].id = "data" /\ w.riff_size_off - 4 < at
    BY <1>1, <2>2 DEF Current
  <2>3. ASSUME cell.id = "data"
        PROVE  \E at \in DOMAIN w.disk : w.disk[at].id = "data" /\ w.riff_size_off - 4 < at
    BY <1>1, <1>5, <2>3
  <2> QED BY <2>1, <2>2, <2>3 DEF Current
<1> QED BY <1>1, <1>2, <1>4, <1>6


-----------------------------------------------------------------------------
(* A call that places a chunk                                              *)

\* The part of a call before the chunk is placed: it leaves the chunks and the
\* segments alone, or it has rolled and has not failed.
Ahead(s, w) == Calm(s, w) \/ (Rolled(s, w) /\ w.ok)

LEMMA AheadCalm ==
  ASSUME NEW s, NEW v, NEW w, Ahead(s, v), Calm(v, w), v.ok => w.ok \/ Calm(s, v)
  PROVE  Ahead(s, w)
<1>1. CASE Calm(s, v) BY <1>1, CalmTrans DEF Ahead
<1>2. CASE Rolled(s, v) /\ v.ok /\ w.ok
  BY <1>2 DEF Ahead, Rolled, Calm, Quiet
<1> QED BY <1>1, <1>2 DEF Ahead

LEMMA AheadCurrent ==
  ASSUME NEW s, Typed(s), Current(s), NEW w, Ahead(s, w)
  PROVE  Current(w)
<1>1. CASE Calm(s, w) BY <1>1, CalmCurrent
<1>2. CASE Rolled(s, w)
  <2>1. PICK r \in Nat : /\ Riffs(w) = Riffs(s) \cup {r}
                         /\ \A at \in DOMAIN s.disk : at < r
                         /\ w.riff_size_off - 4 = r
    BY <1>2 DEF Rolled
  <2>2. \A q \in Riffs(s) : q < r /\ q \in Nat
    BY <2>1 DEF Riffs, Typed, DiskOK
  <2>3. \A q \in Riffs(w) : q <= w.riff_size_off - 4 BY <2>1, <2>2
  <2>4. ~(w.segment_packets > 0) BY <1>2 DEF Rolled
  <2> QED BY <2>3, <2>4 DEF Current
<1> QED BY <1>1, <1>2 DEF Ahead

\* A chunk placed after such a part is one chunk more, at the end.
LEMMA AheadAdded ==
  ASSUME NEW s, Typed(s), NEW v, Good(v), Ahead(s, v), Current(v),
         NEW cell, IsMedia(cell), NEW w, Placed(v, w, cell),
         w.riff_size_off = v.riff_size_off,
         w.segment_packets > 0 => v.segment_packets > 0 \/ cell.id = "data"
  PROVE  Added(s, w, cell) /\ Current(w)
<1>1. /\ Current(w)
      /\ v.pos \in Nat /\ \A at \in DOMAIN v.disk : at < v.pos
      /\ Media(w) = Media(v) \cup {v.pos} /\ w.disk[v.pos] = cell
      /\ Riffs(w) = Riffs(v)
      /\ \A at \in DOMAIN v.disk : w.disk[at] = v.disk[at]
  BY PlacedAdded
<1>2. /\ Media(v) = Media(s)
      /\ \A at \in Media(s) : v.disk[at] = s.disk[at]
  BY DEF Ahead, Calm, Quiet, Rolled
<1>3. \A at \in Media(s) : at < v.pos /\ w.disk[at] = s.disk[at]
  <2>1. \A at \in Media(v) : at \in DOMAIN v.disk BY DEF Media
  <2> QED BY <1>1, <1>2, <2>1
<1>4. \A r \in Riffs(w) : r < v.pos BY <1>1 DEF Riffs
<1>5. \/ Riffs(w) = Riffs(s)
      \/ /\ OpenDml /\ s.segment_packets > 0
         /\ \E r \in Nat : /\ Riffs(w) = Riffs(s) \cup {r} /\ r \notin Riffs(s)
                           /\ \A at \in Media(s) : at < r
  <2>1. CASE Calm(s, v) BY <1>1, <2>1 DEF Calm, Quiet
  <2>2. CASE Rolled(s, v)
    <3>1. PICK r \in Nat : Riffs(v) = Riffs(s) \cup {r} /\ \A at \in DOMAIN s.disk : at < r
      BY <2>2 DEF Rolled
    <3>2. r \notin DOMAIN s.disk BY <3>1
    <3>3. r \notin Riffs(s) /\ \A at \in Media(s) : at < r
      BY <3>1, <3>2 DEF Riffs, Media
    <3> QED BY <1>1, <2>2, <3>1, <3>3 DEF Rolled
  <2> QED BY <2>1, <2>2 DEF Ahead
<1>6. Media(w) = Media(s) \cup {v.pos} BY <1>1, <1>2
<1> QED BY <1>1, <1>3, <1>4, <1>5, <1>6 DEF Added

\* What follows the chunk leaves it alone.
LEMMA AddedCalm ==
  ASSUME NEW s, NEW v, NEW w, NEW cell, Added(s, v, cell), Calm(v, w)
  PROVE  Added(s, w, cell)
<1>1. PICK p \in Nat :
        /\ Media(v) = Media(s) \cup {p} /\ v.disk[p] = cell
        /\ \A at \in Media(s) : at < p /\ v.disk[at] = s.disk[at]
        /\ \A r \in Riffs(v) : r < p
        /\ \/ Riffs(v) = Riffs(s)
           \/ /\ OpenDml /\ s.segment_packets > 0
              /\ \E r \in Nat : /\ Riffs(v) = Riffs(s) \cup {r} /\ r \notin Riffs(s)
                                /\ \A at \in Media(s) : at < r
  BY DEF Added
<1>2. Media(w) = Media(v) /\ Riffs(w) = Riffs(v) /\ \A at \in Media(v) : w.disk[at] = v.disk[at]
  BY DEF Calm, Quiet
<1> QED BY <1>1, <1>2 DEF Added

-----------------------------------------------------------------------------
(* The steps of the specification                                          *)

RInv ==
  /\ DInv
  /\ m.header_written /\ trailers = 0 => Current(m)

\* What a step of the muxer is to the container.
Leaves == Quiet(m, m') /\ m'.trailer_written = m.trailer_written /\ opts' = opts

Adds1(cell) ==
  /\ Added(m, m', cell)
  /\ Good(m) /\ Current(m) /\ Good(m')
  /\ ~m.trailer_written /\ ~m'.trailer_written /\ opts' = opts

\* write_packet
LEMMA WritePacketAdds ==
  ASSUME RInv, Disciplined, NEW p \in Packets, WritePacket(p)
  PROVE  (Leaves \/ Adds1(PacketCell(p))) /\ Current(m')
<1> DEFINE s0 == SetOk(m, TRUE)
           s1 == Roll(s0, p.len)
           s2 == Then(s1, Cluster(s1, p.len))
           s3 == Then(s2, EmitPaddingJunk(s2))
           s4 == Then(s3, PlacePacket(s3, s3.pos, p))
           s5 == Then(s4, MidMoviFlush(s4, p.trk))
           s6 == Then(s5, CheckCeiling(s5))
<1>1. m' = s6 /\ opts' = opts /\ trailers' = trailers
  BY PacketSteps
<1>2. opts \in Options /\ p.trk \in Streams /\ IsMedia(PacketCell(p)) /\ PacketCell(p).id = "data"
  BY PacketCellMedia DEF RInv, DInv, SInv
<1>3. Going(m) /\ Current(m) BY DEF RInv, DInv, WritePacket, MayWrite
<1>4. Going(s0) /\ s0.ok /\ Calm(m, s0)
  <2>1. Typed(m) BY <1>3 DEF Going, Sound, Good
  <2> QED BY <1>3, <2>1, SetOkGoing, OkTyped, SetOkCalm
<1> HIDE DEF s0
<1>5. Current(s0) BY <1>3, <1>4, CalmCurrent
<1>6. Going(s1) /\ (Calm(s0, s1) \/ (Rolled(s0, s1) /\ s1.ok /\ s1.rec_open_size_off = NoList))
  BY <1>4, RollGoing, RollCalm
<1> HIDE DEF s1
<1>7. Going(s2) /\ Ahead(s0, s2) /\ (s2.ok => s1.ok)
  <2>1. CASE ~s1.ok
    <3>1. s2 = s1 BY <2>1 DEF Then
    <3> QED BY <1>6, <2>1, <3>1 DEF Ahead
  <2>2. CASE s1.ok
    <3>1. s2 = Cluster(s1, p.len) BY <2>2 DEF Then
    <3> HIDE DEF s2
    <3>2. Sound(s1) BY <1>6 DEF Going
    <3>3. Calm(s1, s2) /\ (s1.rec_open_size_off = NoList => s2.ok)
      BY <2>2, <3>1, <3>2, ClusterCalm
    <3>4. Ahead(s0, s1) BY <1>6 DEF Ahead
    <3>5. s1.ok => s2.ok \/ Calm(s0, s1) BY <1>6, <3>3
    <3>6. Ahead(s0, s2) BY <3>3, <3>4, <3>5, AheadCalm
    <3>7. Going(s2) BY <1>2, <1>6, <2>2, <3>1, ClusterGoing
    <3> QED BY <2>2, <3>6, <3>7
  <2> QED BY <2>1, <2>2
<1> HIDE DEF s2
<1>8. /\ Going(s3) /\ Ahead(s0, s3) /\ (s3.ok => s2.ok)
      /\ s3.ok => (opts.granularity > 0 => s3.pos % opts.granularity = 0)
  <2>1. CASE ~s2.ok
    <3>1. s3 = s2 BY <2>1 DEF Then
    <3> QED BY <1>7, <2>1, <3>1
  <2>2. CASE s2.ok
    <3>1. s3 = EmitPaddingJunk(s2) BY <2>2 DEF Then
    <3> HIDE DEF s3
    <3>2. Sound(s2) /\ Good(s2) BY <1>7 DEF Going, Sound
    <3>3. Calm(s2, s3) /\ s3.ok = s2.ok BY <1>2, <3>1, <3>2, EmitPaddingJunkCalm
    <3>4. Ahead(s0, s3) BY <1>7, <2>2, <3>3, AheadCalm
    <3>5. Going(s3) BY <1>2, <1>7, <3>1, EmitPaddingJunkGoing
    <3>6. opts.granularity > 0 => s3.pos % opts.granularity = 0
      BY <1>2, <3>1, <3>2, EmitPaddingJunkSound
    <3> QED BY <2>2, <3>4, <3>5, <3>6
  <2> QED BY <2>1, <2>2
<1> HIDE DEF s3
<1>9. CASE ~s3.ok
  <2>1. m' = s3 BY <1>1, <1>9 DEF Then
  <2>2. Calm(s0, s3) BY <1>8, <1>9 DEF Ahead
  <2>3. Calm(m, s3) BY <1>4, <2>2, CalmTrans
  <2>4. Current(s3) BY <1>3, <2>3, CalmCurrent
  <2> QED BY <1>1, <2>1, <2>3, <2>4 DEF Leaves, Calm
<1>10. CASE s3.ok
  <2>1. s4 = PlacePacket(s3, s3.pos, p) BY <1>10 DEF Then
  <2>2. Going(s4) BY <1>2, <1>8, <1>10, <2>1, PlacePacketGoing
  <2> HIDE DEF s4
  <2>3. Typed(s0) /\ Good(s3) BY <1>4, <1>8 DEF Going, Sound, Good
  <2>4. Current(s3) BY <1>5, <1>8, <2>3, AheadCurrent
  <2>5. /\ Placed(s3, s4, PacketCell(p))
        /\ Only(s3, s4, PlaceFields \cup {"segment_packets", "pending_field2"})
    BY <2>1, <2>3, PlacePacketStep
  <2>6. s4.riff_size_off = s3.riff_size_off BY <2>5 DEF Only, Fields, PlaceFields
  <2>7. Added(s0, s4, PacketCell(p)) /\ Current(s4)
    BY <1>2, <1>8, <2>3, <2>4, <2>5, <2>6, AheadAdded
  <2>8. Going(s5) /\ Calm(s4, s5)
    <3>1. CASE ~s4.ok
      <4>1. s5 = s4 BY <3>1 DEF Then
      <4> QED BY <2>2, <4>1, CalmSame
    <3>2. CASE s4.ok
      <4>1. s5 = MidMoviFlush(s4, p.trk) BY <3>2 DEF Then
      <4> HIDE DEF s5
      <4> QED BY <1>2, <2>2, <3>2, <4>1, MidMoviFlushGoing, MidMoviFlushCalm DEF Going
    <3> QED BY <3>1, <3>2
  <2> HIDE DEF s5
  <2>9. Going(s6) /\ Calm(s5, s6)
    <3>1. Typed(s5) BY <2>8 DEF Going, Sound, Good
    <3> QED BY <2>8, <3>1, CheckCeilingGoing, CheckCeilingCalm, CalmSame DEF Then
  <2> HIDE DEF s6
  <2>10. Calm(s4, s6) BY <2>8, <2>9, CalmTrans
  <2>11. Added(s0, s6, PacketCell(p)) /\ Current(s6)
    BY <2>7, <2>10, AddedCalm, CalmCurrent
  <2>12. Added(m, s6, PacketCell(p)) BY <1>4, <2>11 DEF Calm, Quiet, Added
  <2>13. Good(m) /\ Good(s6) /\ ~m.trailer_written /\ ~s6.trailer_written
    BY <1>3, <2>9 DEF Going, Sound
  <2> QED BY <1>1, <1>3, <2>11, <2>12, <2>13 DEF Adds1
<1> QED BY <1>9, <1>10

\* write_text_chunk and write_palette_change
LEMMA WriteSidebandChunkAdds ==
  ASSUME RInv, Disciplined, NEW c \in SideChunks, WriteSidebandChunk(c)
  PROVE  (Leaves \/ Adds1(Cell(c.kind, c.trk, c.len))) /\ Current(m')
<1> DEFINE cell == Cell(c.kind, c.trk, c.len)
           s0 == SetOk(m, TRUE)
           s1 == Roll(s0, c.len)
           s2 == Then(s1, Cluster(s1, c.len))
           s3 == Then(s2, PlaceChunk(s2, s2.pos, cell, NoField2))
<1>1. m' = s3 /\ opts' = opts /\ trailers' = trailers
  BY DEF WriteSidebandChunk, SetOk
<1>2. opts \in Options /\ IsMedia(cell) /\ cell.id # "data"
  BY SideCellMedia DEF RInv, DInv, SInv
<1> HIDE DEF cell
<1>3. Going(m) /\ Current(m) BY DEF RInv, DInv, WriteSidebandChunk, MayWrite
<1>4. Going(s0) /\ s0.ok /\ Calm(m, s0)
  <2>1. Typed(m) BY <1>3 DEF Going, Sound, Good
  <2> QED BY <1>3, <2>1, SetOkGoing, OkTyped, SetOkCalm
<1> HIDE DEF s0
<1>5. Current(s0) BY <1>3, <1>4, CalmCurrent
<1>6. Going(s1) /\ (Calm(s0, s1) \/ (Rolled(s0, s1) /\ s1.ok /\ s1.rec_open_size_off = NoList))
  BY <1>4, RollGoing, RollCalm
<1> HIDE DEF s1
<1>7. Going(s2) /\ Ahead(s0, s2) /\ (s2.ok => s1.ok)
  <2>1. CASE ~s1.ok
    <3>1. s2 = s1 BY <2>1 DEF Then
    <3> QED BY <1>6, <2>1, <3>1 DEF Ahead
  <2>2. CASE s1.ok
    <3>1. s2 = Cluster(s1, c.len) BY <2>2 DEF Then
    <3> HIDE DEF s2
    <3>2. Sound(s1) BY <1>6 DEF Going
    <3>3. Calm(s1, s2) /\ (s1.rec_open_size_off = NoList => s2.ok)
      BY <2>2, <3>1, <3>2, ClusterCalm
    <3>4. Ahead(s0, s1) BY <1>6 DEF Ahead
    <3>5. s1.ok => s2.ok \/ Calm(s0, s1) BY <1>6, <3>3
    <3>6. Ahead(s0, s2) BY <3>3, <3>4, <3>5, AheadCalm
    <3>7. Going(s2) BY <1>2, <1>6, <2>2, <3>1, ClusterGoing
    <3> QED BY <2>2, <3>6, <3>7
  <2> QED BY <2>1, <2>2
<1> HIDE DEF s2
<1>8. CASE ~s2.ok
  <2>1. m' = s2 BY <1>1, <1>8 DEF Then
  <2>2. Calm(s0, s2) BY <1>7, <1>8 DEF Ahead
  <2>3. Calm(m, s2) BY <1>4, <2>2, CalmTrans
  <2>4. Current(s2) BY <1>3, <2>3, CalmCurrent
  <2> QED BY <1>1, <2>1, <2>3, <2>4 DEF Leaves, Calm
<1>9. CASE s2.ok
  <2>1. s3 = PlaceChunk(s2, s2.pos, cell, NoField2) BY <1>9 DEF Then
  <2>2. Going(s3) BY <1>2, <1>7, <2>1, PlaceSideGoing
  <2> HIDE DEF s3
  <2>3. Typed(s0) /\ Good(s2) BY <1>4, <1>7 DEF Going, Sound, Good
  <2>4. Current(s2) BY <1>5, <1>7, <2>3, AheadCurrent
  <2>5. Placed(s2, s3, cell) /\ Only(s2, s3, PlaceFields)
    BY <1>2, <2>1, <2>3, PlaceChunkStep
  <2>6. s3.riff_size_off = s2.riff_size_off /\ s3.segment_packets = s2.segment_packets
    BY <2>5 DEF Only, Fields, PlaceFields
  <2>7. Added(s0, s3, cell) /\ Current(s3)
    BY <1>2, <1>7, <2>3, <2>4, <2>5, <2>6, AheadAdded
  <2>8. Added(m, s3, cell) BY <1>4, <2>7 DEF Calm, Quiet, Added
  <2>9. Good(m) /\ Good(s3) /\ ~m.trailer_written /\ ~s3.trailer_written
    BY <1>3, <2>2 DEF Going, Sound
  <2> QED BY <1>1, <1>3, <2>7, <2>8, <2>9 DEF Adds1, cell
<1> QED BY <1>8, <1>9

\* write_trailer
LEMMA WriteTrailerQuiet ==
  ASSUME RInv, Disciplined, WriteTrailer
  PROVE  Quiet(m, m') /\ Good(m) /\ ~m.trailer_written /\ opts' = opts
<1> DEFINE s0 == SetOk(m, TRUE)
           s1 == CloseRecCluster(s0)
           s2 == IF OpenDml /\ ~s1.strl_std_active THEN FlushIxChunks(s1) ELSE s1
           f == FinishSegment(s2)
           s3 == Then(s1, f)
           s4 == Conclude(PatchIndx(PatchPostCounts(s3)))
<1>1. m' = Then(s3, s4) /\ opts' = opts
  BY DEF WriteTrailer, SetOk
<1>2. Going(m) /\ opts \in Options BY DEF RInv, DInv, SInv, WriteTrailer
<1>3. Sound(s0) /\ s0.ok /\ Calm(m, s0)
  <2>1. Typed(m) BY <1>2 DEF Going, Sound, Good
  <2> QED BY <1>2, <2>1, SetOkGoing, OkTyped, SetOkCalm DEF Going
<1> HIDE DEF s0
<1>4. Sound(s1) /\ Calm(s0, s1) /\ s1.rec_open_size_off = NoList
  <2>1. Good(s0) BY <1>3 DEF Sound
  <2> QED BY <1>3, <2>1, CloseRecClusterSound, CloseRecClusterGood, CloseRecClusterCalm
<1> HIDE DEF s1
<1>5. Good(s1) BY <1>4 DEF Sound
<1>6. Sound(s2) /\ Calm(s1, s2) /\ s2.ok = s1.ok /\ s2.rec_open_size_off = NoList
  <2>1. CASE s2 = FlushIxChunks(s1)
    <3> HIDE DEF s2
    <3>1. IxFlush(s1, s2) BY <1>5, <2>1, FlushIxChunksStep
    <3> QED BY <1>4, <2>1, <3>1, FlushCalm, FlushIxChunksSound
  <2>2. CASE s2 = s1
    <3> HIDE DEF s2
    <3> QED BY <1>4, <2>2, CalmSame
  <2> QED BY <2>1, <2>2
<1> HIDE DEF s2
<1>7. Good(s2) BY <1>6 DEF Sound
<1>8. s1.ok => Sound(f) /\ Calm(s2, f)
  BY <1>6, <1>7, FinishSegmentCalm, FinishSegmentSound
<1> HIDE DEF f
<1>9. Calm(m, s1) /\ Calm(m, s2) BY <1>3, <1>4, <1>6, CalmTrans
<1>10. Good(m) /\ ~m.trailer_written BY <1>2 DEF Going, Sound
<1>11. CASE ~s1.ok
  <2>1. m' = s1 BY <1>1, <1>11 DEF Then
  <2> QED BY <1>1, <1>9, <1>10, <2>1 DEF Calm
<1>12. CASE s1.ok
  <2>1. s3 = f /\ Calm(m, f) BY <1>8, <1>9, <1>12, CalmTrans DEF Then
  <2> HIDE DEF s3
  <2>2. CASE ~f.ok
    <3>1. m' = f BY <1>1, <2>1, <2>2 DEF Then
    <3> QED BY <1>1, <1>10, <2>1, <3>1 DEF Calm
  <2>3. CASE f.ok
    <3>1. m' = s4 BY <1>1, <2>1, <2>3 DEF Then
    <3>2. s4.disk = f.disk
      <4> DEFINE a == PatchPostCounts(f)
                 b == PatchIndx(a)
      <4>1. Sound(f) /\ Good(f) BY <1>8, <1>12 DEF Sound
      <4>2. Sound(a) /\ Good(a) /\ Only(f, a, {"stamp"})
        BY <4>1, PatchPostCountsSound, PatchPostCountsStep DEF Sound
      <4> HIDE DEF a
      <4>3. Sound(b) /\ Good(b) /\ Only(a, b, {"tracks"})
        BY <1>2, <4>2, PatchIndxSound, PatchIndxStep DEF Sound
      <4> HIDE DEF b
      <4>4. s4 = Conclude(b) BY <2>1 DEF a, b
      <4> HIDE DEF s4
      <4>5. Only(b, s4, {"over_budget", "ok", "trailer_written"})
        BY <4>3, <4>4, ConcludeStep
      <4> QED BY <4>2, <4>3, <4>5 DEF Only, Fields
    <3> HIDE DEF s4
    <3>3. Quiet(m, s4) BY <2>1, <3>2 DEF Calm, Quiet, Media, Riffs
    <3> QED BY <1>1, <1>10, <3>1, <3>3
  <2> QED BY <2>2, <2>3
<1> QED BY <1>11, <1>12

\* The calls that write nothing.
LEMMA LightQuiet ==
  ASSUME RInv, (\E off \in Field2Offs : SetField2Offset(off)) \/ EarlyReturn
  PROVE  Leaves /\ Calm(m, m')
<1>1. Typed(m) BY DEF RInv, DInv, SInv, Sound, Early, Good, Fresh
<1>2. opts' = opts BY DEF SetField2Offset, EarlyReturn
<1>3. Only(m, m', {"ok", "pending_field2"})
  <2>1. ASSUME NEW off \in Field2Offs, SetField2Offset(off)
        PROVE  Only(m, m', {"ok", "pending_field2"})
    <3>1. m' = SetPending(m, off) BY <2>1 DEF SetField2Offset, SetPending
    <3> QED BY <1>1, <3>1 DEF Typed, MuxerRecord, SetPending, Only, Fields
  <2>2. ASSUME EarlyReturn PROVE Only(m, m', {"ok", "pending_field2"})
    <3>1. PICK b \in BOOLEAN : m' = SetOk(m, b)
      BY <2>2 DEF EarlyReturn, SetOk
    <3> QED BY <1>1, <3>1 DEF Typed, MuxerRecord, SetOk, Only, Fields
  <2> QED BY <2>1, <2>2
<1>4. Calm(m, m') BY <1>1, <1>3, CalmFields
<1> QED BY <1>2, <1>4 DEF Leaves, Calm

\* write_header
LEMMA WriteHeaderOpens ==
  ASSUME RInv, WriteHeader
  PROVE  /\ Media(m) = {} /\ Riffs(m) = {} /\ Media(m') = {} /\ Riffs(m') = {0}
         /\ m'.trailer_written = m.trailer_written /\ opts' = opts
         /\ Current(m')
<1>1. Early(m) /\ opts \in Options
  BY DEF RInv, DInv, SInv, Sound, WriteHeader, Good
<1>2. m' = HeaderState(m) /\ opts' = opts
  BY DEF WriteHeader, HeaderState, SetHeader
<1>3. Fresh(m) BY <1>1 DEF Early
<1>4. /\ Only(m, m', {"disk", "pos"} \cup HeaderFields)
      /\ m'.riff_size_off = 4
      /\ DOMAIN m'.disk = {0, 12, 12 + opts.hdrl}
      /\ m'.disk[0] = Cell("RIFF", NoTrack, 0)
      /\ m'.disk[12 + opts.hdrl] = Cell("movi", NoTrack, 0)
      /\ m'.disk[12].id = "hdrl"
  BY <1>1, <1>2, <1>3, HeaderStep
<1>5. m'.trailer_written = m.trailer_written BY <1>4 DEF Only, Fields, HeaderFields
<1>6. m'.disk[0].id = "RIFF" /\ m'.disk[12 + opts.hdrl].id = "movi"
  BY <1>4 DEF Cell
<1>7. opts.hdrl \in Nat BY <1>1, OptsTyped DEF Config
<1>8. Media(m) = {} /\ Riffs(m) = {} BY <1>3 DEF Fresh, Media, Riffs
<1>9. Media(m') = {} /\ Riffs(m') = {0}
  BY <1>4, <1>6, <1>7 DEF Media, Riffs, MediaIds
<1>10. m'.segment_packets = 0
  BY <1>2 DEF HeaderState, SetHeader
<1>11. Current(m') BY <1>4, <1>9, <1>10 DEF Current
<1> QED BY <1>2, <1>5, <1>8, <1>9, <1>11

-----------------------------------------------------------------------------
(* The refinement                                                          *)

\* The abstract file after the step.
LEMMA LogPrimed ==
  /\ MediaLog = Log(m) /\ Chunks(m, {"RIFF"}) = Riffs(m)
  /\ MediaLog' = Log(m') /\ Chunks(m', {"RIFF"}) = Riffs(m')
<1>1. Chunks(m', MediaIds) = Media(m') /\ Chunks(m', {"RIFF"}) = Riffs(m')
  BY DEF Chunks, Media, Riffs
<1>2. FileOrder' = Order(Media(m'))
  BY <1>1 DEF FileOrder, Order, Under
<1>3. DOMAIN (FileOrder') = 1 .. Cardinality(Media(m'))
  BY <1>2 DEF Order
<1>4. MediaLog' = Log(m')
  <2>1. MediaLog' = [i \in DOMAIN (FileOrder') |->
          [seg |-> Cardinality({r \in Riffs(m') : r < FileOrder'[i]}),
           chunk |-> m'.disk[FileOrder'[i]]]]
    BY <1>1 DEF MediaLog, SegmentAt
  <2> QED BY <1>2, <1>3, <2>1 DEF Log, LogEntry, Under
<1> QED BY <1>1, <1>4, LogOfMuxer

\* A step that leaves the chunks alone changes nothing of the abstract file.
LEMMA LeavesContainer ==
  ASSUME RInv, Leaves
  PROVE  UNCHANGED Container!absVars
<1>1. Typed(m) /\ Below(m)
  BY DEF RInv, DInv, SInv, Sound, Early, Good, Fresh, Below
<1>2. Log(m') = Log(m) /\ Cardinality(Riffs(m')) = Cardinality(Riffs(m))
  BY <1>1, QuietLog DEF Leaves
<1>3. OpenDml' = OpenDml BY DEF OpenDml, Leaves
<1> QED BY <1>2, <1>3, LogPrimed DEF Container!absVars, Leaves

\* A step that places a chunk is an Add of the container.
LEMMA AddsContainer ==
  ASSUME RInv, NEW cell \in CallerChunks, Adds1(cell)
  PROVE  Container!Add(cell)
<1>1. Typed(m) /\ Below(m) /\ Typed(m') /\ Below(m') BY DEF Adds1, Good
<1>2. /\ Log(m') = Append(Log(m), [seg |-> Cardinality(Riffs(m')), chunk |-> cell])
      /\ \/ Cardinality(Riffs(m')) = Cardinality(Riffs(m))
         \/ /\ OpenDml /\ m.segment_packets > 0
            /\ Cardinality(Riffs(m')) = Cardinality(Riffs(m)) + 1
  BY <1>1, AddedLog DEF Adds1
<1>3. Cardinality(Riffs(m)) > 0
  <2>1. m.riff_size_off - 4 \in Riffs(m)
    BY DEF Adds1, Good, Heads, IsList, Riffs
  <2>2. IsFiniteSet(Riffs(m)) /\ Cardinality(Riffs(m)) \in Nat BY <1>1, MediaFinite
  <2>3. Cardinality(Riffs(m)) # 0 BY <2>1, <2>2, FS_EmptySet
  <2> QED BY <2>2, <2>3
<1>4. m.segment_packets > 0 => Container!SegmentStarted
  <2>1. m.segment_packets > 0 =>
          \E i \in DOMAIN Log(m) : /\ Log(m)[i].seg = Cardinality(Riffs(m))
                                   /\ Log(m)[i].chunk.id = "data"
    BY StartedLog DEF Adds1
  <2> QED BY <2>1, LogPrimed DEF Container!SegmentStarted, Container!Packet
<1>5. OpenDml' = OpenDml BY DEF OpenDml, Adds1
<1>6. m'.trailer_written = m.trailer_written /\ ~m.trailer_written
  BY <1>1 DEF Adds1, Typed, MuxerRecord
<1> QED BY <1>2, <1>3, <1>4, <1>5, <1>6, LogPrimed DEF Container!Add

\* write_header opens the container.
LEMMA OpensContainer ==
  ASSUME RInv, WriteHeader
  PROVE  Container!Open
<1>1. /\ Media(m) = {} /\ Riffs(m) = {} /\ Media(m') = {} /\ Riffs(m') = {0}
      /\ m'.trailer_written = m.trailer_written /\ opts' = opts
  BY WriteHeaderOpens
<1>2. Log(m') = Log(m)
  <2>1. Cardinality({}) = 0 /\ 1 .. 0 = {} BY FS_EmptySet
  <2> QED BY <1>1, <2>1 DEF Log
<1>3. Cardinality(Riffs(m)) = 0 /\ Cardinality(Riffs(m')) = 1
  BY <1>1, FS_EmptySet, FS_Singleton
<1>4. OpenDml' = OpenDml BY <1>1 DEF OpenDml
<1> QED BY <1>1, <1>2, <1>3, <1>4, LogPrimed DEF Container!Open

\* write_trailer finishes it, unless it fails.
LEMMA FinishesContainer ==
  ASSUME RInv, Disciplined, WriteTrailer
  PROVE  Container!Finish \/ UNCHANGED Container!absVars
<1>1. Quiet(m, m') /\ Good(m) /\ ~m.trailer_written /\ opts' = opts
  BY WriteTrailerQuiet
<1>2. CASE m'.trailer_written = m.trailer_written
  BY <1>1, <1>2, LeavesContainer DEF Leaves
<1>3. CASE m'.trailer_written # m.trailer_written
  <2>1. Typed(m) /\ Below(m) BY <1>1 DEF Good
  <2>2. Log(m') = Log(m) /\ Cardinality(Riffs(m')) = Cardinality(Riffs(m))
    BY <1>1, <2>1, QuietLog
  <2>3. Cardinality(Riffs(m)) > 0
    <3>1. m.riff_size_off - 4 \in Riffs(m)
      BY <1>1 DEF Good, Heads, IsList, Riffs
    <3>2. IsFiniteSet(Riffs(m)) /\ Cardinality(Riffs(m)) \in Nat BY <2>1, MediaFinite
    <3>3. Cardinality(Riffs(m)) # 0 BY <3>1, <3>2, FS_EmptySet
    <3> QED BY <3>2, <3>3
  <2>4. m'.trailer_written = TRUE
    <3>1. Typed(m)'
      BY WriteTrailerDInv DEF RInv, DInv, SInv, Sound, Early, Good, Fresh
    <3>2. m.trailer_written \in BOOLEAN /\ m'.trailer_written \in BOOLEAN
      BY <2>1, <3>1 DEF Typed, MuxerRecord
    <3> QED BY <1>1, <1>3, <3>2
  <2>5. OpenDml' = OpenDml BY <1>1 DEF OpenDml
  <2> QED BY <1>1, <2>2, <2>3, <2>4, <2>5, LogPrimed DEF Container!Finish
<1> QED BY <1>2, <1>3

\* RInv holds at first and is kept.
LEMMA InitRInv == Init => RInv /\ Container!Init
<1> SUFFICES ASSUME Init PROVE RInv /\ Container!Init
  OBVIOUS
<1>1. DInv BY InitDInv
<1>2. ~m.header_written /\ m.trailer_written = FALSE /\ m.disk = <<>>
  BY Zenon DEF Init
<1>3. Media(m) = {} /\ Riffs(m) = {}
  <2>1. DOMAIN m.disk = {} BY <1>2
  <2> QED BY <2>1 DEF Media, Riffs
<1>4. Log(m) = <<>>
  <2>1. Cardinality(Media(m)) = 0 /\ 1 .. 0 = {} BY <1>3, FS_EmptySet
  <2> QED BY <2>1 DEF Log
<1>5. Cardinality(Riffs(m)) = 0 BY <1>3, FS_EmptySet
<1>6. OpenDml \in BOOLEAN BY DEF OpenDml
<1> QED BY <1>1, <1>2, <1>4, <1>5, <1>6, LogOfMuxer DEF RInv, Container!Init

LEMMA NextRInv ==
  ASSUME RInv, Disciplined, [Next]_vars
  PROVE  RInv' /\ [Container!Next]_(Container!absVars)
<1>1. DInv' BY NextDInv, StutterDInv DEF RInv
<1>2. CASE WriteHeader
  <2>1. Current(m') BY <1>2, WriteHeaderOpens
  <2>2. Container!Open BY <1>2, OpensContainer
  <2> QED BY <1>1, <2>1, <2>2 DEF RInv, Container!Next
<1>3. ASSUME NEW p \in Packets, WritePacket(p)
      PROVE  RInv' /\ [Container!Next]_(Container!absVars)
  <2>1. (Leaves \/ Adds1(PacketCell(p))) /\ Current(m') BY <1>3, WritePacketAdds
  <2>2. PacketCell(p) \in CallerChunks BY DEF PacketCell, CallerChunks
  <2>3. UNCHANGED Container!absVars \/ Container!Add(PacketCell(p))
    BY <2>1, <2>2, LeavesContainer, AddsContainer
  <2> QED BY <1>1, <2>1, <2>2, <2>3 DEF RInv, Container!Next
<1>4. ASSUME NEW c \in SideChunks, WriteSidebandChunk(c)
      PROVE  RInv' /\ [Container!Next]_(Container!absVars)
  <2> DEFINE cell == Cell(c.kind, c.trk, c.len)
  <2>1. (Leaves \/ Adds1(cell)) /\ Current(m') BY <1>4, WriteSidebandChunkAdds
  <2>2. cell \in CallerChunks BY DEF CallerChunks
  <2> HIDE DEF cell
  <2>3. UNCHANGED Container!absVars \/ Container!Add(cell)
    BY <2>1, <2>2, LeavesContainer, AddsContainer
  <2> QED BY <1>1, <2>1, <2>2, <2>3 DEF RInv, Container!Next
<1>5. CASE (\E off \in Field2Offs : SetField2Offset(off)) \/ EarlyReturn
  <2>1. Leaves /\ Calm(m, m') BY <1>5, LightQuiet
  <2>2. trailers' = trailers BY <1>5 DEF SetField2Offset, EarlyReturn
  <2>3. m'.header_written = m.header_written
    <3>1. Typed(m) BY DEF RInv, DInv, SInv, Sound, Early, Good, Fresh
    <3> QED BY <1>5, <3>1 DEF SetField2Offset, EarlyReturn, Typed, MuxerRecord
  <2>4. RInv' BY <1>1, <2>1, <2>2, <2>3, CalmCurrent DEF RInv
  <2> QED BY <2>1, <2>4, LeavesContainer
<1>6. CASE WriteTrailer
  <2>1. trailers' # 0
    BY <1>6 DEF WriteTrailer, RInv, DInv
  <2>2. RInv' BY <1>1, <2>1 DEF RInv
  <2> QED BY <1>6, <2>2, FinishesContainer DEF Container!Next
<1>7. CASE UNCHANGED vars
  <2>1. m' = m /\ trailers' = trailers /\ opts' = opts BY <1>7 DEF vars
  <2>2. Leaves BY <2>1, CalmSame DEF Leaves, Calm
  <2>3. RInv' BY <1>1, <2>1 DEF RInv
  <2> QED BY <2>2, <2>3, LeavesContainer
<1> QED BY <1>2, <1>3, <1>4, <1>5, <1>6, <1>7 DEF Next

\* For a caller who stops at the first failure the chunks of the file, read in
\* the order of their offsets, are those the caller handed over, in the order
\* of the calls and each in the segment that was current, over every roll,
\* every cluster and every index chunk: AviMuxer implements AviContainer.
THEOREM MuxerImplementsContainer ==
  ASSUME Disciplined
  PROVE  Spec => ImplementsContainer
<1>1. RInv /\ [Next]_vars => RInv' BY NextRInv
<1>2. RInv /\ [Next]_vars => [Container!Next]_(Container!absVars) BY NextRInv
<1> QED BY <1>1, <1>2, InitRInv, PTL DEF Spec, ImplementsContainer, Container!Spec
=============================================================================
