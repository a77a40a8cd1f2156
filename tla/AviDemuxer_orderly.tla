-------------------------- MODULE AviDemuxer_orderly --------------------------
(***************************************************************************)
(* What AviDemuxer does on every file an AVI writer lays out, whole or cut *)
(* short (Orderly): it implements AviSource, its keyframe flags are those  *)
(* of the file, and so, where no index leaves out a packet before one it   *)
(* lists (Gapless), are its timestamps after a seek; where the indexes     *)
(* list all there is to land on (Thorough), a seek lands on the keyframe a *)
(* read from the start would choose; and where idx1 lists every chunk once *)
(* (Itemized), every side-band body is kept once and the palette of every  *)
(* packet is the one the changes before it leave.                          *)
(*                                                                         *)
(* The cursor of the source is the number of packets before the reader's   *)
(* offset.  The proof shows that the reader is always at the end of a      *)
(* chunk, where the next one stands if there is one, or behind the last    *)
(* packet (OnPath): so no turn of next_packet passes a packet without      *)
(* returning it, Eof is said behind the last one only, and a seek, which   *)
(* lands on a listed chunk, puts the reader on that path again.  That the  *)
(* chunk is there, and a packet flagged as it should be, follows from what *)
(* the tables open_avi builds say of the file (TablesTrue, AllListed).     *)
(*                                                                         *)
(* The timestamp of a packet is the sum of the ticks of the packets of its *)
(* stream before it (StampAt).  next_packet adds one packet at a time to   *)
(* the counter of the stream (ReadPacketStamps); a seek takes the counter  *)
(* from the entry it lands on, and the tables count the same sum over the  *)
(* entries before that one (StdClocks, IdxClocks, SeekStamps).  So the     *)
(* entries a seek searches mirror the keyframes of the file, offset by     *)
(* offset and timestamp by timestamp (KeysMirror), and what the search     *)
(* selects of the entries is the best of the keyframes (SelectedWanted).   *)
(*                                                                         *)
(* The side-band chunks are collected by one of two readers: open_avi,     *)
(* whose places in idx1 in ascending order are the chunks in file order    *)
(* (EagerBodies), or next_packet, a turn of which takes the chunk it       *)
(* passes and passes no other (ReadChunkCollects, TurnCollects).           *)
(*                                                                         *)
(* A palette change is in force for a packet if it stands before it in the *)
(* file.  effective_palette_at compares the packet's number in its stream  *)
(* with the number of packets idx1 lists before the change; both count the *)
(* same packets (PositionsAre, PacketNumber), so the changes it makes are  *)
(* the first of the bodies, those that stand before the packet             *)
(* (ChangesApplied), made one over the other to the stream's own palette   *)
(* (PaintFacts).                                                           *)
(***************************************************************************)
EXTENDS AviDemuxer_proofs

-----------------------------------------------------------------------------
(* The list of packets                                                     *)

\* A packet is a data chunk of a stream that stands in a segment.
LEMMA PacketFacts ==
  ASSUME NEW F, WellFormed(F), NEW b \in Packets(F)
  PROVE  /\ b \in DOMAIN F.disk /\ b \in Nat
         /\ F.disk[b].id = "data" /\ F.disk[b].trk \in Streams
         /\ \E i \in DOMAIN MoviSegments(F) :
              /\ MoviSegments(F)[i].from <= b
              /\ b + 8 + F.disk[b].len <= MoviSegments(F)[i].to
BY DEF Packets, Standing, WellFormed

\* The packets of stream t, and the timestamp of the one at offset at.
OwnPackets(F, t) == Standing(F, MoviSegments(F), {"data"}, t)
StampAt(F, t, at) == Ticks(F, t, OwnPackets(F, t), at)

\* L lists the packets of F in file order.
Lists(L, F) ==
  /\ Len(L) \in Nat /\ DOMAIN L = 1 .. Len(L)
  /\ \A i \in DOMAIN L : /\ L[i].at \in Packets(F)
                         /\ L[i].trk = F.disk[L[i].at].trk
                         /\ L[i].key = F.disk[L[i].at].key
                         /\ L[i].pts = StampAt(F, F.disk[L[i].at].trk, L[i].at)
  /\ \A i, j \in DOMAIN L : i < j => L[i].at < L[j].at
  /\ \A b \in Packets(F) : \E i \in DOMAIN L : L[i].at = b

LEMMA ContentLists ==
  ASSUME NEW F, WellFormed(F)
  PROVE  Lists(Content(F, MoviSegments(F)), F)
<1> DEFINE movi == MoviSegments(F)
           own == [t \in Streams |-> Standing(F, movi, {"data"}, t)]
           O == InOrder(Packets(F))
           ticks(at) == Ticks(F, F.disk[at].trk, own[F.disk[at].trk], at)
           packet(at) == [trk |-> F.disk[at].trk, at |-> at, key |-> F.disk[at].key,
                          pts |-> ticks(at)]
           L == Content(F, movi)
<1>1. UNION {own[t] : t \in Streams} = Packets(F) BY DEF Packets
<1>2. L = [i \in DOMAIN O |-> packet(O[i])]
  <2>1. L = [i \in DOMAIN InOrder(UNION {own[t] : t \in Streams}) |->
               packet(InOrder(UNION {own[t] : t \in Streams})[i])]
    BY DEF Content
  <2> HIDE DEF packet, own, L
  <2> QED BY <1>1, <2>1
<1>10. \A at \in Packets(F) : ticks(at) = StampAt(F, F.disk[at].trk, at)
  BY PacketFacts DEF StampAt, OwnPackets
<1> HIDE DEF ticks, L
<1>3. Packets(F) \subseteq Nat /\ IsFiniteSet(Packets(F))
  <2>1. Packets(F) \in SUBSET DOMAIN F.disk BY PacketFacts
  <2>2. DOMAIN F.disk \subseteq Nat /\ IsFiniteSet(DOMAIN F.disk) BY DEF WellFormed
  <2> QED BY <2>1, <2>2, FS_Subset
<1> DEFINE n == Cardinality(Packets(F))
<1>4. /\ O \in [1 .. n -> Packets(F)] /\ n \in Nat
      /\ \A i, j \in DOMAIN O : i < j => O[i] < O[j]
      /\ \A b \in Packets(F) : \E i \in DOMAIN O : O[i] = b
  BY <1>3, InOrderLists
<1> HIDE DEF O, n
<1>5. DOMAIN L = 1 .. n BY <1>2, <1>4
<1>6. Len(L) = n
  <2> DEFINE X == {L[i] : i \in 1 .. n}
  <2>1. L \in [1 .. n -> X] BY <1>2, <1>5
  <2> HIDE DEF X
  <2> QED BY <1>4, <2>1, FunctionIsSeq
<1>7. \A i \in DOMAIN L : /\ L[i].at = O[i]
                          /\ L[i].trk = F.disk[O[i]].trk /\ L[i].key = F.disk[O[i]].key
                          /\ L[i].pts = ticks(O[i])
  BY <1>2
<1>8. DOMAIN L = DOMAIN O BY <1>2
<1>9. \A i \in DOMAIN L : O[i] \in Packets(F) BY <1>4, <1>8
<1>11. \A i \in DOMAIN L : L[i].pts = StampAt(F, F.disk[O[i]].trk, O[i]) BY <1>7, <1>9, <1>10
<1> QED BY <1>4, <1>5, <1>6, <1>7, <1>8, <1>9, <1>11 DEF Lists, L

\* The packets before offset p: the cursor.
Behind(L, p) == Cardinality({i \in DOMAIN L : L[i].at < p})

\* Those are the first ones of the list.
LEMMA BehindFacts ==
  ASSUME NEW F, WellFormed(F), NEW L, Lists(L, F), NEW p \in Nat
  PROVE  /\ Behind(L, p) \in 0 .. Len(L)
         /\ \A i \in DOMAIN L : L[i].at < p <=> i <= Behind(L, p)
<1> DEFINE I == {i \in DOMAIN L : L[i].at < p}
           c == Cardinality(I)
<1>1. /\ Len(L) \in Nat /\ DOMAIN L = 1 .. Len(L)
      /\ \A i \in DOMAIN L : L[i].at \in Nat
  BY PacketFacts DEF Lists
<1>2. I \in SUBSET (1 .. Len(L)) BY <1>1
<1>3. ASSUME NEW i \in I, NEW j \in 1 .. Len(L), j < i PROVE j \in I
  <2>1. L[j].at < L[i].at /\ L[i].at < p /\ L[j].at \in Nat /\ L[i].at \in Nat
    BY <1>1, <1>3 DEF Lists
  <2> QED BY <1>1, <2>1
<1> HIDE DEF I
<1>4. c \in Nat /\ I = 1 .. c BY <1>1, <1>2, <1>3, FirstNumbers
<1> HIDE DEF c
<1>5. c \in 0 .. Len(L)
  <2>1. c = 0 \/ c \in I BY <1>4
  <2> QED BY <1>1, <1>2, <1>4, <2>1
<1>6. \A i \in DOMAIN L : i \in I <=> i <= c BY <1>1, <1>4
<1>7. \A i \in DOMAIN L : i \in I <=> L[i].at < p BY DEF I
<1>8. Behind(L, p) = c BY DEF Behind, I, c
<1> QED BY <1>5, <1>6, <1>7, <1>8

\* The cursor by the packets it has before it.
LEMMA BehindIs ==
  ASSUME NEW F, WellFormed(F), NEW L, Lists(L, F), NEW p \in Nat, NEW c \in 0 .. Len(L),
         \A i \in DOMAIN L : L[i].at < p <=> i <= c
  PROVE  Behind(L, p) = c
<1> DEFINE x == Behind(L, p)
           n == Len(L)
<1>1. n \in Nat /\ DOMAIN L = 1 .. n BY DEF Lists
<1>2. x \in 0 .. n /\ \A i \in DOMAIN L : L[i].at < p <=> i <= x BY BehindFacts
<1> HIDE DEF x, n
<1>3. \A i \in 1 .. n : i <= x <=> i <= c BY <1>1, <1>2
<1>4. c \in 0 .. n BY DEF n
<1>5. x = c
  <2>1. ~(x < c)
    <3> SUFFICES ASSUME x < c PROVE FALSE
      OBVIOUS
    <3>1. c \in 1 .. n /\ ~(c <= x) BY <1>2, <1>4
    <3> QED BY <1>3, <1>4, <3>1
  <2>2. ~(c < x)
    <3> SUFFICES ASSUME c < x PROVE FALSE
      OBVIOUS
    <3>1. x \in 1 .. n /\ ~(x <= c) BY <1>2, <1>4
    <3> QED BY <1>2, <1>3, <3>1
  <2> QED BY <1>2, <1>4, <2>1, <2>2
<1> QED BY <1>5 DEF x

\* From p to q the reader has come over packet at and no other.
LEMMA OverPacket ==
  ASSUME NEW F, WellFormed(F), NEW L, Lists(L, F), NEW p \in Nat, NEW q \in Nat,
         NEW at \in Packets(F), p <= at, at < q,
         \A b \in Packets(F) : p <= b /\ b < q => b = at
  PROVE  /\ Behind(L, p) < Len(L) /\ Behind(L, q) = Behind(L, p) + 1
         /\ L[Behind(L, p) + 1].at = at
<1>1. /\ Len(L) \in Nat /\ DOMAIN L = 1 .. Len(L)
      /\ \A i \in DOMAIN L : L[i].at \in Nat /\ L[i].at \in Packets(F)
  BY PacketFacts DEF Lists
<1>2. PICK j \in DOMAIN L : L[j].at = at BY DEF Lists
<1>3. \A i, k \in DOMAIN L : i < k => L[i].at < L[k].at BY DEF Lists
<1>4. at \in Nat /\ j \in 1 .. Len(L) BY <1>1, <1>2
<1>5. ASSUME NEW i \in DOMAIN L PROVE (L[i].at < q <=> i <= j) /\ (L[i].at < p <=> i <= j - 1)
  <2> DEFINE a == L[i].at
  <2>1. /\ a \in Nat /\ i \in Nat /\ (i < j => a < at) /\ (j < i => at < a)
        /\ (i = j => a = at) /\ (p <= a /\ a < q => a = at)
    BY <1>1, <1>2, <1>3
  <2> HIDE DEF a
  <2>2. (a < q <=> i <= j) /\ (a < p <=> i <= j - 1) BY <1>4, <2>1
  <2> QED BY <2>2 DEF a
<1>6. j \in 0 .. Len(L) /\ j - 1 \in 0 .. Len(L) BY <1>1, <1>4
<1>7. Behind(L, q) = j BY <1>5, <1>6, BehindIs
<1> DEFINE k == j - 1
<1>8. k \in 0 .. Len(L) /\ \A i \in DOMAIN L : L[i].at < p <=> i <= k BY <1>5, <1>6
<1>9. k + 1 = j /\ k < Len(L) BY <1>1, <1>4
<1> HIDE DEF k
<1>10. Behind(L, p) = k BY <1>8, BehindIs
<1> QED BY <1>2, <1>7, <1>9, <1>10

\* From p to q the reader has come over none.
LEMMA OverNone ==
  ASSUME NEW F, WellFormed(F), NEW L, Lists(L, F), NEW p \in Nat, NEW q \in Nat,
         p <= q, \A b \in Packets(F) : b < p \/ q <= b
  PROVE  Behind(L, q) = Behind(L, p)
<1>1. \A i \in DOMAIN L : L[i].at \in Nat /\ L[i].at \in Packets(F)
  BY PacketFacts DEF Lists
<1>2. /\ Behind(L, p) \in 0 .. Len(L)
      /\ \A i \in DOMAIN L : L[i].at < p <=> i <= Behind(L, p)
  BY BehindFacts
<1>3. \A i \in DOMAIN L : L[i].at < q <=> L[i].at < p BY <1>1
<1> DEFINE c == Behind(L, p)
<1>4. c \in 0 .. Len(L) /\ \A i \in DOMAIN L : L[i].at < q <=> i <= c BY <1>2, <1>3
<1> HIDE DEF c
<1>5. Behind(L, q) = c BY <1>4, BehindIs
<1> QED BY <1>5 DEF c

\* Behind the last packet the cursor is at the end.
LEMMA BehindAll ==
  ASSUME NEW F, WellFormed(F), NEW L, Lists(L, F), NEW p \in Nat,
         \A b \in Packets(F) : b < p
  PROVE  Behind(L, p) = Len(L)
<1>1. /\ Len(L) \in Nat /\ DOMAIN L = 1 .. Len(L)
      /\ \A i \in DOMAIN L : L[i].at < p
  BY DEF Lists
<1> DEFINE n == Len(L)
<1>2. n \in 0 .. Len(L) /\ \A i \in DOMAIN L : L[i].at < p <=> i <= n BY <1>1
<1> HIDE DEF n
<1>3. Behind(L, p) = n BY <1>2, BehindIs
<1> QED BY <1>3 DEF n

\* In front of the first it is at the start.
LEMMA BehindNone ==
  ASSUME NEW F, WellFormed(F), NEW L, Lists(L, F), NEW p \in Nat,
         \A b \in Packets(F) : p <= b
  PROVE  Behind(L, p) = 0
<1>1. /\ Len(L) \in Nat /\ DOMAIN L = 1 .. Len(L)
      /\ \A i \in DOMAIN L : L[i].at \in Nat /\ p <= L[i].at
  BY PacketFacts DEF Lists
<1>2. \A i \in DOMAIN L : L[i].at < p <=> i <= 0 BY <1>1
<1> QED BY <1>1, <1>2, BehindIs

\* The packet at offset at is the next one from offset p on.
LEMMA NextPacketFrom ==
  ASSUME NEW F, WellFormed(F), NEW L, Lists(L, F), NEW p \in Nat,
         NEW at \in Packets(F), p <= at, \A b \in Packets(F) : b < p \/ at <= b
  PROVE  \E i \in 1 .. Len(L) : L[i].at = at /\ Behind(L, p) = i - 1
<1>1. /\ Len(L) \in Nat /\ DOMAIN L = 1 .. Len(L)
      /\ \A i \in DOMAIN L : L[i].at \in Nat /\ L[i].at \in Packets(F)
  BY PacketFacts DEF Lists
<1>2. PICK j \in DOMAIN L : L[j].at = at BY DEF Lists
<1>3. \A i, k \in DOMAIN L : i < k => L[i].at < L[k].at BY DEF Lists
<1>4. at \in Nat /\ j \in 1 .. Len(L) BY <1>1, <1>2
<1> DEFINE k == j - 1
<1>5. k \in 0 .. Len(L) BY <1>1, <1>4
<1>6. ASSUME NEW i \in DOMAIN L PROVE L[i].at < p <=> i <= k
  <2> DEFINE a == L[i].at
  <2>1. /\ a \in Nat /\ i \in Nat /\ (i < j => a < at) /\ (j < i => at < a)
        /\ (i = j => a = at) /\ (a < p \/ at <= a)
    BY <1>1, <1>2, <1>3
  <2> HIDE DEF a
  <2>2. a < p <=> i <= k BY <1>4, <2>1
  <2> QED BY <2>2 DEF a
<1> HIDE DEF k
<1>7. Behind(L, p) = k BY <1>5, <1>6, BehindIs
<1> QED BY <1>2, <1>4, <1>7 DEF k

-----------------------------------------------------------------------------
(* The path of the reader                                                  *)

\* The chunks the reader is there for: packets and side-band chunks.
Media(F) == UNION {Standing(F, MoviSegments(F), MediaIds, t) : t \in Streams}

LEMMA MediaFacts ==
  ASSUME NEW F, WellFormed(F)
  PROVE  /\ \A b \in Media(F) :
              /\ b \in DOMAIN F.disk /\ b \in Nat
              /\ F.disk[b].id \in MediaIds /\ F.disk[b].id \notin ListIds
              /\ F.disk[b].trk \in Streams
              /\ \E i \in DOMAIN MoviSegments(F) :
                   /\ MoviSegments(F)[i].from <= b
                   /\ b + 8 + F.disk[b].len <= MoviSegments(F)[i].to
         /\ Packets(F) \subseteq Media(F)
         /\ \A k \in MediaIds, t \in Streams :
              Standing(F, MoviSegments(F), {k}, t) \subseteq Media(F)
<1>1. MediaIds \cap ListIds = {} /\ "data" \in MediaIds BY DEF MediaIds, ListIds
<1>2. \A b \in Media(F) : b \in DOMAIN F.disk BY DEF Media, Standing
<1> QED BY <1>1, <1>2, CellFacts DEF Media, Packets, Standing

\* Offset pos is the end of every chunk that starts before it; it lies behind
\* the last chunk there is to read.
Boundary(F, pos) == \A b \in DOMAIN F.disk : b < pos => NextHeader(F, b) <= pos
Spent(F, pos) == \A b \in Media(F) : b < pos

OnPath(F, r) == Spent(F, r.pos) \/ (Boundary(F, r.pos) /\ r.seg <= Len(r.movi))

\* The end of a chunk is a boundary, and no chunk starts before it.
LEMMA NextHeaderFacts ==
  ASSUME NEW F, WellFormed(F), BackToBack(F), NEW b \in DOMAIN F.disk
  PROVE  /\ NextHeader(F, b) \in Nat /\ b < NextHeader(F, b)
         /\ \A a \in DOMAIN F.disk : b < a => NextHeader(F, b) <= a
         /\ Boundary(F, b) /\ Boundary(F, NextHeader(F, b))
<1>1. \A a \in DOMAIN F.disk : /\ a \in Nat
                               /\ NextHeader(F, a) \in Nat /\ a < NextHeader(F, a)
  <2> SUFFICES ASSUME NEW a \in DOMAIN F.disk
               PROVE  a \in Nat /\ NextHeader(F, a) \in Nat /\ a < NextHeader(F, a)
    OBVIOUS
  <2> DEFINE e == Even(F.disk[a].len)
  <2>1. a \in Nat /\ e \in Nat BY CellFacts
  <2>2. NextHeader(F, a) = a + 12 \/ NextHeader(F, a) = a + 8 + e BY DEF NextHeader
  <2> HIDE DEF e
  <2> QED BY <2>1, <2>2
<1>2. \A a, c \in DOMAIN F.disk : a < c => NextHeader(F, a) <= c BY DEF BackToBack
<1>3. Boundary(F, b) BY <1>2 DEF Boundary
<1>4. ASSUME NEW a \in DOMAIN F.disk, a < NextHeader(F, b)
      PROVE  NextHeader(F, a) <= NextHeader(F, b)
  <2>1. CASE a = b BY <1>1, <2>1
  <2>2. CASE a < b
    <3> DEFINE x == NextHeader(F, a)
               y == NextHeader(F, b)
    <3>1. x \in Nat /\ y \in Nat /\ b \in Nat /\ x <= b /\ b < y BY <1>1, <1>2, <2>2
    <3> HIDE DEF x, y
    <3>2. x <= y BY <3>1
    <3> QED BY <3>2 DEF x, y
  <2>3. CASE b < a
    <3> DEFINE y == NextHeader(F, b)
    <3>1. y \in Nat /\ a \in Nat /\ y <= a /\ a < y BY <1>1, <1>2, <1>4, <2>3
    <3> HIDE DEF y
    <3> QED BY <3>1
  <2> QED BY <1>1, <2>1, <2>2, <2>3
<1>5. Boundary(F, NextHeader(F, b)) BY <1>4 DEF Boundary
<1> QED BY <1>1, <1>2, <1>3, <1>5

\* Where no chunk starts at a boundary, none starts behind it.
LEMMA LastBoundary ==
  ASSUME NEW F, WellFormed(F), BackToBack(F), NEW pos \in Nat,
         Boundary(F, pos), pos \notin DOMAIN F.disk
  PROVE  \A b \in DOMAIN F.disk : b < pos
<1> DEFINE After == {b \in DOMAIN F.disk : pos < b}
<1>1. \A a \in DOMAIN F.disk : a \in Nat BY CellFacts
<1>2. After = {}
  <2> SUFFICES ASSUME After # {} PROVE FALSE
    OBVIOUS
  <2>1. PICK b \in After : \A c \in After : b <= c
    <3>1. After \subseteq Nat BY <1>1
    <3> HIDE DEF After
    <3> QED BY <3>1, NatLeast
  <2>2. b \in DOMAIN F.disk /\ b # 0 /\ b \in Nat /\ pos < b BY <1>1
  <2>3. PICK a \in DOMAIN F.disk : NextHeader(F, a) = b BY <2>2 DEF BackToBack
  <2>4. a < b /\ a \in Nat /\ a # pos BY <1>1, <2>3, NextHeaderFacts
  <2>5. ~(pos < a)
    <3> SUFFICES ASSUME pos < a PROVE FALSE
      OBVIOUS
    <3>1. a \in After BY <2>4
    <3>2. b <= a BY <2>1, <3>1
    <3> QED BY <2>2, <2>4, <3>2
  <2>6. a < pos BY <2>4, <2>5
  <2>7. b <= pos BY <2>3, <2>6 DEF Boundary
  <2> QED BY <2>2, <2>7
<1>3. \A b \in DOMAIN F.disk : ~(pos < b) /\ b # pos BY <1>2
<1> QED BY <1>1, <1>3

\* The reader has come from offset from to where it is, and answered with the
\* packets it has come over: one, or none.
Passes(F, from, q) ==
  /\ q \in Good(F) /\ OnPath(F, q) /\ from <= q.pos
  /\ q.got.kind = "packet" =>
       /\ q.got.at \in Packets(F) /\ from <= q.got.at /\ q.got.at < q.pos
       /\ q.got.trk = F.disk[q.got.at].trk
       /\ \A b \in Packets(F) : from <= b /\ b < q.pos => b = q.got.at
  /\ q.got.kind # "packet" => \A b \in Packets(F) : b < from \/ q.pos <= b
  /\ q.got = Eof => \A b \in Packets(F) : b < from
  /\ q.got.kind # "landed"

\* The answer of a reader that is a packet.
LEMMA PacketAnswer ==
  ASSUME NEW F, WellFormed(F), NEW q \in Good(F), q.got.kind = "packet"
  PROVE  q.got.at \in Packets(F) /\ q.got.trk = F.disk[q.got.at].trk
<1>1. q.got \in Answers(F) BY DEF Good, Readers
<1>2. q.got \in PacketsIn(F)
  BY <1>1 DEF Answers, Nothing, Eof, Refused, IoError, Landings
<1>3. PICK t \in Streams : q.got.trk = t /\ q.got.at \in Standing(F, MoviSegments(F), {"data"}, t)
  BY <1>2 DEF PacketsIn
<1> QED BY <1>3 DEF Packets, Standing

\* Behind the last packet every turn leads on the path.
LEMMA SpentPasses ==
  ASSUME NEW F, WellFormed(F), NEW r \in Good(F), Spent(F, r.pos), NEW q, Turn(F, r, q)
  PROVE  Passes(F, r.pos, q)
<1>1. /\ q \in Good(F) /\ r.pos <= q.pos
      /\ q.got.kind = "packet" => r.pos <= q.got.at /\ q.got.at < q.pos
      /\ q.got.kind # "landed"
  BY DEF Turn
<1>2. r.pos \in Nat /\ q.pos \in Nat BY <1>1, ReaderFields
<1>3. \A b \in Media(F) : b \in Nat BY MediaFacts
<1>4. q.got.kind # "packet"
  <2> SUFFICES ASSUME q.got.kind = "packet" PROVE FALSE
    OBVIOUS
  <2>1. q.got.at \in Media(F) BY <1>1, PacketAnswer, MediaFacts
  <2> DEFINE b == q.got.at
  <2>2. b < r.pos /\ r.pos <= b /\ b \in Nat BY <1>1, <1>3, <2>1 DEF Spent
  <2> HIDE DEF b
  <2> QED BY <1>2, <2>2
<1>5. Spent(F, q.pos) BY <1>1, <1>2, <1>3 DEF Spent
<1>6. \A b \in Packets(F) : b < r.pos BY MediaFacts DEF Spent
<1> QED BY <1>1, <1>4, <1>5, <1>6 DEF Passes, OnPath

\* Before it a turn that goes from one header to the next does.
LEMMA HeaderPasses ==
  ASSUME NEW F, WellFormed(F), BackToBack(F), NEW r \in Good(F), r.pos \in DOMAIN F.disk,
         r.seg <= Len(r.movi), NEW q, Turn(F, r, q), q.pos = NextHeader(F, r.pos),
         q.seg = r.seg, q.got # Eof, r.pos \in Packets(F) => q.got.kind = "packet"
  PROVE  Passes(F, r.pos, q)
<1>1. /\ q \in Good(F) /\ r.pos <= q.pos
      /\ q.got.kind = "packet" => r.pos <= q.got.at /\ q.got.at < q.pos
      /\ q.got.kind # "landed"
  BY DEF Turn
<1>2. r.pos \in Nat /\ q.pos \in Nat /\ q.movi = r.movi BY <1>1, ReaderFields
<1>3. \A b \in Packets(F) : b \in Nat /\ b \in DOMAIN F.disk BY PacketFacts
<1>4. Boundary(F, q.pos) BY NextHeaderFacts
<1>5. \A b \in DOMAIN F.disk : r.pos < b => q.pos <= b BY NextHeaderFacts
<1>6. ASSUME NEW b \in Packets(F) PROVE b < r.pos \/ b = r.pos \/ q.pos <= b
  BY <1>2, <1>3, <1>5
<1>7. ASSUME q.got.kind = "packet"
      PROVE  /\ q.got.at \in Packets(F) /\ q.got.trk = F.disk[q.got.at].trk
             /\ \A b \in Packets(F) : r.pos <= b /\ b < q.pos => b = q.got.at
  <2>1. q.got.at \in Packets(F) /\ q.got.trk = F.disk[q.got.at].trk
    BY <1>1, <1>7, PacketAnswer
  <2>2. ASSUME NEW b \in Packets(F), r.pos <= b, b < q.pos PROVE b = r.pos
    BY <1>2, <1>3, <1>6, <2>2
  <2> DEFINE a == q.got.at
  <2>3. a \in Packets(F) /\ r.pos <= a /\ a < q.pos BY <1>1, <1>7, <2>1
  <2> HIDE DEF a
  <2>4. a = r.pos BY <2>2, <2>3
  <2> QED BY <2>1, <2>2, <2>4 DEF a
<1>8. ASSUME q.got.kind # "packet" PROVE \A b \in Packets(F) : b < r.pos \/ q.pos <= b
  BY <1>6, <1>8
<1>9. OnPath(F, q) BY <1>2, <1>4 DEF OnPath
<1> QED BY <1>1, <1>7, <1>8, <1>9 DEF Passes

\* The segment of a chunk that does not start before the end of segment i is a
\* later one.
LEMMA LaterSegment ==
  ASSUME NEW F, WellFormed(F), NEW r \in Good(F), r.seg <= Len(r.movi),
         NEW b \in Media(F), r.movi[r.seg].to <= b
  PROVE  /\ r.seg + 1 <= Len(r.movi)
         /\ r.movi[r.seg + 1].from <= b
<1> DEFINE m == r.movi
           s == r.seg
<1>1. /\ m = MoviSegments(F) /\ Apart(m, F.len) /\ Len(m) \in Nat /\ DOMAIN m = 1 .. Len(m)
      /\ \A i \in DOMAIN m : m[i].from \in Nat /\ m[i].to \in Nat
      /\ s \in 1 .. Len(m)
  BY ReaderFields
<1>2. b \in Nat /\ F.disk[b].len \in Nat BY MediaFacts, CellFacts
<1>3. PICK i \in DOMAIN m : m[i].from <= b /\ b + 8 + F.disk[b].len <= m[i].to
  BY <1>1, MediaFacts
<1>4. m[s].to <= b OBVIOUS
<1> HIDE DEF m, s
<1>5. \A k, l \in DOMAIN m : k < l => m[k].to + 12 <= m[l].from BY <1>1 DEF Apart
<1>6. \A k \in DOMAIN m : m[k].from <= m[k].to + 11 BY <1>1 DEF Apart
<1>7. b < m[i].to
  <2> DEFINE e == m[i].to
             l == F.disk[b].len
  <2>1. e \in Nat /\ l \in Nat /\ b + 8 + l <= e BY <1>1, <1>2, <1>3
  <2> HIDE DEF e, l
  <2>2. b < e BY <1>2, <2>1
  <2> QED BY <2>2 DEF e
<1>8. s < i
  <2> SUFFICES ASSUME ~(s < i) PROVE FALSE
    OBVIOUS
  <2>1. i = s \/ i < s BY <1>1
  <2>2. i # s BY <1>1, <1>2, <1>4, <1>7
  <2>3. i < s BY <2>1, <2>2
  <2> DEFINE x == m[i].to
             y == m[s].from
             z == m[s].to
  <2>4. x \in Nat /\ y \in Nat /\ z \in Nat /\ x + 12 <= y /\ y <= z + 11 /\ z <= b /\ b < x
    BY <1>1, <1>4, <1>5, <1>6, <1>7, <2>3
  <2> HIDE DEF x, y, z
  <2> QED BY <1>2, <2>4
<1> DEFINE n == s + 1
<1>9. n \in DOMAIN m /\ n <= Len(m) /\ (n = i \/ n < i) BY <1>1, <1>8
<1> HIDE DEF n
<1>10. m[n].from <= b
  <2>1. CASE n = i BY <1>3, <2>1
  <2>2. CASE n < i
    <3> DEFINE x == m[n].from
               y == m[n].to
               z == m[i].from
    <3>1. x \in Nat /\ y \in Nat /\ z \in Nat /\ x <= y + 11 /\ y + 12 <= z /\ z <= b
      BY <1>1, <1>3, <1>5, <1>6, <1>9, <2>2
    <3> HIDE DEF x, y, z
    <3>2. x <= b BY <1>2, <3>1
    <3> QED BY <3>2 DEF x
  <2> QED BY <1>9, <2>1, <2>2
<1> QED BY <1>9, <1>10 DEF n, m, s

\* A segment starts at a boundary.
LEMMA SegmentStart ==
  ASSUME NEW F, WellFormed(F), BackToBack(F), NEW i \in DOMAIN MoviSegments(F)
  PROVE  Boundary(F, MoviSegments(F)[i].from)
<1> DEFINE O == InOrder(MoviLists(F))
<1>1. MoviLists(F) \subseteq DOMAIN F.disk BY BodyFacts
<1>2. MoviLists(F) \subseteq Nat /\ IsFiniteSet(MoviLists(F))
  <2>1. DOMAIN F.disk \subseteq Nat /\ IsFiniteSet(DOMAIN F.disk) BY DEF WellFormed
  <2>2. MoviLists(F) \in SUBSET DOMAIN F.disk BY <1>1
  <2> QED BY <2>1, <2>2, FS_Subset
<1>3. MoviSegments(F) = [k \in DOMAIN O |-> Body(F, O[k])]
  BY DEF MoviSegments, MoviLists, Body
<1>4. O \in [1 .. Cardinality(MoviLists(F)) -> MoviLists(F)] BY <1>2, InOrderLists
<1> HIDE DEF O
<1>5. i \in DOMAIN O /\ O[i] \in MoviLists(F) BY <1>3, <1>4
<1>6. MoviSegments(F)[i].from = O[i] + 12 BY <1>3, <1>5 DEF Body
<1>7. O[i] \in DOMAIN F.disk /\ F.disk[O[i]].id = "movi" BY <1>1, <1>5 DEF MoviLists
<1>8. NextHeader(F, O[i]) = O[i] + 12 BY <1>7 DEF NextHeader, ListIds
<1> QED BY <1>6, <1>7, <1>8, NextHeaderFacts

\* The turn that leaves a segment goes to the start of the next one, past no
\* packet.
LEMMA LeaveSegmentPasses ==
  ASSUME NEW F, WellFormed(F), BackToBack(F), NEW r \in Good(F), r.got = Nothing,
         r.seg <= Len(r.movi), r.pos >= r.movi[r.seg].to,
         Turn(F, r, LeaveSegment(r))
  PROVE  Passes(F, r.pos, LeaveSegment(r))
<1> DEFINE q == LeaveSegment(r)
           n == r.seg + 1
<1>1. /\ r \in Readers(F) /\ r.seg \in DOMAIN r.movi /\ r.pos \in Nat /\ n \in Nat
      /\ r.movi[r.seg].to \in Nat /\ Len(r.movi) \in Nat /\ r.movi = MoviSegments(F)
      /\ DOMAIN r.movi = 1 .. Len(r.movi)
  BY ReaderFields
<1>2. \A b \in Media(F) : b \in Nat BY MediaFacts
<1>3. ASSUME NEW b \in Media(F), ~(b < r.pos)
      PROVE  n <= Len(r.movi) /\ r.movi[n].from <= b
  <2>1. r.movi[r.seg].to <= b
    <3> DEFINE e == r.movi[r.seg].to
    <3>1. e \in Nat /\ b \in Nat /\ r.pos >= e BY <1>1, <1>2
    <3> HIDE DEF e
    <3>2. e <= b BY <1>1, <1>3, <3>1
    <3> QED BY <3>2 DEF e
  <2> QED BY <2>1, LaterSegment
<1>4. CASE ~(n <= Len(r.movi))
  <2>1. Spent(F, r.pos) BY <1>3, <1>4 DEF Spent
  <2> QED BY <2>1, SpentPasses
<1>5. CASE n <= Len(r.movi)
  <2>1. n \in DOMAIN r.movi BY <1>1, <1>5
  <2>2. q = [r EXCEPT !.seg = n, !.pos = r.movi[n].from] BY <1>5 DEF LeaveSegment
  <2>3. q.seg = n /\ q.pos = r.movi[n].from /\ q.got = Nothing /\ q.movi = r.movi
    BY <1>1, <2>2 DEF Readers
  <2> HIDE DEF q, n
  <2>4. q \in Good(F) /\ r.pos <= q.pos BY DEF Turn, q
  <2>5. Boundary(F, q.pos) BY <1>1, <2>1, <2>3, SegmentStart
  <2>6. OnPath(F, q) BY <1>5, <2>3, <2>5 DEF OnPath
  <2>7. q.got.kind # "packet" /\ q.got.kind # "landed" /\ q.got # Eof
    BY <2>3, AnswersPlain
  <2>8. \A b \in Packets(F) : b < r.pos \/ q.pos <= b BY <1>3, <2>3, MediaFacts
  <2>9. Passes(F, r.pos, q) BY <2>4, <2>6, <2>7, <2>8 DEF Passes
  <2> QED BY <2>9 DEF q
<1> QED BY <1>4, <1>5

\* A chunk that does not fit its segment is the last of a file cut inside it.
LEMMA OverrunSpent ==
  ASSUME NEW F, WellFormed(F), BackToBack(F), Contained(F), NEW r \in Good(F),
         r.seg <= Len(r.movi), r.pos < r.movi[r.seg].to, r.pos \in DOMAIN F.disk,
         F.disk[r.pos].id \notin ListIds,
         r.pos + 8 + F.disk[r.pos].len > r.movi[r.seg].to
  PROVE  Spent(F, r.pos)
<1> DEFINE l == F.disk[r.pos].len
           e == r.movi[r.seg].to
<1>1. /\ r.movi = MoviSegments(F) /\ r.seg \in DOMAIN r.movi /\ r.pos \in Nat /\ e \in Nat
      /\ r.movi[r.seg].from <= r.pos
      /\ \A i \in DOMAIN r.movi : r.movi[i].to \in Nat /\ r.movi[i].to <= F.len
  BY ReaderFields DEF Good, InPlace, Apart
<1>2. l \in Nat /\ Even(l) \in Nat /\ l <= Even(l) /\ F.len \in Nat BY CellFacts
<1>3. r.pos + 8 + l <= e \/ r.pos + 8 + l > F.len BY <1>1 DEF Contained
<1>4. r.pos + 8 + l > e OBVIOUS
<1>5. NextHeader(F, r.pos) = r.pos + 8 + Even(l) BY DEF NextHeader
<1> HIDE DEF l, e
<1>6. r.pos + 8 + l > F.len BY <1>1, <1>2, <1>3, <1>4
<1>7. F.len < NextHeader(F, r.pos)
  <2> DEFINE a == Even(l)
  <2>1. a \in Nat /\ l <= a /\ NextHeader(F, r.pos) = r.pos + 8 + a BY <1>2, <1>5
  <2> HIDE DEF a
  <2> QED BY <1>1, <1>2, <1>6, <2>1
<1>8. ASSUME NEW b \in Media(F) PROVE b < r.pos
  <2>1. b \in DOMAIN F.disk /\ b \in Nat /\ b + 8 <= F.len BY MediaFacts, CellFacts
  <2>2. ~(r.pos < b)
    <3> SUFFICES ASSUME r.pos < b PROVE FALSE
      OBVIOUS
    <3> DEFINE x == NextHeader(F, r.pos)
    <3>1. x <= b /\ x \in Nat /\ F.len < x BY <1>7, <2>1, NextHeaderFacts
    <3> HIDE DEF x
    <3> QED BY <1>2, <2>1, <3>1
  <2>3. b # r.pos
    <3> SUFFICES ASSUME b = r.pos PROVE FALSE
      OBVIOUS
    <3>1. PICK i \in DOMAIN r.movi : b + 8 + F.disk[b].len <= r.movi[i].to
      BY <1>1, MediaFacts
    <3> DEFINE x == r.movi[i].to
    <3>2. x \in Nat /\ x <= F.len /\ r.pos + 8 + l <= x BY <1>1, <3>1 DEF l
    <3> HIDE DEF x
    <3> QED BY <1>1, <1>2, <1>6, <3>2
  <2> QED BY <1>1, <2>1, <2>2, <2>3
<1> QED BY <1>8 DEF Spent

\* Stepping into a LIST rec goes to the header after it; a form type that is cut
\* off is the end of the file.
LEMMA EnterListPasses ==
  ASSUME NEW F, WellFormed(F), BackToBack(F), NEW r \in Good(F), r.got = Nothing,
         r.seg <= Len(r.movi), r.pos \in DOMAIN F.disk, F.disk[r.pos].id \in ListIds,
         Turn(F, r, EnterList(F, r))
  PROVE  Passes(F, r.pos, EnterList(F, r))
<1> DEFINE q == EnterList(F, r)
<1>1. r \in Readers(F) /\ r.pos \in Nat /\ F.len \in Nat BY ReaderFields, CellFacts
<1>2. r.pos \notin Media(F)
  <2> SUFFICES ASSUME r.pos \in Media(F) PROVE FALSE
    OBVIOUS
  <2>1. F.disk[r.pos].id \notin ListIds BY MediaFacts
  <2> QED BY <2>1
<1>3. NextHeader(F, r.pos) = r.pos + 12 BY DEF NextHeader
<1>4. CASE FormCut(F, r.pos)
  <2>1. q = [r EXCEPT !.pos = F.len, !.got = IoError] BY <1>4 DEF EnterList
  <2>2. q.pos = F.len /\ q.got = IoError BY <1>1, <2>1 DEF Readers
  <2>3. r.pos + 12 > F.len BY <1>4 DEF FormCut
  <2> HIDE DEF q
  <2>4. q \in Good(F) /\ r.pos <= q.pos BY DEF Turn, q
  <2>5. IoError.kind # "packet" /\ IoError.kind # "landed" /\ IoError # Eof
    BY AnswersPlain DEF IoError, Eof
  <2>6. ASSUME NEW b \in Media(F) PROVE b < r.pos /\ b < F.len
    <3>1. b \in DOMAIN F.disk /\ b \in Nat /\ b + 8 <= F.len BY MediaFacts, CellFacts
    <3>2. b # r.pos BY <1>2
    <3>3. r.pos < b => r.pos + 12 <= b BY <1>3, <3>1, NextHeaderFacts
    <3> QED BY <1>1, <2>3, <3>1, <3>2, <3>3
  <2>7. Spent(F, q.pos) BY <2>2, <2>6 DEF Spent
  <2>8. \A b \in Packets(F) : b < r.pos BY <2>6, MediaFacts
  <2>9. Passes(F, r.pos, q) BY <2>2, <2>4, <2>5, <2>7, <2>8 DEF Passes, OnPath
  <2> QED BY <2>9 DEF q
<1>5. CASE ~FormCut(F, r.pos)
  <2> DEFINE n == r.pos + 12
  <2>1. q = [r EXCEPT !.pos = n] BY <1>5 DEF EnterList
  <2>2. q.pos = n /\ q.got = Nothing /\ q.seg = r.seg BY <1>1, <2>1 DEF Readers
  <2> HIDE DEF q
  <2>3. Turn(F, r, q) BY DEF q
  <2>4. q.got # Eof BY <2>2, AnswersPlain
  <2>5. q.pos = NextHeader(F, r.pos) BY <1>3, <2>2
  <2>6. r.pos \notin Packets(F) BY <1>2, MediaFacts
  <2>7. Passes(F, r.pos, q) BY <2>2, <2>3, <2>4, <2>5, <2>6, HeaderPasses
  <2> QED BY <2>7 DEF q
<1> QED BY <1>4, <1>5

\* Taking a chunk goes to the header after it, with a packet if it is one.
LEMMA TakeChunkPasses ==
  ASSUME NEW F, WellFormed(F), BackToBack(F), NEW r \in Good(F), r.got = Nothing,
         r.seg <= Len(r.movi), r.pos \in DOMAIN F.disk, F.disk[r.pos].id \notin ListIds,
         Turn(F, r, TakeChunk(F, r))
  PROVE  Passes(F, r.pos, TakeChunk(F, r))
<1> DEFINE q == TakeChunk(F, r)
           c == F.disk[r.pos]
           n == r.pos + 8 + Even(c.len)
<1>1. r \in Readers(F) BY ReaderFields
<1>2. NextHeader(F, r.pos) = n BY DEF NextHeader
<1> HIDE DEF n, c
<1>3. CASE c.trk \in Streams /\ c.id \in SideIds
  <2>1. q = [TakeSideband(r, c) EXCEPT !.pos = n] BY <1>3 DEF TakeChunk, c, n
  <2>2. q.pos = n /\ q.got = Nothing /\ q.seg = r.seg
    BY <1>1, <2>1 DEF Readers, TakeSideband
  <2>3. r.pos \notin Packets(F)
    <3>1. r.pos \in Packets(F) => c.id = "data" BY PacketFacts DEF c
    <3> QED BY <1>3, <3>1 DEF SideIds
  <2> HIDE DEF q
  <2>4. Turn(F, r, q) BY DEF q
  <2>5. q.got # Eof BY <2>2, AnswersPlain
  <2>6. Passes(F, r.pos, q) BY <1>2, <2>2, <2>3, <2>4, <2>5, HeaderPasses DEF c
  <2> QED BY <2>6 DEF q
<1>4. CASE c.trk \in Streams /\ c.id = "data"
  <2> DEFINE key == KeyframeAt(r.idx, r.std, r.pos)
             pts == r.counter[c.trk]
             got == PacketOf(c.trk, r.pos, key, pts)
             x == TimeDelta(c.trk, c.len)
  <2>1. q = [Deliver(r, c) EXCEPT !.pos = n] BY <1>4 DEF TakeChunk, SideIds, c, n
  <2>2. Deliver(r, c) = [r EXCEPT !.counter[c.trk] = @ + x, !.got = got]
    BY DEF Deliver
  <2> HIDE DEF got
  <2>3. q.pos = n /\ q.got = got /\ q.seg = r.seg BY <1>1, <2>1, <2>2 DEF Readers
  <2>4. got.kind = "packet"
    <3> HIDE DEF key, pts
    <3> QED BY DEF got, PacketOf
  <2>5. got # Eof BY <2>4 DEF Eof
  <2> HIDE DEF q
  <2>6. Turn(F, r, q) BY DEF q
  <2>7. Passes(F, r.pos, q) BY <1>2, <2>3, <2>4, <2>5, <2>6, HeaderPasses DEF c
  <2> QED BY <2>7 DEF q
<1>5. CASE ~(c.trk \in Streams /\ c.id \in SideIds) /\ ~(c.trk \in Streams /\ c.id = "data")
  <2>1. q = [r EXCEPT !.pos = n] BY <1>5 DEF TakeChunk, c, n
  <2>2. q.pos = n /\ q.got = Nothing /\ q.seg = r.seg BY <1>1, <2>1 DEF Readers
  <2>3. r.pos \notin Packets(F)
    <3>1. r.pos \in Packets(F) => c.trk \in Streams /\ c.id = "data" BY PacketFacts DEF c
    <3> QED BY <1>5, <3>1
  <2> HIDE DEF q
  <2>4. Turn(F, r, q) BY DEF q
  <2>5. q.got # Eof BY <2>2, AnswersPlain
  <2>6. Passes(F, r.pos, q) BY <1>2, <2>2, <2>3, <2>4, <2>5, HeaderPasses DEF c
  <2> QED BY <2>6 DEF q
<1> QED BY <1>3, <1>4, <1>5

\* Every turn of a reader on the path is one of those.
LEMMA ReadChunkPasses ==
  ASSUME NEW F, WellFormed(F), BackToBack(F), Contained(F), NEW r \in Good(F),
         r.got = Nothing, OnPath(F, r)
  PROVE  Passes(F, r.pos, ReadChunk(F, r))
<1> DEFINE end == r.movi[r.seg].to
<1>1. Turn(F, r, ReadChunk(F, r)) BY ReadChunkTurn
<1>2. CASE Spent(F, r.pos) BY <1>1, <1>2, SpentPasses
<1>3. CASE ~Spent(F, r.pos)
  <2>1. Boundary(F, r.pos) /\ r.seg <= Len(r.movi) BY <1>3 DEF OnPath
  <2>2. /\ r.pos \in Nat /\ Len(r.movi) \in Nat /\ r.seg \in DOMAIN r.movi /\ end \in Nat
        /\ ~(r.seg > Len(r.movi))
    BY <2>1, ReaderFields
  <2>3. CASE r.pos >= end
    <3>1. ReadChunk(F, r) = LeaveSegment(r) BY <2>2, <2>3 DEF ReadChunk
    <3> QED BY <1>1, <2>1, <2>3, <3>1, LeaveSegmentPasses
  <2>4. CASE ~(r.pos >= end)
    <3>1. r.pos < end
      <4> HIDE DEF end
      <4> QED BY <2>2, <2>4
    <3>2. r.pos \in DOMAIN F.disk
      <4> SUFFICES ASSUME r.pos \notin DOMAIN F.disk PROVE FALSE
        OBVIOUS
      <4>1. \A b \in DOMAIN F.disk : b < r.pos BY <2>1, <2>2, LastBoundary
      <4>2. Spent(F, r.pos) BY <4>1, MediaFacts DEF Spent
      <4> QED BY <1>3, <4>2
    <3>3. CASE F.disk[r.pos].id \in ListIds
      <4>1. ReadChunk(F, r) = EnterList(F, r) BY <2>2, <2>4, <3>2, <3>3 DEF ReadChunk
      <4> QED BY <1>1, <2>1, <3>2, <3>3, <4>1, EnterListPasses
    <3>4. CASE F.disk[r.pos].id \notin ListIds
      <4>1. ~(r.pos + 8 + F.disk[r.pos].len > end)
        BY <1>3, <2>1, <3>1, <3>2, <3>4, OverrunSpent
      <4>2. ReadChunk(F, r) = TakeChunk(F, r) BY <2>2, <2>4, <3>2, <3>4, <4>1 DEF ReadChunk
      <4> QED BY <1>1, <2>1, <3>2, <3>4, <4>2, TakeChunkPasses
    <3> QED BY <3>3, <3>4
  <2> QED BY <2>3, <2>4
<1> QED BY <1>2, <1>3

\* A turn more passes what both pass.
LEMMA PassesOn ==
  ASSUME NEW F, WellFormed(F), NEW from \in Nat, NEW p, Passes(F, from, p), p.got = Nothing,
         NEW q, Passes(F, p.pos, q)
  PROVE  Passes(F, from, q)
<1>1. p \in Good(F) /\ q \in Good(F) /\ from <= p.pos /\ p.pos <= q.pos /\ OnPath(F, q)
  BY DEF Passes
<1>2. p.pos \in Nat /\ q.pos \in Nat BY <1>1, ReaderFields
<1>3. \A b \in Packets(F) : b \in Nat BY PacketFacts
<1>4. \A b \in Packets(F) : b < from \/ p.pos <= b BY AnswersPlain DEF Passes
<1>5. ASSUME q.got.kind = "packet"
      PROVE  /\ q.got.at \in Packets(F) /\ from <= q.got.at /\ q.got.at < q.pos
             /\ q.got.trk = F.disk[q.got.at].trk
             /\ \A b \in Packets(F) : from <= b /\ b < q.pos => b = q.got.at
  <2>1. /\ q.got.at \in Packets(F) /\ p.pos <= q.got.at /\ q.got.at < q.pos
        /\ q.got.trk = F.disk[q.got.at].trk
        /\ \A b \in Packets(F) : p.pos <= b /\ b < q.pos => b = q.got.at
    BY <1>5 DEF Passes
  <2>2. from <= q.got.at
    <3> DEFINE a == q.got.at
    <3>1. a \in Nat /\ p.pos <= a BY <1>3, <2>1
    <3> HIDE DEF a
    <3>2. from <= a BY <1>1, <1>2, <3>1
    <3> QED BY <3>2 DEF a
  <2>3. ASSUME NEW b \in Packets(F), from <= b, b < q.pos PROVE b = q.got.at
    <3>1. p.pos <= b BY <1>3, <1>4, <2>3
    <3> QED BY <2>1, <2>3, <3>1
  <2> QED BY <2>1, <2>2, <2>3
<1>6. ASSUME q.got.kind # "packet" PROVE \A b \in Packets(F) : b < from \/ q.pos <= b
  <2>1. \A b \in Packets(F) : b < p.pos \/ q.pos <= b BY <1>6 DEF Passes
  <2> QED BY <1>2, <1>3, <1>4, <2>1
<1>7. ASSUME q.got = Eof PROVE \A b \in Packets(F) : b < from
  <2>1. \A b \in Packets(F) : b < p.pos BY <1>7 DEF Passes
  <2> QED BY <1>2, <1>3, <1>4, <2>1
<1>8. from <= q.pos BY <1>1, <1>2
<1>9. q.got.kind # "landed" BY DEF Passes
<1> QED BY <1>1, <1>5, <1>6, <1>7, <1>8, <1>9 DEF Passes

\* next_packet goes on along the path from wherever the reader stands on it.
LEMMA ReadPacketPasses ==
  ASSUME NEW F, WellFormed(F), BackToBack(F), Contained(F), NEW r \in Good(F), OnPath(F, r)
  PROVE  Passes(F, r.pos, ReadPacket(F, r))
<1> DEFINE s == Rewound(r)
           from == r.pos
           S == {p \in Good(F) : Passes(F, from, p)}
           K == [n \in Nat |-> S]
           q == ReadPacket(F, r)
           N == Turns(F, r)
<1>1. s \in Good(F) /\ s.got = Nothing /\ s.pos = from /\ s.movi = r.movi /\ s.seg = r.seg
  BY RewoundGood
<1>2. from \in Nat BY ReaderFields
<1>3. \A b \in Packets(F) : b \in Nat BY PacketFacts
<1>4. s \in S
  <2>1. OnPath(F, s) BY <1>1 DEF OnPath
  <2>2. s.got.kind # "packet" /\ s.got.kind # "landed" /\ s.got # Eof
    BY <1>1, AnswersPlain
  <2> HIDE DEF s, from
  <2>3. \A b \in Packets(F) : b < from \/ s.pos <= b BY <1>1, <1>2, <1>3
  <2> QED BY <1>1, <1>2, <2>1, <2>2, <2>3 DEF Passes
<1>5. ASSUME NEW p \in S PROVE (IF p.got = Nothing THEN ReadChunk(F, p) ELSE p) \in S
  <2>1. CASE p.got # Nothing BY <2>1
  <2>2. CASE p.got = Nothing
    <3> HIDE DEF from
    <3>1. p \in Good(F) /\ OnPath(F, p) /\ Passes(F, from, p) BY DEF Passes
    <3>2. Passes(F, p.pos, ReadChunk(F, p)) BY <2>2, <3>1, ReadChunkPasses
    <3>3. Passes(F, from, ReadChunk(F, p)) BY <1>2, <2>2, <3>1, <3>2, PassesOn
    <3>4. ReadChunk(F, p) \in Good(F) BY <3>3 DEF Passes
    <3> QED BY <2>2, <3>3, <3>4
  <2> QED BY <2>1, <2>2
<1>6. K \in [Nat -> SUBSET Good(F)] OBVIOUS
<1> HIDE DEF S, q, s
<1>7. s \in K[0] BY <1>4
<1>8. \A n \in Nat : \A p \in K[n] :
        (IF p.got = Nothing THEN ReadChunk(F, p) ELSE p) \in K[n + 1]
  BY <1>5
<1>9. N \in Nat
  <2>1. Cardinality(DOMAIN F.disk) \in Nat BY FS_CardinalityType DEF WellFormed
  <2>2. Len(r.movi) \in Nat BY ReaderFields
  <2> QED BY <2>1, <2>2 DEF Turns
<1>10. q \in K[N]
  <2> HIDE DEF K
  <2> QED BY <1>6, <1>7, <1>8, TurnsKeep DEF s, q
<1> HIDE DEF N
<1>11. q \in S BY <1>9, <1>10
<1> QED BY <1>11 DEF S, q

-----------------------------------------------------------------------------
(* What the tables say                                                     *)

\* A segment starts behind the header of its list.
LEMMA SegmentFrom ==
  ASSUME NEW F, WellFormed(F), NEW i \in DOMAIN MoviSegments(F)
  PROVE  MoviSegments(F)[i].from \in Nat /\ MoviSegments(F)[i].to \in Nat
         /\ MoviSegments(F)[i].from >= 12
<1> DEFINE O == InOrder(MoviLists(F))
<1>1. MoviLists(F) \subseteq DOMAIN F.disk BY BodyFacts
<1>2. MoviLists(F) \subseteq Nat /\ IsFiniteSet(MoviLists(F))
  <2>1. DOMAIN F.disk \subseteq Nat /\ IsFiniteSet(DOMAIN F.disk) BY DEF WellFormed
  <2>2. MoviLists(F) \in SUBSET DOMAIN F.disk BY <1>1
  <2> QED BY <2>1, <2>2, FS_Subset
<1>3. MoviSegments(F) = [k \in DOMAIN O |-> Body(F, O[k])]
  BY DEF MoviSegments, MoviLists, Body
<1>4. O \in [1 .. Cardinality(MoviLists(F)) -> MoviLists(F)] BY <1>2, InOrderLists
<1> HIDE DEF O
<1>5. i \in DOMAIN O /\ O[i] \in Nat BY <1>2, <1>3, <1>4
<1>6. MoviSegments(F)[i].from = O[i] + 12 BY <1>3, <1>5 DEF Body
<1>7. MoviSegments(F) \in Segments BY SegmentsApart
<1>8. MoviSegments(F)[i] \in [from : Nat, to : Nat]
  BY <1>7, LenProperties, ElementOfSeq DEF Segments
<1> QED BY <1>5, <1>6, <1>8

\* A chunk of a stream that stands in a segment does not stand at the start of the
\* file.
LEMMA StandingFacts ==
  ASSUME NEW F, WellFormed(F), NEW ids, NEW t, NEW at \in Standing(F, MoviSegments(F), ids, t)
  PROVE  at \in DOMAIN F.disk /\ at \in Nat /\ at >= 12
<1>1. at \in DOMAIN F.disk /\ \E i \in DOMAIN MoviSegments(F) : MoviSegments(F)[i].from <= at
  BY DEF Standing
<1>2. at \in Nat BY <1>1, CellFacts
<1> QED BY <1>1, <1>2, SegmentFrom

\* The scan for ix## chunks visits every header of a segment.
LEMMA ScanCovers ==
  ASSUME NEW F, WellFormed(F), BackToBack(F), NEW i \in DOMAIN MoviSegments(F),
         NEW at \in DOMAIN F.disk, MoviSegments(F)[i].from <= at,
         at + 8 <= MoviSegments(F)[i].to
  PROVE  at \in ScanMovi(F, MoviSegments(F)[i].from, MoviSegments(F)[i].to)
<1> DEFINE from == MoviSegments(F)[i].from
           to == MoviSegments(F)[i].to
           S == ScanMovi(F, from, to)
           D == {b \in DOMAIN F.disk : b + 8 <= to}
           Bad == {b \in D : from <= b /\ b \notin S}
<1>1. from \in Nat /\ to \in Nat /\ from >= 12 BY SegmentFrom
<1>2. /\ from \in D => from \in S
      /\ \A b \in S : NextHeader(F, b) \in D => NextHeader(F, b) \in S
  <2> HIDE DEF from, to
  <2> QED BY <1>1, ScanMoviFacts
<1>3. Boundary(F, from) BY SegmentStart
<1>4. \A b \in DOMAIN F.disk : b \in Nat BY CellFacts
<1> HIDE DEF from, to, S
<1>5. Bad = {}
  <2> SUFFICES ASSUME Bad # {} PROVE FALSE
    OBVIOUS
  <2>1. PICK b \in Bad : \A c \in Bad : b <= c
    <3>1. Bad \subseteq Nat BY <1>4
    <3> HIDE DEF Bad
    <3> QED BY <3>1, NatLeast
  <2>2. b \in DOMAIN F.disk /\ b \in Nat /\ b + 8 <= to /\ from <= b /\ b \notin S /\ b \in D
    BY <1>4
  <2>3. b # from BY <1>2, <2>2
  <2>4. b \in DOMAIN F.disk \ {0} BY <1>1, <2>2
  <2>5. PICK a \in DOMAIN F.disk : NextHeader(F, a) = b BY <2>4 DEF BackToBack
  <2>6. a \in Nat /\ a < b BY <1>4, <2>5, NextHeaderFacts
  <2>7. from <= a
    <3> SUFFICES ASSUME a < from PROVE FALSE
      BY <1>1, <2>6
    <3>1. b <= from BY <1>3, <2>5 DEF Boundary
    <3> QED BY <1>1, <2>2, <2>3, <3>1
  <2>8. a + 8 <= to BY <1>1, <2>2, <2>6
  <2>9. a \in S
    <3> SUFFICES ASSUME a \notin S PROVE FALSE
      OBVIOUS
    <3>1. a \in Bad BY <2>7, <2>8
    <3>2. b <= a BY <2>1, <3>1
    <3> QED BY <2>2, <2>6, <3>2
  <2> QED BY <1>2, <2>2, <2>5, <2>9
<1>6. at \in D /\ from <= at BY DEF from, to
<1> QED BY <1>5, <1>6 DEF S, from, to

\* open_avi finds the base idx1 counts from, where there is an entry to find it by.
LEMMA BaseFound ==
  ASSUME NEW F, WellFormed(F), MoviSegments(F) # <<>>, NEW base \in Bases(F),
         base = 0 => \E i \in DOMAIN RawIdx1(F) :
                       PerStream(RawIdx1(F)[i]) /\ RawIdx1(F)[i].off # 0
  PROVE  Idx1Base(F, RawIdx1(F), MoviSegments(F)[1].from) = base
<1> DEFINE raw == RawIdx1(F)
           movi == MoviSegments(F)[1].from
           I == {j \in 1 .. Len(raw) : PerStream(raw[j]) /\ raw[j].off # 0}
           i == IF I # {} THEN Min(I) ELSE 0
           absolute == /\ i # 0
                       /\ ProbeOffsetHasCkid(F, raw[i].off, raw[i])
                       /\ ~ProbeOffsetHasCkid(F, movi - 4 + raw[i].off, raw[i])
<1>1. /\ Len(raw) \in Nat /\ DOMAIN raw = 1 .. Len(raw)
      /\ \A j \in DOMAIN raw : raw[j].off \in Nat
  <2>1. raw \in Seq(Idx1Fields) BY RawIdx1Type
  <2>2. \A j \in DOMAIN raw : raw[j] \in Idx1Fields BY <2>1, LenProperties, ElementOfSeq
  <2> QED BY <2>1, <2>2, LenProperties DEF Idx1Fields
<1>2. Idx1Base(F, raw, movi) = IF absolute THEN 0 ELSE movi - 4
  BY DEF Idx1Base, SelectInSeq
<1>3. base \in {0, movi - 4} BY DEF Bases
<1>4. \A j \in DOMAIN raw : PerStream(raw[j]) =>
        /\ ProbeOffsetHasCkid(F, base + raw[j].off, raw[j])
        /\ base = 0 => ~ProbeOffsetHasCkid(F, movi - 4 + raw[j].off, raw[j])
  BY DEF Bases
<1>5. I # {} => Min(I) \in I
  <2> DEFINE n == Len(raw)
  <2>1. n \in Nat /\ I \in SUBSET (1 .. n) BY <1>1
  <2> HIDE DEF I, n
  <2> QED BY <2>1, SelectedIndex
<1>6. i # 0 => i \in DOMAIN raw /\ PerStream(raw[i]) /\ raw[i].off \in Nat
  <2>1. \A j \in I : j \in DOMAIN raw /\ PerStream(raw[j]) /\ raw[j].off \in Nat BY <1>1
  <2> HIDE DEF I
  <2> QED BY <1>5, <2>1
<1>7. base = 0 => i # 0
  <2> SUFFICES ASSUME base = 0 PROVE i # 0
    OBVIOUS
  <2>1. I # {} BY <1>1
  <2>2. \A j \in I : j # 0 BY <1>1
  <2> HIDE DEF I
  <2> QED BY <1>5, <2>1, <2>2
<1> HIDE DEF raw, movi, i
<1>8. CASE base = 0
  <2>1. 0 + raw[i].off = raw[i].off BY <1>6, <1>7, <1>8
  <2>2. absolute BY <1>4, <1>6, <1>7, <1>8, <2>1
  <2> QED BY <1>2, <1>8, <2>2 DEF raw, movi
<1>9. CASE base # 0
  <2>1. base = movi - 4 BY <1>3, <1>9
  <2>2. ~absolute BY <1>4, <1>6, <2>1
  <2> QED BY <1>2, <2>1, <2>2 DEF raw, movi
<1> QED BY <1>8, <1>9

\* Entries alike are true together.
Alike(x, y) == x.trk = y.trk /\ x.off = y.off /\ x.len = y.len /\ x.key = y.key

LEMMA TrueAlike ==
  ASSUME NEW F, NEW x, NEW y, Alike(x, y), True(F, y)
  PROVE  True(F, x)
BY DEF Alike, True

\* What the idx1 table lists is what idx1 says, counted from its base.
LEMMA IdxSays ==
  ASSUME NEW F, WellFormed(F), MoviSegments(F) # <<>>, NEW base \in Bases(F),
         base = 0 => \A x \in Idx1Says(F, base) : x.off # 0
  PROVE  /\ \A n \in DOMAIN IdxOf(F) : \E x \in Idx1Says(F, base) : Alike(IdxOf(F)[n], x)
         /\ \A x \in Idx1Says(F, base) : \E n \in DOMAIN IdxOf(F) : Alike(IdxOf(F)[n], x)
<1> DEFINE raw == RawIdx1(F)
           movi == MoviSegments(F)[1].from
           T == IdxOf(F)
           b == Idx1Base(F, raw, movi)
           I == {j \in DOMAIN raw : PerStream(raw[j]) /\ raw[j].trk \in Streams}
           says(j) == [trk |-> raw[j].trk, off |-> base + raw[j].off,
                       len |-> raw[j].len, key |-> raw[j].key]
<1>1. raw \in Seq(Idx1Fields) /\ \A j \in DOMAIN raw : raw[j].off \in Nat
  <2>1. raw \in Seq(Idx1Fields) BY RawIdx1Type
  <2>2. \A j \in DOMAIN raw : raw[j] \in Idx1Fields BY <2>1, LenProperties, ElementOfSeq
  <2> QED BY <2>1, <2>2 DEF Idx1Fields
<1>2. movi \in Nat
  <2>1. MoviSegments(F) \in Segments BY SegmentsApart
  <2>2. 1 \in DOMAIN MoviSegments(F) BY <2>1, EmptySeq, LenProperties DEF Segments
  <2> QED BY <2>2, SegmentFrom
<1>3. Idx1Says(F, base) = {says(j) : j \in I} BY DEF Idx1Says
<1>4. /\ \A n \in DOMAIN T : \E j \in DOMAIN raw : Read(raw[j], b, T[n])
      /\ \A j \in DOMAIN raw : PerStream(raw[j]) /\ raw[j].trk \in Streams =>
           \E n \in DOMAIN T : Read(raw[j], b, T[n])
  <2> HIDE DEF raw, movi
  <2>1. T = BuildIdxTable(F, raw, movi) BY DEF IdxOf, raw, movi
  <2> QED BY <1>1, <1>2, <2>1, IdxTable
<1>5. ASSUME NEW j \in I PROVE b = base
  <2>1. says(j) \in Idx1Says(F, base) BY <1>3
  <2>2. says(j).off = base + raw[j].off BY DEF says
  <2> HIDE DEF says
  <2>3. base = 0 => raw[j].off # 0
    <3> SUFFICES ASSUME base = 0, raw[j].off = 0 PROVE FALSE
      OBVIOUS
    <3>1. says(j).off # 0 BY <2>1
    <3> QED BY <2>2, <3>1
  <2>4. base = 0 => \E k \in DOMAIN RawIdx1(F) :
                      PerStream(RawIdx1(F)[k]) /\ RawIdx1(F)[k].off # 0
    BY <2>3
  <2> HIDE DEF raw, movi
  <2> QED BY <2>4, BaseFound DEF raw, movi
<1>6. ASSUME NEW j \in I, NEW x, Read(raw[j], b, x) PROVE Alike(x, says(j))
  BY <1>5, <1>6 DEF Read, Alike
<1>7. \A j \in DOMAIN raw : \A x : Read(raw[j], b, x) => j \in I BY DEF Read
<1> HIDE DEF says, b, T, I
<1>8. \A n \in DOMAIN T : \E j \in I : Alike(T[n], says(j)) BY <1>4, <1>6, <1>7
<1>9. \A j \in I : \E n \in DOMAIN T : Alike(T[n], says(j)) BY <1>4, <1>6 DEF I
<1> QED BY <1>3, <1>8, <1>9 DEF T

\* The ix## chunks the scan finds stand in a segment; of a whole file it finds
\* all of these.
LEMMA FoundIx ==
  ASSUME NEW F, WellFormed(F), BackToBack(F), Contained(F)
  PROVE  LET found == Range(ScanIxInMovi(F, MoviSegments(F))) IN
         /\ \A at \in found : at \in Standing(F, MoviSegments(F), {"ix"}, F.disk[at].trk)
         /\ Uncut(F) /\ FormTypes(F)
              => \A t : Standing(F, MoviSegments(F), {"ix"}, t) \subseteq found
<1> DEFINE M == MoviSegments(F)
           found == Range(ScanIxInMovi(F, M))
<1>1. M \in Segments BY SegmentsApart
<1>2. /\ found \subseteq SeenIx(F, M)
      /\ (\A at \in Seen(F, M) : ~FormCut(F, at)) => SeenIx(F, M) \subseteq found
  BY <1>1, IxScanType
<1>3. ASSUME NEW at \in SeenIx(F, M) PROVE at \in Standing(F, M, {"ix"}, F.disk[at].trk)
  <2>1. /\ at \in Seen(F, M) /\ F.disk[at].id = "ix" /\ at + 8 + F.disk[at].len <= F.len
    BY DEF SeenIx
  <2>2. PICK i \in DOMAIN M : at \in ScanMovi(F, M[i].from, M[i].to) BY <2>1 DEF Seen
  <2>3. M[i].from \in Nat /\ M[i].to \in Nat BY SegmentFrom
  <2>4. at \in DOMAIN F.disk /\ at + 8 <= M[i].to /\ M[i].from <= at
    BY <2>2, <2>3, ScanMoviFacts
  <2>5. at \in Nat /\ F.len \in Nat /\ F.disk[at].len \in Nat BY <2>4, CellFacts
  <2>6. at < M[i].to
    <3> DEFINE e == M[i].to
    <3>1. e \in Nat /\ at + 8 <= e BY <2>3, <2>4
    <3> HIDE DEF e
    <3>2. at < e BY <2>5, <3>1
    <3> QED BY <3>2 DEF e
  <2>7. F.disk[at].id \notin ListIds BY <2>1 DEF ListIds
  <2>8. at + 8 + F.disk[at].len <= M[i].to \/ at + 8 + F.disk[at].len > F.len
    BY <2>4, <2>6, <2>7 DEF Contained
  <2>9. at + 8 + F.disk[at].len <= M[i].to
    <3> DEFINE e == at + 8 + F.disk[at].len
    <3>1. e \in Nat /\ e <= F.len BY <2>1, <2>5
    <3>2. e <= M[i].to \/ e > F.len BY <2>8
    <3> HIDE DEF e
    <3>3. e <= M[i].to BY <2>5, <3>1, <3>2
    <3> QED BY <3>3 DEF e
  <2> QED BY <2>1, <2>4, <2>9 DEF Standing
<1>4. ASSUME Uncut(F), FormTypes(F), NEW t, NEW at \in Standing(F, M, {"ix"}, t)
      PROVE  at \in found
  <2>1. ASSUME NEW a \in DOMAIN F.disk PROVE ~FormCut(F, a) /\ a + 8 + F.disk[a].len <= F.len
    <3> DEFINE l == F.disk[a].len
               e == Even(l)
    <3>1. a \in Nat /\ F.len \in Nat /\ l \in Nat /\ e \in Nat /\ l <= e BY CellFacts
    <3>2. a + 8 + e <= F.len BY <1>4 DEF Uncut
    <3>3. F.disk[a].id \in ListIds => l >= 4 BY <1>4 DEF FormTypes
    <3>4. FormCut(F, a) <=> F.disk[a].id \in ListIds /\ a + 12 > F.len BY DEF FormCut
    <3> HIDE DEF l, e
    <3>5. a + 8 + l <= F.len BY <3>1, <3>2
    <3>6. l >= 4 => ~(a + 12 > F.len) BY <3>1, <3>2
    <3> QED BY <3>3, <3>4, <3>5, <3>6 DEF l
  <2>2. Seen(F, M) \subseteq DOMAIN F.disk
    <3>1. \A i \in DOMAIN M : M[i].from \in Nat /\ M[i].to \in Int BY SegmentFrom
    <3> QED BY <3>1, ScanMoviFacts DEF Seen
  <2>3. SeenIx(F, M) \subseteq found BY <1>2, <2>1, <2>2
  <2>4. /\ at \in DOMAIN F.disk /\ F.disk[at].id = "ix"
        /\ \E i \in DOMAIN M : M[i].from <= at /\ at + 8 + F.disk[at].len <= M[i].to
    BY DEF Standing
  <2>5. PICK i \in DOMAIN M : M[i].from <= at /\ at + 8 + F.disk[at].len <= M[i].to BY <2>4
  <2>6. at + 8 <= M[i].to
    <3> DEFINE e == M[i].to
               l == F.disk[at].len
    <3>1. e \in Nat /\ at \in Nat /\ l \in Nat /\ at + 8 + l <= e
      BY <2>4, <2>5, SegmentFrom, CellFacts
    <3> HIDE DEF e, l
    <3>2. at + 8 <= e BY <3>1
    <3> QED BY <3>2 DEF e
  <2>7. at \in ScanMovi(F, M[i].from, M[i].to) BY <2>4, <2>5, <2>6, ScanCovers
  <2>8. at \in SeenIx(F, M) BY <2>1, <2>4, <2>7 DEF SeenIx, Seen
  <2> QED BY <2>3, <2>8
<1> QED BY <1>2, <1>3, <1>4

\* What the table of the standard indexes lists, they say; of a whole file it
\* lists all they say.
LEMMA StdSays ==
  ASSUME NEW F, WellFormed(F), BackToBack(F), Contained(F)
  PROVE  /\ \A n \in DOMAIN StdTable(F) : \E x \in HeaderSays(F) \cup ChunksSay(F) :
              Alike(StdTable(F)[n], x)
         /\ \A x \in HeaderSays(F) : \E n \in DOMAIN StdTable(F) : Alike(StdTable(F)[n], x)
         /\ Uncut(F) /\ FormTypes(F) /\ WantIxScan(F, MoviSegments(F)) =>
              \A x \in ChunksSay(F) : \E n \in DOMAIN StdTable(F) : Alike(StdTable(F)[n], x)
<1> DEFINE M == MoviSegments(F)
           T == StdTable(F)
           std == StdIndexes(F, M)
           heads == {t \in Streams : F.indx[t].kind = "std"}
           scanned == Range(ScanIxInMovi(F, M))
           found == IF WantIxScan(F, M) THEN scanned ELSE {}
           says(t, y, i) == [trk |-> t, off |-> y.base + y.ents[i].off - 8,
                             len |-> y.ents[i].len, key |-> y.ents[i].key]
<1>1. M \in Segments BY SegmentsApart
<1>2. /\ std \in Seq(StdIxs)
      /\ \A x \in Range(std) : \/ \E t \in heads : Holds(x, t, F.indx[t])
                               \/ \E at \in found : Holds(x, F.disk[at].trk, F.disk[at])
      /\ \A t \in heads : \E x \in Range(std) : Holds(x, t, F.indx[t])
      /\ \A at \in found : \E x \in Range(std) : Holds(x, F.disk[at].trk, F.disk[at])
  <2> HIDE DEF M
  <2> QED BY <1>1, StdIndexesType
<1>3. /\ T \in Tables
      /\ \A n \in DOMAIN T : \E x \in Range(std), i \in Nat : ReadIx(x, i, T[n])
      /\ \A x \in Range(std) : \A i \in DOMAIN x.ents : x.trk \in Streams =>
           \E n \in DOMAIN T : ReadIx(x, i, T[n])
  BY StdTableType
<1>4. /\ \A at \in scanned : at \in Standing(F, M, {"ix"}, F.disk[at].trk)
      /\ Uncut(F) /\ FormTypes(F)
           => \A t : Standing(F, M, {"ix"}, t) \subseteq scanned
  BY FoundIx
<1>5. \A t, y : IxSays(t, y) = {says(t, y, i) : i \in DOMAIN y.ents} BY DEF IxSays
<1>6. ASSUME NEW x, NEW t, NEW y, Holds(x, t, y), NEW i, NEW e, ReadIx(x, i, e)
      PROVE  i \in DOMAIN y.ents /\ Alike(e, says(t, y, i))
  BY <1>6 DEF Holds, ReadIx, Alike
<1> HIDE DEF says, std, T, heads, scanned, found, M
<1>7. \A n \in DOMAIN T : T[n].trk \in Streams
  <2>1. \A n \in DOMAIN T : T[n] \in Entries BY <1>3, LenProperties, ElementOfSeq DEF Tables
  <2> QED BY <2>1 DEF Entries
<1>8. ASSUME NEW n \in DOMAIN T
      PROVE  \E x \in HeaderSays(F) \cup ChunksSay(F) : Alike(T[n], x)
  <2>1. PICK x \in Range(std), i \in Nat : ReadIx(x, i, T[n]) BY <1>3
  <2>2. CASE \E t \in heads : Holds(x, t, F.indx[t])
    <3>1. PICK t \in heads : Holds(x, t, F.indx[t]) BY <2>2
    <3>2. i \in DOMAIN F.indx[t].ents /\ Alike(T[n], says(t, F.indx[t], i))
      BY <1>6, <2>1, <3>1
    <3>3. says(t, F.indx[t], i) \in IxSays(t, F.indx[t]) BY <1>5, <3>2
    <3>4. IxSays(t, F.indx[t]) \subseteq HeaderSays(F) BY DEF HeaderSays, heads
    <3> QED BY <3>2, <3>3, <3>4
  <2>3. CASE \E at \in found : Holds(x, F.disk[at].trk, F.disk[at])
    <3>1. PICK at \in found : Holds(x, F.disk[at].trk, F.disk[at]) BY <2>3
    <3> DEFINE t == F.disk[at].trk
    <3>2. i \in DOMAIN F.disk[at].ents /\ Alike(T[n], says(t, F.disk[at], i))
      BY <1>6, <2>1, <3>1
    <3>3. says(t, F.disk[at], i) \in IxSays(t, F.disk[at]) BY <1>5, <3>2
    <3>4. t \in Streams
      <4>1. T[n].trk = x.trk BY <2>1 DEF ReadIx
      <4>2. x.trk = t BY <3>1 DEF Holds
      <4> QED BY <1>7, <4>1, <4>2
    <3>5. at \in Standing(F, M, {"ix"}, t) BY <1>4, <3>1 DEF found
    <3>6. IxSays(t, F.disk[at]) \subseteq ChunksSay(F)
      <4> HIDE DEF t
      <4> QED BY <3>4, <3>5 DEF ChunksSay, M
    <3> QED BY <3>2, <3>3, <3>6
  <2> QED BY <1>2, <2>1, <2>2, <2>3
<1>9. ASSUME NEW e \in HeaderSays(F) PROVE \E n \in DOMAIN T : Alike(T[n], e)
  <2>1. PICK t \in heads : e \in IxSays(t, F.indx[t]) BY DEF HeaderSays, heads
  <2>2. PICK i \in DOMAIN F.indx[t].ents : e = says(t, F.indx[t], i) BY <1>5, <2>1
  <2>3. PICK x \in Range(std) : Holds(x, t, F.indx[t]) BY <1>2
  <2>4. i \in DOMAIN x.ents /\ x.trk \in Streams BY <2>2, <2>3 DEF Holds, heads
  <2>5. PICK n \in DOMAIN T : ReadIx(x, i, T[n]) BY <1>3, <2>4
  <2> QED BY <1>6, <2>2, <2>3, <2>5
<1>10. ASSUME Uncut(F), FormTypes(F), WantIxScan(F, M), NEW e \in ChunksSay(F)
       PROVE  \E n \in DOMAIN T : Alike(T[n], e)
  <2>0. PICK t \in Streams :
          e \in UNION {IxSays(t, F.disk[at]) : at \in Standing(F, M, {"ix"}, t)}
    BY DEF ChunksSay, M
  <2>1. PICK at \in Standing(F, M, {"ix"}, t) : e \in IxSays(t, F.disk[at]) BY <2>0
  <2>2. PICK i \in DOMAIN F.disk[at].ents : e = says(t, F.disk[at], i) BY <1>5, <2>1
  <2>3. at \in found BY <1>4, <1>10 DEF found
  <2>4. F.disk[at].trk = t BY DEF Standing
  <2>5. PICK x \in Range(std) : Holds(x, t, F.disk[at]) BY <1>2, <2>3, <2>4
  <2>6. i \in DOMAIN x.ents /\ x.trk \in Streams BY <2>2, <2>5 DEF Holds
  <2>7. PICK n \in DOMAIN T : ReadIx(x, i, T[n]) BY <1>3, <2>6
  <2> QED BY <1>6, <2>2, <2>5, <2>7
<1> QED BY <1>8, <1>9, <1>10 DEF T, M

\* What the tables list is true.
LEMMA TablesTrue ==
  ASSUME NEW F, WellFormed(F), BackToBack(F), MoviSegments(F) # <<>>, Contained(F), Honest(F)
  PROVE  /\ \A n \in DOMAIN IdxOf(F) : True(F, IdxOf(F)[n])
         /\ \A n \in DOMAIN StdTable(F) : True(F, StdTable(F)[n])
<1>1. PICK base \in Bases(F) : \A x \in Idx1Says(F, base) : True(F, x) BY DEF Honest
<1>2. \A x \in Idx1Says(F, base) : x.off # 0
  <2> SUFFICES ASSUME NEW x \in Idx1Says(F, base) PROVE x.off # 0
    OBVIOUS
  <2>1. x.off \in Standing(F, MoviSegments(F), MediaIds, x.trk) BY <1>1 DEF True
  <2>2. x.off \in Nat /\ x.off >= 12 BY <2>1, StandingFacts
  <2> QED BY <2>2
<1>3. \A n \in DOMAIN IdxOf(F) : \E x \in Idx1Says(F, base) : Alike(IdxOf(F)[n], x)
  BY <1>2, IdxSays
<1>4. \A n \in DOMAIN IdxOf(F) : True(F, IdxOf(F)[n]) BY <1>1, <1>3, TrueAlike
<1>5. \A x \in HeaderSays(F) \cup ChunksSay(F) : True(F, x) BY DEF Honest
<1>6. \A n \in DOMAIN StdTable(F) : True(F, StdTable(F)[n]) BY <1>5, StdSays, TrueAlike
<1> QED BY <1>4, <1>6

-----------------------------------------------------------------------------
(* Landing on the path                                                     *)

\* The table of file F a seek reads.
TableOf(F, how) ==
  IF how = "std" \/ (how = "seek_to" /\ IdxOf(F) = <<>>) THEN StdTable(F) ELSE IdxOf(F)

\* The entry a seek chooses is a keyframe of the stream from that table.
ListedKey(F, how, t, k) ==
  k.key /\ k.trk = t /\ \E n \in DOMAIN TableOf(F, how) : k = TableOf(F, how)[n]

LEMMA ChosenListed ==
  ASSUME NEW F, WellFormed(F), NEW r \in Good(F), Len(r.movi) # 0,
         NEW how, NEW t, NEW target, NEW k, Chosen(r, how, t, target, k)
  PROVE  ListedKey(F, how, t, k)
<1>1. /\ r.idx \in Tables /\ r.std \in Tables
      /\ r.idx = IdxOf(F) /\ r.std = StdTable(F)
  BY ReaderTables, ReaderFields
<1>2. ASSUME NEW s \in Tables, NEW n \in DOMAIN Keyframes(s, t)
      PROVE  LET e == Keyframes(s, t)[n] IN
             e.key /\ e.trk = t /\ \E i \in DOMAIN s : e = s[i]
  <2> DEFINE I == {i \in DOMAIN s : s[i].trk = t /\ s[i].key}
  <2>1. Keyframes(s, t) = At(s, I) BY DEF Keyframes, Kept, At
  <2>2. I \in SUBSET DOMAIN s /\ \A i \in I : s[i].trk = t /\ s[i].key OBVIOUS
  <2> HIDE DEF I
  <2>3. \E i \in I : At(s, I)[n] = s[i] BY <2>1, <2>2, PartOfTable
  <2> QED BY <2>1, <2>2, <2>3
<1>3. CASE how = "after"
  <2> DEFINE s == Keyframes(r.idx, t)
             I == {i \in DOMAIN s : s[i].off \notin r.notime}
  <2>1. s \in Tables BY <1>1, KeyframesTable
  <2>2. Timed(r, t) = At(s, I) BY DEF Timed, Kept, At
  <2>3. I \in SUBSET DOMAIN s OBVIOUS
  <2> HIDE DEF s, I
  <2>4. PICK i \in DOMAIN At(s, I) : k = At(s, I)[i]
    BY <1>3, <2>2 DEF Chosen, SelectedAfter
  <2>5. PICK n \in DOMAIN s : k = s[n] BY <2>1, <2>3, <2>4, PartOfTable
  <2>6. TableOf(F, how) = r.idx BY <1>1, <1>3 DEF TableOf
  <2> QED BY <1>1, <1>2, <2>5, <2>6 DEF ListedKey, s
<1>4. CASE how # "after"
  <2> DEFINE u == SeekTable(r, how)
  <2>1. (u = r.idx \/ u = r.std) /\ u = TableOf(F, how) BY <1>1 DEF SeekTable, TableOf
  <2> HIDE DEF u
  <2>2. PICK n \in DOMAIN Keyframes(u, t) : k = Keyframes(u, t)[n]
    BY <1>4 DEF Chosen, Selected, u
  <2> QED BY <1>1, <1>2, <2>1, <2>2 DEF ListedKey
<1> QED BY <1>3, <1>4

\* Reader q stands in front of a keyframe of the stream its answer names.
Fronts(F, q) ==
  /\ q.got.kind = "landed" /\ OnPath(F, q)
  /\ \E at \in Packets(F) :
       /\ F.disk[at].trk = q.got.trk /\ F.disk[at].key /\ q.pos <= at
       /\ \A b \in Packets(F) : b < q.pos \/ at <= b

\* Reader q stands in front of the chunk that entry k of a table lists.
AtEntry(F, q, how, t, k) ==
  /\ q.got.kind = "landed" /\ q.got.trk = t /\ q.pos = k.off /\ Within(q)
  /\ ListedKey(F, how, t, k) /\ True(F, k)

\* A seek that lands, lands on the chunk of the entry it chose.
LEMMA SeekArrives ==
  ASSUME NEW F, WellFormed(F), BackToBack(F), Contained(F), Honest(F),
         NEW q \in Good(F), Len(q.movi) # 0, NEW how, NEW t, NEW target,
         LandsWell(q, how, t, target)
  PROVE  \E k : /\ Chosen(q, how, t, target, k) /\ LandedOn(q, t, target, k)
               /\ AtEntry(F, q, how, t, k)
<1>1. /\ q.movi = MoviSegments(F) /\ Len(q.movi) \in Nat
      /\ DOMAIN q.movi = 1 .. Len(q.movi) /\ Apart(q.movi, F.len)
      /\ \A i \in DOMAIN q.movi : q.movi[i].from \in Nat /\ q.movi[i].to \in Nat
  BY ReaderFields
<1>2. PICK k : Chosen(q, how, t, target, k) /\ LandedOn(q, t, target, k)
  BY DEF LandsWell
<1>3. /\ q.got.kind = "landed" /\ q.got.trk = t /\ q.pos = Clamped(q, k.off) /\ Within(q)
  BY <1>2 DEF LandedOn
<1>4. ListedKey(F, how, t, k) BY <1>2, ChosenListed
<1>5. MoviSegments(F) # <<>>
  <2>1. q.movi \in Segments BY ReaderFields
  <2> QED BY <1>1, <2>1, EmptySeq DEF Segments
<1>6. k.key /\ True(F, k) BY <1>4, <1>5, TablesTrue DEF ListedKey, TableOf
<1>7. k.off \in DOMAIN F.disk /\ \E i \in DOMAIN q.movi : q.movi[i].from <= k.off
  BY <1>1, <1>6 DEF True, Standing
<1>8. k.off \in Nat BY <1>7, CellFacts
<1>9. q.pos = k.off
  <2>1. PICK i \in DOMAIN q.movi : q.movi[i].from <= k.off BY <1>7
  <2>2. 1 \in DOMAIN q.movi /\ (i = 1 \/ 1 < i) BY <1>1
  <2> DEFINE x == q.movi[1].from
             y == q.movi[1].to
             z == q.movi[i].from
             o == k.off
  <2>3. x \in Nat /\ y \in Nat /\ z \in Nat /\ x <= y + 11 /\ z <= o
    BY <1>1, <2>1, <2>2 DEF Apart
  <2>4. i = 1 => x = z OBVIOUS
  <2>5. 1 < i => y + 12 <= z BY <1>1, <2>2 DEF Apart
  <2>6. o \in Nat BY <1>8
  <2>7. Clamped(q, o) = IF o < x THEN x ELSE o BY DEF Clamped
  <2>8. q.pos = Clamped(q, o) BY <1>3
  <2> HIDE DEF x, y, z, o
  <2>9. ~(o < x) BY <2>2, <2>3, <2>4, <2>5, <2>6
  <2>10. q.pos = o BY <2>7, <2>8, <2>9
  <2> QED BY <2>10 DEF o
<1> QED BY <1>2, <1>3, <1>4, <1>9, <1>6 DEF AtEntry

\* A seek leaves the reader where it was or lands it in front of a keyframe.
LEMMA SeekFronts ==
  ASSUME NEW F, WellFormed(F), BackToBack(F), Contained(F), Honest(F),
         NEW r \in Good(F), Len(r.movi) # 0, NEW q, NEW how, NEW t, NEW target,
         SeekOutcome(F, r, q, how, t, target)
  PROVE  Unmoved(r, q) \/ Fronts(F, q)
<1> SUFFICES ASSUME LandsWell(q, how, t, target) PROVE Fronts(F, q)
  BY DEF SeekOutcome
<1>1. q \in Good(F) BY DEF SeekOutcome
<1>2. q.movi = MoviSegments(F) /\ r.movi = q.movi /\ Len(q.movi) \in Nat
      /\ DOMAIN q.movi = 1 .. Len(q.movi)
  BY <1>1, ReaderFields
<1>3. PICK k : AtEntry(F, q, how, t, k) BY <1>1, <1>2, SeekArrives
<1>4. /\ q.got.kind = "landed" /\ q.got.trk = t /\ q.pos = k.off /\ Within(q)
      /\ k.key /\ k.trk = t /\ True(F, k)
  BY <1>3 DEF AtEntry, ListedKey
<1>5. k.off \in DOMAIN F.disk /\ (\E i \in DOMAIN q.movi : q.movi[i].from <= k.off)
      /\ Leads(F, t, k.off)
  BY <1>2, <1>4 DEF True, Standing
<1>6. Boundary(F, q.pos) BY <1>2, <1>4, <1>5, NextHeaderFacts
<1>7. q.seg <= Len(q.movi) BY <1>2, <1>4 DEF Within
<1>8. OnPath(F, q) BY <1>6, <1>7 DEF OnPath
<1>9. \E at \in Packets(F) :
        /\ F.disk[at].trk = t /\ F.disk[at].key /\ q.pos <= at
        /\ \A b \in Packets(F) : b < q.pos \/ at <= b
  BY <1>4, <1>5 DEF Leads
<1> QED BY <1>4, <1>8, <1>9 DEF Fronts

-----------------------------------------------------------------------------
(* The refinement                                                          *)

OrderlyFiles == \A F \in Files : Orderly(F)

\* The reader is on the path, beside the list of the packets of its file.
PathOK ==
  IF d.open THEN Lists(list, file) /\ OnPath(file, d) ELSE list = <<>>
SInv == DInv /\ PathOK

\* What the refinement mapping makes of an open demuxer.
LEMMA OpenFacts ==
  ASSUME OrderlyFiles, SInv, d.open
  PROVE  /\ WellFormed(file) /\ BackToBack(file) /\ Contained(file) /\ Honest(file)
         /\ Complete(file) /\ d \in Good(file) /\ Len(d.movi) # 0 /\ d.pos \in Nat
         /\ Lists(list, file) /\ OnPath(file, d)
<1>1. WellFormed(file) /\ d \in Good(file) /\ Len(d.movi) # 0 /\ file \in Files
  BY OpenReader DEF SInv, DInv
<1>2. d.movi = MoviSegments(file) /\ d.pos \in Nat /\ d.movi \in Segments
  BY <1>1, ReaderFields
<1>3. MoviSegments(file) # <<>> BY <1>1, <1>2, EmptySeq DEF Segments
<1>4. Orderly(file) BY <1>1 DEF OrderlyFiles
<1>5. Lists(list, file) /\ OnPath(file, d) BY DEF SInv, PathOK
<1> QED BY <1>1, <1>2, <1>3, <1>4, <1>5 DEF Orderly

\* open_avi stands in front of the first packet.
LEMMA SInvInit ==
  ASSUME OrderlyFiles, Init
  PROVE  SInv /\ Source!Init
<1>1. DInv BY DInvInit
<1>2. CASE ~d.open
  <2>1. PathOK BY <1>2 DEF Init, PathOK
  <2>2. d.got.kind = "io_error"
    <3>1. d = Closed \/ d \in Good(file) BY <1>1 DEF DInv, ReaderOK
    <3>2. d \notin Good(file) BY <1>2 DEF Good, Readers
    <3> QED BY <3>1, <3>2 DEF Closed, IoError
  <2>3. Source!Init BY <1>2, <2>2 DEF Source!Init, Source!Failures
  <2> QED BY <1>1, <2>1, <2>3 DEF SInv
<1>3. CASE d.open
  <2>1. /\ WellFormed(file) /\ d \in Good(file) /\ Len(d.movi) # 0 /\ file \in Files
        /\ d = Open(file) /\ list = Content(file, d.movi)
    BY <1>1, <1>3, OpenReader DEF Init, DInv
  <2>2. /\ d.movi = MoviSegments(file) /\ Len(d.movi) \in Nat /\ d.pos \in Nat
        /\ DOMAIN d.movi = 1 .. Len(d.movi) /\ d.movi \in Segments /\ Apart(d.movi, file.len)
        /\ \A i \in DOMAIN d.movi : d.movi[i].from \in Nat /\ d.movi[i].to \in Nat
    BY <2>1, ReaderFields
  <2>3. 1 \in DOMAIN d.movi BY <2>1, <2>2
  <2>4. d.seg = 1 /\ d.pos = d.movi[1].from /\ d.got = Nothing
    <3>1. Open(file) # Closed BY <1>3, <2>1 DEF Closed
    <3> QED BY <2>1, <2>2, <3>1 DEF Open
  <2>5. Lists(list, file) BY <2>1, <2>2, ContentLists
  <2>6. BackToBack(file) BY <2>1 DEF OrderlyFiles, Orderly
  <2>7. Boundary(file, d.pos) BY <2>1, <2>2, <2>3, <2>4, <2>6, SegmentStart
  <2>8. OnPath(file, d) BY <2>1, <2>2, <2>4, <2>7 DEF OnPath
  <2>9. PathOK BY <1>3, <2>5, <2>8 DEF PathOK
  <2>10. ASSUME NEW b \in Packets(file) PROVE d.pos <= b
    <3>1. PICK i \in DOMAIN d.movi : d.movi[i].from <= b BY <2>1, <2>2, PacketFacts
    <3>2. b \in Nat BY <2>1, PacketFacts
    <3>3. i = 1 \/ 1 < i BY <2>2
    <3> DEFINE x == d.movi[1].from
               y == d.movi[1].to
               z == d.movi[i].from
    <3>4. x \in Nat /\ y \in Nat /\ z \in Nat /\ x <= y + 11 /\ z <= b /\ d.pos = x
      BY <2>2, <2>3, <2>4, <3>1 DEF Apart
    <3>5. i = 1 => x = z OBVIOUS
    <3>6. 1 < i => y + 12 <= z BY <2>2, <2>3 DEF Apart
    <3> HIDE DEF x, y, z
    <3> QED BY <3>2, <3>3, <3>4, <3>5, <3>6
  <2>11. Behind(list, d.pos) = 0 BY <2>1, <2>2, <2>5, <2>10, BehindNone
  <2>12. d.got.kind = "nothing" BY <2>4 DEF Nothing
  <2>13. Source!Init BY <1>3, <2>11, <2>12 DEF Source!Init, Behind
  <2> QED BY <1>1, <2>9, <2>13 DEF SInv
<1> QED BY <1>2, <1>3

\* The cursor of the source before and after a step that leaves the demuxer open.
Cursor == IF d.open THEN Cardinality({i \in DOMAIN list : list[i].at < d.pos}) ELSE 0

LEMMA CursorIs ==
  ASSUME d.open, d'.open, list' = list
  PROVE  Cursor = Behind(list, d.pos) /\ Cursor' = Behind(list, d'.pos)
BY DEF Cursor, Behind

\* next_packet reads the next packet, says Eof at the end, or fails in place.
LEMMA NextPacketReads ==
  ASSUME OrderlyFiles, SInv, NextPacket
  PROVE  PathOK' /\ (Source!Read \/ Source!End \/ Source!Fail)
<1> DEFINE q == ReadPacket(file, d)
<1>1. d.open /\ d' = q /\ file' = file /\ list' = list BY DEF NextPacket
<1>2. /\ WellFormed(file) /\ BackToBack(file) /\ Contained(file)
      /\ d \in Good(file) /\ d.pos \in Nat /\ Lists(list, file) /\ OnPath(file, d)
  BY <1>1, OpenFacts
<1>3. Passes(file, d.pos, q) BY <1>2, ReadPacketPasses
<1>4. q.got # Nothing BY <1>2, ReadPacketFacts
<1> HIDE DEF q
<1>5. q \in Good(file) /\ OnPath(file, q) /\ d.pos <= q.pos /\ q.got.kind # "landed"
  BY <1>3 DEF Passes
<1>6. q.open /\ q.pos \in Nat /\ q.got \in Answers(file)
  BY <1>2, <1>5, ReaderFields DEF Good, Readers
<1>7. PathOK' BY <1>1, <1>2, <1>5, <1>6 DEF PathOK
<1> DEFINE c == Behind(list, d.pos)
           e == Behind(list, q.pos)
<1>8. Cursor = c /\ Cursor' = e BY <1>1, <1>6, CursorIs
<1>9. c \in 0 .. Len(list) /\ Len(list) \in Nat /\ DOMAIN list = 1 .. Len(list)
  BY <1>2, BehindFacts DEF Lists
<1>10. CASE q.got.kind = "packet"
  <2> DEFINE at == q.got.at
  <2>1. /\ at \in Packets(file) /\ d.pos <= at /\ at < q.pos
        /\ q.got.trk = file.disk[at].trk
        /\ \A b \in Packets(file) : d.pos <= b /\ b < q.pos => b = at
    BY <1>3, <1>10 DEF Passes
  <2> HIDE DEF at
  <2>2. c < Len(list) /\ e = c + 1 /\ list[c + 1].at = at
    BY <1>2, <1>6, <2>1, OverPacket
  <2>3. e \in DOMAIN list /\ list[e].at = at
    <3> HIDE DEF c, e
    <3> QED BY <1>9, <2>2
  <2>4. list[e].trk = file.disk[at].trk BY <1>2, <2>3 DEF Lists
  <2> HIDE DEF c, e
  <2>5. /\ Cursor < Len(list) /\ Cursor' = Cursor + 1 /\ d'.got.kind = "packet"
        /\ d'.got.trk = list[Cursor'].trk /\ d'.got.at = list[Cursor'].at
    BY <1>1, <1>8, <1>10, <2>1, <2>2, <2>3, <2>4 DEF at
  <2>6. Source!Read BY <1>1, <2>5 DEF Source!Read, Cursor
  <2> QED BY <1>7, <2>6
<1>11. CASE q.got.kind # "packet"
  <2>1. \A b \in Packets(file) : b < d.pos \/ q.pos <= b BY <1>3, <1>11 DEF Passes
  <2>2. e = c BY <1>2, <1>5, <1>6, <2>1, OverNone
  <2>3. CASE q.got = Eof
    <3>1. \A b \in Packets(file) : b < d.pos BY <1>3, <2>3 DEF Passes
    <3>2. c = Len(list) BY <1>2, <3>1, BehindAll
    <3>3. q.got.kind = "eof" BY <2>3 DEF Eof
    <3> HIDE DEF c, e
    <3>4. Source!End BY <1>1, <1>8, <2>2, <3>2, <3>3 DEF Source!End, Cursor
    <3> QED BY <1>7, <3>4
  <2>4. CASE q.got # Eof
    <3>1. q.got \in {Refused, IoError}
      <4>1. \A a \in PacketsIn(file) : a.kind = "packet" BY DEF PacketsIn
      <4>2. \A a \in Landings : a.kind = "landed" BY DEF Landings
      <4> QED BY <1>4, <1>5, <1>6, <1>11, <2>4, <4>1, <4>2 DEF Answers
    <3>2. q.got.kind \in {"refused", "io_error"} BY <3>1 DEF Refused, IoError
    <3> HIDE DEF c, e
    <3>3. Source!Fail BY <1>1, <1>8, <2>2, <3>2 DEF Source!Fail, Source!Failures, Cursor
    <3> QED BY <1>7, <3>3
  <2> QED BY <2>3, <2>4
<1> QED BY <1>10, <1>11

\* A seek lands in front of a keyframe of its stream, or fails in place.
LEMMA SeekLands ==
  ASSUME OrderlyFiles, SInv, Seeks
  PROVE  PathOK' /\ (Source!Land \/ Source!Fail)
<1>1. PICK how, t, target, q :
        SeekOutcome(file, d, q, how, t, target) /\ Sought(q, how, t, target)
  BY DEF Seeks
<1>2. d.open /\ d' = q /\ file' = file /\ list' = list BY <1>1 DEF Seeks, Sought
<1>3. /\ WellFormed(file) /\ BackToBack(file) /\ Contained(file) /\ Honest(file)
      /\ d \in Good(file) /\ Len(d.movi) # 0 /\ d.pos \in Nat
      /\ Lists(list, file) /\ OnPath(file, d)
  BY <1>2, OpenFacts
<1>4. q \in Good(file) BY <1>1 DEF SeekOutcome
<1>5. q.open /\ q.pos \in Nat /\ q.movi = d.movi
  BY <1>3, <1>4, ReaderFields DEF Good, Readers
<1>6. Cursor = Behind(list, d.pos) /\ Cursor' = Behind(list, q.pos)
  BY <1>2, <1>5, CursorIs
<1>7. CASE Unmoved(d, q)
  <2>1. OnPath(file, q) BY <1>3, <1>5, <1>7 DEF OnPath, Unmoved
  <2>2. PathOK' BY <1>2, <1>3, <1>5, <2>1 DEF PathOK
  <2>3. q.got.kind = "refused" BY <1>7 DEF Refused, Unmoved
  <2>4. Cursor' = Cursor BY <1>6, <1>7 DEF Unmoved
  <2>5. Source!Fail BY <1>2, <2>3, <2>4 DEF Source!Fail, Source!Failures, Cursor
  <2> QED BY <2>2, <2>5
<1>8. CASE Fronts(file, q)
  <2>1. OnPath(file, q) /\ q.got.kind = "landed" BY <1>8 DEF Fronts
  <2>2. PathOK' BY <1>2, <1>3, <1>5, <2>1 DEF PathOK
  <2>3. PICK at \in Packets(file) :
          /\ file.disk[at].trk = q.got.trk /\ file.disk[at].key /\ q.pos <= at
          /\ \A b \in Packets(file) : b < q.pos \/ at <= b
    BY <1>8 DEF Fronts
  <2>4. PICK i \in 1 .. Len(list) : list[i].at = at /\ Behind(list, q.pos) = i - 1
    BY <1>3, <1>5, <2>3, NextPacketFrom
  <2>5. list[i].trk = q.got.trk /\ list[i].key
    BY <1>3, <2>3, <2>4 DEF Lists
  <2>6. Cursor' = i - 1 BY <1>6, <2>4
  <2>7. Source!Land BY <1>2, <2>1, <2>4, <2>5, <2>6 DEF Source!Land, Cursor
  <2> QED BY <2>2, <2>7
<1> QED BY <1>1, <1>3, <1>7, <1>8, SeekFronts

\* Every step keeps to the path and is a step of the source, or none.
LEMMA SInvNext ==
  ASSUME OrderlyFiles, SInv, [Next]_vars
  PROVE  SInv' /\ [Source!Next]_(Source!vars)
<1>1. DInv' BY DInvNext DEF SInv
<1>2. CASE NextPacket
  <2>1. PathOK' /\ (Source!Read \/ Source!End \/ Source!Fail) BY <1>2, NextPacketReads
  <2> QED BY <1>1, <2>1 DEF SInv, Source!Next
<1>3. CASE Seeks
  <2>1. PathOK' /\ (Source!Land \/ Source!Fail) BY <1>3, SeekLands
  <2> QED BY <1>1, <2>1 DEF SInv, Source!Next
<1>4. CASE UNCHANGED vars
  <2>1. PathOK' BY <1>4 DEF vars, SInv, PathOK
  <2>2. UNCHANGED Source!vars BY <1>4 DEF vars, Source!vars
  <2> QED BY <1>1, <2>1, <2>2 DEF SInv
<1> QED BY <1>2, <1>3, <1>4, NextCases DEF SInv

\* On every file an AVI writer lays out, whole or cut short, however its packets
\* are spread over segments and clusters and mixed with side-band, index and JUNK
\* chunks, and over every order of reads and seeks: next_packet returns the
\* packets of the file in file order, each once, and says Eof behind the last;
\* a seek puts the reader in front of a keyframe of its stream, and a call that
\* fails leaves it where it was.  AviDemuxer implements AviSource.
THEOREM DemuxerImplementsSource ==
  ASSUME OrderlyFiles
  PROVE  Spec => ImplementsSource
<1>1. Init => SInv /\ Source!Init BY SInvInit
<1>2. SInv /\ [Next]_vars => SInv' BY SInvNext
<1>3. SInv /\ [Next]_vars => [Source!Next]_(Source!vars) BY SInvNext
<1> QED BY <1>1, <1>2, <1>3, PTL DEF Spec, ImplementsSource, Source!Spec

-----------------------------------------------------------------------------
(* The keyframe flags                                                      *)

\* The flag of a packet is that of an entry that lists it, and "keyframe" if
\* none does.
LEMMA KeyframeAtSays ==
  ASSUME NEW idx \in Tables, NEW std \in Tables, NEW at
  PROVE  \/ \E n \in DOMAIN idx : idx[n].off = at /\ KeyframeAt(idx, std, at) = idx[n].key
         \/ \E n \in DOMAIN std : std[n].off = at /\ KeyframeAt(idx, std, at) = std[n].key
         \/ /\ KeyframeAt(idx, std, at) = TRUE
            /\ \A n \in DOMAIN idx : idx[n].off # at
            /\ \A n \in DOMAIN std : std[n].off # at
<1> DEFINE I == {i \in 1 .. Len(idx) : idx[i].off = at}
           J == {j \in 1 .. Len(std) : std[j].off = at}
           i == IF I # {} THEN Max(I) ELSE 0
           j == IF J # {} THEN Min(J) ELSE 0
<1>1. KeyframeAt(idx, std, at) =
        IF i # 0 THEN idx[i].key ELSE IF j # 0 THEN std[j].key ELSE TRUE
  BY DEF KeyframeAt, SelectLastInSeq, SelectInSeq
<1>2. /\ Len(idx) \in Nat /\ Len(std) \in Nat
      /\ DOMAIN idx = 1 .. Len(idx) /\ DOMAIN std = 1 .. Len(std)
  BY LenProperties DEF Tables
<1>3. /\ I # {} => Max(I) \in I
      /\ J # {} => Min(J) \in J
  <2> DEFINE m == Len(idx)
             n == Len(std)
  <2>1. m \in Nat /\ n \in Nat /\ I \in SUBSET (1 .. m) /\ J \in SUBSET (1 .. n) BY <1>2
  <2> HIDE DEF I, J, m, n
  <2> QED BY <2>1, SelectedIndex
<1>4. (\A x \in I : x # 0) /\ (\A x \in J : x # 0) BY <1>2
<1>5. CASE I # {}
  <2>1. i \in I /\ i # 0 BY <1>3, <1>4, <1>5
  <2> HIDE DEF i
  <2>2. i \in DOMAIN idx /\ idx[i].off = at BY <1>2, <2>1
  <2>3. KeyframeAt(idx, std, at) = idx[i].key BY <1>1, <2>1
  <2> QED BY <2>2, <2>3
<1>6. CASE I = {} /\ J # {}
  <2>1. i = 0 /\ j \in J /\ j # 0 BY <1>3, <1>4, <1>6
  <2> HIDE DEF i, j
  <2>2. j \in DOMAIN std /\ std[j].off = at BY <1>2, <2>1
  <2>3. KeyframeAt(idx, std, at) = std[j].key BY <1>1, <2>1
  <2> QED BY <2>2, <2>3
<1>7. CASE I = {} /\ J = {}
  <2>1. i = 0 /\ j = 0 BY <1>7
  <2>2. KeyframeAt(idx, std, at) = TRUE BY <1>1, <2>1
  <2>3. /\ \A n \in DOMAIN idx : idx[n].off # at
        /\ \A n \in DOMAIN std : std[n].off # at
    BY <1>2, <1>7
  <2> QED BY <2>2, <2>3
<1> QED BY <1>5, <1>6, <1>7

\* Where the indexes are complete a table lists every packet.
LEMMA AllListed ==
  ASSUME NEW F, WellFormed(F), BackToBack(F), MoviSegments(F) # <<>>, Contained(F),
         Complete(F), F.full, Uncut(F), NEW at \in Packets(F)
  PROVE  \/ \E n \in DOMAIN IdxOf(F) : IdxOf(F)[n].off = at
         \/ \E n \in DOMAIN StdTable(F) : StdTable(F)[n].off = at
<1>1. /\ FormTypes(F)
      /\ \/ \E base \in Bases(F) : \E x \in Idx1Says(F, base) : x.off = at
         \/ \E x \in HeaderSays(F) : x.off = at
         \/ WantIxScan(F, MoviSegments(F)) /\ \E x \in ChunksSay(F) : x.off = at
  BY DEF Complete
<1>2. CASE \E base \in Bases(F) : \E x \in Idx1Says(F, base) : x.off = at
  <2>1. PICK base \in Bases(F) : \E x \in Idx1Says(F, base) : x.off = at BY <1>2
  <2> DEFINE raw == RawIdx1(F)
  <2>2. PICK i \in {j \in DOMAIN raw : PerStream(raw[j]) /\ raw[j].trk \in Streams} :
          at = base + raw[i].off
    BY <2>1 DEF Idx1Says
  <2>3. raw[i].off \in Nat
    <3>1. raw \in Seq(Idx1Fields) BY RawIdx1Type
    <3>2. raw[i] \in Idx1Fields BY <3>1, LenProperties, ElementOfSeq
    <3> QED BY <3>2 DEF Idx1Fields
  <2>4. at # 0
    <3>1. \E t \in Streams : at \in Standing(F, MoviSegments(F), {"data"}, t) BY DEF Packets
    <3>2. at \in Nat /\ at >= 12 BY <3>1, StandingFacts
    <3> QED BY <3>2
  <2>5. base = 0 => raw[i].off # 0 BY <2>2, <2>3, <2>4
  <2>6. Idx1Base(F, raw, MoviSegments(F)[1].from) = base
    <3>1. base = 0 => \E k \in DOMAIN RawIdx1(F) :
                        PerStream(RawIdx1(F)[k]) /\ RawIdx1(F)[k].off # 0
      BY <2>5
    <3> QED BY <3>1, BaseFound
  <2>7. \E n \in DOMAIN IdxOf(F) : Read(raw[i], base, IdxOf(F)[n])
    <3>1. raw \in Seq(Idx1Fields) BY RawIdx1Type
    <3>2. MoviSegments(F)[1].from \in Nat
      <4>1. MoviSegments(F) \in Segments BY SegmentsApart
      <4>2. 1 \in DOMAIN MoviSegments(F) BY <4>1, EmptySeq, LenProperties DEF Segments
      <4> QED BY <4>2, SegmentFrom
    <3> HIDE DEF raw
    <3>3. IdxOf(F) = BuildIdxTable(F, raw, MoviSegments(F)[1].from) BY DEF IdxOf, raw
    <3> QED BY <2>2, <2>6, <3>1, <3>2, <3>3, IdxTable
  <2> QED BY <2>2, <2>7 DEF Read
<1>3. CASE \E x \in HeaderSays(F) : x.off = at
  <2>1. \A x \in HeaderSays(F) : \E n \in DOMAIN StdTable(F) : Alike(StdTable(F)[n], x)
    BY StdSays
  <2> QED BY <1>3, <2>1 DEF Alike
<1>4. CASE WantIxScan(F, MoviSegments(F)) /\ \E x \in ChunksSay(F) : x.off = at
  <2>1. \A x \in ChunksSay(F) : \E n \in DOMAIN StdTable(F) : Alike(StdTable(F)[n], x)
    BY <1>1, <1>4, StdSays
  <2> QED BY <1>4, <2>1 DEF Alike
<1> QED BY <1>1, <1>2, <1>3, <1>4

\* On every such file, over every order of reads and seeks: no keyframe is
\* handed out as a delta frame, and where an index lists every packet of a file
\* nothing is missing of, none is handed out as what it is not - through idx1 or
\* a standard index, whichever covers it and whatever its offsets count from.
THEOREM KeyFlagsHold ==
  ASSUME OrderlyFiles
  PROVE  Spec => []KeyFlagsExact
<1>1. Init => SInv BY SInvInit
<1>2. SInv /\ [Next]_vars => SInv' BY SInvNext
<1>3. SInv => KeyFlagsExact
  <2> SUFFICES ASSUME SInv, d.got.kind = "packet"
               PROVE  /\ ~d.got.key => ~Expected.key
                      /\ file.full /\ Whole => d.got.key = Expected.key
    BY DEF KeyFlagsExact
  <2>1. d.open
    <3>1. DInv BY DEF SInv
    <3>2. d # Closed BY DEF Closed, IoError
    <3> QED BY <3>1, <3>2 DEF DInv, ReaderOK, Good, Readers
  <2>2. /\ WellFormed(file) /\ BackToBack(file) /\ Contained(file) /\ Honest(file)
        /\ Complete(file) /\ d \in Good(file) /\ Len(d.movi) # 0 /\ Lists(list, file)
    BY <2>1, OpenFacts
  <2>3. MoviSegments(file) # <<>>
    <3>1. d.movi = MoviSegments(file) /\ d.movi \in Segments BY <2>2, ReaderFields
    <3> QED BY <2>2, <3>1, EmptySeq DEF Segments
  <2> DEFINE at == d.got.at
             idx == IdxOf(file)
             std == StdTable(file)
             flag == KeyframeAt(idx, std, at)
  <2>4. d.got \in PacketsIn(file)
    <3>1. d.got \in Answers(file) BY <2>2 DEF Good, Readers
    <3> QED BY <3>1 DEF Answers, Landings, Nothing, Eof, Refused, IoError
  <2>5. at \in Packets(file) BY <2>2, PacketAnswer
  <2>6. d.got.key = flag BY <2>4 DEF PacketsIn
  <2>7. idx \in Tables /\ std \in Tables
    <3>1. d.idx = idx /\ d.std = std BY <2>2, ReaderFields
    <3>2. d.idx \in Tables /\ d.std \in Tables BY <2>2, ReaderTables
    <3> QED BY <3>1, <3>2
  <2>8. Expected.key = file.disk[at].key
    <3>1. \E i \in DOMAIN list : list[i].at = at BY <2>2, <2>5 DEF Lists
    <3> DEFINE i == CHOOSE i \in DOMAIN list : list[i].at = at
    <3>2. i \in DOMAIN list /\ list[i].at = at BY <3>1
    <3>3. Expected = list[i] BY DEF Expected
    <3> HIDE DEF i
    <3> QED BY <2>2, <3>2, <3>3 DEF Lists
  <2>9. /\ \A n \in DOMAIN idx : True(file, idx[n])
        /\ \A n \in DOMAIN std : True(file, std[n])
    BY <2>2, <2>3, TablesTrue
  <2>10. Whole => Uncut(file) BY DEF Whole
  <2> HIDE DEF flag, at, idx, std
  <2>11. CASE \E n \in DOMAIN idx : idx[n].off = at /\ flag = idx[n].key
    <3>1. flag = file.disk[at].key BY <2>9, <2>11 DEF True
    <3> QED BY <2>6, <2>8, <3>1
  <2>12. CASE \E n \in DOMAIN std : std[n].off = at /\ flag = std[n].key
    <3>1. flag = file.disk[at].key BY <2>9, <2>12 DEF True
    <3> QED BY <2>6, <2>8, <3>1
  <2>13. CASE /\ flag = TRUE
              /\ \A n \in DOMAIN idx : idx[n].off # at
              /\ \A n \in DOMAIN std : std[n].off # at
    <3>1. ~(file.full /\ Whole)
      <4> SUFFICES ASSUME file.full, Whole PROVE FALSE
        OBVIOUS
      <4>1. \/ \E n \in DOMAIN idx : idx[n].off = at
            \/ \E n \in DOMAIN std : std[n].off = at
        BY <2>2, <2>3, <2>5, <2>10, AllListed DEF idx, std
      <4> QED BY <2>13, <4>1
    <3> QED BY <2>6, <2>13, <3>1
  <2>14. \/ \E n \in DOMAIN idx : idx[n].off = at /\ flag = idx[n].key
         \/ \E n \in DOMAIN std : std[n].off = at /\ flag = std[n].key
         \/ /\ flag = TRUE
            /\ \A n \in DOMAIN idx : idx[n].off # at
            /\ \A n \in DOMAIN std : std[n].off # at
    BY <2>7, KeyframeAtSays DEF flag
  <2> QED BY <2>11, <2>12, <2>13, <2>14
<1> QED BY <1>1, <1>2, <1>3, PTL DEF Spec

-----------------------------------------------------------------------------
(* The timestamps: sums                                                    *)

\* A sum taken along an injection e of X into Y.
LEMMA SumAlong ==
  ASSUME NEW X, IsFiniteSet(X), NEW Y, IsFiniteSet(Y), NEW f, NEW g, NEW e,
         \A y \in Y : g[y] \in Nat,
         \A x \in X : e[x] \in Y /\ f[x] = g[e[x]],
         \A x, y \in X : e[x] = e[y] => x = y
  PROVE  SumFunctionOnSet(f, X) = SumFunctionOnSet(g, {e[x] : x \in X})
<1> DEFINE Image(R) == {e[x] : x \in R}
           Bad == {n \in Nat : \E R \in SUBSET X :
                     Cardinality(R) = n /\ SumFunctionOnSet(f, R) # SumFunctionOnSet(g, Image(R))}
<1>1. PICK h : Sums(h, f, X) /\ \A R \in SUBSET X : SumFunctionOnSet(f, R) = h[R]
  <2>1. \A x \in X : f[x] \in Nat OBVIOUS
  <2> QED BY <2>1, SumsOver
<1>2. PICK k : Sums(k, g, Y) /\ \A R \in SUBSET Y : SumFunctionOnSet(g, R) = k[R] BY SumsOver
<1>3. \A R \in SUBSET X : Image(R) \in SUBSET Y OBVIOUS
<1>4. \A R \in SUBSET X : IsFiniteSet(R) /\ Cardinality(R) \in Nat
  BY FS_Subset, FS_CardinalityType
<1>5. Bad = {}
  <2> SUFFICES ASSUME Bad # {} PROVE FALSE
    OBVIOUS
  <2>1. PICK n \in Bad : \A m \in Bad : n <= m
    <3>1. Bad \subseteq Nat OBVIOUS
    <3> HIDE DEF Bad
    <3> QED BY <3>1, NatLeast
  <2>2. PICK R \in SUBSET X :
          Cardinality(R) = n /\ SumFunctionOnSet(f, R) # SumFunctionOnSet(g, Image(R))
    OBVIOUS
  <2>3. R # {}
    <3> SUFFICES ASSUME R = {} PROVE FALSE
      OBVIOUS
    <3>1. Image(R) = {} /\ {} \in SUBSET X /\ {} \in SUBSET Y OBVIOUS
    <3>2. SumFunctionOnSet(f, {}) = 0 /\ SumFunctionOnSet(g, {}) = 0 BY <1>1, <1>2, <3>1 DEF Sums
    <3> QED BY <2>2, <3>1, <3>2
  <2>4. PICK x \in R : TRUE BY <2>3
  <2> DEFINE Q == R \ {x}
  <2>5. Q \in SUBSET X /\ Cardinality(Q) = n - 1 /\ n - 1 \in Nat
    <3>1. Cardinality(Q) = n - 1 BY <1>4, <2>2, FS_RemoveElement
    <3>2. Q \in SUBSET X OBVIOUS
    <3> QED BY <1>4, <3>1, <3>2
  <2>6. n - 1 \notin Bad
    <3>1. n \in Nat /\ ~(n <= n - 1) BY <1>4, <2>2
    <3> QED BY <2>1, <3>1
  <2>7. h[Q] = k[Image(Q)] BY <1>1, <1>2, <1>3, <2>5, <2>6
  <2>8. h[R] = f[x] + h[Q] BY <1>1 DEF Sums
  <2>9. e[x] \in Image(R) /\ Image(R) \ {e[x]} = Image(Q) OBVIOUS
  <2>10. k[Image(R)] = g[e[x]] + k[Image(Q)]
    <3>1. Image(R) \in SUBSET Y BY <1>3
    <3> DEFINE I == Image(R)
    <3> HIDE DEF Image
    <3>2. \A y \in I : k[I] = g[y] + k[I \ {y}] BY <1>2, <3>1 DEF Sums
    <3> HIDE DEF I
    <3>3. k[I] = g[e[x]] + k[I \ {e[x]}] BY <2>9, <3>2 DEF I
    <3> QED BY <2>9, <3>3 DEF I
  <2>11. h[R] = k[Image(R)] BY <2>7, <2>8, <2>10
  <2> QED BY <1>1, <1>2, <1>3, <2>2, <2>11
<1>6. Cardinality(X) \in Nat /\ X \in SUBSET X BY <1>4
<1> QED BY <1>5, <1>6

\* A sum with one summand taken out, and the sum of none.
LEMMA SumSteps ==
  ASSUME NEW S, IsFiniteSet(S), NEW f, \A x \in S : f[x] \in Nat
  PROVE  /\ SumFunctionOnSet(f, {}) = 0
         /\ \A R \in SUBSET S : \A x \in R :
              /\ SumFunctionOnSet(f, R \ {x}) \in Nat
              /\ SumFunctionOnSet(f, R) = SumFunctionOnSet(f, R \ {x}) + f[x]
<1>1. PICK h : Sums(h, f, S) /\ \A R \in SUBSET S : SumFunctionOnSet(f, R) = h[R]
  BY SumsOver
<1>2. {} \in SUBSET S /\ h[{}] = 0 BY <1>1 DEF Sums
<1>3. ASSUME NEW R \in SUBSET S, NEW x \in R
      PROVE  h[R \ {x}] \in Nat /\ h[R] = h[R \ {x}] + f[x] /\ R \ {x} \in SUBSET S
  <2> DEFINE Q == R \ {x}
  <2>1. Q \in SUBSET S OBVIOUS
  <2>2. h[R] = f[x] + h[Q] /\ h[Q] \in Nat /\ f[x] \in Nat BY <1>1, <2>1 DEF Sums
  <2> HIDE DEF Q
  <2>3. h[R] = h[Q] + f[x] BY <2>2
  <2> QED BY <2>1, <2>2, <2>3 DEF Q
<1> QED BY <1>1, <1>2, <1>3

-----------------------------------------------------------------------------
(* The timestamps: of a packet, and of those next_packet returns           *)

\* The packets of a stream, and the ticks of each.
LEMMA OwnFacts ==
  ASSUME NEW F, WellFormed(F), NEW t \in Streams
  PROVE  /\ OwnPackets(F, t) \subseteq Nat /\ IsFiniteSet(OwnPackets(F, t))
         /\ OwnPackets(F, t) \subseteq DOMAIN F.disk
         /\ \A b \in OwnPackets(F, t) : /\ F.disk[b].trk = t /\ b \in Packets(F)
                                        /\ TimeDelta(t, F.disk[b].len) \in Nat
         /\ \A b \in Packets(F) : F.disk[b].trk = t => b \in OwnPackets(F, t)
<1>1. OwnPackets(F, t) \in SUBSET DOMAIN F.disk BY DEF OwnPackets, Standing
<1>2. DOMAIN F.disk \subseteq Nat /\ IsFiniteSet(DOMAIN F.disk) BY DEF WellFormed
<1>3. IsFiniteSet(OwnPackets(F, t)) BY <1>1, <1>2, FS_Subset
<1>4. \A b \in OwnPackets(F, t) : F.disk[b].trk = t BY DEF OwnPackets, Standing
<1>5. \A b \in OwnPackets(F, t) : b \in Packets(F) BY DEF OwnPackets, Packets
<1>6. \A b \in DOMAIN F.disk : F.disk[b].len \in Nat BY CellFacts
<1>7. \A b \in Packets(F) : F.disk[b].trk = t => b \in OwnPackets(F, t)
  BY DEF Packets, Standing, OwnPackets
<1> QED BY <1>1, <1>2, <1>3, <1>4, <1>5, <1>6, <1>7, TimeDeltaType

\* No packet of the stream stands between the two offsets.
LEMMA StampSame ==
  ASSUME NEW F, WellFormed(F), NEW t \in Streams, NEW a \in Nat, NEW c \in Nat, a <= c,
         \A b \in OwnPackets(F, t) : b < a \/ c <= b
  PROVE  StampAt(F, t, c) = StampAt(F, t, a)
<1>1. OwnPackets(F, t) \subseteq Nat BY OwnFacts
<1>2. {b \in OwnPackets(F, t) : b < c} = {b \in OwnPackets(F, t) : b < a} BY <1>1
<1> QED BY <1>2 DEF StampAt, Ticks

\* One does.
LEMMA StampMore ==
  ASSUME NEW F, WellFormed(F), NEW t \in Streams, NEW a \in Nat, NEW c \in Nat,
         NEW at \in OwnPackets(F, t), a <= at, at < c,
         \A b \in OwnPackets(F, t) : b < a \/ c <= b \/ b = at
  PROVE  /\ StampAt(F, t, at) = StampAt(F, t, a)
         /\ StampAt(F, t, c) = StampAt(F, t, a) + TimeDelta(t, F.disk[at].len)
<1> DEFINE S == OwnPackets(F, t)
           f == [b \in S |-> TimeDelta(t, F.disk[b].len)]
           A == {b \in S : b < a}
           C == {b \in S : b < c}
<1>1. S \subseteq Nat /\ IsFiniteSet(S) /\ \A b \in S : f[b] \in Nat BY OwnFacts
<1>2. at \in C /\ C \ {at} = A /\ A \in SUBSET S /\ C \in SUBSET S BY <1>1
<1>3. {b \in S : b < at} = A BY <1>1
<1>4. /\ StampAt(F, t, a) = SumFunctionOnSet(f, A)
      /\ StampAt(F, t, c) = SumFunctionOnSet(f, C)
      /\ StampAt(F, t, at) = SumFunctionOnSet(f, A)
  BY <1>3 DEF StampAt, Ticks
<1>5. f[at] = TimeDelta(t, F.disk[at].len) OBVIOUS
<1> HIDE DEF S, f, A, C
<1>6. SumFunctionOnSet(f, C) = SumFunctionOnSet(f, A) + f[at]
  <2>1. IsFiniteSet(S) /\ (\A b \in S : f[b] \in Nat) BY <1>1
  <2>2. SumFunctionOnSet(f, C) = SumFunctionOnSet(f, C \ {at}) + f[at]
    BY <1>2, <2>1, SumSteps
  <2> QED BY <1>2, <2>2
<1> QED BY <1>4, <1>5, <1>6

\* A timestamp is a number.
LEMMA StampType ==
  ASSUME NEW F, WellFormed(F), NEW t \in Streams, NEW a
  PROVE  StampAt(F, t, a) \in Nat
<1> DEFINE S == OwnPackets(F, t)
           f == [b \in S |-> TimeDelta(t, F.disk[b].len)]
           A == {b \in S : b < a}
<1>1. IsFiniteSet(S) /\ (\A b \in S : f[b] \in Nat) /\ A \in SUBSET S BY OwnFacts
<1>2. StampAt(F, t, a) = SumFunctionOnSet(f, A) BY DEF StampAt, Ticks
<1> HIDE DEF S, f, A
<1> QED BY <1>1, <1>2, SumGrows

\* In front of the first, nothing has ticked.
LEMMA StampZero ==
  ASSUME NEW F, WellFormed(F), NEW t \in Streams, NEW a \in Nat,
         \A b \in OwnPackets(F, t) : a <= b
  PROVE  StampAt(F, t, a) = 0
<1> DEFINE S == OwnPackets(F, t)
           f == [b \in S |-> TimeDelta(t, F.disk[b].len)]
           A == {b \in S : b < a}
<1>1. S \subseteq Nat /\ IsFiniteSet(S) /\ \A b \in S : f[b] \in Nat BY OwnFacts
<1>2. A = {} BY <1>1
<1>3. StampAt(F, t, a) = SumFunctionOnSet(f, {}) BY <1>2 DEF StampAt, Ticks
<1> HIDE DEF S, f
<1>4. IsFiniteSet(S) /\ (\A b \in S : f[b] \in Nat) BY <1>1
<1> QED BY <1>3, <1>4, SumSteps

\* Reader q has stamped the packet it answers with from the counters of r, and
\* moved that counter on; if it answers with none, the counters are those of r.
Stamped(F, r, q) ==
  IF q.got.kind = "packet"
  THEN /\ q.got.pts = r.counter[q.got.trk]
       /\ \A u \in Streams :
            q.counter[u] = IF u = q.got.trk
                           THEN r.counter[u] + TimeDelta(u, F.disk[q.got.at].len)
                           ELSE r.counter[u]
  ELSE q.counter = r.counter

\* The turn that takes a chunk stamps the packet it takes,
LEMMA TakeChunkStamps ==
  ASSUME NEW F, WellFormed(F), NEW r \in Good(F), r.got = Nothing
  PROVE  Stamped(F, r, TakeChunk(F, r))
<1> DEFINE q == TakeChunk(F, r)
           c == F.disk[r.pos]
           n == r.pos + 8 + Even(c.len)
<1>1. r \in Readers(F) /\ r.counter \in [Streams -> Nat] BY ReaderFields
<1>2. Nothing.kind # "packet" BY AnswersPlain
<1> HIDE DEF n
<1>3. CASE c.trk \in Streams /\ c.id \in SideIds
  <2>1. q = [TakeSideband(r, c) EXCEPT !.pos = n] BY <1>3 DEF TakeChunk, n
  <2> HIDE DEF c
  <2>2. q.got = Nothing /\ q.counter = r.counter BY <1>1, <2>1 DEF Readers, TakeSideband
  <2> HIDE DEF q
  <2>3. Stamped(F, r, q) BY <1>2, <2>2 DEF Stamped
  <2> QED BY <2>3 DEF q
<1>4. CASE c.trk \in Streams /\ c.id = "data"
  <2> DEFINE t == c.trk
             key == KeyframeAt(r.idx, r.std, r.pos)
             pts == r.counter[t]
             got == PacketOf(t, r.pos, key, pts)
             x == TimeDelta(t, c.len)
  <2>1. q = [Deliver(r, c) EXCEPT !.pos = n] BY <1>4 DEF TakeChunk, SideIds, n
  <2>2. Deliver(r, c) = [r EXCEPT !.counter[t] = @ + x, !.got = got] BY DEF Deliver
  <2>3. got.kind = "packet" /\ got.pts = pts /\ got.trk = t /\ got.at = r.pos
    <3> HIDE DEF t, key, pts
    <3> QED BY DEF PacketOf
  <2>4. x = TimeDelta(t, F.disk[r.pos].len) /\ t \in Streams BY <1>4
  <2> HIDE DEF got, x, t, c
  <2>5. q.got = got /\ q.counter = [r.counter EXCEPT ![t] = @ + x]
    BY <1>1, <2>1, <2>2 DEF Readers
  <2> HIDE DEF q
  <2>6. \A u \in Streams : q.counter[u] = IF u = t THEN r.counter[u] + x ELSE r.counter[u]
    BY <1>1, <2>4, <2>5
  <2>7. Stamped(F, r, q) BY <2>3, <2>4, <2>5, <2>6 DEF Stamped
  <2> QED BY <2>7 DEF q
<1>5. CASE ~(c.trk \in Streams /\ c.id \in SideIds) /\ ~(c.trk \in Streams /\ c.id = "data")
  <2>1. q = [r EXCEPT !.pos = n] BY <1>5 DEF TakeChunk, n
  <2>2. q.got = Nothing /\ q.counter = r.counter BY <1>1, <2>1 DEF Readers
  <2> HIDE DEF q
  <2>3. Stamped(F, r, q) BY <1>2, <2>2 DEF Stamped
  <2> QED BY <2>3 DEF q
<1> QED BY <1>3, <1>4, <1>5

\* and so does every turn.
LEMMA ReadChunkStamps ==
  ASSUME NEW F, WellFormed(F), NEW r \in Good(F), r.got = Nothing
  PROVE  Stamped(F, r, ReadChunk(F, r))
<1> DEFINE end == r.movi[r.seg].to
<1>1. r \in Readers(F) BY ReaderFields
<1>2. \A a \in {Nothing, Eof, IoError} : a.kind # "packet" BY AnswersPlain
<1>3. ASSUME NEW q, q.counter = r.counter, q.got \in {Nothing, Eof, IoError}
      PROVE  Stamped(F, r, q)
  BY <1>2, <1>3 DEF Stamped
<1>4. Stamped(F, r, [r EXCEPT !.got = Eof])
  <2> DEFINE q == [r EXCEPT !.got = Eof]
  <2>1. q.counter = r.counter /\ q.got = Eof BY <1>1 DEF Readers
  <2> HIDE DEF q
  <2>2. Stamped(F, r, q) BY <1>3, <2>1
  <2> QED BY <2>2 DEF q
<1>5. Stamped(F, r, LeaveSegment(r))
  <2> DEFINE q == LeaveSegment(r)
  <2>1. q.counter = r.counter /\ q.got \in {Nothing, Eof, IoError}
    BY <1>1 DEF Readers, LeaveSegment
  <2> HIDE DEF q
  <2>2. Stamped(F, r, q) BY <1>3, <2>1
  <2> QED BY <2>2 DEF q
<1>6. Stamped(F, r, StopAfterHeader(F, r))
  <2> DEFINE q == StopAfterHeader(F, r)
             n == Least({r.pos + 8, F.len})
  <2>1. q = [r EXCEPT !.pos = n, !.got = Eof] BY DEF StopAfterHeader
  <2> HIDE DEF n
  <2>2. q.counter = r.counter /\ q.got = Eof BY <1>1, <2>1 DEF Readers
  <2> HIDE DEF q
  <2>3. Stamped(F, r, q) BY <1>3, <2>2
  <2> QED BY <2>3 DEF q
<1>7. Stamped(F, r, EnterList(F, r))
  <2> DEFINE q == EnterList(F, r)
  <2>1. q.counter = r.counter /\ q.got \in {Nothing, Eof, IoError}
    BY <1>1 DEF Readers, EnterList
  <2> HIDE DEF q
  <2>2. Stamped(F, r, q) BY <1>3, <2>1
  <2> QED BY <2>2 DEF q
<1>8. Stamped(F, r, TakeChunk(F, r)) BY TakeChunkStamps
<1>9. ReadChunk(F, r) \in {[r EXCEPT !.got = Eof], LeaveSegment(r), StopAfterHeader(F, r),
                           EnterList(F, r), TakeChunk(F, r)}
  BY DEF ReadChunk
<1> QED BY <1>4, <1>5, <1>6, <1>7, <1>8, <1>9

\* next_packet stamps its packet from the counters it finds.
LEMMA ReadPacketStamps ==
  ASSUME NEW F, WellFormed(F), NEW r \in Good(F)
  PROVE  Stamped(F, r, ReadPacket(F, r))
<1> DEFINE s == Rewound(r)
           S == {p \in Good(F) : Stamped(F, r, p)}
           K == [n \in Nat |-> S]
           q == ReadPacket(F, r)
           N == Turns(F, r)
<1>1. s \in Good(F) /\ s.got = Nothing BY RewoundGood
<1>2. s.counter = r.counter
  <2>1. r \in Readers(F) BY ReaderFields
  <2> QED BY <2>1 DEF Rewound, Readers
<1>3. Nothing.kind # "packet" BY AnswersPlain
<1> HIDE DEF s
<1>4. s \in S BY <1>1, <1>2, <1>3 DEF Stamped
<1>5. ASSUME NEW p \in S PROVE (IF p.got = Nothing THEN ReadChunk(F, p) ELSE p) \in S
  <2>1. CASE p.got # Nothing BY <2>1
  <2>2. CASE p.got = Nothing
    <3> DEFINE x == ReadChunk(F, p)
    <3>1. p \in Good(F) /\ p.counter = r.counter BY <1>3, <2>2 DEF Stamped
    <3>2. Stamped(F, p, x) BY <2>2, <3>1, ReadChunkStamps
    <3>3. x \in Good(F) BY <2>2, <3>1, ReadChunkTurn DEF Turn
    <3> HIDE DEF x
    <3>4. Stamped(F, r, x) BY <3>1, <3>2 DEF Stamped
    <3>5. x \in S BY <3>3, <3>4
    <3> QED BY <2>2, <3>5 DEF x
  <2> QED BY <2>1, <2>2
<1>6. K \in [Nat -> SUBSET Good(F)] OBVIOUS
<1> HIDE DEF S, q
<1>7. s \in K[0] BY <1>4
<1>8. \A n \in Nat : \A p \in K[n] :
        (IF p.got = Nothing THEN ReadChunk(F, p) ELSE p) \in K[n + 1]
  BY <1>5
<1>9. N \in Nat
  <2>1. Cardinality(DOMAIN F.disk) \in Nat BY FS_CardinalityType DEF WellFormed
  <2>2. Len(r.movi) \in Nat BY ReaderFields
  <2> QED BY <2>1, <2>2 DEF Turns
<1>10. q \in K[N]
  <2> HIDE DEF K
  <2> QED BY <1>6, <1>7, <1>8, TurnsKeep DEF s, q
<1> HIDE DEF N
<1>11. q \in S BY <1>9, <1>10
<1> QED BY <1>11 DEF S, q

-----------------------------------------------------------------------------
(* The timestamps: of the entries of the tables                            *)

\* Table T lists packets of stream t in file order, each with its timestamp.
Clocks(F, t, T) ==
  /\ \A i \in DOMAIN T : T[i].trk = t =>
       T[i].off \in OwnPackets(F, t) /\ T[i].pts = StampAt(F, t, T[i].off)
  /\ \A i, j \in DOMAIN T : i < j /\ T[i].trk = t /\ T[j].trk = t => T[i].off < T[j].off

\* Entries that leave out no packet before one they list count its timestamp.
LEMMA PtsCount ==
  ASSUME NEW F, WellFormed(F), NEW t \in Streams, NEW n \in Nat, NEW s, Sizes(s, n),
         \A i \in 1 .. n : s[i].trk = t =>
           s[i].off \in OwnPackets(F, t) /\ s[i].len = F.disk[s[i].off].len,
         \A i \in 1 .. n : s[i].trk = t =>
           {s[j].off : j \in {k \in 1 .. i - 1 : s[k].trk = t}}
             = {b \in OwnPackets(F, t) : b < s[i].off}
  PROVE  Clocks(F, t, WithPts(s))
<1> DEFINE w == WithPts(s)
           S == OwnPackets(F, t)
           ticks == [j \in DOMAIN s |-> TimeDelta(s[j].trk, s[j].len)]
           g == [b \in S |-> TimeDelta(t, F.disk[b].len)]
           e == [j \in 1 .. n |-> s[j].off]
           before(i) == {k \in 1 .. i - 1 : s[k].trk = t}
<1>1. DOMAIN s = 1 .. n BY DEF Sizes
<1>2. DOMAIN w = 1 .. n /\ \A i \in 1 .. n : /\ w[i].trk = s[i].trk /\ w[i].off = s[i].off
  <2>1. w = [i \in 1 .. n |->
               [trk |-> s[i].trk, key |-> s[i].key, off |-> s[i].off,
                len |-> s[i].len, id |-> s[i].id, pts |-> w[i].pts]]
    BY WithPtsFacts
  <2> HIDE DEF w
  <2> QED BY <2>1
<1>3. ASSUME NEW i \in 1 .. n, s[i].trk = t PROVE w[i].pts = SumFunctionOnSet(ticks, before(i))
  BY <1>1, <1>3 DEF WithPts
<1>4. S \subseteq Nat /\ IsFiniteSet(S) /\ (\A b \in S : g[b] \in Nat) BY OwnFacts
<1>5. ASSUME NEW i \in 1 .. n, NEW j \in 1 .. n, j < i, s[i].trk = t, s[j].trk = t
      PROVE  s[j].off < s[i].off
  <2>1. j \in before(i) BY <1>5
  <2>2. s[j].off \in {s[k].off : k \in before(i)} BY <2>1
  <2>3. s[j].off \in {b \in S : b < s[i].off} BY <1>5, <2>2
  <2> QED BY <2>3
<1>6. ASSUME NEW i \in 1 .. n, s[i].trk = t PROVE w[i].pts = StampAt(F, t, s[i].off)
  <2> DEFINE X == before(i)
  <2>1. X \subseteq 1 .. n /\ \A j \in X : s[j].trk = t OBVIOUS
  <2>2. IsFiniteSet(X)
    <3>1. IsFiniteSet(1 .. i - 1) BY FS_Interval
    <3>2. X \in SUBSET (1 .. i - 1) OBVIOUS
    <3> HIDE DEF X
    <3> QED BY <3>1, <3>2, FS_Subset
  <2>3. {s[j].off : j \in X} = {b \in S : b < s[i].off} BY <1>6
  <2>4. StampAt(F, t, s[i].off) = SumFunctionOnSet(g, {b \in S : b < s[i].off})
    BY DEF StampAt, Ticks
  <2>5. w[i].pts = SumFunctionOnSet(ticks, X) BY <1>3, <1>6
  <2> HIDE DEF X, w
  <2>6. \A j \in X : e[j] = s[j].off /\ e[j] \in S /\ s[j].len = F.disk[e[j]].len BY <2>1
  <2>7. \A j \in X : ticks[j] = g[e[j]] BY <1>1, <2>1, <2>6
  <2>8. \A j, k \in X : e[j] = e[k] => j = k
    <3> SUFFICES ASSUME NEW j \in X, NEW k \in X, e[j] = e[k], j # k PROVE FALSE
      OBVIOUS
    <3>1. j \in 1 .. n /\ k \in 1 .. n /\ s[j].trk = t /\ s[k].trk = t BY <2>1
    <3>2. j < k \/ k < j BY <3>1
    <3>3. e[j] < e[k] \/ e[k] < e[j] BY <1>5, <2>6, <3>1, <3>2
    <3>4. e[j] \in Nat /\ e[k] \in Nat BY <1>4, <2>6
    <3> QED BY <3>3, <3>4
  <2>9. {e[j] : j \in X} = {s[j].off : j \in X}
    <3> HIDE DEF e
    <3>1. \A j \in X : e[j] = s[j].off BY <2>6
    <3> QED BY <3>1
  <2>10. \A j \in X : e[j] \in S /\ ticks[j] = g[e[j]] BY <2>6, <2>7
  <2>11. IsFiniteSet(S) /\ \A b \in S : g[b] \in Nat BY <1>4
  <2> HIDE DEF ticks, g, e, S
  <2>12. SumFunctionOnSet(ticks, X) = SumFunctionOnSet(g, {e[j] : j \in X})
    BY <2>2, <2>8, <2>10, <2>11, SumAlong
  <2> QED BY <2>3, <2>4, <2>5, <2>9, <2>12
<1> HIDE DEF w
<1> QED BY <1>2, <1>5, <1>6 DEF Clocks, w

\* Part of such a table is one.
LEMMA ClocksPart ==
  ASSUME NEW F, NEW t, NEW X, NEW s \in Seq(X), Clocks(F, t, s), NEW I \in SUBSET DOMAIN s
  PROVE  Clocks(F, t, At(s, I))
<1> DEFINE a == At(s, I)
<1>1. \A m, n \in DOMAIN a : m < n => \E i, j \in I : i < j /\ a[m] = s[i] /\ a[n] = s[j]
  BY KeptFacts
<1>2. \A n \in DOMAIN a : \E i \in I : a[n] = s[i]
  <2>1. a \in Seq({s[i] : i \in I}) BY KeptFacts
  <2>2. \A n \in DOMAIN a : a[n] \in {s[i] : i \in I} BY <2>1, LenProperties, ElementOfSeq
  <2> QED BY <2>2
<1> HIDE DEF a
<1> QED BY <1>1, <1>2 DEF Clocks, a

\* Of a stream without side-band chunks what is true of an entry is true of a packet.
LEMMA TrueOfPacket ==
  ASSUME NEW F, NEW t, Standing(F, MoviSegments(F), SideIds, t) = {},
         NEW x, True(F, x), x.trk = t
  PROVE  x.off \in OwnPackets(F, t) /\ x.len = F.disk[x.off].len
<1>1. x.off \in Standing(F, MoviSegments(F), MediaIds, t) /\ x.len = F.disk[x.off].len
  BY DEF True
<1>2. x.off \notin Standing(F, MoviSegments(F), SideIds, t) OBVIOUS
<1> DEFINE b == x.off
<1>3. b \in Standing(F, MoviSegments(F), MediaIds, t) BY <1>1
<1>4. b \notin Standing(F, MoviSegments(F), SideIds, t) BY <1>2
<1> HIDE DEF b
<1>5. b \in OwnPackets(F, t) BY <1>3, <1>4 DEF Standing, OwnPackets, MediaIds, SideIds
<1> QED BY <1>1, <1>5 DEF b

\* The entries of the standard indexes are what those say, in that order.
LEMMA StdEntriesSaid ==
  ASSUME NEW F
  PROVE  LET w == StdEntries(StdIndexes(F, MoviSegments(F))) IN
         /\ DOMAIN w = DOMAIN SaidInOrder(F) /\ Offsets(w) = Offsets(SaidInOrder(F))
         /\ \A i \in DOMAIN w : w[i].trk = SaidInOrder(F)[i].trk /\ w[i].off = SaidInOrder(F)[i].off
<1> DEFINE q == SaidInOrder(F)
           w == StdEntries(StdIndexes(F, MoviSegments(F)))
<1>1. w = WithPts(q) BY DEF StdEntries, SaidInOrder, StdOffset
<1> HIDE DEF q, w
<1>2. DOMAIN w = DOMAIN q /\ \A i \in DOMAIN w : w[i].trk = q[i].trk /\ w[i].off = q[i].off
  BY <1>1 DEF WithPts
<1>3. Offsets(w) = Offsets(q) BY <1>2 DEF Offsets
<1> QED BY <1>2, <1>3 DEF q, w

\* The table of the standard indexes clocks the streams without side-band chunks,
LEMMA StdClocks ==
  ASSUME NEW F, WellFormed(F), BackToBack(F), MoviSegments(F) # <<>>, Contained(F), Honest(F),
         Gapless(F), NEW t \in Streams, Standing(F, MoviSegments(F), SideIds, t) = {}
  PROVE  Clocks(F, t, StdTable(F))
<1> DEFINE M == MoviSegments(F)
           std == StdIndexes(F, M)
           w == StdEntries(std)
           off == Offsets(w)
           I == {i \in DOMAIN w : w[i].trk = t}
<1>1. Enumerates(off, I, OwnPackets(F, t))
  <2> DEFINE q == SaidInOrder(F)
  <2>1. Enumerates(Offsets(q), {i \in DOMAIN q : q[i].trk = t}, OwnPackets(F, t))
    BY DEF Gapless, OwnPackets
  <2>2. DOMAIN w = DOMAIN q /\ off = Offsets(q) /\ \A i \in DOMAIN w : w[i].trk = q[i].trk
    BY StdEntriesSaid
  <2> HIDE DEF q, w, off
  <2>3. I = {i \in DOMAIN q : q[i].trk = t} BY <2>2
  <2> QED BY <2>1, <2>2, <2>3
<1>2. std \in Seq(StdIxs)
  <2>1. M \in Segments BY SegmentsApart
  <2> HIDE DEF M
  <2> QED BY <2>1, StdIndexesType
<1> HIDE DEF std
<1>3. PICK s \in Seq(RawEntries) : w = WithPts(s) BY <1>2, StdEntriesFlat
<1> DEFINE n == Len(s)
<1>4. /\ DOMAIN w = 1 .. n /\ n \in Nat /\ w \in Seq({w[i] : i \in DOMAIN w})
      /\ \A i \in 1 .. n : /\ w[i].trk = s[i].trk /\ w[i].off = s[i].off /\ w[i].len = s[i].len
  <2> DEFINE X == {w[i] : i \in DOMAIN w}
  <2>1. /\ DOMAIN w = 1 .. n /\ n \in Nat
        /\ \A i \in 1 .. n : /\ w[i].trk = s[i].trk /\ w[i].off = s[i].off /\ w[i].len = s[i].len
    BY <1>3, StampedEntries
  <2>2. w = [i \in 1 .. n |-> w[i]]
    <3>1. Sizes(s, n)
      <4>1. DOMAIN s = 1 .. n BY LenProperties
      <4>2. \A i \in 1 .. n : s[i] \in RawEntries BY <4>1, LenProperties, ElementOfSeq
      <4> QED BY <4>1, <4>2 DEF Sizes, RawEntries
    <3>2. w = [i \in 1 .. n |->
                 [trk |-> s[i].trk, key |-> s[i].key, off |-> s[i].off,
                  len |-> s[i].len, id |-> s[i].id, pts |-> w[i].pts]]
      BY <1>3, <2>1, <3>1, WithPtsFacts
    <3> HIDE DEF w
    <3> QED BY <3>2
  <2> HIDE DEF w
  <2>3. w \in [1 .. n -> X] BY <2>1, <2>2
  <2> HIDE DEF X, n
  <2>4. w \in Seq(X) BY <2>1, <2>3, FunctionIsSeq
  <2> QED BY <2>1, <2>4 DEF X
<1>5. Sizes(s, n)
  <2>1. DOMAIN s = 1 .. n BY LenProperties
  <2>2. \A i \in 1 .. n : s[i] \in RawEntries BY <2>1, LenProperties, ElementOfSeq
  <2> QED BY <2>1, <2>2 DEF Sizes, RawEntries
<1>6. StdTable(F) = At(w, Owned(s))
  BY <1>3 DEF StdTable, Kept, At, Owned, std
<1>7. \A i \in Owned(s) : True(F, w[i])
  <2>1. \A i \in Owned(s) : \E k \in DOMAIN At(w, Owned(s)) : At(w, Owned(s))[k] = w[i]
    BY <1>3, KeptOfTable
  <2>2. \A k \in DOMAIN StdTable(F) : True(F, StdTable(F)[k]) BY TablesTrue
  <2> HIDE DEF w
  <2> QED BY <1>6, <2>1, <2>2
<1>8. \A i \in I : i \in Owned(s) BY <1>3 DEF Owned
<1>9. ASSUME NEW i \in 1 .. n, s[i].trk = t
      PROVE  s[i].off \in OwnPackets(F, t) /\ s[i].len = F.disk[s[i].off].len
  <2>1. i \in I /\ w[i].trk = t BY <1>4, <1>9
  <2>2. True(F, w[i]) BY <1>7, <1>8, <2>1
  <2>3. w[i].off \in OwnPackets(F, t) /\ w[i].len = F.disk[w[i].off].len
    BY <2>1, <2>2, TrueOfPacket
  <2> QED BY <1>4, <2>3
<1>10. ASSUME NEW i \in 1 .. n, s[i].trk = t
       PROVE  {s[j].off : j \in {k \in 1 .. i - 1 : s[k].trk = t}}
                = {b \in OwnPackets(F, t) : b < s[i].off}
  <2>1. i \in I BY <1>4, <1>10
  <2>2. {off[j] : j \in {k \in I : k < i}} = {b \in OwnPackets(F, t) : b < off[i]}
    BY <1>1, <2>1 DEF Enumerates
  <2>3. {k \in I : k < i} = {k \in 1 .. i - 1 : s[k].trk = t} BY <1>4, <1>10
  <2>4. \A j \in DOMAIN w : off[j] = s[j].off BY <1>4 DEF Offsets
  <2>5. \A j \in {k \in I : k < i} : off[j] = s[j].off BY <2>4
  <2>6. off[i] = s[i].off BY <1>4, <2>4
  <2> HIDE DEF off, I
  <2>7. {off[j] : j \in {k \in I : k < i}} = {s[j].off : j \in {k \in I : k < i}} BY <2>5
  <2> QED BY <2>2, <2>3, <2>6, <2>7
<1>11. Clocks(F, t, w)
  <2>1. n \in Nat BY <1>4
  <2> HIDE DEF w, n, off, I, M
  <2>2. Clocks(F, t, WithPts(s)) BY <1>5, <1>9, <1>10, <2>1, PtsCount
  <2> QED BY <1>3, <2>2
<1>12. Owned(s) \in SUBSET DOMAIN w BY <1>3 DEF Owned
<1> HIDE DEF w
<1> QED BY <1>4, <1>6, <1>11, <1>12, ClocksPart

\* A sequence no element of which is less than the one before it.
LEMMA SortedAll ==
  ASSUME NEW n \in Nat, NEW v, Len(v) = n, \A i \in 1 .. n : v[i] \in Int, NonDecreasing(v)
  PROVE  \A i, j \in 1 .. n : i <= j => v[i] <= v[j]
<1>1. \A i \in 2 .. n : v[i - 1] <= v[i] BY DEF NonDecreasing
<1> SUFFICES ASSUME NEW i \in 1 .. n PROVE \A j \in 1 .. n : i <= j => v[i] <= v[j]
  OBVIOUS
<1> DEFINE Bad == {j \in 1 .. n : i <= j /\ ~(v[i] <= v[j])}
<1>2. Bad = {}
  <2> SUFFICES ASSUME Bad # {} PROVE FALSE
    OBVIOUS
  <2>1. PICK j \in Bad : \A k \in Bad : j <= k
    <3>1. Bad \subseteq Nat OBVIOUS
    <3> HIDE DEF Bad
    <3> QED BY <3>1, NatLeast
  <2> DEFINE p == j - 1
  <2>2. j # i /\ i < j /\ j \in 2 .. n /\ p \in 1 .. n /\ i <= p /\ ~(j <= p) BY <2>1
  <2>3. v[p] <= v[j] BY <1>1, <2>2
  <2>4. p \notin Bad BY <2>1, <2>2
  <2> HIDE DEF p
  <2>5. v[i] <= v[p] BY <2>2, <2>4
  <2>6. v[i] \in Int /\ v[p] \in Int /\ v[j] \in Int BY <2>2
  <2>7. v[i] <= v[j] BY <2>3, <2>5, <2>6
  <2> QED BY <2>1, <2>7
<1> QED BY <1>2

\* The entries s of the table are those of idx1 at the places O, in its order,
\* their offsets counted from base.
Draws(s, n, raw, base, O) ==
  /\ n \in Nat /\ DOMAIN s = 1 .. n
  /\ \A k \in 1 .. n :
       /\ O[k] \in DOMAIN raw /\ PerStream(raw[O[k]]) /\ raw[O[k]].trk \in Streams
       /\ s[k].trk = raw[O[k]].trk /\ s[k].len = raw[O[k]].len
       /\ s[k].off = base + raw[O[k]].off
  /\ \A j, k \in 1 .. n : j < k => O[j] < O[k]
  /\ \A i \in DOMAIN raw :
       PerStream(raw[i]) /\ raw[i].trk \in Streams => \E k \in 1 .. n : O[k] = i

\* The table of idx1 is drawn from it that way.
LEMMA IdxDrawn ==
  ASSUME NEW F, NEW raw \in Seq(Idx1Fields), NEW movi \in Nat
  PROVE  \E s, n, O : /\ BuildIdxTable(F, raw, movi) = WithPts(s)
                      /\ Draws(s, n, raw, Idx1Base(F, raw, movi), O)
<1> DEFINE base == Idx1Base(F, raw, movi)
           I == {i \in DOMAIN raw : PerStream(raw[i]) /\ raw[i].trk \in Streams}
           O == InOrder(I)
           n == Cardinality(I)
           own == At(raw, I)
           s == [i \in DOMAIN own |-> [own[i] EXCEPT !.off = base + @]]
<1>1. base \in Int BY DEF Idx1Base
<1>2. BuildIdxTable(F, raw, movi) = WithPts(s) BY DEF BuildIdxTable, Kept, At
<1>3. \A i \in I : raw[i] \in Idx1Fields BY LenProperties, ElementOfSeq
<1>4. I \subseteq Nat /\ IsFiniteSet(I)
  <2>1. Len(raw) \in Nat /\ DOMAIN raw = 1 .. Len(raw) BY LenProperties
  <2>2. IsFiniteSet(1 .. Len(raw)) BY <2>1, FS_Interval
  <2>3. I \in SUBSET (1 .. Len(raw)) BY <2>1
  <2>4. I \subseteq Nat BY <2>1
  <2> HIDE DEF I
  <2> QED BY <2>2, <2>3, <2>4, FS_Subset
<1>5. /\ O \in [1 .. n -> I] /\ n \in Nat
      /\ \A i, j \in DOMAIN O : i < j => O[i] < O[j]
      /\ \A a \in I : \E i \in DOMAIN O : O[i] = a
  <2> HIDE DEF I
  <2> QED BY <1>4, InOrderLists
<1>6. DOMAIN own = 1 .. n /\ \A k \in 1 .. n : own[k] = raw[O[k]]
  <2>1. own = [k \in DOMAIN O |-> raw[O[k]]] BY DEF At
  <2> HIDE DEF O, own
  <2> QED BY <1>5, <2>1
<1>7. \A i \in I : i \in DOMAIN raw /\ PerStream(raw[i]) /\ raw[i].trk \in Streams OBVIOUS
<1>8. \A i \in DOMAIN raw : PerStream(raw[i]) /\ raw[i].trk \in Streams => i \in I OBVIOUS
<1> HIDE DEF own, O, n, I, base
<1>9. DOMAIN s = 1 .. n BY <1>6
<1>10. ASSUME NEW k \in 1 .. n
       PROVE  /\ s[k].trk = raw[O[k]].trk /\ s[k].len = raw[O[k]].len
              /\ s[k].off = base + raw[O[k]].off
  <2> DEFINE e == raw[O[k]]
             x == base + e.off
  <2>1. e \in Idx1Fields BY <1>3, <1>5
  <2>2. s[k] = [e EXCEPT !.off = x] BY <1>6
  <2> HIDE DEF e, s, x
  <2>3. s[k].trk = e.trk /\ s[k].len = e.len /\ s[k].off = x BY <2>1, <2>2 DEF Idx1Fields
  <2> QED BY <2>3 DEF e, x
<1> HIDE DEF s
<1>11. Draws(s, n, raw, base, O) BY <1>5, <1>7, <1>8, <1>9, <1>10 DEF Draws
<1> QED BY <1>2, <1>11 DEF base

\* The base of idx1 where it has an entry of a stream.
LEMMA BaseOfEntry ==
  ASSUME NEW F, WellFormed(F), MoviSegments(F) # <<>>, NEW base \in Bases(F),
         base = 0 => \A x \in Idx1Says(F, base) : x.off # 0,
         NEW j \in DOMAIN RawIdx1(F), PerStream(RawIdx1(F)[j]), RawIdx1(F)[j].trk \in Streams
  PROVE  Idx1Base(F, RawIdx1(F), MoviSegments(F)[1].from) = base
<1> DEFINE raw == RawIdx1(F)
           I == {i \in DOMAIN raw : PerStream(raw[i]) /\ raw[i].trk \in Streams}
           says(i) == [trk |-> raw[i].trk, off |-> base + raw[i].off,
                       len |-> raw[i].len, key |-> raw[i].key]
<1>1. raw[j].off \in Nat
  <2>1. raw \in Seq(Idx1Fields) BY RawIdx1Type
  <2>2. raw[j] \in Idx1Fields BY <2>1, LenProperties, ElementOfSeq
  <2> QED BY <2>2 DEF Idx1Fields
<1>2. Idx1Says(F, base) = {says(i) : i \in I} BY DEF Idx1Says
<1>3. says(j) \in Idx1Says(F, base) BY <1>2
<1>4. says(j).off = base + raw[j].off BY DEF says
<1> HIDE DEF says
<1>5. base = 0 => raw[j].off # 0
  <2> SUFFICES ASSUME base = 0, raw[j].off = 0 PROVE FALSE
    OBVIOUS
  <2>1. says(j).off # 0 BY <1>3
  <2> QED BY <1>4, <2>1
<1>6. base = 0 => \E k \in DOMAIN RawIdx1(F) :
                    PerStream(RawIdx1(F)[k]) /\ RawIdx1(F)[k].off # 0
  BY <1>5
<1> HIDE DEF raw
<1> QED BY <1>6, BaseFound

\* The raw entries of stream t enumerate the packets S.
Numbers(raw, base, t, S) ==
  Enumerates([i \in DOMAIN raw |-> base + raw[i].off],
             {i \in DOMAIN raw : PerStream(raw[i]) /\ raw[i].trk = t}, S)

\* Of a table drawn from idx1 in file order: the packets of a stream it lists
\* before entry k are those idx1 lists before its place.
LEMMA DrawnBefore ==
  ASSUME NEW s, NEW n, NEW raw, NEW base, NEW O, Draws(s, n, raw, base, O),
         NEW m \in Nat, DOMAIN raw = 1 .. m, NEW t \in Streams, NEW S,
         Numbers(raw, base, t, S),
         NEW k \in 1 .. n, s[k].trk = t
  PROVE  {s[j].off : j \in {i \in 1 .. k - 1 : s[i].trk = t}} = {b \in S : b < s[k].off}
<1> DEFINE off == [i \in DOMAIN raw |-> base + raw[i].off]
           I == {i \in DOMAIN raw : PerStream(raw[i]) /\ raw[i].trk = t}
           J == {i \in 1 .. k - 1 : s[i].trk = t}
           H == {i \in I : i < O[k]}
<1>1. /\ n \in Nat
      /\ \A j \in 1 .. n :
           /\ O[j] \in DOMAIN raw /\ PerStream(raw[O[j]])
           /\ s[j].trk = raw[O[j]].trk /\ off[O[j]] = s[j].off
      /\ \A i, j \in 1 .. n : i < j => O[i] < O[j]
      /\ \A i \in I : \E j \in 1 .. n : O[j] = i
  BY DEF Draws
<1>2. O[k] \in I BY <1>1
<1>3. {off[i] : i \in H} = {b \in S : b < off[O[k]]} BY <1>2 DEF Enumerates, Numbers
<1>4. off[O[k]] = s[k].off BY <1>1
<1>5. \A j \in J : O[j] \in H /\ off[O[j]] = s[j].off
  <2> SUFFICES ASSUME NEW j \in J PROVE O[j] \in H /\ off[O[j]] = s[j].off
    OBVIOUS
  <2>1. j \in 1 .. n /\ j < k /\ s[j].trk = t BY <1>1
  <2>2. O[j] \in I /\ O[j] < O[k] /\ off[O[j]] = s[j].off BY <1>1, <2>1
  <2> QED BY <2>2
<1>6. \A i \in H : \E j \in J : O[j] = i
  <2> SUFFICES ASSUME NEW i \in H PROVE \E j \in J : O[j] = i
    OBVIOUS
  <2>1. PICK j \in 1 .. n : O[j] = i BY <1>1
  <2>2. O[j] < O[k] /\ O[j] \in Nat /\ O[k] \in Nat
    <3>1. i \in DOMAIN raw /\ i < O[k] /\ O[k] \in DOMAIN raw BY <1>1
    <3>2. \A x \in DOMAIN raw : x \in Nat OBVIOUS
    <3> QED BY <2>1, <3>1, <3>2
  <2>3. ~(k < j) /\ j # k BY <1>1, <2>2
  <2>4. j \in 1 .. k - 1 BY <1>1, <2>3
  <2>5. s[j].trk = t BY <1>1, <2>1
  <2> QED BY <2>1, <2>4, <2>5
<1> HIDE DEF off, I, J, H
<1>7. {s[j].off : j \in J} = {off[i] : i \in H} BY <1>5, <1>6
<1> QED BY <1>3, <1>4, <1>7 DEF J

\* and so does that of an idx1 in file order, which is in file order itself.
LEMMA IdxClocks ==
  ASSUME NEW F, WellFormed(F), BackToBack(F), MoviSegments(F) # <<>>, Contained(F), Honest(F),
         Gapless(F), NonDecreasing(Offsets(RawIdx1(F)))
  PROVE  /\ \A t \in Streams : Standing(F, MoviSegments(F), SideIds, t) = {}
              => Clocks(F, t, IdxOf(F))
         /\ \A i, j \in DOMAIN IdxOf(F) : i <= j => IdxOf(F)[i].off <= IdxOf(F)[j].off
<1> DEFINE raw == RawIdx1(F)
           movi == MoviSegments(F)[1].from
           T == IdxOf(F)
           m == Len(raw)
<1>1. PICK base \in Bases(F) : \A x \in Idx1Says(F, base) : True(F, x) BY DEF Honest
<1>2. \A x \in Idx1Says(F, base) : x.off # 0
  <2> SUFFICES ASSUME NEW x \in Idx1Says(F, base) PROVE x.off # 0
    OBVIOUS
  <2>1. x.off \in Standing(F, MoviSegments(F), MediaIds, x.trk) BY <1>1 DEF True
  <2>2. x.off \in Nat /\ x.off >= 12 BY <2>1, StandingFacts
  <2> QED BY <2>2
<1>3. movi \in Nat /\ base \in Int
  <2>1. MoviSegments(F) \in Segments BY SegmentsApart
  <2>2. 1 \in DOMAIN MoviSegments(F) BY <2>1, EmptySeq, LenProperties DEF Segments
  <2>3. movi \in Nat BY <2>2, SegmentFrom
  <2>4. base \in {0, movi - 4} BY DEF Bases
  <2> HIDE DEF movi
  <2> QED BY <2>3, <2>4
<1>4. /\ raw \in Seq(Idx1Fields) /\ m \in Nat /\ DOMAIN raw = 1 .. m
      /\ \A i \in 1 .. m : raw[i].off \in Nat /\ raw[i].len \in Nat
  <2>1. raw \in Seq(Idx1Fields) BY RawIdx1Type
  <2>2. m \in Nat /\ DOMAIN raw = 1 .. m BY <2>1, LenProperties
  <2>3. \A i \in 1 .. m : raw[i] \in Idx1Fields BY <2>1, LenProperties, ElementOfSeq
  <2> QED BY <2>1, <2>2, <2>3 DEF Idx1Fields
<1>5. \A j \in DOMAIN raw : PerStream(raw[j]) /\ raw[j].trk \in Streams =>
        Idx1Base(F, raw, movi) = base
  BY <1>2, BaseOfEntry
<1>6. T = BuildIdxTable(F, raw, movi) BY DEF IdxOf
<1>7. \A k \in DOMAIN T : True(F, T[k]) BY TablesTrue
<1>8. \A t \in Streams : Standing(F, MoviSegments(F), SideIds, t) = {} =>
        Numbers(raw, base, t, OwnPackets(F, t))
  BY DEF Gapless, OwnPackets, Numbers
<1>9. \A i, j \in 1 .. m : i <= j => raw[i].off <= raw[j].off
  <2> DEFINE v == Offsets(raw)
  <2>1. v = [i \in 1 .. m |-> raw[i].off] BY <1>4 DEF Offsets
  <2>2. v \in [1 .. m -> Nat] BY <1>4, <2>1
  <2>3. NonDecreasing(v) OBVIOUS
  <2>4. \A i \in 1 .. m : v[i] = raw[i].off /\ v[i] \in Int BY <1>4, <2>1
  <2> HIDE DEF v, m
  <2>5. Len(v) = m BY <1>4, <2>2, FunctionIsSeq
  <2>6. \A i, j \in 1 .. m : i <= j => v[i] <= v[j] BY <1>4, <2>3, <2>4, <2>5, SortedAll
  <2> QED BY <2>4, <2>6
<1> HIDE DEF raw, movi, T, m
<1>10. PICK s, n, O : T = WithPts(s) /\ Draws(s, n, raw, Idx1Base(F, raw, movi), O)
  BY <1>3, <1>4, <1>6, IdxDrawn
<1>11. Draws(s, n, raw, base, O)
  <2>1. CASE n = 0
    <3>1. 1 .. n = {} BY <2>1
    <3> QED BY <1>10, <3>1 DEF Draws
  <2>2. CASE n # 0
    <3>1. 1 \in 1 .. n BY <1>10, <2>2 DEF Draws
    <3>2. Idx1Base(F, raw, movi) = base BY <1>5, <1>10, <3>1 DEF Draws
    <3> QED BY <1>10, <3>2
  <2> QED BY <2>1, <2>2
<1>12. /\ n \in Nat /\ DOMAIN s = 1 .. n
       /\ \A k \in 1 .. n : O[k] \in 1 .. m /\ s[k].trk = raw[O[k]].trk
                            /\ s[k].len = raw[O[k]].len /\ s[k].off = base + raw[O[k]].off
       /\ \A j, k \in 1 .. n : j < k => O[j] < O[k]
  BY <1>4, <1>11 DEF Draws
<1>13. Sizes(s, n) BY <1>4, <1>12 DEF Sizes
<1>14. DOMAIN T = 1 .. n
       /\ \A k \in 1 .. n : T[k].trk = s[k].trk /\ T[k].off = s[k].off /\ T[k].len = s[k].len
  <2>1. T = [i \in 1 .. n |->
               [trk |-> s[i].trk, key |-> s[i].key, off |-> s[i].off,
                len |-> s[i].len, id |-> s[i].id, pts |-> T[i].pts]]
    BY <1>10, <1>12, <1>13, WithPtsFacts
  <2> QED BY <2>1
<1>15. ASSUME NEW t \in Streams, Standing(F, MoviSegments(F), SideIds, t) = {}
       PROVE  Clocks(F, t, T)
  <2>1. \A k \in 1 .. n : s[k].trk = t =>
          s[k].off \in OwnPackets(F, t) /\ s[k].len = F.disk[s[k].off].len
    <3> SUFFICES ASSUME NEW k \in 1 .. n, s[k].trk = t
                 PROVE  s[k].off \in OwnPackets(F, t) /\ s[k].len = F.disk[s[k].off].len
      OBVIOUS
    <3>1. True(F, T[k]) /\ T[k].trk = t BY <1>7, <1>14
    <3>2. T[k].off \in OwnPackets(F, t) /\ T[k].len = F.disk[T[k].off].len
      BY <1>15, <3>1, TrueOfPacket
    <3> QED BY <1>14, <3>2
  <2>2. \A k \in 1 .. n : s[k].trk = t =>
          {s[j].off : j \in {i \in 1 .. k - 1 : s[i].trk = t}}
            = {b \in OwnPackets(F, t) : b < s[k].off}
    <3> SUFFICES ASSUME NEW k \in 1 .. n, s[k].trk = t
                 PROVE  {s[j].off : j \in {i \in 1 .. k - 1 : s[i].trk = t}}
                          = {b \in OwnPackets(F, t) : b < s[k].off}
      OBVIOUS
    <3> DEFINE S == OwnPackets(F, t)
    <3>1. Numbers(raw, base, t, S) BY <1>8, <1>15
    <3> HIDE DEF S
    <3>2. {s[j].off : j \in {i \in 1 .. k - 1 : s[i].trk = t}} = {b \in S : b < s[k].off}
      BY <1>4, <1>11, <3>1, DrawnBefore DEF S
    <3> QED BY <3>2 DEF S
  <2> QED BY <1>10, <1>12, <1>13, <2>1, <2>2, PtsCount
<1>16. ASSUME NEW i \in 1 .. n, NEW j \in 1 .. n, i <= j PROVE T[i].off <= T[j].off
  <2>1. i = j \/ i < j BY <1>12, <1>16
  <2>2. O[i] <= O[j] /\ O[i] \in 1 .. m /\ O[j] \in 1 .. m BY <1>12, <2>1
  <2> DEFINE x == raw[O[i]].off
             y == raw[O[j]].off
  <2>3. x <= y /\ x \in Nat /\ y \in Nat BY <1>4, <1>9, <2>2
  <2>4. T[i].off = base + x /\ T[j].off = base + y BY <1>12, <1>14
  <2> HIDE DEF x, y
  <2> QED BY <1>3, <2>3, <2>4
<1> QED BY <1>14, <1>15, <1>16 DEF T

-----------------------------------------------------------------------------
(* The timestamps: the counter a seek sets                                 *)

\* The entries of table s stand in file order, no two of one chunk.
Ascends(s) == \A i, j \in DOMAIN s : i < j => s[i].off < s[j].off

\* Those up to the offset of entry m are the first m.
LEMMA UpToEntry ==
  ASSUME NEW own \in Tables, Ascends(own), NEW m \in DOMAIN own, NEW off, off = own[m].off
  PROVE  LET I == {i \in 1 .. Len(own) : own[i].off <= off} IN
         /\ Cardinality(I) = m /\ I # {} /\ Max(I) = m
         /\ DOMAIN own = 1 .. Len(own) /\ m # 0
<1> DEFINE n == Len(own)
           I == {i \in 1 .. n : own[i].off <= off}
<1>1. DOMAIN own = 1 .. n /\ n \in Nat /\ \A i \in 1 .. n : own[i].off \in Int BY TableFacts
<1>2. \A i, j \in 1 .. n : i < j => own[i].off < own[j].off BY <1>1 DEF Ascends
<1> HIDE DEF n
<1>3. \A i \in 1 .. n : own[i].off <= off <=> i <= m
  <2> SUFFICES ASSUME NEW i \in 1 .. n PROVE own[i].off <= off <=> i <= m
    OBVIOUS
  <2> DEFINE x == own[i].off
  <2>1. m \in 1 .. n /\ x \in Int /\ off \in Int BY <1>1
  <2>2. (i < m => x < off) /\ (m < i => off < x) /\ (i = m => x = off) BY <1>2, <2>1
  <2> HIDE DEF x
  <2>3. x <= off <=> i <= m BY <1>1, <2>1, <2>2
  <2> QED BY <2>3 DEF x
<1>4. I = 1 .. m /\ m \in 1 .. n BY <1>1, <1>3
<1>5. Cardinality(1 .. m) = m BY <1>1, <1>4, FS_Interval
<1>6. Max(I) = m /\ I # {}
  <2>1. I \in SUBSET (1 .. n) /\ m \in I BY <1>4
  <2> HIDE DEF I
  <2>2. Max(I) \in I /\ m <= Max(I) BY <1>1, <2>1, SelectedIndex
  <2>3. Max(I) \in 1 .. m BY <1>4, <2>2
  <2> DEFINE x == Max(I)
  <2>4. x \in 1 .. m /\ m <= x BY <2>2, <2>3
  <2> HIDE DEF x
  <2>5. x = m BY <1>1, <1>4, <2>4
  <2> QED BY <2>1, <2>5 DEF x
<1>7. m # 0 BY <1>1, <1>4
<1> HIDE DEF I
<1>8. Cardinality(I) = m BY <1>4, <1>5
<1> QED BY <1>1, <1>6, <1>7, <1>8 DEF I, n

\* The entries of stream t in a table that clocks it.
LEMMA OwnClock ==
  ASSUME NEW F, WellFormed(F), NEW t \in Streams, NEW T \in Tables, Clocks(F, t, T)
  PROVE  LET own == OfStream(T, t) IN
         /\ own \in Tables /\ Ascends(own) /\ Clocks(F, t, own)
         /\ \A m \in DOMAIN own : own[m].trk = t /\ \E n \in DOMAIN T : own[m] = T[n]
         /\ \A n \in DOMAIN T : T[n].trk = t => \E m \in DOMAIN own : own[m] = T[n]
<1> DEFINE I == {i \in DOMAIN T : T[i].trk = t}
           own == OfStream(T, t)
<1>1. own = At(T, I) BY DEF OfStream, Kept, At
<1>2. I \in SUBSET DOMAIN T /\ (\A i \in I : T[i].trk = t)
      /\ \A i \in DOMAIN T : T[i].trk = t => i \in I
  OBVIOUS
<1>3. T \in Seq(Entries) BY TableFacts
<1> HIDE DEF I, own
<1>4. own \in Tables /\ \A m \in DOMAIN own : \E i \in I : own[m] = T[i]
  BY <1>1, <1>2, PartOfTable
<1>5. \A i \in I : \E m \in DOMAIN own : own[m] = T[i] BY <1>1, <1>2, <1>3, KeptFacts
<1>6. Clocks(F, t, own) BY <1>1, <1>2, <1>3, ClocksPart
<1>7. \A m \in DOMAIN own : own[m].trk = t BY <1>2, <1>4
<1>8. Ascends(own) BY <1>6, <1>7 DEF Clocks, Ascends
<1> QED BY <1>2, <1>4, <1>5, <1>6, <1>7, <1>8 DEF own

\* A seek that lands on a packet the table lists sets the counter of its stream to
\* the timestamp of the packet: by the standard indexes or by idx1, bisected,
LEMMA StdCounterAgrees ==
  ASSUME NEW F, WellFormed(F), NEW t \in Streams, NEW T \in Tables, Clocks(F, t, T),
         NEW n \in DOMAIN T, T[n].trk = t, NEW off, off = T[n].off
  PROVE  /\ StdCounter(OfStream(T, t), off) = StampAt(F, t, off)
         /\ ResetByBisection(T, t, off) = StampAt(F, t, off)
<1> DEFINE own == OfStream(T, t)
           I == {j \in 1 .. Len(own) : own[j].off <= off}
           p == Cardinality(I)
           last == IF I # {} THEN Max(I) ELSE 0
           i == IF NonDecreasing(Offsets(own)) THEN p ELSE last
<1>1. /\ own \in Tables /\ Ascends(own) /\ Clocks(F, t, own)
      /\ \E m \in DOMAIN own : own[m] = T[n]
  BY OwnClock
<1>2. DOMAIN own = 1 .. Len(own)
  <2> HIDE DEF own
  <2> QED BY <1>1, TableFacts
<1>3. StdCounter(own, off) = IF i = 0 THEN 0 ELSE own[i].pts
  <2> HIDE DEF own
  <2> QED BY <1>2 DEF StdCounter, PartitionPoint, SelectLastInSeq
<1>4. ResetByBisection(T, t, off) = IF p = 0 THEN 0 ELSE own[p].pts
  BY <1>2 DEF ResetByBisection, PartitionPoint
<1> HIDE DEF own
<1>5. PICK m \in DOMAIN own : own[m] = T[n] BY <1>1
<1>6. p = m /\ last = m /\ m # 0
  <2>1. p = m /\ I # {} /\ Max(I) = m /\ m # 0 BY <1>1, <1>5, UpToEntry
  <2> QED BY <2>1
<1>7. own[m].pts = StampAt(F, t, off) BY <1>1, <1>5 DEF Clocks
<1> HIDE DEF p, last
<1>8. i = m BY <1>6
<1> HIDE DEF i
<1> QED BY <1>3, <1>4, <1>6, <1>7, <1>8 DEF own

\* or walked, if its table is in file order.
LEMMA WalkAgrees ==
  ASSUME NEW F, WellFormed(F), NEW t \in Streams, NEW T \in Tables, Clocks(F, t, T),
         \A i, j \in DOMAIN T : i <= j => T[i].off <= T[j].off,
         NEW k \in DOMAIN T, T[k].trk = t, NEW off, off = T[k].off
  PROVE  ResetByWalk(T, t, off) = StampAt(F, t, off)
<1> DEFINE n == Len(T)
           I == {i \in 1 .. n : T[i].off > off}
           past == IF I # {} THEN Min(I) ELSE 0
           walked == IF past = 0 THEN T ELSE SubSeq(T, 1, past - 1)
           own == OfStream(walked, t)
<1>1. /\ T \in Seq(Entries) /\ DOMAIN T = 1 .. n /\ n \in Nat
      /\ \A i \in 1 .. n : T[i].off \in Int
  BY TableFacts
<1>2. ResetByWalk(T, t, off) = IF own = <<>> THEN 0 ELSE Last(own).pts
  BY DEF ResetByWalk, SelectInSeq
<1>3. I = {} => past = 0
  OBVIOUS
<1>4. I # {} => past \in I /\ \A i \in I : past <= i
  <2>1. I \in SUBSET (1 .. n) OBVIOUS
  <2> HIDE DEF I, n
  <2> QED BY <1>1, <2>1, SelectedIndex
<1>5. \A i \in 1 .. n : i \in I <=> T[i].off > off OBVIOUS
<1> HIDE DEF past, n, I
<1>6. PICK c \in 0 .. n :
        /\ walked \in Seq(Entries) /\ Len(walked) = c
        /\ \A i \in 1 .. c : walked[i] = T[i]
        /\ k <= c
        /\ \A i \in 1 .. c : T[i].off <= off
  <2>1. CASE I = {}
    <3>1. walked = T BY <1>3, <2>1
    <3>2. \A i \in 1 .. n : T[i].off <= off BY <1>1, <1>5, <2>1
    <3>3. n \in 0 .. n /\ k <= n BY <1>1
    <3>4. Len(T) = n BY DEF n
    <3> QED BY <1>1, <3>1, <3>2, <3>3, <3>4
  <2>2. CASE I # {}
    <3> DEFINE c == past - 1
    <3>1. past \in 1 .. n /\ T[past].off > off /\ \A i \in I : past <= i
      BY <1>4, <1>5, <2>2 DEF I
    <3>2. walked = SubSeq(T, 1, c) BY <1>1, <3>1
    <3>3. c \in 0 .. n /\ \A i \in 1 .. c : i \in 1 .. n /\ ~(past <= i) BY <1>1, <3>1
    <3>4. \A i \in 1 .. c : T[i].off <= off BY <1>1, <1>5, <3>1, <3>3
    <3>5. ~(past <= k)
      <4> SUFFICES ASSUME past <= k PROVE FALSE
        OBVIOUS
      <4> DEFINE x == T[past].off
      <4>1. x <= off /\ x > off /\ x \in Int /\ off \in Int BY <1>1, <3>1
      <4> HIDE DEF x
      <4> QED BY <4>1
    <3>6. k <= c BY <1>1, <3>1, <3>5
    <3> HIDE DEF c, walked
    <3>7. c <= Len(T) /\ 1 \in 1 .. c + 1 /\ c \in 0 .. Len(T) BY <1>1, <3>3 DEF n
    <3>8. /\ SubSeq(T, 1, c) \in Seq(Entries) /\ Len(SubSeq(T, 1, c)) = c
          /\ \A i \in 1 .. c : SubSeq(T, 1, c)[i] = T[i]
      <4> DEFINE p == SubSeq(T, 1, c)
      <4>1. /\ p \in Seq(Entries)
            /\ Len(p) = IF 1 <= c THEN c - 1 + 1 ELSE 0
            /\ \A i \in 1 .. c - 1 + 1 : p[i] = T[1 + i - 1]
        BY <1>1, <3>7, SubSeqProperties
      <4> HIDE DEF p
      <4>2. \A i \in 1 .. c : 1 + i - 1 = i /\ i \in 1 .. c - 1 + 1 BY <3>3
      <4>3. \A i \in 1 .. c : p[i] = T[i] BY <4>1, <4>2
      <4>4. Len(p) = c BY <3>3, <4>1
      <4> QED BY <4>1, <4>3, <4>4 DEF p
    <3> QED BY <3>2, <3>3, <3>4, <3>6, <3>8
  <2> QED BY <2>1, <2>2
<1> HIDE DEF walked
<1>7. c \in Nat /\ \A i \in 1 .. c : i \in DOMAIN T BY <1>1
<1>8. DOMAIN walked = 1 .. c BY <1>6, LenProperties
<1>9. walked \in Tables
  <2>1. Rising(walked) BY <1>6, <1>7, <1>8 DEF Rising, Tables
  <2> QED BY <1>6, <2>1 DEF Tables
<1>10. Clocks(F, t, walked) BY <1>6, <1>7, <1>8 DEF Clocks
<1>11. k \in DOMAIN walked /\ walked[k] = T[k] BY <1>1, <1>6, <1>7, <1>8
<1>12. /\ own \in Tables /\ Ascends(own) /\ Clocks(F, t, own)
       /\ \A m \in DOMAIN own : \E i \in DOMAIN walked : own[m] = walked[i]
       /\ \E m \in DOMAIN own : own[m] = T[k]
  BY <1>9, <1>10, <1>11, OwnClock
<1>13. \A m \in DOMAIN own : own[m].off <= off
  <2>1. \A i \in DOMAIN walked : walked[i].off <= off BY <1>6, <1>8
  <2> QED BY <1>12, <2>1
<1> HIDE DEF own
<1> DEFINE z == Len(own)
<1>14. z \in Nat /\ DOMAIN own = 1 .. z BY <1>12, TableFacts
<1>15. PICK m \in 1 .. z : own[m] = T[k] BY <1>12, <1>14
<1>16. m = z
  <2> SUFFICES ASSUME m # z PROVE FALSE
    OBVIOUS
  <2>1. m < z /\ z \in 1 .. z
    <3> HIDE DEF z
    <3>1. m \in 1 .. z /\ m # z /\ z \in Nat BY <1>14, <1>15
    <3> QED BY <3>1
  <2> DEFINE x == own[z].off
  <2>2. own[m].off < x /\ x <= off /\ own[m].off = off
    BY <1>12, <1>13, <1>14, <1>15, <2>1 DEF Ascends
  <2>3. x \in Int /\ off \in Int BY <1>1, <1>12, <1>14, <2>1, TableFacts
  <2> HIDE DEF x
  <2> QED BY <2>2, <2>3
<1>17. own # <<>> /\ Last(own) = own[z]
  <2>1. own # <<>> BY <1>12, <1>14, <1>15, TableFacts
  <2> QED BY <2>1 DEF Last
<1>18. own[z].pts = StampAt(F, t, off) BY <1>12, <1>14, <1>15, <1>16 DEF Clocks
<1> HIDE DEF z
<1> QED BY <1>2, <1>17, <1>18

\* A seek that lands sets the counter of its stream to the timestamp of the first
\* packet it will read.
LEMMA SeekStamps ==
  ASSUME NEW F, WellFormed(F), BackToBack(F), Contained(F), Honest(F), Gapless(F),
         NonDecreasing(Offsets(RawIdx1(F))), NEW r \in Good(F), Len(r.movi) # 0, NEW q,
         NEW how \in {"seek_to", "std", "after"}, NEW t \in Streams,
         Standing(F, MoviSegments(F), SideIds, t) = {}, NEW target,
         SeekOutcome(F, r, q, how, t, target), ~Unmoved(r, q)
  PROVE  q.got.kind = "landed" /\ q.counter[t] = StampAt(F, t, q.pos)
<1>1. /\ q \in Good(F) /\ LandsWell(q, how, t, target)
      /\ q.counter[t] = Recount(q, how, t, q.pos)
  BY DEF SeekOutcome
<1>2. MoviSegments(F) # <<>> /\ Len(q.movi) # 0
  <2>1. r.movi = MoviSegments(F) /\ q.movi = r.movi /\ r.movi \in Segments
    BY <1>1, ReaderFields
  <2> QED BY <2>1, EmptySeq DEF Segments
<1> DEFINE idx == IdxOf(F)
           std == StdTable(F)
           T == TableOf(F, how)
<1>3. idx \in Tables /\ std \in Tables /\ q.idx = idx /\ q.std = std
  BY <1>1, <1>2, ReaderFields, ReaderTables
<1>4. Clocks(F, t, std) BY <1>2, StdClocks
<1>5. Clocks(F, t, idx) /\ \A i, j \in DOMAIN idx : i <= j => idx[i].off <= idx[j].off
  BY <1>2, IdxClocks
<1>6. PICK k : AtEntry(F, q, how, t, k) BY <1>1, <1>2, SeekArrives
<1>7. q.got.kind = "landed" /\ q.pos = k.off /\ k.trk = t /\ \E n \in DOMAIN T : k = T[n]
  BY <1>6 DEF AtEntry, ListedKey
<1>8. PICK n \in DOMAIN T : k = T[n] BY <1>7
<1>9. T = IF how = "std" \/ (how = "seek_to" /\ idx = <<>>) THEN std ELSE idx
  BY DEF TableOf
<1> DEFINE off == q.pos
           stamp == StampAt(F, t, off)
<1>10. q.counter[t] = Recount(q, how, t, off) BY <1>1
<1> HIDE DEF idx, std, T, off, stamp
<1>11. off = T[n].off /\ T[n].trk = t BY <1>7, <1>8 DEF off
<1>12. CASE how = "std" \/ (how = "seek_to" /\ idx = <<>>)
  <2>1. T = std BY <1>9, <1>12
  <2>2. StdCounter(OfStream(std, t), off) = stamp
    BY <1>3, <1>4, <1>11, <2>1, StdCounterAgrees DEF stamp
  <2>3. Recount(q, how, t, off) = StdCounter(OfStream(std, t), off)
    BY <1>3, <1>12 DEF Recount
  <2> QED BY <1>7, <1>10, <2>2, <2>3 DEF stamp, off
<1>13. CASE ~(how = "std" \/ (how = "seek_to" /\ idx = <<>>))
  <2>1. T = idx BY <1>9, <1>13
  <2>2. ResetByBisection(idx, t, off) = stamp
    BY <1>3, <1>5, <1>11, <2>1, StdCounterAgrees DEF stamp
  <2>3. ResetByWalk(idx, t, off) = stamp
    BY <1>3, <1>5, <1>11, <2>1, WalkAgrees DEF stamp
  <2>4. \/ Recount(q, how, t, off) = ResetByBisection(idx, t, off)
        \/ Recount(q, how, t, off) = ResetByWalk(idx, t, off)
    BY <1>3, <1>13 DEF Recount, Idx1Counter
  <2> QED BY <1>7, <1>10, <2>2, <2>3, <2>4 DEF stamp, off
<1> QED BY <1>12, <1>13

-----------------------------------------------------------------------------
(* The timestamps: the invariant                                           *)

\* An index a seek resets a counter by leaves out no packet before one it lists.
GaplessFiles == \A F \in Files : MoviSegments(F) # <<>> => Gapless(F)

\* The streams whose timestamps are those of a read from the start: all of them
\* before the first seek, the one last sought after it.
Timely(t) == asked = NotAsked \/ (asked.trk = t /\ Clean(t) /\ Ordered)

\* The counter of such a stream is the timestamp of the next packet.
StampsOK ==
  d.open =>
    \A t \in Streams : Timely(t) => d.counter[t] = StampAt(file, t, d.pos)
ClockInv == SInv /\ StampsOK /\ StampsAgree

\* A reader with no packet in hand has stamped none.
LEMMA NoPacketAgrees == d.got.kind # "packet" => StampsAgree
BY DEF StampsAgree

\* open_avi stands in front of the first packet with the counters at zero.
LEMMA ClockInit ==
  ASSUME OrderlyFiles, Init
  PROVE  ClockInv
<1>1. SInv BY SInvInit
<1>2. CASE ~d.open
  <2>1. d.got.kind # "packet"
    <3>1. DInv BY <1>1 DEF SInv
    <3>2. d = Closed \/ d \in Good(file) BY <3>1 DEF DInv, ReaderOK
    <3>3. d \notin Good(file) BY <1>2 DEF Good, Readers
    <3> QED BY <3>2, <3>3 DEF Closed, IoError
  <2> QED BY <1>1, <1>2, <2>1, NoPacketAgrees DEF ClockInv, StampsOK
<1>3. CASE d.open
  <2>1. /\ WellFormed(file) /\ d \in Good(file) /\ Len(d.movi) # 0 /\ d.pos \in Nat
        /\ d = Open(file)
    BY <1>1, <1>3, OpenFacts DEF Init
  <2>2. Open(file) # Closed BY <1>3, <2>1 DEF Closed
  <2>3. /\ d.movi = MoviSegments(file) /\ Len(d.movi) \in Nat
        /\ DOMAIN d.movi = 1 .. Len(d.movi) /\ Apart(d.movi, file.len)
        /\ \A i \in DOMAIN d.movi : d.movi[i].from \in Nat /\ d.movi[i].to \in Nat
    BY <2>1, ReaderFields
  <2>4. d.pos = d.movi[1].from /\ d.got = Nothing /\ \A t \in Streams : d.counter[t] = 0
    BY <2>1, <2>2, <2>3 DEF Open
  <2>5. 1 \in DOMAIN d.movi BY <2>1, <2>3
  <2>6. ASSUME NEW t \in Streams, NEW b \in OwnPackets(file, t) PROVE d.pos <= b
    <3>1. PICK i \in DOMAIN d.movi : d.movi[i].from <= b
      BY <2>3 DEF OwnPackets, Standing
    <3>2. b \in Nat BY <2>1, OwnFacts
    <3>3. i = 1 \/ 1 < i BY <2>3
    <3> DEFINE x == d.movi[1].from
               y == d.movi[1].to
               z == d.movi[i].from
    <3>4. x \in Nat /\ y \in Nat /\ z \in Nat /\ x <= y + 11 /\ z <= b /\ d.pos = x
      BY <2>3, <2>4, <2>5, <3>1 DEF Apart
    <3>5. i = 1 => x = z OBVIOUS
    <3>6. 1 < i => y + 12 <= z BY <2>3, <2>5 DEF Apart
    <3> HIDE DEF x, y, z
    <3> QED BY <3>2, <3>3, <3>4, <3>5, <3>6
  <2>7. \A t \in Streams : StampAt(file, t, d.pos) = 0 BY <2>1, <2>6, StampZero
  <2>8. StampsOK BY <2>4, <2>7 DEF StampsOK
  <2>9. StampsAgree BY <2>4, NoPacketAgrees DEF Nothing
  <2> QED BY <1>1, <2>8, <2>9 DEF ClockInv
<1> QED BY <1>2, <1>3

\* next_packet stamps its packet and moves the counter over it.
LEMMA ClockNextPacket ==
  ASSUME OrderlyFiles, ClockInv, NextPacket
  PROVE  StampsOK' /\ StampsAgree'
<1> DEFINE q == ReadPacket(file, d)
<1>1. d.open /\ d' = q /\ UNCHANGED <<file, list, asked>> BY DEF NextPacket
<1>2. /\ WellFormed(file) /\ BackToBack(file) /\ Contained(file) /\ SInv
      /\ d \in Good(file) /\ d.pos \in Nat /\ Lists(list, file) /\ OnPath(file, d)
  BY <1>1, OpenFacts DEF ClockInv
<1>3. Passes(file, d.pos, q) /\ Stamped(file, d, q)
  BY <1>2, ReadPacketPasses, ReadPacketStamps
<1> HIDE DEF q
<1>4. q \in Good(file) /\ d.pos <= q.pos BY <1>3 DEF Passes
<1>5. q.pos \in Nat /\ q.movi = d.movi BY <1>2, <1>4, ReaderFields
<1>6. \A t \in Streams : Timely(t)' <=> Timely(t)
  <2>1. Ordered' = Ordered BY <1>1 DEF Ordered
  <2>2. \A t \in Streams : Clean(t)' = Clean(t) BY <1>1, <1>5 DEF Clean, SideOf
  <2> QED BY <1>1, <2>1, <2>2 DEF Timely
<1>7. \A t \in Streams : Timely(t) => d.counter[t] = StampAt(file, t, d.pos)
  BY <1>1 DEF ClockInv, StampsOK
<1>8. ASSUME NEW t \in Streams, NEW b \in OwnPackets(file, t)
      PROVE  b \in Packets(file) /\ file.disk[b].trk = t
  BY DEF OwnPackets, Packets, Standing
<1>9. CASE q.got.kind = "packet"
  <2> PICK at, u : at = q.got.at /\ u = q.got.trk
    OBVIOUS
  <2>1. /\ at \in Packets(file) /\ d.pos <= at /\ at < q.pos /\ u = file.disk[at].trk
        /\ \A b \in Packets(file) : d.pos <= b /\ b < q.pos => b = at
    BY <1>3, <1>9 DEF Passes
  <2>2. /\ q.got.pts = d.counter[u]
        /\ \A t \in Streams :
             q.counter[t] = IF t = u THEN d.counter[t] + TimeDelta(t, file.disk[at].len)
                            ELSE d.counter[t]
    BY <1>3, <1>9 DEF Stamped
  <2>3. u \in Streams /\ at \in OwnPackets(file, u)
    BY <1>2, <2>1, PacketFacts DEF Packets, OwnPackets, Standing
  <2>4. at \in Nat /\ Packets(file) \subseteq Nat BY <1>2, <2>1, PacketFacts
  <2>5. \A b \in Packets(file) : b < d.pos \/ q.pos <= b \/ b = at
    BY <1>2, <1>5, <2>1, <2>4
  <2>6. /\ StampAt(file, u, at) = StampAt(file, u, d.pos)
        /\ StampAt(file, u, q.pos) = StampAt(file, u, d.pos) + TimeDelta(u, file.disk[at].len)
    <3>1. \A b \in OwnPackets(file, u) : b < d.pos \/ q.pos <= b \/ b = at
      BY <1>8, <2>3, <2>5
    <3> QED BY <1>2, <1>5, <2>1, <2>3, <3>1, StampMore
  <2>7. ASSUME NEW t \in Streams, t # u
        PROVE  StampAt(file, t, q.pos) = StampAt(file, t, d.pos)
    <3>1. \A b \in OwnPackets(file, t) : b < d.pos \/ q.pos <= b
      BY <1>8, <2>1, <2>5, <2>7
    <3> QED BY <1>2, <1>4, <1>5, <3>1, StampSame
  <2>8. \A t \in Streams : Timely(t) => q.counter[t] = StampAt(file, t, q.pos)
    BY <1>7, <2>2, <2>6, <2>7
  <2>9. StampsOK' BY <1>1, <1>6, <2>8 DEF StampsOK
  <2>10. list[CHOOSE i \in DOMAIN list : list[i].at = at].pts = StampAt(file, u, at)
    <3>1. \E i \in DOMAIN list : list[i].at = at BY <1>2, <2>1 DEF Lists
    <3> DEFINE i == CHOOSE i \in DOMAIN list : list[i].at = at
    <3>2. i \in DOMAIN list /\ list[i].at = at BY <3>1
    <3> HIDE DEF i
    <3>3. list[i].pts = StampAt(file, u, at) BY <1>2, <2>1, <3>2 DEF Lists
    <3> QED BY <3>3 DEF i
  <2>11. Expected'.pts = StampAt(file, u, at) BY <1>1, <2>10 DEF Expected
  <2>12. CASE Timely(u)
    <3>1. q.got.pts = StampAt(file, u, at) BY <1>7, <2>2, <2>3, <2>6, <2>12
    <3> QED BY <1>1, <2>9, <2>11, <3>1 DEF StampsAgree
  <2>13. CASE ~Timely(u)
    <3>1. ~Timely(u)' BY <1>6, <2>3, <2>13
    <3>2. asked' # NotAsked /\ ~(asked'.trk = u /\ Clean(u)' /\ Ordered')
      BY <3>1 DEF Timely
    <3>3. u = d'.got.trk BY <1>1
    <3> QED BY <2>9, <3>2, <3>3 DEF StampsAgree
  <2> QED BY <2>12, <2>13
<1>10. CASE q.got.kind # "packet"
  <2>1. \A b \in Packets(file) : b < d.pos \/ q.pos <= b BY <1>3, <1>10 DEF Passes
  <2>2. q.counter = d.counter BY <1>3, <1>10 DEF Stamped
  <2>3. ASSUME NEW t \in Streams PROVE StampAt(file, t, q.pos) = StampAt(file, t, d.pos)
    <3>1. \A b \in OwnPackets(file, t) : b < d.pos \/ q.pos <= b BY <1>8, <2>1
    <3> QED BY <1>2, <1>4, <1>5, <3>1, StampSame
  <2>4. StampsOK' BY <1>1, <1>6, <1>7, <2>2, <2>3 DEF StampsOK
  <2> QED BY <1>1, <1>10, <2>4 DEF StampsAgree
<1> QED BY <1>9, <1>10

\* A seek leaves the counters alone or resets that of its stream.
LEMMA ClockSeek ==
  ASSUME OrderlyFiles, GaplessFiles, ClockInv, Seeks
  PROVE  StampsOK' /\ StampsAgree'
<1>1. PICK how, t, target, q :
        /\ how \in {"seek_to", "std", "after"}
        /\ SeekOutcome(file, d, q, how, t, target) /\ Sought(q, how, t, target)
  BY DEF Seeks
<1>2. d.open /\ d' = q /\ UNCHANGED <<file, list>>
      /\ asked' = IF q.got.kind = "landed"
                  THEN [how |-> how, trk |-> t, target |-> target] ELSE asked
  BY <1>1 DEF Seeks, Sought
<1>3. /\ WellFormed(file) /\ BackToBack(file) /\ Contained(file) /\ Honest(file)
      /\ d \in Good(file) /\ Len(d.movi) # 0 /\ file \in Files
  <2>1. SInv BY DEF ClockInv
  <2>2. DInv BY <2>1 DEF SInv
  <2> QED BY <1>2, <2>1, <2>2, OpenFacts, OpenReader DEF DInv
<1>4. q \in Good(file) /\ q.movi = MoviSegments(file) /\ d.movi = q.movi
      /\ MoviSegments(file) # <<>>
  <2>1. q \in Good(file) BY <1>1 DEF SeekOutcome
  <2>2. q.movi = MoviSegments(file) /\ d.movi = q.movi /\ d.movi \in Segments
    BY <1>3, <2>1, ReaderFields
  <2> QED BY <1>3, <2>1, <2>2, EmptySeq DEF Segments
<1>5. Gapless(file) BY <1>3, <1>4 DEF GaplessFiles
<1>6. Ordered' = Ordered /\ \A u \in Streams : Clean(u)' = Clean(u)
  BY <1>2, <1>4 DEF Ordered, Clean, SideOf
<1>7. CASE Unmoved(d, q)
  <2>1. q.got = Refused /\ q.pos = d.pos /\ q.counter = d.counter BY <1>7 DEF Unmoved
  <2>2. q.got.kind = "refused" BY <2>1 DEF Refused
  <2>3. asked' = asked BY <1>2, <2>2
  <2>4. \A u \in Streams : Timely(u)' <=> Timely(u) BY <1>6, <2>3 DEF Timely
  <2>5. StampsOK' BY <1>2, <2>1, <2>4 DEF StampsOK, ClockInv
  <2> QED BY <1>2, <2>2, <2>5 DEF StampsAgree
<1>8. CASE ~Unmoved(d, q)
  <2>1. q.got.kind = "landed" BY <1>1, <1>8 DEF SeekOutcome, LandsWell, LandedOn
  <2>2. asked' = [how |-> how, trk |-> t, target |-> target] BY <1>2, <2>1
  <2>3. asked' # NotAsked /\ asked'.trk = t BY <1>1, <2>2 DEF NotAsked
  <2>4. ASSUME NEW u \in Streams, Timely(u)'
        PROVE  q.counter[u] = StampAt(file, u, q.pos)
    <3>1. u = t /\ Clean(u) /\ Ordered BY <1>6, <2>3, <2>4 DEF Timely
    <3>2. Standing(file, MoviSegments(file), SideIds, u) = {}
      BY <1>4, <3>1 DEF Clean, SideOf
    <3>3. NonDecreasing(Offsets(RawIdx1(file))) BY <3>1 DEF Ordered
    <3> QED BY <1>1, <1>3, <1>5, <1>8, <3>1, <3>2, <3>3, SeekStamps
  <2>5. StampsOK' BY <1>2, <2>4 DEF StampsOK
  <2> QED BY <1>2, <2>1, <2>5 DEF StampsAgree
<1> QED BY <1>7, <1>8

\* Every step keeps the invariant.
LEMMA ClockNext ==
  ASSUME OrderlyFiles, GaplessFiles, ClockInv, [Next]_vars
  PROVE  ClockInv'
<1>1. SInv' BY SInvNext DEF ClockInv
<1>2. CASE NextPacket BY <1>1, <1>2, ClockNextPacket DEF ClockInv
<1>3. CASE Seeks BY <1>1, <1>3, ClockSeek DEF ClockInv
<1>4. CASE UNCHANGED vars
  <2>1. StampsOK' BY <1>4 DEF vars, ClockInv, StampsOK, Timely, Clean, SideOf, Ordered
  <2>2. StampsAgree'
    BY <1>4 DEF vars, ClockInv, StampsAgree, Expected, Clean, SideOf, Ordered
  <2> QED BY <1>1, <2>1, <2>2 DEF ClockInv
<1> QED BY <1>2, <1>3, <1>4, NextCases DEF ClockInv, SInv

\* Where no index a seek resets a counter by leaves out a packet before one it
\* lists, over every order of reads and seeks: every packet carries the timestamp
\* a read from the start gives it, before the first seek, and after one on the
\* stream it sought - whether seek_to reset the counter by bisecting idx1 or by
\* walking it, by the standard indexes, or the search for a keyframe after the
\* target did.
THEOREM StampsHold ==
  ASSUME OrderlyFiles, GaplessFiles
  PROVE  Spec => []StampsAgree
<1>1. Init => ClockInv BY ClockInit
<1>2. ClockInv /\ [Next]_vars => ClockInv' BY ClockNext
<1>3. ClockInv => StampsAgree BY DEF ClockInv
<1> QED BY <1>1, <1>2, <1>3, PTL DEF Spec

-----------------------------------------------------------------------------
(* The landings: entries and packets                                       *)

\* The least element of a set of numbers.
LEMMA LeastIs ==
  ASSUME NEW S, S \subseteq Int, NEW i \in S, \A j \in S : i <= j
  PROVE  Least(S) = i
<1> DEFINE m == Least(S)
<1>1. m \in S /\ \A j \in S : m <= j BY DEF Least
<1> HIDE DEF m
<1>2. m \in Int /\ i \in Int /\ m <= i /\ i <= m BY <1>1
<1>3. m = i BY <1>2
<1> QED BY <1>3 DEF m

\* The entries of table s are the packets at the places K of the list.
Match(e, i) == list[i].at = e.off /\ list[i].pts = e.pts
Mirrors(s, K) ==
  /\ \A n \in DOMAIN s : \E i \in K : Match(s[n], i)
  /\ \A i \in K : \E n \in DOMAIN s : Match(s[n], i)

\* They come in the same order.
LEMMA SameOrder ==
  ASSUME WellFormed(file), Lists(list, file), NEW s \in Tables, Ascends(s),
         NEW m \in DOMAIN s, NEW n \in DOMAIN s, NEW i \in DOMAIN list, NEW j \in DOMAIN list,
         Match(s[m], i), Match(s[n], j)
  PROVE  m <= n <=> i <= j
<1>1. /\ DOMAIN list = 1 .. Len(list) /\ Len(list) \in Nat
      /\ \A x, y \in DOMAIN list : x < y => list[x].at < list[y].at
      /\ \A x \in DOMAIN list : list[x].at \in Nat
  BY PacketFacts DEF Lists
<1>2. /\ DOMAIN s = 1 .. Len(s) /\ Len(s) \in Nat
      /\ \A x, y \in DOMAIN s : x < y => s[x].off < s[y].off
  BY TableFacts DEF Ascends
<1> DEFINE a == list[i].at
           b == list[j].at
<1>3. /\ a \in Nat /\ b \in Nat /\ (m < n => a < b) /\ (n < m => b < a) /\ (m = n => a = b)
      /\ (i < j => a < b) /\ (j < i => b < a) /\ (i = j => a = b)
  BY <1>1, <1>2 DEF Match
<1>4. m \in Nat /\ n \in Nat /\ i \in Nat /\ j \in Nat BY <1>1, <1>2
<1> HIDE DEF a, b
<1> QED BY <1>3, <1>4

\* The packet of K a caller means with a target, as Best has it.
Wanted(how, K, target) ==
  LET before == {i \in K : list[i].pts <= target}
      after == {i \in K : list[i].pts >= target}
  IN IF how = "after"
     THEN IF after = {} THEN Greatest(K) ELSE Smallest(after)
     ELSE IF before = {} THEN Least(K) ELSE Greatest(before)

\* What the search of a seek selects from table s.
Found(s, how, target, k) ==
  IF how = "after" THEN SelectedAfter(s, target, k) ELSE Selected(s, target, k)

\* The entry a search of the table selects is the packet that is wanted.
LEMMA SelectedWanted ==
  ASSUME WellFormed(file), Lists(list, file), NEW s \in Tables, Ascends(s),
         NEW K \in SUBSET DOMAIN list, Mirrors(s, K), NEW target \in Int, NEW how, NEW k,
         Found(s, how, target, k)
  PROVE  LET i == Wanted(how, K, target) IN
         i \in K /\ list[i].at = k.off /\ list[i].pts = k.pts
<1>1. PICK n \in DOMAIN s :
        /\ k = s[n]
        /\ how = "after" => IF From(s, target) = {} THEN LatestIn(s, DOMAIN s, n)
                                                    ELSE EarliestIn(s, From(s, target), n)
        /\ how # "after" => IF UpTo(s, target) = {} THEN n = 1
                                                    ELSE LatestIn(s, UpTo(s, target), n)
  BY DEF Found, SelectedAfter, Selected
<1>2. PICK i \in K : Match(s[n], i) BY DEF Mirrors
<1> DEFINE before == {x \in K : list[x].pts <= target}
           after == {x \in K : list[x].pts >= target}
<1>3. /\ DOMAIN s = 1 .. Len(s) /\ Len(s) \in Nat /\ \A x \in DOMAIN s : s[x].pts \in Nat
  BY TableFacts
<1>4. K \subseteq Int /\ K \subseteq DOMAIN list BY DEF Lists
<1>5. ASSUME NEW x \in K PROVE \E m \in DOMAIN s : Match(s[m], x) BY DEF Mirrors
<1>6. ASSUME NEW x \in K, NEW m \in DOMAIN s, Match(s[m], x)
      PROVE  list[x].pts = s[m].pts /\ (n <= m <=> i <= x)
  BY <1>2, <1>4, <1>6, SameOrder DEF Match
<1>7. \A x \in K : list[x].pts \in Nat BY <1>3, <1>5 DEF Match
<1>8. list[i].pts = s[n].pts BY <1>2 DEF Match
<1>9. before = {} <=> UpTo(s, target) = {}
  <2>1. \A m \in DOMAIN s : \E x \in K : Match(s[m], x) BY DEF Mirrors
  <2>2. UpTo(s, target) # {} => before # {} BY <2>1 DEF UpTo, Match
  <2>3. before # {} => UpTo(s, target) # {} BY <1>5 DEF UpTo, Match
  <2> QED BY <2>2, <2>3
<1>10. after = {} <=> From(s, target) = {}
  <2>1. \A m \in DOMAIN s : \E x \in K : Match(s[m], x) BY DEF Mirrors
  <2>2. From(s, target) # {} => after # {} BY <2>1 DEF From, Match
  <2>3. after # {} => From(s, target) # {} BY <1>5 DEF From, Match
  <2> QED BY <2>2, <2>3
\* LatestIn becomes Greatest, and EarliestIn Smallest.
<1>11. ASSUME NEW I \in SUBSET DOMAIN s, NEW S \in SUBSET K, LatestIn(s, I, n), i \in S,
              \A x \in S : \A m \in DOMAIN s : Match(s[m], x) => m \in I
       PROVE  Greatest(S) = i
  <2> DEFINE B == {x \in S : \A j \in S : list[j].pts <= list[x].pts}
  <2>1. ASSUME NEW x \in S
        PROVE  list[x].pts < list[i].pts \/ (list[x].pts = list[i].pts /\ i <= x)
    <3>1. PICK m \in DOMAIN s : Match(s[m], x) BY <1>5
    <3>2. m \in I BY <1>11, <3>1
    <3>3. s[m].pts < s[n].pts \/ (s[m].pts = s[n].pts /\ n <= m) BY <1>11, <3>2 DEF LatestIn
    <3> QED BY <1>6, <1>8, <3>1, <3>3
  <2>2. \A x \in S : list[x].pts \in Nat BY <1>7
  <2>3. i \in B BY <1>11, <2>1, <2>2
  <2>4. \A x \in B : i <= x
    <3> SUFFICES ASSUME NEW x \in B PROVE i <= x
      OBVIOUS
    <3> DEFINE a == list[x].pts
               b == list[i].pts
    <3>1. b <= a /\ (a < b \/ i <= x) /\ a \in Nat /\ b \in Nat BY <1>11, <2>1, <2>2
    <3> HIDE DEF a, b
    <3> QED BY <3>1
  <2>5. B \subseteq Int BY <1>4
  <2> HIDE DEF B
  <2>6. Least(B) = i BY <2>3, <2>4, <2>5, LeastIs
  <2> QED BY <2>6 DEF Greatest, B
<1>12. ASSUME NEW I \in SUBSET DOMAIN s, NEW S \in SUBSET K, EarliestIn(s, I, n), i \in S,
              \A x \in S : \A m \in DOMAIN s : Match(s[m], x) => m \in I
       PROVE  Smallest(S) = i
  <2> DEFINE B == {x \in S : \A j \in S : list[x].pts <= list[j].pts}
  <2>1. ASSUME NEW x \in S
        PROVE  list[i].pts < list[x].pts \/ (list[x].pts = list[i].pts /\ i <= x)
    <3>1. PICK m \in DOMAIN s : Match(s[m], x) BY <1>5
    <3>2. m \in I BY <1>12, <3>1
    <3>3. s[n].pts < s[m].pts \/ (s[n].pts = s[m].pts /\ n <= m) BY <1>12, <3>2 DEF EarliestIn
    <3> QED BY <1>6, <1>8, <3>1, <3>3
  <2>2. \A x \in S : list[x].pts \in Nat BY <1>7
  <2>3. i \in B BY <1>12, <2>1, <2>2
  <2>4. \A x \in B : i <= x
    <3> SUFFICES ASSUME NEW x \in B PROVE i <= x
      OBVIOUS
    <3> DEFINE a == list[x].pts
               b == list[i].pts
    <3>1. a <= b /\ (b < a \/ i <= x) /\ a \in Nat /\ b \in Nat BY <1>12, <2>1, <2>2
    <3> HIDE DEF a, b
    <3> QED BY <3>1
  <2>5. B \subseteq Int BY <1>4
  <2> HIDE DEF B
  <2>6. Least(B) = i BY <2>3, <2>4, <2>5, LeastIs
  <2> QED BY <2>6 DEF Smallest, B
<1>13. Wanted(how, K, target) = i
  <2>1. CASE how = "after" /\ From(s, target) = {}
    <3>1. LatestIn(s, DOMAIN s, n) BY <1>1, <2>1
    <3>2. Greatest(K) = i BY <1>11, <3>1
    <3> QED BY <1>10, <2>1, <3>2 DEF Wanted
  <2>2. CASE how = "after" /\ From(s, target) # {}
    <3>1. EarliestIn(s, From(s, target), n) BY <1>1, <2>2
    <3>2. i \in after BY <1>8, <3>1 DEF EarliestIn, From
    <3>3. \A x \in after : \A m \in DOMAIN s : Match(s[m], x) => m \in From(s, target)
      BY DEF Match, From
    <3>4. From(s, target) \in SUBSET DOMAIN s /\ after \in SUBSET K BY DEF From
    <3> HIDE DEF after
    <3>5. Smallest(after) = i BY <1>12, <3>1, <3>2, <3>3, <3>4
    <3> QED BY <1>10, <2>2, <3>5 DEF Wanted, after
  <2>3. CASE how # "after" /\ UpTo(s, target) = {}
    <3>1. n = 1 BY <1>1, <2>3
    <3>2. \A x \in K : i <= x
      <4> SUFFICES ASSUME NEW x \in K PROVE i <= x
        OBVIOUS
      <4>1. PICK m \in DOMAIN s : Match(s[m], x) BY <1>5
      <4>2. n <= m BY <1>3, <3>1
      <4> QED BY <1>6, <4>1, <4>2
    <3>3. Least(K) = i BY <1>4, <3>2, LeastIs
    <3> QED BY <1>9, <2>3, <3>3 DEF Wanted
  <2>4. CASE how # "after" /\ UpTo(s, target) # {}
    <3>1. LatestIn(s, UpTo(s, target), n) BY <1>1, <2>4
    <3>2. i \in before BY <1>8, <3>1 DEF LatestIn, UpTo
    <3>3. \A x \in before : \A m \in DOMAIN s : Match(s[m], x) => m \in UpTo(s, target)
      BY DEF Match, UpTo
    <3>4. UpTo(s, target) \in SUBSET DOMAIN s /\ before \in SUBSET K BY DEF UpTo
    <3> HIDE DEF before
    <3>5. Greatest(before) = i BY <1>11, <3>1, <3>2, <3>3, <3>4
    <3> QED BY <1>9, <2>4, <3>5 DEF Wanted, before
  <2> QED BY <2>1, <2>2, <2>3, <2>4
<1> QED BY <1>1, <1>2, <1>13 DEF Match

\* Table T lists the packets S of stream t and no others.
Covers(T, t, S) == {T[n].off : n \in {m \in DOMAIN T : T[m].trk = t}} = S

\* The idx1 table of such a file covers the primary RIFF,
LEMMA IdxCovers ==
  ASSUME NEW F, WellFormed(F), BackToBack(F), MoviSegments(F) # <<>>, Contained(F), Honest(F),
         Thorough(F), F.full, Uncut(F), IdxOf(F) # <<>>,
         NEW t \in Streams, Standing(F, MoviSegments(F), SideIds, t) = {}
  PROVE  Covers(IdxOf(F), t, {b \in OwnPackets(F, t) : b < PrimaryEnd(F)})
<1> DEFINE raw == RawIdx1(F)
           T == IdxOf(F)
           In1 == {i \in DOMAIN raw : PerStream(raw[i]) /\ raw[i].trk \in Streams}
           J == {j \in In1 : raw[j].trk = t}
           N == {m \in DOMAIN T : T[m].trk = t}
<1>1. PICK base \in Bases(F) : \A x \in Idx1Says(F, base) : True(F, x) BY DEF Honest
<1>2. \A x \in Idx1Says(F, base) : x.off # 0
  <2> SUFFICES ASSUME NEW x \in Idx1Says(F, base) PROVE x.off # 0
    OBVIOUS
  <2>1. x.off \in Standing(F, MoviSegments(F), MediaIds, x.trk) BY <1>1 DEF True
  <2>2. x.off \in Nat /\ x.off >= 12 BY <2>1, StandingFacts
  <2> QED BY <2>2
<1>3. /\ \A n \in DOMAIN T : \E x \in Idx1Says(F, base) : Alike(T[n], x)
      /\ \A x \in Idx1Says(F, base) : \E n \in DOMAIN T : Alike(T[n], x)
  BY <1>2, IdxSays
<1>4. /\ \A n \in DOMAIN T : \E i \in In1 : T[n].trk = raw[i].trk /\ T[n].off = base + raw[i].off
      /\ \A i \in In1 : \E n \in DOMAIN T : T[n].trk = raw[i].trk /\ T[n].off = base + raw[i].off
  <2>1. Idx1Says(F, base) = {[trk |-> raw[i].trk, off |-> base + raw[i].off,
                              len |-> raw[i].len, key |-> raw[i].key] : i \in In1}
    BY DEF Idx1Says
  <2> HIDE DEF raw, T, In1
  <2>2. ASSUME NEW n \in DOMAIN T
        PROVE  \E i \in In1 : T[n].trk = raw[i].trk /\ T[n].off = base + raw[i].off
    <3>1. PICK x \in Idx1Says(F, base) : Alike(T[n], x) BY <1>3
    <3>2. PICK i \in In1 : x = [trk |-> raw[i].trk, off |-> base + raw[i].off,
                               len |-> raw[i].len, key |-> raw[i].key]
      BY <2>1
    <3>3. x.trk = raw[i].trk /\ x.off = base + raw[i].off BY <3>2
    <3> QED BY <3>1, <3>3 DEF Alike
  <2>3. ASSUME NEW i \in In1
        PROVE  \E n \in DOMAIN T : T[n].trk = raw[i].trk /\ T[n].off = base + raw[i].off
    <3> DEFINE x == [trk |-> raw[i].trk, off |-> base + raw[i].off,
                     len |-> raw[i].len, key |-> raw[i].key]
    <3>1. x.trk = raw[i].trk /\ x.off = base + raw[i].off OBVIOUS
    <3>2. x \in Idx1Says(F, base) BY <2>1
    <3>3. PICK n \in DOMAIN T : Alike(T[n], x) BY <1>3, <3>2
    <3> HIDE DEF x
    <3> QED BY <3>1, <3>3 DEF Alike
  <2> QED BY <2>2, <2>3
<1>5. In1 # {}
  <2>1. T \in Seq(Entries)
    <3>1. MoviSegments(F)[1].from \in Nat
      <4>1. MoviSegments(F) \in Segments BY SegmentsApart
      <4>2. 1 \in DOMAIN MoviSegments(F) BY <4>1, EmptySeq, LenProperties DEF Segments
      <4> QED BY <4>2, SegmentFrom
    <3>2. RawIdx1(F) \in Seq(Idx1Fields) BY RawIdx1Type
    <3>3. T \in Tables BY <3>1, <3>2, IdxTable DEF IdxOf
    <3> QED BY <3>3, TableFacts
  <2>2. 1 \in DOMAIN T BY <2>1, EmptySeq, LenProperties
  <2> HIDE DEF T, In1
  <2> QED BY <1>4, <2>2
<1>6. {base + raw[i].off : i \in J} = {b \in OwnPackets(F, t) : b < PrimaryEnd(F)}
  BY <1>5 DEF Thorough, OwnPackets
<1> HIDE DEF raw, T, In1
<1>7. {T[n].off : n \in N} = {base + raw[i].off : i \in J}
  <2>1. \A n \in N : \E i \in J : T[n].off = base + raw[i].off BY <1>4
  <2>2. \A i \in J : \E n \in N : T[n].off = base + raw[i].off BY <1>4
  <2> HIDE DEF N, J
  <2> QED BY <2>1, <2>2
<1> QED BY <1>6, <1>7 DEF Covers, N, T

\* and the table of the standard indexes, if it lists the stream, the file.
LEMMA StdCovers ==
  ASSUME NEW F, WellFormed(F), Thorough(F), F.full, Uncut(F),
         NEW t \in Streams, Standing(F, MoviSegments(F), SideIds, t) = {},
         NEW k \in DOMAIN StdTable(F), StdTable(F)[k].trk = t
  PROVE  Covers(StdTable(F), t, OwnPackets(F, t))
<1> DEFINE M == MoviSegments(F)
           std == StdIndexes(F, M)
           w == StdEntries(std)
           T == StdTable(F)
           J == {j \in DOMAIN w : w[j].trk = t}
           N == {m \in DOMAIN T : T[m].trk = t}
<1>1. {w[i].off : i \in J} \in {{}, OwnPackets(F, t)}
  <2> DEFINE q == SaidInOrder(F)
  <2>1. {q[i].off : i \in {j \in DOMAIN q : q[j].trk = t}} \in {{}, OwnPackets(F, t)}
    BY DEF Thorough, OwnPackets
  <2>2. DOMAIN w = DOMAIN q /\ \A i \in DOMAIN w : w[i].trk = q[i].trk /\ w[i].off = q[i].off
    BY StdEntriesSaid
  <2> HIDE DEF q, w
  <2>3. {w[i].off : i \in J} = {q[i].off : i \in {j \in DOMAIN q : q[j].trk = t}} BY <2>2
  <2> QED BY <2>1, <2>3
<1>2. std \in Seq(StdIxs)
  <2>1. M \in Segments BY SegmentsApart
  <2> HIDE DEF M
  <2> QED BY <2>1, StdIndexesType
<1> HIDE DEF std
<1>3. PICK s \in Seq(RawEntries) : w = WithPts(s) BY <1>2, StdEntriesFlat
<1>4. T = At(w, Owned(s)) BY <1>3 DEF StdTable, Kept, At, Owned, std
<1>5. /\ \A n \in DOMAIN T : \E i \in Owned(s) : T[n] = w[i]
      /\ \A i \in Owned(s) : \E n \in DOMAIN T : T[n] = w[i]
  BY <1>3, <1>4, KeptOfTable
<1>6. J \subseteq Owned(s) /\ Owned(s) \subseteq DOMAIN w BY <1>3 DEF Owned
<1> HIDE DEF w, T
<1>7. {T[n].off : n \in N} = {w[i].off : i \in J}
  <2>1. \A n \in N : \E i \in J : T[n].off = w[i].off BY <1>5, <1>6
  <2>2. \A i \in J : \E n \in N : T[n].off = w[i].off BY <1>5, <1>6
  <2> HIDE DEF N, J
  <2> QED BY <2>1, <2>2
<1>8. N # {} BY DEF T
<1>9. {T[n].off : n \in N} # {}
  <2> HIDE DEF N
  <2> QED BY <1>8
<1> QED BY <1>1, <1>7, <1>9 DEF Covers, N, T

\* The keyframes of stream t in table T are in table s.
KeysOf(T, t, s) ==
  /\ \A n \in DOMAIN s : s[n].trk = t /\ s[n].key /\ \E m \in DOMAIN T : s[n] = T[m]
  /\ \A m \in DOMAIN T : T[m].trk = t /\ T[m].key => \E n \in DOMAIN s : s[n] = T[m]

\* Those a seek searches are, where it passes over none for its AVIIF_NO_TIME.
LEMMA SearchedKeys ==
  ASSUME NEW F, NEW T \in Tables, NEW t \in Streams, Clocks(F, t, T)
  PROVE  /\ LET s == Keyframes(T, t) IN
            s \in Tables /\ KeysOf(T, t, s) /\ Clocks(F, t, s)
         /\ \A r : r.idx = T /\ (\A n \in DOMAIN T : T[n].trk = t => T[n].off \notin r.notime) =>
              LET s == Timed(r, t) IN
              s \in Tables /\ KeysOf(T, t, s) /\ Clocks(F, t, s)
<1>1. T \in Seq(Entries) BY TableFacts
<1> DEFINE I == {i \in DOMAIN T : T[i].trk = t /\ T[i].key}
           s == Keyframes(T, t)
<1>2. s = At(T, I) BY DEF Keyframes, Kept, At
<1>3. I \in SUBSET DOMAIN T /\ (\A i \in I : T[i].trk = t /\ T[i].key)
      /\ \A i \in DOMAIN T : T[i].trk = t /\ T[i].key => i \in I
  OBVIOUS
<1> HIDE DEF I, s
<1>4. s \in Tables /\ \A n \in DOMAIN s : \E i \in I : s[n] = T[i] BY <1>2, <1>3, PartOfTable
<1>5. \A i \in I : \E n \in DOMAIN s : s[n] = T[i]
  <2>1. I \in SUBSET DOMAIN T BY <1>3
  <2>2. \A i \in I : \E n \in DOMAIN At(T, I) : At(T, I)[n] = T[i] BY <1>1, <2>1, KeptFacts
  <2> QED BY <1>2, <2>2
<1>6. Clocks(F, t, s) BY <1>1, <1>2, <1>3, ClocksPart
<1>7. KeysOf(T, t, s) BY <1>3, <1>4, <1>5 DEF KeysOf
<1>8. ASSUME NEW r, r.idx = T, \A n \in DOMAIN T : T[n].trk = t => T[n].off \notin r.notime
      PROVE  Timed(r, t) \in Tables /\ KeysOf(T, t, Timed(r, t)) /\ Clocks(F, t, Timed(r, t))
  <2> DEFINE K == {i \in DOMAIN s : s[i].off \notin r.notime}
             u == Timed(r, t)
  <2>1. u = At(s, K) BY <1>8 DEF Timed, Kept, At, s
  <2>2. s \in Seq(Entries) BY <1>4, TableFacts
  <2>3. \A i \in DOMAIN s : i \in K BY <1>3, <1>4, <1>8
  <2>4. K \in SUBSET DOMAIN s OBVIOUS
  <2> HIDE DEF K, u
  <2>5. u \in Tables /\ \A n \in DOMAIN u : \E i \in K : u[n] = s[i]
    BY <1>4, <2>1, <2>4, PartOfTable
  <2>6. \A i \in K : \E n \in DOMAIN u : u[n] = s[i] BY <2>1, <2>2, <2>4, KeptFacts
  <2>7. Clocks(F, t, u) BY <1>6, <2>1, <2>2, <2>4, ClocksPart
  <2>8. KeysOf(T, t, u)
    <3>1. \A n \in DOMAIN u : \E m \in DOMAIN s : u[n] = s[m] BY <2>4, <2>5
    <3>2. \A m \in DOMAIN s : \E n \in DOMAIN u : u[n] = s[m] BY <2>3, <2>6
    <3>3. \A n \in DOMAIN u : u[n].trk = t /\ u[n].key /\ \E m \in DOMAIN T : u[n] = T[m]
      BY <1>7, <3>1 DEF KeysOf
    <3>4. \A m \in DOMAIN T : T[m].trk = t /\ T[m].key => \E n \in DOMAIN u : u[n] = T[m]
      <4> SUFFICES ASSUME NEW m \in DOMAIN T, T[m].trk = t /\ T[m].key
                   PROVE  \E n \in DOMAIN u : u[n] = T[m]
        OBVIOUS
      <4>1. PICK x \in DOMAIN s : s[x] = T[m] BY <1>7 DEF KeysOf
      <4> QED BY <3>2, <4>1
    <3> QED BY <3>3, <3>4 DEF KeysOf
  <2> QED BY <2>5, <2>7, <2>8 DEF u
<1> QED BY <1>4, <1>6, <1>7, <1>8 DEF s

\* The keyframes of a table that covers packets S are those among S.
LEMMA KeysMirror ==
  ASSUME WellFormed(file), Lists(list, file), NEW t \in Streams, NEW T \in Tables,
         \A n \in DOMAIN T : True(file, T[n]),
         NEW S \in SUBSET OwnPackets(file, t), Covers(T, t, S),
         NEW s \in Tables, KeysOf(T, t, s), Clocks(file, t, s)
  PROVE  /\ Ascends(s)
         /\ Mirrors(s, {i \in DOMAIN list : list[i].trk = t /\ list[i].key /\ list[i].at \in S})
<1> DEFINE K == {i \in DOMAIN list : list[i].trk = t /\ list[i].key /\ list[i].at \in S}
           N == {m \in DOMAIN T : T[m].trk = t}
<1>1. Ascends(s) BY DEF Ascends, Clocks, KeysOf
<1>2. S = {T[n].off : n \in N} BY DEF Covers
<1>3. \A b \in OwnPackets(file, t) : file.disk[b].trk = t /\ b \in Packets(file) BY OwnFacts
<1>4. \A i \in DOMAIN list : /\ list[i].trk = file.disk[list[i].at].trk
                             /\ list[i].key = file.disk[list[i].at].key
                             /\ list[i].pts = StampAt(file, list[i].trk, list[i].at)
  BY DEF Lists
<1>5. ASSUME NEW n \in DOMAIN s PROVE \E i \in K : Match(s[n], i)
  <2>1. PICK m \in DOMAIN T : s[n] = T[m] BY DEF KeysOf
  <2>2. s[n].trk = t /\ s[n].key BY DEF KeysOf
  <2> DEFINE b == s[n].off
  <2>3. b \in S BY <1>2, <2>1, <2>2
  <2>4. file.disk[b].key BY <2>1, <2>2 DEF True
  <2>5. s[n].pts = StampAt(file, t, b) BY <2>2 DEF Clocks
  <2>6. PICK i \in DOMAIN list : list[i].at = b BY <1>3, <2>3 DEF Lists
  <2>7. i \in K /\ list[i].pts = StampAt(file, t, b) BY <1>3, <1>4, <2>3, <2>4, <2>6
  <2> QED BY <2>5, <2>6, <2>7 DEF Match
<1>6. ASSUME NEW i \in K PROVE \E n \in DOMAIN s : Match(s[n], i)
  <2> DEFINE b == list[i].at
  <2>1. PICK m \in N : b = T[m].off BY <1>2
  <2>2. T[m].key BY <1>4, <2>1 DEF True
  <2>3. PICK n \in DOMAIN s : s[n] = T[m] BY <2>1, <2>2 DEF KeysOf
  <2>4. s[n].pts = StampAt(file, t, b) BY <2>1, <2>3 DEF Clocks
  <2> QED BY <1>4, <2>1, <2>3, <2>4 DEF Match
<1> QED BY <1>1, <1>5, <1>6 DEF Mirrors

-----------------------------------------------------------------------------
(* The landings: the invariant                                             *)

\* The indexes list all there is to land on.
ThoroughFiles == \A F \in Files : MoviSegments(F) # <<>> => Thorough(F)

\* A landing was asked for by one of the seeks.
AskedOK == d.got.kind = "landed" => asked.how \in {"seek_to", "std", "after"}
                                    /\ asked.target \in Int
LandInv == SInv /\ AskedOK

\* The reader has landed on the best keyframe.
LEMMA LandsWhereBest ==
  ASSUME OrderlyFiles, GaplessFiles, ThoroughFiles, LandInv
  PROVE  LandsOnBest
<1> SUFFICES ASSUME d.got.kind = "landed", file.full, Whole, Ordered, Clean(asked.trk)
             PROVE  /\ d.pos = list[Best].at
                    /\ d.got.pts = list[Best].pts
                    /\ d.got.gap > 0 =>
                         d.got.gap \in {asked.target - d.got.pts, d.got.pts - asked.target}
  BY DEF LandsOnBest
<1> PICK how, t, target : how = asked.how /\ t = asked.trk /\ target = asked.target
  OBVIOUS
<1>1. DInv /\ d.open
  <2>1. DInv BY DEF LandInv, SInv
  <2>2. d # Closed BY DEF Closed, IoError
  <2> QED BY <2>1, <2>2 DEF DInv, ReaderOK, Good, Readers
<1>2. /\ WellFormed(file) /\ BackToBack(file) /\ Contained(file) /\ Honest(file)
      /\ d \in Good(file) /\ Len(d.movi) # 0 /\ Lists(list, file) /\ file \in Files
  BY <1>1, OpenFacts DEF LandInv, DInv
<1>3. d.movi = MoviSegments(file) /\ d.idx = IdxOf(file) /\ d.notime = file.notime
      /\ MoviSegments(file) # <<>>
  <2>1. d.movi = MoviSegments(file) /\ d.movi \in Segments /\ d.idx = IdxOf(file)
        /\ d \in Readers(file)
    BY <1>2, ReaderFields
  <2> QED BY <1>2, <2>1, EmptySeq DEF Segments, Readers
<1>4. Gapless(file) /\ Thorough(file) /\ Uncut(file) /\ NonDecreasing(Offsets(RawIdx1(file)))
  BY <1>2, <1>3 DEF GaplessFiles, ThoroughFiles, Whole, Ordered
<1>5. Standing(file, MoviSegments(file), SideIds, t) = {} BY <1>3 DEF Clean, SideOf
<1>6. how \in {"seek_to", "std", "after"} /\ target \in Int BY DEF LandInv, AskedOK
<1>7. LandsWell(d, how, t, target) BY <1>1 DEF DInv, LandingOK
<1>8. PICK k : Chosen(d, how, t, target, k) /\ LandedOn(d, t, target, k)
               /\ AtEntry(file, d, how, t, k)
  BY <1>2, <1>7, SeekArrives
<1> DEFINE T == TableOf(file, how)
           S == IF how = "std" \/ d.idx = <<>> THEN OwnPackets(file, t)
                ELSE {b \in OwnPackets(file, t) : b < PrimaryEnd(file)}
           K == {i \in DOMAIN list : list[i].trk = t /\ list[i].key /\ list[i].at \in S}
<1>9. k.trk = t /\ \E n \in DOMAIN T : k = T[n] BY <1>8 DEF AtEntry, ListedKey
<1>10. T \in Tables /\ IdxOf(file) \in Tables /\ StdTable(file) \in Tables
  <2>1. IdxOf(file) \in Tables /\ StdTable(file) \in Tables
    BY <1>2, <1>3, ReaderTables, ReaderFields
  <2> QED BY <2>1 DEF TableOf
<1>11. t \in Streams
  <2>1. \A n \in DOMAIN T : T[n] \in Entries
    <3> HIDE DEF T
    <3> QED BY <1>10, TableFacts
  <2> QED BY <1>9, <2>1 DEF Entries
<1>12. T = IF how = "std" \/ (how = "seek_to" /\ d.idx = <<>>) THEN StdTable(file)
          ELSE IdxOf(file)
  BY <1>3 DEF TableOf
<1>13. (how = "std" \/ d.idx = <<>>) => T = StdTable(file)
  <2>1. ASSUME how = "after", d.idx = <<>> PROVE FALSE
    <3>1. T = <<>> BY <1>3, <1>12, <2>1
    <3> QED BY <1>9, <3>1
  <2> QED BY <1>6, <1>12, <2>1
<1>14. Covers(T, t, S)
  <2>1. CASE how = "std" \/ d.idx = <<>>
    <3>1. T = StdTable(file) BY <1>13, <2>1
    <3>2. \E n \in DOMAIN StdTable(file) : StdTable(file)[n].trk = t BY <1>9, <3>1
    <3>3. Covers(StdTable(file), t, OwnPackets(file, t))
      BY <1>2, <1>4, <1>5, <1>11, <3>2, StdCovers
    <3> HIDE DEF T
    <3> QED BY <2>1, <3>1, <3>3
  <2>2. CASE ~(how = "std" \/ d.idx = <<>>)
    <3>1. T = IdxOf(file) /\ IdxOf(file) # <<>> BY <1>3, <1>12, <2>2
    <3>2. Covers(IdxOf(file), t, {b \in OwnPackets(file, t) : b < PrimaryEnd(file)})
      BY <1>2, <1>3, <1>4, <1>5, <1>11, <3>1, IdxCovers
    <3> HIDE DEF T
    <3> QED BY <2>2, <3>1, <3>2
  <2> QED BY <2>1, <2>2
<1>15. Clocks(file, t, T)
  <2>1. Clocks(file, t, StdTable(file)) BY <1>2, <1>3, <1>4, <1>5, <1>11, StdClocks
  <2>2. Clocks(file, t, IdxOf(file)) BY <1>2, <1>3, <1>4, <1>5, <1>11, IdxClocks
  <2> HIDE DEF T
  <2> QED BY <1>12, <2>1, <2>2
<1>16. \A n \in DOMAIN T : True(file, T[n])
  <2>1. /\ \A n \in DOMAIN IdxOf(file) : True(file, IdxOf(file)[n])
        /\ \A n \in DOMAIN StdTable(file) : True(file, StdTable(file)[n])
    BY <1>2, <1>3, TablesTrue
  <2> HIDE DEF T
  <2> QED BY <1>12, <2>1
<1>17. SeekTable(d, how) = T \/ how = "after"
  <2>1. d.std = StdTable(file) BY <1>2, ReaderFields
  <2> HIDE DEF T
  <2> QED BY <1>3, <1>6, <1>12, <2>1 DEF SeekTable
<1>18. S \in SUBSET OwnPackets(file, t) OBVIOUS
<1>19. K = Reachable(t)
  <2>1. \A i \in DOMAIN list : list[i].trk = t => list[i].at \in OwnPackets(file, t)
    BY <1>2 DEF Lists, Packets, OwnPackets, Standing
  <2> QED BY <2>1 DEF Reachable, PacketsOf
<1> HIDE DEF T, S, K
<1>20. PICK s \in Tables :
         KeysOf(T, t, s) /\ Clocks(file, t, s) /\ Found(s, how, target, k)
  <2>1. CASE how # "after"
    <3>1. Selected(Keyframes(T, t), target, k) BY <1>8, <1>17, <2>1 DEF Chosen
    <3>2. Keyframes(T, t) \in Tables /\ KeysOf(T, t, Keyframes(T, t))
          /\ Clocks(file, t, Keyframes(T, t))
      BY <1>10, <1>11, <1>15, SearchedKeys
    <3> QED BY <2>1, <3>1, <3>2 DEF Found
  <2>2. CASE how = "after"
    <3>1. SelectedAfter(Timed(d, t), target, k) BY <1>8, <2>2 DEF Chosen
    <3>2. T = d.idx BY <1>3, <1>12, <2>2
    <3>3. OwnPackets(file, t) \cap file.notime = {}
      BY <1>4, <1>5, <1>11 DEF Thorough, OwnPackets, Whole
    <3>4. \A n \in DOMAIN T : T[n].trk = t => T[n].off \notin d.notime
      BY <1>3, <1>15, <3>3 DEF Clocks
    <3>5. Timed(d, t) \in Tables /\ KeysOf(T, t, Timed(d, t)) /\ Clocks(file, t, Timed(d, t))
      BY <1>10, <1>11, <1>15, <3>2, <3>4, SearchedKeys
    <3> QED BY <2>2, <3>1, <3>5 DEF Found
  <2> QED BY <2>1, <2>2
<1>21. Ascends(s) /\ Mirrors(s, K)
  BY <1>2, <1>10, <1>11, <1>14, <1>16, <1>18, <1>20, KeysMirror DEF K
<1>22. K \in SUBSET DOMAIN list BY DEF K
<1>23. LET i == Wanted(how, K, target) IN list[i].at = k.off /\ list[i].pts = k.pts
  <2>1. Found(s, how, target, k) BY <1>20
  <2>2. WellFormed(file) /\ Lists(list, file) /\ target \in Int BY <1>2, <1>6
  <2> QED BY <1>21, <1>22, <2>1, <2>2, SelectedWanted
<1>24. Best = Wanted(how, K, target) BY <1>19 DEF Best, Wanted
<1>25. d.pos = k.off /\ d.got.pts = k.pts BY <1>8 DEF AtEntry, LandedOn
<1>26. d.got.gap > 0 => d.got.gap \in {target - d.got.pts, d.got.pts - target}
  BY <1>8 DEF LandedOn
<1> QED BY <1>23, <1>24, <1>25, <1>26

\* Every step keeps the invariant.
LEMMA LandNext ==
  ASSUME OrderlyFiles, LandInv, [Next]_vars
  PROVE  LandInv'
<1>1. SInv' BY SInvNext DEF LandInv
<1>2. CASE NextPacket
  <2>1. d.open /\ d' = ReadPacket(file, d) BY <1>2 DEF NextPacket
  <2>2. WellFormed(file) /\ d \in Good(file) BY <2>1, OpenReader DEF LandInv, SInv
  <2>3. ReadPacket(file, d).got.kind # "landed" BY <2>1, <2>2, OpenReader, ReadPacketFacts
    DEF LandInv, SInv
  <2>4. AskedOK' BY <2>1, <2>3 DEF AskedOK
  <2> QED BY <1>1, <2>4 DEF LandInv
<1>3. CASE Seeks
  <2>1. PICK how, t, target, q :
          /\ how \in {"seek_to", "std", "after"} /\ target \in Int
          /\ Sought(q, how, t, target)
    BY <1>3 DEF Seeks
  <2>2. d' = q /\ (q.got.kind = "landed" =>
                     asked' = [how |-> how, trk |-> t, target |-> target])
    BY <2>1 DEF Sought
  <2>3. AskedOK' BY <2>1, <2>2 DEF AskedOK
  <2> QED BY <1>1, <2>3 DEF LandInv
<1>4. CASE UNCHANGED vars
  <2>1. AskedOK' BY <1>4 DEF vars, LandInv, AskedOK
  <2> QED BY <1>1, <2>1 DEF LandInv
<1> QED BY <1>2, <1>3, <1>4, NextCases DEF LandInv, SInv

\* Where the indexes moreover list all there is to land on, every seek that lands,
\* by idx1 or by the standard indexes, over a table in order or not, after any
\* reads and seeks, lands on the keyframe Best defines from the packets of the file
\* and the timestamps of a read from the start, not from an index.
THEOREM LandsOnBestHolds ==
  ASSUME OrderlyFiles, GaplessFiles, ThoroughFiles
  PROVE  Spec => []LandsOnBest
<1>1. Init => LandInv
  <2> SUFFICES ASSUME Init PROVE LandInv
    OBVIOUS
  <2>1. SInv BY SInvInit
  <2>2. d.got.kind # "landed"
    <3>1. d = Open(file) BY DEF Init
    <3> QED BY <3>1 DEF Open, Closed, IoError, Nothing
  <2> QED BY <2>1, <2>2 DEF LandInv, AskedOK
<1>2. LandInv /\ [Next]_vars => LandInv' BY LandNext
<1>3. LandInv => LandsOnBest BY LandsWhereBest
<1> QED BY <1>1, <1>2, <1>3, PTL DEF Spec

-----------------------------------------------------------------------------
(* The side-band chunks: numbers in order                                  *)

\* The first n elements of s are the members of S, from the least up.
Ranks(s, n, S) ==
  /\ n \in Nat /\ \A i \in 1 .. n : s[i] \in S
  /\ \A i, j \in 1 .. n : i < j => s[i] < s[j]
  /\ \A a \in S : \E i \in 1 .. n : s[i] = a

\* There is one way to do so.
LEMMA RanksWithin ==
  ASSUME NEW S, S \subseteq Int, NEW f, NEW m, Ranks(f, m, S), NEW g, NEW n, Ranks(g, n, S)
  PROVE  \A i \in 1 .. m : i <= n /\ f[i] = g[i]
<1> DEFINE Bad == {i \in 1 .. m : ~(i <= n /\ f[i] = g[i])}
<1>1. /\ m \in Nat /\ n \in Nat
      /\ \A i \in 1 .. m : f[i] \in S /\ f[i] \in Int
      /\ \A i \in 1 .. n : g[i] \in S /\ g[i] \in Int
  BY DEF Ranks
<1>2. Bad = {}
  <2> SUFFICES ASSUME Bad # {} PROVE FALSE
    OBVIOUS
  <2>1. PICK i \in Bad : \A j \in Bad : i <= j
    <3>1. Bad \subseteq Nat OBVIOUS
    <3> HIDE DEF Bad
    <3> QED BY <3>1, NatLeast
  <2>2. i \in 1 .. m /\ \A j \in 1 .. m : j < i => j <= n /\ f[j] = g[j]
    <3> SUFFICES ASSUME NEW j \in 1 .. m, j < i PROVE j <= n /\ f[j] = g[j]
      BY <2>1
    <3>1. ~(i <= j) BY <2>1
    <3> QED BY <2>1, <3>1
  <2>3. PICK j \in 1 .. n : g[j] = f[i] BY <1>1, <2>2 DEF Ranks
  <2>4. ~(j < i)
    <3> SUFFICES ASSUME j < i PROVE FALSE
      OBVIOUS
    <3>1. j \in 1 .. m BY <1>1, <2>2
    <3>2. f[j] = g[j] /\ f[j] < f[i] BY <2>2, <3>1 DEF Ranks
    <3> QED BY <1>1, <2>2, <2>3, <3>1, <3>2
  <2>5. i \in 1 .. n /\ i < j
    <3>1. i <= n BY <1>1, <2>2, <2>4
    <3>2. i # j BY <2>1, <2>3, <3>1
    <3> QED BY <1>1, <2>2, <2>4, <3>1, <3>2
  <2>6. g[i] < f[i]
    <3>1. g[i] < g[j] BY <2>5 DEF Ranks
    <3> QED BY <2>3, <3>1
  <2>7. PICK k \in 1 .. m : f[k] = g[i] BY <1>1, <2>5 DEF Ranks
  <2>8. k < i
    <3>1. k # i BY <1>1, <2>2, <2>6, <2>7
    <3>2. i < k => f[i] < f[k] BY <2>2 DEF Ranks
    <3>3. ~(i < k) BY <1>1, <2>2, <2>6, <2>7, <3>2
    <3> QED BY <1>1, <2>2, <3>1, <3>3
  <2>9. f[k] = g[k] /\ k \in 1 .. n BY <1>1, <2>2, <2>8
  <2>10. g[k] < g[i] BY <2>5, <2>8, <2>9 DEF Ranks
  <2> QED BY <1>1, <2>5, <2>7, <2>9, <2>10
<1> QED BY <1>2

\* InOrder does.
LEMMA InOrderRanks ==
  ASSUME NEW S, S \subseteq Nat, IsFiniteSet(S)
  PROVE  /\ Ranks(InOrder(S), Cardinality(S), S)
         /\ InOrder(S) \in Seq(Int) /\ Len(InOrder(S)) = Cardinality(S)
         /\ InOrder(S) = [i \in 1 .. Cardinality(S) |-> InOrder(S)[i]]
<1> DEFINE O == InOrder(S)
           n == Cardinality(S)
<1>1. /\ O \in [1 .. n -> S] /\ n \in Nat
      /\ \A i, j \in DOMAIN O : i < j => O[i] < O[j]
      /\ \A a \in S : \E i \in DOMAIN O : O[i] = a
  BY InOrderLists
<1> HIDE DEF O, n
<1>2. O \in [1 .. n -> Int]
  <2>1. S \subseteq Int OBVIOUS
  <2> QED BY <1>1, <2>1
<1>3. O \in Seq(Int) /\ Len(O) = n BY <1>1, <1>2, FunctionIsSeq
<1>4. Ranks(O, n, S) BY <1>1 DEF Ranks
<1>5. O = [i \in 1 .. n |-> O[i]] BY <1>1
<1> QED BY <1>3, <1>4, <1>5 DEF O, n

\* A sequence that lists S in order is InOrder(S).
LEMMA InOrderIs ==
  ASSUME NEW S, S \subseteq Nat, IsFiniteSet(S), NEW f, NEW n, Ranks(f, n, S),
         f = [i \in 1 .. n |-> f[i]]
  PROVE  InOrder(S) = f
<1> DEFINE O == InOrder(S)
           m == Cardinality(S)
<1>1. Ranks(O, m, S) /\ O = [i \in 1 .. m |-> O[i]] BY InOrderRanks
<1> HIDE DEF O, m
<1>2. m \in Nat /\ n \in Nat /\ S \subseteq Int BY <1>1 DEF Ranks
<1>3. \A i \in 1 .. n : i <= m /\ f[i] = O[i] BY <1>1, <1>2, RanksWithin
<1>4. \A i \in 1 .. m : i <= n BY <1>1, <1>2, RanksWithin
<1>5. m = n
  <2>1. ~(m < n)
    <3> SUFFICES ASSUME m < n PROVE FALSE
      OBVIOUS
    <3>1. n \in 1 .. n /\ ~(n <= m) BY <1>2
    <3> QED BY <1>3, <3>1
  <2>2. ~(n < m)
    <3> SUFFICES ASSUME n < m PROVE FALSE
      OBVIOUS
    <3>1. m \in 1 .. m /\ ~(m <= n) BY <1>2
    <3> QED BY <1>4, <3>1
  <2> QED BY <1>2, <2>1, <2>2
<1>6. O = f BY <1>1, <1>3, <1>5
<1> QED BY <1>6 DEF O

\* A member above the others comes last.
LEMMA InOrderMore ==
  ASSUME NEW S, S \subseteq Nat, IsFiniteSet(S), NEW a \in Nat, \A b \in S : b < a
  PROVE  InOrder(S \cup {a}) = Append(InOrder(S), a)
<1> DEFINE O == InOrder(S)
           m == Cardinality(S)
           f == Append(O, a)
           n == m + 1
           T == S \cup {a}
<1>1. Ranks(O, m, S) /\ O \in Seq(Int) /\ Len(O) = m BY InOrderRanks
<1> HIDE DEF O, m
<1>2. m \in Nat /\ \A i \in 1 .. m : O[i] \in S BY <1>1 DEF Ranks
<1>3. f \in Seq(Int) /\ Len(f) = n /\ f[n] = a /\ \A i \in 1 .. m : f[i] = O[i]
  <2>1. a \in Int OBVIOUS
  <2> HIDE DEF f
  <2> QED BY <1>1, <1>2, <2>1, AppendProperties DEF f
<1>4. f = [i \in 1 .. n |-> f[i]]
  <2> HIDE DEF f
  <2>1. f \in [1 .. n -> Int] BY <1>3, LenProperties
  <2> QED BY <2>1
<1> HIDE DEF f
<1>5. \A i \in 1 .. n : i = n \/ i \in 1 .. m BY <1>2
<1>6. Ranks(f, n, T)
  <2>1. \A i \in 1 .. n : f[i] \in T BY <1>2, <1>3, <1>5
  <2>2. ASSUME NEW i \in 1 .. n, NEW j \in 1 .. n, i < j PROVE f[i] < f[j]
    <3>1. i \in 1 .. m BY <1>2, <2>2
    <3>2. CASE j = n BY <1>2, <1>3, <3>1, <3>2
    <3>3. CASE j \in 1 .. m BY <1>1, <1>3, <2>2, <3>1, <3>3 DEF Ranks
    <3> QED BY <1>5, <3>2, <3>3
  <2>3. ASSUME NEW b \in T PROVE \E i \in 1 .. n : f[i] = b
    <3>1. CASE b = a BY <1>2, <1>3, <3>1
    <3>2. CASE b \in S
      <4>1. PICK i \in 1 .. m : O[i] = b BY <1>1, <3>2 DEF Ranks
      <4>2. i \in 1 .. n BY <1>2
      <4> QED BY <1>3, <4>1, <4>2
    <3> QED BY <3>1, <3>2
  <2>4. n \in Nat BY <1>2
  <2> QED BY <2>1, <2>2, <2>3, <2>4 DEF Ranks
<1>7. T \subseteq Nat /\ IsFiniteSet(T) BY FS_AddElement
<1> HIDE DEF T, n
<1>8. InOrder(T) = f BY <1>4, <1>6, <1>7, InOrderIs
<1> QED BY <1>8 DEF f, T, O

\* Of no numbers it is empty.
LEMMA InOrderNone == InOrder({}) = <<>>
<1>1. Cardinality({}) = 0 BY FS_EmptySet
<1>2. InOrder({}) \in Seq(Int) /\ Len(InOrder({})) = 0 BY <1>1, FS_EmptySet, InOrderRanks
<1> QED BY <1>2, EmptySeq

-----------------------------------------------------------------------------
(* The side-band chunks: what next_packet collects                         *)

\* The side-band chunks of kind k and stream t before offset pos.
SideBefore(F, k, t, pos) == {at \in Standing(F, MoviSegments(F), {k}, t) : at < pos}

\* The reader has collected and counted those before it.
Gathered(F, r) ==
  \A k \in SideIds, t \in Streams :
    /\ r.bodies[k][t] = InOrder(SideBefore(F, k, t, r.pos))
    /\ r.counts[k][t] = Len(r.bodies[k][t])

\* A turn counts the side-band chunk of kind k and stream t the reader stands on,
\* and collects it unless open_avi did.
Takes(r, q, k, t) ==
  /\ r.pos < q.pos /\ q.eager = r.eager
  /\ q.counts = [r.counts EXCEPT ![k][t] = @ + 1]
  /\ q.bodies = [r.bodies EXCEPT ![k][t] = IF r.eager THEN @ ELSE Append(@, r.pos)]

\* A turn takes the side-band chunk the reader stands on, if it does on one.
OnSide(F, r) == r.pos \in Media(F) /\ F.disk[r.pos].id \in SideIds
Collects(F, r, q) ==
  \/ ~OnSide(F, r) /\ SameSideband(r, q)
  \/ OnSide(F, r) /\ Takes(r, q, F.disk[r.pos].id, F.disk[r.pos].trk)

\* A turn goes past no chunk but the one the reader stands on.
Unskipped(F, r, q) == \A b \in Media(F) : b < r.pos \/ b = r.pos \/ q.pos <= b

\* The turn that takes a chunk.
LEMMA TakeChunkCollects ==
  ASSUME NEW F, WellFormed(F), NEW r \in Good(F), r.seg <= Len(r.movi),
         r.pos \in DOMAIN F.disk, r.pos + 8 + F.disk[r.pos].len <= r.movi[r.seg].to
  PROVE  Collects(F, r, TakeChunk(F, r))
<1> DEFINE q == TakeChunk(F, r)
           c == F.disk[r.pos]
           n == r.pos + 8 + Even(c.len)
<1>1. /\ r \in Readers(F) /\ r.pos \in Nat /\ r.movi = MoviSegments(F)
      /\ r.seg \in DOMAIN r.movi /\ r.movi[r.seg].from <= r.pos
  BY ReaderFields DEF Good, InPlace
<1>2. r.pos < n
  <2> DEFINE e == Even(c.len)
  <2>1. e \in Nat BY CellFacts
  <2> HIDE DEF e
  <2> QED BY <1>1, <2>1 DEF e
<1>3. OnSide(F, r) => c.trk \in Streams /\ c.id \in SideIds BY MediaFacts DEF OnSide
<1>4. CASE c.trk \in Streams /\ c.id \in SideIds
  <2>1. r.pos \in Media(F)
    <3>1. c.id \in MediaIds BY <1>4 DEF SideIds, MediaIds
    <3> QED BY <1>1, <1>4, <3>1 DEF Media, Standing
  <2> HIDE DEF n, c
  <2>2. q = [TakeSideband(r, c) EXCEPT !.pos = n] BY <1>4 DEF TakeChunk, c, n
  <2> DEFINE counts == [r.counts EXCEPT ![c.id][c.trk] = @ + 1]
             bodies == [r.bodies EXCEPT ![c.id][c.trk] =
                          IF r.eager THEN @ ELSE Append(@, r.pos)]
  <2>3. TakeSideband(r, c) = [r EXCEPT !.counts = counts, !.bodies = bodies]
    BY DEF TakeSideband
  <2> HIDE DEF counts, bodies
  <2>4. q.pos = n /\ q.eager = r.eager /\ q.counts = counts /\ q.bodies = bodies
    BY <1>1, <2>2, <2>3 DEF Readers
  <2>5. Takes(r, q, c.id, c.trk) BY <1>2, <2>4 DEF Takes, counts, bodies
  <2> QED BY <1>4, <2>1, <2>5 DEF Collects, OnSide, c
<1>5. CASE ~(c.trk \in Streams /\ c.id \in SideIds)
  <2> DEFINE got == PacketOf(c.trk, r.pos, KeyframeAt(r.idx, r.std, r.pos), r.counter[c.trk])
             counter == [r.counter EXCEPT ![c.trk] = @ + TimeDelta(c.trk, c.len)]
             t == IF c.trk \in Streams /\ c.id = "data" THEN Deliver(r, c) ELSE r
  <2>1. q = [t EXCEPT !.pos = n] BY <1>5 DEF TakeChunk
  <2>2. Deliver(r, c) = [r EXCEPT !.counter = counter, !.got = got] BY DEF Deliver
  <2> HIDE DEF n, c, got, counter
  <2>3. SameSideband(r, q) BY <1>1, <2>1, <2>2 DEF SameSideband, Readers
  <2> QED BY <1>3, <1>5, <2>3 DEF Collects
<1> QED BY <1>4, <1>5

\* The other turns.
LEMMA OtherTurns ==
  ASSUME NEW F, NEW r \in Good(F)
  PROVE  /\ SameSideband(r, LeaveSegment(r)) /\ SameSideband(r, StopAfterHeader(F, r))
         /\ SameSideband(r, EnterList(F, r)) /\ SameSideband(r, [r EXCEPT !.got = Eof])
<1>1. r \in Readers(F) BY DEF Good
<1>2. SameSideband(r, LeaveSegment(r)) BY <1>1 DEF SameSideband, LeaveSegment, Readers
<1>3. SameSideband(r, StopAfterHeader(F, r))
  BY <1>1 DEF SameSideband, StopAfterHeader, Readers
<1>4. SameSideband(r, EnterList(F, r)) BY <1>1 DEF SameSideband, EnterList, Readers
<1>5. SameSideband(r, [r EXCEPT !.got = Eof]) BY <1>1 DEF SameSideband, Readers
<1> QED BY <1>2, <1>3, <1>4, <1>5

\* Where nothing is left to read, a turn collects nothing.
LEMMA SpentCollects ==
  ASSUME NEW F, WellFormed(F), NEW r \in Good(F), Spent(F, r.pos)
  PROVE  Collects(F, r, ReadChunk(F, r))
<1> DEFINE q == ReadChunk(F, r)
           end == r.movi[r.seg].to
<1>1. r.pos \in Nat /\ r.seg \in Nat /\ Len(r.movi) \in Nat BY ReaderFields
<1>2. ~OnSide(F, r)
  <2> SUFFICES ASSUME r.pos \in Media(F) PROVE FALSE
    BY DEF OnSide
  <2>1. r.pos < r.pos BY DEF Spent
  <2> QED BY <1>1, <2>1
<1>3. \/ q = [r EXCEPT !.got = Eof] \/ q = LeaveSegment(r) \/ q = StopAfterHeader(F, r)
      \/ q = EnterList(F, r)
      \/ /\ q = TakeChunk(F, r) /\ ~(r.seg > Len(r.movi)) /\ r.pos \in DOMAIN F.disk
         /\ ~(r.pos + 8 + F.disk[r.pos].len > end)
  BY DEF ReadChunk
<1> HIDE DEF q
<1>4. CASE /\ q = TakeChunk(F, r) /\ ~(r.seg > Len(r.movi)) /\ r.pos \in DOMAIN F.disk
           /\ ~(r.pos + 8 + F.disk[r.pos].len > end)
  <2>1. r.seg <= Len(r.movi) BY <1>1, <1>4
  <2>2. r.pos + 8 + F.disk[r.pos].len <= end
    <3> DEFINE l == F.disk[r.pos].len
    <3>1. l \in Nat /\ end \in Nat /\ ~(r.pos + 8 + l > end)
      <4>1. l \in Nat BY <1>4, CellFacts
      <4>2. r.seg \in DOMAIN r.movi /\ \A i \in DOMAIN r.movi : r.movi[i].to \in Nat
        <5>1. r.seg \in 1 .. Len(r.movi) + 1 /\ DOMAIN r.movi = 1 .. Len(r.movi)
          BY ReaderFields
        <5>2. r.seg \in DOMAIN r.movi BY <1>1, <2>1, <5>1
        <5> QED BY <5>2, ReaderFields
      <4> QED BY <1>4, <4>1, <4>2
    <3> HIDE DEF l, end
    <3>2. r.pos + 8 + l <= end BY <1>1, <3>1
    <3> QED BY <3>2 DEF l
  <2> QED BY <1>4, <2>1, <2>2, TakeChunkCollects DEF q
<1>5. CASE \/ q = [r EXCEPT !.got = Eof] \/ q = LeaveSegment(r) \/ q = StopAfterHeader(F, r)
           \/ q = EnterList(F, r)
  <2>1. SameSideband(r, q) BY <1>5, OtherTurns
  <2> QED BY <1>2, <2>1 DEF Collects, q
<1> QED BY <1>3, <1>4, <1>5

\* Every turn on the path takes the side-band chunk it comes to and passes none.
LEMMA ReadChunkCollects ==
  ASSUME NEW F, WellFormed(F), BackToBack(F), Contained(F), NEW r \in Good(F),
         r.got = Nothing, OnPath(F, r)
  PROVE  Collects(F, r, ReadChunk(F, r)) /\ Unskipped(F, r, ReadChunk(F, r))
<1> DEFINE q == ReadChunk(F, r)
           end == r.movi[r.seg].to
<1>1. Turn(F, r, q) BY ReadChunkTurn
<1>2. q \in Good(F) /\ r.pos \in Nat /\ q.pos \in Nat BY <1>1, ReaderFields DEF Turn
<1>3. \A b \in Media(F) : b \in Nat /\ b \in DOMAIN F.disk /\ F.disk[b].id \notin ListIds
  BY MediaFacts
<1>4. CASE Spent(F, r.pos)
  <2>1. Unskipped(F, r, q) BY <1>4 DEF Unskipped, Spent
  <2> QED BY <1>4, <2>1, SpentCollects
<1>5. CASE ~Spent(F, r.pos)
  <2>1. Boundary(F, r.pos) /\ r.seg <= Len(r.movi) BY <1>5 DEF OnPath
  <2>2. /\ Len(r.movi) \in Nat /\ r.seg \in DOMAIN r.movi /\ end \in Nat /\ r.seg \in Nat
        /\ ~(r.seg > Len(r.movi)) /\ r \in Readers(F) /\ DOMAIN r.movi = 1 .. Len(r.movi)
        /\ \A i \in DOMAIN r.movi : r.movi[i].from \in Nat
    BY <2>1, ReaderFields
  <2>3. CASE r.pos >= end
    <3> DEFINE n == r.seg + 1
    <3>1. q = LeaveSegment(r) BY <2>2, <2>3 DEF ReadChunk
    <3> HIDE DEF q
    <3>2. SameSideband(r, q) BY <3>1, OtherTurns
    <3>3. ASSUME NEW b \in Media(F), ~(b < r.pos)
          PROVE  n <= Len(r.movi) /\ r.movi[n].from <= b
      <4>1. end <= b
        <5> HIDE DEF end
        <5> QED BY <1>2, <1>3, <2>2, <2>3, <3>3
      <4> QED BY <2>1, <4>1, LaterSegment
    <3>4. CASE n <= Len(r.movi)
      <4>1. q = [r EXCEPT !.seg = n, !.pos = r.movi[n].from] BY <3>1, <3>4 DEF LeaveSegment
      <4>2. q.pos = r.movi[n].from BY <2>2, <4>1 DEF Readers
      <4>3. n \in DOMAIN r.movi BY <2>2, <3>4
      <4>4. r.pos < q.pos
        <5>1. r.pos <= end + 11 BY <2>1 DEF Good, InPlace
        <5>2. Apart(r.movi, F.len) BY ReaderFields
        <5>3. r.seg < n BY <2>2
        <5> HIDE DEF n
        <5>4. end + 12 <= q.pos BY <2>2, <4>2, <4>3, <5>2, <5>3 DEF Apart
        <5> HIDE DEF end
        <5> QED BY <1>2, <2>2, <5>1, <5>4
      <4>5. r.pos \notin Media(F)
        <5> SUFFICES ASSUME r.pos \in Media(F) PROVE FALSE
          OBVIOUS
        <5>1. q.pos <= r.pos BY <1>2, <3>3, <4>2
        <5> QED BY <1>2, <4>4, <5>1 DEF q
      <4>6. Unskipped(F, r, q) BY <3>3, <4>2 DEF Unskipped
      <4> QED BY <3>2, <4>5, <4>6 DEF Collects, OnSide, q
    <3>5. CASE ~(n <= Len(r.movi))
      <4>1. Spent(F, r.pos) BY <3>3, <3>5 DEF Spent
      <4> QED BY <1>5, <4>1
    <3> QED BY <3>4, <3>5
  <2>4. CASE ~(r.pos >= end)
    <3>1. r.pos < end
      <4> HIDE DEF end
      <4> QED BY <1>2, <2>2, <2>4
    <3>2. r.pos \in DOMAIN F.disk
      <4> SUFFICES ASSUME r.pos \notin DOMAIN F.disk PROVE FALSE
        OBVIOUS
      <4>1. \A b \in DOMAIN F.disk : b < r.pos BY <1>2, <2>1, LastBoundary
      <4>2. Spent(F, r.pos) BY <1>3, <4>1 DEF Spent
      <4> QED BY <1>5, <4>2
    <3>3. \A b \in DOMAIN F.disk : r.pos < b => NextHeader(F, r.pos) <= b
      BY <3>2, NextHeaderFacts
    <3>4. CASE F.disk[r.pos].id \in ListIds
      <4>1. q = EnterList(F, r) BY <2>2, <2>4, <3>2, <3>4 DEF ReadChunk
      <4> HIDE DEF q
      <4>2. SameSideband(r, q) BY <4>1, OtherTurns
      <4>3. r.pos \notin Media(F) BY <1>3, <3>4
      <4>4. NextHeader(F, r.pos) = r.pos + 12 BY <3>4 DEF NextHeader
      <4>5. CASE FormCut(F, r.pos)
        <5>1. Spent(F, r.pos)
          <6> SUFFICES ASSUME NEW b \in Media(F) PROVE b < r.pos
            BY DEF Spent
          <6>1. b \in Nat /\ b + 8 <= F.len /\ F.len \in Nat BY <1>3, CellFacts
          <6>2. r.pos + 12 > F.len BY <4>5 DEF FormCut
          <6>3. r.pos < b => r.pos + 12 <= b BY <1>3, <3>3, <4>4
          <6>4. b # r.pos BY <4>3
          <6> QED BY <1>2, <6>1, <6>2, <6>3, <6>4
        <5> QED BY <1>5, <5>1
      <4>6. CASE ~FormCut(F, r.pos)
        <5> DEFINE n == r.pos + 12
        <5>1. q = [r EXCEPT !.pos = n] BY <4>1, <4>6 DEF EnterList
        <5>2. q.pos = n BY <2>2, <5>1 DEF Readers
        <5>3. \A b \in Media(F) : r.pos < b => q.pos <= b BY <1>3, <3>3, <4>4, <5>2
        <5>4. Unskipped(F, r, q)
          <6> HIDE DEF n
          <6> QED BY <1>2, <1>3, <5>3 DEF Unskipped
        <5> QED BY <4>2, <4>3, <5>4 DEF Collects, OnSide, q
      <4> QED BY <4>5, <4>6
    <3>5. CASE F.disk[r.pos].id \notin ListIds
      <4>1. ~(r.pos + 8 + F.disk[r.pos].len > end)
        BY <1>5, <2>1, <3>1, <3>2, <3>5, OverrunSpent
      <4>2. q = TakeChunk(F, r) BY <2>2, <2>4, <3>2, <3>5, <4>1 DEF ReadChunk
      <4>3. r.pos + 8 + F.disk[r.pos].len <= end
        <5> DEFINE l == F.disk[r.pos].len
        <5>1. l \in Nat /\ ~(r.pos + 8 + l > end) BY <3>2, <4>1, CellFacts
        <5> HIDE DEF l, end
        <5>2. r.pos + 8 + l <= end BY <1>2, <2>2, <5>1
        <5> QED BY <5>2 DEF l, end
      <4>4. Collects(F, r, q) BY <2>1, <3>2, <4>2, <4>3, TakeChunkCollects
      <4>5. q.pos = NextHeader(F, r.pos)
        <5> DEFINE n == r.pos + 8 + Even(F.disk[r.pos].len)
                   c == F.disk[r.pos]
        <5>1. NextHeader(F, r.pos) = n BY <3>5 DEF NextHeader
        <5>2. q = [(IF c.trk \in Streams /\ c.id \in SideIds THEN TakeSideband(r, c)
                    ELSE IF c.trk \in Streams /\ c.id = "data" THEN Deliver(r, c)
                    ELSE r) EXCEPT !.pos = n]
          BY <4>2 DEF TakeChunk
        <5> HIDE DEF n, c, q
        <5>3. q.pos = n BY <2>2, <5>2 DEF Readers, TakeSideband, Deliver
        <5> QED BY <5>1, <5>3
      <4> HIDE DEF q
      <4>6. \A b \in Media(F) : r.pos < b => q.pos <= b BY <1>3, <3>3, <4>5
      <4>7. Unskipped(F, r, q) BY <1>2, <1>3, <4>6 DEF Unskipped
      <4> QED BY <4>4, <4>7 DEF q
    <3> QED BY <3>4, <3>5
  <2> QED BY <2>3, <2>4
<1> QED BY <1>4, <1>5

\* The side-band chunks before an offset are finitely many numbers.
LEMMA SideNumbers ==
  ASSUME NEW F, WellFormed(F), NEW k, NEW t \in Streams, NEW pos
  PROVE  SideBefore(F, k, t, pos) \subseteq Nat /\ IsFiniteSet(SideBefore(F, k, t, pos))
<1> DEFINE S == SideBefore(F, k, t, pos)
<1>1. S \subseteq DOMAIN F.disk BY DEF SideBefore, Standing
<1>2. DOMAIN F.disk \subseteq Nat /\ IsFiniteSet(DOMAIN F.disk) BY DEF WellFormed
<1> HIDE DEF S
<1>3. S \subseteq Nat BY <1>1, <1>2
<1>4. IsFiniteSet(S) BY <1>1, <1>2, FS_Subset
<1> QED BY <1>3, <1>4 DEF S

\* A turn adds the chunk it passes to them, and no other.
LEMMA SideGrows ==
  ASSUME NEW F, WellFormed(F), NEW r \in Good(F), NEW q \in Good(F), r.pos < q.pos,
         Unskipped(F, r, q), NEW k \in SideIds, NEW t \in Streams,
         r.pos \in Standing(F, MoviSegments(F), {k}, t)
  PROVE  SideBefore(F, k, t, q.pos) = SideBefore(F, k, t, r.pos) \cup {r.pos}
<1> DEFINE S == Standing(F, MoviSegments(F), {k}, t)
<1>1. SideBefore(F, k, t, q.pos) = {at \in S : at < q.pos}
      /\ SideBefore(F, k, t, r.pos) = {at \in S : at < r.pos}
  BY DEF SideBefore
<1>2. \A at \in S : at \in Media(F) /\ at \in Nat
  <2>1. k \in MediaIds BY DEF SideIds, MediaIds
  <2> QED BY <2>1, MediaFacts
<1>3. r.pos \in Nat /\ q.pos \in Nat BY ReaderFields
<1> HIDE DEF S
<1>4. \A at \in S : at < r.pos \/ at = r.pos \/ q.pos <= at BY <1>2 DEF Unskipped
<1>5. \A at \in S : at < q.pos <=> at < r.pos \/ at = r.pos BY <1>2, <1>3, <1>4
<1> QED BY <1>1, <1>5 DEF S

LEMMA SideSame ==
  ASSUME NEW F, WellFormed(F), NEW r \in Good(F), NEW q \in Good(F), r.pos <= q.pos,
         Unskipped(F, r, q), NEW k \in SideIds, NEW t \in Streams,
         r.pos \notin Standing(F, MoviSegments(F), {k}, t)
  PROVE  SideBefore(F, k, t, q.pos) = SideBefore(F, k, t, r.pos)
<1> DEFINE S == Standing(F, MoviSegments(F), {k}, t)
<1>1. SideBefore(F, k, t, q.pos) = {at \in S : at < q.pos}
      /\ SideBefore(F, k, t, r.pos) = {at \in S : at < r.pos}
  BY DEF SideBefore
<1>2. \A at \in S : at \in Media(F) /\ at \in Nat /\ at # r.pos
  <2>1. k \in MediaIds BY DEF SideIds, MediaIds
  <2> QED BY <2>1, MediaFacts
<1>3. r.pos \in Nat /\ q.pos \in Nat BY ReaderFields
<1> HIDE DEF S
<1>4. \A at \in S : at < r.pos \/ q.pos <= at BY <1>2 DEF Unskipped
<1>5. \A at \in S : at < q.pos <=> at < r.pos BY <1>2, <1>3, <1>4
<1> QED BY <1>1, <1>5

\* What the reader p has collected since it was r: nothing open_avi collected,
\* and otherwise every chunk between.
Collected(F, r, p) ==
  /\ p.eager = r.eager
  /\ r.eager => p.bodies = r.bodies
  /\ ~r.eager /\ Gathered(F, r) => Gathered(F, p)

\* One turn.
LEMMA TurnCollects ==
  ASSUME NEW F, WellFormed(F), NEW r \in Good(F), NEW q \in Good(F), r.pos <= q.pos,
         Collects(F, r, q), Unskipped(F, r, q)
  PROVE  Collected(F, r, q)
<1>1. /\ r.bodies \in [SideIds -> [Streams -> Seq(Int)]]
      /\ r.counts \in [SideIds -> [Streams -> Nat]]
      /\ r.pos \in Nat /\ q.pos \in Nat
  <2>1. r \in Readers(F) BY ReaderFields
  <2> QED BY <2>1, ReaderFields DEF Readers
<1>2. ASSUME NEW k \in SideIds, NEW t \in Streams, r.pos < q.pos,
             r.pos \in Standing(F, MoviSegments(F), {k}, t)
      PROVE  SideBefore(F, k, t, q.pos) = SideBefore(F, k, t, r.pos) \cup {r.pos}
  BY ONLY WellFormed(F), r \in Good(F), q \in Good(F), Unskipped(F, r, q), <1>2, SideGrows
<1>3. CASE ~OnSide(F, r) /\ SameSideband(r, q)
  <2>1. ASSUME Gathered(F, r) PROVE Gathered(F, q)
    <3> SUFFICES ASSUME NEW k \in SideIds, NEW t \in Streams
                 PROVE  /\ q.bodies[k][t] = InOrder(SideBefore(F, k, t, q.pos))
                        /\ q.counts[k][t] = Len(q.bodies[k][t])
      BY DEF Gathered
    <3>1. r.pos \notin Standing(F, MoviSegments(F), {k}, t)
      <4> SUFFICES ASSUME r.pos \in Standing(F, MoviSegments(F), {k}, t) PROVE FALSE
        OBVIOUS
      <4>1. k \in MediaIds BY DEF SideIds, MediaIds
      <4>2. r.pos \in Media(F) BY <4>1, MediaFacts
      <4>3. F.disk[r.pos].id = k BY DEF Standing
      <4> QED BY <1>3, <4>2, <4>3 DEF OnSide
    <3>2. SideBefore(F, k, t, q.pos) = SideBefore(F, k, t, r.pos) BY <3>1, SideSame
    <3> QED BY <1>3, <2>1, <3>2 DEF Gathered, SameSideband
  <2> QED BY <1>3, <2>1 DEF Collected, SameSideband
<1>4. CASE OnSide(F, r) /\ Takes(r, q, F.disk[r.pos].id, F.disk[r.pos].trk)
  <2> DEFINE k0 == F.disk[r.pos].id
             t0 == F.disk[r.pos].trk
             B == r.bodies[k0][t0]
  <2>1. k0 \in SideIds /\ t0 \in Streams /\ r.pos \in Media(F) BY <1>4, MediaFacts DEF OnSide
  <2>2. /\ r.pos < q.pos /\ q.eager = r.eager
        /\ q.counts = [r.counts EXCEPT ![k0][t0] = @ + 1]
        /\ q.bodies = [r.bodies EXCEPT ![k0][t0] =
                         IF r.eager THEN @ ELSE Append(@, r.pos)]
    BY <1>4 DEF Takes
  <2>3. \A k \in SideIds, t \in Streams :
          r.pos \in Standing(F, MoviSegments(F), {k}, t) <=> k = k0 /\ t = t0
    BY <2>1 DEF Media, Standing
  <2> HIDE DEF k0, t0
  <2>4. ASSUME r.eager PROVE q.bodies = r.bodies
    <3>1. q.bodies = [r.bodies EXCEPT ![k0][t0] = @] BY <2>2, <2>4
    <3> QED BY <1>1, <2>1, <3>1
  <2>5. ASSUME ~r.eager, Gathered(F, r) PROVE Gathered(F, q)
    <3>1. q.bodies = [r.bodies EXCEPT ![k0][t0] = Append(@, r.pos)] BY <2>2, <2>5
    <3> SUFFICES ASSUME NEW k \in SideIds, NEW t \in Streams
                 PROVE  /\ q.bodies[k][t] = InOrder(SideBefore(F, k, t, q.pos))
                        /\ q.counts[k][t] = Len(q.bodies[k][t])
      BY DEF Gathered
    <3>2. r.bodies[k][t] = InOrder(SideBefore(F, k, t, r.pos))
          /\ r.counts[k][t] = Len(r.bodies[k][t])
      BY <2>5 DEF Gathered
    <3>3. CASE k = k0 /\ t = t0
      <4> DEFINE S == SideBefore(F, k, t, r.pos)
                 A == r.bodies[k][t]
      <4>1. q.bodies[k][t] = Append(A, r.pos) /\ q.counts[k][t] = r.counts[k][t] + 1
        BY <1>1, <2>1, <2>2, <3>1, <3>3
      <4>2. SideBefore(F, k, t, q.pos) = S \cup {r.pos}
        <5>1. r.pos \in Standing(F, MoviSegments(F), {k}, t) BY <2>3, <3>3
        <5>2. r.pos < q.pos BY <2>2
        <5> QED BY <1>2, <5>1, <5>2
      <4>3. S \subseteq Nat /\ IsFiniteSet(S) BY SideNumbers
      <4>4. \A b \in S : b < r.pos BY DEF SideBefore
      <4>5. A \in Seq(Int) BY <1>1
      <4> HIDE DEF S, A
      <4>6. InOrder(S \cup {r.pos}) = Append(InOrder(S), r.pos) BY <1>1, <4>3, <4>4, InOrderMore
      <4>7. A = InOrder(S) BY <3>2 DEF S, A
      <4>8. Len(Append(A, r.pos)) = Len(A) + 1
        <5>1. r.pos \in Int BY <1>1
        <5> QED BY <4>5, <5>1, AppendProperties
      <4>9. r.counts[k][t] = Len(A) BY <3>2 DEF A
      <4> QED BY <4>1, <4>2, <4>6, <4>7, <4>8, <4>9
    <3>4. CASE ~(k = k0 /\ t = t0)
      <4>1. q.bodies[k][t] = r.bodies[k][t] BY <1>1, <2>1, <3>1, <3>4
      <4>3. q.counts[k][t] = r.counts[k][t] BY <1>1, <2>1, <2>2, <3>4
      <4>2. SideBefore(F, k, t, q.pos) = SideBefore(F, k, t, r.pos)
        <5>1. r.pos \notin Standing(F, MoviSegments(F), {k}, t) BY <2>3, <3>4
        <5> QED BY <5>1, SideSame
      <4> QED BY <3>2, <4>1, <4>2, <4>3
    <3> QED BY <3>3, <3>4
  <2> QED BY <2>2, <2>4, <2>5 DEF Collected
<1> QED BY <1>3, <1>4 DEF Collects

\* A call of next_packet.
LEMMA ReadPacketCollects ==
  ASSUME NEW F, WellFormed(F), BackToBack(F), Contained(F), NEW r \in Good(F), OnPath(F, r)
  PROVE  Collected(F, r, ReadPacket(F, r))
<1> DEFINE s == Rewound(r)
           S == {p \in Good(F) : OnPath(F, p) /\ Collected(F, r, p)}
           K == [n \in Nat |-> S]
           q == ReadPacket(F, r)
           N == Turns(F, r)
<1>1. s \in Good(F) /\ s.got = Nothing /\ s.pos = r.pos /\ s.movi = r.movi /\ s.seg = r.seg
  BY RewoundGood
<1>2. s.eager = r.eager /\ s.bodies = r.bodies /\ s.counts = r.counts
  <2>1. r \in Readers(F) BY ReaderFields
  <2> QED BY <2>1 DEF Rewound, Readers
<1>3. s \in S
  <2> HIDE DEF s
  <2>1. OnPath(F, s) BY <1>1 DEF OnPath
  <2>2. Gathered(F, r) => Gathered(F, s) BY <1>1, <1>2 DEF Gathered
  <2>3. Collected(F, r, s) BY <1>2, <2>2 DEF Collected
  <2> QED BY <1>1, <2>1, <2>3
<1>4. ASSUME NEW p \in S PROVE (IF p.got = Nothing THEN ReadChunk(F, p) ELSE p) \in S
  <2>1. CASE p.got # Nothing BY <2>1
  <2>2. CASE p.got = Nothing
    <3> DEFINE c == ReadChunk(F, p)
    <3>1. p \in Good(F) /\ OnPath(F, p) /\ Collected(F, r, p) OBVIOUS
    <3>2. Collects(F, p, c) /\ Unskipped(F, p, c) BY <2>2, <3>1, ReadChunkCollects
    <3>3. Passes(F, p.pos, c) BY <2>2, <3>1, ReadChunkPasses
    <3> HIDE DEF c
    <3>4. c \in Good(F) /\ OnPath(F, c) /\ p.pos <= c.pos BY <3>3 DEF Passes
    <3>5. Collected(F, p, c) BY <3>1, <3>2, <3>4, TurnCollects
    <3>6. Collected(F, r, c) BY <3>1, <3>5 DEF Collected
    <3> QED BY <2>2, <3>4, <3>6 DEF c
  <2> QED BY <2>1, <2>2
<1>5. K \in [Nat -> SUBSET Good(F)] OBVIOUS
<1> HIDE DEF S, q, s
<1>6. s \in K[0] BY <1>3
<1>7. \A n \in Nat : \A p \in K[n] :
        (IF p.got = Nothing THEN ReadChunk(F, p) ELSE p) \in K[n + 1]
  BY <1>4
<1>8. N \in Nat
  <2>1. Cardinality(DOMAIN F.disk) \in Nat BY FS_CardinalityType DEF WellFormed
  <2>2. Len(r.movi) \in Nat BY ReaderFields
  <2> QED BY <2>1, <2>2 DEF Turns
<1>9. q \in K[N]
  <2> HIDE DEF K
  <2> QED BY <1>5, <1>6, <1>7, TurnsKeep DEF s, q
<1> HIDE DEF N
<1>10. q \in S BY <1>8, <1>9
<1> QED BY <1>10 DEF S, q

-----------------------------------------------------------------------------
(* The side-band chunks: what open_avi collects                            *)

\* The places of idx1 that list the chunks of kind k and stream t.
Places(F, k, t) ==
  {i \in DOMAIN RawIdx1(F) : RawIdx1(F)[i].id = k /\ RawIdx1(F)[i].trk = t}

\* What an honest idx1 lists from base is in the file with its whole body.
LEMMA ListedBody ==
  ASSUME NEW F, WellFormed(F), NEW base \in Bases(F),
         \A x \in Idx1Says(F, base) : True(F, x),
         NEW k \in SideIds, NEW t \in Streams, NEW i \in Places(F, k, t)
  PROVE  base + RawIdx1(F)[i].off + 8 + RawIdx1(F)[i].len <= F.len
<1> DEFINE raw == RawIdx1(F)
           M == MoviSegments(F)
           P == {j \in DOMAIN raw : PerStream(raw[j]) /\ raw[j].trk \in Streams}
           says(j) == [trk |-> raw[j].trk, off |-> base + raw[j].off,
                       len |-> raw[j].len, key |-> raw[j].key]
           at == base + raw[i].off
           l == raw[i].len
<1>1. i \in P
  <2>1. k \in MediaIds BY DEF SideIds, MediaIds
  <2> QED BY <2>1 DEF Places, PerStream
<1>2. Idx1Says(F, base) = {says(j) : j \in P} BY DEF Idx1Says
<1>3. says(i) \in Idx1Says(F, base) BY <1>1, <1>2
<1>4. True(F, says(i)) BY <1>3
<1>5. says(i).off = at /\ says(i).len = l /\ says(i).trk = raw[i].trk OBVIOUS
<1> HIDE DEF says
<1>6. at \in Standing(F, M, MediaIds, raw[i].trk) /\ l = F.disk[at].len
  BY <1>4, <1>5 DEF True
<1> HIDE DEF at, l
<1>7. PICK j \in DOMAIN M : at + 8 + l <= M[j].to BY <1>6 DEF Standing
<1>8. M[j].to <= F.len /\ M[j].to \in Nat
  <2>1. M \in Segments /\ Apart(M, F.len) BY SegmentsApart
  <2> HIDE DEF M
  <2>2. M[j] \in [from : Nat, to : Nat] BY <2>1, ElementOfSeq, LenProperties DEF Segments
  <2> QED BY <2>1, <2>2 DEF Apart
<1>9. at \in Nat /\ l \in Nat /\ F.len \in Nat
  <2>1. at \in DOMAIN F.disk BY <1>6 DEF Standing
  <2> QED BY <1>6, <2>1, CellFacts
<1> HIDE DEF M
<1>10. at + 8 + l <= F.len BY <1>7, <1>8, <1>9
<1> QED BY <1>10 DEF at, l

\* An idx1 in file order lists its chunks from the first up.
LEMMA OffsetsRise ==
  ASSUME NEW F, WellFormed(F), NonDecreasing(Offsets(RawIdx1(F)))
  PROVE  /\ Len(RawIdx1(F)) \in Nat /\ DOMAIN RawIdx1(F) = 1 .. Len(RawIdx1(F))
         /\ \A i \in DOMAIN RawIdx1(F) : RawIdx1(F)[i].off \in Nat
         /\ \A i, j \in DOMAIN RawIdx1(F) : i <= j => RawIdx1(F)[i].off <= RawIdx1(F)[j].off
<1> DEFINE raw == RawIdx1(F)
           m == Len(raw)
           v == Offsets(raw)
<1>1. /\ raw \in Seq(Idx1Fields) /\ DOMAIN raw = 1 .. m /\ m \in Nat
      /\ \A i \in 1 .. m : raw[i].off \in Nat
  <2>1. raw \in Seq(Idx1Fields) BY RawIdx1Type
  <2> HIDE DEF raw
  <2>2. DOMAIN raw = 1 .. m /\ m \in Nat BY <2>1, LenProperties
  <2>3. \A i \in 1 .. m : raw[i] \in Idx1Fields BY <2>1, <2>2, ElementOfSeq
  <2> QED BY <2>1, <2>2, <2>3 DEF Idx1Fields
<1>2. v = [i \in 1 .. m |-> raw[i].off] BY <1>1 DEF Offsets
<1>3. NonDecreasing(v) OBVIOUS
<1> HIDE DEF raw, v, m
<1>4. v \in [1 .. m -> Nat] BY <1>1, <1>2
<1>5. v \in Seq(Nat) /\ Len(v) = m BY <1>1, <1>4, FunctionIsSeq
<1>6. \A i \in 1 .. m : v[i] = raw[i].off /\ v[i] \in Int BY <1>1, <1>2
<1>7. \A i, j \in 1 .. m : i <= j => v[i] <= v[j] BY <1>1, <1>3, <1>5, <1>6, SortedAll
<1>8. \A i, j \in 1 .. m : i <= j => raw[i].off <= raw[j].off BY <1>6, <1>7
<1> QED BY <1>1, <1>8 DEF raw, m

\* A base is a number.
LEMMA BaseNumber ==
  ASSUME NEW F, WellFormed(F), MoviSegments(F) # <<>>, NEW base \in Bases(F)
  PROVE  base \in Int
<1> DEFINE movi == MoviSegments(F)[1].from
<1>1. MoviSegments(F) \in Segments BY SegmentsApart
<1>2. 1 \in DOMAIN MoviSegments(F) BY <1>1, EmptySeq, LenProperties DEF Segments
<1>3. movi \in Nat BY <1>2, SegmentFrom
<1> HIDE DEF movi
<1> QED BY <1>3 DEF Bases, movi

\* An idx1 that lists all there is lists the chunks of a kind and stream that stand
\* in the primary RIFF, each once and in file order.
LEMMA PlacesInOrder ==
  ASSUME NEW F, WellFormed(F), MoviSegments(F) # <<>>, Itemized(F), HasIdx1(F), Uncut(F),
         NonDecreasing(Offsets(RawIdx1(F))), NEW base \in Bases(F),
         NEW k \in MediaIds, NEW t \in Streams
  PROVE  LET L == Places(F, k, t)
             O == InOrder(L)
             n == Cardinality(L)
         IN /\ L \subseteq Nat /\ IsFiniteSet(L) /\ O \in [1 .. n -> L] /\ n \in Nat
            /\ InOrder(SideBefore(F, k, t, PrimaryEnd(F)))
                 = [j \in 1 .. n |-> base + RawIdx1(F)[O[j]].off]
<1> DEFINE raw == RawIdx1(F)
           L == Places(F, k, t)
           O == InOrder(L)
           n == Cardinality(L)
           S == SideBefore(F, k, t, PrimaryEnd(F))
           m == Len(raw)
           f == [j \in 1 .. n |-> base + raw[O[j]].off]
<1>1. /\ DOMAIN raw = 1 .. m /\ m \in Nat
      /\ \A i \in 1 .. m : raw[i].off \in Nat
      /\ \A i, j \in 1 .. m : i <= j => raw[i].off <= raw[j].off
  BY OffsetsRise
<1>2. L \subseteq 1 .. m /\ L \subseteq Nat /\ IsFiniteSet(L)
  <2>1. L \subseteq 1 .. m BY <1>1 DEF Places
  <2>2. IsFiniteSet(1 .. m) BY <1>1, FS_Interval
  <2> HIDE DEF L, m
  <2>3. IsFiniteSet(L) BY <2>1, <2>2, FS_Subset
  <2> QED BY <2>1, <2>3
<1>3. {base + raw[i].off : i \in L} = S /\ \A i, j \in L : raw[i].off = raw[j].off => i = j
  BY DEF Itemized, Places, SideBefore
<1>4. /\ O \in [1 .. n -> L] /\ n \in Nat
      /\ \A i, j \in 1 .. n : i < j => O[i] < O[j]
      /\ \A a \in L : \E i \in 1 .. n : O[i] = a
  <2> HIDE DEF L
  <2>1. /\ O \in [1 .. n -> L] /\ n \in Nat
        /\ \A i, j \in DOMAIN O : i < j => O[i] < O[j]
        /\ \A a \in L : \E i \in DOMAIN O : O[i] = a
    BY <1>2, InOrderLists
  <2> HIDE DEF O, n
  <2> QED BY <2>1
<1>5. base \in Int BY BaseNumber
<1> HIDE DEF O, n, L, S, raw, m
<1>6. DOMAIN f = 1 .. n /\ \A j \in 1 .. n : O[j] \in L /\ f[j] = base + raw[O[j]].off
  BY <1>4
<1>7. f = [j \in 1 .. n |-> f[j]] OBVIOUS
<1> HIDE DEF f
<1>8. Ranks(f, n, S)
  <2>1. \A j \in 1 .. n : f[j] \in S BY <1>3, <1>6
  <2>2. ASSUME NEW i \in 1 .. n, NEW j \in 1 .. n, i < j PROVE f[i] < f[j]
    <3>1. O[i] < O[j] /\ O[i] \in L /\ O[j] \in L BY <1>4, <2>2
    <3>2. O[i] <= O[j] /\ O[i] # O[j]
      <4>1. O[i] \in Nat /\ O[j] \in Nat
        <5>1. \A x \in L : x \in Nat BY <1>2
        <5> QED BY <3>1, <5>1
      <4>2. \A x, y \in Nat : x < y => x <= y /\ x # y OBVIOUS
      <4> QED BY <3>1, <4>1, <4>2
    <3>3. raw[O[i]].off <= raw[O[j]].off /\ raw[O[i]].off # raw[O[j]].off
      BY <1>1, <1>2, <1>3, <3>1, <3>2
    <3>4. raw[O[i]].off \in Nat /\ raw[O[j]].off \in Nat BY <1>1, <1>2, <3>1
    <3>5. \A x, y \in Nat : x <= y /\ x # y => base + x < base + y BY <1>5
    <3>6. base + raw[O[i]].off < base + raw[O[j]].off BY <3>3, <3>4, <3>5
    <3> QED BY <1>6, <3>6
  <2>3. ASSUME NEW a \in S PROVE \E j \in 1 .. n : f[j] = a
    <3>1. PICK i \in L : a = base + raw[i].off BY <1>3
    <3>2. PICK j \in 1 .. n : O[j] = i BY <1>4
    <3> QED BY <1>6, <3>1, <3>2
  <2> QED BY <1>4, <2>1, <2>2, <2>3 DEF Ranks
<1>9. S \subseteq Nat /\ IsFiniteSet(S) BY SideNumbers DEF S
<1>10. InOrder(S) = f BY <1>7, <1>8, <1>9, InOrderIs
<1> QED BY <1>2, <1>4, <1>10 DEF f, S, O, n, L, raw

\* Where nothing of the file is missing and idx1 is in file order, open_avi finds
\* the side-band chunks of the primary RIFF, each once and in file order.
LEMMA EagerBodies ==
  ASSUME NEW F, WellFormed(F), MoviSegments(F) # <<>>, Honest(F), Itemized(F), HasIdx1(F),
         Uncut(F), NonDecreasing(Offsets(RawIdx1(F))), NEW k \in SideIds, NEW t \in Streams
  PROVE  ReadSidebandDataFromIdx1(F, RawIdx1(F), MoviSegments(F)[1].from)[k][t]
           = InOrder(SideBefore(F, k, t, PrimaryEnd(F)))
<1> DEFINE raw == RawIdx1(F)
           movi == MoviSegments(F)[1].from
           b == Idx1Base(F, raw, movi)
           L == Places(F, k, t)
           O == InOrder(L)
           n == Cardinality(L)
           readable(e) == b + e.off + 8 + e.len <= F.len
           I == {i \in DOMAIN raw : raw[i].id = k /\ raw[i].trk = t /\ readable(raw[i])}
           own == At(raw, I)
           f == [j \in DOMAIN own |-> b + own[j].off]
<1>1. PICK base \in Bases(F) : \A x \in Idx1Says(F, base) : True(F, x) BY DEF Honest
<1>2. base = 0 => \A x \in Idx1Says(F, base) : x.off # 0
  <2> SUFFICES ASSUME NEW x \in Idx1Says(F, base) PROVE x.off # 0
    OBVIOUS
  <2>1. x.off \in Standing(F, MoviSegments(F), MediaIds, x.trk) BY <1>1 DEF True
  <2>2. x.off \in Nat /\ x.off >= 12 BY <2>1, StandingFacts
  <2> QED BY <2>2
<1>3. k \in MediaIds BY DEF SideIds, MediaIds
<1>4. \A i \in L : b = base
  <2> SUFFICES ASSUME NEW i \in L PROVE b = base
    OBVIOUS
  <2>1. i \in DOMAIN RawIdx1(F) /\ PerStream(RawIdx1(F)[i]) /\ RawIdx1(F)[i].trk \in Streams
    BY <1>3 DEF Places, PerStream
  <2> QED BY <1>1, <1>2, <2>1, BaseOfEntry
<1>5. ReadSidebandDataFromIdx1(F, raw, movi)[k][t] = f
  BY DEF ReadSidebandDataFromIdx1, Kept, At
<1>6. I = L
  <2>1. \A i \in L : readable(raw[i]) BY <1>1, <1>4, ListedBody
  <2> QED BY <2>1 DEF Places
<1>7. /\ O \in [1 .. n -> L] /\ n \in Nat
      /\ InOrder(SideBefore(F, k, t, PrimaryEnd(F))) = [j \in 1 .. n |-> base + raw[O[j]].off]
  BY <1>3, PlacesInOrder
<1>8. f = [j \in 1 .. n |-> base + raw[O[j]].off]
  <2>1. own = [j \in DOMAIN O |-> raw[O[j]]] BY <1>6 DEF At
  <2> HIDE DEF own, O, n, L, raw, b
  <2>2. DOMAIN own = 1 .. n /\ \A j \in 1 .. n : own[j] = raw[O[j]] BY <1>7, <2>1
  <2>3. \A j \in 1 .. n : b = base BY <1>4, <1>7
  <2> QED BY <2>2, <2>3
<1> QED BY <1>5, <1>7, <1>8

\* What open_avi takes from idx1.
Eager(F) == ReadSidebandDataFromIdx1(F, RawIdx1(F), MoviSegments(F)[1].from)

\* Without one it collects nothing, and nothing stands before the reader.
LEMMA NoneGathered ==
  ASSUME NEW F, WellFormed(F), MoviSegments(F) # <<>>, ~HasIdx1(F),
         NEW r, r.pos = MoviSegments(F)[1].from,
         r.counts = ScanIdx1SidebandCounts(RawIdx1(F)), r.bodies = Eager(F)
  PROVE  Gathered(F, r)
<1> SUFFICES ASSUME NEW k \in SideIds, NEW t \in Streams
             PROVE  /\ r.bodies[k][t] = InOrder(SideBefore(F, k, t, r.pos))
                    /\ r.counts[k][t] = Len(r.bodies[k][t])
  BY DEF Gathered
<1> DEFINE M == MoviSegments(F)
           S == SideBefore(F, k, t, r.pos)
<1>1. RawIdx1(F) = <<>> BY DEF RawIdx1
<1>2. r.bodies[k][t] = <<>>
  <2> DEFINE raw == RawIdx1(F)
             b == Idx1Base(F, raw, M[1].from)
             I == {i \in DOMAIN raw : raw[i].id = k /\ raw[i].trk = t
                                      /\ b + raw[i].off + 8 + raw[i].len <= F.len}
             own == At(raw, I)
             f == [j \in DOMAIN own |-> b + own[j].off]
  <2>1. r.bodies[k][t] = f
    <3>1. r.bodies[k][t] = ReadSidebandDataFromIdx1(F, raw, M[1].from)[k][t] BY DEF Eager
    <3>2. ReadSidebandDataFromIdx1(F, raw, M[1].from)[k][t] = f
      BY DEF ReadSidebandDataFromIdx1, Kept, At
    <3> HIDE DEF f, raw, M
    <3> QED BY <3>1, <3>2
  <2>2. I = {} BY <1>1
  <2>3. DOMAIN own = {}
    <3>1. own = [j \in DOMAIN InOrder(I) |-> raw[InOrder(I)[j]]] BY DEF At
    <3>2. InOrder(I) = <<>> BY <2>2, InOrderNone
    <3> HIDE DEF own, I, raw
    <3> QED BY <3>1, <3>2
  <2> HIDE DEF own, I, raw, b
  <2>4. f = <<>> BY <2>3
  <2> QED BY <2>1, <2>4
<1>3. r.counts[k][t] = 0
  <2>1. r.counts[k][t]
          = Cardinality({i \in DOMAIN RawIdx1(F) : RawIdx1(F)[i].id = k /\ RawIdx1(F)[i].trk = t})
    BY DEF ScanIdx1SidebandCounts
  <2>2. {i \in DOMAIN RawIdx1(F) : RawIdx1(F)[i].id = k /\ RawIdx1(F)[i].trk = t} = {} BY <1>1
  <2> QED BY <2>1, <2>2, FS_EmptySet
<1>4. S = {}
  <2> SUFFICES ASSUME NEW at \in S PROVE FALSE
    OBVIOUS
  <2>1. at \in Standing(F, M, {k}, t) /\ at < M[1].from BY DEF SideBefore
  <2>2. PICK i \in DOMAIN M : M[i].from <= at BY <2>1 DEF Standing
  <2>3. at \in Nat BY <2>1, StandingFacts
  <2>4. M \in Segments /\ Apart(M, F.len) BY SegmentsApart
  <2>5. M[1].from <= M[i].from
    <3>3. \A j \in DOMAIN M : M[j].from \in Nat /\ M[j].to \in Nat BY SegmentFrom
    <3> HIDE DEF M
    <3>1. DOMAIN M = 1 .. Len(M) /\ Len(M) \in Nat BY <2>4, LenProperties DEF Segments
    <3>2. 1 \in DOMAIN M /\ (i = 1 \/ 1 < i) BY <2>2, <3>1
    <3> DEFINE x == M[1].from
               y == M[1].to
               z == M[i].from
    <3>4. x \in Nat /\ y \in Nat /\ z \in Nat /\ x <= y + 11 BY <2>4, <3>2, <3>3 DEF Apart
    <3>5. i = 1 => x = z OBVIOUS
    <3>6. 1 < i => y + 12 <= z BY <2>4, <3>2 DEF Apart
    <3> HIDE DEF x, y, z
    <3>7. x <= z BY <3>2, <3>4, <3>5, <3>6
    <3> QED BY <3>7 DEF x, z
  <2>6. M[1].from \in Nat /\ M[i].from \in Nat
    <3>1. 1 \in DOMAIN M BY <2>4, EmptySeq, LenProperties DEF Segments
    <3> QED BY <3>1, SegmentFrom
  <2> HIDE DEF M
  <2> QED BY <2>1, <2>2, <2>3, <2>5, <2>6
<1> QED BY <1>2, <1>3, <1>4, InOrderNone

-----------------------------------------------------------------------------
(* The side-band chunks are kept once                                      *)

ItemizedFiles == \A F \in Files : MoviSegments(F) # <<>> => Itemized(F)

\* What open_avi has taken stays, and where it has taken nothing next_packet has
\* taken all it passed, until a seek lands.
SideOK ==
  d.open =>
    /\ d.eager = HasIdx1(file)
    /\ d.eager => d.bodies = Eager(file)
    /\ ~d.eager /\ asked = NotAsked => Gathered(file, d)
SideInv == SInv /\ SideOK

\* open_avi collects what idx1 lists.
LEMMA SideInit ==
  ASSUME OrderlyFiles, Init
  PROVE  SideInv
<1>1. SInv BY SInvInit
<1>2. SideOK
  <2> SUFFICES ASSUME d.open PROVE SideOK
    BY DEF SideOK
  <2>1. /\ WellFormed(file) /\ d \in Good(file) /\ Len(d.movi) # 0 /\ d = Open(file)
    BY <1>1, OpenFacts DEF Init
  <2>2. Open(file) # Closed BY <2>1 DEF Closed
  <2>3. MoviSegments(file) # <<>>
    <3>1. d.movi = MoviSegments(file) /\ d.movi \in Segments BY <2>1, ReaderFields
    <3> QED BY <2>1, <3>1, EmptySeq DEF Segments
  <2>4. /\ d.eager = HasIdx1(file) /\ d.bodies = Eager(file)
        /\ d.pos = MoviSegments(file)[1].from
        /\ d.counts = ScanIdx1SidebandCounts(RawIdx1(file))
    BY <2>1, <2>2 DEF Open, Eager
  <2>5. ~HasIdx1(file) => Gathered(file, d) BY <2>1, <2>3, <2>4, NoneGathered
  <2> QED BY <2>4, <2>5 DEF SideOK
<1> QED BY <1>1, <1>2 DEF SideInv

\* next_packet collects the rest where open_avi has collected nothing.
LEMMA SideNextPacket ==
  ASSUME OrderlyFiles, SideInv, NextPacket
  PROVE  SideOK'
<1> DEFINE q == ReadPacket(file, d)
<1>1. d.open /\ d' = q /\ UNCHANGED <<file, list, asked>> BY DEF NextPacket
<1>2. /\ WellFormed(file) /\ BackToBack(file) /\ Contained(file)
      /\ d \in Good(file) /\ OnPath(file, d)
  BY <1>1, OpenFacts DEF SideInv
<1>3. Collected(file, d, q) BY <1>2, ReadPacketCollects
<1> HIDE DEF q
<1>4. /\ d.eager = HasIdx1(file) /\ (d.eager => d.bodies = Eager(file))
      /\ (~d.eager /\ asked = NotAsked => Gathered(file, d))
  BY <1>1 DEF SideInv, SideOK
<1>5. /\ q.eager = HasIdx1(file) /\ (q.eager => q.bodies = Eager(file))
      /\ (~q.eager /\ asked = NotAsked => Gathered(file, q))
  BY <1>3, <1>4 DEF Collected
<1> QED BY <1>1, <1>5 DEF SideOK

\* A seek collects nothing.
LEMMA SideSeek ==
  ASSUME OrderlyFiles, SideInv, Seeks
  PROVE  SideOK'
<1>1. PICK how, t, target, q :
        /\ how \in {"seek_to", "std", "after"}
        /\ SeekOutcome(file, d, q, how, t, target) /\ Sought(q, how, t, target)
  BY DEF Seeks
<1>2. d.open /\ d' = q /\ UNCHANGED <<file, list>>
      /\ asked' = IF q.got.kind = "landed"
                  THEN [how |-> how, trk |-> t, target |-> target] ELSE asked
  BY <1>1 DEF Seeks, Sought
<1>3. q.eager = d.eager /\ q.counts = d.counts /\ q.bodies = d.bodies
  BY <1>1 DEF SeekOutcome, SameSideband
<1>4. /\ d.eager = HasIdx1(file) /\ (d.eager => d.bodies = Eager(file))
      /\ (~d.eager /\ asked = NotAsked => Gathered(file, d))
  BY <1>2 DEF SideInv, SideOK
<1>5. CASE Unmoved(d, q)
  <2>1. q.got = Refused /\ q.pos = d.pos BY <1>5 DEF Unmoved
  <2>2. q.got.kind = "refused" BY <2>1 DEF Refused
  <2>3. asked' = asked BY <1>2, <2>2
  <2>4. Gathered(file, d) => Gathered(file, q) BY <1>3, <2>1 DEF Gathered
  <2> QED BY <1>2, <1>3, <1>4, <2>3, <2>4 DEF SideOK
<1>6. CASE ~Unmoved(d, q)
  <2>1. q.got.kind = "landed" BY <1>1, <1>6 DEF SeekOutcome, LandsWell, LandedOn
  <2>2. asked' = [how |-> how, trk |-> t, target |-> target] BY <1>2, <2>1
  <2>3. asked' # NotAsked BY <1>1, <2>2 DEF NotAsked
  <2> QED BY <1>2, <1>3, <1>4, <2>3 DEF SideOK
<1> QED BY <1>5, <1>6

\* Every step keeps the invariant.
LEMMA SideNext ==
  ASSUME OrderlyFiles, SideInv, [Next]_vars
  PROVE  SideInv'
<1>1. SInv' BY SInvNext DEF SideInv
<1>2. CASE NextPacket BY <1>1, <1>2, SideNextPacket DEF SideInv
<1>3. CASE Seeks BY <1>1, <1>3, SideSeek DEF SideInv
<1>4. CASE UNCHANGED vars
  <2>1. SideOK' BY <1>4 DEF vars, SideInv, SideOK
  <2> QED BY <1>1, <2>1 DEF SideInv
<1> QED BY <1>2, <1>3, <1>4, NextCases DEF SideInv, SInv

\* The invariant says what each chunk was kept for.
LEMMA SideKept ==
  ASSUME OrderlyFiles, ItemizedFiles, SideInv
  PROVE  SidebandOnce
<1> SUFFICES ASSUME d.open, NEW k \in SideIds, NEW t \in Streams
             PROVE  /\ d.eager /\ Whole /\ Ordered =>
                         d.bodies[k][t] = InOrder(Primary(SideOf({k}, t)))
                    /\ ~d.eager /\ asked = NotAsked =>
                         /\ d.bodies[k][t] = InOrder({at \in SideOf({k}, t) : at < d.pos})
                         /\ d.counts[k][t] = Len(d.bodies[k][t])
  BY DEF SidebandOnce
<1>1. /\ WellFormed(file) /\ Honest(file) /\ d \in Good(file) /\ Len(d.movi) # 0
      /\ file \in Files
  <2>1. SInv BY DEF SideInv
  <2>2. DInv BY <2>1 DEF SInv
  <2> QED BY <2>1, <2>2, OpenFacts, OpenReader DEF DInv
<1>2. d.movi = MoviSegments(file) /\ MoviSegments(file) # <<>>
  <2>1. d.movi = MoviSegments(file) /\ d.movi \in Segments BY <1>1, ReaderFields
  <2> QED BY <1>1, <2>1, EmptySeq DEF Segments
<1>3. /\ d.eager = HasIdx1(file) /\ (d.eager => d.bodies = Eager(file))
      /\ (~d.eager /\ asked = NotAsked => Gathered(file, d))
  BY DEF SideInv, SideOK
<1>4. Itemized(file) BY <1>1, <1>2 DEF ItemizedFiles
<1>5. ASSUME d.eager, Whole, Ordered
      PROVE  d.bodies[k][t] = InOrder(Primary(SideOf({k}, t)))
  <2>1. HasIdx1(file) /\ Uncut(file) /\ NonDecreasing(Offsets(RawIdx1(file)))
    BY <1>3, <1>5 DEF Whole, Ordered
  <2>2. Eager(file)[k][t] = InOrder(SideBefore(file, k, t, PrimaryEnd(file)))
    BY <1>1, <1>2, <1>4, <2>1, EagerBodies DEF Eager
  <2>3. Primary(SideOf({k}, t)) = SideBefore(file, k, t, PrimaryEnd(file))
    BY <1>2 DEF Primary, SideOf, SideBefore
  <2>4. d.bodies = Eager(file) BY <1>3, <1>5
  <2> QED BY <2>2, <2>3, <2>4
<1>6. ASSUME ~d.eager, asked = NotAsked
      PROVE  /\ d.bodies[k][t] = InOrder({at \in SideOf({k}, t) : at < d.pos})
             /\ d.counts[k][t] = Len(d.bodies[k][t])
  <2>1. Gathered(file, d) BY <1>3, <1>6
  <2>2. {at \in SideOf({k}, t) : at < d.pos} = SideBefore(file, k, t, d.pos)
    BY <1>2 DEF SideOf, SideBefore
  <2> QED BY <2>1, <2>2 DEF Gathered
<1> QED BY <1>5, <1>6

\* Every side-band body is kept exactly once, over every order of reads and seeks
\* and however the chunks are spread over segments and clusters: what idx1 lists
\* open_avi has collected, in file order, and no read adds to it, from wherever
\* seeks have put the reader; without an idx1 the reads collect and count the
\* chunks as they pass them, until a seek lands.
THEOREM SidebandHolds ==
  ASSUME OrderlyFiles, ItemizedFiles
  PROVE  Spec => []SidebandOnce
<1>1. Init => SideInv BY SideInit
<1>2. SideInv /\ [Next]_vars => SideInv' BY SideNext
<1>3. SideInv => SidebandOnce BY SideKept
<1> QED BY <1>1, <1>2, <1>3, PTL DEF Spec

-----------------------------------------------------------------------------
(* The palettes: which changes are in force                                *)

\* Sets that a function pairs off have the same size.
LEMMA SameSize ==
  ASSUME NEW S, IsFiniteSet(S), NEW T, NEW f \in [S -> T],
         \A x, y \in S : f[x] = f[y] => x = y, \A y \in T : \E x \in S : f[x] = y
  PROVE  IsFiniteSet(T) /\ Cardinality(T) = Cardinality(S)
<1>1. f \in Bijection(S, T) BY DEF Bijection, Injection, Surjection, IsInjective
<1>2. ExistsBijection(S, T) BY <1>1 DEF ExistsBijection
<1> QED BY <1>2, FS_Bijection

\* No more members lie below b than below the member a exactly if b is the lower.
LEMMA CountBelow ==
  ASSUME NEW S, S \subseteq Nat, IsFiniteSet(S), NEW a \in S, NEW b \in Nat, b # a
  PROVE  Cardinality({x \in S : x < b}) <= Cardinality({x \in S : x < a}) <=> b < a
<1> DEFINE A == {x \in S : x < a}
           B == {x \in S : x < b}
<1>1. \A T \in SUBSET S : IsFiniteSet(T) /\ Cardinality(T) \in Nat
  BY FS_Subset, FS_CardinalityType
<1>2. A \in SUBSET S /\ B \in SUBSET S /\ a \notin A /\ \A x \in S : x \in Nat OBVIOUS
<1>3. CASE b < a
  <2>1. B \subseteq A
    <3> SUFFICES ASSUME NEW x \in S, x < b PROVE x < a
      OBVIOUS
    <3>1. x \in Nat /\ a \in Nat OBVIOUS
    <3> QED BY <1>3, <3>1
  <2> HIDE DEF A, B
  <2>2. Cardinality(B) <= Cardinality(A) BY <1>1, <1>2, <2>1, FS_Subset
  <2> QED BY <1>3, <2>2 DEF A, B
<1>4. CASE ~(b < a)
  <2>1. a < b /\ a \in Nat BY <1>4
  <2>2. A \subseteq B
    <3> SUFFICES ASSUME NEW x \in S, x < a PROVE x < b
      OBVIOUS
    <3>1. x \in Nat OBVIOUS
    <3> QED BY <2>1, <3>1
  <2>3. a \in B BY <2>1
  <2> HIDE DEF A, B
  <2>4. Cardinality(A) <= Cardinality(B) /\ Cardinality(A) # Cardinality(B)
    BY <1>1, <1>2, <2>2, <2>3, FS_Subset
  <2>5. ~(Cardinality(B) <= Cardinality(A)) BY <1>1, <1>2, <2>4
  <2> QED BY <1>4, <2>5 DEF A, B
<1> QED BY <1>3, <1>4

\* The packets of a stream before a chunk of another kind that idx1 lists are as
\* many as the entries before its own.
LEMMA EntriesBefore ==
  ASSUME NEW F, WellFormed(F), MoviSegments(F) # <<>>, Itemized(F), HasIdx1(F), Uncut(F),
         NonDecreasing(Offsets(RawIdx1(F))), NEW base \in Bases(F),
         NEW t \in Streams, NEW i \in Places(F, "pc", t)
  PROVE  LET at == base + RawIdx1(F)[i].off IN
         /\ at \in SideBefore(F, "pc", t, PrimaryEnd(F))
         /\ Cardinality({j \in Places(F, "data", t) : j < i})
              = Cardinality({b \in OwnPackets(F, t) : b < at})
<1> DEFINE raw == RawIdx1(F)
           at == base + raw[i].off
           D == Places(F, "data", t)
           J == {j \in D : j < i}
           own == OwnPackets(F, t)
           T == {b \in own : b < at}
           f == [j \in J |-> base + raw[j].off]
<1>1. /\ \A x \in DOMAIN raw : x \in Nat /\ raw[x].off \in Nat
      /\ \A x, y \in DOMAIN raw : x <= y => raw[x].off <= raw[y].off
  BY OffsetsRise
<1>2. base \in Int BY BaseNumber
<1>3. "pc" \in MediaIds /\ "data" \in MediaIds BY DEF MediaIds
<1>4. /\ {base + raw[x].off : x \in Places(F, "pc", t)} = SideBefore(F, "pc", t, PrimaryEnd(F))
      /\ {base + raw[x].off : x \in D} = SideBefore(F, "data", t, PrimaryEnd(F))
      /\ \A x, y \in D : raw[x].off = raw[y].off => x = y
  BY <1>3 DEF Itemized, Places, SideBefore
<1>5. D \subseteq Nat /\ IsFiniteSet(D)
  <2> HIDE DEF D
  <2> QED BY <1>3, PlacesInOrder DEF D
<1>6. \A x \in D : x \in DOMAIN raw /\ x \in Nat BY <1>1 DEF Places
<1>7. i \in DOMAIN raw BY DEF Places
<1>8. at \in SideBefore(F, "pc", t, PrimaryEnd(F)) BY <1>4
<1>9. /\ at \in Nat /\ F.disk[at].id = "pc" /\ at < PrimaryEnd(F)
      /\ \A b \in own : b \in Nat /\ F.disk[b].id = "data"
  <2>1. at \in Standing(F, MoviSegments(F), {"pc"}, t) /\ at < PrimaryEnd(F)
    BY <1>8 DEF SideBefore
  <2>2. at \in Nat BY <2>1, StandingFacts
  <2>3. \A b \in own : b \in Nat BY StandingFacts DEF OwnPackets
  <2> QED BY <2>1, <2>2, <2>3 DEF Standing, OwnPackets
<1>10. SideBefore(F, "data", t, PrimaryEnd(F)) = {b \in own : b < PrimaryEnd(F)}
  BY DEF SideBefore, OwnPackets
<1>11. PrimaryEnd(F) \in Int BY PrimaryEndType
<1> HIDE DEF raw, D, own
<1>12. ASSUME NEW j \in D
       PROVE  /\ base + raw[j].off \in own
              /\ j < i <=> base + raw[j].off < at
  <2> DEFINE x == raw[j].off
             y == raw[i].off
  <2>1. base + raw[j].off \in own BY <1>4, <1>10
  <2>2. base + raw[j].off # at BY <1>9, <2>1
  <2>3. /\ j \in Nat /\ i \in Nat /\ x \in Nat /\ y \in Nat
        /\ (j <= i => x <= y) /\ (i <= j => y <= x) /\ base + x # base + y
    BY <1>1, <1>6, <1>7, <2>2
  <2> HIDE DEF x, y
  <2>4. j < i <=> base + x < base + y BY <1>2, <2>3
  <2> QED BY <2>1, <2>4 DEF x, y
<1> HIDE DEF at
<1>13. f \in [J -> T] BY <1>12
<1>14. \A x, y \in J : f[x] = f[y] => x = y
  <2> SUFFICES ASSUME NEW x \in J, NEW y \in J, f[x] = f[y] PROVE x = y
    OBVIOUS
  <2>1. x \in D /\ y \in D /\ base + raw[x].off = base + raw[y].off OBVIOUS
  <2>2. raw[x].off \in Nat /\ raw[y].off \in Nat BY <1>1, <1>6, <2>1
  <2>3. raw[x].off = raw[y].off BY <1>2, <2>1, <2>2
  <2> QED BY <1>4, <2>1, <2>3
<1>15. \A b \in T : \E x \in J : f[x] = b
  <2> SUFFICES ASSUME NEW b \in own, b < at PROVE \E x \in J : f[x] = b
    OBVIOUS
  <2>1. b < PrimaryEnd(F) BY <1>9, <1>11
  <2>2. b \in SideBefore(F, "data", t, PrimaryEnd(F)) BY <1>10, <2>1
  <2>3. PICK x \in D : b = base + raw[x].off BY <1>4, <2>2
  <2>4. x \in J BY <1>12, <2>3
  <2> QED BY <2>3, <2>4
<1>16. IsFiniteSet(J)
  <2>1. J \in SUBSET D OBVIOUS
  <2> HIDE DEF J
  <2> QED BY <1>5, <2>1, FS_Subset
<1> HIDE DEF J, T, f
<1>17. Cardinality(T) = Cardinality(J) BY <1>13, <1>14, <1>15, <1>16, SameSize
<1> QED BY <1>8, <1>17 DEF J, T, D, own, at, raw

\* The position of a palette change is the number of packets of its stream before it
\* in the file.
LEMMA PositionsAre ==
  ASSUME NEW F, WellFormed(F), MoviSegments(F) # <<>>, Honest(F), Itemized(F), HasIdx1(F),
         Uncut(F), NonDecreasing(Offsets(RawIdx1(F))), NEW t \in Streams
  PROVE  LET B == InOrder(SideBefore(F, "pc", t, PrimaryEnd(F)))
             P == PositionsOf(F)[t]
         IN /\ DOMAIN P = DOMAIN B
            /\ \A n \in DOMAIN B : P[n] = Cardinality({b \in OwnPackets(F, t) : b < B[n]})
<1> DEFINE raw == RawIdx1(F)
           L == Places(F, "pc", t)
           O == InOrder(L)
           n == Cardinality(L)
           B == InOrder(SideBefore(F, "pc", t, PrimaryEnd(F)))
           P == PositionsOf(F)[t]
           before(i) == {j \in 1 .. i - 1 : /\ raw[j].trk = t
                                            /\ PerStream(raw[j]) /\ raw[j].id \notin SideIds}
<1>1. PICK base \in Bases(F) : TRUE BY DEF Honest
<1>2. O \in [1 .. n -> L] /\ n \in Nat /\ B = [j \in 1 .. n |-> base + raw[O[j]].off]
  <2>1. "pc" \in MediaIds BY DEF MediaIds
  <2> QED BY <2>1, PlacesInOrder
<1>3. P = [j \in DOMAIN O |-> Cardinality(before(O[j]))]
  BY DEF PositionsOf, ComputePaletteChangePositions, Places
<1>4. ASSUME NEW i \in L PROVE before(i) = {j \in Places(F, "data", t) : j < i}
  <2>1. Len(raw) \in Nat /\ DOMAIN raw = 1 .. Len(raw) BY OffsetsRise
  <2>2. i \in 1 .. Len(raw) BY <2>1 DEF Places
  <2>3. ASSUME NEW j PROVE j \in 1 .. i - 1 <=> j \in DOMAIN raw /\ j < i BY <2>1, <2>2
  <2>4. \A j : PerStream(raw[j]) /\ raw[j].id \notin SideIds <=> raw[j].id = "data"
    BY DEF PerStream, MediaIds, SideIds
  <2> HIDE DEF raw
  <2>5. before(i) = {j \in DOMAIN raw : j < i /\ raw[j].trk = t /\ raw[j].id = "data"}
    BY <2>3, <2>4
  <2> QED BY <2>5 DEF Places, raw
<1>5. ASSUME NEW i \in L
      PROVE  Cardinality({j \in Places(F, "data", t) : j < i})
               = Cardinality({b \in OwnPackets(F, t) : b < base + raw[i].off})
  BY EntriesBefore
<1> HIDE DEF O, n, L, raw, B, P, before
<1>6. DOMAIN P = 1 .. n /\ DOMAIN B = 1 .. n BY <1>2, <1>3
<1>7. ASSUME NEW j \in 1 .. n PROVE P[j] = Cardinality({b \in OwnPackets(F, t) : b < B[j]})
  <2>1. O[j] \in L /\ B[j] = base + raw[O[j]].off BY <1>2
  <2>2. P[j] = Cardinality(before(O[j])) BY <1>2, <1>3
  <2> QED BY <1>4, <1>5, <2>1, <2>2
<1> QED BY <1>6, <1>7 DEF B, P

\* A packet's number in its stream is the number of packets of the stream before it.
LEMMA PacketNumber ==
  ASSUME NEW F, WellFormed(F), NEW L, Lists(L, F), NEW i \in DOMAIN L, NEW t, L[i].trk = t
  PROVE  /\ Cardinality({j \in {k \in DOMAIN L : L[k].trk = t} : j < i})
              = Cardinality({b \in OwnPackets(F, t) : b < L[i].at})
         /\ L[i].at \in OwnPackets(F, t) /\ t \in Streams
<1> DEFINE own == OwnPackets(F, t)
           J == {j \in {k \in DOMAIN L : L[k].trk = t} : j < i}
           T == {b \in own : b < L[i].at}
           f == [j \in J |-> L[j].at]
<1>1. ASSUME NEW j \in DOMAIN L, L[j].trk = t PROVE L[j].at \in own /\ t \in Streams
  <2>1. L[j].at \in Packets(F) /\ F.disk[L[j].at].trk = t BY <1>1 DEF Lists
  <2> QED BY <2>1 DEF Packets, OwnPackets, Standing
<1>2. \A b \in own : b \in Packets(F) /\ F.disk[b].trk = t
  BY <1>1 DEF Packets, OwnPackets, Standing
<1>3. /\ \A j \in DOMAIN L : j \in Nat /\ L[j].at \in Nat
      /\ \A j, k \in DOMAIN L : j < k => L[j].at < L[k].at
      /\ \A b \in Packets(F) : \E k \in DOMAIN L : L[k].at = b
      /\ \A k \in DOMAIN L : L[k].trk = F.disk[L[k].at].trk
      /\ Len(L) \in Nat /\ DOMAIN L = 1 .. Len(L)
  BY PacketFacts DEF Lists
<1>4. \A j, k \in DOMAIN L : j < k <=> L[j].at < L[k].at
  <2> SUFFICES ASSUME NEW j \in DOMAIN L, NEW k \in DOMAIN L PROVE j < k <=> L[j].at < L[k].at
    OBVIOUS
  <2>1. /\ j \in Nat /\ k \in Nat /\ L[j].at \in Nat /\ L[k].at \in Nat
        /\ (j < k => L[j].at < L[k].at) /\ (k < j => L[k].at < L[j].at)
    BY <1>3
  <2> QED BY <2>1
<1> HIDE DEF own
<1>5. f \in [J -> T] BY <1>1, <1>4
<1>6. \A x, y \in J : f[x] = f[y] => x = y
  <2> SUFFICES ASSUME NEW x \in DOMAIN L, NEW y \in DOMAIN L, L[x].at = L[y].at PROVE x = y
    OBVIOUS
  <2>1. ~(x < y) /\ ~(y < x) /\ x \in Nat /\ y \in Nat BY <1>3, <1>4
  <2> QED BY <2>1
<1>7. \A b \in T : \E x \in J : f[x] = b
  <2> SUFFICES ASSUME NEW b \in own, b < L[i].at PROVE \E x \in J : f[x] = b
    OBVIOUS
  <2>1. PICK k \in DOMAIN L : L[k].at = b BY <1>2, <1>3
  <2>2. L[k].trk = t /\ k < i BY <1>2, <1>3, <1>4, <2>1
  <2> QED BY <2>1, <2>2
<1>8. IsFiniteSet(J)
  <2>1. 1 \in Int /\ Len(L) \in Int BY <1>3
  <2>2. IsFiniteSet(1 .. Len(L)) BY ONLY <2>1, FS_Interval
  <2>3. J \in SUBSET (1 .. Len(L)) BY <1>3
  <2> HIDE DEF J
  <2> QED BY <2>2, <2>3, FS_Subset
<1>9. L[i].at \in own /\ t \in Streams BY <1>1
<1> HIDE DEF J, T, f
<1>10. Cardinality(T) = Cardinality(J) BY <1>5, <1>6, <1>7, <1>8, SameSize
<1> QED BY <1>9, <1>10 DEF J, T, own

\* The changes before a packet of the primary RIFF are those whose position is at
\* most the packet's number in its stream: the first ones.
LEMMA InForce ==
  ASSUME NEW F, WellFormed(F), MoviSegments(F) # <<>>, Honest(F), Itemized(F), HasIdx1(F),
         Uncut(F), NonDecreasing(Offsets(RawIdx1(F))), NEW t \in Streams,
         NEW a \in OwnPackets(F, t)
  PROVE  LET B == InOrder(SideBefore(F, "pc", t, PrimaryEnd(F)))
             P == PositionsOf(F)[t]
             seq == Cardinality({b \in OwnPackets(F, t) : b < a})
             n == Cardinality({i \in DOMAIN P : P[i] <= seq})
         IN n \in Nat /\ \A i \in DOMAIN B : B[i] < a <=> i <= n
<1> DEFINE S == SideBefore(F, "pc", t, PrimaryEnd(F))
           B == InOrder(S)
           m == Cardinality(S)
           P == PositionsOf(F)[t]
           own == OwnPackets(F, t)
           seq == Cardinality({b \in own : b < a})
           I == {i \in DOMAIN P : P[i] <= seq}
           n == Cardinality(I)
<1>1. /\ DOMAIN P = DOMAIN B
      /\ \A i \in DOMAIN B : P[i] = Cardinality({b \in own : b < B[i]})
  BY PositionsAre
<1>2. S \subseteq Nat /\ IsFiniteSet(S) BY SideNumbers
<1>3. /\ B \in [1 .. m -> S] /\ m \in Nat
      /\ \A i, j \in DOMAIN B : i < j => B[i] < B[j]
  <2> HIDE DEF S
  <2> QED BY <1>2, InOrderLists
<1>4. own \subseteq Nat /\ IsFiniteSet(own)
  <2>1. own \in SUBSET DOMAIN F.disk BY DEF OwnPackets, Standing
  <2>2. DOMAIN F.disk \subseteq Nat /\ IsFiniteSet(DOMAIN F.disk) BY DEF WellFormed
  <2> HIDE DEF own
  <2> QED BY <2>1, <2>2, FS_Subset
<1>5. \A b \in S : b \in Nat /\ b # a
  <2>1. \A b \in S : F.disk[b].id = "pc" BY DEF SideBefore, Standing
  <2>2. F.disk[a].id = "data" BY DEF OwnPackets, Standing
  <2> HIDE DEF S
  <2> QED BY <1>2, <2>1, <2>2
<1> HIDE DEF S, B, m, P, own
<1>6. ASSUME NEW i \in 1 .. m PROVE P[i] <= seq <=> B[i] < a
  <2> DEFINE x == B[i]
  <2>1. x \in Nat /\ x # a /\ P[i] = Cardinality({b \in own : b < x}) BY <1>1, <1>3, <1>5
  <2>2. a \in own BY DEF own
  <2> HIDE DEF x
  <2>3. Cardinality({b \in own : b < x}) <= Cardinality({b \in own : b < a}) <=> x < a
    BY <1>4, <2>1, <2>2, CountBelow
  <2> QED BY <2>1, <2>3 DEF x
<1> HIDE DEF seq
<1>7. DOMAIN P = 1 .. m BY <1>1, <1>3
<1>8. \A i \in I, j \in 1 .. m : j < i => j \in I
  <2> SUFFICES ASSUME NEW i \in I, NEW j \in 1 .. m, j < i PROVE j \in I
    OBVIOUS
  <2>1. i \in 1 .. m /\ B[i] < a BY <1>6, <1>7
  <2>2. B[j] < B[i] BY <1>3, <2>1
  <2>3. B[i] \in Nat /\ B[j] \in Nat /\ a \in Nat
    <3>1. a \in own BY DEF own
    <3> QED BY <1>3, <1>4, <1>5, <2>1, <3>1
  <2>4. B[j] < a BY <2>1, <2>2, <2>3
  <2> QED BY <1>6, <1>7, <2>4
<1>9. I \in SUBSET (1 .. m) BY <1>7
<1>10. \A i \in 1 .. m : i \in I <=> B[i] < a BY <1>6, <1>7
<1> HIDE DEF I
<1>11. n \in Nat /\ I = 1 .. n BY <1>3, <1>8, <1>9, FirstNumbers
<1>12. DOMAIN B = 1 .. m BY <1>3
<1>13. \A i \in 1 .. m : B[i] < a <=> i <= n BY <1>3, <1>10, <1>11
<1> QED BY <1>11, <1>12, <1>13 DEF I, n, B, S, P, own, seq

\* The first numbers in order.
LEMMA FirstInOrder ==
  ASSUME NEW n \in Nat
  PROVE  InOrder(1 .. n) = [i \in 1 .. n |-> i]
<1> DEFINE f == [i \in 1 .. n |-> i]
<1>1. Ranks(f, n, 1 .. n) BY DEF Ranks
<1>2. f = [i \in 1 .. n |-> f[i]] OBVIOUS
<1>3. IsFiniteSet(1 .. n) /\ 1 .. n \subseteq Nat BY FS_Interval
<1> HIDE DEF f
<1>4. InOrder(1 .. n) = f BY <1>1, <1>2, <1>3, InOrderIs
<1> QED BY <1>4 DEF f

\* Where no change that does not parse stands before one that does, the typed
\* changes are the first of them.
LEMMA FirstParse ==
  ASSUME NEW m \in Nat, NEW cells, DOMAIN cells = 1 .. m,
         \A i, j \in 1 .. m : i < j /\ Parsed(cells[j]) => Parsed(cells[i])
  PROVE  \E p \in Nat : /\ p <= m
                        /\ Kept(cells, Parsed) = [i \in 1 .. p |-> cells[i]]
                        /\ \A i \in 1 .. m : Parsed(cells[i]) <=> i <= p
<1> DEFINE I == {i \in DOMAIN cells : Parsed(cells[i])}
           p == Cardinality(I)
<1>1. I \in SUBSET (1 .. m) OBVIOUS
<1>2. \A i \in I, j \in 1 .. m : j < i => j \in I OBVIOUS
<1>3. Kept(cells, Parsed) = [n \in DOMAIN InOrder(I) |-> cells[InOrder(I)[n]]] BY DEF Kept
<1>4. \A i \in 1 .. m : i \in I <=> Parsed(cells[i]) OBVIOUS
<1> HIDE DEF I
<1>5. p \in Nat /\ I = 1 .. p BY <1>1, <1>2, FirstNumbers
<1> HIDE DEF p
<1>6. InOrder(I) = [i \in 1 .. p |-> i] BY <1>5, FirstInOrder
<1>7. Kept(cells, Parsed) = [i \in 1 .. p |-> cells[i]]
  <2> DEFINE O == InOrder(I)
  <2>1. DOMAIN O = 1 .. p /\ \A i \in 1 .. p : O[i] = i BY <1>6
  <2> HIDE DEF O
  <2>2. [n \in DOMAIN O |-> cells[O[n]]] = [i \in 1 .. p |-> cells[i]] BY <2>1
  <2> QED BY <1>3, <2>2 DEF O
<1>8. p <= m
  <2>1. p = 0 \/ p \in I BY <1>5
  <2> QED BY <1>1, <1>5, <2>1
<1>9. \A i \in 1 .. m : Parsed(cells[i]) <=> i <= p BY <1>4, <1>5
<1> QED BY <1>5, <1>7, <1>8, <1>9

-----------------------------------------------------------------------------
(* The palettes: changes written one over the other                        *)

Colours == STRING \cup {Black}

\* Change c gives colour k.
Gives(c, k) == k - c.base \in DOMAIN c.ents
Change(c) == c.base \in Nat /\ c.ents \in Seq(STRING)

\* A finite set of numbers holds its maximum.
LEMMA MaxOf ==
  ASSUME NEW S, S \subseteq Nat, S # {}, IsFiniteSet(S)
  PROVE  Max(S) \in S /\ \A i \in S : i <= Max(S)
<1>1. \E m \in S : \A i \in S : i <= m BY MostOf
<1>2. \E m \in S : \A i \in S : m >= i BY <1>1
<1>3. Max(S) \in S /\ \A i \in S : Max(S) >= i BY <1>2 DEF Max
<1> QED BY <1>3

\* What a change makes of a table.
LEMMA AppliedFacts ==
  ASSUME NEW T \in Seq(Colours), NEW c, Change(c)
  PROVE  /\ Applied(T, c) \in Seq(Colours)
         /\ DOMAIN T \subseteq DOMAIN Applied(T, c)
         /\ \A k \in Nat : Gives(c, k) =>
              k \in DOMAIN Applied(T, c) /\ Applied(T, c)[k] = c.ents[k - c.base]
         /\ \A k \in DOMAIN Applied(T, c) : ~Gives(c, k) =>
              Applied(T, c)[k] = IF k \in DOMAIN T THEN T[k] ELSE Black
<1> DEFINE l == Len(T)
           e == Len(c.ents)
           b == c.base
           S == {l} \cup {b + k : k \in DOMAIN c.ents}
           n == Max(S)
           A == Applied(T, c)
           hue(i) == IF i \in b + 1 .. b + e THEN c.ents[i - b]
                     ELSE IF i \in DOMAIN T THEN T[i] ELSE Black
<1>1. /\ l \in Nat /\ DOMAIN T = 1 .. l /\ \A i \in 1 .. l : T[i] \in Colours
      /\ e \in Nat /\ DOMAIN c.ents = 1 .. e /\ \A i \in 1 .. e : c.ents[i] \in Colours
      /\ b \in Nat
  <2>1. l \in Nat /\ DOMAIN T = 1 .. l /\ \A i \in 1 .. l : T[i] \in Colours
    BY LenProperties, ElementOfSeq
  <2>2. c.ents \in Seq(STRING) /\ b \in Nat BY DEF Change
  <2>3. e \in Nat /\ DOMAIN c.ents = 1 .. e /\ \A i \in 1 .. e : c.ents[i] \in STRING
    BY <2>2, LenProperties, ElementOfSeq
  <2> QED BY <2>1, <2>2, <2>3 DEF Colours
<1>2. A = [i \in 1 .. n |-> hue(i)] BY DEF Applied
<1>3. S = {l} \cup {b + k : k \in 1 .. e} BY <1>1
<1> HIDE DEF l, e, b, S, A, hue
<1>4. S \subseteq Nat /\ S # {} /\ IsFiniteSet(S)
  <2>1. S \in SUBSET (0 .. l + b + e) BY <1>1, <1>3
  <2>2. IsFiniteSet(0 .. l + b + e) BY <1>1, FS_Interval
  <2>3. S \subseteq Nat /\ S # {} BY <1>1, <1>3
  <2> HIDE DEF n
  <2> QED BY <2>1, <2>2, <2>3, FS_Subset
<1>5. n \in S /\ \A i \in S : i <= n BY <1>4, MaxOf
<1> HIDE DEF n
<1>6. /\ n \in Nat /\ l <= n /\ \A k \in 1 .. e : b + k <= n BY <1>3, <1>4, <1>5
<1>7. DOMAIN A = 1 .. n /\ \A i \in 1 .. n : A[i] = hue(i) BY <1>2
<1>8. ASSUME NEW k \in Nat PROVE Gives(c, k) <=> k \in b + 1 .. b + e
  <2>1. k - b \in 1 .. e <=> k \in b + 1 .. b + e BY <1>1
  <2> QED BY <1>1, <2>1 DEF Gives, b
<1>9. ASSUME NEW k \in Nat, Gives(c, k) PROVE k \in DOMAIN A /\ A[k] = c.ents[k - b]
  <2>1. k \in b + 1 .. b + e BY <1>8, <1>9
  <2>2. k - b \in 1 .. e /\ k = b + (k - b) /\ 0 < k BY <1>1, <2>1
  <2>3. k \in 1 .. n BY <1>6, <2>2
  <2>4. hue(k) = c.ents[k - b] BY <2>1 DEF hue
  <2> QED BY <1>7, <2>3, <2>4
<1>10. ASSUME NEW k \in 1 .. n, ~Gives(c, k) PROVE A[k] = IF k \in DOMAIN T THEN T[k] ELSE Black
  <2>1. k \notin b + 1 .. b + e BY <1>8, <1>10
  <2> QED BY <1>7, <2>1 DEF hue
<1>11. \A k \in 1 .. n : A[k] \in Colours
  <2> SUFFICES ASSUME NEW k \in 1 .. n PROVE A[k] \in Colours
    OBVIOUS
  <2>1. CASE Gives(c, k)
    <3>1. k \in Nat /\ k \in b + 1 .. b + e BY <1>8, <2>1
    <3>2. k - b \in 1 .. e BY <1>1, <3>1
    <3> QED BY <1>1, <1>9, <2>1, <3>1, <3>2
  <2>2. CASE ~Gives(c, k)
    <3>1. Black \in Colours BY DEF Colours
    <3> QED BY <1>1, <1>10, <2>2, <3>1
  <2> QED BY <2>1, <2>2
<1>12. A \in Seq(Colours)
  <2>1. A = [i \in 1 .. n |-> A[i]] BY <1>2, <1>7
  <2>2. A \in [1 .. n -> Colours] BY <1>11, <2>1
  <2> QED BY <1>6, <2>2, FunctionIsSeq
<1>13. DOMAIN T \subseteq DOMAIN A BY <1>1, <1>6, <1>7
<1> QED BY <1>7, <1>9, <1>10, <1>12, <1>13 DEF A, b

\* T is the table after the first m changes of s: each colour is the one the last
\* change gave that did, else the table's own, and black beyond it.
Painted(table, s, m, T) ==
  /\ T \in Seq(Colours)
  /\ DOMAIN table \subseteq DOMAIN T
  /\ \A i \in 1 .. m, k \in Nat : Gives(s[i], k) => k \in DOMAIN T
  /\ \A k \in DOMAIN T :
       /\ \A i \in 1 .. m : Gives(s[i], k) /\ (\A j \in i + 1 .. m : ~Gives(s[j], k)) =>
            T[k] = s[i].ents[k - s[i].base]
       /\ (\A i \in 1 .. m : ~Gives(s[i], k)) =>
            T[k] = IF k \in DOMAIN table THEN table[k] ELSE Black

\* One change more.
LEMMA PaintStep ==
  ASSUME NEW table, NEW s, NEW m \in Nat, NEW T, Painted(table, s, m, T), Change(s[m + 1])
  PROVE  Painted(table, s, m + 1, Applied(T, s[m + 1]))
<1> DEFINE n == m + 1
           c == s[n]
           A == Applied(T, c)
<1>1. /\ A \in Seq(Colours) /\ DOMAIN T \subseteq DOMAIN A
      /\ \A k \in Nat : Gives(c, k) => k \in DOMAIN A /\ A[k] = c.ents[k - c.base]
      /\ \A k \in DOMAIN A : ~Gives(c, k) => A[k] = IF k \in DOMAIN T THEN T[k] ELSE Black
  BY AppliedFacts DEF Painted
<1>2. n \in Nat /\ \A i : i \in 1 .. n <=> i = n \/ i \in 1 .. m OBVIOUS
<1>3. \A i \in 1 .. m : n \in i + 1 .. n OBVIOUS
<1>4. \A k \in DOMAIN A : k \in Nat BY <1>1, LenProperties
<1>5. \A i \in 1 .. m : \A j \in i + 1 .. m : j \in i + 1 .. n OBVIOUS
<1> HIDE DEF n, c, A
<1>6. DOMAIN table \subseteq DOMAIN A BY <1>1 DEF Painted
<1>7. ASSUME NEW i \in 1 .. n, NEW k \in Nat, Gives(s[i], k) PROVE k \in DOMAIN A
  <2>1. CASE i = n BY <1>1, <1>7, <2>1 DEF c
  <2>2. CASE i \in 1 .. m BY <1>1, <1>7, <2>2 DEF Painted
  <2> QED BY <1>2, <2>1, <2>2
<1>8. ASSUME NEW k \in DOMAIN A, NEW i \in 1 .. n, Gives(s[i], k),
             \A j \in i + 1 .. n : ~Gives(s[j], k)
      PROVE  A[k] = s[i].ents[k - s[i].base]
  <2>1. CASE i = n BY <1>1, <1>4, <1>8, <2>1 DEF c
  <2>2. CASE i \in 1 .. m
    <3>1. ~Gives(c, k) BY <1>3, <1>8, <2>2 DEF c
    <3>2. k \in DOMAIN T BY <1>4, <1>8, <2>2 DEF Painted
    <3>3. A[k] = T[k] BY <1>1, <3>1, <3>2
    <3>4. T[k] = s[i].ents[k - s[i].base] BY <1>5, <1>8, <2>2, <3>2 DEF Painted
    <3> QED BY <3>3, <3>4
  <2> QED BY <1>2, <2>1, <2>2
<1>9. ASSUME NEW k \in DOMAIN A, \A i \in 1 .. n : ~Gives(s[i], k)
      PROVE  A[k] = IF k \in DOMAIN table THEN table[k] ELSE Black
  <2>1. ~Gives(c, k) /\ \A i \in 1 .. m : ~Gives(s[i], k) BY <1>2, <1>9 DEF c
  <2>2. A[k] = IF k \in DOMAIN T THEN T[k] ELSE Black BY <1>1, <2>1
  <2>3. k \in DOMAIN T => T[k] = IF k \in DOMAIN table THEN table[k] ELSE Black
    BY <2>1 DEF Painted
  <2>4. k \in DOMAIN table => k \in DOMAIN T BY DEF Painted
  <2> QED BY <2>2, <2>3, <2>4
<1>10. Painted(table, s, n, A) BY <1>1, <1>6, <1>7, <1>8, <1>9 DEF Painted
<1> QED BY <1>10 DEF n, c, A

\* The recursive function in the fold of the changes.
IsPaint(g, s, table) ==
  g = [T \in SUBSET DOMAIN s |->
         IF T = {} THEN table ELSE LET x == Max(T) IN Applied(g[T \ {x}], s[x])]

LEMMA FoldIsPaint ==
  ASSUME NEW s, NEW table
  PROVE  FoldLeft(Applied, table, s) = (CHOOSE g : IsPaint(g, s, table))[DOMAIN s]
BY Zenon DEF FoldLeft, MapThenFoldSet, IsPaint

\* There is one.
LEMMA PaintExists ==
  ASSUME NEW n \in Nat, NEW s, DOMAIN s = 1 .. n, \A i \in 1 .. n : Change(s[i]),
         NEW table \in Seq(Colours)
  PROVE  \E g : IsPaint(g, s, table)
<1> DEFINE V == Seq(Colours)
           S == 1 .. n
           ch == [T \in SUBSET S |-> Max(T)]
           G == [i \in S |-> [T \in V |-> Applied(T, s[i])]]
<1>1. IsFiniteSet(S) BY FS_Interval
<1>2. \A T \in SUBSET S : T # {} => ch[T] \in T BY SelectedIndex
<1>3. G \in [S -> [V -> V]]
  <2>1. \A i \in S, T \in V : Applied(T, s[i]) \in V BY AppliedFacts
  <2> QED BY <2>1
<1> HIDE DEF V, ch, G, S
<1>4. PICK g : Folds(g, S, V, table, ch, G) BY <1>1, <1>2, <1>3, FoldExists DEF V
<1>5. ASSUME NEW T \in SUBSET S
      PROVE  g[T] = IF T = {} THEN table ELSE LET x == Max(T) IN Applied(g[T \ {x}], s[x])
  <2>1. CASE T = {} BY <1>4, <2>1 DEF Folds
  <2>2. CASE T # {}
    <3>1. ch[T] = Max(T) /\ ch[T] \in S /\ T \ {ch[T]} \in SUBSET S BY <1>2, <2>2 DEF ch
    <3>2. g[T] = G[ch[T]][g[T \ {ch[T]}]] BY <1>4, <2>2 DEF Folds
    <3>3. g[T \ {ch[T]}] \in V BY <1>4, <3>1 DEF Folds
    <3>4. g[T] = Applied(g[T \ {ch[T]}], s[ch[T]]) BY <3>1, <3>2, <3>3 DEF G
    <3> QED BY <2>2, <3>1, <3>4
  <2> QED BY <2>1, <2>2
<1>6. g = [T \in SUBSET S |-> g[T]] BY <1>4 DEF Folds
<1>7. IsPaint(g, s, table) BY <1>5, <1>6 DEF IsPaint, S
<1> QED BY <1>7

\* The changes of s, one after the other.
LEMMA PaintFacts ==
  ASSUME NEW n \in Nat, NEW s, DOMAIN s = 1 .. n, \A i \in 1 .. n : Change(s[i]),
         NEW table \in Seq(Colours)
  PROVE  Painted(table, s, n, FoldLeft(Applied, table, s))
<1> DEFINE g == CHOOSE h : IsPaint(h, s, table)
<1>1. IsPaint(g, s, table) BY PaintExists
<1> HIDE DEF g
<1>2. g[{}] = table
  <2>1. {} \in SUBSET DOMAIN s OBVIOUS
  <2> QED BY <1>1, <2>1 DEF IsPaint
<1>3. ASSUME NEW m \in Nat, m + 1 <= n
      PROVE  g[1 .. m + 1] = Applied(g[1 .. m], s[m + 1])
  <2> DEFINE T == 1 .. m + 1
             x == Max(T)
  <2>1. T \in SUBSET DOMAIN s /\ T # {}
    <3>1. m + 1 \in T OBVIOUS
    <3>2. T \subseteq 1 .. n BY <1>3
    <3> HIDE DEF T
    <3> QED BY <3>1, <3>2
  <2>2. x = m + 1
    <3>1. T \in SUBSET (1 .. m + 1) /\ m + 1 \in Nat OBVIOUS
    <3>2. x \in T /\ \A i \in T : i <= x
      <4> HIDE DEF T
      <4> QED BY <2>1, <3>1, SelectedIndex
    <3>3. m + 1 \in T OBVIOUS
    <3> HIDE DEF x
    <3> QED BY <3>2, <3>3
  <2>3. T \ {m + 1} = 1 .. m OBVIOUS
  <2> HIDE DEF T
  <2>4. g[T] = LET y == Max(T) IN Applied(g[T \ {y}], s[y]) BY <1>1, <2>1 DEF IsPaint
  <2> QED BY <2>2, <2>3, <2>4 DEF T
<1> DEFINE Bad == {m \in 0 .. n : ~Painted(table, s, m, g[1 .. m])}
<1>4. Bad = {}
  <2> SUFFICES ASSUME Bad # {} PROVE FALSE
    OBVIOUS
  <2>1. PICK m \in Bad : \A k \in Bad : m <= k
    <3>1. Bad \subseteq Nat OBVIOUS
    <3> HIDE DEF Bad
    <3> QED BY <3>1, NatLeast
  <2>2. Painted(table, s, 0, g[1 .. 0])
    <3>1. 1 .. 0 = {} OBVIOUS
    <3> QED BY <1>2, <3>1 DEF Painted
  <2>3. m # 0 BY <2>1, <2>2
  <2> DEFINE k == m - 1
  <2>4. k \in Nat /\ k \in 0 .. n /\ m = k + 1 /\ ~(m <= k) /\ k + 1 <= n /\ m \in 1 .. n
    BY <2>3
  <2>5. Painted(table, s, k, g[1 .. k]) BY <2>1, <2>4
  <2> HIDE DEF k
  <2>6. Painted(table, s, k + 1, Applied(g[1 .. k], s[k + 1])) BY <2>4, <2>5, PaintStep
  <2>7. g[1 .. m] = Applied(g[1 .. k], s[k + 1]) BY <1>3, <2>4
  <2> QED BY <2>1, <2>4, <2>6, <2>7
<1>5. Painted(table, s, n, g[1 .. n]) BY <1>4
<1>6. FoldLeft(Applied, table, s) = g[1 .. n] BY FoldIsPaint DEF g
<1> QED BY <1>5, <1>6

-----------------------------------------------------------------------------
(* The palettes are those in force                                         *)

\* s is the q changes of stream t that parse and stand before offset a, at the
\* places B.
ChangesBefore(F, t, a, s, q, B) ==
  /\ q \in Nat /\ DOMAIN s = 1 .. q
  /\ \A j \in 1 .. q : s[j] = F.disk[B[j]]
  /\ \A j, k \in 1 .. q : j < k => B[j] < B[k]
  /\ {B[j] : j \in 1 .. q}
       = {p \in Standing(F, MoviSegments(F), {"pc"}, t) : p < a /\ Parsed(F.disk[p])}

\* Changes that parse stand before those that do not.
Stepped(F, t) ==
  \A p, q \in Standing(F, MoviSegments(F), {"pc"}, t) :
    p < q /\ Parsed(F.disk[q]) => Parsed(F.disk[p])

\* Those are the changes effective_palette_at applies for a packet of the primary
\* RIFF.
LEMMA ChangesApplied ==
  ASSUME NEW F, WellFormed(F), MoviSegments(F) # <<>>, Honest(F), Itemized(F), HasIdx1(F),
         Uncut(F), NonDecreasing(Offsets(RawIdx1(F))), NEW t \in Streams, Stepped(F, t),
         F.table[t] # NoPalette,
         NEW r, r.bodies = Eager(F), r.positions = PositionsOf(F),
         NEW a \in OwnPackets(F, t), a < PrimaryEnd(F)
  PROVE  \E s, q, B :
           /\ ChangesBefore(F, t, a, s, q, B)
           /\ EffectivePaletteAt(F, r, t, Cardinality({b \in OwnPackets(F, t) : b < a}))
                = FoldLeft(Applied, F.table[t], s)
<1> DEFINE S == SideBefore(F, "pc", t, PrimaryEnd(F))
           B == InOrder(S)
           m == Cardinality(S)
           P == PositionsOf(F)[t]
           seq == Cardinality({b \in OwnPackets(F, t) : b < a})
           n == Cardinality({i \in DOMAIN P : P[i] <= seq})
           cells == [i \in DOMAIN B |-> F.disk[B[i]]]
           deltas == Kept(cells, Parsed)
           table == F.table[t]
<1>1. S \subseteq Nat /\ IsFiniteSet(S) BY SideNumbers
<1>2. /\ B \in [1 .. m -> S] /\ m \in Nat
      /\ \A i, j \in 1 .. m : i < j => B[i] < B[j]
      /\ \A b \in S : \E i \in 1 .. m : B[i] = b
      /\ B = <<>> <=> m = 0
  <2> HIDE DEF S
  <2>1. /\ B \in [1 .. m -> S] /\ m \in Nat
        /\ \A i, j \in DOMAIN B : i < j => B[i] < B[j]
        /\ \A b \in S : \E i \in DOMAIN B : B[i] = b
    BY <1>1, InOrderLists
  <2>2. B \in Seq(Int) /\ Len(B) = m BY <1>1, InOrderRanks
  <2> HIDE DEF B, m
  <2>3. B = <<>> <=> m = 0 BY <2>2, EmptySeq
  <2> QED BY <2>1, <2>3
<1>3. \A b \in S : b \in Standing(F, MoviSegments(F), {"pc"}, t) /\ b \in Nat
  BY <1>1 DEF SideBefore
<1>4. ASSUME NEW b \in Standing(F, MoviSegments(F), {"pc"}, t), b < a PROVE b \in S
  <2>1. b \in Nat /\ a \in Nat BY StandingFacts DEF OwnPackets
  <2>2. PrimaryEnd(F) \in Int BY PrimaryEndType
  <2>3. b < PrimaryEnd(F) BY <1>4, <2>1, <2>2
  <2> QED BY <2>3 DEF SideBefore
<1>5. r.bodies["pc"][t] = B
  <2>1. "pc" \in SideIds BY DEF SideIds
  <2> QED BY <2>1, EagerBodies DEF Eager
<1>6. DOMAIN P = DOMAIN B BY PositionsAre
<1>7. n \in Nat /\ \A i \in DOMAIN B : B[i] < a <=> i <= n BY InForce
<1>8. EffectivePaletteAt(F, r, t, seq)
        = IF P = <<>> /\ B # <<>> THEN NoPalette
          ELSE FoldLeft(Applied, table, SubSeq(deltas, 1, Least({n, Len(deltas)})))
  BY <1>5 DEF EffectivePaletteAt, EffectivePaletteAfterChanges, PaletteChangeTyped
<1> HIDE DEF S, B, m, P, seq, n, deltas, table
<1>9. ~(P = <<>> /\ B # <<>>)
  <2> SUFFICES ASSUME P = <<>>, B # <<>> PROVE FALSE
    OBVIOUS
  <2>1. DOMAIN P = {} OBVIOUS
  <2>2. 1 \in DOMAIN B BY <1>2
  <2> QED BY <1>6, <2>1, <2>2
<1>10. \A i \in 1 .. m : B[i] \in S /\ cells[i] = F.disk[B[i]] BY <1>2
<1>11. DOMAIN cells = 1 .. m BY <1>2
<1> HIDE DEF cells
<1>12. \A i, j \in 1 .. m : i < j /\ Parsed(cells[j]) => Parsed(cells[i])
  <2> SUFFICES ASSUME NEW i \in 1 .. m, NEW j \in 1 .. m, i < j, Parsed(cells[j])
               PROVE  Parsed(cells[i])
    OBVIOUS
  <2>1. B[i] < B[j] BY <1>2
  <2>2. Parsed(F.disk[B[j]]) BY <1>10
  <2>3. Parsed(F.disk[B[i]]) BY <1>3, <1>10, <2>1, <2>2 DEF Stepped
  <2> QED BY <1>10, <2>3
<1>13. PICK p \in Nat : /\ p <= m /\ deltas = [i \in 1 .. p |-> cells[i]]
                        /\ \A i \in 1 .. m : Parsed(cells[i]) <=> i <= p
  BY <1>2, <1>11, <1>12, FirstParse DEF deltas
<1> DEFINE X == {cells[i] : i \in 1 .. p}
           q == Least({n, Len(deltas)})
           s == SubSeq(deltas, 1, q)
<1>14. Len(deltas) = p
  <2>1. deltas \in [1 .. p -> X] BY <1>13
  <2> HIDE DEF X
  <2> QED BY <2>1, FunctionIsSeq
<1>15. q \in Nat /\ q <= n /\ q <= p /\ (q = n \/ q = p)
  <2>1. n \in Int /\ p \in Int BY <1>7
  <2>2. Least({n, p}) \in {n, p} /\ Least({n, p}) <= n /\ Least({n, p}) <= p
    BY ONLY <2>1, LeastOfTwo
  <2> QED BY <1>7, <1>14, <2>2
<1> HIDE DEF q
<1>16. DOMAIN s = 1 .. q /\ \A j \in 1 .. q : s[j] = cells[j]
  <2>1. q \in Int /\ \A j \in 1 .. q : deltas[j] \in X BY <1>13, <1>15
  <2> HIDE DEF X
  <2>2. /\ s \in Seq(X) /\ Len(s) = IF 1 <= q THEN q - 1 + 1 ELSE 0
        /\ \A j \in 1 .. q - 1 + 1 : s[j] = deltas[1 + j - 1]
    BY <2>1, SubSeqProperties
  <2> HIDE DEF s
  <2>3. Len(s) = q BY <1>15, <2>2
  <2>4. ASSUME NEW j \in 1 .. q PROVE s[j] = cells[j]
    <3>1. j \in 1 .. q - 1 + 1 /\ 1 + j - 1 = j /\ j \in 1 .. p BY <1>15
    <3>2. s[j] = deltas[j] BY <2>2, <3>1
    <3> QED BY <1>13, <3>1, <3>2
  <2> QED BY <2>2, <2>3, <2>4, LenProperties
<1> HIDE DEF s
<1>17. ChangesBefore(F, t, a, s, q, B)
  <2>1. \A j \in 1 .. q : j \in 1 .. m BY <1>2, <1>13, <1>15
  <2>2. \A j \in 1 .. q : s[j] = F.disk[B[j]] BY <1>10, <1>16, <2>1
  <2>3. \A j, k \in 1 .. q : j < k => B[j] < B[k] BY <1>2, <2>1
  <2>4. \A i \in 1 .. m : i <= q <=> B[i] < a /\ Parsed(F.disk[B[i]])
    <3> SUFFICES ASSUME NEW i \in 1 .. m
                 PROVE  i <= q <=> B[i] < a /\ Parsed(F.disk[B[i]])
      OBVIOUS
    <3>1. (B[i] < a <=> i <= n) /\ (Parsed(F.disk[B[i]]) <=> i <= p)
      BY <1>2, <1>7, <1>10, <1>13
    <3>2. i \in Nat /\ (i <= q <=> i <= n /\ i <= p) BY <1>2, <1>7, <1>15
    <3> QED BY <3>1, <3>2
  <2>5. ASSUME NEW j \in 1 .. q
        PROVE  /\ B[j] \in Standing(F, MoviSegments(F), {"pc"}, t)
               /\ B[j] < a /\ Parsed(F.disk[B[j]])
    <3>1. j \in 1 .. m /\ j <= q BY <1>15, <2>1
    <3> QED BY <1>3, <1>10, <2>4, <3>1
  <2>6. ASSUME NEW b \in Standing(F, MoviSegments(F), {"pc"}, t), b < a, Parsed(F.disk[b])
        PROVE  \E j \in 1 .. q : B[j] = b
    <3>1. PICK i \in 1 .. m : B[i] = b BY <1>2, <1>4, <2>6
    <3>2. i <= q BY <2>4, <2>6, <3>1
    <3>3. i \in 1 .. q BY <1>15, <3>2
    <3> QED BY <3>1, <3>3
  <2> QED BY <1>15, <1>16, <2>2, <2>3, <2>5, <2>6 DEF ChangesBefore
<1>18. EffectivePaletteAt(F, r, t, seq) = FoldLeft(Applied, table, s)
  BY <1>8, <1>9 DEF q, s
<1> QED BY <1>17, <1>18 DEF seq, table

\* What they give is the last colour given before the packet.
LEMMA ChangesColour ==
  ASSUME d.open, d.movi = MoviSegments(file), WellFormed(file), NEW t \in Streams, NEW a \in Nat,
         NEW s, NEW q, NEW B, ChangesBefore(file, t, a, s, q, B),
         NEW k \in DOMAIN FoldLeft(Applied, file.table[t], s) \cup Changed(t, a)
  PROVE  /\ k \in DOMAIN FoldLeft(Applied, file.table[t], s)
         /\ FoldLeft(Applied, file.table[t], s)[k] = ColourAt(t, a, k)
<1> DEFINE table == file.table[t]
           T == FoldLeft(Applied, table, s)
           own == {p \in SideOf({"pc"}, t) : p < a /\ Parsed(file.disk[p])}
           gives == {p \in own : k - file.disk[p].base \in DOMAIN file.disk[p].ents}
           last == CHOOSE p \in gives : \A r \in gives : r <= p
<1>1. /\ q \in Nat /\ DOMAIN s = 1 .. q
      /\ \A j \in 1 .. q : s[j] = file.disk[B[j]]
      /\ \A i, j \in 1 .. q : i < j => B[i] < B[j]
      /\ {B[j] : j \in 1 .. q} = own
  BY DEF ChangesBefore, SideOf
<1>2. \A p \in own : p \in Nat /\ Change(file.disk[p])
  <2> SUFFICES ASSUME NEW p \in own PROVE p \in Nat /\ Change(file.disk[p])
    OBVIOUS
  <2>1. p \in DOMAIN file.disk /\ file.disk[p].id = "pc" BY DEF SideOf, Standing
  <2> QED BY <2>1 DEF WellFormed, Change
<1>3. ColourAt(t, a, k) = IF gives # {} THEN file.disk[last].ents[k - file.disk[last].base]
                          ELSE IF k \in DOMAIN table THEN table[k] ELSE Black
  BY DEF ColourAt
<1>4. gives = {p \in own : Gives(file.disk[p], k)} BY DEF Gives
<1>5. Changed(t, a) = UNION {{file.disk[p].base + n : n \in DOMAIN file.disk[p].ents} : p \in own}
  BY DEF Changed
<1>6. table \in Seq(Colours)
  <2>1. table \in Seq(STRING) BY DEF WellFormed
  <2> HIDE DEF table
  <2>2. Len(table) \in Nat /\ DOMAIN table = 1 .. Len(table)
        /\ \A i \in 1 .. Len(table) : table[i] \in STRING
    BY <2>1, LenProperties, ElementOfSeq
  <2>3. table \in [1 .. Len(table) -> Colours] BY <2>1, <2>2 DEF Colours
  <2> QED BY <2>2, <2>3, FunctionIsSeq
<1> HIDE DEF own, table, gives, last
<1>7. \A j \in 1 .. q : B[j] \in own /\ Change(s[j]) BY <1>1, <1>2
<1>8. Painted(table, s, q, T) BY <1>1, <1>6, <1>7, PaintFacts
<1>9. k \in Nat
  <2>1. CASE k \in Changed(t, a)
    <3>1. PICK p \in own : \E n \in DOMAIN file.disk[p].ents : k = file.disk[p].base + n
      BY <1>5, <2>1
    <3>2. PICK n \in DOMAIN file.disk[p].ents : k = file.disk[p].base + n BY <3>1
    <3>3. file.disk[p].base \in Nat /\ n \in Nat BY <1>2, LenProperties DEF Change
    <3> QED BY <3>2, <3>3
  <2>2. CASE k \in DOMAIN T
    <3>1. T \in Seq(Colours) BY <1>8 DEF Painted
    <3> HIDE DEF T
    <3> QED BY <2>2, <3>1, LenProperties
  <2> QED BY <2>1, <2>2 DEF table
<1> HIDE DEF T
<1>10. k \in DOMAIN T
  <2> SUFFICES ASSUME k \in Changed(t, a) PROVE k \in DOMAIN T
    BY DEF T, table
  <2>1. PICK p \in own : \E n \in DOMAIN file.disk[p].ents : k = file.disk[p].base + n BY <1>5
  <2>2. PICK n \in DOMAIN file.disk[p].ents : k = file.disk[p].base + n BY <2>1
  <2>3. Gives(file.disk[p], k)
    <3> DEFINE b == file.disk[p].base
    <3>1. b \in Nat /\ n \in Nat BY <1>2, LenProperties DEF Change
    <3>2. k = b + n BY <2>2
    <3> HIDE DEF b
    <3>3. k - b = n BY <3>1, <3>2
    <3> QED BY <2>2, <3>3 DEF Gives, b
  <2>4. PICK j \in 1 .. q : B[j] = p BY <1>1
  <2>5. Gives(s[j], k) BY <1>1, <2>3, <2>4
  <2> QED BY <1>8, <1>9, <2>5 DEF Painted
<1>11. CASE gives = {}
  <2>1. \A j \in 1 .. q : ~Gives(s[j], k) BY <1>1, <1>4, <1>7, <1>11
  <2>2. T[k] = IF k \in DOMAIN table THEN table[k] ELSE Black BY <1>8, <1>10, <2>1 DEF Painted
  <2>3. T[k] = ColourAt(t, a, k) BY <1>3, <1>11, <2>2
  <2> QED BY <1>10, <2>3 DEF T, table
<1>12. CASE gives # {}
  <2>1. last \in gives /\ \A r \in gives : r <= last
    <3>1. gives \subseteq Nat BY <1>2, <1>4
    <3>2. IsFiniteSet(gives)
      <4>1. gives \in SUBSET DOMAIN file.disk BY <1>4 DEF own, SideOf, Standing
      <4>2. IsFiniteSet(DOMAIN file.disk) BY DEF WellFormed
      <4> QED BY <4>1, <4>2, FS_Subset
    <3>3. \E p \in gives : \A r \in gives : r <= p BY <1>12, <3>1, <3>2, MostOf
    <3> QED BY <3>3 DEF last
  <2>2. PICK j \in 1 .. q : B[j] = last BY <1>1, <1>4, <2>1
  <2>3. Gives(s[j], k) BY <1>1, <1>4, <2>1, <2>2
  <2>4. ASSUME NEW i \in j + 1 .. q PROVE ~Gives(s[i], k)
    <3>1. i \in 1 .. q /\ j < i BY <1>1
    <3>2. B[j] < B[i] /\ B[i] \in Nat /\ B[j] \in Nat BY <1>1, <1>2, <1>7, <3>1
    <3>3. ~(B[i] <= last) BY <2>2, <3>2
    <3>4. B[i] \notin gives BY <2>1, <3>3
    <3> QED BY <1>1, <1>4, <1>7, <3>1, <3>4
  <2>5. T[k] = s[j].ents[k - s[j].base] BY <1>8, <1>10, <2>3, <2>4 DEF Painted
  <2>6. T[k] = file.disk[last].ents[k - file.disk[last].base] BY <1>1, <2>2, <2>5
  <2>7. T[k] = ColourAt(t, a, k) BY <1>3, <1>12, <2>6
  <2> QED BY <1>10, <2>7 DEF T, table
<1> QED BY <1>11, <1>12

\* The invariant of the side-band chunks says so of every packet.
LEMMA PalettesRight ==
  ASSUME OrderlyFiles, ItemizedFiles, SideInv
  PROVE  PalettesInForce
<1> SUFFICES ASSUME d.open, d.eager, Whole, Ordered, NEW t \in Streams,
                    file.table[t] # NoPalette, InStep(t),
                    NEW i \in PacketsOf(t), list[i].at < PrimaryEnd(file),
                    NEW palette, palette = EffectivePaletteAt(file, d, t,
                                             Cardinality({j \in PacketsOf(t) : j < i})),
                    NEW k \in DOMAIN palette \cup Changed(t, list[i].at)
             PROVE  k \in DOMAIN palette /\ palette[k] = ColourAt(t, list[i].at, k)
  BY DEF PalettesInForce
<1> DEFINE a == list[i].at
           seq == Cardinality({j \in PacketsOf(t) : j < i})
<1>1. /\ WellFormed(file) /\ Honest(file) /\ d \in Good(file) /\ Len(d.movi) # 0
      /\ file \in Files /\ Lists(list, file)
  <2>1. SInv BY DEF SideInv
  <2>2. DInv BY <2>1 DEF SInv
  <2> QED BY <2>1, <2>2, OpenFacts, OpenReader DEF DInv
<1>2. d.movi = MoviSegments(file) /\ MoviSegments(file) # <<>>
  <2>1. d.movi = MoviSegments(file) /\ d.movi \in Segments BY <1>1, ReaderFields
  <2> QED BY <1>1, <2>1, EmptySeq DEF Segments
<1>3. d.eager = HasIdx1(file) /\ d.bodies = Eager(file) BY DEF SideInv, SideOK
<1>4. d.positions = PositionsOf(file) BY <1>1 DEF Good, Readers
<1>5. Itemized(file) BY <1>1, <1>2 DEF ItemizedFiles
<1>6. HasIdx1(file) /\ Uncut(file) /\ NonDecreasing(Offsets(RawIdx1(file)))
  BY <1>3 DEF Whole, Ordered
<1>7. Stepped(file, t) BY <1>2 DEF InStep, SideOf, Stepped
<1>8. /\ a \in OwnPackets(file, t)
      /\ seq = Cardinality({b \in OwnPackets(file, t) : b < a})
  BY <1>1, PacketNumber DEF PacketsOf
<1>9. a \in Nat BY <1>1, <1>8, StandingFacts DEF OwnPackets
<1>10. a < PrimaryEnd(file) /\ palette = EffectivePaletteAt(file, d, t, seq) OBVIOUS
<1> HIDE DEF a, seq
<1>11. PICK s, q, B :
         /\ ChangesBefore(file, t, a, s, q, B)
         /\ EffectivePaletteAt(file, d, t, Cardinality({b \in OwnPackets(file, t) : b < a}))
              = FoldLeft(Applied, file.table[t], s)
  BY <1>1, <1>2, <1>3, <1>4, <1>5, <1>6, <1>7, <1>8, <1>10, ChangesApplied
<1>12. palette = FoldLeft(Applied, file.table[t], s) BY <1>8, <1>10, <1>11
<1> QED BY <1>1, <1>2, <1>9, <1>11, <1>12, ChangesColour DEF a

\* The palette of every packet of the primary RIFF is the stream's own with exactly the
\* changes that stand before the packet in the file made to it: the positions that
\* open_avi counts in idx1 and the bodies it has collected stay in step, over every
\* order of reads and seeks, and the changes are made one over the other.
THEOREM PalettesHold ==
  ASSUME OrderlyFiles, ItemizedFiles
  PROVE  Spec => []PalettesInForce
<1>1. Init => SideInv BY SideInit
<1>2. SideInv /\ [Next]_vars => SideInv' BY SideNext
<1>3. SideInv => PalettesInForce BY PalettesRight
<1> QED BY <1>1, <1>2, <1>3, PTL DEF Spec

=============================================================================
