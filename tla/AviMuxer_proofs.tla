-------------------------- MODULE AviMuxer_proofs ----------------------------
(***************************************************************************)
(* Type correctness of AviMuxer, and that its standard-index entries and   *)
(* its ix## records always lead to the chunks they were made for, for every *)
(* number of streams, every configuration, every packet length and any     *)
(* number of packets, segments and failed calls.                           *)
(*                                                                         *)
(* The invariant IInv says that the muxer is either Fresh or Good.  There  *)
(* is one lemma per private method, "Good in, Good out", and one per       *)
(* public method on top of them.  They rest on what comes first: the parts *)
(* of the invariant, arithmetic and sequence facts, what an update of one  *)
(* group of fields of the muxer leaves alone, and what adding a cell to    *)
(* the output or patching a list size preserves.                           *)
(***************************************************************************)
EXTENDS AviMuxer, SequenceTheorems, WellFoundedInduction, TLAPS

-----------------------------------------------------------------------------
(* The inductive invariant                                                 *)

\* The fields of s have their types: TypeOK, of a muxer state s.
Typed(s) ==
  /\ s \in MuxerRecord(s.disk)
  /\ DiskOK(s.disk)
  /\ s.pos % 2 = 0
  /\ s.rec_open_idx1_slot \in 0 .. Len(s.index)

\* off is the size field of a list of kind id whose 12-byte header is on
\* disk.
IsList(s, off, id) ==
  /\ off >= 4
  /\ off - 4 \in DOMAIN s.disk
  /\ s.disk[off - 4].id = id
  /\ off + 8 <= s.pos

\* The size fields that finish_chunk will patch are those of the lists they
\* are meant for.
Heads(s) ==
  /\ IsList(s, s.riff_size_off, "RIFF")
  /\ IsList(s, s.movi_size_off, "movi")
  /\ s.rec_open_size_off # NoList => IsList(s, s.rec_open_size_off, "rec")

\* Everything on disk is before the output position, at an even offset.
Below(s) == \A at \in DOMAIN s.disk : at < s.pos /\ at % 2 = 0

\* The header of the chunk that entry e of stream t describes stands at
\* offset at.
Points(s, at, t, e) ==
  /\ at \in DOMAIN s.disk
  /\ s.disk[at].id \in MediaIds
  /\ s.disk[at].trk = t
  /\ s.disk[at].len = e.len
  /\ s.disk[at].key = e.key

\* Every entry of a standard index of stream t with the given base does.
EntsPoint(s, base, t, ents) ==
  \A i \in DOMAIN ents : Points(s, IxTarget(base, ents[i]), t, ents[i])

\* Record r is the offset and the length of an ix## chunk of stream t.
RecordPoints(s, t, r) ==
  /\ r.at \in DOMAIN s.disk
  /\ s.disk[r.at].id = "ix"
  /\ s.disk[r.at].trk = t
  /\ r.size = 8 + s.disk[r.at].len

IndxType ==
  [kind : {"none", "super", "std"}, base : Nat, ents : Seq(IxEntry) \cup Seq(IxRecord)]

\* Every standard-index entry (pending, on disk or in a strl) and every ix##
\* record does.
Entries(s) ==
  /\ \A t \in Streams : EntsPoint(s, QwBase(s), t, s.tracks[t].ix_entries)
  /\ \A at \in DOMAIN s.disk : s.disk[at].id = "ix" =>
       EntsPoint(s, s.disk[at].base, s.disk[at].trk, s.disk[at].ents)
  /\ \A t \in Streams : s.tracks[t].indx.kind = "std" =>
       EntsPoint(s, s.tracks[t].indx.base, t, s.tracks[t].indx.ents)
  /\ \A t \in Streams : \A i \in DOMAIN s.tracks[t].ix_chunk_records :
       RecordPoints(s, t, s.tracks[t].ix_chunk_records[i])

\* The invariant of a muxer whose header has been written.
Good(s) == Typed(s) /\ Below(s) /\ Heads(s) /\ Entries(s) /\ s.header_written

\* The invariant of a muxer before write_header.
Fresh(s) ==
  /\ Typed(s)
  /\ ~s.header_written
  /\ s.pos = 0
  /\ DOMAIN s.disk = {}
  /\ s.rec_open_size_off = NoList
  /\ \A t \in Streams : /\ s.tracks[t].ix_entries = <<>>
                        /\ s.tracks[t].ix_chunk_records = <<>>
                        /\ s.tracks[t].indx.kind = "none"

-----------------------------------------------------------------------------
(* What a step of a private method keeps                                   *)

\* Every chunk on disk that is not a list is on disk, unchanged, after the
\* step.
Keeps(s, w) ==
  \A at \in DOMAIN s.disk : s.disk[at].id \notin ListIds =>
    at \in DOMAIN w.disk /\ w.disk[at] = s.disk[at]

\* The current segment is the same.
Near(s, w) ==
  /\ w.riff_size_off = s.riff_size_off /\ w.movi_size_off = s.movi_size_off
  /\ w.header_written = s.header_written

\* The fields Good speaks of, the output excepted, are the same.
SameFields(s, w) ==
  /\ Near(s, w)
  /\ w.tracks = s.tracks
  /\ w.rec_open_size_off = s.rec_open_size_off
  /\ w.index = s.index /\ w.rec_open_idx1_slot = s.rec_open_idx1_slot

\* The step keeps the chunks and the lists on disk, and does not move back.
Grows(s, w) ==
  /\ Keeps(s, w)
  /\ w.pos >= s.pos
  /\ \A off \in Nat : \A id : IsList(s, off, id) => IsList(w, off, id)

\* The step writes no ix## chunk.
NoNewIx(s, w) ==
  \A at \in DOMAIN w.disk : w.disk[at].id = "ix" =>
    at \in DOMAIN s.disk /\ w.disk[at] = s.disk[at]

\* An index that leads to its chunks still does once more chunks are written.
LEMMA KeepsPoint ==
  ASSUME NEW s, NEW w, Keeps(s, w), NEW b, NEW t, NEW ents, EntsPoint(s, b, t, ents)
  PROVE  EntsPoint(w, b, t, ents)
BY DEF Keeps, EntsPoint, Points, MediaIds, ListIds

\* So does an ix## record.
LEMMA RecordKeeps ==
  ASSUME NEW s, NEW w, Keeps(s, w), NEW t, NEW r, RecordPoints(s, t, r)
  PROVE  RecordPoints(w, t, r)
BY DEF Keeps, RecordPoints, ListIds

\* A step that leaves the output alone keeps all that is on it.
LEMMA SameDiskGrows ==
  ASSUME NEW s, NEW w, w.disk = s.disk, w.pos = s.pos, s.pos \in Nat
  PROVE  Grows(s, w) /\ NoNewIx(s, w) /\ (Below(s) => Below(w))
BY DEF Grows, NoNewIx, Below, Keeps, IsList

-----------------------------------------------------------------------------
(* Numbers and sequences                                                   *)

\* Pad rounds a length up to an even number.
LEMMA PadNat == ASSUME NEW n \in Nat PROVE Pad(n) \in Nat /\ Pad(n) >= n /\ Pad(n) % 2 = 0
BY DEF Pad

\* Sums of even numbers are even: chunk and list headers keep the word
\* alignment.
LEMMA EvenSum ==
  ASSUME NEW a \in Nat, NEW b \in Nat, a % 2 = 0, b % 2 = 0
  PROVE  (a + b) % 2 = 0 /\ (a + 8 + b) % 2 = 0 /\ (a + 12) % 2 = 0
OBVIOUS

\* Rounding up to a multiple of an even n, as emit_padding_junk_for does,
\* gives an even number that is no smaller.
LEMMA RoundUp ==
  ASSUME NEW n \in Nat, n # 0, n % 2 = 0, NEW x \in Nat
  PROVE  /\ ((x + n - 1) \div n) * n \in Nat
         /\ (((x + n - 1) \div n) * n) % 2 = 0
         /\ ((x + n - 1) \div n) * n >= x
<1> DEFINE q == (x + n - 1) \div n
<1>1. q \in Nat /\ x + n - 1 < q * n + n
  OBVIOUS
<1> HIDE DEF q
<1>2. PICK k \in Nat : n = 2 * k
  BY n = 2 * (n \div 2), n \div 2 \in Nat
<1>3. q * n \in Nat /\ q * n = 2 * (q * k) /\ q * k \in Nat
  BY <1>1, <1>2
<1>4. q * n >= x
  BY <1>1, <1>3
<1>5. (q * n) % 2 = 0
  BY <1>3
<1> QED BY <1>3, <1>4, <1>5 DEF q

\* A set of naturals that is not empty has a least element; used where a
\* proof goes by induction on the number of streams.
LEMMA NatLeast ==
  ASSUME NEW T, T \subseteq Nat, T # {}
  PROVE  \E x \in T : \A y \in T : x <= y
<1>1. \A i, j \in Nat : <<i, j>> \in OpToRel(<, Nat) <=> i < j
  BY DEF OpToRel
<1>2. PICK x \in T : \A y \in T : ~(<<y, x>> \in OpToRel(<, Nat))
  BY NatLessThanWellFounded, WFMin
<1>3. \A y \in T : ~(y < x) BY <1>1, <1>2
<1> QED BY <1>3

\* A function on the streams has a largest value: the CHOOSE of
\* patch_post_counts is over a set that is not empty.
LEMMA MaxExists ==
  ASSUME NEW f \in [Streams -> Nat]
  PROVE  \E t \in Streams : \A u \in Streams : f[u] <= f[t]
<1> DEFINE Upto(n) == 0 .. n - 1
           Bad == {n \in 1 .. NumStreams :
                     ~ \E t \in Upto(n) : \A u \in Upto(n) : f[u] <= f[t]}
<1>1. NumStreams \in Nat /\ NumStreams >= 1 /\ Streams = Upto(NumStreams)
  BY MuxerAssumption DEF Streams
<1>2. Bad = {}
  <2> SUFFICES ASSUME Bad # {} PROVE FALSE
    OBVIOUS
  <2>1. PICK n \in Bad : \A j \in Bad : n <= j
    <3>1. Bad \subseteq Nat BY <1>1
    <3> HIDE DEF Bad
    <3> QED BY <3>1, NatLeast
  <2>2. n # 1
    <3>1. 0 \in Upto(1) /\ \A u \in Upto(1) : u = 0 OBVIOUS
    <3>2. f[0] <= f[0] BY <1>1
    <3> QED BY <3>1, <3>2
  <2>3. n - 1 \in 1 .. NumStreams /\ ~(n <= n - 1) /\ n - 1 \in Streams
    BY <1>1, <2>2
  <2>4. PICK t \in Upto(n - 1) : \A u \in Upto(n - 1) : f[u] <= f[t]
    BY <2>1, <2>3
  <2>5. /\ t \in Upto(n) /\ n - 1 \in Upto(n) /\ t \in Streams
        /\ \A u \in Upto(n) : u \in Upto(n - 1) \/ u = n - 1
    BY <1>1, <2>3
  <2>6. f[t] \in Nat /\ f[n - 1] \in Nat /\ \A u \in Upto(n) : f[u] \in Nat
    BY <1>1, <2>3, <2>5
  <2>7. CASE f[n - 1] <= f[t]
    <3>1. \A u \in Upto(n) : f[u] <= f[t] BY <2>4, <2>5, <2>7
    <3> QED BY <2>5, <3>1
  <2>8. CASE ~(f[n - 1] <= f[t])
    <3>1. \A u \in Upto(n) : f[u] <= f[n - 1] BY <2>4, <2>5, <2>6, <2>8
    <3> QED BY <2>5, <3>1
  <2> QED BY <2>7, <2>8
<1>3. NumStreams \in 1 .. NumStreams BY <1>1
<1> QED BY <1>1, <1>2, <1>3

\* If there is a video stream there is a first one.
LEMMA FirstOfVideo ==
  ASSUME VideoStreams # {}
  PROVE  FirstOf(VideoStreams) \in Streams
<1>1. VideoStreams \subseteq Nat /\ VideoStreams \subseteq Streams
  BY MuxerAssumption DEF VideoStreams, Streams
<1>2. PICK t \in VideoStreams : \A u \in VideoStreams : t <= u
  BY <1>1, NatLeast
<1> QED BY <1>1, <1>2 DEF FirstOf

\* A prefix of a sequence, as the patches of the indx chunks take one, has
\* its elements.
LEMMA Prefix ==
  ASSUME NEW S, NEW q \in Seq(S), NEW n \in Nat, n <= Len(q)
  PROVE  /\ SubSeq(q, 1, n) \in Seq(S)
         /\ \A i \in DOMAIN SubSeq(q, 1, n) : i \in DOMAIN q /\ SubSeq(q, 1, n)[i] = q[i]
<1>1. \A i \in 1 .. n : q[i] \in S OBVIOUS
<1>2. /\ SubSeq(q, 1, n) \in Seq(S)
      /\ Len(SubSeq(q, 1, n)) = IF 1 <= n THEN n - 1 + 1 ELSE 0
      /\ \A i \in 1 .. n - 1 + 1 : SubSeq(q, 1, n)[i] = q[1 + i - 1]
  BY <1>1, SubSeqProperties
<1>3. DOMAIN SubSeq(q, 1, n) = 1 .. n
  BY <1>2
<1>4. \A i \in 1 .. n : SubSeq(q, 1, n)[i] = q[i] /\ i \in DOMAIN q
  BY <1>2
<1> QED BY <1>2, <1>3, <1>4

\* close_rec_cluster patches the size of an idx1 entry in place.
LEMMA PatchedIndex ==
  ASSUME NEW index \in Seq(IndexEntry), NEW slot \in 1 .. Len(index), NEW n \in Nat
  PROVE  /\ [index EXCEPT ![slot].len = n] \in Seq(IndexEntry)
         /\ Len([index EXCEPT ![slot].len = n]) = Len(index)
<1>1. index[slot] \in IndexEntry OBVIOUS
<1>2. [index[slot] EXCEPT !.len = n] \in IndexEntry
  BY <1>1 DEF IndexEntry
<1> QED BY <1>1, <1>2

-----------------------------------------------------------------------------
(* Constants and cells                                                     *)

\* A configuration has its type, and an even padding granularity.
LEMMA OptsTyped ==
  ASSUME opts \in Options
  PROVE  opts \in Config /\ opts.granularity % 2 = 0
BY MuxerAssumption

\* Cell makes a cell.
LEMMA CellTyped ==
  ASSUME NEW id \in ListIds \cup MediaIds \cup {"hdrl", "JUNK", "ix", "idx1"},
         NEW t \in Streams \cup {NoTrack}, NEW n \in Nat
  PROVE  Cell(id, t, n) \in CellType
<1>1. <<>> \in Seq(IxEntry) OBVIOUS
<1> QED BY <1>1, Zenon DEF Cell, CellType

\* Put adds or replaces one element of a function.
LEMMA PutFacts ==
  ASSUME NEW f, NEW x, NEW v
  PROVE  /\ DOMAIN Put(f, x, v) = DOMAIN f \cup {x}
         /\ Put(f, x, v)[x] = v
         /\ \A y \in DOMAIN f : y # x => Put(f, x, v)[y] = f[y]
BY DEF Put

\* sample_count_of_packet is a natural number.
LEMMA SampleCountNat ==
  ASSUME NEW p \in Packets
  PROVE  SampleCountOfPacket(p) \in Nat
<1>1. p.trk \in Streams /\ p.len \in Nat /\ p.dur \in Nat /\ SampleSize[p.trk] \in Nat
  BY MuxerAssumption
<1> DEFINE n == SampleSize[p.trk]
<1>2. n > 0 => p.len \div n \in Nat
  <2>1. n \in Nat BY <1>1
  <2> HIDE DEF n
  <2> QED BY <1>1, <2>1
<1> QED BY <1>1, <1>2 DEF SampleCountOfPacket

\* write_header reserves a natural number of bytes for the entries of an
\* indx.
LEMMA IndxBytesNat ==
  ASSUME opts \in Options, NEW t \in Streams
  PROVE  IndxBytes(t) \in Nat
<1>1. opts.super \in Nat /\ opts.strl_std \in Nat BY OptsTyped DEF Config
<1>2. EntrySize(t) = 8 \/ EntrySize(t) = 12 BY DEF EntrySize
<1>3. opts.strl_std * 8 \in Nat /\ opts.strl_std * 12 \in Nat BY <1>1
<1>4. opts.strl_std * EntrySize(t) \in Nat BY <1>2, <1>3
<1>5. SuperCapacity * SuperEntry \in Nat
  BY <1>1 DEF SuperCapacity, SuperEntry, MinSuperCapacity, DefaultSuperCapacity
<1> QED BY <1>4, <1>5 DEF IndxBytes

-----------------------------------------------------------------------------
(* Updates of the muxer that leave its output alone                        *)

SetOk(s, b) == [s EXCEPT !.ok = b]

\* Changing ok keeps the type and the fields Good speaks of.
LEMMA OkTyped ==
  ASSUME NEW s, Typed(s), NEW b \in BOOLEAN, NEW w, w = SetOk(s, b)
  PROVE  Typed(w) /\ w.disk = s.disk /\ w.pos = s.pos /\ SameFields(s, w) /\ w.ok = b
<1>1. w \in MuxerRecord(s.disk)
  BY Zenon DEF Typed, MuxerRecord, SetOk
<1>2. w.disk = s.disk /\ w.pos = s.pos /\ SameFields(s, w) /\ w.ok = b
  BY Zenon DEF Typed, MuxerRecord, SameFields, Near, SetOk
<1> QED BY <1>1, <1>2 DEF Typed, SameFields

SetActive(s, b) == [s EXCEPT !.strl_std_active = b]

\* Changing the compact-layout flag keeps the type and the fields Good speaks
\* of.
LEMMA ActiveTyped ==
  ASSUME NEW s, Typed(s), NEW b \in BOOLEAN, NEW w, w = SetActive(s, b)
  PROVE  Typed(w) /\ w.disk = s.disk /\ w.pos = s.pos /\ SameFields(s, w)
<1>1. w \in MuxerRecord(s.disk)
  BY Zenon DEF Typed, MuxerRecord, SetActive
<1>2. w.disk = s.disk /\ w.pos = s.pos /\ SameFields(s, w)
  BY Zenon DEF Typed, MuxerRecord, SameFields, Near, SetActive
<1> QED BY <1>1, <1>2 DEF Typed, SameFields

SetPending(s, off) == [s EXCEPT !.pending_field2 = off]

\* Changing pending_field2_offset keeps the type and the fields Good speaks
\* of.
LEMMA PendingTyped ==
  ASSUME NEW s, Typed(s), NEW off \in Nat \cup {NoField2}, NEW w, w = SetPending(s, off)
  PROVE  Typed(w) /\ w.disk = s.disk /\ w.pos = s.pos /\ SameFields(s, w)
<1>1. w \in MuxerRecord(s.disk)
  BY Zenon DEF Typed, MuxerRecord, SetPending
<1>2. w.disk = s.disk /\ w.pos = s.pos /\ SameFields(s, w)
  BY Zenon DEF Typed, MuxerRecord, SameFields, Near, SetPending
<1> QED BY <1>1, <1>2 DEF Typed, SameFields

SetSegments(s, segments) == [s EXCEPT !.segments = segments]

\* Changing the segment records keeps the type and the fields Good speaks of.
LEMMA SegmentsTyped ==
  ASSUME NEW s, Typed(s), NEW segments \in Seq([at : Nat, size : Nat, packets : Nat]),
         NEW w, w = SetSegments(s, segments)
  PROVE  Typed(w) /\ w.disk = s.disk /\ w.pos = s.pos /\ SameFields(s, w)
<1>1. w \in MuxerRecord(s.disk)
  BY Zenon DEF Typed, MuxerRecord, SetSegments
<1>2. w.disk = s.disk /\ w.pos = s.pos /\ SameFields(s, w)
  BY Zenon DEF Typed, MuxerRecord, SameFields, Near, SetSegments
<1> QED BY <1>1, <1>2 DEF Typed, SameFields

SetRecBytes(s, n) == [s EXCEPT !.rec_bytes = n]

\* Changing rec_bytes keeps the type and the fields Good speaks of.
LEMMA RecBytesTyped ==
  ASSUME NEW s, Typed(s), NEW n \in Nat, NEW w, w = SetRecBytes(s, n)
  PROVE  Typed(w) /\ w.disk = s.disk /\ w.pos = s.pos /\ SameFields(s, w)
<1>1. w \in MuxerRecord(s.disk)
  BY Zenon DEF Typed, MuxerRecord, SetRecBytes
<1>2. w.disk = s.disk /\ w.pos = s.pos /\ SameFields(s, w)
  BY Zenon DEF Typed, MuxerRecord, SameFields, Near, SetRecBytes
<1> QED BY <1>1, <1>2 DEF Typed, SameFields

SetRecCounts(s, packets, bytes) == [s EXCEPT !.rec_packets = packets, !.rec_bytes = bytes]

\* Changing both cluster counts keeps the type and the fields Good speaks of.
LEMMA RecCountsTyped ==
  ASSUME NEW s, Typed(s), NEW packets \in Nat, NEW bytes \in Nat,
         NEW w, w = SetRecCounts(s, packets, bytes)
  PROVE  Typed(w) /\ w.disk = s.disk /\ w.pos = s.pos /\ SameFields(s, w)
<1>1. w \in MuxerRecord(s.disk)
  BY Zenon DEF Typed, MuxerRecord, SetRecCounts
<1>2. w.disk = s.disk /\ w.pos = s.pos /\ SameFields(s, w)
  BY Zenon DEF Typed, MuxerRecord, SameFields, Near, SetRecCounts
<1> QED BY <1>1, <1>2 DEF Typed, SameFields

SetStamp(s, stamp) == [s EXCEPT !.stamp = stamp]

\* Stamping the header counts keeps the type and the fields Good speaks of.
LEMMA StampTyped ==
  ASSUME NEW s, Typed(s),
         NEW stamp \in [frames : Nat, buffer : Nat, length : [Streams -> Nat]],
         NEW w, w = SetStamp(s, stamp)
  PROVE  Typed(w) /\ w.disk = s.disk /\ w.pos = s.pos /\ SameFields(s, w)
<1>1. w \in MuxerRecord(s.disk)
  BY Zenon DEF Typed, MuxerRecord, SetStamp
<1>2. w.disk = s.disk /\ w.pos = s.pos /\ SameFields(s, w)
  BY Zenon DEF Typed, MuxerRecord, SameFields, Near, SetStamp
<1> QED BY <1>1, <1>2 DEF Typed, SameFields

SetIndex(s, index) == [s EXCEPT !.index = index]

\* A longer idx1 index keeps the type.
LEMMA IndexTyped ==
  ASSUME NEW s, Typed(s), NEW index \in Seq(IndexEntry), Len(index) >= Len(s.index),
         NEW w, w = SetIndex(s, index)
  PROVE  /\ Typed(w) /\ w.disk = s.disk /\ w.pos = s.pos /\ Near(s, w)
         /\ w.tracks = s.tracks /\ w.rec_open_size_off = s.rec_open_size_off
<1>1. w \in MuxerRecord(s.disk)
  BY Zenon DEF Typed, MuxerRecord, SetIndex
<1>2. /\ w.disk = s.disk /\ w.pos = s.pos /\ Near(s, w)
      /\ w.tracks = s.tracks /\ w.rec_open_size_off = s.rec_open_size_off
      /\ w.index = index /\ w.rec_open_idx1_slot = s.rec_open_idx1_slot
  BY Zenon DEF Typed, MuxerRecord, SetIndex, Near
<1>3. s.index \in Seq(IndexEntry) /\ s.rec_open_idx1_slot \in 0 .. Len(s.index)
  BY DEF Typed, MuxerRecord
<1>4. s.rec_open_idx1_slot \in 0 .. Len(index)
  BY <1>3
<1> QED BY <1>1, <1>2, <1>4 DEF Typed

SetOpen(s, off) == [s EXCEPT !.rec_open_size_off = off]

\* Taking rec_open_size_off keeps the type.
LEMMA SetOpenTyped ==
  ASSUME NEW s, Typed(s), NEW off \in Nat, NEW w, w = SetOpen(s, off)
  PROVE  /\ Typed(w) /\ w.disk = s.disk /\ w.pos = s.pos /\ Near(s, w)
         /\ w.tracks = s.tracks /\ w.rec_open_size_off = off
         /\ w.index = s.index /\ w.rec_open_idx1_slot = s.rec_open_idx1_slot
<1>1. w \in MuxerRecord(s.disk)
  BY Zenon DEF Typed, MuxerRecord, SetOpen
<1>2. /\ w.disk = s.disk /\ w.pos = s.pos /\ Near(s, w)
      /\ w.tracks = s.tracks /\ w.rec_open_size_off = off
      /\ w.index = s.index /\ w.rec_open_idx1_slot = s.rec_open_idx1_slot
  BY Zenon DEF Typed, MuxerRecord, SetOpen, Near
<1> QED BY <1>1, <1>2 DEF Typed

SetClosed(s, index, slot, packets, bytes) ==
  [s EXCEPT !.index = index, !.rec_open_idx1_slot = slot, !.rec_packets = packets, !.rec_bytes = bytes]

\* Resetting the cluster bookkeeping keeps the type if the slot is one of the
\* index.
LEMMA SetClosedTyped ==
  ASSUME NEW s, Typed(s), NEW packets \in Nat, NEW bytes \in Nat,
         NEW index \in Seq(IndexEntry), NEW slot \in 0 .. Len(index),
         NEW w, w = SetClosed(s, index, slot, packets, bytes)
  PROVE  /\ Typed(w) /\ w.disk = s.disk /\ w.pos = s.pos /\ Near(s, w)
         /\ w.tracks = s.tracks /\ w.rec_open_size_off = s.rec_open_size_off
<1>1. w \in MuxerRecord(s.disk)
  <2>1. slot \in Nat OBVIOUS
  <2> QED BY <2>1, Zenon DEF Typed, MuxerRecord, SetClosed
<1>2. /\ w.disk = s.disk /\ w.pos = s.pos /\ Near(s, w)
      /\ w.tracks = s.tracks /\ w.rec_open_size_off = s.rec_open_size_off
      /\ w.index = index /\ w.rec_open_idx1_slot = slot
  BY Zenon DEF Typed, MuxerRecord, SetClosed, Near
<1> QED BY <1>1, <1>2 DEF Typed

SetCluster(s, off, slot, index) ==
  [s EXCEPT !.rec_open_size_off = off, !.rec_packets = 0, !.rec_bytes = 0,
            !.rec_open_idx1_slot = slot, !.index = index]

\* Opening a cluster keeps the type if the slot is one of the index.
LEMMA ClusterTyped ==
  ASSUME NEW s, Typed(s), NEW off \in Nat,
         NEW index \in Seq(IndexEntry), NEW slot \in 0 .. Len(index),
         NEW w, w = SetCluster(s, off, slot, index)
  PROVE  /\ Typed(w) /\ w.disk = s.disk /\ w.pos = s.pos /\ Near(s, w)
         /\ w.tracks = s.tracks /\ w.rec_open_size_off = off
<1>1. w \in MuxerRecord(s.disk)
  <2>1. slot \in Nat OBVIOUS
  <2> QED BY <2>1, Zenon DEF Typed, MuxerRecord, SetCluster
<1>2. /\ w.disk = s.disk /\ w.pos = s.pos /\ Near(s, w)
      /\ w.tracks = s.tracks /\ w.rec_open_size_off = off
      /\ w.index = index /\ w.rec_open_idx1_slot = slot
  BY Zenon DEF Typed, MuxerRecord, SetCluster, Near
<1> QED BY <1>1, <1>2 DEF Typed

SetTracks(s, tracks) == [s EXCEPT !.tracks = tracks]

\* Replacing the track states by track states keeps the type.
LEMMA TracksTyped ==
  ASSUME NEW s, Typed(s), NEW tracks \in [Streams -> TrackState],
         NEW w, w = SetTracks(s, tracks)
  PROVE  /\ Typed(w) /\ w.disk = s.disk /\ w.pos = s.pos /\ Near(s, w)
         /\ w.tracks = tracks /\ w.rec_open_size_off = s.rec_open_size_off
<1>1. w \in MuxerRecord(s.disk)
  BY Zenon DEF Typed, MuxerRecord, SetTracks
<1>2. /\ w.disk = s.disk /\ w.pos = s.pos /\ Near(s, w)
      /\ w.tracks = tracks /\ w.rec_open_size_off = s.rec_open_size_off
      /\ w.index = s.index /\ w.rec_open_idx1_slot = s.rec_open_idx1_slot
  BY Zenon DEF Typed, MuxerRecord, SetTracks, Near
<1> QED BY <1>1, <1>2 DEF Typed

SetStamped(s, tracks, active, snapshot) ==
  [s EXCEPT !.tracks = tracks, !.strl_std_active = active, !.snapshot = snapshot]

\* Replacing the track states, the compact flag and the idx1 snapshot keeps
\* the type.
LEMMA StampedTyped ==
  ASSUME NEW s, Typed(s), NEW tracks \in [Streams -> TrackState],
         NEW active \in BOOLEAN, NEW snapshot \in Seq(IndexEntry),
         NEW w, w = SetStamped(s, tracks, active, snapshot)
  PROVE  /\ Typed(w) /\ w.disk = s.disk /\ w.pos = s.pos /\ Near(s, w)
         /\ w.tracks = tracks /\ w.rec_open_size_off = s.rec_open_size_off
<1>1. w \in MuxerRecord(s.disk)
  BY Zenon DEF Typed, MuxerRecord, SetStamped
<1>2. /\ w.disk = s.disk /\ w.pos = s.pos /\ Near(s, w)
      /\ w.tracks = tracks /\ w.rec_open_size_off = s.rec_open_size_off
      /\ w.index = s.index /\ w.rec_open_idx1_slot = s.rec_open_idx1_slot
  BY Zenon DEF Typed, MuxerRecord, SetStamped, Near
<1> QED BY <1>1, <1>2 DEF Typed

SetPlaced(s, packets, tracks) == [s EXCEPT !.segment_packets = packets, !.tracks = tracks]

\* Replacing the track states and the packet count of the segment keeps the
\* type.
LEMMA PlacedTyped ==
  ASSUME NEW s, Typed(s), NEW packets \in Nat, NEW tracks \in [Streams -> TrackState],
         NEW w, w = SetPlaced(s, packets, tracks)
  PROVE  /\ Typed(w) /\ w.disk = s.disk /\ w.pos = s.pos /\ Near(s, w)
         /\ w.tracks = tracks /\ w.rec_open_size_off = s.rec_open_size_off
<1>1. w \in MuxerRecord(s.disk)
  BY Zenon DEF Typed, MuxerRecord, SetPlaced
<1>2. /\ w.disk = s.disk /\ w.pos = s.pos /\ Near(s, w)
      /\ w.tracks = tracks /\ w.rec_open_size_off = s.rec_open_size_off
      /\ w.index = s.index /\ w.rec_open_idx1_slot = s.rec_open_idx1_slot
  BY Zenon DEF Typed, MuxerRecord, SetPlaced, Near
<1> QED BY <1>1, <1>2 DEF Typed

SetSegmentStart(s, riff, movi) ==
  [s EXCEPT !.riff_size_off = riff, !.movi_size_off = movi,
            !.segment_packets = 0, !.rec_open_idx1_slot = NoSlot,
            !.rec_open_size_off = NoList, !.rec_packets = 0, !.rec_bytes = 0]

\* The bookkeeping of open_avix_segment keeps the type.
LEMMA SegmentStartTyped ==
  ASSUME NEW s, Typed(s), NEW riff \in Nat, NEW movi \in Nat,
         NEW w, w = SetSegmentStart(s, riff, movi)
  PROVE  /\ Typed(w) /\ w.disk = s.disk /\ w.pos = s.pos
         /\ w.riff_size_off = riff /\ w.movi_size_off = movi
         /\ w.rec_open_size_off = NoList
         /\ w.tracks = s.tracks /\ (s.header_written => w.header_written)
<1>1. w \in MuxerRecord(s.disk)
  <2>1. NoSlot \in Nat /\ NoList \in Nat /\ 0 \in Nat BY DEF NoSlot, NoList
  <2> QED BY <2>1, Zenon DEF Typed, MuxerRecord, SetSegmentStart
<1>2. /\ w.disk = s.disk /\ w.pos = s.pos
      /\ w.riff_size_off = riff /\ w.movi_size_off = movi
      /\ w.rec_open_size_off = NoList /\ w.rec_open_idx1_slot = NoSlot
      /\ w.index = s.index
      /\ w.tracks = s.tracks /\ w.header_written = s.header_written
  BY Zenon DEF Typed, MuxerRecord, SetSegmentStart
<1>3. NoSlot \in 0 .. Len(s.index)
  BY DEF NoSlot, Typed, MuxerRecord
<1> QED BY <1>1, <1>2, <1>3 DEF Typed

SetHeader(s, riff, movi) ==
  [s EXCEPT !.ok = TRUE, !.header_written = TRUE,
            !.riff_size_off = riff, !.movi_size_off = movi,
            !.segment_packets = 0, !.rec_open_size_off = NoList,
            !.rec_packets = 0]

\* The bookkeeping of write_header keeps the type.
LEMMA HeaderTyped ==
  ASSUME NEW s, Typed(s), NEW riff \in Nat, NEW movi \in Nat,
         NEW w, w = SetHeader(s, riff, movi)
  PROVE  /\ Typed(w) /\ w.disk = s.disk /\ w.pos = s.pos
         /\ w.riff_size_off = riff /\ w.movi_size_off = movi
         /\ w.rec_open_size_off = NoList
         /\ w.tracks = s.tracks /\ w.header_written
<1>1. w \in MuxerRecord(s.disk)
  <2>1. NoList \in Nat /\ 0 \in Nat BY DEF NoList
  <2> QED BY <2>1, Zenon DEF Typed, MuxerRecord, SetHeader
<1>2. /\ w.disk = s.disk /\ w.pos = s.pos
      /\ w.riff_size_off = riff /\ w.movi_size_off = movi
      /\ w.rec_open_size_off = NoList
      /\ w.index = s.index /\ w.rec_open_idx1_slot = s.rec_open_idx1_slot
      /\ w.tracks = s.tracks /\ w.header_written = TRUE
  BY Zenon DEF Typed, MuxerRecord, SetHeader
<1> QED BY <1>1, <1>2 DEF Typed

SetVerdict(s, breaches, ok) ==
  [s EXCEPT !.over_budget = breaches, !.ok = ok, !.trailer_written = ok]

-----------------------------------------------------------------------------
(* Updates of the output                                                   *)

SetDiskPos(s, D, P) == [s EXCEPT !.disk = D, !.pos = P]

\* Replacing output and position by a typed output and an even position keeps
\* the type.
LEMMA DiskPosTyped ==
  ASSUME NEW s, Typed(s), NEW D, DiskOK(D), NEW P \in Nat, P % 2 = 0,
         NEW w, w = SetDiskPos(s, D, P)
  PROVE  Typed(w) /\ w.disk = D /\ w.pos = P /\ SameFields(s, w)
<1>1. w \in MuxerRecord(D)
  BY Zenon DEF Typed, MuxerRecord, SetDiskPos
<1>2. w.disk = D /\ w.pos = P /\ SameFields(s, w)
  BY Zenon DEF Typed, MuxerRecord, SameFields, Near, SetDiskPos
<1> QED BY <1>1, <1>2 DEF Typed, SameFields

AddAt(s, cell, P) == SetDiskPos(s, Put(s.disk, s.pos, cell), P)

\* A cell added at the position, the position moving past its header to an
\* even offset, leaves every other cell as it was.
LEMMA AddCell ==
  ASSUME NEW s, Typed(s), Below(s), NEW cell \in CellType,
         NEW P \in Nat, P % 2 = 0, P >= s.pos + 8,
         NEW w, w = AddAt(s, cell, P)
  PROVE  /\ Typed(w) /\ Below(w) /\ Grows(s, w) /\ SameFields(s, w) /\ w.pos = P
         /\ DOMAIN w.disk = DOMAIN s.disk \cup {s.pos}
         /\ w.disk[s.pos] = cell
         /\ \A at \in DOMAIN s.disk : w.disk[at] = s.disk[at] /\ at # s.pos
         /\ s.pos \in Nat
<1> DEFINE D == Put(s.disk, s.pos, cell)
<1>2. s.pos \in Nat /\ s.pos % 2 = 0
  BY DEF Typed, MuxerRecord
<1>4. /\ DOMAIN D = DOMAIN s.disk \cup {s.pos} /\ D[s.pos] = cell
      /\ \A at \in DOMAIN s.disk : D[at] = s.disk[at] /\ at < s.pos /\ at \in Nat /\ at # s.pos
  <2>1. \A at \in DOMAIN s.disk : at < s.pos /\ at # s.pos /\ at \in Nat
    BY <1>2 DEF Below, Typed, DiskOK
  <2>2. /\ DOMAIN D = DOMAIN s.disk \cup {s.pos} /\ D[s.pos] = cell
        /\ \A at \in DOMAIN s.disk : at # s.pos => D[at] = s.disk[at]
    BY DEF Put
  <2> QED BY <2>1, <2>2, Zenon
<1>5. w = SetDiskPos(s, D, P) BY DEF AddAt
<1> HIDE DEF D
<1>6. DiskOK(D)
  <2>1. \A at \in DOMAIN s.disk : s.disk[at] \in CellType BY DEF Typed, DiskOK
  <2> QED BY <1>2, <1>4, <2>1 DEF DiskOK
<1>7. Typed(w) /\ w.disk = D /\ w.pos = P /\ SameFields(s, w)
  BY <1>5, <1>6, DiskPosTyped
<1>8. Below(w)
  BY <1>2, <1>4, <1>7 DEF Below
<1>9. Grows(s, w)
  <2>1. ASSUME NEW off \in Nat, NEW id, IsList(s, off, id) PROVE IsList(w, off, id)
    BY <1>2, <1>4, <1>7, <2>1 DEF IsList
  <2>2. Keeps(s, w) BY <1>4, <1>7 DEF Keeps
  <2> QED BY <1>2, <1>7, <2>1, <2>2 DEF Grows
<1> QED BY <1>2, <1>4, <1>7, <1>8, <1>9

\* write_chunk adds one cell and leaves every other cell as it was.
LEMMA WriteChunkGood ==
  ASSUME NEW s, Typed(s), Below(s), NEW cell \in CellType,
         NEW w, w = WriteChunk(s, cell)
  PROVE  /\ Typed(w) /\ Below(w) /\ Grows(s, w) /\ SameFields(s, w)
         /\ DOMAIN w.disk = DOMAIN s.disk \cup {s.pos}
         /\ w.disk[s.pos] = cell
         /\ \A at \in DOMAIN s.disk : w.disk[at] = s.disk[at] /\ at # s.pos
<1> DEFINE P == s.pos + 8 + Pad(cell.len)
<1>1. cell.len \in Nat /\ s.pos \in Nat /\ s.pos % 2 = 0
  BY DEF CellType, Typed, MuxerRecord
<1>2. P \in Nat /\ P % 2 = 0 /\ P >= s.pos + 8
  <2>1. Pad(cell.len) \in Nat /\ Pad(cell.len) % 2 = 0 BY <1>1, PadNat
  <2> QED BY <1>1, <2>1, EvenSum
<1>3. w = AddAt(s, cell, P)
  BY DEF WriteChunk, AddAt, SetDiskPos
<1> HIDE DEF P
<1> QED BY <1>2, <1>3, AddCell

\* begin_list adds a list header, and its size field is where the code says.
LEMMA BeginListGood ==
  ASSUME NEW s, Typed(s), Below(s), NEW id \in ListIds,
         NEW w, w = BeginList(s, id)
  PROVE  /\ Typed(w) /\ Below(w) /\ Grows(s, w) /\ SameFields(s, w)
         /\ w.pos = s.pos + 12 /\ s.pos \in Nat
         /\ IsList(w, s.pos + 4, id) /\ NoNewIx(s, w)
<1> DEFINE P == s.pos + 12
           cell == Cell(id, NoTrack, 0)
<1>1. s.pos \in Nat /\ s.pos % 2 = 0
  BY DEF Typed, MuxerRecord
<1>2. P \in Nat /\ P % 2 = 0 /\ P >= s.pos + 8 /\ P = s.pos + 12
  BY <1>1, EvenSum
<1>3. w = AddAt(s, cell, P)
  BY DEF BeginList, AddAt, SetDiskPos
<1>4. cell \in CellType /\ cell.id = id
  BY CellTyped DEF Cell
<1> HIDE DEF P, cell
<1>5. /\ Typed(w) /\ Below(w) /\ Grows(s, w) /\ SameFields(s, w) /\ w.pos = P
      /\ DOMAIN w.disk = DOMAIN s.disk \cup {s.pos}
      /\ w.disk[s.pos] = cell
      /\ \A at \in DOMAIN s.disk : w.disk[at] = s.disk[at] /\ at # s.pos
  BY <1>2, <1>3, <1>4, AddCell
<1>6. IsList(w, s.pos + 4, id)
  <2>1. s.pos + 4 - 4 = s.pos BY <1>1
  <2> QED BY <1>1, <1>2, <1>4, <1>5, <2>1 DEF IsList
<1>7. NoNewIx(s, w)
  BY <1>4, <1>5 DEF NoNewIx, ListIds
<1> QED BY <1>1, <1>2, <1>5, <1>6, <1>7

\* finish_chunk of a list on disk changes the size of that list only, or
\* fails and changes nothing on disk; it never writes a pad byte, every
\* position being even.
LEMMA FinishListGood ==
  ASSUME NEW s, Typed(s), Below(s), NEW off \in Nat, NEW id \in ListIds,
         IsList(s, off, id), NEW w, w = FinishList(s, off)
  PROVE  /\ Typed(w) /\ Below(w) /\ Grows(s, w) /\ SameFields(s, w) /\ NoNewIx(s, w)
<1> DEFINE body == s.pos - (off + 4)
           D == [s.disk EXCEPT ![off - 4] = [s.disk[off - 4] EXCEPT !.len = body]]
           P == s.pos + (body % 2)
<1>1. s.pos \in Nat /\ s.pos % 2 = 0
  BY DEF Typed, MuxerRecord
<1>2. CASE body > DwMax
  <2>1. w = SetOk(s, FALSE) BY <1>2 DEF FinishList, SetOk
  <2>2. Typed(w) /\ w.disk = s.disk /\ w.pos = s.pos /\ SameFields(s, w)
    BY <2>1, OkTyped
  <2> QED BY <1>1, <2>2, SameDiskGrows
<1>3. CASE ~(body > DwMax)
  <2>1. off >= 4 /\ off - 4 \in DOMAIN s.disk /\ s.disk[off - 4].id = id /\ off + 8 <= s.pos
    BY DEF IsList
  <2>2. body \in Nat /\ body % 2 = 0 BY <1>1, <2>1 DEF Below
  <2>3. P = s.pos BY <1>1, <2>2
  <2>4. w = SetDiskPos(s, D, P) BY <1>3 DEF FinishList, SetDiskPos
  <2>5. s.disk[off - 4] \in CellType BY <2>1 DEF Typed, DiskOK
  <2>6. /\ [s.disk[off - 4] EXCEPT !.len = body] \in CellType
        /\ [s.disk[off - 4] EXCEPT !.len = body].id = id
    BY <2>1, <2>2, <2>5 DEF CellType
  <2>7. /\ DOMAIN D = DOMAIN s.disk
        /\ D[off - 4] \in CellType /\ D[off - 4].id = id
        /\ \A at \in DOMAIN s.disk : at # off - 4 => D[at] = s.disk[at]
    BY <2>1, <2>6
  <2> HIDE DEF D, P, body
  <2>8. DiskOK(D)
    BY <2>7 DEF DiskOK, Typed
  <2>9. Typed(w) /\ w.disk = D /\ w.pos = P /\ SameFields(s, w)
    BY <1>1, <2>3, <2>4, <2>8, DiskPosTyped
  <2>10. Below(w) /\ Keeps(s, w) /\ NoNewIx(s, w)
    BY <2>1, <2>3, <2>7, <2>9 DEF Below, Keeps, NoNewIx, ListIds
  <2>11. \A o \in Nat : \A i : IsList(s, o, i) => IsList(w, o, i)
    BY <2>1, <2>3, <2>7, <2>9 DEF IsList
  <2> QED BY <1>1, <2>3, <2>9, <2>10, <2>11 DEF Grows
<1> QED BY <1>2, <1>3


-----------------------------------------------------------------------------
(* Good from one muxer state to the next                                   *)

\* A step within a segment that writes no index chunk and leaves the tracks
\* alone keeps Good, if an open cluster is on disk.
LEMMA GoodStep ==
  ASSUME NEW s, Good(s), NEW w, Typed(w), Below(w), Grows(s, w), NoNewIx(s, w),
         Near(s, w), w.tracks = s.tracks,
         w.rec_open_size_off # NoList => IsList(w, w.rec_open_size_off, "rec")
  PROVE  Good(w)
<1>1. s.riff_size_off \in Nat /\ s.movi_size_off \in Nat
  BY DEF Good, Typed, MuxerRecord
<1>2. Heads(w)
  BY <1>1 DEF Good, Heads, Grows, Near
<1>3. QwBase(w) = QwBase(s)
  BY DEF QwBase, MoviStart, Near
<1>4. \A at \in DOMAIN s.disk : s.disk[at].id = "ix" => w.disk[at] = s.disk[at] /\ at \in DOMAIN w.disk
  BY DEF Grows, Keeps, ListIds
<1>5. ASSUME NEW b, NEW t, NEW ents, EntsPoint(s, b, t, ents) PROVE EntsPoint(w, b, t, ents)
  BY <1>5, KeepsPoint DEF Grows
<1>6. Entries(w)
  <2>1. \A t \in Streams : EntsPoint(w, QwBase(w), t, w.tracks[t].ix_entries)
    BY <1>3, <1>5 DEF Good, Entries
  <2>2. \A at \in DOMAIN w.disk : w.disk[at].id = "ix" =>
       EntsPoint(w, w.disk[at].base, w.disk[at].trk, w.disk[at].ents)
    BY <1>5 DEF Good, Entries, NoNewIx
  <2>3. \A t \in Streams : w.tracks[t].indx.kind = "std" =>
       EntsPoint(w, w.tracks[t].indx.base, t, w.tracks[t].indx.ents)
    BY <1>5 DEF Good, Entries
  <2>4. \A t \in Streams : \A i \in DOMAIN w.tracks[t].ix_chunk_records :
       RecordPoints(w, t, w.tracks[t].ix_chunk_records[i])
    <3>1. ASSUME NEW t, NEW r, RecordPoints(s, t, r) PROVE RecordPoints(w, t, r)
      BY <1>4, <3>1 DEF RecordPoints
    <3> QED BY <3>1 DEF Good, Entries
  <2> QED BY <2>1, <2>2, <2>3, <2>4 DEF Entries
<1> QED BY <1>2, <1>6 DEF Good, Near

\* A step that leaves alone every field Good speaks of keeps Good.
LEMMA GoodSame ==
  ASSUME NEW s, Good(s), NEW w, Typed(w), Below(w), Grows(s, w), NoNewIx(s, w),
         SameFields(s, w)
  PROVE  Good(w) /\ Near(s, w) /\ w.tracks = s.tracks
         /\ w.rec_open_size_off = s.rec_open_size_off
<1>1. Near(s, w) /\ w.tracks = s.tracks /\ w.rec_open_size_off = s.rec_open_size_off
  BY DEF SameFields
<1>2. w.rec_open_size_off # NoList => IsList(w, w.rec_open_size_off, "rec")
  BY <1>1 DEF Good, Heads, Grows, Typed, MuxerRecord
<1> QED BY <1>1, <1>2, GoodStep

\* The same of a step that leaves the output alone too.
LEMMA GoodSameDisk ==
  ASSUME NEW s, Good(s), NEW w, Typed(w), w.disk = s.disk, w.pos = s.pos,
         SameFields(s, w)
  PROVE  Good(w)
<1>1. s.pos \in Nat BY DEF Good, Typed, MuxerRecord
<1>2. Below(w) /\ Grows(s, w) /\ NoNewIx(s, w)
  BY <1>1, SameDiskGrows DEF Good
<1> QED BY <1>2, GoodSame

\* A step that starts a segment keeps Good if no entry is pending: pending
\* entries are relative to the segment that is left.
LEMMA GoodMove ==
  ASSUME NEW s, Good(s), NEW w, Typed(w), Below(w), Grows(s, w), NoNewIx(s, w),
         Heads(w), w.header_written, w.tracks = s.tracks,
         \A t \in Streams : s.tracks[t].ix_entries = <<>>
  PROVE  Good(w)
<1>1. Keeps(s, w) BY DEF Grows
<1>2. \A t \in Streams : EntsPoint(w, QwBase(w), t, w.tracks[t].ix_entries)
  BY DEF EntsPoint
<1>3. ASSUME NEW at \in DOMAIN w.disk, w.disk[at].id = "ix"
      PROVE  EntsPoint(w, w.disk[at].base, w.disk[at].trk, w.disk[at].ents)
  <2>1. EntsPoint(s, w.disk[at].base, w.disk[at].trk, w.disk[at].ents)
    BY <1>3 DEF Good, Entries, NoNewIx
  <2> QED BY <1>1, <2>1, KeepsPoint
<1>4. ASSUME NEW t \in Streams, w.tracks[t].indx.kind = "std"
      PROVE  EntsPoint(w, w.tracks[t].indx.base, t, w.tracks[t].indx.ents)
  <2>1. EntsPoint(s, w.tracks[t].indx.base, t, w.tracks[t].indx.ents)
    BY <1>4 DEF Good, Entries
  <2> QED BY <1>1, <2>1, KeepsPoint
<1>5. ASSUME NEW t \in Streams, NEW i \in DOMAIN w.tracks[t].ix_chunk_records
      PROVE  RecordPoints(w, t, w.tracks[t].ix_chunk_records[i])
  <2>1. RecordPoints(s, t, w.tracks[t].ix_chunk_records[i]) BY DEF Good, Entries
  <2> QED BY <1>1, <2>1, RecordKeeps
<1>6. Entries(w) BY <1>2, <1>3, <1>4, <1>5 DEF Entries
<1> QED BY <1>6 DEF Good

\* A step that only changes the tracks keeps Good if their entries lead to
\* their chunks.
LEMMA GoodTracks ==
  ASSUME NEW s, Good(s), NEW w, Typed(w), w.disk = s.disk, w.pos = s.pos, Near(s, w),
         w.rec_open_size_off = s.rec_open_size_off,
         \A t \in Streams :
           /\ w.tracks[t].ix_chunk_records = s.tracks[t].ix_chunk_records
           /\ EntsPoint(s, QwBase(s), t, w.tracks[t].ix_entries)
           /\ w.tracks[t].indx.kind = "std" =>
                EntsPoint(s, w.tracks[t].indx.base, t, w.tracks[t].indx.ents)
  PROVE  Good(w)
<1>1. ASSUME NEW b, NEW t, NEW ents, EntsPoint(s, b, t, ents)
      PROVE  EntsPoint(w, b, t, ents)
  BY <1>1 DEF EntsPoint, Points
<1>2. \A t, r : RecordPoints(s, t, r) => RecordPoints(w, t, r)
  BY DEF RecordPoints
<1>3. QwBase(w) = QwBase(s) BY DEF QwBase, MoviStart, Near
<1>4. Entries(w)
  <2>1. \A t \in Streams : EntsPoint(w, QwBase(w), t, w.tracks[t].ix_entries)
    BY <1>1, <1>3
  <2>2. \A at \in DOMAIN w.disk : w.disk[at].id = "ix" =>
       EntsPoint(w, w.disk[at].base, w.disk[at].trk, w.disk[at].ents)
    BY <1>1 DEF Good, Entries
  <2>3. \A t \in Streams : w.tracks[t].indx.kind = "std" =>
       EntsPoint(w, w.tracks[t].indx.base, t, w.tracks[t].indx.ents)
    BY <1>1
  <2>4. \A t \in Streams : \A i \in DOMAIN w.tracks[t].ix_chunk_records :
       RecordPoints(w, t, w.tracks[t].ix_chunk_records[i])
    BY <1>2 DEF Good, Entries
  <2> QED BY <2>1, <2>2, <2>3, <2>4 DEF Entries
<1>5. Below(w) /\ Heads(w) /\ w.header_written
  BY DEF Good, Below, Heads, IsList, Near
<1> QED BY <1>4, <1>5 DEF Good

\* An answer changes nothing.
LEMMA SetOkGood ==
  ASSUME NEW s, Good(s), NEW b \in BOOLEAN, NEW w, w = SetOk(s, b)
  PROVE  Good(w)
<1>1. Typed(w) /\ w.disk = s.disk /\ w.pos = s.pos /\ SameFields(s, w)
  BY OkTyped DEF Good
<1> QED BY <1>1, GoodSameDisk

-----------------------------------------------------------------------------
(* LIST rec  clusters                                                      *)

\* The bookkeeping of open_rec_cluster after its begin_list keeps Good.
LEMMA ClusterOpened ==
  ASSUME NEW s, Good(s), NEW b, Typed(b), Below(b), Grows(s, b), NoNewIx(s, b),
         SameFields(s, b), NEW off \in Nat, IsList(b, off, "rec"),
         NEW index \in Seq(IndexEntry), NEW slot \in 0 .. Len(index),
         NEW w, w = SetCluster(b, off, slot, index)
  PROVE  Good(w) /\ Near(s, w) /\ w.tracks = s.tracks
<1>1. /\ Typed(w) /\ w.disk = b.disk /\ w.pos = b.pos /\ Near(b, w)
      /\ w.tracks = b.tracks /\ w.rec_open_size_off = off
  BY ClusterTyped
<1>2. Below(w) /\ Grows(s, w) /\ NoNewIx(s, w) /\ IsList(w, off, "rec")
  BY <1>1 DEF Below, Grows, Keeps, NoNewIx, IsList
<1>3. Near(s, w) /\ w.tracks = s.tracks
  BY <1>1 DEF Near, SameFields
<1> QED BY <1>1, <1>2, <1>3, GoodStep

\* open_rec_cluster
LEMMA OpenRecClusterGood ==
  ASSUME NEW s, Good(s), NEW w, w = OpenRecCluster(s)
  PROVE  Good(w) /\ Near(s, w) /\ w.tracks = s.tracks
<1> DEFINE b == BeginList(s, "rec")
           off == s.pos + 4
           rel == s.pos - MoviStart(s)
           listed == InPrimary(s) /\ rel <= DwMax
           entry == [id |-> "rec", trk |-> NoTrack, off |-> rel, len |-> 0, key |-> FALSE]
           slot == IF listed THEN Len(s.index) + 1 ELSE NoSlot
           index == IF listed THEN Append(b.index, entry) ELSE b.index
<1>1. /\ Typed(b) /\ Below(b) /\ Grows(s, b) /\ SameFields(s, b)
      /\ s.pos \in Nat /\ IsList(b, off, "rec") /\ NoNewIx(s, b)
  BY BeginListGood DEF Good, ListIds
<1>2. rel \in Nat /\ off \in Nat
  <2>1. s.movi_size_off \in Nat /\ s.pos \in Nat BY DEF Good, Typed, MuxerRecord
  <2>2. s.movi_size_off + 8 <= s.pos BY DEF Good, Heads, IsList
  <2> QED BY <2>1, <2>2 DEF MoviStart
<1>3. s.index \in Seq(IndexEntry) /\ b.index = s.index
  BY <1>1 DEF Good, Typed, MuxerRecord, SameFields
<1>4. entry \in IndexEntry
  BY <1>2 DEF IndexEntry
<1>5. index \in Seq(IndexEntry) /\ slot \in 0 .. Len(index)
  BY <1>3, <1>4 DEF NoSlot
<1>6. w = SetCluster(b, off, slot, index)
  BY DEF OpenRecCluster, SetCluster
<1> HIDE DEF b, slot, index, off
<1> QED BY <1>1, <1>2, <1>5, <1>6, ClusterOpened

\* close_rec_cluster leaves no cluster open, even when it fails.
LEMMA CloseRecClusterGood ==
  ASSUME NEW s, Good(s), NEW w, w = CloseRecCluster(s)
  PROVE  Good(w) /\ Near(s, w) /\ w.tracks = s.tracks /\ w.rec_open_size_off = NoList
<1> DEFINE off == s.rec_open_size_off
           s0 == SetOpen(s, NoList)
           f == FinishList(s0, off)
           n == s.pos - (off + 4)
           index == IF s.rec_open_idx1_slot = NoSlot THEN f.index
                    ELSE [f.index EXCEPT ![s.rec_open_idx1_slot].len = n]
           g == SetClosed(f, index, NoSlot, 0, 0)
<1>1. CASE off = NoList
  BY <1>1 DEF CloseRecCluster, Near
<1>2. CASE off # NoList
  <2>1. w = IF f.ok THEN g ELSE f
    BY <1>2 DEF CloseRecCluster, SetOpen, SetClosed, Then
  <2>2. off \in Nat /\ IsList(s, off, "rec") /\ s.pos \in Nat
    BY <1>2 DEF Good, Heads, Typed, MuxerRecord
  <2>3. /\ Typed(s0) /\ s0.disk = s.disk /\ s0.pos = s.pos /\ Near(s, s0)
        /\ s0.tracks = s.tracks /\ s0.rec_open_size_off = NoList
        /\ s0.index = s.index /\ s0.rec_open_idx1_slot = s.rec_open_idx1_slot
    BY SetOpenTyped DEF Good, NoList
  <2> HIDE DEF s0
  <2>4. Below(s0) /\ IsList(s0, off, "rec")
    BY <2>2, <2>3 DEF Good, Below, IsList
  <2>5. Typed(f) /\ Below(f) /\ Grows(s0, f) /\ SameFields(s0, f) /\ NoNewIx(s0, f)
    BY <2>2, <2>3, <2>4, FinishListGood DEF ListIds
  <2> HIDE DEF f
  <2>6. /\ Grows(s, f) /\ NoNewIx(s, f) /\ Near(s, f) /\ f.tracks = s.tracks
        /\ f.rec_open_size_off = NoList
        /\ f.index = s.index
    BY <2>3, <2>5 DEF Grows, Keeps, NoNewIx, IsList, SameFields, Near
  <2>7. Good(f)
    BY <2>5, <2>6, GoodStep
  <2>8. index \in Seq(IndexEntry) /\ NoSlot \in 0 .. Len(index)
    <3>1. s.index \in Seq(IndexEntry) /\ s.rec_open_idx1_slot \in 0 .. Len(s.index)
      BY DEF Good, Typed, MuxerRecord
    <3>2. n \in Nat BY <2>2 DEF IsList
    <3> HIDE DEF n
    <3>3. index \in Seq(IndexEntry)
      BY <2>6, <3>1, <3>2, PatchedIndex DEF NoSlot
    <3> QED BY <3>3 DEF NoSlot
  <2> HIDE DEF index
  <2>9. /\ Typed(g) /\ g.disk = f.disk /\ g.pos = f.pos /\ Near(f, g)
        /\ g.tracks = f.tracks /\ g.rec_open_size_off = f.rec_open_size_off
    BY <2>5, <2>8, SetClosedTyped
  <2> HIDE DEF g
  <2>10. Near(s, g) /\ g.tracks = s.tracks /\ g.rec_open_size_off = NoList
    BY <2>6, <2>9 DEF Near
  <2>11. Below(g) /\ Grows(s, g) /\ NoNewIx(s, g)
    BY <2>5, <2>6, <2>9 DEF Below, Grows, Keeps, NoNewIx, IsList
  <2>12. Good(g)
    BY <2>9, <2>10, <2>11, GoodStep
  <2> QED BY <2>1, <2>6, <2>7, <2>10, <2>12
<1> QED BY <1>1, <1>2

\* The cluster step of write_packet and write_sideband_chunk.
LEMMA ClusterGood ==
  ASSUME NEW s, Good(s), NEW len, NEW w, w = Cluster(s, len)
  PROVE  Good(w)
<1> DEFINE c == CloseRecCluster(s)
<1>1. Good(c) BY CloseRecClusterGood
<1>2. Good(OpenRecCluster(s)) /\ Good(OpenRecCluster(c))
  BY <1>1, OpenRecClusterGood
<1> HIDE DEF c
<1>3. w \in {s, OpenRecCluster(s), c, OpenRecCluster(c)}
  BY DEF Cluster, Then, c
<1> QED BY <1>1, <1>2, <1>3

-----------------------------------------------------------------------------
(* Standard indexes                                                        *)

\* The record and the ix## chunk made of a track's pending entries have their
\* types, and the track has no entry left.
LEMMA FlushedTyped ==
  ASSUME NEW s, Good(s), NEW t \in Streams
  PROVE  /\ Flushed(s, t) \in TrackState
         /\ Flushed(s, t).ix_entries = <<>>
         /\ Flushed(s, t).indx = s.tracks[t].indx
         /\ Flushed(s, t).ix_chunk_records
              = Append(s.tracks[t].ix_chunk_records, IxRecordOf(s, t))
         /\ IxRecordOf(s, t) \in IxRecord
         /\ IxCell(s, t) \in CellType
         /\ s.tracks[t] \in TrackState
<1>1. /\ s.tracks \in [Streams -> TrackState] /\ s.tracks[t] \in TrackState
      /\ s.pos \in Nat /\ s.movi_size_off \in Nat
  BY DEF Good, Typed, MuxerRecord
<1>2. /\ s.tracks[t].ix_entries \in Seq(IxEntry)
      /\ s.tracks[t].ix_chunk_records \in Seq(IxRecord)
      /\ s.tracks[t].sample_count \in Nat
      /\ s.tracks[t].ticks_at_last_ix_flush \in Nat
  BY <1>1 DEF TrackState
<1>3. /\ EntrySize(t) \in {8, 12}
      /\ Len(s.tracks[t].ix_entries) \in Nat
  BY <1>2 DEF EntrySize
<1>4. 24 + Len(s.tracks[t].ix_entries) * EntrySize(t) \in Nat
  <2> DEFINE n == Len(s.tracks[t].ix_entries)
  <2>1. n \in Nat BY <1>3
  <2> HIDE DEF n
  <2>2. n * 8 \in Nat /\ n * 12 \in Nat BY <2>1
  <2>3. 24 + n * EntrySize(t) \in Nat BY <1>3, <2>2
  <2> QED BY <2>3 DEF n
<1>5. QwBase(s) \in Nat
  BY <1>1 DEF QwBase, MoviStart
<1>6. Cell("ix", t, 24 + Len(s.tracks[t].ix_entries) * EntrySize(t)) \in CellType
  BY <1>4, CellTyped
<1>7. IxCell(s, t) \in CellType
  <2> DEFINE c == Cell("ix", t, 24 + Len(s.tracks[t].ix_entries) * EntrySize(t))
  <2>1. c \in CellType BY <1>6
  <2>2. IxCell(s, t) = [c EXCEPT !.base = QwBase(s), !.ents = s.tracks[t].ix_entries]
    BY DEF IxCell
  <2>3. s.tracks[t].ix_entries \in Seq(IxEntry) \cup Seq(IndexEntry) BY <1>2
  <2> HIDE DEF c
  <2> QED BY <1>5, <2>1, <2>2, <2>3, Zenon DEF CellType
<1>8. IxRecordOf(s, t) \in IxRecord
  <2>1. IxCell(s, t).len \in Nat BY <1>7 DEF CellType
  <2> QED BY <1>1, <1>2, <2>1 DEF IxRecordOf, IxRecord
<1>9. Append(s.tracks[t].ix_chunk_records, IxRecordOf(s, t)) \in Seq(IxRecord)
  BY <1>2, <1>8
<1>10. <<>> \in Seq(IxEntry)
  OBVIOUS
<1> QED BY <1>1, <1>2, <1>7, <1>8, <1>9, <1>10, Zenon DEF Flushed, TrackState

\* flush_ix_for_track: the track's pending entries move to an ix## chunk with
\* the base they were made for, and its record points at that chunk.
LEMMA FlushIxForTrackGood ==
  ASSUME NEW s, Good(s), NEW t \in Streams, NEW w, w = FlushIxForTrack(s, t)
  PROVE  /\ Good(w) /\ Near(s, w) /\ w.rec_open_size_off = s.rec_open_size_off
         /\ w.tracks[t].ix_entries = <<>>
         /\ \A x \in Streams : x # t => w.tracks[x].ix_entries = s.tracks[x].ix_entries
<1>1. CASE s.tracks[t].ix_entries = <<>>
  BY <1>1 DEF FlushIxForTrack, Near
<1>2. CASE s.tracks[t].ix_entries # <<>>
  <2> DEFINE k == Flushed(s, t)
             tracks == [s.tracks EXCEPT ![t] = k]
             u == SetTracks(s, tracks)
             cell == IxCell(s, t)
             r == IxRecordOf(s, t)
  <2>1. s.tracks \in [Streams -> TrackState] /\ s.pos \in Nat
    BY DEF Good, Typed, MuxerRecord
  <2>2. /\ k \in TrackState /\ k.ix_entries = <<>> /\ k.indx = s.tracks[t].indx
        /\ k.ix_chunk_records = Append(s.tracks[t].ix_chunk_records, r)
        /\ r \in IxRecord /\ cell \in CellType /\ s.tracks[t] \in TrackState
    BY FlushedTyped
  <2>3. /\ r.at = s.pos /\ r.size = 8 + cell.len
        /\ cell.id = "ix" /\ cell.trk = t /\ cell.base = QwBase(s)
        /\ cell.ents = s.tracks[t].ix_entries
    BY DEF IxRecordOf, IxCell, Cell
  <2>4. w = WriteChunk(u, cell)
    <3>1. w = WriteChunk([s EXCEPT !.tracks[t] = k], cell)
      BY <1>2 DEF FlushIxForTrack
    <3>2. u = [s EXCEPT !.tracks[t] = k]
      BY DEF SetTracks
    <3> QED BY <3>1, <3>2
  <2> HIDE DEF k, cell, r
  <2>5. /\ tracks \in [Streams -> TrackState] /\ tracks[t] = k
        /\ \A x \in Streams : x # t => tracks[x] = s.tracks[x]
    BY <2>1, <2>2
  <2> HIDE DEF tracks
  <2>6. /\ Typed(u) /\ u.disk = s.disk /\ u.pos = s.pos /\ Near(s, u)
        /\ u.tracks = tracks /\ u.rec_open_size_off = s.rec_open_size_off
    BY <2>5, TracksTyped DEF Good
  <2> HIDE DEF u
  <2>7. Below(u) BY <2>6 DEF Good, Below
  <2>8. /\ Typed(w) /\ Below(w) /\ Grows(u, w) /\ SameFields(u, w)
        /\ DOMAIN w.disk = DOMAIN u.disk \cup {u.pos}
        /\ w.disk[u.pos] = cell
        /\ \A at \in DOMAIN u.disk : w.disk[at] = u.disk[at] /\ at # u.pos
    BY <2>2, <2>4, <2>6, <2>7, WriteChunkGood
  <2>9. /\ Near(s, w) /\ w.tracks = tracks
        /\ w.rec_open_size_off = s.rec_open_size_off
    BY <2>6, <2>8 DEF Near, SameFields
  <2>10. Grows(s, w) /\ Keeps(s, w)
    BY <2>6, <2>8 DEF Grows, Keeps, IsList
  <2>11. Heads(w)
    <3>1. s.riff_size_off \in Nat /\ s.movi_size_off \in Nat /\ s.rec_open_size_off \in Nat
      BY DEF Good, Typed, MuxerRecord
    <3> QED BY <2>9, <2>10, <3>1 DEF Good, Heads, Grows, Near
  <2>12. Entries(w)
    <3>1. QwBase(w) = QwBase(s) BY <2>9 DEF QwBase, MoviStart, Near
    <3>2. ASSUME NEW x \in Streams
          PROVE  EntsPoint(w, QwBase(w), x, w.tracks[x].ix_entries)
      <4>1. CASE x = t BY <2>2, <2>5, <2>9, <4>1 DEF EntsPoint
      <4>2. CASE x # t
        <5>1. EntsPoint(s, QwBase(s), x, s.tracks[x].ix_entries) BY DEF Good, Entries
        <5> QED BY <2>5, <2>9, <2>10, <3>1, <4>2, <5>1, KeepsPoint
      <4> QED BY <4>1, <4>2
    <3>3. ASSUME NEW at \in DOMAIN w.disk, w.disk[at].id = "ix"
          PROVE  EntsPoint(w, w.disk[at].base, w.disk[at].trk, w.disk[at].ents)
      <4>1. CASE at = s.pos
        <5>1. EntsPoint(s, QwBase(s), t, s.tracks[t].ix_entries) BY DEF Good, Entries
        <5> QED BY <2>3, <2>6, <2>8, <2>10, <4>1, <5>1, KeepsPoint
      <4>2. CASE at # s.pos
        <5>1. at \in DOMAIN s.disk /\ w.disk[at] = s.disk[at] BY <2>6, <2>8, <4>2
        <5>2. EntsPoint(s, w.disk[at].base, w.disk[at].trk, w.disk[at].ents)
          BY <3>3, <5>1 DEF Good, Entries
        <5> QED BY <2>10, <5>2, KeepsPoint
      <4> QED BY <4>1, <4>2
    <3>4. ASSUME NEW x \in Streams, w.tracks[x].indx.kind = "std"
          PROVE  EntsPoint(w, w.tracks[x].indx.base, x, w.tracks[x].indx.ents)
      <4>1. w.tracks[x].indx = s.tracks[x].indx BY <2>2, <2>5, <2>9
      <4>2. EntsPoint(s, w.tracks[x].indx.base, x, w.tracks[x].indx.ents)
        BY <3>4, <4>1 DEF Good, Entries
      <4> QED BY <2>10, <4>2, KeepsPoint
    <3>5. ASSUME NEW x \in Streams, NEW i \in DOMAIN w.tracks[x].ix_chunk_records
          PROVE  RecordPoints(w, x, w.tracks[x].ix_chunk_records[i])
      <4> DEFINE old == s.tracks[x].ix_chunk_records
      <4>1. old \in Seq(IxRecord) BY <2>1 DEF TrackState
      <4>2. ASSUME NEW j \in DOMAIN old PROVE RecordPoints(w, x, old[j])
        <5>1. RecordPoints(s, x, old[j]) BY DEF Good, Entries
        <5> QED BY <2>10, <5>1, RecordKeeps
      <4>3. RecordPoints(w, t, r)
        BY <2>3, <2>6, <2>8 DEF RecordPoints
      <4> HIDE DEF old
      <4>4. CASE x # t
        BY <2>5, <2>9, <4>2, <4>4 DEF old
      <4>5. CASE x = t
        <5>1. w.tracks[x].ix_chunk_records = Append(old, r)
          BY <2>2, <2>5, <2>9, <4>5 DEF old
        <5>2. \/ i \in DOMAIN old /\ w.tracks[x].ix_chunk_records[i] = old[i]
              \/ w.tracks[x].ix_chunk_records[i] = r
          BY <4>1, <5>1
        <5> QED BY <4>2, <4>3, <4>5, <5>2
      <4> QED BY <4>4, <4>5
    <3> QED BY <3>2, <3>3, <3>4, <3>5 DEF Entries
  <2>13. Good(w)
    BY <2>8, <2>9, <2>11, <2>12 DEF Good, Near
  <2> QED BY <2>2, <2>5, <2>9, <2>13
<1> QED BY <1>1, <1>2

\* g[i] is the state after the first i streams have been flushed.
IsFlushing(g, s, n) ==
  g = [i \in 0 .. n |-> IF i = 0 THEN s ELSE FlushIxForTrack(g[i - 1], i - 1)]

\* The recursive function in FlushIxChunks exists, by induction on its
\* domain.
LEMMA FlushingExists ==
  ASSUME NEW s, NEW n \in Nat
  PROVE  \E g : IsFlushing(g, s, n)
<1> DEFINE Bad == {i \in Nat : ~ \E g : IsFlushing(g, s, i)}
<1> SUFFICES ASSUME Bad # {} PROVE FALSE
  OBVIOUS
<1>1. PICK i \in Bad : \A j \in Bad : i <= j
  <2>1. Bad \subseteq Nat OBVIOUS
  <2> HIDE DEF Bad
  <2> QED BY <2>1, NatLeast
<1>2. i # 0
  <2> DEFINE g == [j \in 0 .. 0 |-> s]
  <2>1. g = [j \in 0 .. 0 |-> IF j = 0 THEN s ELSE FlushIxForTrack(g[j - 1], j - 1)]
    OBVIOUS
  <2>2. IsFlushing(g, s, 0) BY <2>1 DEF IsFlushing
  <2> QED BY <2>2
<1>3. PICK h : IsFlushing(h, s, i - 1)
  <2>1. i \in Nat /\ i - 1 \in Nat /\ ~(i <= i - 1) BY <1>2
  <2> QED BY <1>1, <2>1
<1> DEFINE g == [j \in 0 .. i |-> IF j = i THEN FlushIxForTrack(h[i - 1], i - 1) ELSE h[j]]
<1>4. g = [j \in 0 .. i |-> IF j = 0 THEN s ELSE FlushIxForTrack(g[j - 1], j - 1)]
  <2> SUFFICES ASSUME NEW j \in 0 .. i
               PROVE  g[j] = IF j = 0 THEN s ELSE FlushIxForTrack(g[j - 1], j - 1)
    OBVIOUS
  <2>1. CASE j = i
    BY <1>2, <2>1
  <2>2. CASE j # i
    <3>1. h[j] = IF j = 0 THEN s ELSE FlushIxForTrack(h[j - 1], j - 1)
      BY <1>2, <1>3, <2>2 DEF IsFlushing
    <3>2. g[j] = h[j] /\ (j # 0 => g[j - 1] = h[j - 1])
      BY <1>2, <2>2
    <3> QED BY <3>1, <3>2
  <2> QED BY <2>1, <2>2
<1>5. IsFlushing(g, s, i) BY <1>4 DEF IsFlushing
<1> QED BY <1>5

\* The first n streams have no pending entry.
Cleared(s, w, n) ==
  /\ Good(w) /\ Near(s, w) /\ w.rec_open_size_off = s.rec_open_size_off
  /\ \A t \in Streams : t < n => w.tracks[t].ix_entries = <<>>

\* flush_ix_chunks takes the streams one after the other.
LEMMA FlushSteps ==
  ASSUME NEW s
  PROVE  \E f : /\ FlushIxChunks(s) = f[NumStreams] /\ f[0] = s
                /\ \A i \in 1 .. NumStreams : f[i] = FlushIxForTrack(f[i - 1], i - 1)
<1> DEFINE f == CHOOSE g : IsFlushing(g, s, NumStreams)
<1>1. NumStreams \in Nat BY MuxerAssumption
<1>2. FlushIxChunks(s) = f[NumStreams]
  BY DEF FlushIxChunks, IsFlushing
<1>3. IsFlushing(f, s, NumStreams)
  BY <1>1, FlushingExists
<1> HIDE DEF f
<1>4. \A i \in 0 .. NumStreams :
        f[i] = IF i = 0 THEN s ELSE FlushIxForTrack(f[i - 1], i - 1)
  BY <1>3 DEF IsFlushing
<1>5. f[0] = s /\ \A i \in 1 .. NumStreams : f[i] = FlushIxForTrack(f[i - 1], i - 1)
  BY <1>1, <1>4
<1> QED BY <1>2, <1>5

\* flush_ix_chunks leaves no entry pending, by induction on the streams.
LEMMA FlushIxChunksGood ==
  ASSUME NEW s, Good(s), NEW w, w = FlushIxChunks(s)
  PROVE  Cleared(s, w, NumStreams)
<1>1. NumStreams \in Nat BY MuxerAssumption
<1>2. PICK f : /\ w = f[NumStreams] /\ f[0] = s
               /\ \A i \in 1 .. NumStreams : f[i] = FlushIxForTrack(f[i - 1], i - 1)
  BY FlushSteps
<1>4. /\ f[0] = s
      /\ \A i \in 1 .. NumStreams : f[i] = FlushIxForTrack(f[i - 1], i - 1)
  BY <1>2
<1> DEFINE Bad == {i \in 0 .. NumStreams : ~Cleared(s, f[i], i)}
<1>5. Bad = {}
  <2> SUFFICES ASSUME Bad # {} PROVE FALSE
    OBVIOUS
  <2>1. PICK i \in Bad : \A j \in Bad : i <= j
    <3>1. Bad \subseteq Nat OBVIOUS
    <3> HIDE DEF Bad
    <3> QED BY <3>1, NatLeast
  <2>2. i # 0
    <3>1. \A t \in Streams : ~(t < 0) BY <1>1 DEF Streams
    <3>2. Cleared(s, f[0], 0) BY <1>4, <3>1 DEF Cleared, Near
    <3> QED BY <3>2
  <2>3. i - 1 \in Streams /\ i \in 1 .. NumStreams /\ i \in Int
    BY <1>1, <2>2 DEF Streams
  <2>4. Cleared(s, f[i - 1], i - 1)
    <3>1. i - 1 \in 0 .. NumStreams /\ ~(i <= i - 1) BY <1>1, <2>3
    <3> QED BY <2>1, <3>1
  <2> DEFINE v == f[i - 1]
  <2>5. f[i] = FlushIxForTrack(v, i - 1)
    BY <1>4, <2>3
  <2>6. Cleared(s, v, i - 1) BY <2>4
  <2> DEFINE j == i - 1
             z == f[i]
  <2>7. /\ Good(z) /\ Near(v, z) /\ z.rec_open_size_off = v.rec_open_size_off
        /\ z.tracks[j].ix_entries = <<>>
        /\ \A x \in Streams : x # j => z.tracks[x].ix_entries = v.tracks[x].ix_entries
    <3>1. z = FlushIxForTrack(v, j) /\ j \in Streams /\ Good(v)
      BY <2>3, <2>5, <2>6 DEF Cleared
    <3> HIDE DEF z, v, j
    <3> QED BY <3>1, FlushIxForTrackGood
  <2>8. \A t \in Streams : t < i => t < j \/ t = j
    BY <1>1, <2>3 DEF Streams
  <2>9. Cleared(s, z, i)
    <3> HIDE DEF z, v
    <3> QED BY <2>6, <2>7, <2>8 DEF Cleared, Near
  <2> QED BY <2>9
<1>6. Cleared(s, f[NumStreams], NumStreams)
  <2>1. NumStreams \in 0 .. NumStreams BY <1>1
  <2> QED BY <1>5, <2>1
<1> QED BY <1>2, <1>6

-----------------------------------------------------------------------------
(* Segments                                                                *)

\* serialize_idx1 and the write of its chunk.
LEMMA WriteIdx1Good ==
  ASSUME NEW s, Good(s), NEW w, w = WriteIdx1(s)
  PROVE  Good(w) /\ Near(s, w) /\ w.tracks = s.tracks
         /\ w.rec_open_size_off = s.rec_open_size_off
<1> DEFINE body == IF opts.synth /\ OpenDml /\ s.snapshot # <<>>
                   THEN s.snapshot ELSE s.index
           blank == Cell("idx1", NoTrack, 16 * Len(body))
           cell == [blank EXCEPT !.ents = body]
<1>1. body \in Seq(IndexEntry)
  BY DEF Good, Typed, MuxerRecord
<1> HIDE DEF body
<1>2. blank \in CellType /\ blank.id = "idx1"
  <2>1. 16 * Len(body) \in Nat BY <1>1
  <2>2. "idx1" \in ListIds \cup MediaIds \cup {"hdrl", "JUNK", "ix", "idx1"} OBVIOUS
  <2>3. NoTrack \in Streams \cup {NoTrack} OBVIOUS
  <2> QED BY <2>1, <2>2, <2>3, CellTyped DEF Cell
<1> HIDE DEF blank
<1>3. cell \in CellType /\ cell.id = "idx1"
  <2>1. body \in Seq(IxEntry) \cup Seq(IndexEntry) BY <1>1
  <2> QED BY <1>2, <2>1, Zenon DEF CellType
<1>4. w = WriteChunk(s, cell)
  BY DEF WriteIdx1, body, blank
<1> HIDE DEF cell
<1>5. /\ Typed(w) /\ Below(w) /\ Grows(s, w) /\ SameFields(s, w)
      /\ DOMAIN w.disk = DOMAIN s.disk \cup {s.pos}
      /\ w.disk[s.pos] = cell
      /\ \A at \in DOMAIN s.disk : w.disk[at] = s.disk[at] /\ at # s.pos
  BY <1>3, <1>4, WriteChunkGood DEF Good
<1>6. NoNewIx(s, w) BY <1>3, <1>5 DEF NoNewIx
<1> QED BY <1>5, <1>6, GoodSame

\* The end of the outer RIFF.
LEMMA FinishRiffGood ==
  ASSUME NEW s, Good(s), NEW w, w = FinishRiff(s)
  PROVE  Good(w) /\ Near(s, w) /\ w.tracks = s.tracks
         /\ w.rec_open_size_off = s.rec_open_size_off
<1> DEFINE off == s.riff_size_off
           f == FinishList(s, off)
           seg == [at |-> off - 4, size |-> f.pos - (off - 4), packets |-> s.segment_packets]
           segments == Append(f.segments, seg)
           g == SetSegments(f, segments)
<1>1. w = f \/ w = g
  BY DEF FinishRiff, SetSegments
<1>2. /\ off \in Nat /\ s.pos \in Nat /\ s.segment_packets \in Nat
      /\ IsList(s, off, "RIFF")
  BY DEF Good, Heads, Typed, MuxerRecord
<1> HIDE DEF off
<1>3. Typed(f) /\ Below(f) /\ Grows(s, f) /\ SameFields(s, f) /\ NoNewIx(s, f)
  BY <1>2, FinishListGood DEF Good, ListIds
<1> HIDE DEF f
<1>4. /\ Good(f) /\ Near(s, f) /\ f.tracks = s.tracks
      /\ f.rec_open_size_off = s.rec_open_size_off
  BY <1>3, GoodSame
<1>5. seg \in [at : Nat, size : Nat, packets : Nat]
  <2>1. f.pos \in Nat /\ f.pos >= s.pos BY <1>3 DEF Typed, MuxerRecord, Grows
  <2> QED BY <1>2, <2>1 DEF IsList
<1> HIDE DEF seg
<1>6. segments \in Seq([at : Nat, size : Nat, packets : Nat])
  BY <1>3, <1>5 DEF Typed, MuxerRecord
<1> HIDE DEF segments
<1>7. Typed(g) /\ g.disk = f.disk /\ g.pos = f.pos /\ SameFields(f, g)
  BY <1>3, <1>6, SegmentsTyped
<1> HIDE DEF g
<1>8. Good(g) BY <1>4, <1>7, GoodSameDisk
<1> QED BY <1>1, <1>4, <1>7, <1>8 DEF SameFields, Near

\* The tail shared by close_current_segment and write_trailer.
LEMMA FinishSegmentGood ==
  ASSUME NEW s, Good(s), NEW w, w = FinishSegment(s)
  PROVE  Good(w) /\ Near(s, w) /\ w.tracks = s.tracks
         /\ w.rec_open_size_off = s.rec_open_size_off
<1> DEFINE f == FinishList(s, s.movi_size_off)
           h == WriteIdx1(f)
<1>1. w \in {f, FinishRiff(f), FinishRiff(h)}
  BY DEF FinishSegment, Then
<1>2. s.movi_size_off \in Nat /\ IsList(s, s.movi_size_off, "movi")
  BY DEF Good, Heads, Typed, MuxerRecord
<1>3. Typed(f) /\ Below(f) /\ Grows(s, f) /\ SameFields(s, f) /\ NoNewIx(s, f)
  BY <1>2, FinishListGood DEF Good, ListIds
<1> HIDE DEF f
<1>4. /\ Good(f) /\ Near(s, f) /\ f.tracks = s.tracks
      /\ f.rec_open_size_off = s.rec_open_size_off
  BY <1>3, GoodSame
<1>5. /\ Good(h) /\ Near(f, h) /\ h.tracks = f.tracks
      /\ h.rec_open_size_off = f.rec_open_size_off
  BY <1>4, WriteIdx1Good
<1> HIDE DEF h
<1>6. CASE w = f BY <1>4, <1>6
<1>7. CASE w = FinishRiff(f)
  <2>1. Good(w) /\ Near(f, w) /\ w.tracks = f.tracks
        /\ w.rec_open_size_off = f.rec_open_size_off
    BY <1>4, <1>7, FinishRiffGood
  <2> QED BY <1>4, <2>1 DEF Near
<1>8. CASE w = FinishRiff(h)
  <2>1. Good(w) /\ Near(h, w) /\ w.tracks = h.tracks
        /\ w.rec_open_size_off = h.rec_open_size_off
    BY <1>5, <1>8, FinishRiffGood
  <2> QED BY <1>4, <1>5, <2>1 DEF Near
<1> QED BY <1>1, <1>6, <1>7, <1>8

\* close_current_segment: when it succeeds no entry is pending.
LEMMA CloseCurrentSegmentGood ==
  ASSUME NEW s, Good(s), NEW w, w = CloseCurrentSegment(s)
  PROVE  Good(w) /\ (w.ok => \A t \in Streams : w.tracks[t].ix_entries = <<>>)
<1> DEFINE a == SetActive(s, FALSE)
           c == CloseRecCluster(a)
           f == FlushIxChunks(c)
           g == FinishSegment(f)
<1>1. w = IF c.ok THEN g ELSE c
  BY DEF CloseCurrentSegment, SetActive, Then
<1>2. Typed(a) /\ a.disk = s.disk /\ a.pos = s.pos /\ SameFields(s, a)
  BY ActiveTyped DEF Good
<1> HIDE DEF a
<1>3. Good(a) BY <1>2, GoodSameDisk
<1>4. Good(c) BY <1>3, CloseRecClusterGood
<1> HIDE DEF c
<1>5. Cleared(c, f, NumStreams) BY <1>4, FlushIxChunksGood
<1> HIDE DEF f
<1>6. Good(g) /\ g.tracks = f.tracks BY <1>5, FinishSegmentGood DEF Cleared
<1> HIDE DEF g
<1>7. \A t \in Streams : t < NumStreams BY MuxerAssumption DEF Streams
<1>8. \A t \in Streams : g.tracks[t].ix_entries = <<>>
  BY <1>5, <1>6, <1>7 DEF Cleared
<1> QED BY <1>1, <1>4, <1>6, <1>8

\* open_avix_segment, from a state in which no entry is pending.
LEMMA OpenAvixSegmentGood ==
  ASSUME NEW s, Good(s), \A t \in Streams : s.tracks[t].ix_entries = <<>>,
         NEW w, w = OpenAvixSegment(s)
  PROVE  Good(w)
<1> DEFINE r == BeginList(s, "RIFF")
           b == BeginList(r, "movi")
           riff == s.pos + 4
           movi == s.pos + 16
<1>1. w = SetSegmentStart(b, riff, movi)
  BY DEF OpenAvixSegment, SetSegmentStart
<1>2. /\ Typed(r) /\ Below(r) /\ Grows(s, r) /\ SameFields(s, r)
      /\ r.pos = s.pos + 12 /\ s.pos \in Nat
      /\ IsList(r, s.pos + 4, "RIFF") /\ NoNewIx(s, r)
  BY BeginListGood DEF Good, ListIds
<1> HIDE DEF r
<1>3. /\ Typed(b) /\ Below(b) /\ Grows(r, b) /\ SameFields(r, b)
      /\ IsList(b, r.pos + 4, "movi") /\ NoNewIx(r, b)
  BY <1>2, BeginListGood DEF ListIds
<1> HIDE DEF b
<1>4. riff \in Nat /\ movi \in Nat /\ r.pos + 4 = movi
  BY <1>2
<1>5. IsList(b, riff, "RIFF") /\ IsList(b, movi, "movi")
  BY <1>2, <1>3, <1>4 DEF Grows
<1>12. riff \in Nat /\ movi \in Nat /\ Typed(b) BY <1>3, <1>4
<1> HIDE DEF riff, movi
<1>6. /\ Typed(w) /\ w.disk = b.disk /\ w.pos = b.pos
      /\ w.riff_size_off = riff /\ w.movi_size_off = movi
      /\ w.rec_open_size_off = NoList
      /\ w.tracks = b.tracks /\ (b.header_written => w.header_written)
  <2>1. ASSUME NEW z, Typed(z), NEW i \in Nat, NEW j \in Nat, w = SetSegmentStart(z, i, j)
        PROVE  /\ Typed(w) /\ w.disk = z.disk /\ w.pos = z.pos
               /\ w.riff_size_off = i /\ w.movi_size_off = j
               /\ w.rec_open_size_off = NoList
               /\ w.tracks = z.tracks /\ (z.header_written => w.header_written)
    BY <2>1, SegmentStartTyped
  <2> QED BY <1>1, <1>12, <2>1
<1>7. Below(w) /\ Heads(w)
  BY <1>3, <1>5, <1>6 DEF Below, Heads, IsList
<1>8. w.pos >= s.pos
  <2>1. b.pos \in Nat BY <1>3 DEF Typed, MuxerRecord
  <2> QED BY <1>2, <1>3, <1>6, <2>1 DEF Grows
<1>9. Keeps(s, w) /\ NoNewIx(s, w)
  <2>1. Keeps(s, r) /\ Keeps(r, b) BY <1>2, <1>3 DEF Grows
  <2> QED BY <1>2, <1>3, <1>6, <2>1 DEF Keeps, NoNewIx
<1>10. \A off \in Nat : \A id : IsList(s, off, id) => IsList(w, off, id)
  BY <1>2, <1>3, <1>6 DEF Grows, IsList
<1>11. w.tracks = s.tracks /\ w.header_written
  BY <1>2, <1>3, <1>6 DEF SameFields, Near, Good
<1> QED BY <1>6, <1>7, <1>8, <1>9, <1>10, <1>11, GoodMove DEF Grows

\* The roll: a new segment is opened only after the old one has been closed.
LEMMA RollGood ==
  ASSUME NEW s, Good(s), NEW len, NEW w, w = Roll(s, len)
  PROVE  Good(w)
<1> DEFINE c == CloseCurrentSegment(s)
<1>1. w = s \/ w = c \/ (c.ok /\ w = OpenAvixSegment(c))
  <2>1. w = s \/ w = Then(c, OpenAvixSegment(c)) BY DEF Roll
  <2> HIDE DEF c
  <2> QED BY <2>1 DEF Then
<1>2. Good(c) /\ (c.ok => \A t \in Streams : c.tracks[t].ix_entries = <<>>)
  BY CloseCurrentSegmentGood
<1> HIDE DEF c
<1> QED BY <1>1, <1>2, OpenAvixSegmentGood

-----------------------------------------------------------------------------
(* Placing a chunk                                                         *)

\* emit_padding_junk_for
LEMMA EmitPaddingJunkGood ==
  ASSUME NEW s, Good(s), NEW w, w = EmitPaddingJunk(s), opts \in Options
  PROVE  Good(w)
<1> DEFINE n == opts.granularity
           target == ((s.pos + 8 + n - 1) \div n) * n
           body == target - s.pos - 8
           cell == Cell("JUNK", NoTrack, body - (body % 2))
           a == AddAt(s, cell, target)
           bytes == IF s.rec_open_size_off = NoList THEN s.rec_bytes
                    ELSE s.rec_bytes + (target - s.pos)
           b == SetRecBytes(a, bytes)
<1>1. CASE n = 0 \/ s.pos % n = 0
  BY <1>1 DEF EmitPaddingJunk
<1>2. CASE ~(n = 0 \/ s.pos % n = 0)
  <2>1. n \in Nat /\ n % 2 = 0 /\ n # 0
    BY <1>2, OptsTyped DEF Config
  <2>2. s.pos \in Nat /\ s.rec_bytes \in Nat
    BY DEF Good, Typed, MuxerRecord
  <2>3. target \in Nat /\ target % 2 = 0 /\ target >= s.pos + 8
    <3>1. s.pos + 8 \in Nat BY <2>2
    <3> QED BY <2>1, <3>1, RoundUp
  <2>4. w = b
    BY <1>2 DEF EmitPaddingJunk, SetRecBytes, AddAt, SetDiskPos
  <2> HIDE DEF target, n
  <2>5. cell \in CellType /\ cell.id = "JUNK"
    <3>1. body \in Nat /\ body - (body % 2) \in Nat BY <2>2, <2>3
    <3>2. "JUNK" \in ListIds \cup MediaIds \cup {"hdrl", "JUNK", "ix", "idx1"} OBVIOUS
    <3>3. NoTrack \in Streams \cup {NoTrack} OBVIOUS
    <3> HIDE DEF body
    <3> QED BY <3>1, <3>2, <3>3, CellTyped DEF Cell
  <2> HIDE DEF cell
  <2>6. /\ Typed(a) /\ Below(a) /\ Grows(s, a) /\ SameFields(s, a) /\ a.pos = target
        /\ DOMAIN a.disk = DOMAIN s.disk \cup {s.pos}
        /\ a.disk[s.pos] = cell
        /\ \A at \in DOMAIN s.disk : a.disk[at] = s.disk[at] /\ at # s.pos
    BY <2>3, <2>5, AddCell DEF Good
  <2> HIDE DEF a
  <2>7. NoNewIx(s, a) BY <2>5, <2>6 DEF NoNewIx
  <2>8. Good(a) BY <2>6, <2>7, GoodSame
  <2>9. bytes \in Nat BY <2>2, <2>3
  <2> HIDE DEF bytes
  <2>10. Typed(b) /\ b.disk = a.disk /\ b.pos = a.pos /\ SameFields(a, b)
    BY <2>6, <2>9, RecBytesTyped
  <2> HIDE DEF b
  <2> QED BY <2>4, <2>8, <2>10, GoodSameDisk
<1> QED BY <1>1, <1>2

\* cell is the chunk of a packet or a side-band chunk.
IsMedia(cell) == cell \in CellType /\ cell.id \in MediaIds /\ cell.trk \in Streams

\* The entries of w are those of s, or one more for a chunk to come at s.pos.
Stamped(s, w, cell) ==
  \A t \in Streams :
    /\ w.tracks[t].indx = s.tracks[t].indx
    /\ w.tracks[t].ix_chunk_records = s.tracks[t].ix_chunk_records
    /\ \/ w.tracks[t].ix_entries = s.tracks[t].ix_entries
       \/ /\ t = cell.trk
          /\ \E e \in IxEntry :
               /\ w.tracks[t].ix_entries = Append(s.tracks[t].ix_entries, e)
               /\ IxTarget(QwBase(s), e) = s.pos
               /\ e.len = cell.len
               /\ e.key = cell.key

\* The standard-index entry made before the chunk is written is the one for a
\* chunk at the current position.
LEMMA StampIxGood ==
  ASSUME NEW s, Good(s), NEW cell, IsMedia(cell), NEW field2 \in Nat \cup {NoField2},
         NEW w, w = StampIx(s, s.pos, cell, field2)
  PROVE  /\ Typed(w) /\ w.disk = s.disk /\ w.pos = s.pos /\ Near(s, w)
         /\ w.rec_open_size_off = s.rec_open_size_off
         /\ Stamped(s, w, cell)
<1> DEFINE t == cell.trk
           d == s.pos + 8 - QwBase(s)
           f2 == IF field2 # NoField2 /\ d + field2 <= DwMax THEN d + field2 ELSE 0
           entry == [off |-> d, len |-> cell.len, key |-> cell.key, field2 |-> f2]
           copy == [id |-> cell.id, trk |-> t, off |-> d - 4, len |-> cell.len, key |-> cell.key]
           k == [s.tracks[t] EXCEPT !.ix_entries = Append(@, entry)]
           tracks == [s.tracks EXCEPT ![t] = k]
           active == s.strl_std_active /\ Len(s.tracks[t].ix_entries) + 1 <= opts.strl_std
           snapshot == IF opts.synth /\ InPrimary(s) THEN Append(s.snapshot, copy) ELSE s.snapshot
<1>1. CASE ~OpenDml \/ d > DwMax
  <2>1. w = s BY <1>1 DEF StampIx
  <2> QED BY <2>1 DEF Stamped, Near, Good
<1>2. CASE ~(~OpenDml \/ d > DwMax)
  <2>1. /\ s.pos \in Nat /\ s.movi_size_off \in Nat /\ s.movi_size_off + 8 <= s.pos
        /\ s.tracks \in [Streams -> TrackState] /\ s.tracks[t] \in TrackState
        /\ s.snapshot \in Seq(IndexEntry)
        /\ cell.len \in Nat /\ cell.key \in BOOLEAN /\ t \in Streams /\ cell.id \in MediaIds
    BY DEF Good, Heads, IsList, Typed, MuxerRecord, IsMedia, CellType
  <2>2. /\ QwBase(s) \in Nat /\ d \in Nat /\ d - 4 \in Nat
        /\ QwBase(s) + d - 8 = s.pos
    <3>1. QwBase(s) = s.movi_size_off + 8 BY <2>1 DEF QwBase, MoviStart
    <3>2. QwBase(s) \in Nat /\ QwBase(s) <= s.pos BY <2>1, <3>1
    <3> QED BY SMTT(40), <2>1, <3>2
  <2>3. w = SetStamped(s, tracks, active, snapshot)
    BY <1>2, Zenon DEF StampIx, SetStamped
  <2>4. f2 \in Nat
    BY <2>2 DEF NoField2
  <2> HIDE DEF d, f2
  <2>5. entry \in IxEntry /\ copy \in IndexEntry
    BY <2>1, <2>2, <2>4 DEF IxEntry, IndexEntry
  <2>6. IxTarget(QwBase(s), entry) = s.pos /\ entry.len = cell.len /\ entry.key = cell.key
    BY <2>2 DEF IxTarget
  <2> HIDE DEF entry, copy
  <2>7. /\ k \in TrackState
        /\ k.ix_entries = Append(s.tracks[t].ix_entries, entry)
        /\ k.indx = s.tracks[t].indx
        /\ k.ix_chunk_records = s.tracks[t].ix_chunk_records
    <3>1. s.tracks[t].ix_entries \in Seq(IxEntry) BY <2>1 DEF TrackState
    <3>2. Append(s.tracks[t].ix_entries, entry) \in Seq(IxEntry) BY <2>5, <3>1
    <3> QED BY <2>1, <3>2, Zenon DEF TrackState
  <2> HIDE DEF k
  <2>8. /\ tracks \in [Streams -> TrackState] /\ tracks[t] = k
        /\ \A x \in Streams : x # t => tracks[x] = s.tracks[x]
    BY <2>1, <2>7
  <2>9. active \in BOOLEAN /\ snapshot \in Seq(IndexEntry)
    BY <2>1, <2>5
  <2> HIDE DEF tracks, active, snapshot
  <2>10. /\ Typed(w) /\ w.disk = s.disk /\ w.pos = s.pos /\ Near(s, w)
         /\ w.tracks = tracks /\ w.rec_open_size_off = s.rec_open_size_off
    BY <2>3, <2>8, <2>9, StampedTyped DEF Good
  <2>11. Stamped(s, w, cell)
    BY <2>5, <2>6, <2>7, <2>8, <2>10 DEF Stamped
  <2> QED BY <2>10, <2>11
<1> QED BY <1>1, <1>2

\* The idx1 entry made before the chunk is written has its type.
LEMMA StampIdx1Typed ==
  ASSUME NEW s, Typed(s), s.movi_size_off + 8 <= s.pos, NEW cell, IsMedia(cell),
         NEW w, w = StampIdx1(s, s.pos, cell)
  PROVE  /\ Typed(w) /\ w.disk = s.disk /\ w.pos = s.pos /\ Near(s, w)
         /\ w.tracks = s.tracks /\ w.rec_open_size_off = s.rec_open_size_off
<1> DEFINE rel == s.pos - MoviStart(s)
           entry == [id |-> cell.id, trk |-> cell.trk, off |-> rel, len |-> cell.len, key |-> cell.key]
           index == Append(s.index, entry)
           g == SetIndex(s, index)
<1>1. w = s \/ w = g
  BY DEF StampIdx1, SetIndex
<1>2. rel \in Nat
  <2>1. s.pos \in Nat /\ s.movi_size_off \in Nat BY DEF Typed, MuxerRecord
  <2> QED BY <2>1 DEF MoviStart
<1> HIDE DEF rel
<1>3. entry \in IndexEntry
  BY <1>2 DEF IndexEntry, IsMedia, CellType
<1> HIDE DEF entry
<1>4. index \in Seq(IndexEntry) /\ Len(index) >= Len(s.index)
  BY <1>3 DEF Typed, MuxerRecord
<1> HIDE DEF index
<1>5. /\ Typed(g) /\ g.disk = s.disk /\ g.pos = s.pos /\ Near(s, g)
      /\ g.tracks = s.tracks /\ g.rec_open_size_off = s.rec_open_size_off
  BY <1>4, IndexTyped
<1> HIDE DEF g
<1> QED BY <1>1, <1>5 DEF Near

\* Once the chunk is written the entry made for it leads to it.
LEMMA StampedWriteGood ==
  ASSUME NEW s, Good(s), NEW cell, IsMedia(cell),
         NEW u, Typed(u), u.disk = s.disk, u.pos = s.pos, Near(s, u),
         u.rec_open_size_off = s.rec_open_size_off, Stamped(s, u, cell),
         NEW w, w = WriteChunk(u, cell)
  PROVE  Good(w)
<1>1. cell \in CellType /\ cell.id \in MediaIds /\ cell.trk \in Streams
  BY DEF IsMedia
<1>2. Below(u) BY DEF Good, Below
<1>3. /\ Typed(w) /\ Below(w) /\ Grows(u, w) /\ SameFields(u, w)
      /\ DOMAIN w.disk = DOMAIN u.disk \cup {u.pos}
      /\ w.disk[u.pos] = cell
      /\ \A at \in DOMAIN u.disk : w.disk[at] = u.disk[at] /\ at # u.pos
  BY <1>1, <1>2, WriteChunkGood
<1>4. /\ Near(s, w) /\ w.tracks = u.tracks
      /\ w.rec_open_size_off = s.rec_open_size_off
  BY <1>3 DEF Near, SameFields
<1>5. Grows(s, w) /\ Keeps(s, w)
  BY <1>3 DEF Grows, Keeps, IsList
<1>6. Heads(w)
  <2>1. s.riff_size_off \in Nat /\ s.movi_size_off \in Nat /\ s.rec_open_size_off \in Nat
    BY DEF Good, Typed, MuxerRecord
  <2> QED BY <1>4, <1>5, <2>1 DEF Good, Heads, Grows, Near
<1>7. Entries(w)
  <2>1. QwBase(w) = QwBase(s) BY <1>4 DEF QwBase, MoviStart, Near
  <2>2. ASSUME NEW t \in Streams
        PROVE  EntsPoint(w, QwBase(w), t, w.tracks[t].ix_entries)
    <3> DEFINE old == s.tracks[t].ix_entries
    <3>1. EntsPoint(w, QwBase(s), t, old)
      <4>1. EntsPoint(s, QwBase(s), t, old) BY DEF Good, Entries
      <4> QED BY <1>5, <4>1, KeepsPoint
    <3>2. old \in Seq(IxEntry)
      BY DEF Good, Typed, MuxerRecord, TrackState
    <3> HIDE DEF old
    <3>3. CASE w.tracks[t].ix_entries = old
      BY <2>1, <3>1, <3>3
    <3>4. CASE w.tracks[t].ix_entries # old
      <4>1. PICK e \in IxEntry :
              /\ w.tracks[t].ix_entries = Append(old, e)
              /\ IxTarget(QwBase(s), e) = s.pos
              /\ e.len = cell.len /\ e.key = cell.key /\ t = cell.trk
        BY <1>4, <3>4 DEF Stamped, old
      <4>2. Points(w, s.pos, t, e)
        BY <1>1, <1>3, <4>1 DEF Points
      <4>3. ASSUME NEW i \in DOMAIN Append(old, e)
            PROVE  Points(w, IxTarget(QwBase(s), Append(old, e)[i]), t, Append(old, e)[i])
        <5>1. \/ i \in DOMAIN old /\ Append(old, e)[i] = old[i]
              \/ Append(old, e)[i] = e
          BY <3>2
        <5> QED BY <3>1, <4>1, <4>2, <5>1 DEF EntsPoint
      <4> QED BY <2>1, <4>1, <4>3 DEF EntsPoint
    <3> QED BY <3>3, <3>4
  <2>3. ASSUME NEW at \in DOMAIN w.disk, w.disk[at].id = "ix"
        PROVE  EntsPoint(w, w.disk[at].base, w.disk[at].trk, w.disk[at].ents)
    <3>1. at \in DOMAIN s.disk /\ w.disk[at] = s.disk[at]
      BY <1>1, <1>3, <2>3 DEF MediaIds
    <3>2. EntsPoint(s, w.disk[at].base, w.disk[at].trk, w.disk[at].ents)
      BY <2>3, <3>1 DEF Good, Entries
    <3> QED BY <1>5, <3>2, KeepsPoint
  <2>4. ASSUME NEW t \in Streams, w.tracks[t].indx.kind = "std"
        PROVE  EntsPoint(w, w.tracks[t].indx.base, t, w.tracks[t].indx.ents)
    <3>1. w.tracks[t].indx = s.tracks[t].indx BY <1>4 DEF Stamped
    <3>2. EntsPoint(s, w.tracks[t].indx.base, t, w.tracks[t].indx.ents)
      BY <2>4, <3>1 DEF Good, Entries
    <3> QED BY <1>5, <3>2, KeepsPoint
  <2>5. ASSUME NEW t \in Streams, NEW i \in DOMAIN w.tracks[t].ix_chunk_records
        PROVE  RecordPoints(w, t, w.tracks[t].ix_chunk_records[i])
    <3>1. w.tracks[t].ix_chunk_records = s.tracks[t].ix_chunk_records
      BY <1>4 DEF Stamped
    <3>2. RecordPoints(s, t, w.tracks[t].ix_chunk_records[i])
      BY <3>1 DEF Good, Entries
    <3> QED BY <1>5, <3>2, RecordKeeps
  <2> QED BY <2>2, <2>3, <2>4, <2>5 DEF Entries
<1> QED BY <1>3, <1>4, <1>6, <1>7 DEF Good, Near

\* What write_packet and write_sideband_chunk do to place a chunk.
LEMMA PlaceChunkGood ==
  ASSUME NEW s, Good(s), NEW cell, IsMedia(cell), NEW field2 \in Nat \cup {NoField2},
         NEW w, w = PlaceChunk(s, s.pos, cell, field2)
  PROVE  Good(w)
<1> DEFINE v == StampIx(s, s.pos, cell, field2)
           u == StampIdx1(v, s.pos, cell)
           c == WriteChunk(u, cell)
           packets == c.rec_packets + 1
           bytes == c.rec_bytes + 8 + Pad(cell.len)
           g == SetRecCounts(c, packets, bytes)
<1>1. w = c \/ w = g
  BY DEF PlaceChunk, SetRecCounts
<1>2. /\ Typed(v) /\ v.disk = s.disk /\ v.pos = s.pos /\ Near(s, v)
      /\ v.rec_open_size_off = s.rec_open_size_off
      /\ Stamped(s, v, cell)
  BY StampIxGood
<1>3. v.movi_size_off + 8 <= v.pos
  BY <1>2 DEF Good, Heads, IsList, Near
<1> HIDE DEF v
<1>4. /\ Typed(u) /\ u.disk = v.disk /\ u.pos = v.pos /\ Near(v, u)
      /\ u.tracks = v.tracks /\ u.rec_open_size_off = v.rec_open_size_off
  BY <1>2, <1>3, StampIdx1Typed
<1> HIDE DEF u
<1>5. /\ Near(s, u) /\ Stamped(s, u, cell)
  BY <1>2, <1>4 DEF Near, Stamped
<1>6. Good(c)
  BY <1>2, <1>4, <1>5, StampedWriteGood
<1> HIDE DEF c
<1>7. packets \in Nat /\ bytes \in Nat
  <2>1. c.rec_packets \in Nat /\ c.rec_bytes \in Nat BY <1>6 DEF Good, Typed, MuxerRecord
  <2>2. Pad(cell.len) \in Nat BY PadNat DEF IsMedia, CellType
  <2> QED BY <2>1, <2>2
<1> HIDE DEF packets, bytes
<1>8. Typed(g) /\ g.disk = c.disk /\ g.pos = c.pos /\ SameFields(c, g)
  BY <1>6, <1>7, RecCountsTyped DEF Good
<1> HIDE DEF g
<1> QED BY <1>1, <1>6, <1>8, GoodSameDisk

\* The chunk and the counters of write_packet.
LEMMA PlacePacketGood ==
  ASSUME NEW s, Good(s), NEW p \in Packets, NEW w, w = PlacePacket(s, s.pos, p)
  PROVE  Good(w)
<1> DEFINE blank == Cell("data", p.trk, p.len)
           cell == [blank EXCEPT !.key = p.key]
           field2 == IF p.trk \in opts.field2 THEN s.pending_field2 ELSE NoField2
           a == SetPending(s, NoField2)
           c == PlaceChunk(a, s.pos, cell, field2)
           k == Counted(c.tracks[p.trk], p)
           tracks == [c.tracks EXCEPT ![p.trk] = k]
           packets == c.segment_packets + 1
<1>1. w = SetPlaced(c, packets, tracks)
  BY DEF PlacePacket, SetPlaced, SetPending
<1>2. p.trk \in Streams /\ p.len \in Nat /\ p.key \in BOOLEAN
  BY MuxerAssumption
<1>3. blank \in CellType /\ blank.id = "data" /\ blank.trk = p.trk
  BY <1>2, CellTyped DEF Cell, MediaIds
<1> HIDE DEF blank
<1>4. IsMedia(cell)
  <2>1. cell \in CellType BY <1>2, <1>3, Zenon DEF CellType
  <2>2. cell.id = "data" /\ cell.trk = p.trk BY <1>3 DEF CellType
  <2> QED BY <1>2, <2>1, <2>2 DEF IsMedia, MediaIds
<1> HIDE DEF cell
<1>5. field2 \in Nat \cup {NoField2}
  BY DEF Good, Typed, MuxerRecord
<1> HIDE DEF field2
<1>6. Typed(a) /\ a.disk = s.disk /\ a.pos = s.pos /\ SameFields(s, a)
  BY PendingTyped DEF Good
<1> HIDE DEF a
<1>7. Good(c)
  <2>1. Good(a) BY <1>6, GoodSameDisk
  <2>2. c = PlaceChunk(a, a.pos, cell, field2) BY <1>6, Zenon
  <2> HIDE DEF c
  <2> QED BY <1>4, <1>5, <2>1, <2>2, PlaceChunkGood
<1> HIDE DEF c
<1>8. /\ c.tracks \in [Streams -> TrackState] /\ c.segment_packets \in Nat
      /\ c.tracks[p.trk] \in TrackState
  BY <1>2, <1>7 DEF Good, Typed, MuxerRecord
<1>9. /\ k \in TrackState
      /\ k.ix_entries = c.tracks[p.trk].ix_entries
      /\ k.ix_chunk_records = c.tracks[p.trk].ix_chunk_records
      /\ k.indx = c.tracks[p.trk].indx
  <2> DEFINE o == c.tracks[p.trk]
             x1 == o.packet_count + 1
             x2 == o.sample_count + SampleCountOfPacket(p)
             x3 == MaxOf(o.max_chunk_size, p.len)
             x4 == o.total_bytes + p.len
  <2>1. x1 \in Nat /\ x2 \in Nat /\ x3 \in Nat /\ x4 \in Nat
    <3>1. SampleCountOfPacket(p) \in Nat BY SampleCountNat
    <3>2. /\ o.packet_count \in Nat /\ o.sample_count \in Nat
          /\ o.max_chunk_size \in Nat /\ o.total_bytes \in Nat
      BY <1>8 DEF TrackState
    <3> QED BY <1>2, <3>1, <3>2 DEF MaxOf
  <2>2. k = [o EXCEPT !.packet_count = x1, !.sample_count = x2,
                      !.max_chunk_size = x3, !.total_bytes = x4]
    BY DEF Counted
  <2>3. o \in TrackState BY <1>8
  <2> HIDE DEF o, x1, x2, x3, x4, k
  <2>4. /\ k \in TrackState /\ k.ix_entries = o.ix_entries
        /\ k.ix_chunk_records = o.ix_chunk_records /\ k.indx = o.indx
    BY <2>1, <2>2, <2>3, Zenon DEF TrackState
  <2> QED BY <2>4 DEF o
<1> HIDE DEF k
<1>10. /\ tracks \in [Streams -> TrackState] /\ tracks[p.trk] = k
       /\ \A t \in Streams : t # p.trk => tracks[t] = c.tracks[t]
  BY <1>2, <1>8, <1>9
<1>11. packets \in Nat BY <1>8
<1> HIDE DEF tracks, packets
<1>12. /\ Typed(w) /\ w.disk = c.disk /\ w.pos = c.pos /\ Near(c, w)
       /\ w.tracks = tracks /\ w.rec_open_size_off = c.rec_open_size_off
  BY <1>1, <1>7, <1>10, <1>11, PlacedTyped DEF Good
<1>13. \A t \in Streams :
         /\ w.tracks[t].ix_chunk_records = c.tracks[t].ix_chunk_records
         /\ w.tracks[t].ix_entries = c.tracks[t].ix_entries
         /\ w.tracks[t].indx = c.tracks[t].indx
  BY <1>9, <1>10, <1>12
<1> QED BY <1>7, <1>12, <1>13, GoodTracks DEF Good, Entries

\* The mid-movi flush.
LEMMA MidMoviFlushGood ==
  ASSUME NEW s, Good(s), NEW t \in Streams, NEW w, w = MidMoviFlush(s, t)
  PROVE  Good(w)
<1> DEFINE c == CloseRecCluster(s)
           f == FlushIxForTrack(c, t)
<1>1. w \in {s, c, f}
  <2>1. w = s \/ w = Then(c, f) BY DEF MidMoviFlush
  <2> HIDE DEF c, f
  <2> QED BY <2>1 DEF Then
<1>2. Good(c) BY CloseRecClusterGood
<1> HIDE DEF c
<1>3. Good(f) BY <1>2, FlushIxForTrackGood
<1> HIDE DEF f
<1> QED BY <1>1, <1>2, <1>3

\* The 2 GiB test.
LEMMA CheckCeilingGood ==
  ASSUME NEW s, Good(s), NEW w, w = CheckCeiling(s)
  PROVE  Good(w)
<1>1. w = s \/ w = SetOk(s, FALSE)
  BY DEF CheckCeiling, SetOk
<1>2. Good(SetOk(s, FALSE)) BY SetOkGood
<1> QED BY <1>1, <1>2

-----------------------------------------------------------------------------
(* write_trailer                                                           *)

\* patch_post_counts
LEMMA PatchPostCountsGood ==
  ASSUME NEW s, Good(s), NEW w, w = PatchPostCounts(s)
  PROVE  Good(w)
<1> DEFINE frameStream == IF VideoStreams # {} THEN FirstOf(VideoStreams) ELSE 0
           largest == CHOOSE n \in {s.tracks[t].max_chunk_size : t \in Streams} :
                        \A t \in Streams : s.tracks[t].max_chunk_size <= n
           length == [t \in Streams |-> IF StreamType[t] = "auds"
                                        THEN s.tracks[t].sample_count
                                        ELSE s.tracks[t].packet_count]
           frames == s.tracks[frameStream].packet_count
           buffer == ((largest + 3) \div 4) * 4
           stamp == [frames |-> frames, buffer |-> buffer, length |-> length]
<1>1. w = SetStamp(s, stamp)
  BY DEF PatchPostCounts, SetStamp
<1>2. \A t \in Streams : /\ s.tracks[t].sample_count \in Nat
                         /\ s.tracks[t].packet_count \in Nat
                         /\ s.tracks[t].max_chunk_size \in Nat
  BY DEF Good, Typed, MuxerRecord, TrackState
<1>3. frames \in Nat
  <2>1. 0 \in Streams BY MuxerAssumption DEF Streams
  <2>2. frameStream \in Streams BY <2>1, FirstOfVideo
  <2> QED BY <1>2, <2>2
<1>4. largest \in Nat
  <2> DEFINE f == [t \in Streams |-> s.tracks[t].max_chunk_size]
  <2>1. f \in [Streams -> Nat] BY <1>2
  <2>2. PICK t \in Streams : \A u \in Streams : f[u] <= f[t]
    <3> HIDE DEF f
    <3> QED BY <2>1, MaxExists
  <2>3. \A u \in Streams : s.tracks[u].max_chunk_size <= s.tracks[t].max_chunk_size
    BY <2>2
  <2> QED BY <1>2, <2>3
<1> HIDE DEF largest
<1>5. buffer \in Nat
  <2>1. (largest + 3) \div 4 \in Nat BY <1>4
  <2> QED BY <2>1
<1>6. length \in [Streams -> Nat] BY <1>2
<1> HIDE DEF frames, buffer, length
<1>7. stamp \in [frames : Nat, buffer : Nat, length : [Streams -> Nat]]
  BY <1>3, <1>5, <1>6
<1> HIDE DEF stamp
<1>8. Typed(w) /\ w.disk = s.disk /\ w.pos = s.pos /\ SameFields(s, w)
  BY <1>1, <1>7, StampTyped DEF Good
<1> QED BY <1>8, GoodSameDisk

\* patch_super_index
LEMMA PatchSuperIndexGood ==
  ASSUME NEW s, Good(s), NEW w, w = PatchSuperIndex(s), opts \in Options
  PROVE  Good(w)
<1> DEFINE capacity(t) == IndxBytes(t) \div SuperEntry
           records(t) == s.tracks[t].ix_chunk_records
           n(t) == IF Len(records(t)) < capacity(t) THEN Len(records(t)) ELSE capacity(t)
           indx(t) == [kind |-> "super", base |-> 0, ents |-> SubSeq(records(t), 1, n(t))]
           tracks == [t \in Streams |-> [s.tracks[t] EXCEPT !.indx = indx(t)]]
<1>1. w = SetTracks(s, tracks)
  BY DEF PatchSuperIndex, SetTracks
<1>2. s.tracks \in [Streams -> TrackState]
  BY DEF Good, Typed, MuxerRecord
<1>3. ASSUME NEW t \in Streams
      PROVE  indx(t) \in IndxType /\ indx(t).kind # "std"
  <2>1. records(t) \in Seq(IxRecord) BY <1>2 DEF TrackState
  <2>2. n(t) \in Nat /\ n(t) <= Len(records(t))
    <3>1. capacity(t) \in Nat BY IndxBytesNat DEF SuperEntry
    <3> HIDE DEF capacity, records
    <3> QED BY <2>1, <3>1
  <2> HIDE DEF records, n
  <2>3. SubSeq(records(t), 1, n(t)) \in Seq(IxRecord)
    BY <2>1, <2>2, Prefix
  <2> QED BY <2>3 DEF IndxType
<1> HIDE DEF indx
<1>4. ASSUME NEW t \in Streams
      PROVE  /\ tracks[t] \in TrackState
             /\ tracks[t].ix_entries = s.tracks[t].ix_entries
             /\ tracks[t].ix_chunk_records = s.tracks[t].ix_chunk_records
             /\ tracks[t].indx = indx(t)
  <2> DEFINE o == s.tracks[t]
             k == [o EXCEPT !.indx = indx(t)]
  <2>1. o \in TrackState /\ indx(t) \in IndxType BY <1>2, <1>3
  <2>2. tracks[t] = k OBVIOUS
  <2> HIDE DEF o
  <2>3. /\ k \in TrackState /\ k.ix_entries = o.ix_entries
        /\ k.ix_chunk_records = o.ix_chunk_records /\ k.indx = indx(t)
    BY <2>1, Zenon DEF TrackState, IndxType
  <2> QED BY <2>2, <2>3 DEF o
<1>5. tracks \in [Streams -> TrackState]
  <2>1. tracks = [t \in Streams |-> tracks[t]] OBVIOUS
  <2> HIDE DEF tracks
  <2> QED BY <1>4, <2>1
<1> HIDE DEF tracks
<1>6. /\ Typed(w) /\ w.disk = s.disk /\ w.pos = s.pos /\ Near(s, w)
      /\ w.tracks = tracks /\ w.rec_open_size_off = s.rec_open_size_off
  BY <1>1, <1>5, TracksTyped DEF Good
<1>7. \A t \in Streams :
        /\ w.tracks[t].ix_chunk_records = s.tracks[t].ix_chunk_records
        /\ EntsPoint(s, QwBase(s), t, w.tracks[t].ix_entries)
        /\ w.tracks[t].indx.kind # "std"
  BY <1>3, <1>4, <1>6 DEF Good, Entries
<1> QED BY <1>6, <1>7, GoodTracks

\* patch_strl_std_indexes: the entries drained into the strl keep the base
\* they were made for.
LEMMA PatchStrlStdIndexesGood ==
  ASSUME NEW s, Good(s), NEW w, w = PatchStrlStdIndexes(s), opts \in Options
  PROVE  Good(w)
<1> DEFINE capacity(t) == IndxBytes(t) \div EntrySize(t)
           entries(t) == s.tracks[t].ix_entries
           n(t) == IF Len(entries(t)) < capacity(t) THEN Len(entries(t)) ELSE capacity(t)
           indx(t) == [kind |-> "std", base |-> QwBase(s), ents |-> SubSeq(entries(t), 1, n(t))]
           tracks == [t \in Streams |->
                        [s.tracks[t] EXCEPT !.ix_entries = <<>>, !.indx = indx(t)]]
<1>1. w = SetTracks(s, tracks)
  BY DEF PatchStrlStdIndexes, SetTracks
<1>2. s.tracks \in [Streams -> TrackState] /\ QwBase(s) \in Nat
  BY SMTT(40) DEF Good, Typed, MuxerRecord, QwBase, MoviStart
<1>3. ASSUME NEW t \in Streams
      PROVE  indx(t) \in IndxType /\ EntsPoint(s, indx(t).base, t, indx(t).ents)
  <2>1. entries(t) \in Seq(IxEntry) BY <1>2 DEF TrackState
  <2>2. EntsPoint(s, QwBase(s), t, entries(t)) BY DEF Good, Entries
  <2>3. n(t) \in Nat /\ n(t) <= Len(entries(t))
    <3>1. capacity(t) \in Nat BY IndxBytesNat DEF EntrySize
    <3> HIDE DEF capacity, entries
    <3> QED BY <2>1, <3>1
  <2> HIDE DEF entries, n
  <2> DEFINE kept == SubSeq(entries(t), 1, n(t))
  <2>4. /\ kept \in Seq(IxEntry)
        /\ \A i \in DOMAIN kept : i \in DOMAIN entries(t) /\ kept[i] = entries(t)[i]
    BY <2>1, <2>3, Prefix
  <2>5. indx(t).ents = kept /\ indx(t).base = QwBase(s) OBVIOUS
  <2>6. indx(t) \in IndxType BY <1>2, <2>4 DEF IndxType
  <2> HIDE DEF kept, indx
  <2>7. EntsPoint(s, QwBase(s), t, kept) BY <2>2, <2>4 DEF EntsPoint
  <2> QED BY <2>5, <2>6, <2>7
<1> HIDE DEF indx
<1>4. ASSUME NEW t \in Streams
      PROVE  /\ tracks[t] \in TrackState
             /\ tracks[t].ix_entries = <<>>
             /\ tracks[t].ix_chunk_records = s.tracks[t].ix_chunk_records
             /\ tracks[t].indx = indx(t)
  <2> DEFINE o == s.tracks[t]
             k == [o EXCEPT !.ix_entries = <<>>, !.indx = indx(t)]
  <2>1. o \in TrackState /\ indx(t) \in IndxType /\ <<>> \in Seq(IxEntry) BY <1>2, <1>3
  <2>2. tracks[t] = k OBVIOUS
  <2> HIDE DEF o
  <2>3. /\ k \in TrackState /\ k.ix_entries = <<>>
        /\ k.ix_chunk_records = o.ix_chunk_records /\ k.indx = indx(t)
    BY <2>1, Zenon DEF TrackState, IndxType
  <2> QED BY <2>2, <2>3 DEF o
<1>5. tracks \in [Streams -> TrackState]
  <2>1. tracks = [t \in Streams |-> tracks[t]] OBVIOUS
  <2> HIDE DEF tracks
  <2> QED BY <1>4, <2>1
<1> HIDE DEF tracks
<1>6. /\ Typed(w) /\ w.disk = s.disk /\ w.pos = s.pos /\ Near(s, w)
      /\ w.tracks = tracks /\ w.rec_open_size_off = s.rec_open_size_off
  BY <1>1, <1>5, TracksTyped DEF Good
<1>7. EntsPoint(s, QwBase(s), NoTrack, <<>>) /\ \A t : EntsPoint(s, QwBase(s), t, <<>>)
  BY DEF EntsPoint
<1>8. \A t \in Streams :
        /\ w.tracks[t].ix_chunk_records = s.tracks[t].ix_chunk_records
        /\ EntsPoint(s, QwBase(s), t, w.tracks[t].ix_entries)
        /\ EntsPoint(s, w.tracks[t].indx.base, t, w.tracks[t].indx.ents)
  BY <1>3, <1>4, <1>6, <1>7
<1> QED BY <1>6, <1>8, GoodTracks

\* The patch of the indx chunks.
LEMMA PatchIndxGood ==
  ASSUME NEW s, Good(s), NEW w, w = PatchIndx(s), opts \in Options
  PROVE  Good(w)
<1>1. w \in {s, PatchStrlStdIndexes(s), PatchSuperIndex(s)}
  BY DEF PatchIndx
<1> QED BY <1>1, PatchStrlStdIndexesGood, PatchSuperIndexGood

\* The end of write_trailer.
LEMMA ConcludeGood ==
  ASSUME NEW s, Good(s), NEW w, w = Conclude(s)
  PROVE  Good(w)
<1> DEFINE breaches == BudgetBreaches(s)
           ok == ~(opts.strict /\ breaches # {})
<1>1. w = SetVerdict(s, breaches, ok)
  BY DEF Conclude, SetVerdict
<1>2. breaches \in SUBSET Streams
  BY DEF BudgetBreaches
<1>3. ok \in BOOLEAN OBVIOUS
<1> HIDE DEF breaches, ok
<1>4. w \in MuxerRecord(s.disk)
  BY <1>1, <1>2, <1>3, ZenonT(40) DEF Good, Typed, MuxerRecord, SetVerdict
<1>5. w.disk = s.disk /\ w.pos = s.pos /\ SameFields(s, w)
  BY <1>1, Zenon DEF Good, Typed, MuxerRecord, SameFields, Near, SetVerdict
<1>6. Typed(w) BY <1>4, <1>5 DEF Good, Typed, SameFields
<1> QED BY <1>5, <1>6, GoodSameDisk

-----------------------------------------------------------------------------
(* write_header                                                            *)

\* The state after write_header.
HeaderState(s) ==
  LET r == BeginList(s, "RIFF")
      h == WriteChunk(r, Cell("hdrl", NoTrack, opts.hdrl - 8))
  IN SetHeader(BeginList(h, "movi"), 4, h.pos + 4)

\* write_header takes a fresh muxer to a good one.
LEMMA HeaderGood ==
  ASSUME NEW s, Fresh(s), NEW w, w = HeaderState(s), opts \in Options
  PROVE  Good(w)
<1> DEFINE r == BeginList(s, "RIFF")
           cell == Cell("hdrl", NoTrack, opts.hdrl - 8)
           h == WriteChunk(r, cell)
           b == BeginList(h, "movi")
           movi == h.pos + 4
<1>1. w = SetHeader(b, 4, movi)
  BY DEF HeaderState
<1>2. /\ Typed(s) /\ Below(s) /\ s.pos = 0 /\ s.pos + 4 = 4
  BY DEF Fresh, Below
<1>3. /\ Typed(r) /\ Below(r) /\ SameFields(s, r)
      /\ IsList(r, 4, "RIFF") /\ NoNewIx(s, r)
  BY <1>2, BeginListGood DEF ListIds
<1> HIDE DEF r
<1>4. cell \in CellType /\ cell.id = "hdrl"
  <2>1. opts.hdrl - 8 \in Nat BY OptsTyped DEF Config
  <2>2. "hdrl" \in ListIds \cup MediaIds \cup {"hdrl", "JUNK", "ix", "idx1"} OBVIOUS
  <2>3. NoTrack \in Streams \cup {NoTrack} OBVIOUS
  <2> QED BY <2>1, <2>2, <2>3, CellTyped DEF Cell
<1> HIDE DEF cell
<1>5. /\ Typed(h) /\ Below(h) /\ Grows(r, h) /\ SameFields(r, h)
      /\ DOMAIN h.disk = DOMAIN r.disk \cup {r.pos}
      /\ h.disk[r.pos] = cell
      /\ \A at \in DOMAIN r.disk : h.disk[at] = r.disk[at] /\ at # r.pos
  BY <1>3, <1>4, WriteChunkGood
<1>6. NoNewIx(r, h) BY <1>4, <1>5 DEF NoNewIx
<1>7. IsList(h, 4, "RIFF") BY <1>3, <1>5 DEF Grows
<1> HIDE DEF h
<1>8. /\ Typed(b) /\ Below(b) /\ Grows(h, b) /\ SameFields(h, b)
      /\ IsList(b, movi, "movi") /\ NoNewIx(h, b) /\ h.pos \in Nat
  BY <1>5, BeginListGood DEF ListIds
<1>9. IsList(b, 4, "RIFF") BY <1>7, <1>8 DEF Grows
<1>10. movi \in Nat BY <1>8
<1> HIDE DEF b, movi
<1>11. /\ Typed(w) /\ w.disk = b.disk /\ w.pos = b.pos
       /\ w.riff_size_off = 4 /\ w.movi_size_off = movi
       /\ w.rec_open_size_off = NoList
       /\ w.tracks = b.tracks /\ w.header_written
  <2>1. Typed(b) /\ movi \in Nat BY <1>8, <1>10
  <2> DEFINE riff == 4
  <2>2. riff \in Nat /\ w = SetHeader(b, riff, movi) BY <1>1
  <2> HIDE DEF riff
  <2>3. /\ Typed(w) /\ w.disk = b.disk /\ w.pos = b.pos
        /\ w.riff_size_off = riff /\ w.movi_size_off = movi
        /\ w.rec_open_size_off = NoList
        /\ w.tracks = b.tracks /\ w.header_written
    BY <2>1, <2>2, HeaderTyped
  <2> QED BY <2>3 DEF riff
<1>12. Below(w) /\ Heads(w)
  BY <1>8, <1>9, <1>11 DEF Below, Heads, IsList
<1>13. \A at \in DOMAIN w.disk : w.disk[at].id # "ix"
  BY <1>3, <1>6, <1>8, <1>11 DEF NoNewIx, Fresh
<1>14. w.tracks = s.tracks
  BY <1>3, <1>5, <1>8, <1>11 DEF SameFields
<1>15. Entries(w)
  BY <1>13, <1>14 DEF Entries, EntsPoint, Fresh
<1> QED BY <1>11, <1>12, <1>15 DEF Good

-----------------------------------------------------------------------------
(* The specification                                                       *)

\* The inductive invariant. TypeOK alone does not hold on its own:
\* finish_chunk leaves sizes natural only if the offsets it patches are those
\* of lists on disk (Heads) and the position stays even (Below); IxResolves
\* needs that no roll leaves an entry pending.
IInv ==
  /\ opts \in Options
  /\ trailers \in Nat
  /\ Good(m) \/ Fresh(m)

\* open_avi makes a fresh muxer.
LEMMA InitIInv == Init => IInv
<1> SUFFICES ASSUME Init PROVE IInv
  OBVIOUS
<1>1. opts \in Options /\ trailers \in Nat
  BY DEF Init
<1>2. <<>> \in Seq(IxEntry) /\ <<>> \in Seq(IxRecord) /\ <<>> \in Seq(IndexEntry)
      /\ <<>> \in Seq([at : Nat, size : Nat, packets : Nat]) /\ DOMAIN <<>> = {}
      /\ Len(<<>>) = 0 /\ 0 % 2 = 0
  OBVIOUS
<1>3. NoIndx \in IndxType
  BY <1>2 DEF NoIndx, IndxType
<1>4. NewTrack \in TrackState
  BY <1>2, <1>3, Zenon DEF NewTrack, TrackState, IndxType
<1>5. [t \in Streams |-> NewTrack] \in [Streams -> TrackState]
  BY <1>4
<1>6. NoStamp \in [frames : Nat, buffer : Nat, length : [Streams -> Nat]]
  BY DEF NoStamp
<1>7. StrlStdRequested(opts) \in BOOLEAN
  BY DEF StrlStdRequested
<1>8. /\ m.header_written = FALSE /\ m.pos = 0 /\ m.disk = <<>>
      /\ m.rec_open_size_off = NoList
      /\ m.rec_open_idx1_slot = NoSlot /\ m.index = <<>>
      /\ m.tracks = [t \in Streams |-> NewTrack]
  BY Zenon DEF Init
<1>9. m \in MuxerRecord(m.disk)
  <2>1. NoList \in Nat /\ NoSlot \in Nat /\ NoField2 \in Nat \cup {NoField2}
        /\ {} \in SUBSET Streams
    BY DEF NoList, NoSlot
  <2> DEFINE tr == [t \in Streams |-> NewTrack]
             st == StrlStdRequested(opts)
  <2>2. m = [ ok |-> TRUE, header_written |-> FALSE, trailer_written |-> FALSE,
           pos |-> 0, disk |-> <<>>, riff_size_off |-> 0, movi_size_off |-> 0,
           rec_open_size_off |-> NoList, rec_open_idx1_slot |-> NoSlot,
           rec_packets |-> 0, rec_bytes |-> 0, segment_packets |-> 0,
           segments |-> <<>>, index |-> <<>>, snapshot |-> <<>>,
           pending_field2 |-> NoField2,
           strl_std_active |-> st,
           tracks |-> tr,
           over_budget |-> {}, stamp |-> NoStamp ]
    BY DEF Init
  <2>3. tr \in [Streams -> TrackState] /\ st \in BOOLEAN /\ 0 \in Nat
    BY <1>5, <1>7
  <2> HIDE DEF tr, st
  <2>4. m \in MuxerRecord(<<>>)
    BY <1>2, <1>6, <2>1, <2>2, <2>3, Zenon DEF MuxerRecord
  <2> QED BY <1>8, <2>4
<1>10. Typed(m)
  BY <1>2, <1>8, <1>9 DEF Typed, DiskOK, NoSlot
<1>11. Fresh(m)
  BY <1>2, <1>8, <1>10 DEF Fresh, NewTrack, NoIndx
<1> QED BY <1>1, <1>11 DEF IInv

\* write_header keeps IInv.
LEMMA WriteHeaderIInv ==
  ASSUME IInv, WriteHeader
  PROVE  IInv'
<1>1. Fresh(m) BY DEF IInv, WriteHeader, Good
<1>2. m' = HeaderState(m)
  BY DEF WriteHeader, HeaderState, SetHeader
<1>3. Good(m') BY <1>1, <1>2, HeaderGood DEF IInv
<1> QED BY <1>3 DEF IInv, WriteHeader

\* The cached position is the output's whenever it is used: what moves the
\* output after the roll test drops it.
LEMMA ChunkOffIs ==
  ASSUME NEW s0, NEW len, NEW s1, s1 = Roll(s0, len),
         NEW s2, s2 = Then(s1, Cluster(s1, len)), NEW s3, s3 = Then(s2, EmitPaddingJunk(s2))
  PROVE  ChunkOff(s0, s1, s3, len) = s3.pos
<1>1. ~MustRoll(s0, len) => s1 = s0 BY DEF Roll
<1>2. ~(Clustering /\ (s1.rec_open_size_off = NoList \/ ClusterFull(s1, len))) => s2 = s1
  BY DEF Cluster, Then
<1>3. opts.granularity = 0 => s3 = s2 BY DEF EmitPaddingJunk, Then
<1> QED BY <1>1, <1>2, <1>3 DEF ChunkOff

\* What write_packet does: the chunk is placed, and its entries made, at the
\* output's position.
LEMMA PacketSteps ==
  ASSUME NEW p, WritePacket(p)
  PROVE  LET s0 == SetOk(m, TRUE)
             s1 == Roll(s0, p.len)
             s2 == Then(s1, Cluster(s1, p.len))
             s3 == Then(s2, EmitPaddingJunk(s2))
             s4 == Then(s3, PlacePacket(s3, s3.pos, p))
             s5 == Then(s4, MidMoviFlush(s4, p.trk))
         IN  m' = Then(s5, CheckCeiling(s5)) /\ opts' = opts /\ trailers' = trailers
<1> DEFINE s0 == SetOk(m, TRUE)
           s1 == Roll(s0, p.len)
           s2 == Then(s1, Cluster(s1, p.len))
           s3 == Then(s2, EmitPaddingJunk(s2))
           at == ChunkOff(s0, s1, s3, p.len)
           s4 == Then(s3, PlacePacket(s3, at, p))
           s5 == Then(s4, MidMoviFlush(s4, p.trk))
<1>1. m' = Then(s5, CheckCeiling(s5)) /\ opts' = opts /\ trailers' = trailers
  BY DEF WritePacket, SetOk
<1>2. at = s3.pos BY ChunkOffIs
<1> HIDE DEF at
<1> QED BY <1>1, <1>2

\* write_packet keeps IInv, whichever of its steps fails.
LEMMA WritePacketIInv ==
  ASSUME IInv, NEW p \in Packets, WritePacket(p)
  PROVE  IInv'
<1> DEFINE s0 == SetOk(m, TRUE)
           s1 == Roll(s0, p.len)
           s2 == Then(s1, Cluster(s1, p.len))
           s3 == Then(s2, EmitPaddingJunk(s2))
           s4 == Then(s3, PlacePacket(s3, s3.pos, p))
           s5 == Then(s4, MidMoviFlush(s4, p.trk))
           s6 == Then(s5, CheckCeiling(s5))
<1>1. m' = s6
  BY PacketSteps
<1>2. opts \in Options /\ p.trk \in Streams BY MuxerAssumption DEF IInv
<1>3. Good(s0)
  <2>1. Good(m) BY DEF IInv, WritePacket, Fresh
  <2> QED BY <2>1, SetOkGood
<1> HIDE DEF s0
<1>4. Good(s1) BY <1>3, RollGood
<1> HIDE DEF s1
<1>5. Good(s2) BY <1>4, ClusterGood DEF Then
<1> HIDE DEF s2
<1>6. Good(s3) BY <1>2, <1>5, EmitPaddingJunkGood DEF Then
<1> HIDE DEF s3
<1>7. Good(s4) BY <1>6, PlacePacketGood DEF Then
<1> HIDE DEF s4
<1>8. Good(s5) BY <1>2, <1>7, MidMoviFlushGood DEF Then
<1> HIDE DEF s5
<1>9. Good(s6) BY <1>8, CheckCeilingGood DEF Then
<1> QED BY <1>1, <1>9 DEF IInv, WritePacket

\* The side-band writers keep IInv, whichever of their steps fails.
LEMMA WriteSidebandChunkIInv ==
  ASSUME IInv, NEW c \in SideChunks, WriteSidebandChunk(c)
  PROVE  IInv'
<1> DEFINE cell == Cell(c.kind, c.trk, c.len)
           s0 == SetOk(m, TRUE)
           s1 == Roll(s0, c.len)
           s2 == Then(s1, Cluster(s1, c.len))
           s3 == Then(s2, PlaceChunk(s2, s2.pos, cell, NoField2))
<1>1. m' = s3
  BY DEF WriteSidebandChunk, SetOk
<1>2. IsMedia(cell)
  <2>1. c.trk \in Streams /\ c.len \in Nat /\ c.kind \in {"tx", "pc"} BY MuxerAssumption
  <2>2. c.kind \in MediaIds BY <2>1 DEF MediaIds
  <2>3. cell \in CellType BY <2>1, <2>2, CellTyped
  <2>4. cell.id = c.kind /\ cell.trk = c.trk BY DEF Cell
  <2> QED BY <2>1, <2>2, <2>3, <2>4 DEF IsMedia
<1> HIDE DEF cell
<1>3. Good(s0)
  <2>1. Good(m) BY DEF IInv, WriteSidebandChunk, Fresh
  <2> QED BY <2>1, SetOkGood
<1> HIDE DEF s0
<1>4. Good(s1) BY <1>3, RollGood
<1> HIDE DEF s1
<1>5. Good(s2) BY <1>4, ClusterGood DEF Then
<1> HIDE DEF s2
<1>6. Good(s3) BY <1>2, <1>5, PlaceChunkGood DEF Then
<1> QED BY <1>1, <1>6 DEF IInv, WriteSidebandChunk

\* write_trailer keeps IInv, whichever of its steps fails.
LEMMA WriteTrailerIInv ==
  ASSUME IInv, WriteTrailer
  PROVE  IInv'
<1> DEFINE s0 == SetOk(m, TRUE)
           s1 == CloseRecCluster(s0)
           s2 == IF OpenDml /\ ~s1.strl_std_active THEN FlushIxChunks(s1) ELSE s1
           s3 == Then(s1, FinishSegment(s2))
           s4 == PatchPostCounts(s3)
           s5 == PatchIndx(s4)
           s6 == Conclude(s5)
           s7 == Then(s3, s6)
<1>1. m' = s7 /\ trailers' = trailers + 1 /\ opts' = opts
  BY DEF WriteTrailer, SetOk
<1>2. Good(s0)
  <2>1. Good(m) BY DEF IInv, WriteTrailer, Fresh
  <2> QED BY <2>1, SetOkGood
<1> HIDE DEF s0
<1>3. Good(s1) BY <1>2, CloseRecClusterGood
<1> HIDE DEF s1
<1>4. Good(s2) BY <1>3, FlushIxChunksGood DEF Cleared
<1> HIDE DEF s2
<1>5. Good(s3) BY <1>3, <1>4, FinishSegmentGood DEF Then
<1> HIDE DEF s3
<1>6. Good(s4) BY <1>5, PatchPostCountsGood
<1> HIDE DEF s4
<1>7. Good(s5) BY <1>6, PatchIndxGood DEF IInv
<1> HIDE DEF s5
<1>8. Good(s6) BY <1>7, ConcludeGood
<1> HIDE DEF s6
<1>9. Good(s7) BY <1>5, <1>8 DEF Then
<1> QED BY <1>1, <1>9 DEF IInv

\* The calls that write nothing keep IInv.
LEMMA LightIInv ==
  ASSUME IInv,
         \/ \E off \in Field2Offs : SetField2Offset(off)
         \/ EarlyReturn
         \/ UNCHANGED vars
  PROVE  IInv'
<1>1. ASSUME NEW w, Typed(w), w.disk = m.disk, w.pos = m.pos, SameFields(m, w)
      PROVE  Good(w) \/ Fresh(w)
  <2>1. CASE Good(m) BY <1>1, <2>1, GoodSameDisk
  <2>2. CASE Fresh(m) BY <1>1, <2>2 DEF Fresh, SameFields, Near
  <2> QED BY <2>1, <2>2 DEF IInv
<1>2. Typed(m) BY DEF IInv, Good, Fresh
<1>3. ASSUME NEW off \in Field2Offs, SetField2Offset(off) PROVE IInv'
  <2>1. m' = SetPending(m, off) /\ opts' = opts /\ trailers' = trailers
    BY <1>3 DEF SetField2Offset, SetPending
  <2>2. off \in Nat \cup {NoField2} BY MuxerAssumption
  <2>3. Typed(m') /\ m'.disk = m.disk /\ m'.pos = m.pos /\ SameFields(m, m')
    BY <1>2, <2>1, <2>2, PendingTyped
  <2> QED BY <1>1, <2>1, <2>3 DEF IInv
<1>4. ASSUME EarlyReturn PROVE IInv'
  <2>1. PICK b \in BOOLEAN : m' = SetOk(m, b)
    BY <1>4 DEF EarlyReturn, SetOk
  <2>2. Typed(m') /\ m'.disk = m.disk /\ m'.pos = m.pos /\ SameFields(m, m')
    BY <1>2, <2>1, OkTyped
  <2>3. opts' = opts /\ trailers' = trailers BY <1>4 DEF EarlyReturn
  <2> QED BY <1>1, <2>2, <2>3 DEF IInv
<1>5. ASSUME UNCHANGED vars PROVE IInv'
  <2>1. m' = m /\ opts' = opts /\ trailers' = trailers BY <1>5 DEF vars
  <2> QED BY <2>1 DEF IInv
<1> QED BY <1>3, <1>4, <1>5

\* IInv is an invariant of the muxer.
THEOREM Inductive == Spec => []IInv
<1>1. IInv /\ [Next]_vars => IInv'
  BY WriteHeaderIInv, WritePacketIInv, WriteSidebandChunkIInv, WriteTrailerIInv,
     LightIInv DEF Next
<1> QED BY <1>1, InitIInv, PTL DEF Spec

\* No call leaves a negative size, count or offset, a cluster slot outside
\* the index or an odd output position, failed and repeated calls included.
THEOREM TypeCorrect == Spec => []TypeOK
<1>1. IInv => TypeOK
  BY DEF IInv, Good, Fresh, Typed, TypeOK
<1> QED BY <1>1, Inductive, PTL

\* Every standard-index entry (pending in memory, in an ix## chunk, or in a
\* strl) names the chunk it was made for, through every roll, cluster,
\* alignment JUNK, inline flush, failed call and retry.
THEOREM StandardIndexesResolve == Spec => []IxResolves
<1>1. IInv => IxResolves
  <2> SUFFICES ASSUME IInv PROVE IxResolves
    OBVIOUS
  <2>1. CASE Good(m)
    BY <2>1 DEF Good, Entries, EntsPoint, Points, IxResolves, Resolves, Chunks
  <2>2. CASE Fresh(m)
    BY <2>2 DEF Fresh, IxResolves, Chunks
  <2> QED BY <2>1, <2>2 DEF IInv
<1> QED BY <1>1, Inductive, PTL

\* Every ix## record kept for the super-index is the offset and the full
\* length of an ix## chunk of its stream.
THEOREM SuperIndexRecordsResolve == Spec => []SuperIndexResolves
<1>1. IInv => SuperIndexResolves
  <2> SUFFICES ASSUME IInv PROVE SuperIndexResolves
    OBVIOUS
  <2>1. CASE Good(m)
    BY ZenonT(60), <2>1 DEF Good, Entries, RecordPoints, SuperIndexResolves, Chunks
  <2>2. CASE Fresh(m)
    BY <2>2 DEF Fresh, SuperIndexResolves
  <2> QED BY <2>1, <2>2 DEF IInv
<1> QED BY <1>1, Inductive, PTL
=============================================================================
