------------------------- MODULE AviMuxer_invariants -------------------------
(***************************************************************************)
(* That the idx1 index always leads to its chunks, that the open LIST rec  *)
(* is accounted to the byte and to the packet, that packets are aligned    *)
(* and that the per-stream counters are those of the chunks on disk, for   *)
(* every configuration and every sequence of calls, failed ones included.  *)
(*                                                                         *)
(* The invariant Sound adds to Good of AviMuxer_proofs what these need.    *)
(* Every private method keeps it when it is entered after no failure, as   *)
(* the `?` operator has it.  Most methods are neutral: they write no       *)
(* packet and open or close no cluster, and one lemma covers them all.     *)
(*                                                                         *)
(* First comes what each private method may change: the fields of the      *)
(* muxer, the list sizes it patches and the kinds of chunks it writes.     *)
(* This proof and those of the action property rest on these summaries,    *)
(* and no longer on the methods' definitions.                              *)
(***************************************************************************)
EXTENDS AviMuxer_proofs, FiniteSetTheorems

-----------------------------------------------------------------------------
(* What each method may change                                             *)

Fields ==
  { "ok", "header_written", "trailer_written", "pos", "disk", "riff_size_off",
    "movi_size_off", "rec_open_size_off", "rec_open_idx1_slot", "rec_packets",
    "rec_bytes", "segment_packets", "segments", "index", "snapshot",
    "pending_field2", "strl_std_active", "tracks", "over_budget", "stamp" }

\* The step from s to w changes no field outside F.
Only(s, w, F) == \A f \in Fields : f \in F \/ w[f] = s[f]

\* Cell d is cell c with another size.
Resized(c, d) ==
  /\ d.id = c.id /\ d.trk = c.trk /\ d.key = c.key
  /\ d.base = c.base /\ d.ents = c.ents

\* The step patches no size but those of the lists whose headers are at heads,
\* and writes chunks of the kinds ids after what is on disk.
Writes(s, w, heads, ids) ==
  /\ w.pos >= s.pos
  /\ \A at \in DOMAIN s.disk :
       /\ at \in DOMAIN w.disk
       /\ Resized(s.disk[at], w.disk[at])
       /\ at \in heads \/ w.disk[at] = s.disk[at]
  /\ \A at \in DOMAIN w.disk : at \in DOMAIN s.disk \/ (at >= s.pos /\ w.disk[at].id \in ids)

\* The counters write_packet keeps for each stream are the same.
CountsKept(s, w) ==
  \A t \in Streams :
    /\ w.tracks[t].packet_count = s.tracks[t].packet_count
    /\ w.tracks[t].sample_count = s.tracks[t].sample_count
    /\ w.tracks[t].max_chunk_size = s.tracks[t].max_chunk_size

-----------------------------------------------------------------------------
(* Steps one after the other                                               *)

LEMMA OnlyTrans ==
  ASSUME NEW s, NEW v, NEW w, NEW F, NEW G, Only(s, v, F), Only(v, w, G)
  PROVE  Only(s, w, F \cup G)
BY DEF Only

LEMMA OnlyMore ==
  ASSUME NEW s, NEW w, NEW F, NEW G, Only(s, w, F), F \subseteq G
  PROVE  Only(s, w, G)
BY DEF Only

LEMMA WritesTrans ==
  ASSUME NEW s, NEW v, NEW w, Typed(s), Typed(v), Typed(w),
         NEW H, NEW I, NEW K, NEW J, Writes(s, v, H, I), Writes(v, w, K, J)
  PROVE  Writes(s, w, H \cup K, I \cup J)
<1>1. s.pos \in Nat /\ v.pos \in Nat /\ w.pos \in Nat
  BY DEF Typed, MuxerRecord
<1>2. \A at \in DOMAIN w.disk : at \in Nat
  BY DEF Typed, DiskOK
<1>3. \A at \in DOMAIN s.disk : at \in DOMAIN v.disk /\ at \in DOMAIN w.disk
  BY DEF Writes
<1>4. \A at \in DOMAIN s.disk : Resized(s.disk[at], w.disk[at])
  BY <1>3 DEF Writes, Resized
<1>5. \A at \in DOMAIN s.disk : at \in H \cup K \/ w.disk[at] = s.disk[at]
  BY <1>3 DEF Writes
<1>6. ASSUME NEW at \in DOMAIN w.disk, at \notin DOMAIN s.disk
      PROVE  at >= s.pos /\ w.disk[at].id \in I \cup J
  <2>1. CASE at \in DOMAIN v.disk
    BY <1>6, <2>1 DEF Writes, Resized
  <2>2. CASE at \notin DOMAIN v.disk
    BY <1>1, <1>2, <2>2 DEF Writes
  <2> QED BY <2>1, <2>2
<1> QED BY <1>1, <1>3, <1>4, <1>5, <1>6 DEF Writes

LEMMA WritesMore ==
  ASSUME NEW s, NEW w, NEW H, NEW I, NEW K, NEW J,
         Writes(s, w, H, I), H \subseteq K, I \subseteq J
  PROVE  Writes(s, w, K, J)
BY DEF Writes

\* A step that leaves the output alone writes nothing.
LEMMA WritesNothing ==
  ASSUME NEW s, Typed(s), NEW w, w.disk = s.disk, w.pos = s.pos, NEW H, NEW I
  PROVE  Writes(s, w, H, I)
BY DEF Writes, Resized, Typed, MuxerRecord

LEMMA CountsTrans ==
  ASSUME NEW s, NEW v, NEW w, CountsKept(s, v), CountsKept(v, w)
  PROVE  CountsKept(s, w)
BY DEF CountsKept

-----------------------------------------------------------------------------
(* The output                                                              *)

\* Cell is the one chunk the step from s to w writes, at the position of s.
Placed(s, w, cell) ==
  /\ w.pos = s.pos + 8 + Pad(cell.len)
  /\ DOMAIN w.disk = DOMAIN s.disk \cup {s.pos}
  /\ w.disk[s.pos] = cell
  /\ \A at \in DOMAIN s.disk : w.disk[at] = s.disk[at] /\ at # s.pos

\* The one chunk the step writes is of this kind.
Adds(s, w, id) == \E cell \in CellType : cell.id = id /\ Placed(s, w, cell)

\* write_chunk
LEMMA WriteChunkStep ==
  ASSUME NEW s, Typed(s), Below(s), NEW cell \in CellType, NEW w, w = WriteChunk(s, cell)
  PROVE  /\ Writes(s, w, {}, {cell.id})
         /\ Only(s, w, {"disk", "pos"})
         /\ Placed(s, w, cell)
<1> DEFINE D == Put(s.disk, s.pos, cell)
           P == s.pos + 8 + Pad(cell.len)
<1>1. w = SetDiskPos(s, D, P) BY DEF WriteChunk, SetDiskPos
<1>2. /\ Typed(w) /\ Grows(s, w)
      /\ DOMAIN w.disk = DOMAIN s.disk \cup {s.pos}
      /\ w.disk[s.pos] = cell
      /\ \A at \in DOMAIN s.disk : w.disk[at] = s.disk[at] /\ at # s.pos
  BY WriteChunkGood
<1>3. w.pos = P /\ s.pos \in Nat
  BY <1>1 DEF SetDiskPos, Typed, MuxerRecord
<1> HIDE DEF D, P
<1>4. Only(s, w, {"disk", "pos"})
  BY <1>1 DEF Typed, MuxerRecord, SetDiskPos, Only, Fields
<1>5. Writes(s, w, {}, {cell.id})
  BY <1>2, <1>3 DEF Writes, Resized, Grows
<1>6. Placed(s, w, cell) BY <1>2, <1>3 DEF Placed, P
<1> QED BY <1>4, <1>5, <1>6

\* begin_list
LEMMA BeginListStep ==
  ASSUME NEW s, Typed(s), Below(s), NEW id \in ListIds, NEW w, w = BeginList(s, id)
  PROVE  /\ Writes(s, w, {}, {id})
         /\ Only(s, w, {"disk", "pos"})
         /\ DOMAIN w.disk = DOMAIN s.disk \cup {s.pos}
         /\ w.disk[s.pos] = Cell(id, NoTrack, 0)
         /\ \A at \in DOMAIN s.disk : w.disk[at] = s.disk[at] /\ at # s.pos
         /\ s.pos \notin DOMAIN s.disk
<1> DEFINE P == s.pos + 12
           cell == Cell(id, NoTrack, 0)
<1>1. s.pos \in Nat /\ s.pos % 2 = 0
  BY DEF Typed, MuxerRecord
<1>2. P \in Nat /\ P % 2 = 0 /\ P >= s.pos + 8
  BY <1>1, EvenSum
<1>3. w = AddAt(s, cell, P)
  BY DEF BeginList, AddAt, SetDiskPos
<1>4. cell \in CellType /\ cell.id = id
  BY CellTyped DEF Cell
<1> HIDE DEF P, cell
<1>5. /\ w.pos = P
      /\ DOMAIN w.disk = DOMAIN s.disk \cup {s.pos}
      /\ w.disk[s.pos] = cell
      /\ \A at \in DOMAIN s.disk : w.disk[at] = s.disk[at] /\ at # s.pos
  BY <1>2, <1>3, <1>4, AddCell
<1>6. Only(s, w, {"disk", "pos"})
  BY <1>3 DEF Typed, MuxerRecord, AddAt, SetDiskPos, Only, Fields
<1>7. Writes(s, w, {}, {id})
  BY <1>1, <1>2, <1>4, <1>5 DEF Writes, Resized
<1> QED BY <1>5, <1>6, <1>7 DEF cell

\* finish_chunk patches one size, or fails when the body outgrew 32 bits.
LEMMA FinishListStep ==
  ASSUME NEW s, Typed(s), Below(s), s.ok, NEW off \in Nat, NEW id \in ListIds,
         IsList(s, off, id), NEW w, w = FinishList(s, off)
  PROVE  /\ Writes(s, w, {off - 4}, {})
         /\ Only(s, w, {"ok", "disk"})
         /\ w.ok <=> s.pos - (off + 4) <= DwMax
         /\ w.ok => w.disk[off - 4].len = s.pos - (off + 4)
         /\ ~w.ok => w.disk = s.disk
<1> DEFINE body == s.pos - (off + 4)
           D == [s.disk EXCEPT ![off - 4] = [s.disk[off - 4] EXCEPT !.len = body]]
           P == s.pos + (body % 2)
<1>1. s.pos \in Nat /\ s.pos % 2 = 0 /\ DwMax \in Nat
  BY MuxerAssumption DEF Typed, MuxerRecord
<1>2. off >= 4 /\ off - 4 \in DOMAIN s.disk /\ s.disk[off - 4].id = id /\ off + 8 <= s.pos
  BY DEF IsList
<1>3. body \in Nat /\ body % 2 = 0 BY <1>1, <1>2 DEF Below
<1>4. P = s.pos BY <1>1, <1>3
<1>5. CASE body > DwMax
  <2>1. w = SetOk(s, FALSE) BY <1>5 DEF FinishList, SetOk
  <2>2. w.disk = s.disk /\ w.pos = s.pos /\ w.ok = FALSE
    BY <2>1, OkTyped
  <2>3. Only(s, w, {"ok", "disk"})
    BY <2>1 DEF Typed, MuxerRecord, SetOk, Only, Fields
  <2>4. Writes(s, w, {off - 4}, {}) BY <2>2, WritesNothing
  <2> QED BY <1>1, <1>3, <1>5, <2>2, <2>3, <2>4
<1>6. CASE ~(body > DwMax)
  <2>1. w = SetDiskPos(s, D, P) BY <1>6 DEF FinishList, SetDiskPos
  <2>2. s.disk[off - 4] \in CellType BY <1>2 DEF Typed, DiskOK
  <2>3. /\ Resized(s.disk[off - 4], [s.disk[off - 4] EXCEPT !.len = body])
        /\ [s.disk[off - 4] EXCEPT !.len = body].len = body
    BY <2>2 DEF CellType, Resized
  <2>4. /\ DOMAIN D = DOMAIN s.disk
        /\ Resized(s.disk[off - 4], D[off - 4]) /\ D[off - 4].len = body
        /\ \A at \in DOMAIN s.disk : at # off - 4 => D[at] = s.disk[at]
    BY <1>2, <2>3
  <2> HIDE DEF D, P
  <2>5. w.disk = D /\ w.pos = s.pos /\ w.ok = s.ok
    BY <1>4, <2>1 DEF SetDiskPos, Typed, MuxerRecord
  <2>6. Only(s, w, {"disk", "pos"})
    BY <2>1 DEF Typed, MuxerRecord, SetDiskPos, Only, Fields
  <2>7. Only(s, w, {"ok", "disk"}) BY <2>5, <2>6 DEF Only
  <2>8. Writes(s, w, {off - 4}, {})
    BY <1>1, <2>4, <2>5 DEF Writes, Resized
  <2> QED BY <1>1, <1>3, <1>6, <2>4, <2>5, <2>7, <2>8
<1> QED BY <1>5, <1>6

-----------------------------------------------------------------------------
(* LIST rec  clusters                                                      *)

ClusterFields ==
  { "rec_open_size_off", "rec_open_idx1_slot", "index", "rec_packets", "rec_bytes" }

\* The idx1 entry open_rec_cluster makes.
RecEntry(s) ==
  [id |-> "rec", trk |-> NoTrack, off |-> s.pos - MoviStart(s), len |-> 0, key |-> FALSE]

\* One more list header is on disk, the one of the open cluster, listed in idx1
\* or not.
Opened(s, w) ==
  /\ DOMAIN w.disk = DOMAIN s.disk \cup {s.pos}
  /\ w.disk[s.pos] = Cell("rec", NoTrack, 0)
  /\ \A at \in DOMAIN s.disk : w.disk[at] = s.disk[at] /\ at # s.pos
  /\ w.pos = s.pos + 12 /\ w.rec_open_size_off = s.pos + 4
  /\ w.rec_packets = 0 /\ w.rec_bytes = 0
  /\ \/ w.index = s.index /\ w.rec_open_idx1_slot = NoSlot
     \/ /\ InPrimary(s)
        /\ w.index = Append(s.index, RecEntry(s))
        /\ w.rec_open_idx1_slot = Len(s.index) + 1

\* open_rec_cluster
LEMMA OpenRecClusterStep ==
  ASSUME NEW s, Good(s), NEW w, w = OpenRecCluster(s)
  PROVE  /\ Writes(s, w, {}, {"rec"})
         /\ Only(s, w, {"disk", "pos"} \cup ClusterFields)
         /\ Opened(s, w)
<1> DEFINE b == BeginList(s, "rec")
           off == s.pos + 4
           listed == InPrimary(s) /\ s.pos - MoviStart(s) <= DwMax
           slot == IF listed THEN Len(s.index) + 1 ELSE NoSlot
           index == IF listed THEN Append(b.index, RecEntry(s)) ELSE b.index
<1>1. w = SetCluster(b, off, slot, index)
  BY DEF OpenRecCluster, SetCluster, RecEntry
<1>2. /\ Typed(b) /\ b.pos = s.pos + 12
      /\ Writes(s, b, {}, {"rec"}) /\ Only(s, b, {"disk", "pos"})
      /\ DOMAIN b.disk = DOMAIN s.disk \cup {s.pos}
      /\ b.disk[s.pos] = Cell("rec", NoTrack, 0)
      /\ \A at \in DOMAIN s.disk : b.disk[at] = s.disk[at] /\ at # s.pos
  BY BeginListGood, BeginListStep DEF Good, ListIds
<1> HIDE DEF b
<1>3. b.index = s.index BY <1>2 DEF Only, Fields
<1> HIDE DEF off, slot, index
<1>4. /\ Only(b, w, ClusterFields) /\ w.disk = b.disk /\ w.pos = b.pos
      /\ w.rec_open_size_off = off /\ w.rec_open_idx1_slot = slot
      /\ w.index = index /\ w.rec_packets = 0 /\ w.rec_bytes = 0
  BY <1>1, <1>2 DEF Typed, MuxerRecord, SetCluster, Only, Fields, ClusterFields
<1>5. Only(s, w, {"disk", "pos"} \cup ClusterFields)
  BY <1>2, <1>4, OnlyTrans
<1>6. Writes(s, w, {}, {"rec"})
  BY <1>2, <1>4 DEF Writes
<1>7. Opened(s, w) BY <1>2, <1>3, <1>4 DEF Opened, off, slot, index
<1> QED BY <1>5, <1>6, <1>7

\* The size of the open list and of its idx1 entry, if it has one, are patched
\* to the same number.
Closed(s, w) ==
  /\ Writes(s, w, {s.rec_open_size_off - 4}, {})
  /\ Only(s, w, {"ok", "disk"} \cup ClusterFields)
  /\ w.disk[s.rec_open_size_off - 4].len = s.pos - (s.rec_open_size_off + 4)
  /\ w.index = IF s.rec_open_idx1_slot = NoSlot THEN s.index
               ELSE [s.index EXCEPT ![s.rec_open_idx1_slot].len
                       = s.pos - (s.rec_open_size_off + 4)]

\* close_rec_cluster: nothing to close, a body that outgrew 32 bits, or a
\* cluster closed.
LEMMA CloseRecClusterStep ==
  ASSUME NEW s, Good(s), s.ok, NEW w, w = CloseRecCluster(s)
  PROVE  \/ s.rec_open_size_off = NoList /\ w = s
         \/ /\ s.rec_open_size_off # NoList
            /\ ~w.ok /\ w.disk = s.disk
            /\ Only(s, w, {"ok", "disk", "rec_open_size_off"})
            /\ s.pos - (s.rec_open_size_off + 4) > DwMax
         \/ s.rec_open_size_off # NoList /\ w.ok /\ Closed(s, w)
<1> DEFINE off == s.rec_open_size_off
           s0 == SetOpen(s, NoList)
           f == FinishList(s0, off)
           n == s.pos - (off + 4)
           index == IF s.rec_open_idx1_slot = NoSlot THEN f.index
                    ELSE [f.index EXCEPT ![s.rec_open_idx1_slot].len = n]
           g == SetClosed(f, index, NoSlot, 0, 0)
<1>1. CASE off = NoList
  BY <1>1 DEF CloseRecCluster
<1>2. CASE off # NoList
  <2>1. w = IF f.ok THEN g ELSE f
    BY <1>2 DEF CloseRecCluster, SetOpen, SetClosed, Then
  <2>2. off \in Nat /\ IsList(s, off, "rec") /\ s.pos \in Nat
    BY <1>2 DEF Good, Heads, Typed, MuxerRecord
  <2>3. Typed(s0) /\ s0.disk = s.disk /\ s0.pos = s.pos
    BY SetOpenTyped DEF Good, NoList
  <2>4. Only(s, s0, {"rec_open_size_off"}) /\ s0.ok = s.ok
    BY DEF Good, Typed, MuxerRecord, SetOpen, Only, Fields
  <2> HIDE DEF s0
  <2>5. Below(s0) /\ IsList(s0, off, "rec")
    BY <2>2, <2>3 DEF Good, Below, IsList
  <2>6. Typed(f) /\ f.index = s0.index
    BY <2>2, <2>3, <2>5, FinishListGood DEF ListIds, SameFields
  <2>7. /\ Writes(s0, f, {off - 4}, {}) /\ Only(s0, f, {"ok", "disk"})
        /\ f.ok => f.disk[off - 4].len = n
        /\ ~f.ok => f.disk = s.disk /\ n > DwMax
    <3>1. s0.ok /\ "rec" \in ListIds /\ Typed(s0) /\ off \in Nat
      BY <2>2, <2>3, <2>4 DEF ListIds
    <3>2. Below(s0) /\ IsList(s0, off, "rec") BY <2>5
    <3> HIDE DEF off
    <3>3. /\ Writes(s0, f, {off - 4}, {}) /\ Only(s0, f, {"ok", "disk"})
          /\ f.ok => f.disk[off - 4].len = s0.pos - (off + 4)
          /\ f.ok <=> s0.pos - (off + 4) <= DwMax
          /\ ~f.ok => f.disk = s0.disk
      BY <3>1, <3>2, FinishListStep
    <3>4. ~f.ok => n > DwMax BY <2>2, <2>3, <3>1, <3>3, MuxerAssumption
    <3> QED BY <2>3, <3>3, <3>4
  <2> HIDE DEF f
  <2>8. f.index = s.index BY <2>4, <2>6 DEF Only, Fields
  <2>9. Writes(s, f, {off - 4}, {}) BY <2>3, <2>7 DEF Writes
  <2>10. Only(s, f, {"rec_open_size_off"} \cup {"ok", "disk"})
    BY <2>4, <2>7, OnlyTrans
  <2>11. CASE ~f.ok
    <3>1. w = f BY <2>1, <2>11
    <3>2. Only(s, w, {"ok", "disk", "rec_open_size_off"})
      BY <2>10, <3>1 DEF Only
    <3>3. ~w.ok /\ w.disk = s.disk /\ s.pos - (s.rec_open_size_off + 4) > DwMax
      BY <2>7, <2>11, <3>1
    <3> QED BY <1>2, <3>2, <3>3
  <2>12. CASE f.ok
    <3>1. w = g BY <2>1, <2>12
    <3> HIDE DEF index, n
    <3>2. /\ Only(f, w, ClusterFields) /\ w.disk = f.disk /\ w.ok = f.ok /\ w.index = index
          /\ w.pos = f.pos
      BY <2>6, <3>1 DEF Typed, MuxerRecord, SetClosed, Only, Fields, ClusterFields
    <3>3. Only(s, w, {"ok", "disk"} \cup ClusterFields)
      BY <2>10, <3>2 DEF Only, ClusterFields
    <3>4. Writes(s, w, {off - 4}, {}) BY <2>9, <3>2 DEF Writes
    <3>5. Closed(s, w) BY <2>7, <2>8, <2>12, <3>2, <3>3, <3>4 DEF Closed, index, n
    <3> QED BY <1>2, <2>12, <3>2, <3>5
  <2> QED BY <2>11, <2>12
<1> QED BY <1>1, <1>2

-----------------------------------------------------------------------------
(* Standard indexes                                                        *)

\* What flushing pending entries does: index chunks are written and only the
\* index fields of the tracks change.
IxFlush(s, w) ==
  /\ Writes(s, w, {}, {"ix"})
  /\ Only(s, w, {"disk", "pos", "tracks"})
  /\ CountsKept(s, w)

LEMMA IxFlushTrans ==
  ASSUME NEW s, NEW v, NEW w, Typed(s), Typed(v), Typed(w), IxFlush(s, v), IxFlush(v, w)
  PROVE  IxFlush(s, w)
<1> DEFINE F == {"disk", "pos", "tracks"}
           I == {"ix"}
<1>1. Only(s, v, F) /\ Only(v, w, F) BY DEF IxFlush
<1>2. Writes(s, v, {}, I) /\ Writes(v, w, {}, I) BY DEF IxFlush
<1>3. CountsKept(s, v) /\ CountsKept(v, w) BY DEF IxFlush
<1> HIDE DEF F, I
<1>4. Only(s, w, F \cup F) /\ F \cup F = F BY <1>1, OnlyTrans
<1>5. Writes(s, w, {} \cup {}, I \cup I) /\ I \cup I = I /\ {} \cup {} = {}
  BY <1>2, WritesTrans
<1>6. CountsKept(s, w) BY <1>3, CountsTrans
<1> QED BY <1>4, <1>5, <1>6 DEF IxFlush, F, I

\* flush_ix_for_track
LEMMA FlushIxForTrackStep ==
  ASSUME NEW s, Good(s), NEW t \in Streams, NEW w, w = FlushIxForTrack(s, t)
  PROVE  IxFlush(s, w) /\ (w = s \/ Adds(s, w, "ix"))
<1>1. CASE s.tracks[t].ix_entries = <<>>
  <2>1. w = s BY <1>1 DEF FlushIxForTrack
  <2>2. Writes(s, w, {}, {"ix"}) BY <2>1, WritesNothing DEF Good
  <2> QED BY <2>1, <2>2 DEF IxFlush, Only, CountsKept
<1>2. CASE s.tracks[t].ix_entries # <<>>
  <2> DEFINE k == Flushed(s, t)
             tracks == [s.tracks EXCEPT ![t] = k]
             u == SetTracks(s, tracks)
             cell == IxCell(s, t)
  <2>1. s.tracks \in [Streams -> TrackState] /\ s.tracks[t] \in TrackState
    BY DEF Good, Typed, MuxerRecord
  <2>2. k \in TrackState /\ cell \in CellType
    BY FlushedTyped
  <2>3. cell.id = "ix" BY DEF IxCell, Cell
  <2>4. /\ k.packet_count = s.tracks[t].packet_count
        /\ k.sample_count = s.tracks[t].sample_count
        /\ k.max_chunk_size = s.tracks[t].max_chunk_size
    BY <2>1, Zenon DEF Flushed, TrackState
  <2>5. w = WriteChunk(u, cell)
    <3>1. w = WriteChunk([s EXCEPT !.tracks[t] = k], cell)
      BY <1>2 DEF FlushIxForTrack
    <3>2. u = [s EXCEPT !.tracks[t] = k]
      BY DEF SetTracks
    <3> QED BY <3>1, <3>2
  <2> HIDE DEF k, cell
  <2>6. /\ tracks \in [Streams -> TrackState] /\ tracks[t] = k
        /\ \A x \in Streams : x # t => tracks[x] = s.tracks[x]
    BY <2>1, <2>2
  <2> HIDE DEF tracks
  <2>7. Typed(u) /\ u.disk = s.disk /\ u.pos = s.pos /\ u.tracks = tracks
    BY <2>6, TracksTyped DEF Good
  <2>8. Only(s, u, {"tracks"})
    BY DEF Good, Typed, MuxerRecord, SetTracks, Only, Fields
  <2> HIDE DEF u
  <2>9. Below(u) BY <2>7 DEF Good, Below
  <2>10. Writes(u, w, {}, {cell.id}) /\ Only(u, w, {"disk", "pos"}) /\ Placed(u, w, cell)
    BY <2>2, <2>5, <2>7, <2>9, WriteChunkStep
  <2>11. Writes(s, w, {}, {"ix"}) BY <2>3, <2>7, <2>10 DEF Writes
  <2>12. Only(s, w, {"disk", "pos", "tracks"})
    BY <2>8, <2>10 DEF Only
  <2>13. w.tracks = tracks BY <2>7, <2>10 DEF Only, Fields
  <2>14. CountsKept(s, w) BY <2>4, <2>6, <2>13 DEF CountsKept
  <2>15. Adds(s, w, "ix") BY <2>2, <2>3, <2>7, <2>10 DEF Adds, Placed
  <2> QED BY <2>11, <2>12, <2>14, <2>15 DEF IxFlush
<1> QED BY <1>1, <1>2

\* flush_ix_chunks, by induction on the streams.
LEMMA FlushIxChunksStep ==
  ASSUME NEW s, Good(s), NEW w, w = FlushIxChunks(s)
  PROVE  IxFlush(s, w)
<1>1. PICK f : /\ w = f[NumStreams] /\ f[0] = s
               /\ \A i \in 1 .. NumStreams : f[i] = FlushIxForTrack(f[i - 1], i - 1)
  BY FlushSteps
<1>2. NumStreams \in Nat BY MuxerAssumption
<1> DEFINE Holds(v) == Good(v) /\ IxFlush(s, v)
           Bad == {i \in 0 .. NumStreams : ~Holds(f[i])}
<1>3. Bad = {}
  <2> SUFFICES ASSUME Bad # {} PROVE FALSE
    OBVIOUS
  <2>1. PICK i \in Bad : \A j \in Bad : i <= j
    <3>1. Bad \subseteq Nat OBVIOUS
    <3> HIDE DEF Bad
    <3> QED BY <3>1, NatLeast
  <2>2. Holds(s)
    <3>1. Writes(s, s, {}, {"ix"}) BY WritesNothing DEF Good
    <3> QED BY <3>1 DEF IxFlush, Only, CountsKept
  <2>3. i # 0 BY <1>1, <2>2
  <2>4. i - 1 \in Streams /\ i \in 1 .. NumStreams
    BY <1>2, <2>3 DEF Streams
  <2>5. Holds(f[i - 1])
    <3>1. i - 1 \in 0 .. NumStreams /\ ~(i <= i - 1) BY <1>2, <2>4
    <3> QED BY <2>1, <3>1
  <2> DEFINE v == f[i - 1]
             z == f[i]
             j == i - 1
  <2>6. z = FlushIxForTrack(v, j) /\ j \in Streams /\ Good(v) /\ IxFlush(s, v)
    BY <1>1, <2>4, <2>5
  <2> HIDE DEF z, v, j
  <2>7. Good(z) BY <2>6, FlushIxForTrackGood
  <2>8. IxFlush(v, z) BY <2>6, FlushIxForTrackStep
  <2>9. IxFlush(s, z) BY <2>6, <2>7, <2>8, IxFlushTrans DEF Good
  <2>10. Holds(z) BY <2>7, <2>9
  <2> QED BY <2>10 DEF z
<1>4. NumStreams \in 0 .. NumStreams BY <1>2
<1> QED BY <1>1, <1>3, <1>4

-----------------------------------------------------------------------------
(* Segments                                                                *)

\* serialize_idx1 and the write of its chunk.
LEMMA WriteIdx1Step ==
  ASSUME NEW s, Good(s), NEW w, w = WriteIdx1(s)
  PROVE  Writes(s, w, {}, {"idx1"}) /\ Only(s, w, {"disk", "pos"}) /\ Adds(s, w, "idx1")
<1> DEFINE body == IF opts.synth /\ OpenDml /\ s.snapshot # <<>>
                   THEN s.snapshot ELSE s.index
           blank == Cell("idx1", NoTrack, 16 * Len(body))
           cell == [blank EXCEPT !.ents = body]
<1>1. body \in Seq(IndexEntry)
  BY DEF Good, Typed, MuxerRecord
<1> HIDE DEF body
<1>2. blank \in CellType /\ blank.id = "idx1"
  <2>1. 16 * Len(body) \in Nat BY <1>1
  <2>2. "idx1" \in ListIds \cup MediaIds \cup {"hdrl", "JUNK", "ix", "idx1"} OBVIOUS
  <2>3. NoTrack \in Streams \cup {NoTrack} OBVIOUS
  <2> QED BY <2>1, <2>2, <2>3, CellTyped DEF Cell
<1> HIDE DEF blank
<1>3. cell \in CellType /\ cell.id = "idx1"
  <2>1. body \in Seq(IxEntry) \cup Seq(IndexEntry) BY <1>1
  <2> QED BY <1>2, <2>1, Zenon DEF CellType
<1>4. w = WriteChunk(s, cell)
  BY DEF WriteIdx1, body, blank
<1> HIDE DEF cell
<1>5. Typed(s) /\ Below(s) BY DEF Good
<1>6. Writes(s, w, {}, {cell.id}) /\ Only(s, w, {"disk", "pos"}) /\ Placed(s, w, cell)
  BY <1>3, <1>4, <1>5, WriteChunkStep
<1> QED BY <1>3, <1>6 DEF Adds

\* The end of the outer RIFF: the size is patched and, in OpenDML mode, one
\* more segment is on record, or nothing is.
LEMMA FinishRiffStep ==
  ASSUME NEW s, Good(s), s.ok, NEW w, w = FinishRiff(s)
  PROVE  /\ Writes(s, w, {s.riff_size_off - 4}, {})
         /\ Only(s, w, {"ok", "disk", "segments"})
         /\ w.ok <=> s.pos - (s.riff_size_off + 4) <= DwMax
         /\ w.ok => w.disk[s.riff_size_off - 4].len = s.pos - (s.riff_size_off + 4)
         /\ ~w.ok => w.disk = s.disk /\ w.segments = s.segments
         /\ w.ok /\ OpenDml => w.segments # <<>> /\ Len(w.segments) = Len(s.segments) + 1
         /\ ~OpenDml => w.segments = s.segments
<1> DEFINE off == s.riff_size_off
           f == FinishList(s, off)
           seg == [at |-> off - 4, size |-> f.pos - (off - 4), packets |-> s.segment_packets]
           segments == Append(f.segments, seg)
           g == SetSegments(f, segments)
<1>1. w = IF f.ok /\ OpenDml THEN g ELSE f
  BY DEF FinishRiff, SetSegments
<1>2. /\ Typed(s) /\ Below(s) /\ off \in Nat /\ IsList(s, off, "RIFF") /\ "RIFF" \in ListIds
  BY DEF Good, Heads, Typed, MuxerRecord, ListIds
<1>3. Typed(f)
  <2> HIDE DEF off
  <2> QED BY <1>2, FinishListGood
<1>4. /\ Writes(s, f, {off - 4}, {}) /\ Only(s, f, {"ok", "disk"})
      /\ f.ok <=> s.pos - (off + 4) <= DwMax
      /\ f.ok => f.disk[off - 4].len = s.pos - (off + 4)
      /\ ~f.ok => f.disk = s.disk
  <2> HIDE DEF off
  <2> QED BY <1>2, FinishListStep
<1> HIDE DEF f
<1>5. f.segments = s.segments BY <1>4 DEF Only, Fields
<1>6. f.segments \in Seq([at : Nat, size : Nat, packets : Nat])
  BY <1>3 DEF Typed, MuxerRecord
<1> HIDE DEF seg
<1>7. segments # <<>> /\ Len(segments) = Len(s.segments) + 1
  <2>1. Len(segments) = Len(f.segments) + 1 /\ Len(f.segments) \in Nat BY <1>6
  <2> HIDE DEF segments
  <2>2. segments # <<>> BY <2>1
  <2> QED BY <1>5, <2>1, <2>2
<1> HIDE DEF segments
<1>8. /\ Only(f, g, {"segments"}) /\ g.segments = segments /\ g.ok = f.ok
      /\ g.disk = f.disk /\ g.pos = f.pos
  BY <1>3 DEF Typed, MuxerRecord, SetSegments, Only, Fields
<1> HIDE DEF g
<1>9. CASE w = f
  <2>1. Only(s, w, {"ok", "disk", "segments"}) BY <1>4, <1>9, OnlyMore
  <2> QED BY <1>1, <1>4, <1>5, <1>8, <1>7, <1>9, <2>1
<1>10. CASE w = g /\ f.ok /\ OpenDml
  <2>1. Only(s, w, {"ok", "disk", "segments"}) BY <1>4, <1>8, <1>10 DEF Only
  <2>2. Writes(s, w, {off - 4}, {}) BY <1>4, <1>8, <1>10 DEF Writes
  <2> QED BY <1>4, <1>7, <1>8, <1>10, <2>1, <2>2
<1> QED BY <1>1, <1>9, <1>10

\* The heads of the current segment are two different chunks.
LEMMA HeadsDiffer ==
  ASSUME NEW s, Good(s)
  PROVE  /\ s.riff_size_off \in Nat /\ s.movi_size_off \in Nat
         /\ s.riff_size_off - 4 \in DOMAIN s.disk /\ s.movi_size_off - 4 \in DOMAIN s.disk
         /\ s.disk[s.riff_size_off - 4].id = "RIFF" /\ s.disk[s.movi_size_off - 4].id = "movi"
         /\ s.riff_size_off - 4 # s.movi_size_off - 4
BY DEF Good, Heads, IsList, Typed, MuxerRecord

\* The tail shared by close_current_segment and write_trailer. When it fails,
\* the RIFF is not patched, and if LIST movi is the RIFF is too long.
LEMMA FinishSegmentStep ==
  ASSUME NEW s, Good(s), s.ok, NEW w, w = FinishSegment(s)
  PROVE  /\ Writes(s, w, {s.riff_size_off - 4, s.movi_size_off - 4}, {"idx1"})
         /\ Only(s, w, {"ok", "disk", "pos", "segments"})
         /\ ~w.ok => /\ w.segments = s.segments
                     /\ w.disk[s.riff_size_off - 4] = s.disk[s.riff_size_off - 4]
                     /\ \/ w.disk[s.movi_size_off - 4] = s.disk[s.movi_size_off - 4]
                        \/ w.pos - (s.riff_size_off + 4) > DwMax
         /\ w.ok => w.pos - (s.riff_size_off + 4) <= DwMax
         /\ w.ok /\ OpenDml => w.segments # <<>> /\ Len(w.segments) = Len(s.segments) + 1
         /\ ~OpenDml => w.segments = s.segments
<1> DEFINE movi == s.movi_size_off
           riff == s.riff_size_off
           f == FinishList(s, movi)
           h == WriteIdx1(f)
           i == IF InPrimary(s) THEN h ELSE f
           r == FinishRiff(i)
           F == {"ok", "disk", "pos", "segments"}
<1>1. w = IF f.ok THEN r ELSE f
  BY DEF FinishSegment, Then
<1>2. /\ Typed(s) /\ Below(s) /\ movi \in Nat /\ IsList(s, movi, "movi") /\ "movi" \in ListIds
  BY DEF Good, Heads, Typed, MuxerRecord, ListIds
<1>3. Typed(f) /\ Below(f) /\ Grows(s, f) /\ SameFields(s, f) /\ NoNewIx(s, f)
  <2> HIDE DEF movi
  <2> QED BY <1>2, FinishListGood
<1>4. /\ Writes(s, f, {movi - 4}, {}) /\ Only(s, f, {"ok", "disk"})
      /\ ~f.ok => f.disk = s.disk
  <2> HIDE DEF movi
  <2> QED BY <1>2, FinishListStep
<1>5. /\ riff - 4 \in DOMAIN s.disk /\ riff - 4 # movi - 4
      /\ f.disk[riff - 4] = s.disk[riff - 4] /\ riff - 4 \in DOMAIN f.disk
  BY <1>4, HeadsDiffer DEF Writes
<1> HIDE DEF f
<1>6. Good(f) BY <1>3, GoodSame
<1>7. Good(h) /\ Writes(f, h, {}, {"idx1"}) /\ Only(f, h, {"disk", "pos"})
  BY <1>6, WriteIdx1Good, WriteIdx1Step
<1> HIDE DEF h
<1>8. Good(i) /\ Writes(f, i, {}, {"idx1"}) /\ Only(f, i, {"disk", "pos"})
  <2>1. Writes(f, f, {}, {"idx1"}) BY <1>3, WritesNothing
  <2>2. Only(f, f, {"disk", "pos"}) BY DEF Only
  <2> QED BY <1>6, <1>7, <2>1, <2>2
<1> HIDE DEF i
<1>9. i.riff_size_off = riff /\ i.ok = f.ok /\ i.segments = s.segments
  BY <1>4, <1>8 DEF Only, Fields
<1>10. Writes(s, i, {movi - 4}, {"idx1"})
  <2>1. Typed(i) BY <1>8 DEF Good
  <2>2. {movi - 4} \cup {} = {movi - 4} /\ {} \cup {"idx1"} = {"idx1"} OBVIOUS
  <2> HIDE DEF movi
  <2> QED BY <1>2, <1>3, <1>4, <1>8, <2>1, <2>2, WritesTrans
<1>11. CASE ~f.ok
  <2>1. w = f BY <1>1, <1>11
  <2>2. Only(s, w, F) BY <1>4, <2>1 DEF Only
  <2>3. Writes(s, w, {riff - 4, movi - 4}, {"idx1"}) BY <1>4, <2>1 DEF Writes
  <2>4. w.segments = s.segments BY <1>4, <2>1 DEF Only, Fields
  <2> QED BY <1>4, <1>11, <2>1, <2>2, <2>3, <2>4
<1>12. CASE f.ok
  <2>1. w = r BY <1>1, <1>12
  <2>2. /\ Writes(i, r, {riff - 4}, {}) /\ Only(i, r, {"ok", "disk", "segments"})
        /\ r.ok <=> i.pos - (riff + 4) <= DwMax
        /\ ~r.ok => r.disk = i.disk /\ r.segments = s.segments
        /\ r.ok /\ OpenDml => r.segments # <<>> /\ Len(r.segments) = Len(s.segments) + 1
        /\ ~OpenDml => r.segments = s.segments
    <3>1. Good(i) /\ i.ok BY <1>8, <1>9, <1>12
    <3> HIDE DEF riff
    <3> QED BY SMTT(40), <1>9, <3>1, FinishRiffStep
  <2>3. Good(r) BY <1>8, FinishRiffGood
  <2> HIDE DEF r
  <2>4. Only(s, r, F) BY <1>4, <1>8, <2>2 DEF Only
  <2>5. Writes(s, r, {riff - 4, movi - 4}, {"idx1"})
    <3>1. Typed(i) /\ Typed(r) BY <1>8, <2>3 DEF Good
    <3>2. {movi - 4} \cup {riff - 4} = {riff - 4, movi - 4} /\ {"idx1"} \cup {} = {"idx1"}
      OBVIOUS
    <3> HIDE DEF movi, riff
    <3> QED BY <1>2, <1>10, <2>2, <3>1, <3>2, WritesTrans
  <2>6. r.pos = i.pos /\ i.pos \in Nat /\ DwMax \in Nat /\ riff \in Nat
    BY <1>8, <2>2, HeadsDiffer, MuxerAssumption DEF Only, Fields, Good, Typed, MuxerRecord
  <2>7. ~r.ok => r.disk[riff - 4] = s.disk[riff - 4]
    BY <1>5, <1>10, <2>2 DEF Writes
  <2>8. ~r.ok => r.pos - (riff + 4) > DwMax
    BY <2>2, <2>6
  <2> QED BY <2>1, <2>2, <2>4, <2>5, <2>6, <2>7, <2>8
<1> QED BY <1>11, <1>12

\* open_avix_segment: two list headers, whose sizes are still to come.
LEMMA OpenAvixSegmentStep ==
  ASSUME NEW s, Good(s), NEW w, w = OpenAvixSegment(s)
  PROVE  /\ Writes(s, w, {}, {"RIFF", "movi"})
         /\ Only(s, w, {"disk", "pos", "riff_size_off", "movi_size_off", "segment_packets",
                        "rec_open_size_off", "rec_open_idx1_slot", "rec_packets", "rec_bytes"})
         /\ w.rec_open_size_off = NoList /\ w.pos = s.pos + 24
         /\ w.riff_size_off = s.pos + 4 /\ w.movi_size_off = s.pos + 16
         /\ w.disk[s.pos].len = 0 /\ w.disk[s.pos + 12].len = 0
         /\ DOMAIN w.disk = DOMAIN s.disk \cup {s.pos, s.pos + 12}
         /\ w.disk[s.pos] = Cell("RIFF", NoTrack, 0)
         /\ w.disk[s.pos + 12] = Cell("movi", NoTrack, 0)
<1> DEFINE r == BeginList(s, "RIFF")
           b == BeginList(r, "movi")
           riff == s.pos + 4
           movi == s.pos + 16
<1>1. w = SetSegmentStart(b, riff, movi)
  BY DEF OpenAvixSegment, SetSegmentStart
<1>2. Typed(s) /\ Below(s) /\ "RIFF" \in ListIds /\ "movi" \in ListIds
  BY DEF Good, ListIds
<1>3. /\ Typed(r) /\ Below(r) /\ r.pos = s.pos + 12 /\ s.pos \in Nat
      /\ Writes(s, r, {}, {"RIFF"}) /\ Only(s, r, {"disk", "pos"})
      /\ DOMAIN r.disk = DOMAIN s.disk \cup {s.pos}
      /\ r.disk[s.pos] = Cell("RIFF", NoTrack, 0)
  BY ZenonT(60), <1>2, BeginListGood, BeginListStep
<1> HIDE DEF r
<1>4. /\ Typed(b) /\ Writes(r, b, {}, {"movi"}) /\ Only(r, b, {"disk", "pos"})
      /\ DOMAIN b.disk = DOMAIN r.disk \cup {r.pos}
      /\ b.disk[r.pos] = Cell("movi", NoTrack, 0)
      /\ \A at \in DOMAIN r.disk : b.disk[at] = r.disk[at]
      /\ b.pos = r.pos + 12
  <2>1. Typed(r) /\ Below(r) /\ "movi" \in ListIds BY <1>2, <1>3
  <2>2. Typed(b) /\ b.pos = r.pos + 12 BY <2>1, BeginListGood
  <2> QED BY <2>1, <2>2, BeginListStep
<1> HIDE DEF b
<1>5. Writes(s, b, {} \cup {}, {"RIFF"} \cup {"movi"})
  <2>1. Typed(s) /\ Typed(r) /\ Typed(b) BY <1>2, <1>3, <1>4
  <2> QED BY <1>3, <1>4, <2>1, WritesTrans
<1>6. Only(s, b, {"disk", "pos"})
  BY <1>3, <1>4 DEF Only
<1> DEFINE F == {"riff_size_off", "movi_size_off", "segment_packets",
                 "rec_open_size_off", "rec_open_idx1_slot", "rec_packets", "rec_bytes"}
<1> HIDE DEF riff, movi
<1>7. /\ Only(b, w, F) /\ w.disk = b.disk /\ w.pos = b.pos
      /\ w.rec_open_size_off = NoList
      /\ w.riff_size_off = riff /\ w.movi_size_off = movi
  BY <1>1, <1>4 DEF Typed, MuxerRecord, SetSegmentStart, Only, Fields
<1>8. Only(s, w, F \cup {"disk", "pos"}) BY <1>6, <1>7 DEF Only
<1>9. Writes(s, w, {}, {"RIFF", "movi"}) BY <1>5, <1>7 DEF Writes
<1>10. b.disk[s.pos] = Cell("RIFF", NoTrack, 0) BY <1>3, <1>4
<1>11. w.pos = s.pos + 24 BY <1>3, <1>4, <1>7
<1> QED BY <1>3, <1>4, <1>7, <1>8, <1>9, <1>10, <1>11 DEF riff, movi, Cell, Only

-----------------------------------------------------------------------------
(* Placing a chunk                                                         *)

\* A multiple of n is one.
LEMMA Multiple ==
  ASSUME NEW n \in Nat, n # 0, NEW q \in Nat
  PROVE  (q * n) % n = 0
BY SMTT(30)

\* emit_padding_junk_for: the JUNK chunk fills up to the next multiple of the
\* granularity, and its bytes are counted for an open cluster.
LEMMA EmitPaddingJunkStep ==
  ASSUME NEW s, Good(s), NEW w, w = EmitPaddingJunk(s), opts \in Options
  PROVE  /\ Writes(s, w, {}, {"JUNK"})
         /\ Only(s, w, {"disk", "pos", "rec_bytes"})
         /\ w.rec_bytes = IF s.rec_open_size_off = NoList THEN s.rec_bytes
                          ELSE s.rec_bytes + (w.pos - s.pos)
         /\ opts.granularity > 0 => w.pos % opts.granularity = 0
         /\ w = s \/ Adds(s, w, "JUNK")
<1> DEFINE n == opts.granularity
           q == (s.pos + 8 + n - 1) \div n
           target == q * n
           body == target - s.pos - 8
           cell == Cell("JUNK", NoTrack, body - (body % 2))
           a == AddAt(s, cell, target)
           bytes == IF s.rec_open_size_off = NoList THEN s.rec_bytes
                    ELSE s.rec_bytes + (target - s.pos)
           b == SetRecBytes(a, bytes)
<1>1. s.pos \in Nat /\ s.rec_bytes \in Nat /\ Typed(s) /\ Below(s) /\ n \in Nat
  BY OptsTyped DEF Good, Typed, MuxerRecord, Config
<1>2. CASE n = 0 \/ s.pos % n = 0
  <2>1. w = s BY <1>2 DEF EmitPaddingJunk
  <2>2. Writes(s, w, {}, {"JUNK"}) BY <1>1, <2>1, WritesNothing
  <2> QED BY <1>1, <1>2, <2>1, <2>2 DEF Only
<1>3. CASE ~(n = 0 \/ s.pos % n = 0)
  <2>1. n \in Nat /\ n % 2 = 0 /\ n # 0
    BY <1>3, OptsTyped DEF Config
  <2>2. target \in Nat /\ target % 2 = 0 /\ target >= s.pos + 8
    <3>1. s.pos + 8 \in Nat BY <1>1
    <3> QED BY <2>1, <3>1, RoundUp
  <2>3. target % n = 0
    <3>1. q \in Nat
      <4> HIDE DEF n
      <4> QED BY <1>1, <2>1
    <3> HIDE DEF q, n
    <3> QED BY <2>1, <3>1, Multiple
  <2>4. w = b
    BY <1>3 DEF EmitPaddingJunk, SetRecBytes, AddAt, SetDiskPos
  <2> HIDE DEF target, q
  <2>5. cell \in CellType /\ cell.id = "JUNK" /\ target = s.pos + 8 + Pad(cell.len)
    <3>1. body \in Nat /\ body % 2 = 0 /\ target = s.pos + 8 + body
      <4>1. s.pos % 2 = 0 BY <1>1 DEF Typed
      <4>2. body \in Nat /\ target = s.pos + 8 + body BY <1>1, <2>2
      <4>3. body % 2 = 0 BY <1>1, <2>2, <4>1, <4>2, SMTT(30)
      <4> QED BY <4>2, <4>3
    <3>2. "JUNK" \in ListIds \cup MediaIds \cup {"hdrl", "JUNK", "ix", "idx1"} OBVIOUS
    <3>3. NoTrack \in Streams \cup {NoTrack} OBVIOUS
    <3> HIDE DEF body
    <3>4. body - (body % 2) = body BY <3>1
    <3>5. cell \in CellType /\ cell.id = "JUNK" /\ cell.len = body
      BY <3>1, <3>2, <3>3, <3>4, CellTyped DEF Cell
    <3> QED BY <3>1, <3>5 DEF Pad
  <2> HIDE DEF cell, n
  <2>6. /\ Typed(a) /\ a.pos = target
        /\ DOMAIN a.disk = DOMAIN s.disk \cup {s.pos}
        /\ a.disk[s.pos] = cell
        /\ \A at \in DOMAIN s.disk : a.disk[at] = s.disk[at] /\ at # s.pos
    BY <1>1, <2>2, <2>5, AddCell
  <2>7. Only(s, a, {"disk", "pos"})
    BY <1>1 DEF Typed, MuxerRecord, AddAt, SetDiskPos, Only, Fields
  <2> HIDE DEF a, bytes
  <2>8. /\ Only(a, b, {"rec_bytes"}) /\ b.disk = a.disk /\ b.pos = a.pos
        /\ b.rec_bytes = bytes
    BY <2>6 DEF Typed, MuxerRecord, SetRecBytes, Only, Fields
  <2> HIDE DEF b
  <2>9. Writes(s, w, {}, {"JUNK"})
    BY <1>1, <2>2, <2>4, <2>5, <2>6, <2>8 DEF Writes, Resized
  <2>10. Only(s, w, {"disk", "pos", "rec_bytes"})
    BY <2>4, <2>7, <2>8 DEF Only
  <2>11. Adds(s, w, "JUNK") BY <2>4, <2>5, <2>6, <2>8 DEF Adds, Placed
  <2> QED BY <2>3, <2>4, <2>6, <2>8, <2>9, <2>10, <2>11 DEF bytes, n
<1> QED BY <1>2, <1>3

\* The standard-index entry is made; the compact layout is kept or given up.
LEMMA StampIxStep ==
  ASSUME NEW s, Good(s), NEW cell, IsMedia(cell), NEW field2 \in Nat \cup {NoField2},
         NEW w, w = StampIx(s, s.pos, cell, field2)
  PROVE  /\ Only(s, w, {"tracks", "strl_std_active", "snapshot"})
         /\ CountsKept(s, w)
         /\ w.strl_std_active => s.strl_std_active
<1> DEFINE t == cell.trk
           d == s.pos + 8 - QwBase(s)
           f2 == IF field2 # NoField2 /\ d + field2 <= DwMax THEN d + field2 ELSE 0
           entry == [off |-> d, len |-> cell.len, key |-> cell.key, field2 |-> f2]
           copy == [id |-> cell.id, trk |-> t, off |-> d - 4, len |-> cell.len, key |-> cell.key]
           k == [s.tracks[t] EXCEPT !.ix_entries = Append(@, entry)]
           tracks == [s.tracks EXCEPT ![t] = k]
           active == s.strl_std_active /\ Len(s.tracks[t].ix_entries) + 1 <= opts.strl_std
           snapshot == IF opts.synth /\ InPrimary(s) THEN Append(s.snapshot, copy) ELSE s.snapshot
<1>1. CASE ~OpenDml \/ d > DwMax
  <2>1. w = s BY <1>1 DEF StampIx
  <2> QED BY <2>1 DEF Only, CountsKept
<1>2. CASE ~(~OpenDml \/ d > DwMax)
  <2>1. /\ s.tracks \in [Streams -> TrackState] /\ t \in Streams
        /\ s.tracks[t] \in TrackState
    BY DEF Good, Typed, MuxerRecord, IsMedia
  <2>2. w = SetStamped(s, tracks, active, snapshot)
    BY <1>2, Zenon DEF StampIx, SetStamped
  <2> HIDE DEF entry, d, snapshot
  <2>3. /\ k.packet_count = s.tracks[t].packet_count
        /\ k.sample_count = s.tracks[t].sample_count
        /\ k.max_chunk_size = s.tracks[t].max_chunk_size
    BY <2>1, Zenon DEF TrackState
  <2> HIDE DEF k
  <2>4. tracks[t] = k /\ \A x \in Streams : x # t => tracks[x] = s.tracks[x]
    BY <2>1
  <2> HIDE DEF tracks
  <2>5. active => s.strl_std_active OBVIOUS
  <2> HIDE DEF active
  <2>6. /\ Only(s, w, {"tracks", "strl_std_active", "snapshot"})
        /\ w.tracks = tracks /\ w.strl_std_active = active
    BY <2>2 DEF Good, Typed, MuxerRecord, SetStamped, Only, Fields
  <2>7. CountsKept(s, w) BY <2>3, <2>4, <2>6 DEF CountsKept
  <2> QED BY <2>5, <2>6, <2>7
<1> QED BY <1>1, <1>2

\* The idx1 entry of a chunk about to be written at the position of s.
ChunkEntry(s, cell) ==
  [id |-> cell.id, trk |-> cell.trk, off |-> s.pos - MoviStart(s),
   len |-> cell.len, key |-> cell.key]

\* The idx1 index has at most one entry more, the one of cell, and that in the
\* primary segment only.
Listed(s, w, cell) ==
  \/ w.index = s.index
  \/ InPrimary(s) /\ w.index = Append(s.index, ChunkEntry(s, cell))

PlaceFields ==
  { "disk", "pos", "tracks", "strl_std_active", "snapshot", "index",
    "rec_packets", "rec_bytes" }

\* A chunk is placed: entry, idx1 entry, cell and cluster counts.
LEMMA PlaceChunkStep ==
  ASSUME NEW s, Good(s), NEW cell, IsMedia(cell), NEW field2 \in Nat \cup {NoField2},
         NEW w, w = PlaceChunk(s, s.pos, cell, field2)
  PROVE  /\ Placed(s, w, cell)
         /\ Listed(s, w, cell)
         /\ Only(s, w, PlaceFields)
         /\ CountsKept(s, w)
         /\ w.strl_std_active => s.strl_std_active
         /\ Clustering => /\ w.rec_packets = s.rec_packets + 1
                          /\ w.rec_bytes = s.rec_bytes + 8 + Pad(cell.len)
<1> DEFINE v == StampIx(s, s.pos, cell, field2)
           u == StampIdx1(v, s.pos, cell)
           c == WriteChunk(u, cell)
           packets == c.rec_packets + 1
           bytes == c.rec_bytes + 8 + Pad(cell.len)
           g == SetRecCounts(c, packets, bytes)
           index == Append(v.index, ChunkEntry(v, cell))
<1>1. w = IF Clustering THEN g ELSE c
  BY DEF PlaceChunk, SetRecCounts
<1>2. /\ Typed(v) /\ v.disk = s.disk /\ v.pos = s.pos /\ Near(s, v)
      /\ Stamped(s, v, cell)
  <2>1. v = StampIx(s, s.pos, cell, field2) OBVIOUS
  <2> HIDE DEF v, u, c, g
  <2> QED BY <2>1, StampIxGood
<1>3. /\ Only(s, v, {"tracks", "strl_std_active", "snapshot"})
      /\ CountsKept(s, v)
      /\ v.strl_std_active => s.strl_std_active
  BY StampIxStep
<1>4. v.movi_size_off + 8 <= v.pos
  BY <1>2 DEF Good, Heads, IsList, Near
<1>5. v.index = s.index /\ v.segments = s.segments /\ v.movi_size_off = s.movi_size_off
  BY <1>3 DEF Only, Fields
<1> HIDE DEF v
<1>20. u = StampIdx1(v, v.pos, cell) BY <1>2, Zenon
<1>6. Typed(u) /\ u.disk = v.disk /\ u.pos = v.pos /\ u.tracks = v.tracks
  BY <1>2, <1>4, <1>20, StampIdx1Typed
<1>7. u = v \/ (InPrimary(v) /\ u = SetIndex(v, index))
  BY <1>20 DEF StampIdx1, SetIndex, ChunkEntry
<1> HIDE DEF u, index
<1>8. /\ Only(v, u, {"index"})
      /\ u.index = v.index \/ (InPrimary(v) /\ u.index = index)
  BY <1>2, <1>7 DEF Typed, MuxerRecord, SetIndex, Only, Fields
<1>9. Below(u) /\ cell \in CellType
  BY <1>2, <1>6 DEF Good, Below, IsMedia
<1>10. Typed(c) BY <1>6, <1>9, WriteChunkGood
<1>11. Only(u, c, {"disk", "pos"}) /\ Placed(u, c, cell)
  BY <1>6, <1>9, WriteChunkStep
<1> HIDE DEF c
<1>12. /\ c.tracks = v.tracks /\ c.index = u.index
       /\ c.rec_packets = s.rec_packets /\ c.rec_bytes = s.rec_bytes
       /\ c.strl_std_active = v.strl_std_active
  BY <1>3, <1>8, <1>11 DEF Only, Fields
<1> HIDE DEF packets, bytes
<1>13. /\ Only(c, g, {"rec_packets", "rec_bytes"}) /\ g.disk = c.disk /\ g.pos = c.pos
       /\ g.rec_packets = packets /\ g.rec_bytes = bytes
       /\ g.index = c.index /\ g.tracks = c.tracks /\ g.strl_std_active = c.strl_std_active
  BY <1>10 DEF Typed, MuxerRecord, SetRecCounts, Only, Fields
<1> HIDE DEF g
<1>14. Only(s, w, PlaceFields)
  BY <1>1, <1>3, <1>8, <1>11, <1>13 DEF Only, PlaceFields
<1>15. w.index = u.index /\ w.tracks = v.tracks /\ w.strl_std_active = v.strl_std_active
       /\ w.disk = c.disk /\ w.pos = c.pos
  BY <1>1, <1>12, <1>13
<1>16. Placed(s, w, cell)
  BY <1>2, <1>6, <1>11, <1>15 DEF Placed
<1>17. Listed(s, w, cell)
  <2>1. InPrimary(v) <=> InPrimary(s) BY <1>5 DEF InPrimary
  <2>2. index = Append(s.index, ChunkEntry(s, cell))
    BY <1>2, <1>5 DEF index, ChunkEntry, MoviStart
  <2> QED BY <1>5, <1>8, <1>15, <2>1, <2>2 DEF Listed
<1>18. CountsKept(s, w) BY <1>3, <1>15 DEF CountsKept
<1>19. Clustering => /\ w.rec_packets = s.rec_packets + 1
                     /\ w.rec_bytes = s.rec_bytes + 8 + Pad(cell.len)
  BY <1>1, <1>12, <1>13 DEF packets, bytes
<1> QED BY <1>3, <1>14, <1>15, <1>16, <1>17, <1>18, <1>19

\* The cell of packet p, with its keyframe flag.
PacketCell(p) == [Cell("data", p.trk, p.len) EXCEPT !.key = p.key]

LEMMA PacketCellMedia ==
  ASSUME NEW p \in Packets
  PROVE  /\ IsMedia(PacketCell(p)) /\ p.trk \in Streams /\ p.len \in Nat
         /\ PacketCell(p).id = "data" /\ PacketCell(p).trk = p.trk
         /\ PacketCell(p).len = p.len /\ PacketCell(p).key = p.key
<1> DEFINE blank == Cell("data", p.trk, p.len)
<1>1. p.trk \in Streams /\ p.len \in Nat /\ p.key \in BOOLEAN
  BY MuxerAssumption
<1>2. /\ blank \in CellType /\ blank.id = "data" /\ blank.trk = p.trk
      /\ blank.len = p.len
  BY <1>1, CellTyped DEF Cell, MediaIds
<1>3. PacketCell(p) = [blank EXCEPT !.key = p.key] BY DEF PacketCell
<1> HIDE DEF blank
<1>4. PacketCell(p) \in CellType BY <1>1, <1>2, <1>3, Zenon DEF CellType
<1>5. /\ PacketCell(p).id = "data" /\ PacketCell(p).trk = p.trk
      /\ PacketCell(p).len = p.len /\ PacketCell(p).key = p.key
  BY <1>2, <1>3 DEF CellType
<1> QED BY <1>1, <1>4, <1>5 DEF IsMedia, MediaIds

\* The cell of a side-band chunk.
LEMMA SideCellMedia ==
  ASSUME NEW c \in SideChunks, NEW cell, cell = Cell(c.kind, c.trk, c.len)
  PROVE  IsMedia(cell) /\ cell.id # "data"
<1>1. c.trk \in Streams /\ c.len \in Nat /\ c.kind \in {"tx", "pc"} BY MuxerAssumption
<1>2. c.kind \in MediaIds BY <1>1 DEF MediaIds
<1>3. cell \in CellType BY <1>1, <1>2, CellTyped
<1>4. cell.id = c.kind /\ cell.trk = c.trk BY DEF Cell
<1> QED BY <1>1, <1>2, <1>3, <1>4 DEF IsMedia

\* The counters of packet p's stream, and of the others.
CountsOf(s, w, p) ==
  /\ w.tracks[p.trk].packet_count = s.tracks[p.trk].packet_count + 1
  /\ w.tracks[p.trk].max_chunk_size = MaxOf(s.tracks[p.trk].max_chunk_size, p.len)
  /\ \A t \in Streams : t # p.trk =>
       /\ w.tracks[t].packet_count = s.tracks[t].packet_count
       /\ w.tracks[t].max_chunk_size = s.tracks[t].max_chunk_size

\* The chunk of packet p is placed and counted for its stream.
LEMMA PlacePacketStep ==
  ASSUME NEW s, Good(s), NEW p \in Packets, NEW w, w = PlacePacket(s, s.pos, p)
  PROVE  /\ Placed(s, w, PacketCell(p))
         /\ Listed(s, w, PacketCell(p))
         /\ Only(s, w, PlaceFields \cup {"segment_packets", "pending_field2"})
         /\ CountsOf(s, w, p)
         /\ w.strl_std_active => s.strl_std_active
         /\ Clustering => /\ w.rec_packets = s.rec_packets + 1
                          /\ w.rec_bytes = s.rec_bytes + 8 + Pad(PacketCell(p).len)
<1> DEFINE cell == PacketCell(p)
           field2 == IF p.trk \in opts.field2 THEN s.pending_field2 ELSE NoField2
           a == SetPending(s, NoField2)
           c == PlaceChunk(a, s.pos, cell, field2)
           k == Counted(c.tracks[p.trk], p)
           tracks == [c.tracks EXCEPT ![p.trk] = k]
           packets == c.segment_packets + 1
<1>1. w = SetPlaced(c, packets, tracks)
  BY DEF PlacePacket, SetPlaced, SetPending, PacketCell
<1>2. IsMedia(cell) /\ p.trk \in Streams BY PacketCellMedia
<1> HIDE DEF cell
<1>3. field2 \in Nat \cup {NoField2}
  BY DEF Good, Typed, MuxerRecord
<1> HIDE DEF field2
<1>4. /\ Typed(a) /\ a.disk = s.disk /\ a.pos = s.pos /\ SameFields(s, a)
      /\ Only(s, a, {"pending_field2"})
  <2>1. Typed(a) /\ a.disk = s.disk /\ a.pos = s.pos /\ SameFields(s, a)
    BY PendingTyped DEF Good
  <2>2. Only(s, a, {"pending_field2"})
    BY DEF Good, Typed, MuxerRecord, SetPending, Only, Fields
  <2> QED BY <2>1, <2>2
<1> HIDE DEF a
<1>5. /\ a.index = s.index /\ a.segments = s.segments /\ a.movi_size_off = s.movi_size_off
      /\ a.rec_packets = s.rec_packets /\ a.rec_bytes = s.rec_bytes
      /\ a.strl_std_active = s.strl_std_active /\ a.tracks = s.tracks
  BY <1>4 DEF Only, Fields
<1>6. Good(a) BY <1>4, GoodSameDisk
<1>20. c = PlaceChunk(a, a.pos, cell, field2) BY <1>4, Zenon
<1> HIDE DEF c
<1>7. Good(c) BY <1>2, <1>3, <1>6, <1>20, PlaceChunkGood
<1>8. /\ Placed(a, c, cell) /\ Listed(a, c, cell) /\ Only(a, c, PlaceFields)
      /\ CountsKept(a, c)
      /\ c.strl_std_active => a.strl_std_active
      /\ Clustering => /\ c.rec_packets = a.rec_packets + 1
                       /\ c.rec_bytes = a.rec_bytes + 8 + Pad(cell.len)
  BY <1>2, <1>3, <1>6, <1>20, PlaceChunkStep
<1>9. /\ c.tracks \in [Streams -> TrackState] /\ c.tracks[p.trk] \in TrackState
  BY <1>2, <1>7 DEF Good, Typed, MuxerRecord
<1>10. /\ k.packet_count = c.tracks[p.trk].packet_count + 1
       /\ k.max_chunk_size = MaxOf(c.tracks[p.trk].max_chunk_size, p.len)
  BY <1>9, Zenon DEF Counted, TrackState
<1> HIDE DEF k
<1>11. tracks[p.trk] = k /\ \A t \in Streams : t # p.trk => tracks[t] = c.tracks[t]
  BY <1>2, <1>9
<1> HIDE DEF tracks, packets
<1>12. /\ Only(c, w, {"segment_packets", "tracks"}) /\ w.tracks = tracks
       /\ w.disk = c.disk /\ w.pos = c.pos /\ w.index = c.index
       /\ w.strl_std_active = c.strl_std_active
       /\ w.rec_packets = c.rec_packets /\ w.rec_bytes = c.rec_bytes
  BY <1>1, <1>7 DEF Good, Typed, MuxerRecord, SetPlaced, Only, Fields
<1>13. Only(s, w, PlaceFields \cup {"segment_packets", "pending_field2"})
  BY <1>4, <1>8, <1>12 DEF Only, PlaceFields
<1>14. Placed(s, w, cell) BY <1>4, <1>8, <1>12 DEF Placed
<1>15. Listed(s, w, cell)
  BY <1>4, <1>5, <1>8, <1>12 DEF Listed, InPrimary, ChunkEntry, MoviStart
<1>16. CountsOf(s, w, p)
  BY <1>2, <1>5, <1>8, <1>10, <1>11, <1>12 DEF CountsOf, CountsKept
<1> QED BY <1>5, <1>8, <1>12, <1>13, <1>14, <1>15, <1>16 DEF cell

-----------------------------------------------------------------------------
(* write_trailer and write_header                                          *)

\* patch_post_counts: the stamped lengths are the counters, and the buffer is
\* no smaller than the largest packet of any stream.
LEMMA PatchPostCountsStep ==
  ASSUME NEW s, Good(s), NEW w, w = PatchPostCounts(s)
  PROVE  /\ Only(s, w, {"stamp"})
         /\ \A t \in VideoStreams : w.stamp.length[t] = s.tracks[t].packet_count
         /\ VideoStreams # {} =>
              w.stamp.frames = s.tracks[FirstOf(VideoStreams)].packet_count
         /\ \A t \in Streams : s.tracks[t].max_chunk_size <= w.stamp.buffer
<1> DEFINE frameStream == IF VideoStreams # {} THEN FirstOf(VideoStreams) ELSE 0
           largest == CHOOSE n \in {s.tracks[t].max_chunk_size : t \in Streams} :
                        \A t \in Streams : s.tracks[t].max_chunk_size <= n
           length == [t \in Streams |-> IF StreamType[t] = "auds"
                                        THEN s.tracks[t].sample_count
                                        ELSE s.tracks[t].packet_count]
           frames == s.tracks[frameStream].packet_count
           buffer == ((largest + 3) \div 4) * 4
           stamp == [frames |-> frames, buffer |-> buffer, length |-> length]
<1>1. w = SetStamp(s, stamp)
  BY DEF PatchPostCounts, SetStamp
<1>2. \A t \in Streams : s.tracks[t].max_chunk_size \in Nat
  BY DEF Good, Typed, MuxerRecord, TrackState
<1>3. largest \in Nat /\ \A t \in Streams : s.tracks[t].max_chunk_size <= largest
  <2> DEFINE f == [t \in Streams |-> s.tracks[t].max_chunk_size]
  <2>1. f \in [Streams -> Nat] BY <1>2
  <2>2. PICK t \in Streams : \A u \in Streams : f[u] <= f[t]
    <3> HIDE DEF f
    <3> QED BY <2>1, MaxExists
  <2>3. \A u \in Streams : s.tracks[u].max_chunk_size <= s.tracks[t].max_chunk_size
    BY <2>2
  <2> QED BY <1>2, <2>3
<1> HIDE DEF largest
<1>4. buffer >= largest /\ buffer \in Nat BY <1>3
<1>5. \A t \in Streams : s.tracks[t].max_chunk_size <= buffer
  <2> HIDE DEF buffer
  <2> QED BY <1>2, <1>3, <1>4
<1>6. \A t \in VideoStreams : length[t] = s.tracks[t].packet_count
  BY DEF VideoStreams
<1>7. VideoStreams # {} => frames = s.tracks[FirstOf(VideoStreams)].packet_count
  OBVIOUS
<1> HIDE DEF length, frames, buffer
<1>8. stamp.length = length /\ stamp.frames = frames /\ stamp.buffer = buffer
  OBVIOUS
<1> HIDE DEF stamp
<1>9. Only(s, w, {"stamp"}) /\ w.stamp = stamp
  BY <1>1 DEF Good, Typed, MuxerRecord, SetStamp, Only, Fields
<1> QED BY <1>5, <1>6, <1>7, <1>8, <1>9

\* The patch of the indx chunks: the layout that strl_std_active asks for, in
\* every strl.
LEMMA PatchIndxStep ==
  ASSUME NEW s, Good(s), NEW w, w = PatchIndx(s)
  PROVE  /\ Only(s, w, {"tracks"})
         /\ CountsKept(s, w)
         /\ OpenDml => \A t \in Streams :
              w.tracks[t].indx.kind = IF s.strl_std_active THEN "std" ELSE "super"
<1>1. s.tracks \in [Streams -> TrackState]
  BY DEF Good, Typed, MuxerRecord
<1>2. ASSUME NEW tracks, w = SetTracks(s, tracks), NEW kind,
             \A t \in Streams : /\ tracks[t].packet_count = s.tracks[t].packet_count
                                /\ tracks[t].sample_count = s.tracks[t].sample_count
                                /\ tracks[t].max_chunk_size = s.tracks[t].max_chunk_size
                                /\ tracks[t].indx.kind = kind
      PROVE  /\ Only(s, w, {"tracks"}) /\ CountsKept(s, w)
             /\ \A t \in Streams : w.tracks[t].indx.kind = kind
  <2>1. Only(s, w, {"tracks"}) /\ w.tracks = tracks
    BY <1>2 DEF Good, Typed, MuxerRecord, SetTracks, Only, Fields
  <2> QED BY <1>2, <2>1 DEF CountsKept
<1>3. CASE ~OpenDml
  <2>1. w = s BY <1>3 DEF PatchIndx
  <2> QED BY <1>3, <2>1 DEF Only, CountsKept
<1>4. CASE OpenDml /\ s.strl_std_active
  <2> DEFINE entries(t) == s.tracks[t].ix_entries
             capacity(t) == IndxBytes(t) \div EntrySize(t)
             n(t) == IF Len(entries(t)) < capacity(t) THEN Len(entries(t)) ELSE capacity(t)
             ents(t) == SubSeq(entries(t), 1, n(t))
             indx(t) == [kind |-> "std", base |-> QwBase(s), ents |-> ents(t)]
             tracks == [t \in Streams |->
                          [s.tracks[t] EXCEPT !.ix_entries = <<>>, !.indx = indx(t)]]
  <2>1. w = SetTracks(s, tracks)
    BY <1>4 DEF PatchIndx, PatchStrlStdIndexes, SetTracks
  <2> HIDE DEF ents
  <2>2. \A t \in Streams : /\ tracks[t].packet_count = s.tracks[t].packet_count
                           /\ tracks[t].sample_count = s.tracks[t].sample_count
                           /\ tracks[t].max_chunk_size = s.tracks[t].max_chunk_size
                           /\ tracks[t].indx.kind = "std"
    BY <1>1, Zenon DEF TrackState
  <2> HIDE DEF tracks
  <2> QED BY <1>2, <1>4, <2>1, <2>2
<1>5. CASE OpenDml /\ ~s.strl_std_active
  <2> DEFINE records(t) == s.tracks[t].ix_chunk_records
             capacity(t) == IndxBytes(t) \div SuperEntry
             n(t) == IF Len(records(t)) < capacity(t) THEN Len(records(t)) ELSE capacity(t)
             ents(t) == SubSeq(records(t), 1, n(t))
             indx(t) == [kind |-> "super", base |-> 0, ents |-> ents(t)]
             tracks == [t \in Streams |-> [s.tracks[t] EXCEPT !.indx = indx(t)]]
  <2>1. w = SetTracks(s, tracks)
    BY <1>5 DEF PatchIndx, PatchSuperIndex, SetTracks
  <2> HIDE DEF ents
  <2>2. \A t \in Streams : /\ tracks[t].packet_count = s.tracks[t].packet_count
                           /\ tracks[t].sample_count = s.tracks[t].sample_count
                           /\ tracks[t].max_chunk_size = s.tracks[t].max_chunk_size
                           /\ tracks[t].indx.kind = "super"
    BY <1>1, Zenon DEF TrackState
  <2> HIDE DEF tracks
  <2> QED BY <1>2, <1>5, <2>1, <2>2
<1> QED BY <1>3, <1>4, <1>5

\* The verdict of write_trailer.
LEMMA ConcludeStep ==
  ASSUME NEW s, Good(s), NEW w, w = Conclude(s)
  PROVE  Only(s, w, {"over_budget", "ok", "trailer_written"}) /\ w.ok = w.trailer_written
<1> DEFINE breaches == BudgetBreaches(s)
           ok == ~(opts.strict /\ breaches # {})
<1>1. w = SetVerdict(s, breaches, ok)
  BY DEF Conclude, SetVerdict
<1> HIDE DEF breaches, ok
<1> QED BY <1>1 DEF Good, Typed, MuxerRecord, SetVerdict, Only, Fields

HeaderFields ==
  { "ok", "header_written", "riff_size_off", "movi_size_off", "segment_packets",
    "rec_open_size_off", "rec_packets" }

\* write_header lays down the outer RIFF, the header list and LIST movi, the
\* sizes of both open lists still to come.
LEMMA HeaderStep ==
  ASSUME NEW s, Fresh(s), NEW w, w = HeaderState(s), opts \in Options
  PROVE  /\ Only(s, w, {"disk", "pos"} \cup HeaderFields)
         /\ Writes(s, w, {}, {"RIFF", "hdrl", "movi"})
         /\ w.ok
         /\ w.riff_size_off = 4 /\ w.movi_size_off = 16 + opts.hdrl
         /\ w.rec_open_size_off = NoList
         /\ DOMAIN w.disk = {0, 12, 12 + opts.hdrl}
         /\ w.disk[0] = Cell("RIFF", NoTrack, 0)
         /\ w.disk[12 + opts.hdrl] = Cell("movi", NoTrack, 0)
         /\ w.disk[12].id = "hdrl" /\ w.disk[12].len = opts.hdrl - 8
         /\ w.pos = 24 + opts.hdrl
<1> DEFINE r == BeginList(s, "RIFF")
           n == opts.hdrl - 8
           cell == Cell("hdrl", NoTrack, n)
           h == WriteChunk(r, cell)
           b == BeginList(h, "movi")
           movi == h.pos + 4
<1>1. w = SetHeader(b, 4, movi)
  BY DEF HeaderState
<1>2. /\ Typed(s) /\ Below(s) /\ s.pos = 0 /\ DOMAIN s.disk = {}
      /\ "RIFF" \in ListIds /\ "movi" \in ListIds
  BY DEF Fresh, Below, ListIds
<1>3. opts.hdrl \in Nat /\ n \in Nat /\ Pad(n) = n
  BY OptsTyped DEF Config, Pad
<1>4. /\ Typed(r) /\ Below(r) /\ r.pos = 12
      /\ Writes(s, r, {}, {"RIFF"}) /\ Only(s, r, {"disk", "pos"})
      /\ DOMAIN r.disk = {0} /\ r.disk[0] = Cell("RIFF", NoTrack, 0)
  <2>1. Typed(r) /\ Below(r) /\ r.pos = s.pos + 12
    BY <1>2, BeginListGood
  <2>2. /\ Writes(s, r, {}, {"RIFF"}) /\ Only(s, r, {"disk", "pos"})
        /\ DOMAIN r.disk = DOMAIN s.disk \cup {s.pos}
        /\ r.disk[s.pos] = Cell("RIFF", NoTrack, 0)
    BY <1>2, BeginListStep
  <2> HIDE DEF r
  <2> QED BY <1>2, <2>1, <2>2
<1> HIDE DEF r
<1>5. cell \in CellType /\ cell.id = "hdrl" /\ cell.len = n
  <2>1. "hdrl" \in ListIds \cup MediaIds \cup {"hdrl", "JUNK", "ix", "idx1"} OBVIOUS
  <2>2. NoTrack \in Streams \cup {NoTrack} OBVIOUS
  <2> QED BY <1>3, <2>1, <2>2, CellTyped DEF Cell
<1> HIDE DEF cell
<1>6. /\ Typed(h) /\ Below(h)
      /\ Writes(r, h, {}, {"hdrl"}) /\ Only(r, h, {"disk", "pos"}) /\ Placed(r, h, cell)
  <2>1. Typed(h) /\ Below(h) BY <1>4, <1>5, WriteChunkGood
  <2>2. Writes(r, h, {}, {cell.id}) /\ Only(r, h, {"disk", "pos"}) /\ Placed(r, h, cell)
    BY <1>4, <1>5, WriteChunkStep
  <2> QED BY <1>5, <2>1, <2>2
<1> HIDE DEF h
<1>7. h.pos = 12 + opts.hdrl
  <2>1. h.pos = r.pos + 8 + Pad(cell.len) BY <1>6 DEF Placed
  <2> QED BY <1>3, <1>4, <1>5, <2>1
<1>8. /\ DOMAIN h.disk = {0, 12} /\ h.disk[0] = Cell("RIFF", NoTrack, 0)
      /\ h.disk[12] = cell
  BY <1>4, <1>6 DEF Placed
<1>9. /\ Typed(b) /\ Writes(h, b, {}, {"movi"}) /\ Only(h, b, {"disk", "pos"})
      /\ DOMAIN b.disk = DOMAIN h.disk \cup {h.pos}
      /\ b.disk[h.pos] = Cell("movi", NoTrack, 0)
      /\ \A at \in DOMAIN h.disk : b.disk[at] = h.disk[at]
      /\ b.pos = h.pos + 12
  <2>1. Typed(b) /\ b.pos = h.pos + 12 BY <1>2, <1>6, BeginListGood
  <2> QED BY <1>2, <1>6, <2>1, BeginListStep
<1> HIDE DEF b
<1>10. Writes(s, b, {}, {"RIFF", "hdrl", "movi"})
  <2>1. Writes(s, h, {} \cup {}, {"RIFF"} \cup {"hdrl"})
    BY <1>2, <1>4, <1>6, WritesTrans
  <2>2. Writes(s, b, ({} \cup {}) \cup {}, ({"RIFF"} \cup {"hdrl"}) \cup {"movi"})
    BY <1>2, <1>6, <1>9, <2>1, WritesTrans
  <2>3. /\ ({} \cup {}) \cup {} = {}
        /\ ({"RIFF"} \cup {"hdrl"}) \cup {"movi"} = {"RIFF", "hdrl", "movi"}
    OBVIOUS
  <2> QED BY <2>2, <2>3
<1>11. Only(s, b, {"disk", "pos"}) BY <1>4, <1>6, <1>9 DEF Only
<1> HIDE DEF movi
<1>12. /\ Only(b, w, HeaderFields) /\ w.disk = b.disk /\ w.pos = b.pos
       /\ w.ok /\ w.riff_size_off = 4 /\ w.movi_size_off = movi
       /\ w.rec_open_size_off = NoList
  BY <1>1, <1>9 DEF Typed, MuxerRecord, SetHeader, Only, Fields, HeaderFields
<1>13. Only(s, w, {"disk", "pos"} \cup HeaderFields) BY <1>11, <1>12 DEF Only
<1>14. Writes(s, w, {}, {"RIFF", "hdrl", "movi"}) BY <1>10, <1>12 DEF Writes
<1>15. movi = 16 + opts.hdrl BY <1>3, <1>7 DEF movi
<1>16. w.pos = 24 + opts.hdrl BY <1>3, <1>7, <1>9, <1>12
<1>17. w.disk[12].id = "hdrl" /\ w.disk[12].len = opts.hdrl - 8
  BY <1>5, <1>8, <1>9, <1>12
<1> QED BY <1>7, <1>8, <1>9, <1>12, <1>13, <1>14, <1>15, <1>16, <1>17

-----------------------------------------------------------------------------
(* The invariant                                                           *)

\* The chunk that idx1 entry e describes has its header at offset at.
Stands(s, at, e) ==
  /\ at \in DOMAIN s.disk
  /\ s.disk[at].id = e.id
  /\ s.disk[at].trk = e.trk
  /\ s.disk[at].len = e.len
  /\ s.disk[at].key = e.key

\* Where it must be: idx1 offsets are relative to the primary LIST movi.
Target(e) == PrimaryMoviStart + e.off

\* In the primary segment LIST movi is where idx1 offsets are taken from;
\* every entry leads to its chunk; and the entry whose size
\* close_rec_cluster will patch is the one of the cluster that is open.
Indexed(s) ==
  /\ InPrimary(s) => s.movi_size_off = 16 + opts.hdrl
  /\ \A i \in DOMAIN s.index : Stands(s, Target(s.index[i]), s.index[i])
  /\ s.rec_open_size_off # NoList => \A i \in DOMAIN s.index :
       Target(s.index[i]) = s.rec_open_size_off - 4 <=> i = s.rec_open_idx1_slot

\* PacketsAligned, of a muxer state.
Aligned(s) ==
  opts.granularity > 0 => \A at \in DOMAIN s.disk :
    s.disk[at].id = "data" => at % opts.granularity = 0

\* The packets and side-band chunks behind offset off.
MediaAfter(s, off) == {at \in DOMAIN s.disk : s.disk[at].id \in MediaIds /\ at > off}

\* ClusterAccounting, of a muxer state; a cluster is open under one of the
\* cluster options only.
Accounted(s) ==
  s.rec_open_size_off # NoList =>
    /\ Clustering
    /\ s.rec_bytes = s.pos - (s.rec_open_size_off + 8)
    /\ s.rec_packets = Cardinality(MediaAfter(s, s.rec_open_size_off))

\* The packets of stream t, over all segments.
DataOf(s, t) == {at \in DOMAIN s.disk : s.disk[at].id = "data" /\ s.disk[at].trk = t}

\* The counters write_packet keeps are those of the packets on disk.
Counts(s) ==
  /\ \A at \in DOMAIN s.disk : s.disk[at].id = "data" => s.disk[at].trk \in Streams
  /\ \A t \in Streams :
       /\ s.tracks[t].packet_count = Cardinality(DataOf(s, t))
       /\ \A at \in DataOf(s, t) : s.disk[at].len <= s.tracks[t].max_chunk_size

Sound(s) == Good(s) /\ Indexed(s) /\ Aligned(s) /\ Accounted(s) /\ Counts(s)

\* Before write_header there is nothing to index and nothing to count.
Early(s) ==
  /\ Fresh(s)
  /\ s.index = <<>> /\ s.segments = <<>>
  /\ \A t \in Streams : s.tracks[t].packet_count = 0

-----------------------------------------------------------------------------
(* Sets of chunks                                                          *)

\* What is below the output position is finite.
LEMMA DiskFinite ==
  ASSUME NEW s, Typed(s), Below(s), NEW T, T \subseteq DOMAIN s.disk
  PROVE  IsFiniteSet(T) /\ Cardinality(T) \in Nat
<1>1. s.pos \in Nat BY DEF Typed, MuxerRecord
<1>2. IsFiniteSet(0 .. s.pos) BY <1>1, FS_Interval
<1>3. T \in SUBSET (0 .. s.pos)
  <2>1. \A at \in DOMAIN s.disk : at \in Nat /\ at < s.pos BY DEF Typed, DiskOK, Below
  <2> QED BY <1>1, <2>1
<1>4. IsFiniteSet(T) BY <1>2, <1>3, FS_Subset
<1> QED BY <1>4, FS_CardinalityType

-----------------------------------------------------------------------------
(* Neutral steps                                                           *)

\* The step writes no packet and no side-band chunk, patches the sizes of
\* outer lists only, lists nothing in idx1, and leaves the open cluster open
\* and its bytes counted, or leaves no cluster open.
Neutral(s, w) ==
  /\ \E heads, ids :
       /\ Writes(s, w, heads, ids)
       /\ \A at \in heads : at \in DOMAIN s.disk => s.disk[at].id \in {"RIFF", "movi"}
       /\ ids \cap (MediaIds \cup {"rec"}) = {}
  /\ CountsKept(s, w)
  /\ w.index = s.index
  /\ InPrimary(w) => InPrimary(s) /\ w.movi_size_off = s.movi_size_off
  /\ \/ w.rec_open_size_off = NoList
     \/ /\ w.rec_open_size_off = s.rec_open_size_off
        /\ w.rec_open_idx1_slot = s.rec_open_idx1_slot
        /\ w.rec_packets = s.rec_packets
        /\ w.rec_bytes = s.rec_bytes + (w.pos - s.pos)

\* The packets and side-band chunks on disk are the same before and after.
LEMMA NeutralMedia ==
  ASSUME NEW s, NEW w, Neutral(s, w)
  PROVE  \A at : (at \in DOMAIN w.disk /\ w.disk[at].id \in MediaIds)
             <=> (at \in DOMAIN s.disk /\ s.disk[at].id \in MediaIds)
<1>1. PICK heads, ids :
       /\ Writes(s, w, heads, ids)
       /\ \A at \in heads : at \in DOMAIN s.disk => s.disk[at].id \in {"RIFF", "movi"}
       /\ ids \cap (MediaIds \cup {"rec"}) = {}
  BY DEF Neutral
<1> QED BY <1>1 DEF Writes, Resized

\* Those and the clusters keep all they had.
LEMMA NeutralKeeps ==
  ASSUME NEW s, NEW w, Neutral(s, w)
  PROVE  \A at \in DOMAIN s.disk : s.disk[at].id \in MediaIds \cup {"rec"} =>
           at \in DOMAIN w.disk /\ w.disk[at] = s.disk[at]
<1>1. PICK heads, ids :
       /\ Writes(s, w, heads, ids)
       /\ \A at \in heads : at \in DOMAIN s.disk => s.disk[at].id \in {"RIFF", "movi"}
       /\ ids \cap (MediaIds \cup {"rec"}) = {}
  BY DEF Neutral
<1> QED BY <1>1 DEF Writes, MediaIds

LEMMA NeutralSound ==
  ASSUME NEW s, Sound(s), NEW w, Good(w), Neutral(s, w)
  PROVE  Sound(w)
<1>1. \A at : (at \in DOMAIN w.disk /\ w.disk[at].id \in MediaIds)
          <=> (at \in DOMAIN s.disk /\ s.disk[at].id \in MediaIds)
  BY NeutralMedia
<1>2. \A at \in DOMAIN s.disk : s.disk[at].id \in MediaIds \cup {"rec"} =>
        at \in DOMAIN w.disk /\ w.disk[at] = s.disk[at]
  BY NeutralKeeps
<1>3. \A at : (at \in DOMAIN w.disk /\ w.disk[at].id = "data")
          <=> (at \in DOMAIN s.disk /\ s.disk[at].id = "data")
  BY <1>1, <1>2 DEF MediaIds
<1>4. Indexed(w)
  <2>1. ASSUME NEW i \in DOMAIN w.index
        PROVE  Stands(w, Target(w.index[i]), w.index[i])
    <3>1. w.index = s.index BY DEF Neutral
    <3>2. s.index \in Seq(IndexEntry) BY DEF Sound, Good, Typed, MuxerRecord
    <3>3. s.index[i].id \in MediaIds \cup {"rec"}
      <4>1. s.index[i] \in IndexEntry BY <3>1, <3>2
      <4> QED BY <4>1 DEF IndexEntry
    <3>4. Stands(s, Target(s.index[i]), s.index[i])
      BY <3>1 DEF Sound, Indexed
    <3> QED BY <1>2, <3>1, <3>3, <3>4 DEF Stands
  <2>2. InPrimary(w) => w.movi_size_off = 16 + opts.hdrl
    BY DEF Neutral, Sound, Indexed
  <2>3. w.rec_open_size_off # NoList => \A i \in DOMAIN w.index :
          Target(w.index[i]) = w.rec_open_size_off - 4 <=> i = w.rec_open_idx1_slot
    BY DEF Neutral, Sound, Indexed
  <2> QED BY <2>1, <2>2, <2>3 DEF Indexed
<1>5. Aligned(w)
  BY <1>3 DEF Sound, Aligned
<1>6. Accounted(w)
  <2> SUFFICES ASSUME w.rec_open_size_off # NoList
               PROVE  /\ Clustering
                      /\ w.rec_bytes = w.pos - (w.rec_open_size_off + 8)
                      /\ w.rec_packets = Cardinality(MediaAfter(w, w.rec_open_size_off))
    BY DEF Accounted
  <2>1. /\ w.rec_open_size_off = s.rec_open_size_off
        /\ w.rec_packets = s.rec_packets
        /\ w.rec_bytes = s.rec_bytes + (w.pos - s.pos)
    BY DEF Neutral
  <2>2. /\ Clustering
        /\ s.rec_bytes = s.pos - (s.rec_open_size_off + 8)
        /\ s.rec_packets = Cardinality(MediaAfter(s, s.rec_open_size_off))
    BY <2>1 DEF Sound, Accounted
  <2>3. MediaAfter(w, w.rec_open_size_off) = MediaAfter(s, s.rec_open_size_off)
    BY <1>1, <2>1 DEF MediaAfter
  <2>4. s.pos \in Nat /\ w.pos \in Nat /\ s.rec_open_size_off \in Nat
    BY DEF Sound, Good, Typed, MuxerRecord
  <2>5. w.rec_bytes = w.pos - (w.rec_open_size_off + 8)
    BY <2>1, <2>2, <2>4
  <2> QED BY <2>1, <2>2, <2>3, <2>5
<1>7. Counts(w)
  <2>1. \A t \in Streams : DataOf(w, t) = DataOf(s, t)
    BY <1>2, <1>3 DEF DataOf, MediaIds
  <2>2. \A t \in Streams : \A at \in DataOf(s, t) : w.disk[at] = s.disk[at]
    BY <1>2 DEF DataOf, MediaIds
  <2>3. \A at \in DOMAIN w.disk : w.disk[at].id = "data" => w.disk[at].trk \in Streams
    BY <1>2, <1>3 DEF Sound, Counts, MediaIds
  <2>4. \A t \in Streams :
          /\ w.tracks[t].packet_count = s.tracks[t].packet_count
          /\ w.tracks[t].max_chunk_size = s.tracks[t].max_chunk_size
    BY DEF Neutral, CountsKept
  <2> QED BY <2>1, <2>2, <2>3, <2>4 DEF Sound, Counts
<1> QED BY <1>4, <1>5, <1>6, <1>7 DEF Sound

\* A step that changes none of the fields the invariant speaks of, writes
\* nothing and leaves the counters alone is neutral.
LEMMA SilentNeutral ==
  ASSUME NEW s, Typed(s), NEW w, NEW F, Only(s, w, F),
         F \cap { "disk", "pos", "index", "segments", "movi_size_off",
                 "rec_open_size_off", "rec_open_idx1_slot", "rec_packets",
                 "rec_bytes" } = {},
         CountsKept(s, w)
  PROVE  Neutral(s, w)
<1>1. /\ w.disk = s.disk /\ w.pos = s.pos /\ w.index = s.index
      /\ w.segments = s.segments /\ w.movi_size_off = s.movi_size_off
      /\ w.rec_open_size_off = s.rec_open_size_off
      /\ w.rec_open_idx1_slot = s.rec_open_idx1_slot
      /\ w.rec_packets = s.rec_packets /\ w.rec_bytes = s.rec_bytes
  BY DEF Only, Fields
<1>2. s.pos \in Nat /\ s.rec_bytes \in Nat BY DEF Typed, MuxerRecord
<1>3. w.rec_bytes = s.rec_bytes + (w.pos - s.pos) BY <1>1, <1>2
<1>4. Writes(s, w, {}, {}) BY <1>1, WritesNothing
<1> QED BY <1>1, <1>3, <1>4 DEF Neutral, InPrimary

\* The tracks are the same, so are their counters.
LEMMA SameTracks ==
  ASSUME NEW s, NEW w, w.tracks = s.tracks
  PROVE  CountsKept(s, w)
BY DEF CountsKept

\* An answer, and the fields only another invariant speaks of.
LEMMA SetOkSound ==
  ASSUME NEW s, Sound(s), NEW b \in BOOLEAN, NEW w, w = SetOk(s, b)
  PROVE  Sound(w)
<1>1. Typed(s) BY DEF Sound, Good
<1>2. Only(s, w, {"ok"}) /\ w.tracks = s.tracks
  BY <1>1 DEF Typed, MuxerRecord, SetOk, Only, Fields
<1>3. Neutral(s, w) BY <1>1, <1>2, SameTracks, SilentNeutral
<1>4. Good(w) BY SetOkGood DEF Sound
<1> QED BY <1>3, <1>4, NeutralSound

-----------------------------------------------------------------------------
(* LIST rec  clusters                                                      *)

\* open_rec_cluster: its idx1 entry is the only one that leads to the new
\* list, and the list is empty.
LEMMA OpenRecClusterSound ==
  ASSUME NEW s, Sound(s), Clustering, NEW w, w = OpenRecCluster(s), opts \in Options
  PROVE  Sound(w)
<1>1. Good(w) BY OpenRecClusterGood DEF Sound
<1>2. Only(s, w, {"disk", "pos"} \cup ClusterFields) /\ Opened(s, w)
  <2>1. Good(s) BY DEF Sound
  <2> QED BY <2>1, OpenRecClusterStep
<1>3. /\ DOMAIN w.disk = DOMAIN s.disk \cup {s.pos}
      /\ w.disk[s.pos] = Cell("rec", NoTrack, 0)
      /\ \A at \in DOMAIN s.disk : w.disk[at] = s.disk[at] /\ at # s.pos
      /\ w.pos = s.pos + 12 /\ w.rec_open_size_off = s.pos + 4
      /\ w.rec_packets = 0 /\ w.rec_bytes = 0
      /\ \/ w.index = s.index /\ w.rec_open_idx1_slot = NoSlot
         \/ /\ InPrimary(s)
            /\ w.index = Append(s.index, RecEntry(s))
            /\ w.rec_open_idx1_slot = Len(s.index) + 1
  BY <1>2 DEF Opened
<1>4. /\ w.tracks = s.tracks /\ w.segments = s.segments
      /\ w.movi_size_off = s.movi_size_off
  BY <1>2 DEF Only, Fields, ClusterFields
<1>5. /\ s.pos \in Nat /\ s.index \in Seq(IndexEntry)
      /\ \A at \in DOMAIN s.disk : at \in Nat /\ at < s.pos
  BY DEF Sound, Good, Typed, MuxerRecord, DiskOK, Below
<1>6. /\ w.disk[s.pos].id = "rec" /\ w.disk[s.pos].trk = NoTrack
      /\ w.disk[s.pos].len = 0 /\ w.disk[s.pos].key = FALSE
  BY <1>3 DEF Cell
<1>7. Indexed(w)
  <2>1. InPrimary(w) => w.movi_size_off = 16 + opts.hdrl
    BY <1>4 DEF Sound, Indexed, InPrimary
  <2>2. ASSUME NEW i \in DOMAIN s.index
        PROVE  /\ Stands(w, Target(s.index[i]), s.index[i])
               /\ Target(s.index[i]) # s.pos
    <3>1. Stands(s, Target(s.index[i]), s.index[i]) BY DEF Sound, Indexed
    <3> QED BY <1>3, <3>1 DEF Stands
  <2>3. InPrimary(s) => /\ Target(RecEntry(s)) = s.pos
                        /\ Stands(w, s.pos, RecEntry(s))
    <3>1. InPrimary(s) => s.movi_size_off = 16 + opts.hdrl BY DEF Sound, Indexed
    <3>2. opts.hdrl \in Nat BY OptsTyped DEF Config
    <3>3. InPrimary(s) => Target(RecEntry(s)) = s.pos
      BY <1>5, <3>1, <3>2 DEF Target, RecEntry, MoviStart, PrimaryMoviStart
    <3>4. Stands(w, s.pos, RecEntry(s)) BY <1>3, <1>6 DEF Stands, RecEntry
    <3> QED BY <3>3, <3>4
  <2>4. w.rec_open_size_off - 4 = s.pos BY <1>3, <1>5
  <2>5. CASE w.index = s.index /\ w.rec_open_idx1_slot = NoSlot
    BY <1>5, <2>1, <2>2, <2>4, <2>5 DEF Indexed, NoSlot
  <2>6. CASE /\ InPrimary(s)
             /\ w.index = Append(s.index, RecEntry(s))
             /\ w.rec_open_idx1_slot = Len(s.index) + 1
    <3> DEFINE e == RecEntry(s)
    <3> HIDE DEF e
    <3>1. w.index = Append(s.index, e) BY <2>6 DEF e
    <3>2. \A i \in DOMAIN w.index :
            \/ i \in DOMAIN s.index /\ w.index[i] = s.index[i] /\ i # Len(s.index) + 1
            \/ i = Len(s.index) + 1 /\ w.index[i] = e
      BY <1>5, <3>1
    <3>3. Target(e) = s.pos /\ Stands(w, s.pos, e) BY <2>3, <2>6 DEF e
    <3>4. \A i \in DOMAIN w.index : Stands(w, Target(w.index[i]), w.index[i])
      BY <2>2, <3>2, <3>3
    <3>5. \A i \in DOMAIN w.index : Target(w.index[i]) = s.pos <=> i = Len(s.index) + 1
      BY <2>2, <3>2, <3>3
    <3> QED BY <2>1, <2>4, <2>6, <3>4, <3>5 DEF Indexed
  <2> QED BY <1>3, <2>5, <2>6
<1>8. Aligned(w) BY <1>3, <1>6 DEF Sound, Aligned
<1>9. Accounted(w)
  <2>1. MediaAfter(w, w.rec_open_size_off) = {}
    <3>1. \A at \in DOMAIN w.disk : ~(at > s.pos + 4) BY <1>3, <1>5
    <3> QED BY <1>3, <3>1 DEF MediaAfter
  <2>2. w.rec_packets = Cardinality(MediaAfter(w, w.rec_open_size_off))
    BY <1>3, <2>1, FS_EmptySet
  <2>3. w.rec_bytes = w.pos - (w.rec_open_size_off + 8) BY <1>3, <1>5
  <2> QED BY <2>2, <2>3 DEF Accounted
<1>10. Counts(w)
  <2>1. \A t : DataOf(w, t) = DataOf(s, t)
    BY <1>3, <1>6 DEF DataOf
  <2>2. \A t : \A at \in DataOf(s, t) : w.disk[at] = s.disk[at]
    BY <1>3 DEF DataOf
  <2>3. \A at \in DOMAIN w.disk : w.disk[at].id = "data" => w.disk[at].trk \in Streams
    BY <1>3, <1>6 DEF Sound, Counts
  <2> QED BY <1>4, <2>1, <2>2, <2>3 DEF Sound, Counts
<1> QED BY <1>1, <1>7, <1>8, <1>9, <1>10 DEF Sound

\* close_rec_cluster: the list and its idx1 entry get the same size, or,
\* when the list outgrew 32 bits, neither gets one.
LEMMA CloseRecClusterSound ==
  ASSUME NEW s, Sound(s), s.ok, NEW w, w = CloseRecCluster(s)
  PROVE  Sound(w)
<1>1. Good(w) /\ w.rec_open_size_off = NoList /\ w.tracks = s.tracks
  <2>1. Good(s) BY DEF Sound
  <2> QED BY <2>1, CloseRecClusterGood
<1>2. \/ s.rec_open_size_off = NoList /\ w = s
      \/ /\ s.rec_open_size_off # NoList
         /\ ~w.ok /\ w.disk = s.disk
         /\ Only(s, w, {"ok", "disk", "rec_open_size_off"})
      \/ s.rec_open_size_off # NoList /\ w.ok /\ Closed(s, w)
  <2>1. Good(s) BY DEF Sound
  <2> QED BY <2>1, CloseRecClusterStep
<1>3. CASE s.rec_open_size_off = NoList /\ w = s
  BY <1>3
<1>4. CASE ~w.ok /\ w.disk = s.disk /\ Only(s, w, {"ok", "disk", "rec_open_size_off"})
  <2>1. /\ w.pos = s.pos /\ w.index = s.index /\ w.segments = s.segments
        /\ w.movi_size_off = s.movi_size_off
    BY <1>4 DEF Only, Fields
  <2>2. Writes(s, w, {}, {}) BY <1>4, <2>1, WritesNothing DEF Sound, Good
  <2>3. Neutral(s, w) BY <1>1, <2>1, <2>2, SameTracks DEF Neutral, InPrimary
  <2> QED BY <1>1, <2>3, NeutralSound
<1>5. CASE s.rec_open_size_off # NoList /\ w.ok /\ Closed(s, w)
  <2> DEFINE head == s.rec_open_size_off - 4
             n == s.pos - (s.rec_open_size_off + 4)
             slot == s.rec_open_idx1_slot
  <2>1. /\ Writes(s, w, {head}, {}) /\ w.disk[head].len = n
        /\ Only(s, w, {"ok", "disk"} \cup ClusterFields)
        /\ w.index = IF slot = NoSlot THEN s.index ELSE [s.index EXCEPT ![slot].len = n]
    BY <1>5 DEF Closed
  <2>2. w.segments = s.segments /\ w.movi_size_off = s.movi_size_off
    BY <2>1 DEF Only, Fields, ClusterFields
  <2>3. /\ head \in DOMAIN s.disk /\ s.disk[head].id = "rec"
        /\ s.index \in Seq(IndexEntry) /\ slot \in 0 .. Len(s.index)
    BY <1>5 DEF Sound, Good, Heads, IsList, Typed, MuxerRecord
  <2>4. \A i \in DOMAIN s.index : Stands(s, Target(s.index[i]), s.index[i])
    BY DEF Sound, Indexed
  <2>5. \A i \in DOMAIN s.index : Target(s.index[i]) = head <=> i = slot
    BY <1>5 DEF Sound, Indexed
  <2> HIDE DEF head, n, slot
  <2>6. /\ DOMAIN w.disk = DOMAIN s.disk
        /\ \A at \in DOMAIN s.disk : /\ Resized(s.disk[at], w.disk[at])
                                     /\ at # head => w.disk[at] = s.disk[at]
    BY <2>1 DEF Writes
  <2>7. DOMAIN w.index = DOMAIN s.index
    BY <2>1, <2>3
  <2>8. \A i \in DOMAIN s.index : i # slot => w.index[i] = s.index[i]
    BY <2>1, <2>3
  <2>9. slot \in DOMAIN s.index => w.index[slot] = [s.index[slot] EXCEPT !.len = n]
    BY <2>1, <2>3 DEF NoSlot
  <2>10. ASSUME NEW i \in DOMAIN w.index
        PROVE  Stands(w, Target(w.index[i]), w.index[i])
    <3>1. i \in DOMAIN s.index BY <2>7
    <3>2. CASE i # slot
      <4>1. w.index[i] = s.index[i] /\ Target(s.index[i]) # head BY <2>5, <2>8, <3>1, <3>2
      <4>2. Stands(s, Target(s.index[i]), s.index[i]) BY <2>4, <3>1
      <4> QED BY <2>6, <4>1, <4>2 DEF Stands
    <3>3. CASE i = slot
      <4>1. s.index[i] \in IndexEntry BY <2>3, <3>1
      <4>2. w.index[i] = [s.index[i] EXCEPT !.len = n] BY <2>9, <3>1, <3>3
      <4>3. /\ w.index[i].id = s.index[i].id /\ w.index[i].trk = s.index[i].trk
            /\ w.index[i].key = s.index[i].key /\ w.index[i].off = s.index[i].off
            /\ w.index[i].len = n
        BY <4>1, <4>2 DEF IndexEntry
      <4>4. Stands(s, head, s.index[i]) /\ Target(s.index[i]) = head
        BY <2>4, <2>5, <3>1, <3>3
      <4>5. Target(w.index[i]) = head BY <4>3, <4>4 DEF Target
      <4> QED BY <2>1, <2>6, <4>3, <4>4, <4>5 DEF Stands, Resized
    <3> QED BY <3>2, <3>3
  <2>11. Indexed(w)
    BY <1>1, <2>2, <2>10 DEF Sound, Indexed, InPrimary
  <2>12. \A at : (at \in DOMAIN w.disk /\ w.disk[at].id = "data")
             <=> (at \in DOMAIN s.disk /\ s.disk[at].id = "data")
    BY <2>6 DEF Resized
  <2>13. \A at \in DOMAIN s.disk : s.disk[at].id = "data" => w.disk[at] = s.disk[at]
    BY <2>3, <2>6
  <2>14. Aligned(w) BY <2>12 DEF Sound, Aligned
  <2>15. Counts(w)
    <3>1. \A t : DataOf(w, t) = DataOf(s, t) BY <2>12, <2>13 DEF DataOf
    <3>2. \A t : \A at \in DataOf(s, t) : w.disk[at] = s.disk[at] BY <2>13 DEF DataOf
    <3> QED BY <1>1, <2>12, <2>13, <3>1, <3>2 DEF Sound, Counts
  <2>16. Accounted(w) BY <1>1 DEF Accounted
  <2> QED BY <1>1, <2>11, <2>14, <2>15, <2>16 DEF Sound
<1> QED BY <1>2, <1>3, <1>4, <1>5

\* The cluster step of write_packet and write_sideband_chunk, after which a
\* cluster is open if one is called for.
LEMMA ClusterSound ==
  ASSUME NEW s, Sound(s), s.ok, NEW len, NEW w, w = Cluster(s, len), opts \in Options
  PROVE  Sound(w)
<1> DEFINE c == CloseRecCluster(s)
<1>1. CASE w = s BY <1>1
<1>2. CASE w = OpenRecCluster(s) /\ Clustering
  BY <1>2, OpenRecClusterSound
<1>3. Sound(c) BY CloseRecClusterSound
<1> HIDE DEF c
<1>4. CASE w = c BY <1>3, <1>4
<1>5. CASE w = OpenRecCluster(c) /\ Clustering
  BY <1>3, <1>5, OpenRecClusterSound
<1>6. \/ w = s \/ w = c
      \/ w = OpenRecCluster(s) /\ Clustering
      \/ w = OpenRecCluster(c) /\ Clustering
  BY DEF Cluster, Then, c
<1> QED BY <1>1, <1>2, <1>4, <1>5, <1>6

-----------------------------------------------------------------------------
(* Segments                                                                *)

\* Flushing index entries, once the cluster is closed.
LEMMA FlushNeutral ==
  ASSUME NEW s, Good(s), s.rec_open_size_off = NoList, NEW w, IxFlush(s, w)
  PROVE  Neutral(s, w) /\ w.rec_open_size_off = NoList /\ w.ok = s.ok
<1>1. /\ w.index = s.index /\ w.segments = s.segments
      /\ w.movi_size_off = s.movi_size_off
      /\ w.rec_open_size_off = NoList /\ w.ok = s.ok
  BY DEF IxFlush, Only, Fields
<1>2. {"ix"} \cap (MediaIds \cup {"rec"}) = {} BY DEF MediaIds
<1>3. Writes(s, w, {}, {"ix"}) /\ CountsKept(s, w) BY DEF IxFlush
<1> QED BY <1>1, <1>2, <1>3 DEF Neutral, InPrimary

\* close_current_segment's and write_trailer's tail, once the cluster is
\* closed.
LEMMA FinishSegmentSound ==
  ASSUME NEW s, Sound(s), s.ok, s.rec_open_size_off = NoList,
         NEW w, w = FinishSegment(s)
  PROVE  /\ Sound(w) /\ w.rec_open_size_off = NoList
         /\ w.ok /\ OpenDml => w.segments # <<>>
<1>1. Good(s) BY DEF Sound
<1>2. Good(w) BY <1>1, FinishSegmentGood
<1>3. /\ Writes(s, w, {s.riff_size_off - 4, s.movi_size_off - 4}, {"idx1"})
      /\ Only(s, w, {"ok", "disk", "pos", "segments"})
      /\ ~w.ok => w.segments = s.segments
      /\ w.ok /\ OpenDml => w.segments # <<>>
      /\ ~OpenDml => w.segments = s.segments
  BY <1>1, FinishSegmentStep
<1>4. /\ w.index = s.index /\ w.movi_size_off = s.movi_size_off
      /\ w.rec_open_size_off = NoList /\ w.tracks = s.tracks
  BY <1>3 DEF Only, Fields
<1>5. InPrimary(w) => InPrimary(s) BY <1>3 DEF InPrimary
<1> DEFINE heads == {s.riff_size_off - 4, s.movi_size_off - 4}
           ids == {"idx1"}
<1>6. \A at \in heads : s.disk[at].id \in {"RIFF", "movi"}
  BY <1>1, HeadsDiffer
<1>7. ids \cap (MediaIds \cup {"rec"}) = {} BY DEF MediaIds
<1>8. Writes(s, w, heads, ids) BY <1>3
<1> HIDE DEF heads, ids
<1>9. Neutral(s, w)
  BY <1>4, <1>5, <1>6, <1>7, <1>8, SameTracks DEF Neutral
<1> QED BY <1>2, <1>3, <1>4, <1>9, NeutralSound

\* Giving up the compact layout.
LEMMA SetActiveSound ==
  ASSUME NEW s, Sound(s), NEW b \in BOOLEAN, NEW w, w = SetActive(s, b)
  PROVE  Sound(w) /\ w.ok = s.ok
<1>1. Typed(s) BY DEF Sound, Good
<1>2. Only(s, w, {"strl_std_active"}) /\ w.tracks = s.tracks /\ w.ok = s.ok
  BY <1>1 DEF Typed, MuxerRecord, SetActive, Only, Fields
<1>3. Neutral(s, w) BY <1>1, <1>2, SameTracks, SilentNeutral
<1>4. Good(w)
  <2>1. Typed(w) /\ w.disk = s.disk /\ w.pos = s.pos /\ SameFields(s, w)
    BY <1>1, ActiveTyped
  <2> QED BY <2>1, GoodSameDisk DEF Sound
<1> QED BY <1>2, <1>3, <1>4, NeutralSound

\* flush_ix_chunks
LEMMA FlushIxChunksSound ==
  ASSUME NEW s, Sound(s), s.rec_open_size_off = NoList, NEW w, w = FlushIxChunks(s)
  PROVE  Sound(w) /\ w.rec_open_size_off = NoList /\ w.ok = s.ok
<1>1. Good(s) BY DEF Sound
<1>2. Good(w) BY <1>1, FlushIxChunksGood DEF Cleared
<1>3. Neutral(s, w) /\ w.rec_open_size_off = NoList /\ w.ok = s.ok
  BY <1>1, FlushIxChunksStep, FlushNeutral
<1> QED BY <1>2, <1>3, NeutralSound

\* close_current_segment: when it answers Ok the primary segment is over.
LEMMA CloseCurrentSegmentSound ==
  ASSUME NEW s, Sound(s), s.ok, NEW w, w = CloseCurrentSegment(s)
  PROVE  /\ Sound(w)
         /\ w.ok /\ OpenDml => w.segments # <<>>
<1> DEFINE a == SetActive(s, FALSE)
           c == CloseRecCluster(a)
           x == FlushIxChunks(c)
           f == FinishSegment(x)
<1>1. w = IF c.ok THEN f ELSE c
  BY DEF CloseCurrentSegment, Then, SetActive
<1>2. Sound(a) /\ a.ok BY SetActiveSound
<1> HIDE DEF a
<1>3. Sound(c) /\ c.rec_open_size_off = NoList
  <2>1. Good(a) BY <1>2 DEF Sound
  <2> QED BY <1>2, <2>1, CloseRecClusterSound, CloseRecClusterGood
<1> HIDE DEF c
<1>4. Sound(x) /\ x.rec_open_size_off = NoList /\ x.ok = c.ok
  BY <1>3, FlushIxChunksSound
<1> HIDE DEF x
<1>5. c.ok => Sound(f) /\ (f.ok /\ OpenDml => f.segments # <<>>)
  BY <1>4, FinishSegmentSound
<1> QED BY <1>1, <1>3, <1>5

\* open_avix_segment, after the primary segment.
LEMMA OpenAvixSegmentSound ==
  ASSUME NEW s, Sound(s), s.segments # <<>>, NEW w, w = OpenAvixSegment(s), Good(w)
  PROVE  Sound(w)
<1>1. Good(s) BY DEF Sound
<1>2. /\ Writes(s, w, {}, {"RIFF", "movi"})
      /\ Only(s, w, {"disk", "pos", "riff_size_off", "movi_size_off", "segment_packets",
                     "rec_open_size_off", "rec_open_idx1_slot", "rec_packets", "rec_bytes"})
      /\ w.rec_open_size_off = NoList
  BY <1>1, OpenAvixSegmentStep
<1>3. w.index = s.index /\ w.segments = s.segments /\ w.tracks = s.tracks
  BY <1>2 DEF Only, Fields
<1>4. {"RIFF", "movi"} \cap (MediaIds \cup {"rec"}) = {} BY DEF MediaIds
<1>5. Neutral(s, w) BY <1>2, <1>3, <1>4, SameTracks DEF Neutral, InPrimary
<1> QED BY <1>5, NeutralSound

\* The roll.
LEMMA RollSound ==
  ASSUME NEW s, Sound(s), s.ok, NEW len, NEW w, w = Roll(s, len)
  PROVE  Sound(w)
<1> DEFINE c == CloseCurrentSegment(s)
           a == OpenAvixSegment(c)
<1>1. \/ w = s
      \/ OpenDml /\ w = IF c.ok THEN a ELSE c
  BY DEF Roll, MustRoll, Then
<1>2. Good(s) BY DEF Sound
<1>3. Sound(c) /\ (c.ok /\ OpenDml => c.segments # <<>>)
  BY CloseCurrentSegmentSound
<1>4. Good(c) /\ (c.ok => \A t \in Streams : c.tracks[t].ix_entries = <<>>)
  BY <1>2, CloseCurrentSegmentGood
<1> HIDE DEF c
<1>5. c.ok => Good(a) BY <1>4, OpenAvixSegmentGood
<1>6. c.ok /\ OpenDml => Sound(a)
  BY <1>3, <1>5, OpenAvixSegmentSound
<1> QED BY <1>1, <1>3, <1>6

-----------------------------------------------------------------------------
(* Placing a chunk                                                         *)

\* emit_padding_junk_for: the JUNK bytes are bytes of the open cluster, and
\* the next chunk is aligned.
LEMMA EmitPaddingJunkSound ==
  ASSUME NEW s, Sound(s), NEW w, w = EmitPaddingJunk(s), opts \in Options
  PROVE  /\ Sound(w)
         /\ opts.granularity > 0 => w.pos % opts.granularity = 0
<1>1. Good(s) BY DEF Sound
<1>2. Good(w) BY <1>1, EmitPaddingJunkGood
<1>3. /\ Writes(s, w, {}, {"JUNK"})
      /\ Only(s, w, {"disk", "pos", "rec_bytes"})
      /\ w.rec_bytes = IF s.rec_open_size_off = NoList THEN s.rec_bytes
                       ELSE s.rec_bytes + (w.pos - s.pos)
      /\ opts.granularity > 0 => w.pos % opts.granularity = 0
  BY <1>1, EmitPaddingJunkStep
<1>4. /\ w.index = s.index /\ w.segments = s.segments /\ w.tracks = s.tracks
      /\ w.movi_size_off = s.movi_size_off
      /\ w.rec_open_size_off = s.rec_open_size_off
      /\ w.rec_open_idx1_slot = s.rec_open_idx1_slot
      /\ w.rec_packets = s.rec_packets
  BY <1>3 DEF Only, Fields
<1>5. {"JUNK"} \cap (MediaIds \cup {"rec"}) = {} BY DEF MediaIds
<1>6. Neutral(s, w) BY <1>3, <1>4, <1>5, SameTracks DEF Neutral, InPrimary
<1> QED BY <1>2, <1>3, <1>6, NeutralSound

PlacedFields == PlaceFields \cup {"segment_packets", "pending_field2"}

\* One chunk more on disk, its idx1 entry and its share of the open cluster:
\* the entry leads to the chunk, and to no other list or chunk.
LEMMA PlacedSound ==
  ASSUME NEW s, Sound(s), NEW cell, IsMedia(cell), NEW w, Good(w),
         Placed(s, w, cell), Listed(s, w, cell), Only(s, w, PlacedFields),
         Clustering => /\ w.rec_packets = s.rec_packets + 1
                       /\ w.rec_bytes = s.rec_bytes + 8 + Pad(cell.len),
         cell.id = "data" /\ opts.granularity > 0 => s.pos % opts.granularity = 0,
         opts \in Options
  PROVE  Indexed(w) /\ Aligned(w) /\ Accounted(w)
<1>1. /\ w.segments = s.segments /\ w.movi_size_off = s.movi_size_off
      /\ w.rec_open_size_off = s.rec_open_size_off
      /\ w.rec_open_idx1_slot = s.rec_open_idx1_slot
  BY DEF Only, Fields, PlacedFields, PlaceFields
<1>2. /\ w.pos = s.pos + 8 + Pad(cell.len)
      /\ DOMAIN w.disk = DOMAIN s.disk \cup {s.pos}
      /\ w.disk[s.pos] = cell
      /\ \A at \in DOMAIN s.disk : w.disk[at] = s.disk[at] /\ at # s.pos
  BY DEF Placed
<1>3. /\ s.pos \in Nat /\ s.index \in Seq(IndexEntry) /\ s.rec_open_size_off \in Nat
      /\ s.rec_packets \in Nat /\ s.rec_bytes \in Nat
      /\ s.rec_open_idx1_slot \in 0 .. Len(s.index)
      /\ \A at \in DOMAIN s.disk : at \in Nat /\ at < s.pos
  BY DEF Sound, Good, Typed, MuxerRecord, DiskOK, Below
<1>4. s.rec_open_size_off # NoList => /\ s.rec_open_size_off - 4 \in DOMAIN s.disk
                                      /\ s.rec_open_size_off + 8 <= s.pos
  BY DEF Sound, Good, Heads, IsList
<1>5. cell.id \in MediaIds /\ cell.len \in Nat BY DEF IsMedia, CellType
<1>6. Indexed(w)
  <2> DEFINE e == ChunkEntry(s, cell)
             off == s.rec_open_size_off - 4
             slot == s.rec_open_idx1_slot
  <2>1. InPrimary(w) => w.movi_size_off = 16 + opts.hdrl
    BY <1>1 DEF Sound, Indexed, InPrimary
  <2>2. ASSUME NEW i \in DOMAIN s.index
        PROVE  Stands(w, Target(s.index[i]), s.index[i])
    <3>1. Stands(s, Target(s.index[i]), s.index[i]) BY DEF Sound, Indexed
    <3> QED BY <1>2, <3>1 DEF Stands
  <2>3. InPrimary(s) => Target(e) = s.pos
    <3>1. InPrimary(s) => s.movi_size_off = 16 + opts.hdrl BY DEF Sound, Indexed
    <3>2. opts.hdrl \in Nat BY OptsTyped DEF Config
    <3> QED BY SMTT(40), <1>3, <3>1, <3>2 DEF Target, ChunkEntry, MoviStart, PrimaryMoviStart
  <2>4. Stands(w, s.pos, e) BY <1>2 DEF Stands, ChunkEntry
  <2>5. s.rec_open_size_off # NoList => off # s.pos BY <1>3, <1>4
  <2>6. s.rec_open_size_off # NoList =>
          \A i \in DOMAIN s.index : Target(s.index[i]) = off <=> i = slot
    BY DEF Sound, Indexed
  <2>7. w.rec_open_size_off - 4 = off /\ w.rec_open_idx1_slot = slot BY <1>1
  <2> HIDE DEF e, off, slot
  <2>8. CASE w.index = s.index
    BY <1>1, <2>1, <2>2, <2>6, <2>7, <2>8 DEF Indexed
  <2>9. CASE InPrimary(s) /\ w.index = Append(s.index, e)
    <3>1. \A i \in DOMAIN w.index :
            \/ i \in DOMAIN s.index /\ w.index[i] = s.index[i] /\ i # Len(s.index) + 1
            \/ i = Len(s.index) + 1 /\ w.index[i] = e
      BY <1>3, <2>9
    <3>2. Len(s.index) + 1 # slot BY <1>3 DEF slot
    <3>3. \A i \in DOMAIN w.index : Stands(w, Target(w.index[i]), w.index[i])
      BY <2>2, <2>3, <2>4, <2>9, <3>1
    <3>4. s.rec_open_size_off # NoList =>
            \A i \in DOMAIN w.index : Target(w.index[i]) = off <=> i = slot
      BY <2>3, <2>5, <2>6, <2>9, <3>1, <3>2
    <3> QED BY <1>1, <2>1, <2>7, <3>3, <3>4 DEF Indexed
  <2> QED BY <2>8, <2>9 DEF Listed, e
<1>7. Aligned(w) BY <1>2 DEF Sound, Aligned
<1>8. Accounted(w)
  <2> DEFINE off == s.rec_open_size_off
  <2> SUFFICES ASSUME off # NoList
               PROVE  /\ Clustering
                      /\ w.rec_bytes = w.pos - (off + 8)
                      /\ w.rec_packets = Cardinality(MediaAfter(w, off))
    BY <1>1 DEF Accounted
  <2>1. /\ Clustering /\ s.rec_bytes = s.pos - (off + 8)
        /\ s.rec_packets = Cardinality(MediaAfter(s, off))
    BY DEF Sound, Accounted
  <2>2. w.rec_bytes = w.pos - (off + 8)
    <3>1. Pad(cell.len) \in Nat BY <1>5, PadNat
    <3> QED BY SMTT(40), <1>2, <1>3, <2>1, <3>1
  <2>3. MediaAfter(w, off) = MediaAfter(s, off) \cup {s.pos}
    <3>1. s.pos > off BY <1>3, <1>4
    <3> HIDE DEF off
    <3> QED BY <1>2, <1>5, <3>1 DEF MediaAfter
  <2>4. s.pos \notin MediaAfter(s, off) BY <1>2 DEF MediaAfter
  <2>5. IsFiniteSet(MediaAfter(s, off))
    <3>1. MediaAfter(s, off) \subseteq DOMAIN s.disk BY DEF MediaAfter
    <3>2. Typed(s) /\ Below(s) BY DEF Sound, Good
    <3> QED BY <3>1, <3>2, DiskFinite
  <2> HIDE DEF off
  <2>6. Cardinality(MediaAfter(w, off)) = Cardinality(MediaAfter(s, off)) + 1
    BY <2>3, <2>4, <2>5, FS_AddElement
  <2> QED BY <2>1, <2>2, <2>6
<1> QED BY <1>6, <1>7, <1>8

\* A side-band chunk is no packet.
LEMMA SidePlacedCounts ==
  ASSUME NEW s, Sound(s), NEW cell, cell.id # "data", NEW w, Placed(s, w, cell),
         CountsKept(s, w)
  PROVE  Counts(w)
<1>1. /\ DOMAIN w.disk = DOMAIN s.disk \cup {s.pos} /\ w.disk[s.pos] = cell
      /\ \A at \in DOMAIN s.disk : w.disk[at] = s.disk[at] /\ at # s.pos
  BY DEF Placed
<1>2. \A t : DataOf(w, t) = DataOf(s, t) BY <1>1 DEF DataOf
<1>3. \A t : \A at \in DataOf(s, t) : w.disk[at] = s.disk[at] BY <1>1 DEF DataOf
<1>4. \A at \in DOMAIN w.disk : w.disk[at].id = "data" => w.disk[at].trk \in Streams
  BY <1>1 DEF Sound, Counts
<1> QED BY <1>2, <1>3, <1>4 DEF Sound, Counts, CountsKept

\* A packet is one more of its stream.
LEMMA PacketPlacedCounts ==
  ASSUME NEW s, Sound(s), NEW p \in Packets, NEW w, Placed(s, w, PacketCell(p)),
         CountsOf(s, w, p)
  PROVE  Counts(w)
<1> DEFINE cell == PacketCell(p)
<1>1. /\ DOMAIN w.disk = DOMAIN s.disk \cup {s.pos} /\ w.disk[s.pos] = cell
      /\ \A at \in DOMAIN s.disk : w.disk[at] = s.disk[at] /\ at # s.pos
  BY DEF Placed
<1>2. cell.id = "data" /\ cell.trk = p.trk /\ cell.len = p.len /\ p.trk \in Streams
      /\ p.len \in Nat
  BY PacketCellMedia
<1> HIDE DEF cell
<1>3. ASSUME NEW t \in Streams
      PROVE  /\ w.tracks[t].packet_count = Cardinality(DataOf(w, t))
             /\ \A at \in DataOf(w, t) : w.disk[at].len <= w.tracks[t].max_chunk_size
  <2>1. /\ s.tracks[t].packet_count = Cardinality(DataOf(s, t))
        /\ \A at \in DataOf(s, t) : s.disk[at].len <= s.tracks[t].max_chunk_size
    BY DEF Sound, Counts
  <2>2. \A at \in DataOf(s, t) : w.disk[at] = s.disk[at] BY <1>1 DEF DataOf
  <2>3. CASE t # p.trk
    <3>1. DataOf(w, t) = DataOf(s, t) BY <1>1, <1>2, <2>3 DEF DataOf
    <3> QED BY <2>1, <2>2, <2>3, <3>1 DEF CountsOf
  <2>4. CASE t = p.trk
    <3>1. DataOf(w, t) = DataOf(s, t) \cup {s.pos} BY <1>1, <1>2, <2>4 DEF DataOf
    <3>2. s.pos \notin DataOf(s, t) BY <1>1 DEF DataOf
    <3>3. IsFiniteSet(DataOf(s, t))
      <4>1. DataOf(s, t) \subseteq DOMAIN s.disk BY DEF DataOf
      <4>2. Typed(s) /\ Below(s) BY DEF Sound, Good
      <4> QED BY <4>1, <4>2, DiskFinite
    <3>4. Cardinality(DataOf(w, t)) = Cardinality(DataOf(s, t)) + 1
      BY <3>1, <3>2, <3>3, FS_AddElement
    <3>5. /\ w.tracks[t].packet_count = s.tracks[t].packet_count + 1
          /\ w.tracks[t].max_chunk_size = MaxOf(s.tracks[t].max_chunk_size, p.len)
      BY <2>4 DEF CountsOf
    <3>6. s.tracks[t].max_chunk_size \in Nat
      <4>1. s.tracks[t] \in TrackState BY DEF Sound, Good, Typed, MuxerRecord
      <4> QED BY <4>1 DEF TrackState
    <3>7. /\ p.len <= w.tracks[t].max_chunk_size
          /\ s.tracks[t].max_chunk_size <= w.tracks[t].max_chunk_size
          /\ w.tracks[t].max_chunk_size \in Nat
      BY <1>2, <3>5, <3>6 DEF MaxOf
    <3>8. ASSUME NEW at \in DataOf(w, t)
          PROVE  w.disk[at].len <= w.tracks[t].max_chunk_size
      <4>1. CASE at = s.pos BY <1>1, <1>2, <3>7, <4>1
      <4>2. CASE at \in DataOf(s, t)
        <5>1. s.disk[at] \in CellType
          BY <4>2 DEF DataOf, Sound, Good, Typed, DiskOK
        <5>2. s.disk[at].len \in Nat BY <5>1 DEF CellType
        <5> QED BY <2>1, <2>2, <3>6, <3>7, <4>2, <5>2
      <4> QED BY <3>1, <4>1, <4>2
    <3> QED BY <2>1, <3>4, <3>5, <3>8
  <2> QED BY <2>3, <2>4
<1>4. \A at \in DOMAIN w.disk : w.disk[at].id = "data" => w.disk[at].trk \in Streams
  BY <1>1, <1>2 DEF Sound, Counts
<1> QED BY <1>3, <1>4 DEF Counts

\* The chunk of a side-band writer.
LEMMA PlaceSideSound ==
  ASSUME NEW s, Sound(s), NEW cell, IsMedia(cell), cell.id # "data",
         NEW w, w = PlaceChunk(s, s.pos, cell, NoField2), opts \in Options
  PROVE  Sound(w)
<1>1. Good(s) /\ NoField2 \in Nat \cup {NoField2} BY DEF Sound
<1>2. Good(w) BY <1>1, PlaceChunkGood
<1>3. PICK f2 \in Nat \cup {NoField2} : w = PlaceChunk(s, s.pos, cell, f2)
  BY <1>1
<1>4. /\ Placed(s, w, cell) /\ Listed(s, w, cell) /\ Only(s, w, PlaceFields)
      /\ CountsKept(s, w)
      /\ Clustering => /\ w.rec_packets = s.rec_packets + 1
                       /\ w.rec_bytes = s.rec_bytes + 8 + Pad(cell.len)
  BY <1>1, <1>3, PlaceChunkStep
<1>5. Only(s, w, PlacedFields) BY <1>4, OnlyMore DEF PlacedFields
<1>6. Indexed(w) /\ Aligned(w) /\ Accounted(w)
  BY <1>2, <1>4, <1>5, PlacedSound
<1>7. Counts(w) BY <1>4, SidePlacedCounts
<1> QED BY <1>2, <1>6, <1>7 DEF Sound

\* The chunk of packet p, at an aligned position.
LEMMA PlacePacketSound ==
  ASSUME NEW s, Sound(s), NEW p \in Packets, NEW w, w = PlacePacket(s, s.pos, p),
         opts.granularity > 0 => s.pos % opts.granularity = 0, opts \in Options
  PROVE  Sound(w)
<1> DEFINE cell == PacketCell(p)
<1>1. Good(s) BY DEF Sound
<1>2. Good(w) BY <1>1, PlacePacketGood
<1>3. /\ Placed(s, w, cell) /\ Listed(s, w, cell) /\ Only(s, w, PlacedFields)
      /\ CountsOf(s, w, p)
      /\ Clustering => /\ w.rec_packets = s.rec_packets + 1
                       /\ w.rec_bytes = s.rec_bytes + 8 + Pad(cell.len)
  BY <1>1, PlacePacketStep DEF PlacedFields
<1>4. IsMedia(cell) BY PacketCellMedia
<1>5. Counts(w) BY <1>3, PacketPlacedCounts
<1> HIDE DEF cell
<1>6. Indexed(w) /\ Aligned(w) /\ Accounted(w)
  BY <1>2, <1>3, <1>4, PlacedSound
<1> QED BY <1>2, <1>5, <1>6 DEF Sound

\* The mid-movi flush, once the cluster is closed.
LEMMA MidMoviFlushSound ==
  ASSUME NEW s, Sound(s), s.ok, NEW t \in Streams, NEW w, w = MidMoviFlush(s, t)
  PROVE  Sound(w)
<1> DEFINE c == CloseRecCluster(s)
           f == FlushIxForTrack(c, t)
<1>1. w \in {s, c, f}
  <2>1. w = s \/ w = Then(c, f) BY DEF MidMoviFlush
  <2> HIDE DEF c, f
  <2> QED BY <2>1 DEF Then
<1>2. Good(c) /\ c.rec_open_size_off = NoList
  <2>1. Good(s) BY DEF Sound
  <2> QED BY <2>1, CloseRecClusterGood
<1>3. Sound(c) BY CloseRecClusterSound
<1> HIDE DEF c
<1>4. Good(f) /\ IxFlush(c, f) BY <1>2, FlushIxForTrackGood, FlushIxForTrackStep
<1> HIDE DEF f
<1>5. Neutral(c, f) BY <1>2, <1>4, FlushNeutral
<1>6. Sound(f) BY <1>3, <1>4, <1>5, NeutralSound
<1> QED BY <1>1, <1>3, <1>6

\* The 2 GiB test.
LEMMA CheckCeilingSound ==
  ASSUME NEW s, Sound(s), NEW w, w = CheckCeiling(s)
  PROVE  Sound(w)
<1>1. w = s \/ w = SetOk(s, FALSE)
  BY DEF CheckCeiling, SetOk
<1>2. Sound(SetOk(s, FALSE)) BY SetOkSound
<1> QED BY <1>1, <1>2

-----------------------------------------------------------------------------
(* write_trailer and write_header                                          *)

LEMMA PatchPostCountsSound ==
  ASSUME NEW s, Sound(s), NEW w, w = PatchPostCounts(s)
  PROVE  Sound(w)
<1>1. Good(s) /\ Typed(s) BY DEF Sound, Good
<1>2. Only(s, w, {"stamp"}) BY <1>1, PatchPostCountsStep
<1>3. CountsKept(s, w) BY <1>2, SameTracks DEF Only, Fields
<1>4. Neutral(s, w) BY <1>1, <1>2, <1>3, SilentNeutral
<1>5. Good(w) BY <1>1, PatchPostCountsGood
<1> QED BY <1>4, <1>5, NeutralSound

LEMMA PatchIndxSound ==
  ASSUME NEW s, Sound(s), NEW w, w = PatchIndx(s), opts \in Options
  PROVE  Sound(w)
<1>1. Good(s) /\ Typed(s) BY DEF Sound, Good
<1>2. Only(s, w, {"tracks"}) /\ CountsKept(s, w) BY <1>1, PatchIndxStep
<1>3. Neutral(s, w) BY <1>1, <1>2, SilentNeutral
<1>4. Good(w) BY <1>1, PatchIndxGood
<1> QED BY <1>3, <1>4, NeutralSound

LEMMA ConcludeSound ==
  ASSUME NEW s, Sound(s), NEW w, w = Conclude(s)
  PROVE  Sound(w)
<1>1. Good(s) /\ Typed(s) BY DEF Sound, Good
<1>2. Only(s, w, {"over_budget", "ok", "trailer_written"}) BY <1>1, ConcludeStep
<1>3. CountsKept(s, w) BY <1>2, SameTracks DEF Only, Fields
<1>4. Neutral(s, w) BY <1>1, <1>2, <1>3, SilentNeutral
<1>5. Good(w) BY <1>1, ConcludeGood
<1> QED BY <1>4, <1>5, NeutralSound

\* write_header puts LIST movi where idx1 offsets are taken from.
LEMMA HeaderSound ==
  ASSUME NEW s, Early(s), NEW w, w = HeaderState(s), opts \in Options
  PROVE  Sound(w)
<1>1. Fresh(s) /\ s.index = <<>> BY DEF Early
<1>2. Good(w) BY <1>1, HeaderGood
<1>3. /\ Only(s, w, {"disk", "pos"} \cup HeaderFields)
      /\ Writes(s, w, {}, {"RIFF", "hdrl", "movi"})
      /\ w.movi_size_off = 16 + opts.hdrl
      /\ w.rec_open_size_off = NoList
  BY <1>1, HeaderStep
<1>4. w.index = <<>> /\ w.tracks = s.tracks BY <1>1, <1>3 DEF Only, Fields, HeaderFields
<1>5. DOMAIN w.index = {} BY <1>4
<1>6. Indexed(w) BY <1>3, <1>5 DEF Indexed
<1>7. \A at \in DOMAIN w.disk : w.disk[at].id # "data"
  BY <1>1, <1>3 DEF Writes, Fresh
<1>8. \A t : DataOf(w, t) = {} BY <1>7 DEF DataOf
<1>9. \A t \in Streams : w.tracks[t].packet_count = Cardinality(DataOf(w, t))
  BY <1>4, <1>8, FS_EmptySet DEF Early
<1>10. Counts(w) BY <1>7, <1>8, <1>9 DEF Counts
<1> QED BY <1>2, <1>3, <1>6, <1>7, <1>10 DEF Sound, Aligned, Accounted

-----------------------------------------------------------------------------
(* The specification                                                       *)

SInv ==
  /\ opts \in Options
  /\ Sound(m) \/ Early(m)

\* The options never change, so the invariant of the next state is that of m'
\* under the same options.
LEMMA SoundPrimed ==
  ASSUME opts' = opts
  PROVE  Sound(m') <=> Sound(m)'
<1>1. Indexed(m') <=> Indexed(m)'
  BY DEF Indexed, Stands, Target, PrimaryMoviStart, InPrimary
<1>2. Aligned(m') <=> Aligned(m)' BY DEF Aligned
<1>3. Accounted(m') <=> Accounted(m)'
  BY DEF Accounted, Clustering, MediaAfter, MediaIds
<1>4. Counts(m') <=> Counts(m)' BY DEF Counts, DataOf
<1>5. Good(m') <=> Good(m)' BY DEF Good
<1> QED BY <1>1, <1>2, <1>3, <1>4, <1>5 DEF Sound

LEMMA SoundNext ==
  ASSUME opts' = opts, opts \in Options, Sound(m') \/ Early(m')
  PROVE  SInv'
<1>1. Early(m') <=> Early(m)' BY DEF Early
<1> QED BY <1>1, SoundPrimed DEF SInv

\* open_avi
LEMMA InitSInv == Init => SInv
<1> SUFFICES ASSUME Init PROVE SInv
  OBVIOUS
<1>1. IInv BY InitIInv
<1>2. ~m.header_written /\ m.index = <<>> /\ m.segments = <<>>
      /\ m.tracks = [t \in Streams |-> NewTrack]
  BY Zenon DEF Init
<1>3. Fresh(m) BY <1>1, <1>2 DEF IInv, Good
<1>4. \A t \in Streams : m.tracks[t].packet_count = 0
  BY <1>2 DEF NewTrack
<1> QED BY <1>1, <1>2, <1>3, <1>4 DEF IInv, SInv, Early

\* write_header
LEMMA WriteHeaderSInv ==
  ASSUME SInv, WriteHeader
  PROVE  SInv'
<1>1. Early(m) BY DEF SInv, Sound, WriteHeader, Good
<1>2. m' = HeaderState(m)
  BY DEF WriteHeader, HeaderState, SetHeader
<1>3. Sound(m') BY <1>1, <1>2, HeaderSound DEF SInv
<1>4. opts' = opts /\ opts \in Options BY DEF SInv, WriteHeader
<1> QED BY <1>3, <1>4, SoundNext

\* write_packet
LEMMA WritePacketSInv ==
  ASSUME SInv, NEW p \in Packets, WritePacket(p)
  PROVE  SInv'
<1> DEFINE s0 == SetOk(m, TRUE)
           s1 == Roll(s0, p.len)
           s2 == Then(s1, Cluster(s1, p.len))
           s3 == Then(s2, EmitPaddingJunk(s2))
           s4 == Then(s3, PlacePacket(s3, s3.pos, p))
           s5 == Then(s4, MidMoviFlush(s4, p.trk))
           s6 == Then(s5, CheckCeiling(s5))
<1>1. m' = s6
  BY PacketSteps
<1>2. opts \in Options /\ p.trk \in Streams BY MuxerAssumption DEF SInv
<1>3. Sound(s0) /\ s0.ok
  <2>1. Sound(m) BY DEF SInv, WritePacket, Early, Fresh
  <2>2. Typed(m) BY <2>1 DEF Sound, Good
  <2> QED BY <2>1, <2>2, SetOkSound, OkTyped
<1> HIDE DEF s0
<1>4. Sound(s1) BY <1>3, RollSound
<1> HIDE DEF s1
<1>5. Sound(s2) BY <1>2, <1>4, ClusterSound DEF Then
<1> HIDE DEF s2
<1>6. /\ Sound(s3)
      /\ s3.ok => (opts.granularity > 0 => s3.pos % opts.granularity = 0)
  BY <1>2, <1>5, EmitPaddingJunkSound DEF Then
<1> HIDE DEF s3
<1>7. Sound(s4) BY <1>2, <1>6, PlacePacketSound DEF Then
<1> HIDE DEF s4
<1>8. Sound(s5) BY <1>2, <1>7, MidMoviFlushSound DEF Then
<1> HIDE DEF s5
<1>9. Sound(s6) BY <1>8, CheckCeilingSound DEF Then
<1>10. opts' = opts BY DEF WritePacket
<1> QED BY <1>1, <1>2, <1>9, <1>10, SoundNext

\* write_text_chunk and write_palette_change
LEMMA WriteSidebandChunkSInv ==
  ASSUME SInv, NEW c \in SideChunks, WriteSidebandChunk(c)
  PROVE  SInv'
<1> DEFINE cell == Cell(c.kind, c.trk, c.len)
           s0 == SetOk(m, TRUE)
           s1 == Roll(s0, c.len)
           s2 == Then(s1, Cluster(s1, c.len))
           s3 == Then(s2, PlaceChunk(s2, s2.pos, cell, NoField2))
<1>1. m' = s3
  BY DEF WriteSidebandChunk, SetOk
<1>2. IsMedia(cell) /\ cell.id # "data" BY SideCellMedia
<1> HIDE DEF cell
<1>3. Sound(s0) /\ s0.ok
  <2>1. Sound(m) BY DEF SInv, WriteSidebandChunk, Early, Fresh
  <2>2. Typed(m) BY <2>1 DEF Sound, Good
  <2> QED BY <2>1, <2>2, SetOkSound, OkTyped
<1> HIDE DEF s0
<1>4. Sound(s1) BY <1>3, RollSound
<1> HIDE DEF s1
<1>5. opts \in Options BY DEF SInv
<1>6. Sound(s2) BY <1>4, <1>5, ClusterSound DEF Then
<1> HIDE DEF s2
<1>7. Sound(s3) BY <1>2, <1>5, <1>6, PlaceSideSound DEF Then
<1>8. opts' = opts BY DEF WriteSidebandChunk
<1> QED BY <1>1, <1>5, <1>7, <1>8, SoundNext

\* write_trailer
LEMMA WriteTrailerSInv ==
  ASSUME SInv, WriteTrailer
  PROVE  SInv'
<1> DEFINE s0 == SetOk(m, TRUE)
           s1 == CloseRecCluster(s0)
           s2 == IF OpenDml /\ ~s1.strl_std_active THEN FlushIxChunks(s1) ELSE s1
           s3 == Then(s1, FinishSegment(s2))
           s4 == PatchPostCounts(s3)
           s5 == PatchIndx(s4)
           s6 == Conclude(s5)
           s7 == Then(s3, s6)
<1>1. m' = s7 /\ opts' = opts
  BY DEF WriteTrailer, SetOk
<1>2. Sound(s0) /\ s0.ok
  <2>1. Sound(m) BY DEF SInv, WriteTrailer, Early, Fresh
  <2>2. Typed(m) BY <2>1 DEF Sound, Good
  <2> QED BY <2>1, <2>2, SetOkSound, OkTyped
<1> HIDE DEF s0
<1>3. Sound(s1) /\ s1.rec_open_size_off = NoList
  <2>1. Good(s0) BY <1>2 DEF Sound
  <2> QED BY <1>2, <2>1, CloseRecClusterSound, CloseRecClusterGood
<1> HIDE DEF s1
<1>4. Sound(s2) /\ s2.rec_open_size_off = NoList /\ s2.ok = s1.ok
  BY <1>3, FlushIxChunksSound
<1> HIDE DEF s2
<1>5. Sound(s3) BY <1>3, <1>4, FinishSegmentSound DEF Then
<1> HIDE DEF s3
<1>6. Sound(s4) BY <1>5, PatchPostCountsSound
<1> HIDE DEF s4
<1>7. Sound(s5) BY <1>6, PatchIndxSound DEF SInv
<1> HIDE DEF s5
<1>8. Sound(s6) BY <1>7, ConcludeSound
<1> HIDE DEF s6
<1>9. Sound(s7) BY <1>5, <1>8 DEF Then
<1>10. opts \in Options BY DEF SInv
<1> QED BY <1>1, <1>9, <1>10, SoundNext

\* The calls that write nothing.
LEMMA LightSInv ==
  ASSUME SInv,
         \/ \E off \in Field2Offs : SetField2Offset(off)
         \/ EarlyReturn
         \/ UNCHANGED vars
  PROVE  SInv'
<1>1. ASSUME NEW F, Only(m, m', F), F \subseteq {"ok", "pending_field2"}, Typed(m')
      PROVE  Sound(m') \/ Early(m')
  <2>1. /\ m'.disk = m.disk /\ m'.pos = m.pos /\ m'.tracks = m.tracks
        /\ m'.index = m.index /\ m'.segments = m.segments
        /\ m'.header_written = m.header_written
        /\ m'.rec_open_size_off = m.rec_open_size_off
        /\ m'.riff_size_off = m.riff_size_off /\ m'.movi_size_off = m.movi_size_off
        /\ m'.rec_open_idx1_slot = m.rec_open_idx1_slot
    BY <1>1 DEF Only, Fields
  <2>2. CASE Sound(m)
    <3>1. Good(m) /\ Typed(m) BY <2>2 DEF Sound, Good
    <3>2. SameFields(m, m') BY <2>1 DEF SameFields, Near
    <3>3. Good(m') BY <1>1, <2>1, <3>1, <3>2, GoodSameDisk
    <3>4. CountsKept(m, m') BY <2>1, SameTracks
    <3>5. Neutral(m, m') BY <1>1, <3>1, <3>4, SilentNeutral
    <3> QED BY <2>2, <3>3, <3>5, NeutralSound
  <2>3. CASE Early(m) BY <1>1, <2>1, <2>3 DEF Early, Fresh
  <2> QED BY <2>2, <2>3 DEF SInv
<1>2. Typed(m) BY DEF SInv, Sound, Early, Good, Fresh
<1>3. ASSUME NEW off \in Field2Offs, SetField2Offset(off) PROVE SInv'
  <2>1. m' = SetPending(m, off) /\ opts' = opts
    BY <1>3 DEF SetField2Offset, SetPending
  <2>2. off \in Nat \cup {NoField2} BY MuxerAssumption
  <2>3. Typed(m') BY <1>2, <2>1, <2>2, PendingTyped
  <2>4. Only(m, m', {"pending_field2"})
    BY <1>2, <2>1 DEF Typed, MuxerRecord, SetPending, Only, Fields
  <2>5. opts \in Options BY DEF SInv
  <2> QED BY <1>1, <2>1, <2>3, <2>4, <2>5, SoundNext
<1>4. ASSUME EarlyReturn PROVE SInv'
  <2>1. PICK b \in BOOLEAN : m' = SetOk(m, b)
    BY <1>4 DEF EarlyReturn, SetOk
  <2>2. Typed(m') BY <1>2, <2>1, OkTyped
  <2>3. Only(m, m', {"ok"})
    BY <1>2, <2>1 DEF Typed, MuxerRecord, SetOk, Only, Fields
  <2>4. opts' = opts BY <1>4 DEF EarlyReturn
  <2>5. opts \in Options BY DEF SInv
  <2> QED BY <1>1, <2>2, <2>3, <2>4, <2>5, SoundNext
<1>5. ASSUME UNCHANGED vars PROVE SInv'
  BY <1>5, SoundNext DEF vars, SInv
<1> QED BY <1>3, <1>4, <1>5

\* SInv is an invariant of the muxer.
THEOREM SoundAlways == Spec => []SInv
<1>1. SInv /\ [Next]_vars => SInv'
  BY WriteHeaderSInv, WritePacketSInv, WriteSidebandChunkSInv, WriteTrailerSInv,
     LightSInv DEF Next
<1> QED BY <1>1, InitSInv, PTL DEF Spec

\* Every idx1 entry, those of LIST rec clusters included, names the chunk whose
\* header stands where the entry says, whatever was rolled, aligned or
\* clustered before, and whichever call failed.
THEOREM Idx1EntriesResolve == Spec => []Idx1Resolves
<1>1. SInv => Idx1Resolves
  <2> SUFFICES ASSUME SInv PROVE Idx1Resolves
    OBVIOUS
  <2>1. CASE Sound(m)
    BY <2>1 DEF Sound, Indexed, Stands, Target, Idx1Resolves, Resolves
  <2>2. CASE Early(m)
    BY <2>2 DEF Early, Idx1Resolves
  <2> QED BY <2>1, <2>2 DEF SInv
<1> QED BY <1>1, SoundAlways, PTL

\* The body of the open LIST rec  is the bytes rec_bytes counts and holds the
\* packets and side-band chunks rec_packets counts.
THEOREM ClustersAccounted == Spec => []ClusterAccounting
<1>1. SInv => ClusterAccounting
  <2> SUFFICES ASSUME SInv PROVE ClusterAccounting
    OBVIOUS
  <2>1. CASE Sound(m)
    <3>1. {at \in Chunks(m, MediaIds) : at > m.rec_open_size_off}
            = MediaAfter(m, m.rec_open_size_off)
      BY DEF Chunks, MediaAfter
    <3> QED BY <2>1, <3>1 DEF Sound, Accounted, ClusterAccounting
  <2>2. CASE Early(m)
    BY <2>2 DEF Early, Fresh, ClusterAccounting
  <2> QED BY <2>1, <2>2 DEF SInv
<1> QED BY <1>1, SoundAlways, PTL

\* Under padding_granularity every packet's header stands on a multiple of it.
THEOREM PacketsStayAligned == Spec => []PacketsAligned
<1>1. SInv => PacketsAligned
  <2> SUFFICES ASSUME SInv PROVE PacketsAligned
    OBVIOUS
  <2>1. CASE Sound(m)
    BY <2>1 DEF Sound, Aligned, PacketsAligned, Chunks
  <2>2. CASE Early(m)
    BY <2>2 DEF Early, Fresh, PacketsAligned, Chunks
  <2> QED BY <2>1, <2>2 DEF SInv
<1> QED BY <1>1, SoundAlways, PTL
=============================================================================
