------------------------------- MODULE AviMuxer -------------------------------
(***************************************************************************)
(* The AVI muxer of src/muxer.rs: `open_avi` followed by `write_header`,   *)
(* `write_packet`, the side-band writers and `write_trailer`.              *)
(*                                                                         *)
(* The variable m is the `AviMuxer` struct together with its output.  The  *)
(* output is byte-accurate in its layout (every offset and every size      *)
(* field is the number the code computes) and abstract in its contents:    *)
(* disk maps the offset of each RIFF chunk header to a cell that says      *)
(* what the chunk is.  Each private method of the struct is an operator    *)
(* from muxer states to muxer states; each public method is an action.     *)
(***************************************************************************)
EXTENDS Integers, Sequences, FiniteSets, FiniteSetsExt, Functions

CONSTANTS
  NumStreams,   \* streams handed to open_avi, numbered from 0
  StreamType,   \* strh.fccType of each stream: "vids" or "auds"
  SampleSize,   \* strh.dwSampleSize of each stream, 0 for VBR audio and video
  Options,      \* the configurations (AviKind and AviMuxOptions) considered
  Packets,      \* the packets a caller may write: [trk, len, dur, key]
  SideChunks,   \* the NNtx / NNpc chunks a caller may write: [trk, kind, len]
  Field2Offs,   \* the values passed to set_field2_offset
  DwMax,        \* u32::MAX
  TwoGiB,       \* 2 GiB, the AVI 1.0 file ceiling
  UsPerSec,     \* 1 000 000
  UsPerFrame,   \* dwMicroSecPerFrame of the first video stream
  MaxChunks,    \* bound: packets and side-band chunks written in a behaviour
  MaxTrailers,  \* bound: calls of write_trailer
  Disciplined   \* TRUE: the caller writes no more once a call has failed, and
                \* stops once write_trailer has returned

Streams == 0 .. NumStreams - 1

MinLimit == 4096             \* floor of RiffSegmentLimit::Bytes
SuperEntry == 16             \* bytes of an _avisuperindex_entry
MinSuperCapacity == 16
DefaultSuperCapacity == 256
Headroom == 1024             \* kept free below 2 GiB in AVI 1.0 mode

(***************************************************************************)
(* A configuration.  hdrl is the length of everything write_header lays    *)
(* down between the outer RIFF preamble and LIST movi, its size depending  *)
(* on options no later step looks at.  0 stands for None throughout.       *)
(***************************************************************************)
Config ==
  [ kind : {"Avi10", "OpenDml"},
    limit : Nat,                    \* RiffSegmentLimit::Bytes(limit)
    hdrl : {n \in Nat : n >= 8 /\ n % 2 = 0},
    super : Nat,                    \* super_index_capacity
    strl_std : Nat,                 \* strl_std_index_capacity
    mid : [Streams -> Nat],         \* mid_movi_index_streams
    field2 : SUBSET Streams,        \* field2_streams
    rec_packets : Nat,              \* rec_cluster_packets
    rec_bytes : Nat,                \* rec_cluster_bytes
    granularity : Nat,              \* padding_granularity
    synth : BOOLEAN,                \* synthesise_idx1_from_ix
    cap : [Streams -> Nat],         \* per_stream_max_bytes_per_sec
    strict : BOOLEAN ]              \* strict_per_stream_budget

ASSUME MuxerAssumption ==
  /\ NumStreams \in 1 .. 99
  /\ StreamType \in [Streams -> {"vids", "auds"}]
  /\ SampleSize \in [Streams -> Nat]
  /\ Options \subseteq Config
  /\ \A o \in Options : o.granularity % 2 = 0  \* a power of two from 2 on, or None
  /\ Packets \subseteq [trk : Streams, len : Nat, dur : Nat, key : BOOLEAN]
  /\ SideChunks \subseteq [trk : Streams, kind : {"tx", "pc"}, len : Nat]
  /\ Field2Offs \subseteq Nat
  /\ DwMax \in Nat /\ TwoGiB \in Nat /\ UsPerSec \in Nat /\ UsPerFrame \in Nat
  /\ MaxChunks \in Nat /\ MaxTrailers \in Nat
  /\ Disciplined \in BOOLEAN

VARIABLES
  opts,     \* the configuration chosen at open_avi, never changed after
  m,        \* the AviMuxer and its output
  trailers  \* calls of write_trailer that got past its early returns

vars == <<opts, m, trailers>>

MaxOf(a, b) == IF a > b THEN a ELSE b

-----------------------------------------------------------------------------
(* Cells of the output                                                     *)

NoTrack == -1

\* A chunk header on disk.  len is its size field; key, base and ents stand
\* for the part of the body that matters: the keyframe flag of a packet, the
\* qwBaseOffset and the entries of an index chunk.
Cell(id, trk, len) ==
  [id |-> id, trk |-> trk, len |-> len, key |-> FALSE, base |-> 0, ents |-> <<>>]

ListIds == {"RIFF", "movi", "rec"}
MediaIds == {"data", "tx", "pc"}

\* f with f[x] = v, x in its domain or not.
Put(f, x, v) == [y \in DOMAIN f \cup {x} |-> IF y = x THEN v ELSE f[y]]

\* Mutant: no pad byte after an odd body.
NoPad(n) == n

\* The word pad of RIFF.
Pad(n) == n + (n % 2)

\* write_chunk: header, body and word pad at the output's position.
WriteChunk(s, cell) ==
  [s EXCEPT !.disk = Put(@, s.pos, cell), !.pos = @ + 8 + Pad(cell.len)]

\* begin_list: the size field is 0 until FinishList patches it.
BeginList(s, id) ==
  [s EXCEPT !.disk = Put(@, s.pos, Cell(id, NoTrack, 0)), !.pos = @ + 12]

\* finish_chunk: patch the size field at size_off, or fail when the body
\* outgrew 32 bits.  (A list header is 4 bytes before its size field.)
FinishList(s, size_off) ==
  LET body == s.pos - (size_off + 4) IN
  IF body > DwMax
  THEN [s EXCEPT !.ok = FALSE]
  ELSE [s EXCEPT !.disk[size_off - 4].len = body, !.pos = @ + (body % 2)]

\* The `?` operator: go on with f only if s is not an error.
Then(s, t) == IF s.ok THEN t ELSE s

-----------------------------------------------------------------------------
(* State                                                                   *)

OpenDml == opts.kind = "OpenDml"

NoField2 == -1    \* pending_field2_offset = None
NoSlot == 0       \* rec_open_idx1_slot = None (index is 1-based here)
NoList == 0       \* rec_open_size_off = None (no size field is at offset 0)
NoPos == -1       \* cached_pos = None

NoIndx == [kind |-> "none", base |-> 0, ents |-> <<>>]

NewTrack ==
  [ packet_count |-> 0, sample_count |-> 0, max_chunk_size |-> 0,
    total_bytes |-> 0, ix_entries |-> <<>>, ix_chunk_records |-> <<>>,
    ticks_at_last_ix_flush |-> 0, indx |-> NoIndx ]

NoStamp == [frames |-> 0, buffer |-> 0, length |-> [t \in Streams |-> 0]]

\* The compact layout is for single-segment OpenDML files without inline ix##.
StrlStdRequested(o) ==
  o.kind = "OpenDml" /\ o.strl_std > 0 /\ \A t \in Streams : o.mid[t] = 0

\* open_avi
Init ==
  /\ opts \in Options
  /\ m = [ ok |-> TRUE, header_written |-> FALSE, trailer_written |-> FALSE,
           pos |-> 0, disk |-> <<>>, riff_size_off |-> 0, movi_size_off |-> 0,
           rec_open_size_off |-> NoList, rec_open_idx1_slot |-> NoSlot,
           rec_packets |-> 0, rec_bytes |-> 0, segment_packets |-> 0,
           segments |-> <<>>, index |-> <<>>, snapshot |-> <<>>,
           pending_field2 |-> NoField2,
           strl_std_active |-> StrlStdRequested(opts),
           tracks |-> [t \in Streams |-> NewTrack],
           over_budget |-> {}, stamp |-> NoStamp ]
  /\ trailers = 0

\* Offset of the "movi" form type, the base of every idx1 offset; the first
\* chunk header follows it and is the qwBaseOffset of the ix## chunks.
MoviStart(s) == s.movi_size_off + 4
QwBase(s) == MoviStart(s) + 4

InPrimary(s) == s.segments = <<>>

EntrySize(t) == IF t \in opts.field2 THEN 12 ELSE 8

SuperCapacity ==
  IF opts.super >= MinSuperCapacity THEN opts.super ELSE DefaultSuperCapacity

\* Bytes reserved for the entries of a stream's indx at write_header time.
IndxBytes(t) ==
  IF StrlStdRequested(opts) THEN opts.strl_std * EntrySize(t)
                            ELSE SuperCapacity * SuperEntry

-----------------------------------------------------------------------------
(* LIST rec  clusters                                                      *)

Clustering == opts.rec_packets > 0 \/ opts.rec_bytes > 0

\* open_rec_cluster: the cluster's own idx1 entry has size 0 until it closes.
OpenRecCluster(s) ==
  LET rel == s.pos - MoviStart(s)
      listed == InPrimary(s) /\ rel <= DwMax
      entry == [id |-> "rec", trk |-> NoTrack, off |-> rel, len |-> 0, key |-> FALSE]
  IN [BeginList(s, "rec") EXCEPT
        !.rec_open_size_off = s.pos + 4, !.rec_packets = 0, !.rec_bytes = 0,
        !.rec_open_idx1_slot = IF listed THEN Len(s.index) + 1 ELSE NoSlot,
        !.index = IF listed THEN Append(@, entry) ELSE @]

\* Mutant: the cluster is closed without taking rec_open_size_off.
CloseRecClusterKeepsOpen(s) ==
  LET f == FinishList(s, s.rec_open_size_off)
  IN IF s.rec_open_size_off = NoList THEN s
     ELSE Then(f, [f EXCEPT !.rec_open_idx1_slot = NoSlot,
                            !.rec_packets = 0, !.rec_bytes = 0])

\* close_rec_cluster
CloseRecCluster(s) ==
  LET off == s.rec_open_size_off
      slot == s.rec_open_idx1_slot
      f == FinishList([s EXCEPT !.rec_open_size_off = NoList], off)
  IN IF off = NoList THEN s
     ELSE Then(f, [f EXCEPT
            !.index = IF slot = NoSlot THEN @
                      ELSE [@ EXCEPT ![slot].len = s.pos - (off + 4)],
            !.rec_open_idx1_slot = NoSlot, !.rec_packets = 0, !.rec_bytes = 0])

\* needs_close_for_packets or needs_close_for_bytes.
ClusterFull(s, len) ==
  \/ opts.rec_packets > 0 /\ s.rec_packets >= opts.rec_packets
  \/ /\ opts.rec_bytes > 0
     /\ s.rec_packets > 0
     /\ s.rec_bytes + 8 + Pad(len) > opts.rec_bytes

\* The cluster step shared by write_packet and write_sideband_chunk.
Cluster(s, len) ==
  LET c == CloseRecCluster(s)
  IN IF ~Clustering THEN s
     ELSE IF s.rec_open_size_off = NoList THEN OpenRecCluster(s)
     ELSE IF ClusterFull(s, len) THEN Then(c, OpenRecCluster(c))
     ELSE s

-----------------------------------------------------------------------------
(* Standard indexes and segments                                           *)

\* The ix## chunk that holds a track's pending entries, and its record.
IxCell(s, t) ==
  LET entries == s.tracks[t].ix_entries IN
  [Cell("ix", t, 24 + Len(entries) * EntrySize(t)) EXCEPT
     !.base = QwBase(s), !.ents = entries]

IxRecordOf(s, t) ==
  [at |-> s.pos, size |-> 8 + IxCell(s, t).len,
   dur |-> s.tracks[t].sample_count - s.tracks[t].ticks_at_last_ix_flush]

\* Mutant: the entries are written but stay pending.
FlushIxKeepsEntries(s, t) ==
  IF s.tracks[t].ix_entries = <<>> THEN s
  ELSE WriteChunk([s EXCEPT !.tracks[t].ix_chunk_records = Append(@, IxRecordOf(s, t)),
                            !.tracks[t].ticks_at_last_ix_flush = s.tracks[t].sample_count],
                  IxCell(s, t))

\* Mutant: the record is taken after the chunk has been written.
FlushIxRecordsLate(s, t) ==
  LET w == WriteChunk(s, IxCell(s, t)) IN
  IF s.tracks[t].ix_entries = <<>> THEN s
  ELSE [w EXCEPT !.tracks[t] = [@ EXCEPT
          !.ix_entries = <<>>,
          !.ix_chunk_records = Append(@, IxRecordOf(w, t)),
          !.ticks_at_last_ix_flush = s.tracks[t].sample_count]]

\* Mutant: every record spans the stream from its start.
FlushIxForgetsTicks(s, t) ==
  IF s.tracks[t].ix_entries = <<>> THEN s
  ELSE WriteChunk([s EXCEPT !.tracks[t] = [@ EXCEPT
                     !.ix_entries = <<>>,
                     !.ix_chunk_records = Append(@, IxRecordOf(s, t))]],
                  IxCell(s, t))

\* The track once its pending entries have become an ix## chunk.
Flushed(s, t) ==
  [s.tracks[t] EXCEPT
     !.ix_entries = <<>>,
     !.ix_chunk_records = Append(@, IxRecordOf(s, t)),
     !.ticks_at_last_ix_flush = s.tracks[t].sample_count]

\* flush_ix_for_track: the track's pending entries become one ix## chunk.
FlushIxForTrack(s, t) ==
  IF s.tracks[t].ix_entries = <<>> THEN s
  ELSE WriteChunk([s EXCEPT !.tracks[t] = Flushed(s, t)], IxCell(s, t))

\* flush_ix_chunks: every track in stream order.
FlushIxChunks(s) ==
  LET flushed[n \in 0 .. NumStreams] ==
        IF n = 0 THEN s ELSE FlushIxForTrack(flushed[n - 1], n - 1)
  IN flushed[NumStreams]

\* serialize_idx1 and its write_chunk
WriteIdx1(s) ==
  LET body == IF opts.synth /\ OpenDml /\ s.snapshot # <<>>
              THEN s.snapshot ELSE s.index
  IN WriteChunk(s, [Cell("idx1", NoTrack, 16 * Len(body)) EXCEPT !.ents = body])

\* Mutant: the size of the outer RIFF is left for later.
FinishRiffLater(s) ==
  LET start == s.riff_size_off - 4
  IN IF OpenDml
     THEN [s EXCEPT !.segments = Append(@,
             [at |-> start, size |-> s.pos - start, packets |-> s.segment_packets])]
     ELSE s

\* Finish the outer RIFF and remember the segment.
FinishRiff(s) ==
  LET f == FinishList(s, s.riff_size_off)
      start == s.riff_size_off - 4
  IN IF f.ok /\ OpenDml
     THEN [f EXCEPT !.segments = Append(@,
             [at |-> start, size |-> f.pos - start, packets |-> s.segment_packets])]
     ELSE f

\* The tail shared by close_current_segment and write_trailer: movi, idx1, RIFF.
FinishSegment(s) ==
  LET f == FinishList(s, s.movi_size_off)
      i == IF InPrimary(s) THEN WriteIdx1(f) ELSE f
  IN Then(f, FinishRiff(i))

\* Mutant: rolling does not give up the compact in-strl layout.
CloseKeepsCompact(s) ==
  LET c == CloseRecCluster(s)
  IN Then(c, FinishSegment(FlushIxChunks(c)))

\* close_current_segment
CloseCurrentSegment(s) ==
  LET c == CloseRecCluster([s EXCEPT !.strl_std_active = FALSE])
  IN Then(c, FinishSegment(FlushIxChunks(c)))

\* open_avix_segment
OpenAvixSegment(s) ==
  [BeginList(BeginList(s, "RIFF"), "movi") EXCEPT
     !.riff_size_off = s.pos + 4, !.movi_size_off = s.pos + 16,
     !.segment_packets = 0, !.rec_open_idx1_slot = NoSlot,
     !.rec_open_size_off = NoList, !.rec_packets = 0, !.rec_bytes = 0]

\* Mutant: a segment without a packet may be rolled.
RollEmptySegment(s, len) ==
  LET used == s.pos + 8 + Pad(len) + 16 - (s.riff_size_off - 4)
      c == CloseCurrentSegment(s)
  IN IF OpenDml /\ used > MaxOf(opts.limit, MinLimit)
     THEN Then(c, OpenAvixSegment(c))
     ELSE s

\* The OpenDML roll test.
MustRoll(s, len) ==
  LET used == s.pos + 8 + Pad(len) + 16 - (s.riff_size_off - 4)
  IN OpenDml /\ s.segment_packets > 0 /\ used > MaxOf(opts.limit, MinLimit)

\* The roll, shared by write_packet and write_sideband_chunk.
Roll(s, len) ==
  LET c == CloseCurrentSegment(s)
  IN IF MustRoll(s, len) THEN Then(c, OpenAvixSegment(c)) ELSE s

-----------------------------------------------------------------------------
(* Placing a chunk                                                         *)

\* Mutants of EmitPaddingJunk: the bytes are not accounted into the open
\* cluster; the JUNK header is forgotten when the body is sized.
PaddingUnaccounted(s) ==
  LET target == ((s.pos + 8 + opts.granularity - 1) \div opts.granularity) * opts.granularity
  IN IF opts.granularity = 0 \/ s.pos % opts.granularity = 0 THEN s
     ELSE WriteChunk(s, Cell("JUNK", NoTrack, target - s.pos - 8))

PaddingForgetsHeader(s) ==
  LET target == ((s.pos + opts.granularity - 1) \div opts.granularity) * opts.granularity
  IN IF opts.granularity = 0 \/ s.pos % opts.granularity = 0 THEN s
     ELSE WriteChunk(s, Cell("JUNK", NoTrack, target - s.pos))

\* emit_padding_junk_for: the next chunk header lands on a multiple of n.
EmitPaddingJunk(s) ==
  LET n == opts.granularity
      target == ((s.pos + 8 + n - 1) \div n) * n
      body == target - s.pos - 8
  IN IF n = 0 \/ s.pos % n = 0 THEN s
     ELSE [s EXCEPT !.disk = Put(@, s.pos, Cell("JUNK", NoTrack, body - (body % 2))),
                    !.pos = target,
                    !.rec_bytes = IF s.rec_open_size_off = NoList THEN @
                                  ELSE @ + (target - s.pos)]

\* Mutant: check_strl_std_overflow is not called.
StampIxUnchecked(s, at, cell, field2) ==
  LET t == cell.trk
      d == at + 8 - QwBase(s)
      entry == [off |-> d, len |-> cell.len, key |-> cell.key, field2 |-> 0]
  IN IF ~OpenDml \/ d > DwMax THEN s
     ELSE [s EXCEPT !.tracks[t].ix_entries = Append(@, entry)]

\* Mutant: the idx1 snapshot keeps the offset of the data.
StampIxSnapshotAtData(s, at, cell, field2) ==
  LET t == cell.trk
      d == at + 8 - QwBase(s)
      entry == [off |-> d, len |-> cell.len, key |-> cell.key, field2 |-> 0]
      copy == [id |-> cell.id, trk |-> t, off |-> d + 4, len |-> cell.len, key |-> cell.key]
  IN IF ~OpenDml \/ d > DwMax THEN s
     ELSE [s EXCEPT !.tracks[t].ix_entries = Append(@, entry),
                    !.snapshot = IF opts.synth /\ InPrimary(s) THEN Append(@, copy) ELSE @]

\* The standard-index entry of a chunk whose header is taken to be at chunk_off,
\* with the overflow test of the compact layout and the idx1 snapshot.
StampIx(s, at, cell, field2) ==
  LET t == cell.trk
      d == at + 8 - QwBase(s)
      f2 == IF field2 # NoField2 /\ d + field2 <= DwMax THEN d + field2 ELSE 0
      entry == [off |-> d, len |-> cell.len, key |-> cell.key, field2 |-> f2]
      copy == [id |-> cell.id, trk |-> t, off |-> d - 4, len |-> cell.len, key |-> cell.key]
  IN IF ~OpenDml \/ d > DwMax THEN s
     ELSE [s EXCEPT
             !.tracks[t].ix_entries = Append(@, entry),
             !.strl_std_active = @ /\ Len(s.tracks[t].ix_entries) + 1 <= opts.strl_std,
             !.snapshot = IF opts.synth /\ InPrimary(s) THEN Append(@, copy) ELSE @]

\* Mutant: continuation segments are listed in idx1 as well.
StampIdx1Everywhere(s, at, cell) ==
  LET rel == at - MoviStart(s)
      entry == [id |-> cell.id, trk |-> cell.trk, off |-> rel, len |-> cell.len, key |-> cell.key]
  IN IF rel <= DwMax THEN [s EXCEPT !.index = Append(@, entry)] ELSE s

\* The idx1 entry of the chunk, primary segment only.
StampIdx1(s, at, cell) ==
  LET rel == at - MoviStart(s)
      entry == [id |-> cell.id, trk |-> cell.trk, off |-> rel, len |-> cell.len, key |-> cell.key]
  IN IF InPrimary(s) /\ rel <= DwMax
     THEN [s EXCEPT !.index = Append(@, entry)]
     ELSE s

\* What write_packet and write_sideband_chunk both do to place a chunk.
PlaceChunk(s, at, cell, field2) ==
  LET w == WriteChunk(StampIdx1(StampIx(s, at, cell, field2), at, cell), cell)
  IN IF Clustering
     THEN [w EXCEPT !.rec_packets = @ + 1, !.rec_bytes = @ + 8 + Pad(cell.len)]
     ELSE w

\* sample_count_of_packet
SampleCountOfPacket(p) ==
  LET audio == StreamType[p.trk] = "auds" IN
  IF audio /\ SampleSize[p.trk] > 0 THEN p.len \div SampleSize[p.trk]
  ELSE IF audio /\ p.dur > 0 THEN p.dur
  ELSE 1

\* The counters write_packet keeps for a track.
Counted(track, p) ==
  [track EXCEPT !.packet_count = @ + 1,
                !.sample_count = @ + SampleCountOfPacket(p),
                !.max_chunk_size = MaxOf(@, p.len),
                !.total_bytes = @ + p.len]

\* Mutant: a new cluster does not drop the cached position.
ChunkOffKept(s0, s1, s3, len) ==
  LET measured == IF OpenDml /\ ~MustRoll(s0, len) THEN s0.pos ELSE NoPos
      cached == IF opts.granularity # 0 THEN s3.pos ELSE measured
  IN IF cached = NoPos THEN s3.pos ELSE cached

\* chunk_off of write_packet, from cached_pos: the position measured for the
\* roll test in s0 is dropped by a roll and by the step of s1 into another
\* cluster, and measured anew in s3 when the chunk is aligned.
ChunkOff(s0, s1, s3, len) ==
  LET measured == IF OpenDml /\ ~MustRoll(s0, len) THEN s0.pos ELSE NoPos
      moved == Clustering /\ (s1.rec_open_size_off = NoList \/ ClusterFull(s1, len))
      kept == IF moved THEN NoPos ELSE measured
      cached == IF opts.granularity # 0 THEN s3.pos ELSE kept
  IN IF cached = NoPos THEN s3.pos ELSE cached

\* The chunk of packet p.
PlacePacket(s, at, p) ==
  LET cell == [Cell("data", p.trk, p.len) EXCEPT !.key = p.key]
      field2 == IF p.trk \in opts.field2 THEN s.pending_field2 ELSE NoField2
      w == PlaceChunk([s EXCEPT !.pending_field2 = NoField2], at, cell, field2)
  IN [w EXCEPT !.segment_packets = @ + 1,
               !.tracks[p.trk] = Counted(w.tracks[p.trk], p)]

\* Mutant: the inline index chunk lands inside the open cluster.
MidMoviFlushInside(s, t) ==
  IF OpenDml /\ opts.mid[t] > 0 /\ Len(s.tracks[t].ix_entries) >= opts.mid[t]
  THEN FlushIxForTrack(s, t)
  ELSE s

\* The mid-movi periodic flush: a full buffer goes out inline, outside rec.
MidMoviFlush(s, t) ==
  LET c == CloseRecCluster(s) IN
  IF OpenDml /\ opts.mid[t] > 0 /\ Len(s.tracks[t].ix_entries) >= opts.mid[t]
  THEN Then(c, FlushIxForTrack(c, t))
  ELSE s

\* The 2 GiB test of AVI 1.0 mode comes after the packet has been written:
\* chunk_off and the chunk's length add up to the position.
CheckCeiling(s) ==
  IF ~OpenDml /\ s.pos > TwoGiB - Headroom THEN [s EXCEPT !.ok = FALSE] ELSE s

-----------------------------------------------------------------------------
(* Back-patches of write_trailer                                           *)

VideoStreams == {t \in Streams : StreamType[t] = "vids"}
FirstOf(S) == CHOOSE t \in S : \A u \in S : t <= u

\* Mutant: the counts of the last segment instead of the file's.
PatchSegmentCounts(s) ==
  [s EXCEPT !.stamp = [ frames |-> s.segment_packets, buffer |-> 0,
                        length |-> [t \in Streams |-> s.segment_packets] ]]

\* patch_post_counts, with no override option set.
PatchPostCounts(s) ==
  LET frameStream == IF VideoStreams # {} THEN FirstOf(VideoStreams) ELSE 0
      largest == CHOOSE n \in {s.tracks[t].max_chunk_size : t \in Streams} :
                   \A t \in Streams : s.tracks[t].max_chunk_size <= n
  IN [s EXCEPT !.stamp =
        [ frames |-> s.tracks[frameStream].packet_count,
          buffer |-> ((largest + 3) \div 4) * 4,
          length |-> [t \in Streams |-> IF StreamType[t] = "auds"
                                        THEN s.tracks[t].sample_count
                                        ELSE s.tracks[t].packet_count] ]]

\* patch_super_index: as many ix## records as the reserved bytes hold.
PatchSuperIndex(s) ==
  [s EXCEPT !.tracks = [t \in Streams |->
     LET capacity == IndxBytes(t) \div SuperEntry
         records == s.tracks[t].ix_chunk_records
         n == IF Len(records) < capacity THEN Len(records) ELSE capacity
     IN [s.tracks[t] EXCEPT !.indx = [kind |-> "super", base |-> 0,
                               ents |-> SubSeq(records, 1, n)]]]]

\* patch_strl_std_indexes drains the entries that were never flushed.
PatchStrlStdIndexes(s) ==
  [s EXCEPT !.tracks = [t \in Streams |->
     LET capacity == IndxBytes(t) \div EntrySize(t)
         entries == s.tracks[t].ix_entries
         n == IF Len(entries) < capacity THEN Len(entries) ELSE capacity
     IN [s.tracks[t] EXCEPT !.ix_entries = <<>>,
                     !.indx = [kind |-> "std", base |-> QwBase(s),
                               ents |-> SubSeq(entries, 1, n)]]]]

PatchIndx(s) ==
  IF ~OpenDml THEN s
  ELSE IF s.strl_std_active THEN PatchStrlStdIndexes(s)
  ELSE PatchSuperIndex(s)

\* compute_per_stream_budget_breaches: streams whose rate over the duration of
\* the first video stream is above their cap.
BudgetBreaches(s) ==
  LET micros == s.tracks[FirstOf(VideoStreams)].packet_count * UsPerFrame
  IN IF VideoStreams = {} \/ micros = 0 THEN {}
     ELSE {t \in Streams : /\ opts.cap[t] > 0
                           /\ (s.tracks[t].total_bytes * UsPerSec) \div micros > opts.cap[t]}

\* The end of write_trailer.  A breach under the strict option is an error
\* that leaves trailer_written FALSE.
Conclude(s) ==
  LET breaches == BudgetBreaches(s)
      fails == opts.strict /\ breaches # {}
  IN [s EXCEPT !.over_budget = breaches, !.ok = ~fails, !.trailer_written = ~fails]

-----------------------------------------------------------------------------
(* The public methods                                                      *)

Chunks(s, ids) == {at \in DOMAIN s.disk : s.disk[at].id \in ids}

\* The bound, and the caller's discipline.
MayWrite ==
  /\ Cardinality(Chunks(m, MediaIds)) < MaxChunks
  /\ Disciplined => m.ok /\ trailers = 0

\* write_header.  The hdrl cell stands for LIST hdrl and the top-level chunks
\* between it and LIST movi.
WriteHeader ==
  /\ ~m.header_written
  /\ LET r == BeginList(m, "RIFF")
         h == WriteChunk(r, Cell("hdrl", NoTrack, opts.hdrl - 8))
     IN m' = [BeginList(h, "movi") EXCEPT
                !.ok = TRUE, !.header_written = TRUE,
                !.riff_size_off = 4, !.movi_size_off = h.pos + 4,
                !.segment_packets = 0, !.rec_open_size_off = NoList,
                !.rec_packets = 0]
  /\ UNCHANGED <<opts, trailers>>

\* write_packet
WritePacket(p) ==
  /\ m.header_written
  /\ MayWrite
  /\ LET s0 == [m EXCEPT !.ok = TRUE]
         s1 == Roll(s0, p.len)
         s2 == Then(s1, Cluster(s1, p.len))
         s3 == Then(s2, EmitPaddingJunk(s2))
         s4 == Then(s3, PlacePacket(s3, ChunkOff(s0, s1, s3, p.len), p))
         s5 == Then(s4, MidMoviFlush(s4, p.trk))
     IN m' = Then(s5, CheckCeiling(s5))
  /\ UNCHANGED <<opts, trailers>>

\* write_text_chunk, write_palette_change: write_sideband_chunk
WriteSidebandChunk(c) ==
  /\ m.header_written
  /\ ~m.trailer_written
  /\ MayWrite
  /\ LET s0 == [m EXCEPT !.ok = TRUE]
         s1 == Roll(s0, c.len)
         s2 == Then(s1, Cluster(s1, c.len))
     IN m' = Then(s2, PlaceChunk(s2, s2.pos, Cell(c.kind, c.trk, c.len), NoField2))
  /\ UNCHANGED <<opts, trailers>>

\* set_field2_offset
SetField2Offset(off) ==
  /\ m' = [m EXCEPT !.pending_field2 = off]
  /\ UNCHANGED <<opts, trailers>>

\* write_trailer
WriteTrailer ==
  /\ m.header_written
  /\ ~m.trailer_written
  /\ trailers < MaxTrailers
  /\ Disciplined => trailers = 0
  /\ LET s1 == CloseRecCluster([m EXCEPT !.ok = TRUE])
         s2 == IF OpenDml /\ ~s1.strl_std_active THEN FlushIxChunks(s1) ELSE s1
         s3 == Then(s1, FinishSegment(s2))
     IN m' = Then(s3, Conclude(PatchIndx(PatchPostCounts(s3))))
  /\ trailers' = trailers + 1
  /\ UNCHANGED opts

\* The calls that return at once: an error before write_header, for a second
\* write_header and for a side-band chunk after the trailer; Ok for a second
\* write_trailer.
EarlyReturn ==
  /\ \E answer \in IF m.trailer_written THEN BOOLEAN ELSE {FALSE} :
       m' = [m EXCEPT !.ok = answer]
  /\ UNCHANGED <<opts, trailers>>

Next ==
  \/ WriteHeader
  \/ \E p \in Packets : WritePacket(p)
  \/ \E c \in SideChunks : WriteSidebandChunk(c)
  \/ \E off \in Field2Offs : SetField2Offset(off)
  \/ WriteTrailer
  \/ EarlyReturn

Spec == Init /\ [][Next]_vars

-----------------------------------------------------------------------------
(* Types                                                                   *)

IxEntry == [off : Nat, len : Nat, key : BOOLEAN, field2 : Nat]
IxRecord == [at : Nat, size : Nat, dur : Int]
IndexEntry ==
  [id : MediaIds \cup {"rec"}, trk : Streams \cup {NoTrack},
   off : Nat, len : Nat, key : BOOLEAN]

TrackState ==
  [ packet_count : Nat, sample_count : Nat, max_chunk_size : Nat,
    total_bytes : Nat, ix_entries : Seq(IxEntry),
    ix_chunk_records : Seq(IxRecord), ticks_at_last_ix_flush : Nat,
    indx : [kind : {"none", "super", "std"}, base : Nat,
            ents : Seq(IxEntry) \cup Seq(IxRecord)] ]

CellType ==
  [ id : ListIds \cup MediaIds \cup {"hdrl", "JUNK", "ix", "idx1"},
    trk : Streams \cup {NoTrack}, len : Nat, key : BOOLEAN, base : Nat,
    ents : Seq(IxEntry) \cup Seq(IndexEntry) ]

\* The fields of the AviMuxer struct, the contents of the output left open.
MuxerRecord(disk) ==
  [ ok : BOOLEAN, header_written : BOOLEAN, trailer_written : BOOLEAN,
    pos : Nat, disk : {disk}, riff_size_off : Nat, movi_size_off : Nat,
    rec_open_size_off : Nat, rec_open_idx1_slot : Nat, rec_packets : Nat,
    rec_bytes : Nat, segment_packets : Nat,
    segments : Seq([at : Nat, size : Nat, packets : Nat]),
    index : Seq(IndexEntry), snapshot : Seq(IndexEntry),
    pending_field2 : Nat \cup {NoField2}, strl_std_active : BOOLEAN,
    tracks : [Streams -> TrackState], over_budget : SUBSET Streams,
    stamp : [frames : Nat, buffer : Nat, length : [Streams -> Nat]] ]

DiskOK(disk) == \A at \in DOMAIN disk : at \in Nat /\ disk[at] \in CellType

\* No size, count or offset the code computes is negative, the idx1 slot of an
\* open cluster is a slot of the index, and RIFF's word alignment holds: the
\* output position never falls on an odd byte.
TypeOK ==
  /\ opts \in Options
  /\ trailers \in Nat
  /\ m \in MuxerRecord(m.disk)
  /\ DiskOK(m.disk)
  /\ m.pos % 2 = 0
  /\ m.rec_open_idx1_slot \in 0 .. Len(m.index)

-----------------------------------------------------------------------------
(* Index properties                                                        *)

PrimaryMoviStart == 12 + opts.hdrl + 8

\* A chunk header of stream t with the given size and flag stands at offset at.
Resolves(at, ids, t, e) ==
  /\ at \in DOMAIN m.disk
  /\ m.disk[at].id \in ids
  /\ m.disk[at].trk = t
  /\ m.disk[at].len = e.len
  /\ m.disk[at].key = e.key

\* Where the header of the chunk a standard-index entry points into must be.
IxTarget(base, e) == base + e.off - 8

\* Every idx1 entry, the ones of LIST rec clusters included, names the chunk
\* whose header stands where the entry says, whatever segment rolls, alignment
\* JUNK and clusters came between (write_packet takes the offset before the
\* chunk is written, from the position it cached before them).
Idx1Resolves ==
  \A i \in DOMAIN m.index :
    LET e == m.index[i] IN Resolves(PrimaryMoviStart + e.off, {e.id}, e.trk, e)

\* Every standard-index entry, pending in memory, in an ix## chunk on disk or
\* in a stream's strl, names the chunk it was made for.
IxResolves ==
  /\ \A t \in Streams : \A i \in DOMAIN m.tracks[t].ix_entries :
       LET e == m.tracks[t].ix_entries[i] IN
       Resolves(IxTarget(QwBase(m), e), MediaIds, t, e)
  /\ \A at \in Chunks(m, {"ix"}) : \A i \in DOMAIN m.disk[at].ents :
       LET e == m.disk[at].ents[i] IN
       Resolves(IxTarget(m.disk[at].base, e), MediaIds, m.disk[at].trk, e)
  /\ \A t \in Streams : m.tracks[t].indx.kind = "std" =>
       \A i \in DOMAIN m.tracks[t].indx.ents :
         LET e == m.tracks[t].indx.ents[i] IN
         Resolves(IxTarget(m.tracks[t].indx.base, e), MediaIds, t, e)

\* Every ix## record kept for the super-index is the header offset and the
\* full length of an ix## chunk of that stream.
SuperIndexResolves ==
  \A t \in Streams : \A i \in DOMAIN m.tracks[t].ix_chunk_records :
    LET r == m.tracks[t].ix_chunk_records[i] IN
    /\ r.at \in Chunks(m, {"ix"})
    /\ m.disk[r.at].trk = t
    /\ r.size = 8 + m.disk[r.at].len

MediaOf(t) == {at \in Chunks(m, MediaIds) : m.disk[at].trk = t}
IxOf(t) == {at \in Chunks(m, {"ix"}) : m.disk[at].trk = t}
StdEnts(t) ==
  IF m.tracks[t].indx.kind = "std" THEN m.tracks[t].indx.ents ELSE <<>>

\* Entry i of a standard index: the chunk it stands in (or none, in a strl) and
\* the header it leads to.
IxRef(from, base, ents, i) ==
  [from |-> from, nr |-> i, to |-> IxTarget(base, ents[i])]

\* The standard-index entries of a stream in a finished file.
IxRefs(t) ==
  (UNION { {IxRef(at, m.disk[at].base, m.disk[at].ents, i) : i \in DOMAIN m.disk[at].ents} :
             at \in IxOf(t) })
  \cup { IxRef(-1, m.tracks[t].indx.base, StdEnts(t), i) : i \in DOMAIN StdEnts(t) }

\* When write_trailer has answered Ok, the standard indexes of an OpenDML file
\* list every chunk of every stream exactly once: nothing is lost when entries
\* are flushed inline, at a roll, or when the compact layout is given up, and
\* a segment too large for 32-bit entries cannot end in Ok.
EveryChunkIndexedOnce ==
  m.trailer_written /\ OpenDml =>
    \A t \in Streams : /\ {r.to : r \in IxRefs(t)} = MediaOf(t)
                       /\ \A r, q \in IxRefs(t) : r.to = q.to => r = q

\* The in-strl standard index and the ix## chunks exclude each other: a file
\* that keeps the compact layout has one RIFF and no ix## chunk, and a file
\* that gave it up has a super-index in every strl.
OneIndexLayout ==
  m.trailer_written /\ OpenDml =>
    /\ m.strl_std_active => /\ Chunks(m, {"ix"}) = {}
                            /\ Len(m.segments) = 1
    /\ ~m.strl_std_active => \A t \in Streams : m.tracks[t].indx.kind = "super"

\* The dwDuration values of a stream's ix## records add up to the ticks flushed
\* so far, and in a finished two-tier file to the stream's whole sample count:
\* inline flushes, rolls and an outgrown compact layout lose no tick.
SpansAddUp ==
  \A t \in Streams :
    LET k == m.tracks[t]
        dur == [i \in DOMAIN k.ix_chunk_records |-> k.ix_chunk_records[i].dur]
    IN /\ SumFunction(dur) = k.ticks_at_last_ix_flush
       /\ m.trailer_written /\ k.indx.kind = "super" => SumFunction(dur) = k.sample_count

-----------------------------------------------------------------------------
(* Layout properties                                                       *)

Lists == Chunks(m, ListIds)
ChunkEnd(at) == at + 8 + Pad(m.disk[at].len)
After(at) == IF m.disk[at].id \in ListIds THEN at + 12 ELSE ChunkEnd(at)
Around(at) == {l \in Lists : l < at /\ at < ChunkEnd(l)}

\* The lists a chunk may stand in, from the outermost.
Parents(id) ==
  CASE id = "RIFF" -> {{}}
    [] id \in {"hdrl", "movi", "idx1"} -> {{"RIFF"}}
    [] id \in {"ix", "rec"} -> {{"RIFF", "movi"}}
    [] id \in MediaIds -> IF Clustering THEN {{"RIFF", "movi", "rec"}}
                                        ELSE {{"RIFF", "movi"}}
    [] id = "JUNK" -> {{"RIFF", "movi"}, {"RIFF", "movi", "rec"}}

\* A finished file can be walked chunk by chunk from offset 0 to its end:
\* every chunk is followed by a chunk, every list ends where a chunk or the
\* file does and is nested in the lists around it, each chunk stands in the
\* lists it belongs to, and one idx1 closes the first RIFF.
FileWellFormed ==
  m.trailer_written =>
    LET bounds == DOMAIN m.disk \cup {m.pos} IN
    /\ \A at \in DOMAIN m.disk :
         /\ After(at) \in bounds
         /\ ChunkEnd(at) \in bounds
         /\ \A l \in Around(at) : ChunkEnd(at) <= ChunkEnd(l)
         /\ {m.disk[l].id : l \in Around(at)} \in Parents(m.disk[at].id)
    /\ \E at \in DOMAIN m.disk :
         /\ Chunks(m, {"idx1"}) = {at}
         /\ ChunkEnd(at) = ChunkEnd(0)

\* The body of the open LIST rec  is exactly the bytes rec_bytes counts, JUNK
\* alignment included, and rec_packets counts its packets and side-band chunks.
ClusterAccounting ==
  m.rec_open_size_off # NoList =>
    /\ m.rec_bytes = m.pos - (m.rec_open_size_off + 8)
    /\ m.rec_packets = Cardinality({at \in Chunks(m, MediaIds) : at > m.rec_open_size_off})

\* Under padding_granularity every packet's header stands on a multiple of it,
\* whatever clusters, side-band chunks and index chunks came before.
PacketsAligned ==
  opts.granularity > 0 =>
    \A at \in Chunks(m, {"data"}) : at % opts.granularity = 0

\* The counts write_trailer stamps in the header are those of the chunks on
\* disk, over all segments, and the read buffer holds the largest packet.
StampsCount ==
  m.trailer_written =>
    LET packets(t) == {at \in MediaOf(t) : m.disk[at].id = "data"} IN
    /\ \A t \in VideoStreams : m.stamp.length[t] = Cardinality(packets(t))
    /\ VideoStreams # {} => m.stamp.frames = m.stamp.length[FirstOf(VideoStreams)]
    /\ \A at \in Chunks(m, {"data"}) : m.disk[at].len <= m.stamp.buffer

\* What has been written stays: a call never moves back and never changes a
\* chunk on disk, and a call that answers Ok patches the size of a list only
\* while it is still 0.
AppendOnly ==
  [][ /\ m'.pos >= m.pos
      /\ \A at \in DOMAIN m.disk :
           /\ at \in DOMAIN m'.disk
           /\ m'.disk[at] # m.disk[at] =>
                /\ m.disk[at].id \in ListIds
                /\ m'.ok => m.disk[at].len = 0
                /\ m'.disk[at] = [m.disk[at] EXCEPT !.len = m'.disk[at].len] ]_vars

-----------------------------------------------------------------------------
(* What the documentation says and the code does not do                    *)

\* AviKind::Avi10: "Output must stay below 2 GiB; exceeding that returns
\* Error::Unsupported from write_packet".  write_packet has returned it when a
\* packet ended above the ceiling less the headroom kept for idx1.
BelowTwoGiB ==
  m.trailer_written /\ ~OpenDml =>
    \/ \E at \in Chunks(m, {"data"}) : ChunkEnd(at) > TwoGiB - Headroom
    \/ m.pos <= TwoGiB

\* truncated_super_index_segments
Truncated ==
  IF ~OpenDml THEN 0
  ELSE LET most == CHOOSE n \in {Len(m.tracks[t].ix_chunk_records) : t \in Streams} :
                     \A t \in Streams : Len(m.tracks[t].ix_chunk_records) <= n
       IN IF most > SuperCapacity THEN most - SuperCapacity ELSE 0

\* truncated_super_index_segments "Returns 0 when every segment lands in the
\* super-index", and "When > 0, the trailing entries silently miss" it: an
\* entry that misses the super-index is reported.
TruncationReported ==
  m.trailer_written /\ OpenDml /\ ~m.strl_std_active /\ Truncated = 0 =>
    \A t \in Streams : Len(m.tracks[t].indx.ents) = Len(m.tracks[t].ix_chunk_records)

=============================================================================
