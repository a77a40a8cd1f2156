------------------------- MODULE AviMuxer_discipline -------------------------
(***************************************************************************)
(* What the muxer promises a caller who stops writing once a call has      *)
(* failed and calls write_trailer once: what is on disk stays, list sizes  *)
(* are patched once, a finished file has one kind of standard index, its   *)
(* stamps are the counts of the chunks on disk, and it can be walked chunk *)
(* by chunk from its start to its end.                                     *)
(*                                                                         *)
(* The invariant DInv adds to SInv of AviMuxer_invariants that, as long as *)
(* write_trailer may still be called, the sizes it will patch are those of *)
(* lists that have none yet (Sealed), and the compact layout has not been  *)
(* left unnoticed (Compact).  Tidy is what AppendOnly says of one step; it *)
(* is proved for each private method and composed along the `?` operator.  *)
(*                                                                         *)
(* A file in the making is laid out like a finished one, but for the lists *)
(* that are open, which are taken to end at the output position (Laid).    *)
(* Three lemmas carry that proof: a chunk added at the end of the output   *)
(* stands in the open lists, a list opened there does, and closing the     *)
(* innermost open list patches its size to where it was taken to end.      *)
(***************************************************************************)
EXTENDS AviMuxer_invariants

-----------------------------------------------------------------------------
(* The invariant                                                           *)

\* The lists that finish_chunk is still to patch have no size yet; or LIST
\* movi got one in a segment that is too long for the RIFF to get one.
Sealed(s) ==
  /\ s.disk[s.riff_size_off - 4].len = 0
  /\ \/ s.disk[s.movi_size_off - 4].len = 0
     \/ s.pos - (s.riff_size_off + 4) > DwMax
  /\ s.rec_open_size_off # NoList => s.disk[s.rec_open_size_off - 4].len = 0

\* While the compact layout is kept it was asked for, no ix## chunk has been
\* written and the first segment is open.
Compact(s) ==
  s.strl_std_active =>
    /\ StrlStdRequested(opts)
    /\ \A at \in DOMAIN s.disk : s.disk[at].id # "ix"
    /\ s.segments = <<>>

\* The stamps are those of the packets on disk.
StampsRight(s) ==
  /\ \A t \in VideoStreams : s.stamp.length[t] = Cardinality(DataOf(s, t))
  /\ VideoStreams # {} => s.stamp.frames = s.stamp.length[FirstOf(VideoStreams)]
  /\ \A at \in DOMAIN s.disk : s.disk[at].id = "data" => s.disk[at].len <= s.stamp.buffer

\* OneIndexLayout, of the state of a finished muxer.
OneLayout(s) ==
  OpenDml =>
    /\ s.strl_std_active => /\ \A at \in DOMAIN s.disk : s.disk[at].id # "ix"
                            /\ Len(s.segments) = 1
    /\ ~s.strl_std_active => \A t \in Streams : s.tracks[t].indx.kind = "super"

\* What holds before write_trailer.
Going(s) == Sound(s) /\ Sealed(s) /\ Compact(s) /\ ~s.trailer_written

-----------------------------------------------------------------------------
(* What is on disk stays                                                   *)

\* AppendOnly, of the step from s to w.
Tidy(s, w) ==
  /\ w.pos >= s.pos
  /\ \A at \in DOMAIN s.disk :
       /\ at \in DOMAIN w.disk
       /\ Resized(s.disk[at], w.disk[at])
       /\ w.disk[at] # s.disk[at] => /\ s.disk[at].id \in ListIds
                                     /\ w.ok => s.disk[at].len = 0

LEMMA TidyTrans ==
  ASSUME NEW s, NEW v, NEW w, Typed(s), Typed(v), Typed(w),
         Tidy(s, v), Tidy(v, w), w.ok => v.ok
  PROVE  Tidy(s, w)
<1>1. w.pos >= s.pos
  <2>1. s.pos \in Nat /\ v.pos \in Nat /\ w.pos \in Nat BY DEF Typed, MuxerRecord
  <2> QED BY <2>1 DEF Tidy
<1>2. ASSUME NEW at \in DOMAIN s.disk
      PROVE  /\ at \in DOMAIN w.disk
             /\ Resized(s.disk[at], w.disk[at])
             /\ w.disk[at] # s.disk[at] => /\ s.disk[at].id \in ListIds
                                           /\ w.ok => s.disk[at].len = 0
  <2>1. /\ at \in DOMAIN v.disk
        /\ Resized(s.disk[at], v.disk[at])
        /\ v.disk[at] # s.disk[at] => /\ s.disk[at].id \in ListIds
                                      /\ v.ok => s.disk[at].len = 0
    BY DEF Tidy
  <2>2. /\ at \in DOMAIN w.disk
        /\ Resized(v.disk[at], w.disk[at])
        /\ w.disk[at] # v.disk[at] => /\ v.disk[at].id \in ListIds
                                      /\ w.ok => v.disk[at].len = 0
    BY <2>1 DEF Tidy
  <2> QED BY <2>1, <2>2 DEF Resized
<1> QED BY <1>1, <1>2 DEF Tidy

LEMMA TidySame ==
  ASSUME NEW s, Typed(s)
  PROVE  Tidy(s, s)
<1>1. s.pos \in Nat BY DEF Typed, MuxerRecord
<1> QED BY <1>1 DEF Tidy, Resized

\* Patching lists that have no size yet, or only when the step fails, is tidy.
LEMMA WritesTidy ==
  ASSUME NEW s, NEW w, NEW heads, NEW ids, Writes(s, w, heads, ids),
         \A at \in heads : at \in DOMAIN s.disk => /\ s.disk[at].id \in ListIds
                                                   /\ w.ok => s.disk[at].len = 0
  PROVE  Tidy(s, w)
BY DEF Writes, Tidy

\* A cell with another size is the cell but for its size.
LEMMA ResizedCell ==
  ASSUME NEW c \in CellType, NEW d \in CellType, Resized(c, d)
  PROVE  d = [c EXCEPT !.len = d.len]
<1> DEFINE e == [c EXCEPT !.len = d.len]
<1>1. e \in CellType BY DEF CellType
<1>2. /\ e.id = c.id /\ e.trk = c.trk /\ e.key = c.key /\ e.base = c.base
      /\ e.ents = c.ents /\ e.len = d.len
  BY DEF CellType
<1> HIDE DEF e
<1>3. d = e BY <1>1, <1>2 DEF CellType, Resized
<1> QED BY <1>3 DEF e

\* The heads of the current segment and of the open cluster are three chunks.
LEMMA ThreeHeads ==
  ASSUME NEW s, Good(s)
  PROVE  /\ s.riff_size_off - 4 \in DOMAIN s.disk /\ s.movi_size_off - 4 \in DOMAIN s.disk
         /\ s.disk[s.riff_size_off - 4].id \in ListIds
         /\ s.disk[s.movi_size_off - 4].id \in ListIds
         /\ s.rec_open_size_off # NoList =>
              /\ s.rec_open_size_off - 4 \in DOMAIN s.disk
              /\ s.disk[s.rec_open_size_off - 4].id \in ListIds
              /\ s.rec_open_size_off - 4 # s.riff_size_off - 4
              /\ s.rec_open_size_off - 4 # s.movi_size_off - 4
BY DEF Good, Heads, IsList, ListIds

\* A step that patches none of them keeps them without a size.
LEMMA SealedKept ==
  ASSUME NEW s, Good(s), Sealed(s), NEW w, Typed(w), NEW heads, NEW ids,
         Writes(s, w, heads, ids),
         w.riff_size_off = s.riff_size_off, w.movi_size_off = s.movi_size_off,
         s.riff_size_off - 4 \notin heads, s.movi_size_off - 4 \notin heads,
         \/ w.rec_open_size_off = NoList
         \/ /\ w.rec_open_size_off = s.rec_open_size_off
            /\ s.rec_open_size_off - 4 \notin heads
  PROVE  Sealed(w)
<1>1. \A at \in DOMAIN s.disk : at \notin heads => w.disk[at] = s.disk[at]
  BY DEF Writes
<1>2. w.disk[w.riff_size_off - 4].len = 0
  BY <1>1, ThreeHeads DEF Sealed
<1>3. \/ w.disk[w.movi_size_off - 4].len = 0
      \/ w.pos - (w.riff_size_off + 4) > DwMax
  <2>1. s.pos \in Nat /\ w.pos \in Nat /\ w.pos >= s.pos /\ s.riff_size_off \in Nat
    BY DEF Good, Typed, MuxerRecord, Writes
  <2>2. DwMax \in Nat BY MuxerAssumption
  <2>3. CASE s.disk[s.movi_size_off - 4].len = 0
    BY <1>1, <2>3, ThreeHeads
  <2>4. CASE s.pos - (s.riff_size_off + 4) > DwMax
    BY <2>1, <2>2, <2>4
  <2> QED BY <2>3, <2>4 DEF Sealed
<1>4. w.rec_open_size_off # NoList => w.disk[w.rec_open_size_off - 4].len = 0
  BY <1>1, ThreeHeads DEF Sealed
<1> QED BY <1>2, <1>3, <1>4 DEF Sealed

\* The layout is compact still when no index chunk is written.
LEMMA CompactKept ==
  ASSUME NEW s, Compact(s), NEW w, NEW heads, NEW ids, Writes(s, w, heads, ids),
         "ix" \notin ids, w.segments = s.segments,
         w.strl_std_active => s.strl_std_active
  PROVE  Compact(w)
BY DEF Compact, Writes, Resized
-----------------------------------------------------------------------------
(* The private methods, before write_trailer                               *)

\* A step that patches at most the open cluster, which it then closes.
LEMMA GoingKept ==
  ASSUME NEW s, Going(s), NEW w, Sound(w), NEW heads, NEW ids, Writes(s, w, heads, ids),
         w.riff_size_off = s.riff_size_off, w.movi_size_off = s.movi_size_off,
         w.segments = s.segments, w.trailer_written = s.trailer_written,
         w.strl_std_active => s.strl_std_active /\ "ix" \notin ids,
         \A at \in heads : /\ s.rec_open_size_off # NoList
                           /\ at = s.rec_open_size_off - 4
                           /\ w.rec_open_size_off = NoList,
         w.rec_open_size_off \in {NoList, s.rec_open_size_off}
  PROVE  Going(w) /\ Tidy(s, w)
<1>1. Sound(s) /\ Sealed(s) /\ Compact(s) /\ ~s.trailer_written /\ Good(s) /\ Typed(w)
  BY DEF Going, Sound, Good
<1>2. s.riff_size_off - 4 \notin heads /\ s.movi_size_off - 4 \notin heads
  BY <1>1, ThreeHeads
<1>3. w.rec_open_size_off = NoList \/ (/\ w.rec_open_size_off = s.rec_open_size_off
                                       /\ s.rec_open_size_off - 4 \notin heads)
  OBVIOUS
<1>4. Sealed(w) BY <1>1, <1>2, <1>3, SealedKept
<1>5. Compact(w)
  <2>1. CASE w.strl_std_active BY <1>1, <2>1, CompactKept
  <2>2. CASE ~w.strl_std_active BY <2>2 DEF Compact
  <2> QED BY <2>1, <2>2
<1>6. \A at \in heads : at \in DOMAIN s.disk => /\ s.disk[at].id \in ListIds
                                                /\ w.ok => s.disk[at].len = 0
  BY <1>1, ThreeHeads DEF Sealed
<1>7. Tidy(s, w) BY <1>6, WritesTidy
<1> QED BY <1>1, <1>4, <1>5, <1>7 DEF Going

\* self.ok, before and after a call
LEMMA SetOkGoing ==
  ASSUME NEW s, Going(s), NEW b \in BOOLEAN, NEW w, w = SetOk(s, b)
  PROVE  Going(w) /\ Tidy(s, w)
<1>1. Sound(s) /\ Typed(s) BY DEF Going, Sound, Good
<1>2. Sound(w) BY <1>1, SetOkSound
<1>3. Only(s, w, {"ok"}) BY <1>1 DEF Typed, MuxerRecord, SetOk, Only, Fields
<1>4. /\ w.riff_size_off = s.riff_size_off /\ w.movi_size_off = s.movi_size_off
      /\ w.segments = s.segments /\ w.trailer_written = s.trailer_written
      /\ w.strl_std_active = s.strl_std_active
      /\ w.rec_open_size_off = s.rec_open_size_off
      /\ w.disk = s.disk /\ w.pos = s.pos
  BY <1>3 DEF Only, Fields
<1>5. Writes(s, w, {}, {}) BY <1>1, <1>4, WritesNothing
<1> QED BY <1>2, <1>4, <1>5, GoingKept

\* open_rec_cluster: the new list has no size.
LEMMA OpenRecClusterGoing ==
  ASSUME NEW s, Going(s), Clustering, NEW w, w = OpenRecCluster(s), opts \in Options
  PROVE  Going(w) /\ Tidy(s, w)
<1>1. Sound(s) /\ Good(s) /\ Sealed(s) /\ Compact(s) /\ ~s.trailer_written
  BY DEF Going, Sound
<1>2. Sound(w) BY <1>1, OpenRecClusterSound
<1>3. /\ Writes(s, w, {}, {"rec"})
      /\ Only(s, w, {"disk", "pos"} \cup ClusterFields)
      /\ Opened(s, w)
  BY <1>1, OpenRecClusterStep
<1>4. /\ w.riff_size_off = s.riff_size_off /\ w.movi_size_off = s.movi_size_off
      /\ w.segments = s.segments /\ w.trailer_written = s.trailer_written
      /\ w.strl_std_active = s.strl_std_active
  BY <1>3 DEF Only, Fields, ClusterFields
<1>5. /\ w.rec_open_size_off = s.pos + 4 /\ w.disk[s.pos].len = 0
      /\ w.pos = s.pos + 12 /\ s.pos \in Nat
      /\ \A at \in DOMAIN s.disk : w.disk[at] = s.disk[at]
  BY <1>1, <1>3 DEF Opened, Cell, Good, Typed, MuxerRecord
<1>6. Sealed(w)
  <2>1. s.riff_size_off \in Nat /\ DwMax \in Nat
    BY <1>1, MuxerAssumption DEF Good, Typed, MuxerRecord
  <2>2. w.disk[w.riff_size_off - 4].len = 0 BY <1>1, <1>4, <1>5, ThreeHeads DEF Sealed
  <2>3. \/ w.disk[w.movi_size_off - 4].len = 0
        \/ w.pos - (w.riff_size_off + 4) > DwMax
    BY <1>1, <1>4, <1>5, <2>1, ThreeHeads DEF Sealed
  <2>4. w.rec_open_size_off - 4 = s.pos BY <1>5
  <2> QED BY <1>5, <2>2, <2>3, <2>4 DEF Sealed
<1>7. Compact(w) BY <1>1, <1>3, <1>4, CompactKept
<1>8. Tidy(s, w) BY <1>3, WritesTidy
<1> QED BY <1>1, <1>2, <1>4, <1>6, <1>7, <1>8 DEF Going

\* close_rec_cluster: the list had no size.
LEMMA CloseRecClusterGoing ==
  ASSUME NEW s, Going(s), s.ok, NEW w, w = CloseRecCluster(s)
  PROVE  /\ Going(w) /\ Tidy(s, w)
         /\ w.rec_open_size_off = NoList /\ w.strl_std_active = s.strl_std_active
<1>1. Sound(s) /\ Good(s) /\ Typed(s) BY DEF Going, Sound, Good
<1>2. Sound(w) BY <1>1, CloseRecClusterSound
<1>3. w.rec_open_size_off = NoList BY <1>1, CloseRecClusterGood
<1>4. \/ s.rec_open_size_off = NoList /\ w = s
      \/ /\ s.rec_open_size_off # NoList
         /\ ~w.ok /\ w.disk = s.disk
         /\ Only(s, w, {"ok", "disk", "rec_open_size_off"})
      \/ s.rec_open_size_off # NoList /\ w.ok /\ Closed(s, w)
  BY <1>1, CloseRecClusterStep
<1>5. Only(s, w, {"ok", "disk"} \cup ClusterFields)
  BY <1>4 DEF Only, Fields, ClusterFields, Closed
<1>6. /\ w.riff_size_off = s.riff_size_off /\ w.movi_size_off = s.movi_size_off
      /\ w.segments = s.segments /\ w.trailer_written = s.trailer_written
      /\ w.strl_std_active = s.strl_std_active /\ w.pos = s.pos
  BY <1>5 DEF Only, Fields, ClusterFields
<1>7. CASE w.disk = s.disk
  <2>1. Writes(s, w, {}, {}) BY <1>1, <1>6, <1>7, WritesNothing
  <2> QED BY <1>2, <1>3, <1>6, <2>1, GoingKept
<1>8. CASE s.rec_open_size_off # NoList /\ Closed(s, w)
  <2> DEFINE heads == {s.rec_open_size_off - 4}
             ids == {}
  <2>1. Writes(s, w, heads, ids) BY <1>8 DEF Closed
  <2>2. \A at \in heads : /\ s.rec_open_size_off # NoList
                          /\ at = s.rec_open_size_off - 4
                          /\ w.rec_open_size_off = NoList
    BY <1>3, <1>8
  <2>3. "ix" \notin ids OBVIOUS
  <2> HIDE DEF heads, ids
  <2> QED BY <1>2, <1>3, <1>6, <2>1, <2>2, <2>3, GoingKept
<1> QED BY <1>3, <1>4, <1>6, <1>7, <1>8

\* The cluster step of write_packet and write_sideband_chunk.
LEMMA ClusterGoing ==
  ASSUME NEW s, Going(s), s.ok, NEW len, NEW w, w = Cluster(s, len), opts \in Options
  PROVE  Going(w) /\ Tidy(s, w)
<1> DEFINE c == CloseRecCluster(s)
           o == OpenRecCluster(c)
<1>1. \/ w = s \/ w = c
      \/ w = OpenRecCluster(s) /\ Clustering
      \/ c.ok /\ w = o /\ Clustering
  BY DEF Cluster, Then
<1>2. Going(c) /\ Tidy(s, c) BY CloseRecClusterGoing
<1> HIDE DEF c
<1>3. Clustering => Going(o) /\ Tidy(c, o) BY <1>2, OpenRecClusterGoing
<1> HIDE DEF o
<1>4. CASE w = s BY <1>4, TidySame DEF Going, Sound, Good
<1>5. CASE w = c BY <1>2, <1>5
<1>6. CASE w = OpenRecCluster(s) /\ Clustering BY <1>6, OpenRecClusterGoing
<1>7. CASE c.ok /\ w = o /\ Clustering
  <2>1. Typed(s) /\ Typed(c) /\ Typed(o) BY <1>2, <1>3, <1>7 DEF Going, Sound, Good
  <2> QED BY <1>2, <1>3, <1>7, <2>1, TidyTrans
<1> QED BY <1>1, <1>4, <1>5, <1>6, <1>7
\* The tail of a segment: the sizes of LIST movi and of the RIFF are patched,
\* each for the first time if the segment ends well.  If it does not, none of
\* them gets a size, or only LIST movi in a segment too long for a RIFF.
LEMMA FinishSegmentTidy ==
  ASSUME NEW s, Good(s), Sealed(s), s.ok, NEW w, w = FinishSegment(s)
  PROVE  /\ Tidy(s, w)
         /\ ~w.ok /\ w.rec_open_size_off = NoList => Sealed(w)
<1>1. /\ Writes(s, w, {s.riff_size_off - 4, s.movi_size_off - 4}, {"idx1"})
      /\ Only(s, w, {"ok", "disk", "pos", "segments"})
      /\ ~w.ok => /\ w.disk[s.riff_size_off - 4] = s.disk[s.riff_size_off - 4]
                  /\ \/ w.disk[s.movi_size_off - 4] = s.disk[s.movi_size_off - 4]
                     \/ w.pos - (s.riff_size_off + 4) > DwMax
      /\ w.ok => w.pos - (s.riff_size_off + 4) <= DwMax
  BY FinishSegmentStep
<1>2. w.riff_size_off = s.riff_size_off /\ w.movi_size_off = s.movi_size_off
  BY <1>1 DEF Only, Fields
<1>3. Typed(w)
  <2>1. Good(w) BY FinishSegmentGood
  <2> QED BY <2>1 DEF Good
<1>4. /\ s.pos \in Nat /\ w.pos \in Nat /\ w.pos >= s.pos /\ s.riff_size_off \in Nat
      /\ DwMax \in Nat
  BY <1>1, <1>3, MuxerAssumption DEF Good, Typed, MuxerRecord, Writes
<1>5. w.ok => s.disk[s.movi_size_off - 4].len = 0
  BY <1>1, <1>4 DEF Sealed
<1>6. Tidy(s, w)
  <2> DEFINE heads == {s.riff_size_off - 4, s.movi_size_off - 4}
             ids == {"idx1"}
  <2>1. Writes(s, w, heads, ids) BY <1>1
  <2>2. \A at \in heads : at \in DOMAIN s.disk => /\ s.disk[at].id \in ListIds
                                                  /\ w.ok => s.disk[at].len = 0
    BY <1>5, ThreeHeads DEF Sealed
  <2> HIDE DEF heads, ids
  <2> QED BY <2>1, <2>2, WritesTidy
<1>7. ASSUME ~w.ok, w.rec_open_size_off = NoList PROVE Sealed(w)
  <2>1. w.disk[w.riff_size_off - 4].len = 0 BY <1>1, <1>2, <1>7 DEF Sealed
  <2>2. \/ w.disk[w.movi_size_off - 4].len = 0
        \/ w.pos - (w.riff_size_off + 4) > DwMax
    BY <1>1, <1>2, <1>4, <1>7 DEF Sealed
  <2> QED BY <1>7, <2>1, <2>2 DEF Sealed
<1> QED BY <1>6, <1>7

\* Giving up the compact layout.
LEMMA SetActiveGoing ==
  ASSUME NEW s, Going(s), NEW w, w = SetActive(s, FALSE)
  PROVE  Going(w) /\ Tidy(s, w) /\ ~w.strl_std_active /\ w.ok = s.ok
<1>1. Sound(s) /\ Typed(s) BY DEF Going, Sound, Good
<1>2. Sound(w) /\ w.ok = s.ok BY <1>1, SetActiveSound
<1>3. Only(s, w, {"strl_std_active"}) /\ ~w.strl_std_active
  BY <1>1 DEF Typed, MuxerRecord, SetActive, Only, Fields
<1>4. /\ w.riff_size_off = s.riff_size_off /\ w.movi_size_off = s.movi_size_off
      /\ w.segments = s.segments /\ w.trailer_written = s.trailer_written
      /\ w.rec_open_size_off = s.rec_open_size_off
      /\ w.disk = s.disk /\ w.pos = s.pos
  BY <1>3 DEF Only, Fields
<1> DEFINE none == {}
<1>5. Writes(s, w, none, none) BY <1>1, <1>4, WritesNothing
<1>6. \A at \in none : FALSE OBVIOUS
<1> HIDE DEF none
<1>7. Going(w) /\ Tidy(s, w) BY <1>2, <1>3, <1>4, <1>5, <1>6, GoingKept
<1> QED BY <1>2, <1>3, <1>7

\* Flushing index entries, once the compact layout has been given up.
LEMMA IxFlushGoing ==
  ASSUME NEW s, Going(s), ~s.strl_std_active, NEW w, Sound(w), IxFlush(s, w)
  PROVE  Going(w) /\ Tidy(s, w) /\ ~w.strl_std_active
<1>1. Writes(s, w, {}, {"ix"}) /\ Only(s, w, {"disk", "pos", "tracks"})
  BY DEF IxFlush
<1>2. /\ w.riff_size_off = s.riff_size_off /\ w.movi_size_off = s.movi_size_off
      /\ w.segments = s.segments /\ w.trailer_written = s.trailer_written
      /\ w.rec_open_size_off = s.rec_open_size_off
      /\ w.strl_std_active = s.strl_std_active
  BY <1>1 DEF Only, Fields
<1> QED BY <1>1, <1>2, GoingKept

\* close_current_segment: when it fails write_trailer may still be called.
LEMMA CloseCurrentSegmentGoing ==
  ASSUME NEW s, Going(s), s.ok, NEW w, w = CloseCurrentSegment(s)
  PROVE  /\ Tidy(s, w) /\ Sound(w) /\ ~w.strl_std_active /\ ~w.trailer_written
         /\ ~w.ok => Going(w)
<1> DEFINE a == SetActive(s, FALSE)
           c == CloseRecCluster(a)
           x == FlushIxChunks(c)
           f == FinishSegment(x)
<1>1. w = IF c.ok THEN f ELSE c
  BY DEF CloseCurrentSegment, Then, SetActive
<1>2. Going(a) /\ Tidy(s, a) /\ ~a.strl_std_active /\ a.ok BY SetActiveGoing
<1> HIDE DEF a
<1>3. /\ Going(c) /\ Tidy(a, c)
      /\ c.rec_open_size_off = NoList /\ ~c.strl_std_active
  BY <1>2, CloseRecClusterGoing
<1> HIDE DEF c
<1>4. /\ Going(x) /\ Tidy(c, x) /\ ~x.strl_std_active
      /\ x.rec_open_size_off = NoList /\ x.ok = c.ok
  <2>1. Sound(c) /\ Good(c) BY <1>3 DEF Going, Sound
  <2>2. Sound(x) /\ x.rec_open_size_off = NoList /\ x.ok = c.ok
    BY <1>3, <2>1, FlushIxChunksSound
  <2>3. IxFlush(c, x) BY <2>1, FlushIxChunksStep
  <2> QED BY <1>3, <2>2, <2>3, IxFlushGoing
<1> HIDE DEF x
<1>5. ASSUME c.ok
      PROVE  /\ Tidy(x, f) /\ Sound(f) /\ ~f.strl_std_active /\ ~f.trailer_written
             /\ ~f.ok => Going(f)
  <2>1. Sound(x) /\ Good(x) /\ Sealed(x) /\ ~x.trailer_written
    BY <1>4 DEF Going, Sound
  <2>2. Sound(f) /\ f.rec_open_size_off = NoList
    BY <1>4, <1>5, <2>1, FinishSegmentSound
  <2>3. Tidy(x, f) /\ (~f.ok /\ f.rec_open_size_off = NoList => Sealed(f))
    BY <1>4, <1>5, <2>1, FinishSegmentTidy
  <2>4. Only(x, f, {"ok", "disk", "pos", "segments"})
    BY <1>4, <1>5, <2>1, FinishSegmentStep
  <2>5. ~f.strl_std_active /\ ~f.trailer_written
    BY <1>4, <2>1, <2>4 DEF Only, Fields
  <2> QED BY <2>2, <2>3, <2>5 DEF Going, Compact
<1> HIDE DEF f
<1>6. Typed(s) /\ Typed(a) /\ Typed(c) /\ Typed(x)
  BY <1>2, <1>3, <1>4 DEF Going, Sound, Good
<1>7. Tidy(s, c) BY <1>2, <1>3, <1>6, TidyTrans
<1>8. CASE ~c.ok
  BY <1>1, <1>3, <1>7, <1>8 DEF Going
<1>9. CASE c.ok
  <2>1. Typed(f) BY <1>5, <1>9 DEF Sound, Good
  <2>2. Tidy(s, x) BY <1>4, <1>6, <1>7, TidyTrans
  <2>3. Tidy(s, f) BY <1>4, <1>5, <1>6, <1>9, <2>1, <2>2, TidyTrans
  <2> QED BY <1>1, <1>5, <1>9, <2>3
<1> QED BY <1>8, <1>9

\* The roll: the sizes of the new segment's lists are still to come.
LEMMA RollGoing ==
  ASSUME NEW s, Going(s), s.ok, NEW len, NEW w, w = Roll(s, len)
  PROVE  Going(w) /\ Tidy(s, w)
<1> DEFINE c == CloseCurrentSegment(s)
           a == OpenAvixSegment(c)
<1>1. Sound(s) /\ Good(s) BY DEF Going, Sound
<1>2. w = s \/ (~c.ok /\ w = c) \/ (c.ok /\ OpenDml /\ w = a)
  BY DEF Roll, MustRoll, Then
<1>3. Sound(w) BY <1>1, RollSound
<1>4. /\ Tidy(s, c) /\ Sound(c) /\ ~c.strl_std_active /\ ~c.trailer_written
      /\ ~c.ok => Going(c)
  BY CloseCurrentSegmentGoing
<1> HIDE DEF c
<1>5. CASE w = s BY <1>1, <1>5, TidySame DEF Good
<1>6. CASE ~c.ok /\ w = c BY <1>4, <1>6
<1>7. CASE c.ok /\ w = a
  <2>1. Good(c) BY <1>4 DEF Sound
  <2>2. /\ Writes(c, w, {}, {"RIFF", "movi"})
        /\ Only(c, w, {"disk", "pos", "riff_size_off", "movi_size_off", "segment_packets",
                       "rec_open_size_off", "rec_open_idx1_slot", "rec_packets", "rec_bytes"})
        /\ w.rec_open_size_off = NoList
        /\ w.riff_size_off = c.pos + 4 /\ w.movi_size_off = c.pos + 16
        /\ w.disk[c.pos].len = 0 /\ w.disk[c.pos + 12].len = 0
    BY <1>7, <2>1, OpenAvixSegmentStep
  <2>3. w.strl_std_active = c.strl_std_active /\ w.trailer_written = c.trailer_written
    BY <2>2 DEF Only, Fields
  <2>4. Tidy(c, w) BY <2>2, WritesTidy
  <2>5. Typed(s) /\ Typed(c) /\ Typed(w) BY <1>1, <1>3, <2>1 DEF Sound, Good
  <2>6. Tidy(s, w) BY <1>4, <1>7, <2>4, <2>5, TidyTrans
  <2>7. Sealed(w)
    <3>1. c.pos \in Nat BY <2>5 DEF Typed, MuxerRecord
    <3>2. w.riff_size_off - 4 = c.pos /\ w.movi_size_off - 4 = c.pos + 12
      BY <2>2, <3>1
    <3> QED BY <2>2, <3>2 DEF Sealed
  <2> QED BY <1>3, <1>4, <2>3, <2>6, <2>7 DEF Going, Compact
<1> QED BY <1>2, <1>5, <1>6, <1>7
\* emit_padding_junk_for
LEMMA EmitPaddingJunkGoing ==
  ASSUME NEW s, Going(s), NEW w, w = EmitPaddingJunk(s), opts \in Options
  PROVE  Going(w) /\ Tidy(s, w)
<1>1. Sound(s) /\ Good(s) BY DEF Going, Sound
<1>2. Sound(w) BY <1>1, EmitPaddingJunkSound
<1>3. Writes(s, w, {}, {"JUNK"}) /\ Only(s, w, {"disk", "pos", "rec_bytes"})
  BY <1>1, EmitPaddingJunkStep
<1>4. /\ w.riff_size_off = s.riff_size_off /\ w.movi_size_off = s.movi_size_off
      /\ w.segments = s.segments /\ w.trailer_written = s.trailer_written
      /\ w.rec_open_size_off = s.rec_open_size_off
      /\ w.strl_std_active = s.strl_std_active
  BY <1>3 DEF Only, Fields
<1> QED BY <1>2, <1>3, <1>4, GoingKept

\* A chunk of the caller, placed.
LEMMA PlacedGoing ==
  ASSUME NEW s, Going(s), NEW cell, IsMedia(cell), NEW w, Sound(w),
         Placed(s, w, cell), Only(s, w, PlacedFields),
         w.strl_std_active => s.strl_std_active
  PROVE  Going(w) /\ Tidy(s, w)
<1>1. Typed(s) /\ Below(s) BY DEF Going, Sound, Good
<1>2. /\ w.pos = s.pos + 8 + Pad(cell.len)
      /\ DOMAIN w.disk = DOMAIN s.disk \cup {s.pos}
      /\ w.disk[s.pos] = cell
      /\ \A at \in DOMAIN s.disk : w.disk[at] = s.disk[at] /\ at # s.pos
  BY DEF Placed
<1>3. w.pos >= s.pos
  <2>1. s.pos \in Nat /\ cell.len \in Nat BY <1>1 DEF Typed, MuxerRecord, IsMedia, CellType
  <2>2. Pad(cell.len) \in Nat BY <2>1 DEF Pad
  <2> QED BY <1>2, <2>1, <2>2
<1> DEFINE ids == {cell.id}
<1>4. Writes(s, w, {}, ids)
  <2>1. s.pos \in Nat BY <1>1 DEF Typed, MuxerRecord
  <2> QED BY <1>2, <1>3, <2>1 DEF Writes, Resized
<1>5. "ix" \notin ids BY DEF IsMedia, MediaIds
<1>6. /\ w.riff_size_off = s.riff_size_off /\ w.movi_size_off = s.movi_size_off
      /\ w.segments = s.segments /\ w.trailer_written = s.trailer_written
      /\ w.rec_open_size_off = s.rec_open_size_off
  BY DEF Only, Fields, PlacedFields, PlaceFields
<1> HIDE DEF ids
<1> QED BY <1>4, <1>5, <1>6, GoingKept

LEMMA PlaceSideGoing ==
  ASSUME NEW s, Going(s), NEW cell, IsMedia(cell), cell.id # "data",
         NEW w, w = PlaceChunk(s, s.pos, cell, NoField2), opts \in Options
  PROVE  Going(w) /\ Tidy(s, w)
<1>1. Sound(s) /\ Good(s) BY DEF Going, Sound
<1>2. Sound(w) BY <1>1, PlaceSideSound
<1>3. PICK f2 \in Nat \cup {NoField2} : w = PlaceChunk(s, s.pos, cell, f2)
  OBVIOUS
<1>4. /\ Placed(s, w, cell) /\ Only(s, w, PlaceFields)
      /\ w.strl_std_active => s.strl_std_active
  BY <1>1, <1>3, PlaceChunkStep
<1>5. Only(s, w, PlacedFields) BY <1>4, OnlyMore DEF PlacedFields
<1> QED BY <1>2, <1>4, <1>5, PlacedGoing

LEMMA PlacePacketGoing ==
  ASSUME NEW s, Going(s), NEW p \in Packets, NEW w, w = PlacePacket(s, s.pos, p),
         opts.granularity > 0 => s.pos % opts.granularity = 0, opts \in Options
  PROVE  Going(w) /\ Tidy(s, w)
<1> DEFINE cell == PacketCell(p)
<1>1. Sound(s) /\ Good(s) BY DEF Going, Sound
<1>2. Sound(w) BY <1>1, PlacePacketSound
<1>3. /\ Placed(s, w, cell) /\ Only(s, w, PlacedFields)
      /\ w.strl_std_active => s.strl_std_active
  <2>1. /\ Placed(s, w, cell)
        /\ Only(s, w, PlaceFields \cup {"segment_packets", "pending_field2"})
        /\ w.strl_std_active => s.strl_std_active
    <3>1. w = PlacePacket(s, s.pos, p) OBVIOUS
    <3> QED BY ONLY <1>1, <3>1, p \in Packets, PlacePacketStep
  <2> QED BY <2>1 DEF PlacedFields
<1>4. IsMedia(cell) BY PacketCellMedia
<1> HIDE DEF cell
<1> QED BY <1>2, <1>3, <1>4, PlacedGoing

\* The mid-movi flush: a stream is on the list only when no compact layout was
\* asked for.
LEMMA MidMoviFlushGoing ==
  ASSUME NEW s, Going(s), s.ok, NEW t \in Streams, NEW w, w = MidMoviFlush(s, t),
         opts \in Options
  PROVE  Going(w) /\ Tidy(s, w)
<1> DEFINE c == CloseRecCluster(s)
           f == FlushIxForTrack(c, t)
<1>1. Sound(s) /\ Good(s) BY DEF Going, Sound
<1>2. w = s \/ (opts.mid[t] > 0 /\ w = c) \/ (opts.mid[t] > 0 /\ c.ok /\ w = f)
  BY DEF MidMoviFlush, Then
<1>3. /\ Going(c) /\ Tidy(s, c)
      /\ c.rec_open_size_off = NoList /\ c.strl_std_active = s.strl_std_active
  BY CloseRecClusterGoing
<1> HIDE DEF c
<1>4. CASE w = s BY <1>1, <1>4, TidySame DEF Good
<1>5. CASE w = c BY <1>3, <1>5
<1>6. CASE opts.mid[t] > 0 /\ c.ok /\ w = f
  <2>1. opts.mid[t] # 0 BY <1>6
  <2>2. ~c.strl_std_active
    BY <2>1, <1>3 DEF Going, Compact, StrlStdRequested
  <2>3. Sound(c) /\ Good(c) BY <1>3 DEF Going, Sound
  <2>4. Good(f) /\ IxFlush(c, f) BY <2>3, FlushIxForTrackGood, FlushIxForTrackStep
  <2> HIDE DEF f
  <2>5. Neutral(c, f) BY <1>3, <2>3, <2>4, FlushNeutral
  <2>6. Sound(f) BY <2>3, <2>4, <2>5, NeutralSound
  <2>7. Going(f) /\ Tidy(c, f) BY <1>3, <2>2, <2>4, <2>6, IxFlushGoing
  <2>8. Typed(s) /\ Typed(c) /\ Typed(f) BY <1>1, <2>3, <2>4 DEF Good
  <2>9. Tidy(s, f) BY <1>3, <1>6, <2>7, <2>8, TidyTrans
  <2> QED BY <1>6, <2>7, <2>9
<1> QED BY <1>2, <1>4, <1>5, <1>6

\* The 2 GiB test.
LEMMA CheckCeilingGoing ==
  ASSUME NEW s, Going(s), NEW w, w = CheckCeiling(s)
  PROVE  Going(w) /\ Tidy(s, w)
<1>1. w = s \/ w = SetOk(s, FALSE)
  BY DEF CheckCeiling, SetOk
<1>2. CASE w = s BY <1>2, TidySame DEF Going, Sound, Good
<1>3. CASE w = SetOk(s, FALSE) BY <1>3, SetOkGoing
<1> QED BY <1>1, <1>2, <1>3
-----------------------------------------------------------------------------
(* write_trailer and write_header                                          *)

\* There is a first video stream if there is a video stream at all.
LEMMA FirstVideo ==
  ASSUME VideoStreams # {}
  PROVE  FirstOf(VideoStreams) \in VideoStreams
<1>1. VideoStreams \subseteq Nat
  BY MuxerAssumption DEF VideoStreams, Streams
<1>2. PICK t \in VideoStreams : \A u \in VideoStreams : t <= u
  BY <1>1, NatLeast
<1> QED BY <1>2 DEF FirstOf

\* The patches of write_trailer leave the RIFF layout alone, stamp the counts of
\* the packets on disk and fill the indx of every stream.
LEMMA PatchesDone ==
  ASSUME NEW s, Sound(s), opts \in Options,
         OpenDml /\ s.strl_std_active => /\ \A at \in DOMAIN s.disk : s.disk[at].id # "ix"
                                         /\ Len(s.segments) = 1,
         NEW w, w = Conclude(PatchIndx(PatchPostCounts(s)))
  PROVE  /\ w.disk = s.disk /\ w.pos = s.pos /\ w.header_written
         /\ StampsRight(w) /\ OneLayout(w)
<1> DEFINE u == PatchPostCounts(s)
           v == PatchIndx(u)
<1>1. w = Conclude(v) OBVIOUS
<1>2. Good(s) BY DEF Sound
<1>3. /\ Only(s, u, {"stamp"})
      /\ \A t \in VideoStreams : u.stamp.length[t] = s.tracks[t].packet_count
      /\ VideoStreams # {} => u.stamp.frames = s.tracks[FirstOf(VideoStreams)].packet_count
      /\ \A t \in Streams : s.tracks[t].max_chunk_size <= u.stamp.buffer
  BY <1>2, PatchPostCountsStep
<1>4. Good(u) BY <1>2, PatchPostCountsGood
<1> HIDE DEF u
<1>5. /\ Only(u, v, {"tracks"})
      /\ OpenDml => \A t \in Streams :
           v.tracks[t].indx.kind = IF u.strl_std_active THEN "std" ELSE "super"
  BY <1>4, PatchIndxStep
<1>6. Good(v) BY <1>4, PatchIndxGood
<1> HIDE DEF v
<1>7. Only(v, w, {"over_budget", "ok", "trailer_written"}) BY <1>1, <1>6, ConcludeStep
<1>8. /\ u.disk = s.disk /\ u.pos = s.pos /\ u.segments = s.segments
      /\ u.strl_std_active = s.strl_std_active
      /\ u.header_written = s.header_written
  BY <1>3 DEF Only, Fields
<1>9. /\ v.disk = u.disk /\ v.pos = u.pos /\ v.segments = u.segments
      /\ v.strl_std_active = u.strl_std_active /\ v.stamp = u.stamp
      /\ v.header_written = u.header_written
  BY <1>5 DEF Only, Fields
<1>10. /\ w.disk = v.disk /\ w.pos = v.pos /\ w.segments = v.segments
       /\ w.strl_std_active = v.strl_std_active /\ w.stamp = v.stamp
       /\ w.tracks = v.tracks /\ w.header_written = v.header_written
  BY <1>7 DEF Only, Fields
<1>11. w.disk = s.disk /\ w.pos = s.pos /\ w.segments = s.segments
       /\ w.strl_std_active = s.strl_std_active /\ w.stamp = u.stamp
       /\ w.header_written
  BY <1>2, <1>8, <1>9, <1>10 DEF Good
<1>12. StampsRight(w)
  <2>1. Counts(s) BY DEF Sound
  <2>2. \A t : DataOf(w, t) = DataOf(s, t) BY <1>11 DEF DataOf
  <2>3. \A t \in VideoStreams : t \in Streams BY DEF VideoStreams
  <2>4. \A t \in VideoStreams : w.stamp.length[t] = Cardinality(DataOf(w, t))
    BY <1>3, <1>11, <2>1, <2>2, <2>3 DEF Counts
  <2>5. VideoStreams # {} => w.stamp.frames = w.stamp.length[FirstOf(VideoStreams)]
    BY <1>3, <1>11, FirstVideo
  <2>6. ASSUME NEW at \in DOMAIN w.disk, w.disk[at].id = "data"
        PROVE  w.disk[at].len <= w.stamp.buffer
    <3>1. at \in DOMAIN s.disk /\ s.disk[at].id = "data" BY <1>11, <2>6
    <3> DEFINE t == s.disk[at].trk
    <3>2. t \in Streams /\ s.disk[at].len <= s.tracks[t].max_chunk_size
      BY <2>1, <3>1 DEF Counts, DataOf
    <3>3. s.disk[at].len \in Nat BY <1>2, <3>1 DEF Good, Typed, DiskOK, CellType
    <3>4. s.tracks[t].max_chunk_size \in Nat
      <4>1. s.tracks[t] \in TrackState BY <1>2, <3>2 DEF Good, Typed, MuxerRecord
      <4> QED BY <4>1 DEF TrackState
    <3>5. u.stamp.buffer \in Nat BY <1>4 DEF Good, Typed, MuxerRecord
    <3>6. s.tracks[t].max_chunk_size <= u.stamp.buffer BY <1>3, <3>2
    <3> HIDE DEF t
    <3> QED BY <1>11, <3>2, <3>3, <3>4, <3>5, <3>6
  <2> QED BY <2>4, <2>5, <2>6 DEF StampsRight
<1>13. OneLayout(w)
  <2>1. CASE s.strl_std_active BY <1>11, <2>1 DEF OneLayout
  <2>2. CASE ~s.strl_std_active
    BY <1>5, <1>8, <1>10, <1>11, <2>2 DEF OneLayout
  <2> QED BY <2>1, <2>2
<1> QED BY <1>11, <1>12, <1>13

\* write_trailer, before which no call has closed the last segment.
LEMMA WriteTrailerDone ==
  ASSUME Going(m), WriteTrailer, opts \in Options
  PROVE  /\ Tidy(m, m') /\ m'.header_written
         /\ m'.trailer_written => StampsRight(m') /\ OneLayout(m')
<1> DEFINE s0 == SetOk(m, TRUE)
           s1 == CloseRecCluster(s0)
           s2 == IF OpenDml /\ ~s1.strl_std_active THEN FlushIxChunks(s1) ELSE s1
           f == FinishSegment(s2)
           s3 == Then(s1, f)
           s4 == Conclude(PatchIndx(PatchPostCounts(s3)))
<1>1. m' = Then(s3, s4)
  BY DEF WriteTrailer, SetOk
<1>2. Going(s0) /\ Tidy(m, s0) /\ s0.ok
  <2>1. Typed(m) BY DEF Going, Sound, Good
  <2> QED BY <2>1, SetOkGoing, OkTyped
<1> HIDE DEF s0
<1>3. Going(s1) /\ Tidy(s0, s1) /\ s1.rec_open_size_off = NoList
  BY <1>2, CloseRecClusterGoing
<1> HIDE DEF s1
<1>4. Sound(s1) /\ Good(s1) BY <1>3 DEF Going, Sound
<1>5. /\ Going(s2) /\ Tidy(s1, s2) /\ s2.ok = s1.ok
      /\ s2.rec_open_size_off = NoList
  <2>1. CASE OpenDml /\ ~s1.strl_std_active
    <3>1. s2 = FlushIxChunks(s1) BY <2>1
    <3> HIDE DEF s2
    <3>2. Sound(s2) /\ s2.rec_open_size_off = NoList /\ s2.ok = s1.ok
      BY <1>3, <1>4, <3>1, FlushIxChunksSound
    <3>3. IxFlush(s1, s2) BY <1>4, <3>1, FlushIxChunksStep
    <3> QED BY <1>3, <2>1, <3>2, <3>3, IxFlushGoing
  <2>2. CASE ~(OpenDml /\ ~s1.strl_std_active)
    <3>1. s2 = s1 BY <2>2
    <3> HIDE DEF s2
    <3>2. Tidy(s1, s1) BY <1>4, TidySame DEF Good
    <3> QED BY <1>3, <3>1, <3>2
  <2> QED BY <2>1, <2>2
<1> HIDE DEF s2
<1>6. ASSUME s1.ok
      PROVE  /\ Tidy(s2, f) /\ Sound(f) /\ ~f.trailer_written
             /\ f.ok /\ OpenDml /\ f.strl_std_active =>
                  /\ \A at \in DOMAIN f.disk : f.disk[at].id # "ix"
                  /\ Len(f.segments) = 1
  <2>1. Sound(s2) /\ Good(s2) /\ Sealed(s2) /\ Compact(s2) /\ ~s2.trailer_written /\ s2.ok
    BY <1>5, <1>6 DEF Going, Sound
  <2>2. Sound(f) BY <1>5, <2>1, FinishSegmentSound
  <2>3. Tidy(s2, f) BY <2>1, FinishSegmentTidy
  <2>4. /\ Only(s2, f, {"ok", "disk", "pos", "segments"})
        /\ Writes(s2, f, {s2.riff_size_off - 4, s2.movi_size_off - 4}, {"idx1"})
        /\ f.ok /\ OpenDml => Len(f.segments) = Len(s2.segments) + 1
    BY <2>1, FinishSegmentStep
  <2>5. f.strl_std_active = s2.strl_std_active /\ f.trailer_written = s2.trailer_written
    BY <2>4 DEF Only, Fields
  <2>6. f.strl_std_active => \A at \in DOMAIN f.disk : f.disk[at].id # "ix"
    <3>1. \A at \in DOMAIN f.disk :
            \/ at \in DOMAIN s2.disk /\ f.disk[at].id = s2.disk[at].id
            \/ f.disk[at].id = "idx1"
      BY <2>4 DEF Writes, Resized
    <3> QED BY <2>1, <2>5, <3>1 DEF Compact
  <2>7. f.strl_std_active => Len(s2.segments) = 0 BY <2>1, <2>5 DEF Compact
  <2>8. f.ok /\ OpenDml => Len(f.segments) = Len(s2.segments) + 1 BY <2>4
  <2>9. f.ok /\ OpenDml /\ f.strl_std_active => Len(f.segments) = 1
    <3> DEFINE n == Len(s2.segments)
               k == Len(f.segments)
    <3> HIDE DEF n, k
    <3>1. f.ok /\ OpenDml => k = n + 1 BY <2>8 DEF n, k
    <3>2. f.strl_std_active => n = 0 BY <2>7 DEF n
    <3>3. f.ok /\ OpenDml /\ f.strl_std_active => k = 1 BY <3>1, <3>2
    <3> QED BY <3>3 DEF k
  <2> QED BY <2>1, <2>2, <2>3, <2>5, <2>6, <2>9
<1> HIDE DEF f
<1>7. Typed(m) /\ Typed(s0) /\ Typed(s1) /\ Typed(s2)
  BY <1>2, <1>3, <1>5 DEF Going, Sound, Good
<1>8. Tidy(m, s1) BY <1>2, <1>3, <1>7, TidyTrans
<1>9. CASE ~s1.ok
  <2>1. m' = s1 BY <1>1, <1>9 DEF Then
  <2> QED BY <1>3, <1>8, <2>1 DEF Going, Sound, Good
<1>10. CASE s1.ok
  <2>1. s3 = f BY <1>10 DEF Then
  <2> HIDE DEF s3
  <2>2. Typed(f) BY <1>6, <1>10 DEF Sound, Good
  <2>3. Tidy(m, s2) BY <1>5, <1>7, <1>8, TidyTrans
  <2>4. Tidy(m, f) BY <1>5, <1>6, <1>7, <1>10, <2>2, <2>3, TidyTrans
  <2>5. CASE ~f.ok
    <3>1. m' = f BY <1>1, <2>1, <2>5 DEF Then
    <3> QED BY <1>6, <1>10, <2>4, <3>1 DEF Sound, Good
  <2>6. CASE f.ok
    <3>1. m' = s4 BY <1>1, <2>1, <2>6 DEF Then
    <3>2. s4.disk = f.disk /\ s4.pos = f.pos /\ s4.header_written
          /\ StampsRight(s4) /\ OneLayout(s4)
      BY <1>6, <1>10, <2>1, <2>6, PatchesDone
    <3> HIDE DEF s4
    <3>3. Tidy(m, s4) BY <2>4, <2>6, <3>2 DEF Tidy
    <3> QED BY <3>1, <3>2, <3>3
  <2> QED BY <2>5, <2>6
<1> QED BY <1>9, <1>10
-----------------------------------------------------------------------------
(* The specification                                                       *)

DInv ==
  /\ SInv
  /\ m.header_written /\ trailers = 0 => Going(m)
  /\ ~m.header_written => trailers = 0 /\ ~m.trailer_written /\ Compact(m)
  /\ m.trailer_written => StampsRight(m) /\ OneLayout(m)

LEMMA DisciplineNext ==
  ASSUME opts' = opts, SInv',
         m'.header_written /\ trailers' = 0 => Going(m'),
         ~m'.header_written => trailers' = 0 /\ ~m'.trailer_written /\ Compact(m'),
         m'.trailer_written => StampsRight(m') /\ OneLayout(m')
  PROVE  DInv'
<1>1. Sound(m') <=> Sound(m)' BY SoundPrimed
<1>2. Sealed(m') <=> Sealed(m)' BY DEF Sealed
<1>3. Compact(m') <=> Compact(m)' BY DEF Compact, StrlStdRequested
<1>4. Going(m') <=> Going(m)' BY <1>1, <1>2, <1>3 DEF Going
<1>5. StampsRight(m') <=> StampsRight(m)' BY DEF StampsRight, DataOf
<1>6. OneLayout(m') <=> OneLayout(m)' BY DEF OneLayout, OpenDml
<1> QED BY <1>3, <1>4, <1>5, <1>6 DEF DInv

\* open_avi
LEMMA InitDInv == Init => DInv
<1> SUFFICES ASSUME Init PROVE DInv
  OBVIOUS
<1>1. SInv BY InitSInv
<1>2. /\ ~m.header_written /\ ~m.trailer_written /\ trailers = 0
      /\ m.disk = <<>> /\ m.segments = <<>>
      /\ m.strl_std_active = StrlStdRequested(opts)
  BY Zenon DEF Init
<1>3. DOMAIN m.disk = {} BY <1>2
<1>4. Compact(m) BY <1>2, <1>3 DEF Compact
<1> QED BY <1>1, <1>2, <1>4 DEF DInv

\* write_header
LEMMA WriteHeaderDInv ==
  ASSUME DInv, WriteHeader
  PROVE  DInv' /\ Tidy(m, m')
<1>1. SInv /\ Early(m) /\ opts \in Options
  BY DEF DInv, SInv, Sound, WriteHeader, Good
<1>2. m' = HeaderState(m) /\ opts' = opts
  BY DEF WriteHeader, HeaderState, SetHeader
<1>3. SInv' BY <1>1, WriteHeaderSInv
<1>4. Sound(m') BY <1>1, <1>2, HeaderSound
<1>5. Fresh(m) BY <1>1 DEF Early
<1>6. /\ Only(m, m', {"disk", "pos"} \cup HeaderFields)
      /\ Writes(m, m', {}, {"RIFF", "hdrl", "movi"})
      /\ m'.riff_size_off = 4 /\ m'.movi_size_off = 16 + opts.hdrl
      /\ m'.rec_open_size_off = NoList
      /\ m'.disk[0] = Cell("RIFF", NoTrack, 0)
      /\ m'.disk[12 + opts.hdrl] = Cell("movi", NoTrack, 0)
  BY <1>1, <1>2, <1>5, HeaderStep
<1>7. /\ m'.segments = m.segments /\ m'.strl_std_active = m.strl_std_active
      /\ m'.trailer_written = m.trailer_written
  BY <1>6 DEF Only, Fields, HeaderFields
<1>8. Sealed(m')
  <2>1. opts.hdrl \in Nat BY <1>1, OptsTyped DEF Config
  <2>2. m'.riff_size_off - 4 = 0 /\ m'.movi_size_off - 4 = 12 + opts.hdrl
    BY <1>6, <2>1
  <2>3. m'.disk[0].len = 0 /\ m'.disk[12 + opts.hdrl].len = 0 BY <1>6 DEF Cell
  <2> QED BY <1>6, <2>2, <2>3 DEF Sealed
<1>9. ~m.trailer_written /\ Compact(m) /\ ~m.header_written
  BY DEF DInv, WriteHeader
<1>10. Compact(m') BY <1>6, <1>7, <1>9, CompactKept
<1>11. Going(m') BY <1>4, <1>7, <1>8, <1>9, <1>10 DEF Going
<1>12. m'.header_written BY <1>4 DEF Sound, Good
<1>13. DInv' BY <1>2, <1>3, <1>7, <1>9, <1>11, <1>12, DisciplineNext
<1>14. Tidy(m, m') BY <1>6, WritesTidy
<1> QED BY <1>13, <1>14

\* write_packet
LEMMA WritePacketDInv ==
  ASSUME DInv, Disciplined, NEW p \in Packets, WritePacket(p)
  PROVE  DInv' /\ Tidy(m, m')
<1> DEFINE s0 == SetOk(m, TRUE)
           s1 == Roll(s0, p.len)
           s2 == Then(s1, Cluster(s1, p.len))
           s3 == Then(s2, EmitPaddingJunk(s2))
           s4 == Then(s3, PlacePacket(s3, s3.pos, p))
           s5 == Then(s4, MidMoviFlush(s4, p.trk))
           s6 == Then(s5, CheckCeiling(s5))
<1>1. m' = s6 /\ opts' = opts /\ trailers' = trailers
  BY PacketSteps
<1>2. opts \in Options /\ p.trk \in Streams BY MuxerAssumption DEF DInv, SInv
<1>3. Going(m) BY DEF DInv, WritePacket, MayWrite
<1>4. SInv' BY WritePacketSInv DEF DInv
<1>5. Going(s0) /\ Tidy(m, s0) /\ s0.ok
  <2>1. Typed(m) BY <1>3 DEF Going, Sound, Good
  <2> QED BY <1>3, <2>1, SetOkGoing, OkTyped
<1> HIDE DEF s0
<1>6. Going(s1) /\ Tidy(s0, s1) BY <1>5, RollGoing
<1> HIDE DEF s1
<1>7. Going(s2) /\ Tidy(s1, s2) /\ (s2.ok => s1.ok)
  <2>1. Tidy(s1, s1) BY <1>6, TidySame DEF Going, Sound, Good
  <2> QED BY <1>2, <1>6, <2>1, ClusterGoing DEF Then
<1> HIDE DEF s2
<1>8. /\ Going(s3) /\ Tidy(s2, s3) /\ (s3.ok => s2.ok)
      /\ s3.ok => (opts.granularity > 0 => s3.pos % opts.granularity = 0)
  <2>1. Tidy(s2, s2) /\ Sound(s2) BY <1>7, TidySame DEF Going, Sound, Good
  <2> QED BY <1>2, <1>7, <2>1, EmitPaddingJunkGoing, EmitPaddingJunkSound DEF Then
<1> HIDE DEF s3
<1>9. Going(s4) /\ Tidy(s3, s4) /\ (s4.ok => s3.ok)
  <2>1. Tidy(s3, s3) BY <1>8, TidySame DEF Going, Sound, Good
  <2> QED BY <1>2, <1>8, <2>1, PlacePacketGoing DEF Then
<1> HIDE DEF s4
<1>10. Going(s5) /\ Tidy(s4, s5) /\ (s5.ok => s4.ok)
  <2>1. Tidy(s4, s4) BY <1>9, TidySame DEF Going, Sound, Good
  <2> QED BY <1>2, <1>9, <2>1, MidMoviFlushGoing DEF Then
<1> HIDE DEF s5
<1>11. Going(s6) /\ Tidy(s5, s6) /\ (s6.ok => s5.ok)
  <2>1. Tidy(s5, s5) BY <1>10, TidySame DEF Going, Sound, Good
  <2> QED BY <1>10, <2>1, CheckCeilingGoing DEF Then
<1> HIDE DEF s6
<1>12. /\ Typed(m) /\ Typed(s0) /\ Typed(s1) /\ Typed(s2) /\ Typed(s3)
       /\ Typed(s4) /\ Typed(s5) /\ Typed(s6)
  BY <1>3, <1>5, <1>6, <1>7, <1>8, <1>9, <1>10, <1>11 DEF Going, Sound, Good
<1>13. Tidy(s4, s6) BY <1>10, <1>11, <1>12, TidyTrans
<1>14. Tidy(s3, s6) BY <1>9, <1>10, <1>11, <1>12, <1>13, TidyTrans
<1>15. Tidy(s2, s6) BY <1>8, <1>9, <1>10, <1>11, <1>12, <1>14, TidyTrans
<1>16. Tidy(s1, s6) BY <1>7, <1>8, <1>9, <1>10, <1>11, <1>12, <1>15, TidyTrans
<1>17. Tidy(s0, s6) BY <1>6, <1>7, <1>8, <1>9, <1>10, <1>11, <1>12, <1>16, TidyTrans
<1>18. Tidy(m, s6) BY <1>5, <1>12, <1>17, TidyTrans
<1>19. m'.header_written /\ ~m'.trailer_written
  BY <1>1, <1>11 DEF Going, Sound, Good
<1>20. DInv' BY <1>1, <1>4, <1>11, <1>19, DisciplineNext
<1> QED BY <1>1, <1>18, <1>20
\* write_text_chunk and write_palette_change
LEMMA WriteSidebandChunkDInv ==
  ASSUME DInv, Disciplined, NEW c \in SideChunks, WriteSidebandChunk(c)
  PROVE  DInv' /\ Tidy(m, m')
<1> DEFINE cell == Cell(c.kind, c.trk, c.len)
           s0 == SetOk(m, TRUE)
           s1 == Roll(s0, c.len)
           s2 == Then(s1, Cluster(s1, c.len))
           s3 == Then(s2, PlaceChunk(s2, s2.pos, cell, NoField2))
<1>1. m' = s3 /\ opts' = opts /\ trailers' = trailers
  BY DEF WriteSidebandChunk, SetOk
<1>2. IsMedia(cell) /\ cell.id # "data" BY SideCellMedia
<1> HIDE DEF cell
<1>3. opts \in Options /\ Going(m)
  BY DEF DInv, SInv, WriteSidebandChunk, MayWrite
<1>4. SInv' BY WriteSidebandChunkSInv DEF DInv
<1>5. Going(s0) /\ Tidy(m, s0) /\ s0.ok
  <2>1. Typed(m) BY <1>3 DEF Going, Sound, Good
  <2> QED BY <1>3, <2>1, SetOkGoing, OkTyped
<1> HIDE DEF s0
<1>6. Going(s1) /\ Tidy(s0, s1) BY <1>5, RollGoing
<1> HIDE DEF s1
<1>7. Going(s2) /\ Tidy(s1, s2) /\ (s2.ok => s1.ok)
  <2>1. Tidy(s1, s1) BY <1>6, TidySame DEF Going, Sound, Good
  <2> QED BY <1>3, <1>6, <2>1, ClusterGoing DEF Then
<1> HIDE DEF s2
<1>8. Going(s3) /\ Tidy(s2, s3) /\ (s3.ok => s2.ok)
  <2>1. Tidy(s2, s2) BY <1>7, TidySame DEF Going, Sound, Good
  <2> QED BY <1>2, <1>3, <1>7, <2>1, PlaceSideGoing DEF Then
<1> HIDE DEF s3
<1>9. Typed(m) /\ Typed(s0) /\ Typed(s1) /\ Typed(s2) /\ Typed(s3)
  BY <1>3, <1>5, <1>6, <1>7, <1>8 DEF Going, Sound, Good
<1>10. Tidy(s1, s3) BY <1>7, <1>8, <1>9, TidyTrans
<1>11. Tidy(s0, s3) BY <1>6, <1>7, <1>8, <1>9, <1>10, TidyTrans
<1>12. Tidy(m, s3) BY <1>5, <1>9, <1>11, TidyTrans
<1>13. m'.header_written /\ ~m'.trailer_written
  BY <1>1, <1>8 DEF Going, Sound, Good
<1>14. DInv' BY <1>1, <1>4, <1>8, <1>13, DisciplineNext
<1> QED BY <1>1, <1>12, <1>14

\* write_trailer: after it nothing is written any more.
LEMMA WriteTrailerDInv ==
  ASSUME DInv, Disciplined, WriteTrailer
  PROVE  DInv' /\ Tidy(m, m')
<1>1. opts \in Options /\ Going(m)
  BY DEF DInv, SInv, WriteTrailer
<1>2. SInv' BY WriteTrailerSInv DEF DInv
<1>3. /\ Tidy(m, m') /\ m'.header_written
      /\ m'.trailer_written => StampsRight(m') /\ OneLayout(m')
  BY <1>1, WriteTrailerDone
<1>4. opts' = opts /\ trailers' = trailers + 1 BY DEF WriteTrailer
<1>5. trailers' # 0 BY <1>4 DEF DInv, WriteTrailer
<1>6. DInv' BY <1>2, <1>3, <1>4, <1>5, DisciplineNext
<1> QED BY <1>3, <1>6

\* The calls that write nothing.
LEMMA LightDInv ==
  ASSUME DInv,
         (\E off \in Field2Offs : SetField2Offset(off)) \/ EarlyReturn
  PROVE  DInv' /\ Tidy(m, m')
<1>1. SInv' BY LightSInv DEF DInv
<1>2. Typed(m) BY DEF DInv, SInv, Sound, Early, Good, Fresh
<1>3. opts' = opts /\ trailers' = trailers BY DEF SetField2Offset, EarlyReturn
<1>4. Only(m, m', {"ok", "pending_field2"})
  <2>1. ASSUME NEW off \in Field2Offs, SetField2Offset(off)
        PROVE  Only(m, m', {"ok", "pending_field2"})
    <3>1. m' = SetPending(m, off) BY <2>1 DEF SetField2Offset, SetPending
    <3> QED BY <1>2, <3>1 DEF Typed, MuxerRecord, SetPending, Only, Fields
  <2>2. ASSUME EarlyReturn PROVE Only(m, m', {"ok", "pending_field2"})
    <3>1. PICK b \in BOOLEAN : m' = SetOk(m, b)
      BY <2>2 DEF EarlyReturn, SetOk
    <3> QED BY <1>2, <3>1 DEF Typed, MuxerRecord, SetOk, Only, Fields
  <2> QED BY <2>1, <2>2
<1>5. /\ m'.disk = m.disk /\ m'.pos = m.pos /\ m'.tracks = m.tracks
      /\ m'.segments = m.segments /\ m'.stamp = m.stamp
      /\ m'.header_written = m.header_written
      /\ m'.trailer_written = m.trailer_written
      /\ m'.strl_std_active = m.strl_std_active
      /\ m'.rec_open_size_off = m.rec_open_size_off
      /\ m'.riff_size_off = m.riff_size_off /\ m'.movi_size_off = m.movi_size_off
  BY <1>4 DEF Only, Fields
<1>6. Tidy(m, m')
  <2>1. Tidy(m, m) BY <1>2, TidySame
  <2> QED BY <1>5, <2>1 DEF Tidy
<1>7. Compact(m) => Compact(m') BY <1>5 DEF Compact
<1>8. Going(m) => Going(m')
  <2>1. Sealed(m) => Sealed(m') BY <1>5 DEF Sealed
  <2>2. Going(m) => Sound(m')
    <3>1. SInv' => Sound(m)' \/ Early(m)' BY DEF SInv
    <3>2. Going(m) => m.header_written BY DEF Going, Sound, Good
    <3>3. Early(m)' => ~m'.header_written BY DEF Early, Fresh
    <3> QED BY <1>1, <1>3, <1>5, <3>1, <3>2, <3>3, SoundPrimed
  <2> QED BY <1>5, <1>7, <2>1, <2>2 DEF Going
<1>9. StampsRight(m) => StampsRight(m') BY <1>5 DEF StampsRight, DataOf
<1>10. OneLayout(m) => OneLayout(m') BY <1>5 DEF OneLayout
<1>11. DInv'
  BY <1>1, <1>3, <1>5, <1>7, <1>8, <1>9, <1>10, DisciplineNext DEF DInv
<1> QED BY <1>6, <1>11

\* Nothing happens.
LEMMA StutterDInv ==
  ASSUME DInv, UNCHANGED vars
  PROVE  DInv'
<1>1. SInv' BY LightSInv DEF DInv
<1>2. m' = m /\ opts' = opts /\ trailers' = trailers BY DEF vars
<1> QED BY <1>1, <1>2, DisciplineNext DEF DInv

\* A step of the muxer keeps DInv, and what is on disk.
LEMMA NextDInv ==
  ASSUME DInv, Disciplined, Next
  PROVE  DInv' /\ Tidy(m, m')
BY WriteHeaderDInv, WritePacketDInv, WriteSidebandChunkDInv, WriteTrailerDInv,
   LightDInv DEF Next

\* DInv is an invariant of the muxer for a disciplined caller.
THEOREM DisciplineAlways ==
  ASSUME Disciplined
  PROVE  Spec => []DInv
<1>1. DInv /\ [Next]_vars => DInv' BY NextDInv, StutterDInv
<1> QED BY <1>1, InitDInv, PTL DEF Spec

\* In a finished OpenDML file the in-strl standard indexes and the ix## chunks
\* exclude each other, over every roll and every overflow of the compact layout.
THEOREM OneIndexLayoutHolds ==
  ASSUME Disciplined
  PROVE  Spec => []OneIndexLayout
<1>1. DInv => OneIndexLayout
  BY DEF DInv, OneLayout, OneIndexLayout, Chunks
<1> QED BY <1>1, DisciplineAlways, PTL

\* The counts write_trailer stamps are those of the packets on disk, over all
\* segments, and the read buffer holds every packet.
THEOREM StampsCountHolds ==
  ASSUME Disciplined
  PROVE  Spec => []StampsCount
<1>1. DInv => StampsCount
  <2> SUFFICES ASSUME DInv, m.trailer_written PROVE StampsCount
    BY DEF StampsCount
  <2>1. StampsRight(m) BY DEF DInv
  <2>2. \A t : {at \in MediaOf(t) : m.disk[at].id = "data"} = DataOf(m, t)
    BY DEF MediaOf, Chunks, MediaIds, DataOf
  <2>3. Chunks(m, {"data"}) = {at \in DOMAIN m.disk : m.disk[at].id = "data"}
    BY DEF Chunks
  <2> QED BY <2>1, <2>2, <2>3 DEF StampsCount, StampsRight
<1> QED BY <1>1, DisciplineAlways, PTL

\* A call never moves back and never changes a chunk on disk, and one that
\* answers Ok patches the size of a list only while it is still 0.
THEOREM AppendOnlyHolds ==
  ASSUME Disciplined
  PROVE  Spec => AppendOnly
<1> DEFINE Append1 ==
      /\ m'.pos >= m.pos
      /\ \A at \in DOMAIN m.disk :
           /\ at \in DOMAIN m'.disk
           /\ m'.disk[at] # m.disk[at] =>
                /\ m.disk[at].id \in ListIds
                /\ m'.ok => m.disk[at].len = 0
                /\ m'.disk[at] = [m.disk[at] EXCEPT !.len = m'.disk[at].len]
<1>1. ASSUME DInv, Next PROVE Append1
  <2>1. DInv' /\ Tidy(m, m') BY <1>1, NextDInv
  <2>2. DiskOK(m.disk) BY <1>1 DEF DInv, SInv, Sound, Early, Good, Fresh, Typed
  <2>3. DiskOK(m'.disk)
    BY <2>1 DEF DInv, SInv, Sound, Early, Good, Fresh, Typed
  <2>4. \A at \in DOMAIN m.disk :
          /\ at \in DOMAIN m'.disk /\ m.disk[at] \in CellType /\ m'.disk[at] \in CellType
          /\ Resized(m.disk[at], m'.disk[at])
    BY <2>1, <2>2, <2>3 DEF Tidy, DiskOK
  <2>5. \A at \in DOMAIN m.disk :
          m'.disk[at] = [m.disk[at] EXCEPT !.len = m'.disk[at].len]
    BY <2>4, ResizedCell
  <2> QED BY <2>1, <2>5 DEF Tidy
<1>2. DInv /\ [Next]_vars => [Append1]_vars BY <1>1
<1> QED BY <1>2, DisciplineAlways, PTL DEF Spec, AppendOnly

-----------------------------------------------------------------------------
(* The layout                                                              *)

\* Where the chunk at offset at ends; the lists at the offsets O are open.
End(s, O, at) == IF at \in O THEN s.pos ELSE at + 8 + Pad(s.disk[at].len)

\* Where the next chunk header is: behind a chunk, or in a list.
Next1(s, O, at) == IF s.disk[at].id \in ListIds THEN at + 12 ELSE End(s, O, at)

Bounds(s) == DOMAIN s.disk \cup {s.pos}

\* The list at offset l is around offset at.
Holds(s, O, l, at) ==
  /\ l \in DOMAIN s.disk
  /\ s.disk[l].id \in ListIds
  /\ l < at
  /\ at < End(s, O, l)

Holders(s, O, at) == {l \in DOMAIN s.disk : Holds(s, O, l, at)}
Kinds(s, S) == {s.disk[l].id : l \in S}

\* Every chunk is followed by a chunk or by the end of the output, and so is
\* every list by its first chunk and at its end; chunks stand in the lists of
\* their kind, lists are nested, and no open list stands in a closed one.
Laid(s, O) ==
  /\ O \subseteq DOMAIN s.disk
  /\ \A at \in O : s.disk[at].id \in ListIds
  /\ \A at \in DOMAIN s.disk :
       /\ Next1(s, O, at) \in Bounds(s)
       /\ End(s, O, at) \in Bounds(s)
       /\ Kinds(s, Holders(s, O, at)) \in Parents(s.disk[at].id)
       /\ \A l \in DOMAIN s.disk : Holds(s, O, l, at) =>
            /\ End(s, O, at) <= End(s, O, l)
            /\ at \in O => l \in O

\* The lists the fields of the muxer say are open.
OpenHeads(s) ==
  {s.riff_size_off - 4, s.movi_size_off - 4} \cup
  (IF s.rec_open_size_off = NoList THEN {} ELSE {s.rec_open_size_off - 4})

Idx1Chunks(s) == {at \in DOMAIN s.disk : s.disk[at].id = "idx1"}

\* There is one idx1 chunk, and the first RIFF ends with it.
Ended(s) ==
  /\ 0 \in DOMAIN s.disk
  /\ \E x \in DOMAIN s.disk : Idx1Chunks(s) = {x} /\ End(s, {}, x) = End(s, {}, 0)

\* The primary segment has no idx1 until it is over.
OneIdx1(s) ==
  /\ 0 \in DOMAIN s.disk
  /\ InPrimary(s) => Idx1Chunks(s) = {} /\ s.riff_size_off = 4
  /\ ~InPrimary(s) => Ended(s) /\ s.riff_size_off # 4

Framed(s) ==
  /\ Laid(s, OpenHeads(s))
  /\ s.riff_size_off < s.movi_size_off
  /\ s.rec_open_size_off # NoList => s.movi_size_off < s.rec_open_size_off
  /\ OneIdx1(s)

\* FileWellFormed, of the state of a finished muxer.
Walkable(s) == Laid(s, {}) /\ Ended(s)

\* The segment is too long for its RIFF: write_trailer cannot answer Ok.
Doomed(s) == s.pos - (s.riff_size_off + 4) > DwMax

\* What holds before write_trailer for a caller who stops at a failure.
Steady(s) == Framed(s) \/ (~s.ok /\ Doomed(s))

-----------------------------------------------------------------------------
(* Chunks added and lists closed                                           *)

\* What the layout says of one chunk.
LEMMA LaidFacts ==
  ASSUME NEW s, Typed(s), Below(s), NEW O, Laid(s, O)
  PROVE  /\ s.pos \in Nat
         /\ \A at \in DOMAIN s.disk :
              /\ at \in Nat /\ at < s.pos /\ at % 2 = 0
              /\ s.disk[at] \in CellType /\ s.disk[at].len \in Nat
              /\ Pad(s.disk[at].len) \in Nat
              /\ End(s, O, at) \in Nat /\ End(s, O, at) <= s.pos
         /\ \A at \in O : at \in DOMAIN s.disk /\ at + 12 <= s.pos
                          /\ s.disk[at].id \in ListIds
<1>1. s.pos \in Nat BY DEF Typed, MuxerRecord
<1>2. ASSUME NEW at \in DOMAIN s.disk
      PROVE  /\ at \in Nat /\ at < s.pos /\ at % 2 = 0
             /\ s.disk[at] \in CellType /\ s.disk[at].len \in Nat
             /\ Pad(s.disk[at].len) \in Nat
             /\ End(s, O, at) \in Nat /\ End(s, O, at) <= s.pos
  <2>1. at \in Nat /\ at < s.pos /\ at % 2 = 0 /\ s.disk[at] \in CellType
    BY DEF Typed, DiskOK, Below
  <2>2. s.disk[at].len \in Nat BY <2>1 DEF CellType
  <2>3. Pad(s.disk[at].len) \in Nat BY <2>2 DEF Pad
  <2>4. End(s, O, at) \in Bounds(s) BY DEF Laid
  <2>5. \A x \in Bounds(s) : x \in Nat /\ x <= s.pos
    BY <1>1 DEF Bounds, Typed, DiskOK, Below
  <2> QED BY <2>1, <2>2, <2>3, <2>4, <2>5
<1>3. ASSUME NEW at \in O
      PROVE  at \in DOMAIN s.disk /\ at + 12 <= s.pos /\ s.disk[at].id \in ListIds
  <2>1. at \in DOMAIN s.disk /\ s.disk[at].id \in ListIds BY DEF Laid
  <2>2. Next1(s, O, at) \in Bounds(s) BY <2>1 DEF Laid
  <2>3. \A x \in Bounds(s) : x <= s.pos
    BY <1>1 DEF Bounds, Typed, DiskOK, Below
  <2> QED BY <2>1, <2>2, <2>3 DEF Next1
<1> QED BY <1>1, <1>2, <1>3

\* The output is the same.
LEMMA LaidSame ==
  ASSUME NEW s, NEW O, Laid(s, O), NEW w, w.disk = s.disk, w.pos = s.pos
  PROVE  Laid(w, O)
<1>1. \A at : End(w, O, at) = End(s, O, at) BY DEF End
<1>2. \A at : Next1(w, O, at) = Next1(s, O, at) BY <1>1 DEF Next1
<1>3. \A l, at : Holds(w, O, l, at) <=> Holds(s, O, l, at) BY <1>1 DEF Holds
<1>4. \A at : Holders(w, O, at) = Holders(s, O, at) BY <1>3 DEF Holders
<1>5. \A S : Kinds(w, S) = Kinds(s, S) BY DEF Kinds
<1>6. Bounds(w) = Bounds(s) BY DEF Bounds
<1> QED BY <1>1, <1>2, <1>3, <1>4, <1>5, <1>6 DEF Laid

\* A chunk is added at the end, in the lists that are open; a list among them
\* from then on.
LEMMA LaidAdd ==
  ASSUME NEW s, Typed(s), Below(s), NEW O, Laid(s, O),
         NEW cell \in CellType, Kinds(s, O) \in Parents(cell.id),
         NEW w, Typed(w), NEW N,
         DOMAIN w.disk = DOMAIN s.disk \cup {s.pos}, w.disk[s.pos] = cell,
         \A at \in DOMAIN s.disk : w.disk[at] = s.disk[at],
         \/ cell.id \notin ListIds /\ N = O /\ w.pos = s.pos + 8 + Pad(cell.len)
         \/ cell.id \in ListIds /\ N = O \cup {s.pos} /\ w.pos = s.pos + 12
  PROVE  Laid(w, N)
<1> DEFINE p == s.pos
<1>1. /\ p \in Nat /\ p \notin DOMAIN s.disk /\ p \notin O
      /\ \A at \in DOMAIN s.disk :
           /\ at \in Nat /\ at < p /\ w.disk[at] = s.disk[at]
           /\ End(s, O, at) \in Nat /\ End(s, O, at) <= p
      /\ \A at \in O : at \in DOMAIN s.disk /\ s.disk[at].id \in ListIds
  BY LaidFacts
<1>2. cell.len \in Nat /\ Pad(cell.len) \in Nat BY DEF CellType, Pad
<1>3. w.pos \in Nat /\ p < w.pos BY <1>1, <1>2
<1>4. /\ \A at \in DOMAIN s.disk : at \in N <=> at \in O
      /\ End(w, N, p) = w.pos /\ Next1(w, N, p) = w.pos
      /\ N \subseteq DOMAIN w.disk /\ p \in N => w.disk[p].id \in ListIds
  BY <1>1, <1>2 DEF End, Next1
<1> HIDE DEF p
<1>5. \A at \in DOMAIN s.disk :
        End(w, N, at) = IF at \in O THEN w.pos ELSE End(s, O, at)
  BY <1>1, <1>4 DEF End
<1>6. DOMAIN w.disk = DOMAIN s.disk \cup {p} BY DEF p
<1>7. \A at, l \in DOMAIN s.disk : Holds(w, N, l, at) <=> Holds(s, O, l, at)
  <2> TAKE at, l \in DOMAIN s.disk
  <2>1. w.disk[l] = s.disk[l] /\ l \in DOMAIN w.disk /\ at < p BY <1>1, <1>6
  <2>2. CASE l \in O
    <3>1. End(w, N, l) = w.pos /\ End(s, O, l) = p BY <1>5, <2>2 DEF End, p
    <3>2. at < w.pos /\ at \in Nat BY <1>1, <1>3
    <3> QED BY <2>1, <3>1, <3>2 DEF Holds
  <2>3. CASE l \notin O
    <3>1. End(w, N, l) = End(s, O, l) BY <1>5, <2>3
    <3> QED BY <2>1, <3>1 DEF Holds
  <2> QED BY <2>2, <2>3
<1>8. \A l \in DOMAIN s.disk : Holds(w, N, l, p) <=> l \in O
  <2> TAKE l \in DOMAIN s.disk
  <2>1. w.disk[l] = s.disk[l] /\ l \in DOMAIN w.disk /\ l < p BY <1>1, <1>6
  <2>2. CASE l \in O
    <3>1. End(w, N, l) = w.pos /\ s.disk[l].id \in ListIds BY <1>1, <1>5, <2>2
    <3> QED BY <1>3, <2>1, <2>2, <3>1 DEF Holds
  <2>3. CASE l \notin O
    <3>1. End(w, N, l) = End(s, O, l) /\ End(s, O, l) \in Nat /\ End(s, O, l) <= p
      BY <1>1, <1>5, <2>3
    <3> QED BY <1>1, <2>3, <3>1 DEF Holds
  <2> QED BY <2>2, <2>3
<1>9. \A at \in DOMAIN w.disk : ~Holds(w, N, p, at)
  BY <1>1, <1>6 DEF Holds
<1>10. /\ Holders(w, N, p) = O
       /\ \A at \in DOMAIN s.disk : Holders(w, N, at) = Holders(s, O, at)
  <2>1. \A at \in DOMAIN w.disk :
          Holders(w, N, at) = {l \in DOMAIN s.disk : Holds(w, N, l, at)}
    BY <1>6, <1>9 DEF Holders
  <2>2. Holders(w, N, p) = O BY <1>1, <1>6, <1>8, <2>1
  <2>3. \A at \in DOMAIN s.disk : Holders(w, N, at) = Holders(s, O, at)
    BY <1>6, <1>7, <2>1 DEF Holders
  <2> QED BY <2>2, <2>3
<1>11. \A S : S \subseteq DOMAIN s.disk => Kinds(w, S) = Kinds(s, S)
  BY <1>1 DEF Kinds
<1>12. p \in Bounds(w) /\ w.pos \in Bounds(w) /\ DOMAIN s.disk \subseteq Bounds(w)
  BY <1>6 DEF Bounds
<1>13. ASSUME NEW at \in DOMAIN s.disk
       PROVE  /\ Next1(w, N, at) \in Bounds(w)
              /\ End(w, N, at) \in Bounds(w)
              /\ Kinds(w, Holders(w, N, at)) \in Parents(w.disk[at].id)
              /\ \A l \in DOMAIN w.disk : Holds(w, N, l, at) =>
                   /\ End(w, N, at) <= End(w, N, l)
                   /\ at \in N => l \in N
  <2>1. /\ Next1(s, O, at) \in DOMAIN s.disk \cup {p}
        /\ End(s, O, at) \in DOMAIN s.disk \cup {p}
        /\ Kinds(s, Holders(s, O, at)) \in Parents(s.disk[at].id)
        /\ \A l \in DOMAIN s.disk : Holds(s, O, l, at) =>
             /\ End(s, O, at) <= End(s, O, l)
             /\ at \in O => l \in O
    BY DEF Laid, Bounds, p
  <2>2. w.disk[at] = s.disk[at] BY <1>1
  <2>3. End(w, N, at) \in Bounds(w) BY <1>5, <1>12, <2>1
  <2>4. Next1(w, N, at) \in Bounds(w)
    <3>1. CASE s.disk[at].id \in ListIds BY <1>12, <2>1, <2>2, <3>1 DEF Next1
    <3>2. CASE s.disk[at].id \notin ListIds BY <2>2, <2>3, <3>2 DEF Next1
    <3> QED BY <3>1, <3>2
  <2>5. Kinds(w, Holders(w, N, at)) \in Parents(w.disk[at].id)
    <3>1. Holders(s, O, at) \subseteq DOMAIN s.disk BY DEF Holders
    <3> QED BY <1>10, <1>11, <2>1, <2>2, <3>1
  <2>6. ASSUME NEW l \in DOMAIN w.disk, Holds(w, N, l, at)
        PROVE  End(w, N, at) <= End(w, N, l) /\ (at \in N => l \in N)
    <3>1. l \in DOMAIN s.disk /\ Holds(s, O, l, at) BY <1>6, <1>7, <1>9, <2>6
    <3>2. End(s, O, at) <= End(s, O, l) /\ (at \in O => l \in O) BY <2>1, <3>1
    <3>3. /\ End(w, N, at) = IF at \in O THEN w.pos ELSE End(s, O, at)
          /\ End(w, N, l) = IF l \in O THEN w.pos ELSE End(s, O, l)
          /\ End(s, O, at) \in Nat /\ End(s, O, at) <= p
      BY <1>1, <1>5, <3>1
    <3> QED BY <1>1, <1>3, <1>4, <3>1, <3>2, <3>3
  <2> QED BY <2>3, <2>4, <2>5, <2>6
<1>14. /\ Next1(w, N, p) \in Bounds(w)
       /\ End(w, N, p) \in Bounds(w)
       /\ Kinds(w, Holders(w, N, p)) \in Parents(w.disk[p].id)
       /\ \A l \in DOMAIN w.disk : Holds(w, N, l, p) =>
            /\ End(w, N, p) <= End(w, N, l)
            /\ p \in N => l \in N
  <2>1. O \subseteq DOMAIN s.disk BY <1>1
  <2>2. Kinds(w, Holders(w, N, p)) \in Parents(w.disk[p].id)
    BY <1>10, <1>11, <2>1 DEF p
  <2>3. \A l \in DOMAIN w.disk : Holds(w, N, l, p) => l \in O
    BY <1>6, <1>8, <1>9
  <2>4. \A l \in O : l \in N /\ End(w, N, l) = w.pos BY <1>4, <1>5, <2>1
  <2> QED BY <1>3, <1>4, <1>12, <2>2, <2>3, <2>4
<1>15. \A at \in N : w.disk[at].id \in ListIds
  BY <1>1, <1>4, <1>6
<1> QED BY <1>4, <1>6, <1>13, <1>14, <1>15 DEF Laid
\* The innermost open list is closed.
LEMMA LaidClose ==
  ASSUME NEW s, Typed(s), Below(s), NEW O, Laid(s, O),
         NEW h \in O, \A x \in O : x <= h,
         NEW w, Writes(s, w, {h}, {}), w.pos = s.pos,
         w.disk[h].len = s.pos - (h + 8)
  PROVE  Laid(w, O \ {h})
<1> DEFINE N == O \ {h}
<1>1. /\ s.pos \in Nat
      /\ \A at \in DOMAIN s.disk : at \in Nat /\ at % 2 = 0
      /\ \A at \in O : at \in DOMAIN s.disk /\ at + 12 <= s.pos /\ s.disk[at].id \in ListIds
  BY LaidFacts
<1>2. /\ DOMAIN w.disk = DOMAIN s.disk
      /\ \A at \in DOMAIN s.disk : /\ w.disk[at].id = s.disk[at].id
                                   /\ at # h => w.disk[at] = s.disk[at]
  BY DEF Writes, Resized
<1>3. h + 8 + Pad(w.disk[h].len) = s.pos
  <2>1. h \in Nat /\ h % 2 = 0 /\ h + 12 <= s.pos /\ s.pos % 2 = 0 BY <1>1 DEF Typed
  <2>2. s.pos - (h + 8) \in Nat /\ (s.pos - (h + 8)) % 2 = 0 BY <1>1, <2>1
  <2> QED BY <1>1, <2>1, <2>2 DEF Pad
<1>4. \A at \in DOMAIN s.disk : End(w, N, at) = End(s, O, at)
  <2> TAKE at \in DOMAIN s.disk
  <2>1. CASE at = h BY <1>3, <2>1 DEF End
  <2>2. CASE at # h BY <1>2, <2>2 DEF End
  <2> QED BY <2>1, <2>2
<1>5. \A at \in DOMAIN s.disk : Next1(w, N, at) = Next1(s, O, at)
  BY <1>2, <1>4 DEF Next1
<1> HIDE DEF N
<1>6. \A at, l \in DOMAIN s.disk : Holds(w, N, l, at) <=> Holds(s, O, l, at)
  BY <1>2, <1>4 DEF Holds
<1>7. \A at \in DOMAIN s.disk : Holders(w, N, at) = Holders(s, O, at)
  BY <1>2, <1>6 DEF Holders
<1>8. \A S : S \subseteq DOMAIN s.disk => Kinds(w, S) = Kinds(s, S)
  BY <1>2 DEF Kinds
<1>9. Bounds(w) = Bounds(s) BY <1>2 DEF Bounds
<1>10. ASSUME NEW at \in DOMAIN w.disk
       PROVE  /\ Next1(w, N, at) \in Bounds(w)
              /\ End(w, N, at) \in Bounds(w)
              /\ Kinds(w, Holders(w, N, at)) \in Parents(w.disk[at].id)
              /\ \A l \in DOMAIN w.disk : Holds(w, N, l, at) =>
                   /\ End(w, N, at) <= End(w, N, l)
                   /\ at \in N => l \in N
  <2>1. /\ at \in DOMAIN s.disk
        /\ Next1(s, O, at) \in Bounds(s)
        /\ End(s, O, at) \in Bounds(s)
        /\ Kinds(s, Holders(s, O, at)) \in Parents(s.disk[at].id)
        /\ \A l \in DOMAIN s.disk : Holds(s, O, l, at) =>
             /\ End(s, O, at) <= End(s, O, l)
             /\ at \in O => l \in O
    BY <1>2 DEF Laid
  <2>2. Kinds(w, Holders(w, N, at)) \in Parents(w.disk[at].id)
    <3>1. Holders(s, O, at) \subseteq DOMAIN s.disk BY DEF Holders
    <3> QED BY <1>2, <1>7, <1>8, <2>1, <3>1
  <2>3. ASSUME NEW l \in DOMAIN w.disk, Holds(w, N, l, at)
        PROVE  End(w, N, at) <= End(w, N, l) /\ (at \in N => l \in N)
    <3>1. l \in DOMAIN s.disk /\ Holds(s, O, l, at) BY <1>2, <1>6, <2>1, <2>3
    <3>2. End(w, N, at) <= End(w, N, l) BY <1>4, <2>1, <3>1
    <3>3. at \in N => l \in O /\ l < at /\ at <= h BY <2>1, <3>1 DEF N, Holds
    <3>4. h \in Nat /\ at \in Nat /\ l \in Nat BY <1>1, <2>1, <3>1
    <3> QED BY <3>2, <3>3, <3>4 DEF N
  <2> QED BY <1>4, <1>5, <1>9, <2>1, <2>2, <2>3
<1>11. N \subseteq DOMAIN w.disk /\ \A at \in N : w.disk[at].id \in ListIds
  BY <1>1, <1>2 DEF N
<1> QED BY <1>10, <1>11 DEF Laid, N

-----------------------------------------------------------------------------
(* Where chunks may stand                                                  *)

LEMMA ParentsOf ==
  /\ Parents("RIFF") = {{}}
  /\ \A id \in {"hdrl", "movi", "idx1"} : Parents(id) = {{"RIFF"}}
  /\ \A id \in {"ix", "rec"} : Parents(id) = {{"RIFF", "movi"}}
  /\ \A id \in MediaIds : Parents(id) = IF Clustering THEN {{"RIFF", "movi", "rec"}}
                                                      ELSE {{"RIFF", "movi"}}
  /\ Parents("JUNK") = {{"RIFF", "movi"}, {"RIFF", "movi", "rec"}}
<1>1. Parents("RIFF") = {{}} BY DEF Parents, MediaIds
<1>2. Parents("hdrl") = {{"RIFF"}} BY DEF Parents, MediaIds
<1>3. Parents("movi") = {{"RIFF"}} BY DEF Parents, MediaIds
<1>4. Parents("idx1") = {{"RIFF"}} BY DEF Parents, MediaIds
<1>5. Parents("ix") = {{"RIFF", "movi"}} BY DEF Parents, MediaIds
<1>6. Parents("rec") = {{"RIFF", "movi"}} BY DEF Parents, MediaIds
<1>7. ASSUME NEW id \in MediaIds
      PROVE  Parents(id) = IF Clustering THEN {{"RIFF", "movi", "rec"}}
                                         ELSE {{"RIFF", "movi"}}
  BY DEF Parents, MediaIds
<1>8. Parents("JUNK") = {{"RIFF", "movi"}, {"RIFF", "movi", "rec"}}
  BY DEF Parents, MediaIds
<1> QED BY <1>1, <1>2, <1>3, <1>4, <1>5, <1>6, <1>7, <1>8

\* The kinds of the lists that are open.
LEMMA OpenKinds ==
  ASSUME NEW s, Good(s)
  PROVE  /\ s.rec_open_size_off = NoList => Kinds(s, OpenHeads(s)) = {"RIFF", "movi"}
         /\ s.rec_open_size_off # NoList => Kinds(s, OpenHeads(s)) = {"RIFF", "movi", "rec"}
<1>1. /\ s.disk[s.riff_size_off - 4].id = "RIFF" /\ s.disk[s.movi_size_off - 4].id = "movi"
      /\ s.rec_open_size_off # NoList => s.disk[s.rec_open_size_off - 4].id = "rec"
  BY DEF Good, Heads, IsList
<1> QED BY <1>1 DEF Kinds, OpenHeads
-----------------------------------------------------------------------------
(* Chunks of the current segment                                           *)

\* The fields that say which lists are open, and which segment this is.
SameLists(s, w) ==
  /\ w.riff_size_off = s.riff_size_off /\ w.movi_size_off = s.movi_size_off
  /\ w.segments = s.segments

\* The idx1 chunk and the first RIFF are where they were when neither is
\* touched and no other idx1 is written.
LEMMA EndedKept ==
  ASSUME NEW s, Ended(s), NEW w, NEW heads, NEW ids, Writes(s, w, heads, ids),
         "idx1" \notin ids, 0 \notin heads,
         \A at \in heads : at \in DOMAIN s.disk => s.disk[at].id # "idx1"
  PROVE  Ended(w)
<1>1. /\ \A at \in DOMAIN s.disk : /\ at \in DOMAIN w.disk
                                   /\ w.disk[at].id = s.disk[at].id
                                   /\ at \in heads \/ w.disk[at] = s.disk[at]
      /\ \A at \in DOMAIN w.disk : at \in DOMAIN s.disk \/ w.disk[at].id # "idx1"
  BY DEF Writes, Resized
<1>2. Idx1Chunks(w) = Idx1Chunks(s) BY <1>1 DEF Idx1Chunks
<1>3. PICK x \in DOMAIN s.disk : Idx1Chunks(s) = {x} /\ End(s, {}, x) = End(s, {}, 0)
  BY DEF Ended
<1>4. s.disk[x].id = "idx1" BY <1>3 DEF Idx1Chunks
<1>5. w.disk[x] = s.disk[x] /\ w.disk[0] = s.disk[0] /\ x \in DOMAIN w.disk
      /\ 0 \in DOMAIN w.disk
  BY <1>1, <1>4 DEF Ended
<1>6. End(w, {}, x) = End(w, {}, 0) BY <1>3, <1>5 DEF End
<1> QED BY <1>2, <1>3, <1>5, <1>6 DEF Ended

\* So is the primary segment without one.
LEMMA OneIdx1Kept ==
  ASSUME NEW s, OneIdx1(s), NEW w, NEW heads, NEW ids, Writes(s, w, heads, ids),
         SameLists(s, w), "idx1" \notin ids, ~InPrimary(s) => 0 \notin heads,
         \A at \in heads : at \in DOMAIN s.disk => s.disk[at].id # "idx1"
  PROVE  OneIdx1(w)
<1>1. 0 \in DOMAIN w.disk BY DEF Writes, OneIdx1
<1>2. CASE InPrimary(s)
  <2>1. Idx1Chunks(w) = Idx1Chunks(s) BY DEF Writes, Resized, Idx1Chunks
  <2> QED BY <1>1, <1>2, <2>1 DEF OneIdx1, SameLists, InPrimary
<1>3. CASE ~InPrimary(s)
  <2>1. Ended(s) /\ 0 \notin heads BY <1>3 DEF OneIdx1
  <2>2. Ended(w) BY <2>1, EndedKept
  <2> QED BY <1>1, <1>3, <2>2 DEF OneIdx1, SameLists, InPrimary
<1> QED BY <1>2, <1>3

\* A chunk is placed in the open lists.
LEMMA PlacedFramed ==
  ASSUME NEW s, Good(s), Framed(s), NEW cell \in CellType,
         cell.id \notin ListIds \cup {"idx1"},
         Kinds(s, OpenHeads(s)) \in Parents(cell.id),
         NEW w, Typed(w), Placed(s, w, cell), SameLists(s, w),
         w.rec_open_size_off = s.rec_open_size_off
  PROVE  Framed(w)
<1>1. Typed(s) /\ Below(s) BY DEF Good
<1>2. /\ w.pos = s.pos + 8 + Pad(cell.len)
      /\ DOMAIN w.disk = DOMAIN s.disk \cup {s.pos}
      /\ w.disk[s.pos] = cell
      /\ \A at \in DOMAIN s.disk : w.disk[at] = s.disk[at]
  BY DEF Placed
<1>3. OpenHeads(w) = OpenHeads(s) BY DEF OpenHeads, SameLists
<1>4. Laid(s, OpenHeads(s)) BY DEF Framed
<1> DEFINE O == OpenHeads(s)
<1> HIDE DEF O
<1>5. Laid(w, O)
  <2>1. Laid(s, O) /\ Kinds(s, O) \in Parents(cell.id) BY <1>4 DEF O
  <2>2. cell.id \notin ListIds OBVIOUS
  <2> QED BY <1>1, <1>2, <2>1, <2>2, LaidAdd
<1>6. OneIdx1(w)
  <2> DEFINE ids == {cell.id}
  <2>1. "idx1" \notin ids OBVIOUS
  <2>2. Writes(s, w, {}, ids)
    <3>1. s.pos \in Nat /\ cell.len \in Nat BY <1>1 DEF Typed, MuxerRecord, CellType
    <3>2. Pad(cell.len) \in Nat BY <3>1 DEF Pad
    <3>3. w.pos >= s.pos /\ s.pos >= s.pos BY <1>2, <3>1, <3>2
    <3> QED BY <1>2, <3>3 DEF Writes, Resized
  <2> HIDE DEF ids
  <2>3. OneIdx1(s) BY DEF Framed
  <2> QED BY <2>1, <2>2, <2>3, OneIdx1Kept
<1> QED BY <1>3, <1>5, <1>6 DEF Framed, SameLists, O
LEMMA AddsFramed ==
  ASSUME NEW s, Good(s), Framed(s), NEW id, id \notin ListIds, id # "idx1",
         Kinds(s, OpenHeads(s)) \in Parents(id),
         NEW w, Typed(w), Adds(s, w, id), SameLists(s, w),
         w.rec_open_size_off = s.rec_open_size_off
  PROVE  Framed(w)
<1>1. PICK cell \in CellType : cell.id = id /\ Placed(s, w, cell) BY DEF Adds
<1>2. cell.id \notin ListIds \cup {"idx1"} BY <1>1
<1>3. Kinds(s, OpenHeads(s)) \in Parents(cell.id) BY <1>1
<1> QED BY <1>1, <1>2, <1>3, PlacedFramed

\* The output and the open lists are the same.
LEMMA FramedSame ==
  ASSUME NEW s, NEW w, w.disk = s.disk, w.pos = s.pos, SameLists(s, w),
         w.rec_open_size_off = s.rec_open_size_off
  PROVE  (Framed(s) => Framed(w)) /\ (Doomed(s) => Doomed(w))
<1>1. Doomed(s) => Doomed(w) BY DEF Doomed, SameLists
<1>2. ASSUME Framed(s) PROVE Framed(w)
  <2>1. OpenHeads(w) = OpenHeads(s) BY DEF OpenHeads, SameLists
  <2> DEFINE O == OpenHeads(s)
  <2>2. Laid(s, O) BY <1>2 DEF Framed
  <2> HIDE DEF O
  <2>3. Laid(w, O) BY <2>2, LaidSame
  <2>4. Idx1Chunks(w) = Idx1Chunks(s) /\ \A at : End(w, {}, at) = End(s, {}, at)
    BY DEF Idx1Chunks, End
  <2>5. Ended(s) => Ended(w) BY <2>4 DEF Ended
  <2>6. OneIdx1(w)
    <3>1. OneIdx1(s) BY <1>2 DEF Framed
    <3> QED BY <2>4, <2>5, <3>1 DEF OneIdx1, InPrimary, SameLists
  <2> QED BY <1>2, <2>1, <2>3, <2>6 DEF Framed, SameLists, O
<1> QED BY <1>1, <1>2

-----------------------------------------------------------------------------
(* The private methods, and the layout                                     *)

\* flush_ix_for_track: an ix## chunk goes into LIST movi.
LEMMA FlushIxForTrackFramed ==
  ASSUME NEW s, Good(s), Framed(s), s.rec_open_size_off = NoList,
         NEW t \in Streams, NEW w, w = FlushIxForTrack(s, t)
  PROVE  Framed(w)
<1>1. IxFlush(s, w) /\ (w = s \/ Adds(s, w, "ix")) BY FlushIxForTrackStep
<1>2. Good(w) /\ w.rec_open_size_off = s.rec_open_size_off BY FlushIxForTrackGood
<1>3. SameLists(s, w) BY <1>1 DEF IxFlush, Only, Fields, SameLists
<1>4. CASE w = s BY <1>4
<1>5. CASE Adds(s, w, "ix")
  <2>1. Kinds(s, OpenHeads(s)) \in Parents("ix") BY OpenKinds, ParentsOf
  <2>2. "ix" \notin ListIds /\ "ix" # "idx1" BY DEF ListIds
  <2>3. Typed(w) BY <1>2 DEF Good
  <2> QED BY <1>2, <1>3, <1>5, <2>1, <2>2, <2>3, AddsFramed
<1> QED BY <1>1, <1>4, <1>5

\* flush_ix_chunks, by induction on the streams.
LEMMA FlushIxChunksFramed ==
  ASSUME NEW s, Good(s), Framed(s), s.rec_open_size_off = NoList,
         NEW w, w = FlushIxChunks(s)
  PROVE  Framed(w) /\ Good(w) /\ w.rec_open_size_off = NoList
<1>1. PICK f : /\ w = f[NumStreams] /\ f[0] = s
               /\ \A i \in 1 .. NumStreams : f[i] = FlushIxForTrack(f[i - 1], i - 1)
  BY FlushSteps
<1>2. NumStreams \in Nat BY MuxerAssumption
<1> DEFINE Ok(v) == Framed(v) /\ Good(v) /\ v.rec_open_size_off = NoList
           Bad == {i \in 0 .. NumStreams : ~Ok(f[i])}
<1>3. Bad = {}
  <2> SUFFICES ASSUME Bad # {} PROVE FALSE
    OBVIOUS
  <2>1. PICK i \in Bad : \A j \in Bad : i <= j
    <3>1. Bad \subseteq Nat OBVIOUS
    <3> HIDE DEF Bad
    <3> QED BY <3>1, NatLeast
  <2>2. Ok(s) OBVIOUS
  <2>3. i # 0 BY <1>1, <2>2
  <2>4. i - 1 \in Streams /\ i \in 1 .. NumStreams
    BY <1>2, <2>3 DEF Streams
  <2>5. Ok(f[i - 1]) BY <1>2, <2>1, <2>4
  <2> DEFINE v == f[i - 1]
             z == f[i]
             j == i - 1
  <2>6. z = FlushIxForTrack(v, j) /\ j \in Streams /\ Ok(v)
    BY <1>1, <2>4, <2>5
  <2> HIDE DEF z, v, j
  <2>7. Good(z) /\ z.rec_open_size_off = v.rec_open_size_off
    BY <2>6, FlushIxForTrackGood
  <2>8. Framed(z) BY <2>6, FlushIxForTrackFramed
  <2>9. Ok(z) BY <2>6, <2>7, <2>8
  <2> QED BY <2>9 DEF z
<1>4. NumStreams \in 0 .. NumStreams BY <1>2
<1> QED BY <1>1, <1>3, <1>4
\* open_rec_cluster: one more list is open.
LEMMA OpenRecClusterFramed ==
  ASSUME NEW s, Good(s), Framed(s), s.rec_open_size_off = NoList,
         NEW w, w = OpenRecCluster(s)
  PROVE  Framed(w) /\ w.rec_open_size_off # NoList
<1> DEFINE cell == Cell("rec", NoTrack, 0)
           O == OpenHeads(s)
           N == O \cup {s.pos}
<1>1. /\ Writes(s, w, {}, {"rec"})
      /\ Only(s, w, {"disk", "pos"} \cup ClusterFields)
      /\ Opened(s, w)
  BY OpenRecClusterStep
<1>2. Typed(s) /\ Below(s) /\ Typed(w) /\ s.pos \in Nat
  BY OpenRecClusterGood DEF Good, Typed, MuxerRecord
<1>3. SameLists(s, w) BY <1>1 DEF Only, Fields, ClusterFields, SameLists
<1>4. cell \in CellType /\ cell.id = "rec"
  <2>1. "rec" \in ListIds \cup MediaIds \cup {"hdrl", "JUNK", "ix", "idx1"} BY DEF ListIds
  <2>2. NoTrack \in Streams \cup {NoTrack} /\ 0 \in Nat OBVIOUS
  <2> QED BY <2>1, <2>2, CellTyped DEF Cell
<1>5. Kinds(s, O) \in Parents(cell.id) BY <1>4, OpenKinds, ParentsOf
<1>6. /\ DOMAIN w.disk = DOMAIN s.disk \cup {s.pos}
      /\ w.disk[s.pos] = cell
      /\ \A at \in DOMAIN s.disk : w.disk[at] = s.disk[at]
      /\ w.pos = s.pos + 12 /\ w.rec_open_size_off = s.pos + 4
  BY <1>1 DEF Opened
<1>7. Laid(s, O) BY DEF Framed
<1>8. OpenHeads(w) = N
  <2>1. w.rec_open_size_off - 4 = s.pos /\ w.rec_open_size_off # NoList
    BY <1>2, <1>6 DEF NoList
  <2> QED BY <1>3, <2>1 DEF OpenHeads, SameLists
<1> HIDE DEF cell, O
<1>9. cell.id \in ListIds BY <1>4 DEF ListIds
<1> HIDE DEF N
<1>10. Laid(w, N)
  <2>1. N = O \cup {s.pos} BY DEF N
  <2> QED BY <1>2, <1>4, <1>5, <1>6, <1>7, <1>9, <2>1, LaidAdd
<1>11. OneIdx1(w)
  <2> DEFINE none == {}
             ids == {"rec"}
  <2>1. OneIdx1(s) /\ Writes(s, w, none, ids) BY <1>1 DEF Framed
  <2>2. "idx1" \notin ids /\ 0 \notin none /\ \A at \in none : FALSE OBVIOUS
  <2> HIDE DEF none, ids
  <2> QED BY <1>3, <2>1, <2>2, OneIdx1Kept
<1>12. w.movi_size_off < w.rec_open_size_off /\ w.riff_size_off < w.movi_size_off
  <2>1. s.movi_size_off + 8 <= s.pos /\ s.movi_size_off \in Nat
    BY DEF Good, Heads, IsList, Typed, MuxerRecord
  <2> QED BY <1>2, <1>3, <1>6, <2>1 DEF Framed, SameLists
<1>13. w.rec_open_size_off # NoList BY <1>2, <1>6 DEF NoList
<1> QED BY <1>8, <1>10, <1>11, <1>12, <1>13 DEF Framed

\* close_rec_cluster: its list is the innermost one. When its size does not fit
\* 32 bits, that of the RIFF around it does not either.
LEMMA CloseRecClusterFramed ==
  ASSUME NEW s, Good(s), Framed(s), s.ok, NEW w, w = CloseRecCluster(s)
  PROVE  /\ (w.ok => Framed(w)) /\ (~w.ok => Doomed(w))
         /\ w.rec_open_size_off = NoList
<1>1. \/ s.rec_open_size_off = NoList /\ w = s
      \/ /\ s.rec_open_size_off # NoList
         /\ ~w.ok /\ w.disk = s.disk
         /\ Only(s, w, {"ok", "disk", "rec_open_size_off"})
         /\ s.pos - (s.rec_open_size_off + 4) > DwMax
      \/ s.rec_open_size_off # NoList /\ w.ok /\ Closed(s, w)
  BY CloseRecClusterStep
<1>2. Good(w) /\ w.rec_open_size_off = NoList BY CloseRecClusterGood
<1>3. Typed(s) /\ Below(s) BY DEF Good
<1>4. /\ s.pos \in Nat /\ s.riff_size_off \in Nat /\ s.movi_size_off \in Nat
      /\ s.rec_open_size_off \in Nat /\ DwMax \in Nat
  BY <1>3, MuxerAssumption DEF Typed, MuxerRecord
<1>5. CASE w = s BY <1>2, <1>5
<1>6. CASE /\ s.rec_open_size_off # NoList /\ ~w.ok
           /\ Only(s, w, {"ok", "disk", "rec_open_size_off"})
           /\ s.pos - (s.rec_open_size_off + 4) > DwMax
  <2>1. w.pos = s.pos /\ w.riff_size_off = s.riff_size_off
    BY <1>6 DEF Only, Fields
  <2>2. s.riff_size_off < s.rec_open_size_off BY <1>4, <1>6 DEF Framed
  <2> QED BY <1>2, <1>4, <1>6, <2>1, <2>2 DEF Doomed
<1>7. CASE s.rec_open_size_off # NoList /\ w.ok /\ Closed(s, w)
  <2> DEFINE h == s.rec_open_size_off - 4
             O == OpenHeads(s)
             heads == {h}
  <2>1. /\ Writes(s, w, heads, {})
        /\ Only(s, w, {"ok", "disk"} \cup ClusterFields)
        /\ w.disk[h].len = s.pos - (s.rec_open_size_off + 4)
    BY <1>7 DEF Closed
  <2>2. SameLists(s, w) /\ w.pos = s.pos
    BY <2>1 DEF Only, Fields, ClusterFields, SameLists
  <2>3. h \in O /\ s.rec_open_size_off + 4 = h + 8
    BY <1>4, <1>7 DEF OpenHeads
  <2>4. \A x \in O : x <= h
    BY <1>4, <1>7 DEF OpenHeads, Framed
  <2>5. OpenHeads(w) = O \ {h}
    <3>1. h # s.riff_size_off - 4 /\ h # s.movi_size_off - 4
      BY <1>4, <1>7 DEF Framed
    <3> QED BY <1>2, <1>7, <2>2, <3>1 DEF OpenHeads, SameLists
  <2>6. Laid(s, O) BY DEF Framed
  <2>7. s.disk[h].id = "rec" /\ h # 0
    <3>1. s.disk[h].id = "rec" BY <1>7 DEF Good, Heads, IsList
    <3>2. s.riff_size_off >= 4 BY DEF Good, Heads, IsList
    <3>3. h # 0 BY <1>4, <1>7, <3>2 DEF Framed
    <3> QED BY <3>1, <3>3
  <2>8. OneIdx1(w)
    <3> DEFINE none == {}
    <3>1. OneIdx1(s) /\ Writes(s, w, heads, none) BY <2>1 DEF Framed
    <3>2. /\ "idx1" \notin none /\ 0 \notin heads
          /\ \A at \in heads : s.disk[at].id # "idx1"
      BY <2>7
    <3> HIDE DEF none, heads
    <3> QED BY <2>2, <3>1, <3>2, OneIdx1Kept
  <2> HIDE DEF O
  <2>9. Laid(w, O \ {h})
    <3>1. Writes(s, w, {h}, {}) BY <2>1
    <3>2. w.disk[h].len = s.pos - (h + 8) BY <2>1, <2>3
    <3> HIDE DEF h
    <3> QED BY <1>3, <2>2, <2>3, <2>4, <2>6, <3>1, <3>2, LaidClose
  <2>10. w.riff_size_off < w.movi_size_off BY <2>2 DEF SameLists, Framed
  <2> QED BY <1>2, <1>7, <2>5, <2>8, <2>9, <2>10 DEF Framed
<1> QED BY <1>1, <1>5, <1>6, <1>7

\* The cluster step: the next chunk of the caller goes into a cluster when the
\* options ask for clusters, and into LIST movi when they do not.
LEMMA ClusterFramed ==
  ASSUME NEW s, Sound(s), Framed(s), s.ok, NEW len, NEW w, w = Cluster(s, len)
  PROVE  /\ Steady(w)
         /\ w.ok => (Clustering <=> w.rec_open_size_off # NoList)
<1> DEFINE c == CloseRecCluster(s)
           o == OpenRecCluster(s)
           co == OpenRecCluster(c)
<1>1. \/ w = s /\ (Clustering => s.rec_open_size_off # NoList)
      \/ w = o /\ Clustering /\ s.rec_open_size_off = NoList
      \/ w = c /\ ~c.ok /\ Clustering
      \/ w = co /\ c.ok /\ Clustering
  BY DEF Cluster, Then
<1>2. Good(s) BY DEF Sound
<1>3. s.rec_open_size_off # NoList => Clustering BY DEF Sound, Accounted
<1>4. s.rec_open_size_off = NoList => Framed(o) /\ o.rec_open_size_off # NoList
  BY <1>2, OpenRecClusterFramed
<1>5. /\ (c.ok => Framed(c)) /\ (~c.ok => Doomed(c))
      /\ c.rec_open_size_off = NoList
  BY <1>2, CloseRecClusterFramed
<1>6. Good(c) BY <1>2, CloseRecClusterGood
<1> HIDE DEF c, o
<1>7. c.ok => Framed(co) /\ co.rec_open_size_off # NoList
  BY <1>5, <1>6, OpenRecClusterFramed
<1> HIDE DEF co
<1> QED BY <1>1, <1>3, <1>4, <1>5, <1>7 DEF Steady
\* The tail of a segment: LIST movi is closed, idx1 follows it in the primary
\* segment, and the RIFF around both is closed.
LEMMA FinishSegmentFramed ==
  ASSUME NEW s, Good(s), Framed(s), s.ok, s.rec_open_size_off = NoList,
         NEW w, w = FinishSegment(s)
  PROVE  (w.ok => Walkable(w)) /\ (~w.ok => Doomed(w))
<1> DEFINE movi == s.movi_size_off
           riff == s.riff_size_off
           h == movi - 4
           g == riff - 4
           heads == {h}
           outer == {g}
           none == {}
           O == OpenHeads(s)
           f == FinishList(s, movi)
           x == WriteIdx1(f)
           i == IF InPrimary(s) THEN x ELSE f
           r == FinishRiff(i)
<1>1. w = IF f.ok THEN r ELSE f
  BY DEF FinishSegment, Then
<1>2. /\ Typed(s) /\ Below(s) /\ movi \in Nat /\ riff \in Nat /\ riff < movi
      /\ IsList(s, movi, "movi") /\ IsList(s, riff, "RIFF") /\ "movi" \in ListIds
      /\ s.pos \in Nat /\ DwMax \in Nat
  BY MuxerAssumption DEF Good, Heads, Typed, MuxerRecord, ListIds, Framed
<1>3. Typed(f) /\ Below(f) /\ Grows(s, f) /\ SameFields(s, f) /\ NoNewIx(s, f)
  <2> HIDE DEF movi
  <2> QED BY <1>2, FinishListGood
<1>4. /\ Writes(s, f, heads, none) /\ Only(s, f, {"ok", "disk"})
      /\ f.ok <=> s.pos - (movi + 4) <= DwMax
      /\ f.ok => f.disk[h].len = s.pos - (movi + 4)
  <2> HIDE DEF movi
  <2> QED BY <1>2, FinishListStep
<1> HIDE DEF f
<1>5. Good(f) BY <1>3, GoodSame
<1>6. /\ f.pos = s.pos /\ SameLists(s, f)
      /\ f.rec_open_size_off = NoList
  BY <1>4 DEF Only, Fields, SameLists
<1>7. CASE ~f.ok
  <2>1. f.pos - (f.riff_size_off + 4) > DwMax BY <1>2, <1>4, <1>6, <1>7 DEF SameLists
  <2> QED BY <1>1, <1>7, <2>1 DEF Doomed
<1>8. CASE f.ok
  <2>1. O = {g, h} /\ g \in Nat /\ h \in Nat /\ g < h /\ h # 0
    BY <1>2 DEF OpenHeads, IsList
  <2>2. Laid(s, O) BY DEF Framed
  <2>3. f.disk[h].len = s.pos - (h + 8) BY <1>2, <1>4, <1>8
  <2>4. s.disk[h].id = "movi" /\ h \in DOMAIN s.disk /\ f.disk[g].id = "RIFF"
    <3>1. s.disk[h].id = "movi" /\ h \in DOMAIN s.disk BY <1>2 DEF IsList
    <3>2. f.disk[f.riff_size_off - 4].id = "RIFF" BY <1>5 DEF Good, Heads, IsList
    <3> QED BY <1>6, <3>1, <3>2 DEF SameLists
  <2>5. OneIdx1(f)
    <3>1. OneIdx1(s) BY DEF Framed
    <3>2. /\ "idx1" \notin none /\ 0 \notin heads
          /\ \A at \in heads : s.disk[at].id # "idx1"
      BY <2>1, <2>4
    <3> HIDE DEF none, heads
    <3> QED BY <1>4, <1>6, <3>1, <3>2, OneIdx1Kept
  <2> HIDE DEF h, g, O
  <2>6. Laid(f, outer)
    <3>1. h \in O /\ \A y \in O : y <= h BY <2>1
    <3>2. O \ {h} = outer BY <2>1
    <3>3. Writes(s, f, {h}, {}) BY <1>4
    <3> HIDE DEF outer
    <3>4. Laid(f, O \ {h}) BY <1>2, <1>6, <2>2, <2>3, <3>1, <3>3, LaidClose
    <3> QED BY <3>2, <3>4
  <2>7. Kinds(f, outer) = {"RIFF"} BY <2>4 DEF Kinds
  <2>8. /\ Good(x) /\ x.riff_size_off = f.riff_size_off
        /\ Only(f, x, {"disk", "pos"}) /\ Adds(f, x, "idx1")
    BY <1>5, WriteIdx1Good, WriteIdx1Step DEF Near
  <2> HIDE DEF x
  <2>9. PICK cell \in CellType : cell.id = "idx1" /\ Placed(f, x, cell)
    BY <2>8 DEF Adds
  <2>10. /\ x.pos = f.pos + 8 + Pad(cell.len)
         /\ DOMAIN x.disk = DOMAIN f.disk \cup {f.pos} /\ x.disk[f.pos] = cell
         /\ \A at \in DOMAIN f.disk : x.disk[at] = f.disk[at] /\ at # f.pos
    BY <2>9 DEF Placed
  <2>11. Laid(x, outer)
    <3>1. Kinds(f, outer) \in Parents(cell.id) BY <2>7, <2>9, ParentsOf
    <3>2. cell.id \notin ListIds BY <2>9 DEF ListIds
    <3>3. Typed(x) BY <2>8 DEF Good
    <3> HIDE DEF outer
    <3> QED BY <1>3, <2>6, <2>9, <2>10, <3>1, <3>2, <3>3, LaidAdd
  <2>12. /\ Good(i) /\ Laid(i, outer) /\ i.ok = f.ok
         /\ i.riff_size_off = riff /\ i.movi_size_off = movi
    <3>1. x.ok = f.ok /\ x.movi_size_off = f.movi_size_off BY <2>8 DEF Only, Fields
    <3> QED BY <1>5, <1>6, <2>6, <2>8, <2>11, <3>1 DEF SameLists
  <2>13. /\ \A at \in DOMAIN f.disk : at \in DOMAIN i.disk /\ i.disk[at] = f.disk[at]
         /\ 0 \in DOMAIN i.disk
    BY <2>5, <2>10 DEF OneIdx1
  <2>14. /\ Writes(i, r, outer, none) /\ Only(i, r, {"ok", "disk", "segments"})
         /\ r.ok <=> i.pos - (riff + 4) <= DwMax
         /\ r.ok => r.disk[g].len = i.pos - (riff + 4)
    <3> HIDE DEF i
    <3> QED BY ZenonT(60), <1>8, <2>12, FinishRiffStep DEF g
  <2>15. r.pos = i.pos /\ r.riff_size_off = riff /\ i.pos \in Nat
    BY <2>12, <2>14 DEF Only, Fields, Good, Typed, MuxerRecord
  <2> HIDE DEF r
  <2>16. CASE ~r.ok
    <3>1. r.pos - (r.riff_size_off + 4) > DwMax BY <1>2, <2>14, <2>15, <2>16
    <3> QED BY <1>1, <1>8, <2>16, <3>1 DEF Doomed
  <2>17. CASE r.ok
    <3>1. r.disk[g].len = i.pos - (g + 8) BY <1>2, <2>14, <2>17 DEF g
    <3>2. Laid(r, {})
      <4>1. g \in outer /\ (\A y \in outer : y <= g) /\ outer \ {g} = {} BY <2>1
      <4>2. Writes(i, r, {g}, {}) BY <2>14
      <4>3. Typed(i) /\ Below(i) BY <2>12 DEF Good
      <4> HIDE DEF outer, i
      <4>4. Laid(r, outer \ {g}) BY <2>12, <2>15, <3>1, <4>1, <4>2, <4>3, LaidClose
      <4> QED BY <4>1, <4>4
    <3>3. Ended(r)
      <4>1. CASE InPrimary(s)
        <5>1. i = x BY <4>1
        <5> HIDE DEF i
        <5>2. Idx1Chunks(f) = {} /\ f.riff_size_off = 4
          BY <1>6, <2>5, <4>1 DEF OneIdx1, InPrimary, SameLists
        <5>3. riff = 4 /\ g = 0 BY <1>6, <5>2 DEF g, SameLists
        <5>4. /\ DOMAIN r.disk = DOMAIN x.disk
              /\ \A at \in DOMAIN x.disk : /\ r.disk[at].id = x.disk[at].id
                                           /\ at # 0 => r.disk[at] = x.disk[at]
          BY <2>14, <5>1, <5>3 DEF Writes, Resized
        <5>5. Idx1Chunks(x) = {f.pos}
          BY <2>9, <2>10, <5>2 DEF Idx1Chunks
        <5>6. Idx1Chunks(r) = {f.pos} BY <5>4, <5>5 DEF Idx1Chunks
        <5>7. f.pos \in DOMAIN r.disk /\ f.pos # 0 /\ r.disk[f.pos] = cell
          <6>1. f.pos # 0 BY <2>5, <2>10 DEF OneIdx1
          <6> QED BY <2>10, <5>4, <6>1
        <5>8. End(r, {}, f.pos) = x.pos BY <2>10, <5>7 DEF End
        <5>9. End(r, {}, 0) = x.pos
          <6>1. r.disk[0].len = x.pos - 8 BY <3>1, <5>1, <5>3
          <6>2. x.pos \in Nat /\ x.pos % 2 = 0 BY <2>8 DEF Good, Typed, MuxerRecord
          <6>3. x.pos - 8 \in Nat
            <7>1. r.disk[0].len \in Nat
              <8>1. Typed(r) BY <2>12, FinishRiffGood DEF r, Good
              <8> QED BY <2>13, <5>1, <5>4, <8>1 DEF Typed, DiskOK, CellType
            <7> QED BY <6>1, <7>1
          <6>4. 8 + Pad(x.pos - 8) = x.pos BY <6>2, <6>3 DEF Pad
          <6> QED BY <6>1, <6>4 DEF End
        <5> QED BY <2>13, <5>1, <5>4, <5>6, <5>7, <5>8, <5>9 DEF Ended
      <4>2. CASE ~InPrimary(s)
        <5>1. i = f BY <4>2
        <5> HIDE DEF i
        <5>2. Ended(f) /\ f.riff_size_off # 4
          BY <1>6, <2>5, <4>2 DEF OneIdx1, InPrimary, SameLists
        <5>3. 0 \notin outer BY <1>2, <1>6, <5>2 DEF g, SameLists
        <5>4. \A at \in outer : f.disk[at].id # "idx1" BY <2>4
        <5>5. "idx1" \notin none OBVIOUS
        <5> HIDE DEF outer, none
        <5> QED BY <2>14, <5>1, <5>2, <5>3, <5>4, <5>5, EndedKept
      <4> QED BY <4>1, <4>2
    <3> QED BY <1>1, <1>8, <2>17, <3>2, <3>3 DEF Walkable
  <2> QED BY <2>16, <2>17
<1> QED BY <1>7, <1>8
\* close_current_segment: the file could end here, or has become too long.
LEMMA CloseCurrentSegmentFramed ==
  ASSUME NEW s, Good(s), Framed(s), s.ok, NEW w, w = CloseCurrentSegment(s)
  PROVE  (w.ok => Walkable(w)) /\ (~w.ok => Doomed(w))
<1> DEFINE a == SetActive(s, FALSE)
           c == CloseRecCluster(a)
           x == FlushIxChunks(c)
           f == FinishSegment(x)
<1>1. w = IF c.ok THEN f ELSE c
  BY DEF CloseCurrentSegment, Then, SetActive
<1>2. Typed(s) BY DEF Good
<1>3. Only(s, a, {"strl_std_active"})
  BY <1>2 DEF Typed, MuxerRecord, SetActive, Only, Fields
<1>4. Good(a)
  <2>1. Typed(a) /\ a.disk = s.disk /\ a.pos = s.pos /\ SameFields(s, a)
    BY <1>2, ActiveTyped
  <2> QED BY <2>1, GoodSameDisk
<1> HIDE DEF a
<1>5. Framed(a) /\ a.ok
  <2>1. /\ a.disk = s.disk /\ a.pos = s.pos /\ SameLists(s, a) /\ a.ok = s.ok
        /\ a.rec_open_size_off = s.rec_open_size_off
    BY <1>3 DEF Only, Fields, SameLists
  <2> QED BY <2>1, FramedSame
<1>6. /\ (c.ok => Framed(c)) /\ (~c.ok => Doomed(c))
      /\ c.rec_open_size_off = NoList
  BY <1>4, <1>5, CloseRecClusterFramed
<1>7. Good(c) BY <1>4, CloseRecClusterGood
<1> HIDE DEF c
<1>8. CASE ~c.ok
  BY <1>1, <1>6, <1>8
<1>9. CASE c.ok
  <2>1. Framed(c) BY <1>6, <1>9
  <2>2. Framed(x) /\ Good(x) /\ x.rec_open_size_off = NoList
    BY <1>6, <1>7, <2>1, FlushIxChunksFramed
  <2>3. x.ok
    <3>1. IxFlush(c, x) BY <1>7, FlushIxChunksStep
    <3> QED BY <1>9, <3>1 DEF IxFlush, Only, Fields
  <2> HIDE DEF x
  <2>4. (f.ok => Walkable(f)) /\ (~f.ok => Doomed(f))
    BY <2>2, <2>3, FinishSegmentFramed
  <2> QED BY <1>1, <1>9, <2>4
<1> QED BY <1>8, <1>9

\* open_avix_segment: a RIFF and the LIST movi in it are open.
LEMMA OpenAvixSegmentFramed ==
  ASSUME NEW s, Good(s), Walkable(s), s.segments # <<>>,
         NEW w, w = OpenAvixSegment(s), Typed(w)
  PROVE  Framed(w)
<1> DEFINE p == s.pos
           q == p + 12
           r == BeginList(s, "RIFF")
           riff == Cell("RIFF", NoTrack, 0)
           movi == Cell("movi", NoTrack, 0)
           none == {}
           O == {p}
           N == {p, q}
<1>1. /\ Writes(s, w, {}, {"RIFF", "movi"})
      /\ Only(s, w, {"disk", "pos", "riff_size_off", "movi_size_off", "segment_packets",
                     "rec_open_size_off", "rec_open_idx1_slot", "rec_packets", "rec_bytes"})
      /\ w.rec_open_size_off = NoList /\ w.pos = s.pos + 24
      /\ w.riff_size_off = s.pos + 4 /\ w.movi_size_off = s.pos + 16
      /\ DOMAIN w.disk = DOMAIN s.disk \cup {s.pos, s.pos + 12}
      /\ w.disk[s.pos] = riff /\ w.disk[s.pos + 12] = movi
  BY OpenAvixSegmentStep
<1>2. Typed(s) /\ Below(s) /\ s.pos \in Nat BY DEF Good, Typed, MuxerRecord
<1>3. "RIFF" \in ListIds /\ "movi" \in ListIds BY DEF ListIds
<1>4. /\ Typed(r) /\ Below(r) /\ r.pos = q
      /\ DOMAIN r.disk = DOMAIN s.disk \cup {s.pos} /\ r.disk[s.pos] = riff
      /\ \A at \in DOMAIN s.disk : r.disk[at] = s.disk[at] /\ at # s.pos
  BY ZenonT(60), <1>2, <1>3, BeginListGood, BeginListStep
<1> HIDE DEF r
<1>5. riff \in CellType /\ riff.id = "RIFF" /\ movi \in CellType /\ movi.id = "movi"
  <2>1. NoTrack \in Streams \cup {NoTrack} /\ 0 \in Nat
        /\ {"RIFF", "movi"} \subseteq ListIds \cup MediaIds \cup {"hdrl", "JUNK", "ix", "idx1"}
    BY DEF ListIds
  <2> QED BY <2>1, CellTyped DEF Cell
<1> HIDE DEF riff, movi
<1>6. Laid(s, none) /\ Kinds(s, none) \in Parents(riff.id)
  BY <1>5, ParentsOf DEF Walkable, Kinds
<1>7. O = none \cup {p} OBVIOUS
<1>8. Laid(r, O)
  <2> HIDE DEF none, O, p
  <2>1. r.pos = s.pos + 12 /\ riff.id \in ListIds BY <1>3, <1>4, <1>5 DEF p
  <2>2. O = none \cup {s.pos} BY <1>7 DEF p
  <2> QED BY <1>2, <1>4, <1>5, <1>6, <2>1, <2>2, LaidAdd
<1>9. Kinds(r, O) \in Parents(movi.id)
  <2>1. Kinds(r, O) = {"RIFF"} BY <1>4, <1>5 DEF Kinds
  <2> QED BY <1>5, <2>1, ParentsOf
<1>10. N = O \cup {r.pos} BY <1>4
<1>11. /\ DOMAIN w.disk = DOMAIN r.disk \cup {r.pos} /\ w.disk[r.pos] = movi
       /\ \A at \in DOMAIN r.disk : w.disk[at] = r.disk[at]
       /\ w.pos = r.pos + 12
  <2>1. \A at \in DOMAIN s.disk : w.disk[at] = s.disk[at] BY <1>1 DEF Writes
  <2> QED BY <1>1, <1>2, <1>4, <2>1
<1>12. Laid(w, N)
  <2> HIDE DEF N, O
  <2>1. movi.id \in ListIds BY <1>3, <1>5
  <2> QED BY <1>4, <1>5, <1>8, <1>9, <1>10, <1>11, <2>1, LaidAdd
<1>13. OpenHeads(w) = N
  <2>1. w.riff_size_off - 4 = p /\ w.movi_size_off - 4 = q BY <1>1, <1>2
  <2> QED BY <1>1, <2>1 DEF OpenHeads
<1>14. Ended(s) /\ 0 \in DOMAIN s.disk BY DEF Walkable, Ended
<1>15. Ended(w)
  <2> DEFINE ids == {"RIFF", "movi"}
  <2>1. Writes(s, w, none, ids) BY <1>1
  <2>2. "idx1" \notin ids /\ 0 \notin none /\ \A at \in none : FALSE OBVIOUS
  <2> HIDE DEF ids, none
  <2> QED BY <1>14, <2>1, <2>2, EndedKept
<1>16. OneIdx1(w)
  <2>1. w.riff_size_off # 4 BY <1>1, <1>2, <1>14 DEF Below
  <2>2. w.segments = s.segments BY <1>1 DEF Only, Fields
  <2>3. 0 \in DOMAIN w.disk BY <1>1, <1>14
  <2> QED BY <1>15, <2>1, <2>2, <2>3 DEF OneIdx1, InPrimary
<1>17. w.riff_size_off < w.movi_size_off BY <1>1, <1>2
<1> QED BY <1>1, <1>12, <1>13, <1>16, <1>17 DEF Framed

\* The roll, between two chunks of the caller.
LEMMA RollFramed ==
  ASSUME NEW s, Sound(s), Framed(s), s.ok, NEW len, NEW w, w = Roll(s, len)
  PROVE  Steady(w)
<1> DEFINE c == CloseCurrentSegment(s)
           a == OpenAvixSegment(c)
<1>1. w = s \/ (~c.ok /\ w = c) \/ (c.ok /\ OpenDml /\ w = a)
  BY DEF Roll, MustRoll, Then
<1>2. Good(s) BY DEF Sound
<1>3. (c.ok => Walkable(c)) /\ (~c.ok => Doomed(c)) BY <1>2, CloseCurrentSegmentFramed
<1>4. Good(c) /\ (c.ok => \A t \in Streams : c.tracks[t].ix_entries = <<>>)
  BY <1>2, CloseCurrentSegmentGood
<1>5. c.ok /\ OpenDml => c.segments # <<>> BY CloseCurrentSegmentSound
<1> HIDE DEF c
<1>6. c.ok => Typed(a) BY <1>4, OpenAvixSegmentGood DEF Good
<1>7. c.ok /\ OpenDml => Framed(a) BY <1>3, <1>4, <1>5, <1>6, OpenAvixSegmentFramed
<1> QED BY <1>1, <1>3, <1>7 DEF Steady
-----------------------------------------------------------------------------
(* Chunks of the caller                                                    *)

\* emit_padding_junk_for: JUNK goes where the chunk behind it will.
LEMMA EmitPaddingJunkFramed ==
  ASSUME NEW s, Good(s), Framed(s), NEW w, w = EmitPaddingJunk(s), opts \in Options
  PROVE  Framed(w) /\ w.rec_open_size_off = s.rec_open_size_off
<1>1. /\ Only(s, w, {"disk", "pos", "rec_bytes"})
      /\ w = s \/ Adds(s, w, "JUNK")
  BY EmitPaddingJunkStep
<1>2. SameLists(s, w) /\ w.rec_open_size_off = s.rec_open_size_off
  BY <1>1 DEF Only, Fields, SameLists
<1>3. CASE w = s BY <1>2, <1>3
<1>4. CASE Adds(s, w, "JUNK")
  <2>1. Typed(w) BY EmitPaddingJunkGood DEF Good
  <2>2. Kinds(s, OpenHeads(s)) \in Parents("JUNK") BY OpenKinds, ParentsOf
  <2>3. "JUNK" \notin ListIds /\ "JUNK" # "idx1" BY DEF ListIds
  <2> QED BY <1>2, <1>4, <2>1, <2>2, <2>3, AddsFramed
<1> QED BY <1>1, <1>3, <1>4

\* A packet or a side-band chunk goes into the open cluster exactly when the
\* options ask for clusters.
LEMMA MediaFramed ==
  ASSUME NEW s, Good(s), Framed(s), Clustering <=> s.rec_open_size_off # NoList,
         NEW cell, IsMedia(cell), NEW w, Typed(w), Placed(s, w, cell),
         Only(s, w, PlacedFields)
  PROVE  Framed(w)
<1>1. SameLists(s, w) /\ w.rec_open_size_off = s.rec_open_size_off
  BY DEF Only, Fields, PlacedFields, PlaceFields, SameLists
<1>2. cell \in CellType /\ cell.id \in MediaIds BY DEF IsMedia
<1>3. cell.id \notin ListIds \cup {"idx1"} BY <1>2 DEF ListIds, MediaIds
<1>4. Kinds(s, OpenHeads(s)) \in Parents(cell.id)
  BY <1>2, OpenKinds, ParentsOf
<1> QED BY <1>1, <1>2, <1>3, <1>4, PlacedFramed

\* The mid-movi flush: the cluster is closed before the ix## chunk is written.
LEMMA MidMoviFlushFramed ==
  ASSUME NEW s, Good(s), Framed(s), s.ok, NEW t \in Streams,
         NEW w, w = MidMoviFlush(s, t)
  PROVE  Steady(w)
<1> DEFINE c == CloseRecCluster(s)
           x == FlushIxForTrack(c, t)
<1>1. w = s \/ (c.ok /\ w = x) \/ (~c.ok /\ w = c) BY DEF MidMoviFlush, Then
<1>2. /\ (c.ok => Framed(c)) /\ (~c.ok => Doomed(c))
      /\ c.rec_open_size_off = NoList
  BY CloseRecClusterFramed
<1>3. Good(c) BY CloseRecClusterGood
<1> HIDE DEF c
<1>4. c.ok => Framed(x) BY <1>2, <1>3, FlushIxForTrackFramed
<1> QED BY <1>1, <1>2, <1>4 DEF Steady

\* self.ok, before and after a call.
LEMMA SetOkFramed ==
  ASSUME NEW s, Typed(s), Framed(s), NEW b \in BOOLEAN, NEW w, w = SetOk(s, b)
  PROVE  Framed(w)
<1>1. Only(s, w, {"ok"}) BY DEF Typed, MuxerRecord, SetOk, Only, Fields
<1>2. /\ w.disk = s.disk /\ w.pos = s.pos /\ SameLists(s, w)
      /\ w.rec_open_size_off = s.rec_open_size_off
  BY <1>1 DEF Only, Fields, SameLists
<1> QED BY <1>2, FramedSame

\* The 2 GiB ceiling.
LEMMA CheckCeilingFramed ==
  ASSUME NEW s, Typed(s), Framed(s), NEW w, w = CheckCeiling(s)
  PROVE  Framed(w)
<1>1. w = s \/ w = SetOk(s, FALSE) BY DEF CheckCeiling, SetOk
<1> QED BY <1>1, SetOkFramed

\* write_header: RIFF, the headers in it, and LIST movi.
LEMMA HeaderFramed ==
  ASSUME NEW s, Early(s), NEW w, w = HeaderState(s), opts \in Options
  PROVE  Framed(w)
<1> DEFINE n == opts.hdrl
           p == 12 + n
           O == {0, p}
<1>1. Fresh(s) /\ s.segments = <<>> BY DEF Early
<1>2. /\ Only(s, w, {"disk", "pos"} \cup HeaderFields)
      /\ w.riff_size_off = 4 /\ w.movi_size_off = 16 + n
      /\ w.rec_open_size_off = NoList
      /\ DOMAIN w.disk = {0, 12, p}
      /\ w.disk[0] = Cell("RIFF", NoTrack, 0)
      /\ w.disk[p] = Cell("movi", NoTrack, 0)
      /\ w.disk[12].id = "hdrl" /\ w.disk[12].len = n - 8
      /\ w.pos = 24 + n
  BY <1>1, HeaderStep
<1>3. n \in Nat /\ n >= 8 /\ n % 2 = 0 BY OptsTyped DEF Config
<1> HIDE DEF n
<1>4. w.segments = <<>> BY <1>1, <1>2 DEF Only, Fields, HeaderFields
<1>5. OpenHeads(w) = O BY <1>2, <1>3 DEF OpenHeads
<1>6. /\ w.disk[0].id = "RIFF" /\ w.disk[p].id = "movi" /\ w.disk[12].id = "hdrl"
      /\ p # 0 /\ p # 12 /\ 12 < p /\ p < w.pos /\ w.pos = p + 12
  BY <1>2, <1>3 DEF Cell
<1>7. Pad(n - 8) = n - 8 BY <1>3 DEF Pad
<1>8. End(w, O, 0) = w.pos /\ End(w, O, p) = w.pos /\ End(w, O, 12) = p
  BY <1>2, <1>3, <1>6, <1>7 DEF End
<1>9. Next1(w, O, 0) = 12 /\ Next1(w, O, p) = w.pos /\ Next1(w, O, 12) = p
  BY <1>6, <1>8 DEF Next1, ListIds
<1>10. Bounds(w) = {0, 12, p, w.pos} BY <1>2 DEF Bounds
<1>11. \A l, at \in {0, 12, p} :
         Holds(w, O, l, at) <=> l = 0 /\ at # 0
  BY <1>2, <1>3, <1>6, <1>8 DEF Holds, ListIds
<1>12. /\ Holders(w, O, 0) = {} /\ Holders(w, O, 12) = {0} /\ Holders(w, O, p) = {0}
  BY <1>2, <1>6, <1>11 DEF Holders
<1>13. Kinds(w, {}) = {} /\ Kinds(w, {0}) = {"RIFF"} BY <1>6 DEF Kinds
<1>14. Laid(w, O)
  <2>1. O \subseteq DOMAIN w.disk /\ \A at \in O : w.disk[at].id \in ListIds
    BY <1>2, <1>6 DEF ListIds
  <2>2. ASSUME NEW at \in DOMAIN w.disk
        PROVE  /\ Next1(w, O, at) \in Bounds(w)
               /\ End(w, O, at) \in Bounds(w)
               /\ Kinds(w, Holders(w, O, at)) \in Parents(w.disk[at].id)
               /\ \A l \in DOMAIN w.disk : Holds(w, O, l, at) =>
                    /\ End(w, O, at) <= End(w, O, l)
                    /\ at \in O => l \in O
    <3>1. at = 0 \/ at = 12 \/ at = p BY <1>2
    <3>2. Next1(w, O, at) \in Bounds(w) /\ End(w, O, at) \in Bounds(w)
      BY <1>8, <1>9, <1>10, <3>1
    <3>3. Kinds(w, Holders(w, O, at)) \in Parents(w.disk[at].id)
      <4>1. {} \in Parents("RIFF") BY ParentsOf
      <4>2. {"RIFF"} \in Parents("hdrl") /\ {"RIFF"} \in Parents("movi") BY ParentsOf
      <4>3. CASE at = 0 BY <1>6, <1>12, <1>13, <4>1, <4>3
      <4>4. CASE at = 12 BY <1>6, <1>12, <1>13, <4>2, <4>4
      <4>5. CASE at = p BY <1>6, <1>12, <1>13, <4>2, <4>5
      <4> QED BY <3>1, <4>3, <4>4, <4>5
    <3>4. End(w, O, at) <= w.pos BY <1>2, <1>3, <1>6, <1>8, <3>1
    <3> QED BY <1>2, <1>8, <1>11, <3>2, <3>3, <3>4
  <2> QED BY <2>1, <2>2 DEF Laid
<1>15. OneIdx1(w)
  <2>1. Idx1Chunks(w) = {} BY <1>2, <1>6 DEF Idx1Chunks
  <2> QED BY <1>2, <1>4, <2>1 DEF OneIdx1, InPrimary
<1>16. w.riff_size_off < w.movi_size_off BY <1>2, <1>3
<1> QED BY <1>2, <1>5, <1>14, <1>15, <1>16 DEF Framed
-----------------------------------------------------------------------------
(* The specification, and the layout                                       *)

LInv ==
  /\ DInv
  /\ m.header_written /\ trailers = 0 => Steady(m)
  /\ m.trailer_written => Walkable(m)

LEMMA LayoutNext ==
  ASSUME opts' = opts, DInv',
         m'.header_written /\ trailers' = 0 => Steady(m'),
         m'.trailer_written => Walkable(m')
  PROVE  LInv'
<1>1. \A id : Parents(id)' = Parents(id) BY DEF Parents, Clustering
<1>2. \A O : Laid(m', O) <=> Laid(m, O)'
  BY ZenonT(60), <1>1 DEF Laid, Next1, End, Bounds, Kinds, Holders, Holds
<1>3. Ended(m') <=> Ended(m)' BY DEF Ended, Idx1Chunks, End
<1>4. Walkable(m') <=> Walkable(m)' BY <1>2, <1>3 DEF Walkable
<1>5. Framed(m') <=> Framed(m)'
  BY <1>2, <1>3 DEF Framed, OpenHeads, OneIdx1, InPrimary, Idx1Chunks
<1>6. Steady(m') <=> Steady(m)' BY <1>5 DEF Steady, Doomed
<1> QED BY <1>4, <1>6 DEF LInv

\* What is laid out stays so while the output is left alone.
LEMMA WalkableSame ==
  ASSUME NEW s, Walkable(s), NEW w, w.disk = s.disk, w.pos = s.pos
  PROVE  Walkable(w)
<1> DEFINE none == {}
<1>1. Laid(s, none) BY DEF Walkable
<1> HIDE DEF none
<1>2. Laid(w, none) BY <1>1, LaidSame
<1>3. Idx1Chunks(w) = Idx1Chunks(s) /\ \A at : End(w, {}, at) = End(s, {}, at)
  BY DEF Idx1Chunks, End
<1>4. Ended(w) BY <1>3 DEF Walkable, Ended
<1> QED BY <1>2, <1>4 DEF Walkable, none

\* A RIFF that is too long remains so.
LEMMA DoomedKept ==
  ASSUME NEW s, Typed(s), Doomed(s), NEW w, Typed(w), w.pos >= s.pos,
         w.riff_size_off = s.riff_size_off
  PROVE  Doomed(w)
<1>1. /\ s.pos \in Nat /\ w.pos \in Nat /\ s.riff_size_off \in Nat /\ DwMax \in Nat
  BY MuxerAssumption DEF Typed, MuxerRecord
<1>2. s.pos - (s.riff_size_off + 4) > DwMax BY DEF Doomed
<1>3. w.pos - (s.riff_size_off + 4) > DwMax BY <1>1, <1>2
<1> QED BY <1>3 DEF Doomed

\* write_packet
LEMMA WritePacketLInv ==
  ASSUME LInv, Disciplined, NEW p \in Packets, WritePacket(p)
  PROVE  LInv'
<1> DEFINE s0 == SetOk(m, TRUE)
           s1 == Roll(s0, p.len)
           s2 == Then(s1, Cluster(s1, p.len))
           s3 == Then(s2, EmitPaddingJunk(s2))
           s4 == Then(s3, PlacePacket(s3, s3.pos, p))
           s5 == Then(s4, MidMoviFlush(s4, p.trk))
           s6 == Then(s5, CheckCeiling(s5))
<1>1. m' = s6 /\ opts' = opts /\ trailers' = trailers
  BY PacketSteps
<1>2. opts \in Options /\ p.trk \in Streams BY MuxerAssumption DEF LInv, DInv, SInv
<1>3. DInv' BY NextDInv DEF LInv, Next
<1>4. Sound(m) /\ Typed(m) /\ Framed(m)
  BY DEF LInv, DInv, Going, Sound, Good, WritePacket, MayWrite, Steady
<1>5. Sound(s0) /\ Framed(s0) /\ s0.ok BY <1>4, SetOkSound, SetOkFramed, OkTyped
<1> HIDE DEF s0
<1>6. Sound(s1) /\ Steady(s1) BY <1>5, RollSound, RollFramed
<1> HIDE DEF s1
<1>7. /\ Sound(s2) /\ Steady(s2)
      /\ s2.ok => (Clustering <=> s2.rec_open_size_off # NoList)
  BY <1>2, <1>6, ClusterSound, ClusterFramed DEF Then, Steady
<1> HIDE DEF s2
<1>8. /\ Sound(s3) /\ Steady(s3)
      /\ s3.ok => /\ Clustering <=> s3.rec_open_size_off # NoList
                  /\ opts.granularity > 0 => s3.pos % opts.granularity = 0
  <2>1. CASE ~s2.ok BY <1>7, <2>1 DEF Then
  <2>2. CASE s2.ok
    <3>1. s3 = EmitPaddingJunk(s2) BY <2>2 DEF Then
    <3> HIDE DEF s3
    <3>2. Good(s2) /\ Framed(s2) BY <1>7, <2>2 DEF Sound, Steady
    <3>3. Framed(s3) /\ s3.rec_open_size_off = s2.rec_open_size_off
      BY <1>2, <3>1, <3>2, EmitPaddingJunkFramed
    <3> QED BY <1>2, <1>7, <2>2, <3>1, <3>3, EmitPaddingJunkSound DEF Steady
  <2> QED BY <2>1, <2>2
<1> HIDE DEF s3
<1>9. Sound(s4) /\ Steady(s4)
  <2>1. CASE ~s3.ok BY <1>8, <2>1 DEF Then
  <2>2. CASE s3.ok
    <3> DEFINE cell == PacketCell(p)
    <3>1. s4 = PlacePacket(s3, s3.pos, p) BY <2>2 DEF Then
    <3> HIDE DEF s4
    <3>2. Good(s3) /\ Framed(s3) BY <1>8, <2>2 DEF Sound, Steady
    <3>3. Placed(s3, s4, cell) /\ Only(s3, s4, PlacedFields)
      BY <3>1, <3>2, PlacePacketStep DEF PlacedFields
    <3>4. Sound(s4) BY <1>2, <1>8, <2>2, <3>1, PlacePacketSound
    <3>5. IsMedia(cell) /\ Typed(s4) BY <3>4, PacketCellMedia DEF Sound, Good
    <3> HIDE DEF cell
    <3>6. Framed(s4) BY <1>8, <2>2, <3>2, <3>3, <3>5, MediaFramed
    <3> QED BY <3>4, <3>6 DEF Steady
  <2> QED BY <2>1, <2>2
<1> HIDE DEF s4
<1>10. Sound(s5) /\ Steady(s5)
  <2>1. CASE ~s4.ok BY <1>9, <2>1 DEF Then
  <2>2. CASE s4.ok
    <3>1. s5 = MidMoviFlush(s4, p.trk) BY <2>2 DEF Then
    <3>2. Good(s4) /\ Framed(s4) BY <1>9, <2>2 DEF Sound, Steady
    <3> HIDE DEF s5
    <3> QED BY <1>2, <1>9, <2>2, <3>1, <3>2, MidMoviFlushSound, MidMoviFlushFramed
  <2> QED BY <2>1, <2>2
<1> HIDE DEF s5
<1>11. Sound(s6) /\ Steady(s6)
  <2>1. CASE ~s5.ok BY <1>10, <2>1 DEF Then
  <2>2. CASE s5.ok
    <3>1. s6 = CheckCeiling(s5) BY <2>2 DEF Then
    <3>2. Typed(s5) /\ Framed(s5) BY <1>10, <2>2 DEF Sound, Good, Steady
    <3> HIDE DEF s6
    <3> QED BY <1>10, <3>1, <3>2, CheckCeilingSound, CheckCeilingFramed DEF Steady
  <2> QED BY <2>1, <2>2
<1>12. ~m'.trailer_written
  <2>1. trailers = 0 BY DEF WritePacket, MayWrite
  <2>2. m'.header_written BY <1>1, <1>11 DEF Sound, Good
  <2>3. DInv' => (m'.header_written /\ trailers' = 0 => ~m'.trailer_written)
    BY DEF DInv, Going
  <2> QED BY <1>1, <1>3, <2>1, <2>2, <2>3
<1> HIDE DEF s6
<1> QED BY <1>1, <1>3, <1>11, <1>12, LayoutNext
\* write_text_chunk and write_palette_change
LEMMA WriteSidebandChunkLInv ==
  ASSUME LInv, Disciplined, NEW c \in SideChunks, WriteSidebandChunk(c)
  PROVE  LInv'
<1> DEFINE cell == Cell(c.kind, c.trk, c.len)
           s0 == SetOk(m, TRUE)
           s1 == Roll(s0, c.len)
           s2 == Then(s1, Cluster(s1, c.len))
           s3 == Then(s2, PlaceChunk(s2, s2.pos, cell, NoField2))
<1>1. m' = s3 /\ opts' = opts /\ trailers' = trailers
  BY DEF WriteSidebandChunk, SetOk
<1>2. IsMedia(cell) /\ cell.id # "data" BY SideCellMedia
<1> HIDE DEF cell
<1>3. opts \in Options BY DEF LInv, DInv, SInv
<1>4. DInv' BY NextDInv DEF LInv, Next
<1>5. Sound(m) /\ Typed(m) /\ Framed(m)
  BY DEF LInv, DInv, Going, Sound, Good, WriteSidebandChunk, MayWrite, Steady
<1>6. Sound(s0) /\ Framed(s0) /\ s0.ok BY <1>5, SetOkSound, SetOkFramed, OkTyped
<1> HIDE DEF s0
<1>7. Sound(s1) /\ Steady(s1) BY <1>6, RollSound, RollFramed
<1> HIDE DEF s1
<1>8. /\ Sound(s2) /\ Steady(s2)
      /\ s2.ok => (Clustering <=> s2.rec_open_size_off # NoList)
  BY <1>3, <1>7, ClusterSound, ClusterFramed DEF Then, Steady
<1> HIDE DEF s2
<1>9. Sound(s3) /\ Steady(s3)
  <2>1. CASE ~s2.ok BY <1>8, <2>1 DEF Then
  <2>2. CASE s2.ok
    <3>1. s3 = PlaceChunk(s2, s2.pos, cell, NoField2) BY <2>2 DEF Then
    <3> HIDE DEF s3
    <3>2. Good(s2) /\ Framed(s2) BY <1>8, <2>2 DEF Sound, Steady
    <3>3. Placed(s2, s3, cell) /\ Only(s2, s3, PlaceFields)
      BY <1>2, <3>1, <3>2, PlaceChunkStep
    <3>4. Only(s2, s3, PlacedFields) BY <3>3, OnlyMore DEF PlacedFields
    <3>5. Sound(s3) BY <1>2, <1>3, <1>8, <2>2, <3>1, PlaceSideSound
    <3>6. Typed(s3) BY <3>5 DEF Sound, Good
    <3>7. Framed(s3) BY <1>2, <1>8, <2>2, <3>2, <3>3, <3>4, <3>6, MediaFramed
    <3> QED BY <3>5, <3>7 DEF Steady
  <2> QED BY <2>1, <2>2
<1>10. ~m'.trailer_written
  <2>1. trailers = 0 BY DEF WriteSidebandChunk, MayWrite
  <2>2. m'.header_written BY <1>1, <1>9 DEF Sound, Good
  <2>3. DInv' => (m'.header_written /\ trailers' = 0 => ~m'.trailer_written)
    BY DEF DInv, Going
  <2> QED BY <1>1, <1>4, <2>1, <2>2, <2>3
<1> HIDE DEF s3
<1> QED BY <1>1, <1>4, <1>9, <1>10, LayoutNext

\* write_header
LEMMA WriteHeaderLInv ==
  ASSUME LInv, WriteHeader
  PROVE  LInv'
<1>1. DInv /\ Early(m) /\ opts \in Options
  BY DEF LInv, DInv, SInv, Sound, WriteHeader, Good
<1>2. m' = HeaderState(m) /\ opts' = opts
  BY DEF WriteHeader, HeaderState, SetHeader
<1>3. DInv' BY <1>1, WriteHeaderDInv
<1>4. Framed(m') BY <1>1, <1>2, HeaderFramed
<1>5. ~m'.trailer_written
  <2>1. ~m.trailer_written BY DEF LInv, DInv, WriteHeader
  <2>2. Only(m, m', {"disk", "pos"} \cup HeaderFields)
    BY <1>1, <1>2, HeaderStep DEF Early
  <2> QED BY <2>1, <2>2 DEF Only, Fields, HeaderFields
<1> QED BY <1>2, <1>3, <1>4, <1>5, LayoutNext DEF Steady

\* write_trailer: when it answers Ok it has closed the cluster, LIST movi and
\* the RIFF, and the patches after that leave the layout alone.
LEMMA WriteTrailerLInv ==
  ASSUME LInv, Disciplined, WriteTrailer
  PROVE  LInv'
<1> DEFINE s0 == SetOk(m, TRUE)
           s1 == CloseRecCluster(s0)
           s2 == IF OpenDml /\ ~s1.strl_std_active THEN FlushIxChunks(s1) ELSE s1
           f == FinishSegment(s2)
           s3 == Then(s1, f)
           u == PatchPostCounts(s3)
           v == PatchIndx(u)
           s4 == Conclude(v)
<1>1. m' = Then(s3, s4)
  BY DEF WriteTrailer, SetOk
<1>2. opts \in Options /\ opts' = opts /\ trailers' # 0
  BY DEF LInv, DInv, SInv, WriteTrailer
<1>3. DInv' BY NextDInv DEF LInv, Next
<1>4. Going(m) /\ Typed(m) /\ Steady(m)
  BY DEF LInv, DInv, Going, Sound, Good, WriteTrailer
<1>5. /\ Going(s0) /\ Tidy(m, s0) /\ s0.ok /\ Typed(s0)
      /\ Framed(m) => Framed(s0)
      /\ s0.riff_size_off = m.riff_size_off
  <2>1. Going(s0) /\ Tidy(m, s0) /\ s0.ok /\ Typed(s0)
    BY <1>4, SetOkGoing, OkTyped
  <2>2. Framed(m) => Framed(s0) BY <1>4, SetOkFramed
  <2>3. s0.riff_size_off = m.riff_size_off BY <1>4 DEF SetOk, Typed, MuxerRecord
  <2> QED BY <2>1, <2>2, <2>3
<1> HIDE DEF s0
<1>6. Good(s0) BY <1>5 DEF Going, Sound
<1>7. /\ Going(s1) /\ Tidy(s0, s1) /\ s1.rec_open_size_off = NoList
      /\ Framed(m) /\ s1.ok => Framed(s1)
      /\ s1.riff_size_off = s0.riff_size_off
  <2>1. Going(s1) /\ Tidy(s0, s1) /\ s1.rec_open_size_off = NoList
    BY <1>5, CloseRecClusterGoing
  <2>2. Framed(m) /\ s1.ok => Framed(s1) BY <1>5, <1>6, CloseRecClusterFramed
  <2>3. s1.riff_size_off = s0.riff_size_off
    <3>1. s1 = CloseRecCluster(s0) OBVIOUS
    <3> HIDE DEF s1
    <3>2. \/ s1 = s0
          \/ Only(s0, s1, {"ok", "disk", "rec_open_size_off"})
          \/ Only(s0, s1, {"ok", "disk"} \cup ClusterFields)
      BY <1>5, <1>6, <3>1, CloseRecClusterStep DEF Closed
    <3> QED BY <3>2 DEF Only, Fields, ClusterFields
  <2> QED BY <2>1, <2>2, <2>3
<1> HIDE DEF s1
<1>8. Good(s1) /\ Typed(s1) BY <1>7 DEF Going, Sound, Good
<1>9. /\ Going(s2) /\ Good(s2) /\ s2.ok = s1.ok /\ s2.rec_open_size_off = NoList
      /\ s2.pos >= s1.pos /\ s2.riff_size_off = s1.riff_size_off
      /\ Framed(m) /\ s2.ok => Framed(s2)
  <2>1. CASE OpenDml /\ ~s1.strl_std_active
    <3>1. s2 = FlushIxChunks(s1) BY <2>1
    <3> HIDE DEF s2
    <3>2. IxFlush(s1, s2) BY <1>8, <3>1, FlushIxChunksStep
    <3>3. Sound(s1) BY <1>7 DEF Going
    <3>4. Sound(s2) /\ s2.rec_open_size_off = NoList /\ s2.ok = s1.ok
      BY <1>7, <1>8, <3>1, <3>3, FlushIxChunksSound
    <3>5. Going(s2) /\ Tidy(s1, s2) BY <1>7, <2>1, <3>2, <3>4, IxFlushGoing
    <3>6. Framed(m) /\ s2.ok => Framed(s2)
      BY <1>7, <1>8, <3>1, <3>4, FlushIxChunksFramed
    <3>7. s2.riff_size_off = s1.riff_size_off BY <3>2 DEF IxFlush, Only, Fields
    <3> QED BY <3>4, <3>5, <3>6, <3>7 DEF Going, Sound, Tidy
  <2>2. CASE ~(OpenDml /\ ~s1.strl_std_active)
    <3>1. s2 = s1 BY <2>2
    <3>2. s1.pos \in Nat BY <1>8 DEF Typed, MuxerRecord
    <3> QED BY <1>7, <1>8, <3>1, <3>2
  <2> QED BY <2>1, <2>2
<1> HIDE DEF s2
<1>10. ASSUME s1.ok
       PROVE  /\ Good(f) /\ ~f.trailer_written
              /\ f.ok => Framed(m) /\ Walkable(f)
  <2>1. s2.ok /\ Sound(s2) /\ ~s2.trailer_written BY <1>9, <1>10 DEF Going
  <2>2. /\ Only(s2, f, {"ok", "disk", "pos", "segments"})
        /\ Writes(s2, f, {s2.riff_size_off - 4, s2.movi_size_off - 4}, {"idx1"})
        /\ f.ok => f.pos - (s2.riff_size_off + 4) <= DwMax
    BY <1>9, <2>1, FinishSegmentStep
  <2>3. Good(f)
    <3>1. Sound(f) BY <1>9, <2>1, FinishSegmentSound
    <3> QED BY <3>1 DEF Sound
  <2>4. f.trailer_written = s2.trailer_written /\ f.riff_size_off = s2.riff_size_off
    BY <2>2 DEF Only, Fields
  <2>5. CASE Framed(m)
    <3>1. Framed(s2) BY <1>9, <2>1, <2>5
    <3>2. f.ok => Walkable(f) BY <1>9, <2>1, <3>1, FinishSegmentFramed
    <3> QED BY <2>1, <2>3, <2>4, <2>5, <3>2
  <2>6. CASE Doomed(m)
    <3>1. /\ Typed(f) /\ f.riff_size_off = m.riff_size_off /\ f.pos >= m.pos
      <4>1. /\ m.pos \in Nat /\ s0.pos \in Nat /\ s1.pos \in Nat /\ s2.pos \in Nat
            /\ f.pos \in Nat
        BY <1>4, <1>5, <1>8, <1>9, <2>3 DEF Good, Typed, MuxerRecord
      <4>2. /\ s0.pos >= m.pos /\ s1.pos >= s0.pos /\ s2.pos >= s1.pos
            /\ f.pos >= s2.pos
        BY <1>5, <1>7, <1>9, <2>2 DEF Tidy, Writes
      <4>3. f.pos >= m.pos BY <4>1, <4>2
      <4> QED BY <1>5, <1>7, <1>9, <2>3, <2>4, <4>3 DEF Good
    <3>2. Doomed(f) BY <1>4, <2>6, <3>1, DoomedKept
    <3>3. f.ok => f.pos - (f.riff_size_off + 4) <= DwMax BY <2>2, <2>4
    <3>4. f.pos \in Nat /\ f.riff_size_off \in Nat /\ DwMax \in Nat
      BY <3>1, MuxerAssumption DEF Typed, MuxerRecord
    <3>5. f.pos - (f.riff_size_off + 4) > DwMax BY <3>2 DEF Doomed
    <3>6. ~f.ok BY <3>3, <3>4, <3>5
    <3> QED BY <2>1, <2>3, <2>4, <3>6
  <2> QED BY <1>4, <2>5, <2>6 DEF Steady
<1> HIDE DEF f
<1>11. m'.trailer_written => Walkable(m')
  <2>1. CASE ~s1.ok
    <3>1. m' = s1 BY <1>1, <2>1 DEF Then
    <3> QED BY <1>7, <3>1 DEF Going
  <2>2. CASE s1.ok
    <3>1. s3 = f BY <2>2 DEF Then
    <3> HIDE DEF s3
    <3>2. CASE ~f.ok
      <4>1. m' = f BY <1>1, <3>1, <3>2 DEF Then
      <4> QED BY <1>10, <2>2, <4>1
    <3>3. CASE f.ok
      <4>1. m' = s4 BY <1>1, <3>1, <3>3 DEF Then
      <4>2. Good(s3) /\ Walkable(s3) BY <1>10, <2>2, <3>1, <3>3
      <4>3. Good(u) /\ Only(s3, u, {"stamp"})
        BY <4>2, PatchPostCountsGood, PatchPostCountsStep
      <4> HIDE DEF u
      <4>4. Good(v) /\ Only(u, v, {"tracks"})
        BY <1>2, <4>3, PatchIndxGood, PatchIndxStep
      <4> HIDE DEF v
      <4>5. Only(v, s4, {"over_budget", "ok", "trailer_written"})
        BY <4>4, ConcludeStep
      <4> HIDE DEF s4
      <4>6. u.disk = s3.disk /\ u.pos = s3.pos BY <4>3 DEF Only, Fields
      <4>7. v.disk = u.disk /\ v.pos = u.pos BY <4>4 DEF Only, Fields
      <4>8. s4.disk = v.disk /\ s4.pos = v.pos BY <4>5 DEF Only, Fields
      <4>9. Walkable(s4) BY <4>2, <4>6, <4>7, <4>8, WalkableSame
      <4> QED BY <4>1, <4>9
    <3> QED BY <3>2, <3>3
  <2> QED BY <2>1, <2>2
<1> QED BY <1>2, <1>3, <1>11, LayoutNext

\* The calls that write nothing.
LEMMA LightLInv ==
  ASSUME LInv, Disciplined,
         (\E off \in Field2Offs : SetField2Offset(off)) \/ EarlyReturn
  PROVE  LInv'
<1>1. DInv' BY NextDInv DEF LInv, Next
<1>2. DInv /\ Typed(m) BY DEF LInv, DInv, SInv, Sound, Early, Good, Fresh
<1>3. opts' = opts /\ trailers' = trailers BY DEF SetField2Offset, EarlyReturn
<1>4. /\ Only(m, m', {"ok", "pending_field2"})
      /\ m'.ok => m.ok \/ m.trailer_written
  <2>1. ASSUME NEW off \in Field2Offs, SetField2Offset(off)
        PROVE  Only(m, m', {"ok", "pending_field2"}) /\ m'.ok = m.ok
    <3>1. m' = SetPending(m, off) BY <2>1 DEF SetField2Offset, SetPending
    <3> QED BY <1>2, <3>1 DEF Typed, MuxerRecord, SetPending, Only, Fields
  <2>2. ASSUME EarlyReturn
        PROVE  Only(m, m', {"ok", "pending_field2"}) /\ (m'.ok => m.trailer_written)
    <3>1. PICK b \in BOOLEAN : m' = SetOk(m, b) /\ (b => m.trailer_written)
      BY <2>2 DEF EarlyReturn, SetOk
    <3> QED BY <1>2, <3>1 DEF Typed, MuxerRecord, SetOk, Only, Fields
  <2> QED BY <2>1, <2>2
<1>5. /\ m'.disk = m.disk /\ m'.pos = m.pos /\ SameLists(m, m')
      /\ m'.header_written = m.header_written
      /\ m'.trailer_written = m.trailer_written
      /\ m'.rec_open_size_off = m.rec_open_size_off
  BY <1>4 DEF Only, Fields, SameLists
<1>6. m'.header_written /\ trailers' = 0 => Steady(m')
  <2>1. SUFFICES ASSUME m.header_written, trailers = 0 PROVE Steady(m')
    BY <1>3, <1>5
  <2>2. Steady(m) /\ ~m.trailer_written BY <2>1 DEF LInv, DInv, Going
  <2>3. (Framed(m) => Framed(m')) /\ (Doomed(m) => Doomed(m'))
    BY <1>5, FramedSame
  <2> QED BY <1>4, <2>2, <2>3 DEF Steady
<1>7. m'.trailer_written => Walkable(m') BY <1>5, WalkableSame DEF LInv
<1> QED BY <1>1, <1>3, <1>6, <1>7, LayoutNext

\* LInv is an invariant of the muxer for a disciplined caller.
THEOREM LayoutAlways ==
  ASSUME Disciplined
  PROVE  Spec => []LInv
<1>1. Init => LInv
  <2> SUFFICES ASSUME Init PROVE LInv
    OBVIOUS
  <2>1. ~m.header_written /\ ~m.trailer_written BY Zenon DEF Init
  <2> QED BY <2>1, InitDInv DEF LInv
<1>2. ASSUME LInv, UNCHANGED vars PROVE LInv'
  <2>1. DInv' BY <1>2, StutterDInv DEF LInv
  <2>2. m' = m /\ opts' = opts /\ trailers' = trailers BY <1>2 DEF vars
  <2> QED BY <1>2, <2>1, <2>2, LayoutNext DEF LInv
<1>3. LInv /\ [Next]_vars => LInv'
  BY <1>2, WriteHeaderLInv, WritePacketLInv, WriteSidebandChunkLInv,
     WriteTrailerLInv, LightLInv DEF Next
<1> QED BY <1>1, <1>3, PTL DEF Spec

\* A finished file can be walked chunk by chunk from its start to its end: every
\* chunk is followed by a chunk or by the end, lists are nested, chunks stand in
\* the lists they belong to and one idx1 ends the first RIFF.
THEOREM FileWellFormedHolds ==
  ASSUME Disciplined
  PROVE  Spec => []FileWellFormed
<1>1. ASSUME LInv, m.trailer_written PROVE FileWellFormed
  <2> DEFINE none == {}
  <2>1. Laid(m, none) /\ Ended(m) BY <1>1 DEF LInv, Walkable
  <2>2. none = {} OBVIOUS
  <2> HIDE DEF none
  <2>3. \A at \in DOMAIN m.disk : ChunkEnd(at) = End(m, none, at) /\ After(at) = Next1(m, none, at)
    BY <2>2 DEF ChunkEnd, After, End, Next1
  <2>4. \A at \in DOMAIN m.disk : Around(at) = Holders(m, none, at)
    BY <2>3 DEF Around, Lists, Chunks, Holders, Holds
  <2>5. \A at \in DOMAIN m.disk : \A l \in Around(at) :
          l \in DOMAIN m.disk /\ Holds(m, none, l, at)
    BY <2>4 DEF Holders
  <2>6. ASSUME NEW at \in DOMAIN m.disk
        PROVE  /\ After(at) \in Bounds(m)
               /\ ChunkEnd(at) \in Bounds(m)
               /\ \A l \in Around(at) : ChunkEnd(at) <= ChunkEnd(l)
               /\ {m.disk[l].id : l \in Around(at)} \in Parents(m.disk[at].id)
    <3>1. After(at) \in Bounds(m) /\ ChunkEnd(at) \in Bounds(m)
      BY <2>1, <2>3 DEF Laid
    <3>2. \A l \in Around(at) : ChunkEnd(at) <= ChunkEnd(l)
      BY <2>1, <2>3, <2>5 DEF Laid
    <3>3. {m.disk[l].id : l \in Around(at)} = Kinds(m, Holders(m, none, at))
      BY <2>4 DEF Kinds
    <3> QED BY <2>1, <3>1, <3>2, <3>3 DEF Laid
  <2>7. \E at \in DOMAIN m.disk :
          Chunks(m, {"idx1"}) = {at} /\ ChunkEnd(at) = ChunkEnd(0)
    <3>1. Chunks(m, {"idx1"}) = Idx1Chunks(m) BY DEF Chunks, Idx1Chunks
    <3>2. PICK x \in DOMAIN m.disk :
            Idx1Chunks(m) = {x} /\ End(m, none, x) = End(m, none, 0)
      BY <2>1, <2>2 DEF Ended
    <3>3. 0 \in DOMAIN m.disk BY <2>1 DEF Ended
    <3> QED BY <2>3, <3>1, <3>2, <3>3
  <2> QED BY <2>6, <2>7 DEF FileWellFormed, Bounds
<1>2. LInv => FileWellFormed BY <1>1 DEF FileWellFormed
<1> QED BY <1>2, LayoutAlways, PTL
=============================================================================
