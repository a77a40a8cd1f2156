----------------------------- MODULE AviRoundTrip -----------------------------
(***************************************************************************)
(* The muxer and the demuxer meet in a file: what AviMuxer leaves on disk, *)
(* at any point of any sequence of calls, is opened and read by AviReader. *)
(***************************************************************************)
EXTENDS AviMuxerRefinement, SequencesExt

\* A CBR audio stream ticks once per dwSampleSize bytes in the demuxer too.
Reader == INSTANCE AviCrossChecks WITH Divisor <- SampleSize

\* The output as a file.  A super-index says AVI_INDEX_2FIELD from
\* write_header on; its entries are there once write_trailer has patched them.
FileOf(s) ==
  [ disk |-> s.disk, len |-> s.pos,
    indx |-> [t \in Streams |-> s.tracks[t].indx],
    notime |-> {},
    twofield |-> IF OpenDml /\ ~StrlStdRequested(opts) THEN opts.field2 ELSE {} ]

\* The caller's packets among the chunks of the file, in order, with the
\* segment they were written to and the timestamp they should be read with.
Written ==
  LET own == SelectSeq([i \in DOMAIN FileOrder |-> FileOrder[i]],
                       LAMBDA at : m.disk[at].id = "data")
      before(i) == {j \in 1 .. i - 1 : m.disk[own[j]].trk = m.disk[own[i]].trk}
      packet(i) ==
        LET c == m.disk[own[i]] IN
        [kind |-> "packet", trk |-> c.trk, at |-> own[i], key |-> c.key,
         pts |-> MapThenSumSet(LAMBDA j : Reader!TimeDelta(c.trk, m.disk[own[j]].len), before(i))]
  IN [i \in DOMAIN own |-> packet(i)]

Opened == Reader!Open(FileOf(m))

\* The answers of next_packet up to the first that is no packet, which is left
\* out; the demuxer afterwards is the second part.
ReadAll(d) ==
  LET F == FileOf(m)
      read[n \in Nat] ==
        IF n = 0 THEN [packets |-> <<>>, d |-> d, more |-> TRUE]
        ELSE LET r == read[n - 1]
                 p == Reader!ReadPacket(F, r.d)
             IN IF ~r.more THEN r
                ELSE IF p.got.kind = "packet"
                     THEN [packets |-> Append(r.packets, p.got), d |-> p, more |-> TRUE]
                     ELSE [packets |-> r.packets, d |-> p, more |-> FALSE]
  IN read[MaxChunks + 1]

-----------------------------------------------------------------------------
(* Properties                                                              *)

\* What write_trailer has finished reads back as what write_packet was given:
\* every packet of every segment, in order, with its keyframe flag and the
\* timestamp its predecessors add up to, and Eof after the last.
ReadsBack ==
  m.trailer_written =>
    LET d == Opened IN
    /\ d.open
    /\ LET all == ReadAll(d) IN
       /\ all.packets = Written
       /\ all.d.got = Reader!Eof

\* A stream without side-band chunks.
Clean(t) == \A at \in MediaOf(t) : m.disk[at].id = "data"

\* What the demuxer's cross-checks of the index chunks find in a finished file:
\* no base offset outside its movi list (unless the list is empty and ends where
\* it begins), no super-index record without its
\* ix## chunk, no span missing from dwTotalFrames (unless the super-index was
\* too small for the records), and of the audio chunks listed exactly those
\* the caller wrote with part of a block.
ChecksQuiet(d) ==
  LET F == FileOf(m)
      complete(t) == Len(m.tracks[t].indx.ents) = Len(m.tracks[t].ix_chunk_records)
      ragged == {at \in UNION {MediaOf(t) : t \in Streams} :
                   LET t == m.disk[at].trk IN
                   SampleSize[t] > 1 /\ m.disk[at].len % SampleSize[t] # 0}
  IN /\ Chunks(m, MediaIds) # {} => Reader!StdIndexBaseOffsetViolations(F, d) = {}
     /\ Reader!SuperIndexTargetViolations(F, d) = {}
     /\ Reader!SuperIndexDurationViolations(
          F, {t \in VideoStreams : complete(t)}, m.stamp.frames) = {}
     /\ OpenDml => Reader!CbrAudioBlockAlignmentViolations(F, d, SampleSize) = ragged

\* The idx1, the standard indexes and the super-indexes of a finished file agree
\* for the reader: open_avi_strict accepts it, the cross-checks find nothing,
\* and the flags packet_is_keyframe answers from are those of the stream's
\* packets (unless side-band chunks are listed too).
IndexesAgree ==
  m.trailer_written =>
    LET d == Opened IN
    /\ Reader!Divergent(FileOf(m), d.movi, d.idx) = {}
    /\ ChecksQuiet(d)
    /\ \A t \in Streams : Clean(t) =>
         LET own == SelectSeq(Written, LAMBDA p : p.trk = t) IN
         Reader!KeyframePerStream(d.idx, d.std, t) = [i \in DOMAIN own |-> own[i].key]

\* In a finished OpenDML file a seek through the standard indexes to the time
\* of any keyframe, in any segment, inline indexes and the compact layout
\* included, lands there: the next packet is the first keyframe of that time.
SeeksLand ==
  m.trailer_written /\ OpenDml =>
    LET d == Opened
        w == Written
        keys == {i \in DOMAIN w : w[i].key /\ Clean(w[i].trk)}
    IN \A i \in keys :
         LET s == Reader!SeekByStd(d, w[i].trk, w[i].pts)
             same == {j \in keys : w[j].trk = w[i].trk /\ w[j].pts = w[i].pts}
         IN /\ s.got = Reader!Landed(w[i].trk, w[i].pts, 0)
            /\ Reader!ReadPacket(FileOf(m), s).got = w[CHOOSE j \in same : \A k \in same : j <= k]

\* The packets of the segments that are closed.
Closed == SelectSeq(Written, LAMBDA p : SegmentAt(p.at) <= Len(m.segments))

\* A recording that stops between two calls, without write_trailer, has not
\* lost the segments rolled before: the file opens, and what can be read of it
\* starts with all their packets and is never anything but the caller's.
RolledSegmentsSurvive ==
  ~m.trailer_written /\ m.segments # <<>> =>
    LET d == Opened IN
    /\ d.open
    /\ LET got == ReadAll(d).packets
           places(s) == [i \in DOMAIN s |-> <<s[i].at, s[i].pts>>]
       IN /\ IsPrefix(places(Closed), places(got))
          /\ IsPrefix(places(got), places(Written))

=============================================================================
