----------------------------- MODULE MCAviMuxer -----------------------------
(***************************************************************************)
(* Instances of AviMuxer for TLC: a video stream 0 and an audio stream 1,  *)
(* real header and chunk sizes, and the smallest segment limit the code    *)
(* accepts, so that a behaviour of a few packets rolls several segments.   *)
(***************************************************************************)
EXTENDS AviMuxerRefinement

MCStreamType == [t \in Streams |-> IF t = 0 THEN "vids" ELSE "auds"]
MCSampleSize == [t \in Streams |-> 0]

\* Bytes write_header puts between the RIFF preamble and LIST movi: hdrl + avih,
\* and per stream strl, strh, strf (40 or 18 bytes), indx and vprp; odml dmlh.
HdrlBytes(kind, indx) ==
  12 + 64 + (12 + 64 + 48) + (12 + 64 + 26)
  + (IF kind = "OpenDml" THEN 2 * 32 + indx + 80 + 24 ELSE 0)

Base ==
  [ kind |-> "OpenDml", limit |-> 0, hdrl |-> HdrlBytes("OpenDml", 2 * 256),
    super |-> 16, strl_std |-> 0, mid |-> [t \in Streams |-> 0], field2 |-> {},
    rec_packets |-> 0, rec_bytes |-> 0, granularity |-> 0, synth |-> FALSE,
    cap |-> [t \in Streams |-> 0], strict |-> FALSE ]

Plain == Base
Clustered == [Base EXCEPT !.rec_packets = 2, !.granularity = 2048]
ByteClusters == [Base EXCEPT !.rec_bytes = 2000, !.mid = [t \in Streams |-> 2 * t],
                             !.synth = TRUE]
Inline == [Base EXCEPT !.mid = [t \in Streams |-> 1 + t], !.field2 = {0},
                       !.rec_packets = 3]
Compact == [Base EXCEPT !.strl_std = 2, !.hdrl = HdrlBytes("OpenDml", 2 * 16),
                        !.field2 = {0}]
Legacy == [Base EXCEPT !.kind = "Avi10", !.hdrl = HdrlBytes("Avi10", 0),
                       !.rec_packets = 2]
LegacyCapped == [Base EXCEPT !.kind = "Avi10", !.hdrl = HdrlBytes("Avi10", 0),
                       !.granularity = 512, !.cap = [t \in Streams |-> 1400],
                       !.strict = TRUE]

\* Segment limits above DwMax: a segment may outgrow 32 bits before it rolls.
LateRoll == [Base EXCEPT !.limit = 5900, !.synth = TRUE]
NeverRolls == [Base EXCEPT !.limit = 20000, !.rec_bytes = 20000]

MCOptions == {Plain, Clustered, ByteClusters, Inline, Compact, Legacy,
              LegacyCapped, LateRoll, NeverRolls}

MCPackets ==
  { [trk |-> 0, len |-> 1601, dur |-> 0, key |-> TRUE],
    [trk |-> 0, len |-> 700, dur |-> 0, key |-> FALSE],
    [trk |-> 1, len |-> 1, dur |-> 3, key |-> TRUE] }
MCSideChunks ==
  { [trk |-> 0, kind |-> "pc", len |-> 1028], [trk |-> 1, kind |-> "tx", len |-> 5] }
MCField2Offs == {750}

\* One configuration, or one packet, each for the runs about the documentation.
TightLimit == {[Base EXCEPT !.limit = 4250]}
OnlyPlain == {Plain}
OnlyCompact == {Compact}
OnlyLegacy == {[Base EXCEPT !.kind = "Avi10", !.hdrl = HdrlBytes("Avi10", 0)]}

SmallPackets == {[trk |-> 0, len |-> 50, dur |-> 0, key |-> TRUE]}
NoSideChunks == {}
NoField2Offs == {}

=============================================================================
