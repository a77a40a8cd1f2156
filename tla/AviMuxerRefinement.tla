-------------------------- MODULE AviMuxerRefinement --------------------------
(***************************************************************************)
(* AviMuxer implements AviContainer: read in file order, the media chunks  *)
(* on disk are the caller's, in the caller's order, each in the segment    *)
(* that was current when it was written.                                   *)
(***************************************************************************)
EXTENDS AviMuxer

\* The chunks a caller may hand over, as the cells they become.
CallerChunks ==
  {[Cell("data", p.trk, p.len) EXCEPT !.key = p.key] : p \in Packets}
  \cup {Cell(c.kind, c.trk, c.len) : c \in SideChunks}

\* The number of the RIFF the chunk at offset at stands in.
SegmentAt(at) == Cardinality({r \in Chunks(m, {"RIFF"}) : r < at})

\* The media chunks on disk in file order.
FileOrder ==
  LET media == Chunks(m, MediaIds) IN
  [i \in 1 .. Cardinality(media) |->
     CHOOSE at \in media : Cardinality({b \in media : b < at}) = i - 1]

MediaLog ==
  LET order == FileOrder IN
  [i \in DOMAIN order |-> [seg |-> SegmentAt(order[i]), chunk |-> m.disk[order[i]]]]

Container == INSTANCE AviContainer WITH
  Chunk <- CallerChunks,
  multi <- OpenDml,
  chunks <- MediaLog,
  segs <- Cardinality(Chunks(m, {"RIFF"})),
  final <- m.trailer_written

\* Every call of the muxer is a step of the container or leaves it alone: one
\* that fails, at a roll that cannot close a segment or after the packet went
\* past the AVI 1.0 ceiling, loses, repeats and reorders nothing either.
ImplementsContainer == Container!Spec

=============================================================================
