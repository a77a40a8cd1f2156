----------------------------- MODULE AviContainer -----------------------------
(***************************************************************************)
(* What the AVI muxer promises its caller: the chunks it is handed become  *)
(* a sequence cut into segments (the primary RIFF and the RIFF AVIX        *)
(* continuations).  A chunk goes at the end, a segment is only left behind *)
(* once it carries a packet, only OpenDML files have more than one, and a  *)
(* finished file is final.  How the sequence is laid out on disk, indexed  *)
(* and back-patched is the business of AviMuxer, which implements this.    *)
(***************************************************************************)
EXTENDS Naturals, Sequences

CONSTANT Chunk   \* the packets and the side-band chunks a caller may write

VARIABLES
  multi,    \* the file may have several segments
  chunks,   \* the chunks of the file in file order: [seg, chunk]
  segs,     \* segments opened so far
  final     \* the file has been finished

absVars == <<multi, chunks, segs, final>>

Packet(c) == c.id = "data"

Init ==
  /\ multi \in BOOLEAN
  /\ chunks = <<>>
  /\ segs = 0
  /\ final = FALSE

Open ==
  /\ segs = 0
  /\ segs' = 1
  /\ UNCHANGED <<multi, chunks, final>>

\* Some packet is in the segment being written.
SegmentStarted == \E i \in DOMAIN chunks : chunks[i].seg = segs /\ Packet(chunks[i].chunk)

Add(c) ==
  /\ segs > 0
  /\ ~final
  /\ \/ segs' = segs
     \/ multi /\ SegmentStarted /\ segs' = segs + 1
  /\ chunks' = Append(chunks, [seg |-> segs', chunk |-> c])
  /\ UNCHANGED <<multi, final>>

Finish ==
  /\ segs > 0
  /\ ~final
  /\ final' = TRUE
  /\ UNCHANGED <<multi, chunks, segs>>

Next == Open \/ (\E c \in Chunk : Add(c)) \/ Finish

Spec == Init /\ [][Next]_absVars

=============================================================================
