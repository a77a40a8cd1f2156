----------------------------- MODULE StreamFourcc -----------------------------
(***************************************************************************)
(* The stream number in a chunk's FourCC: packet_fourcc_for of the muxer   *)
(* spells it, parse_stream_index of the demuxer reads it.  Characters are  *)
(* their ASCII codes.                                                      *)
(***************************************************************************)
EXTENDS Integers, Sequences

CONSTANT NumStreams   \* streams of the file, numbered from 0: 1 to 99

VARIABLES
  names,   \* the first two characters of the chunks in the file, in order
  sent,    \* the streams they were written for
  taken    \* what the demuxer made of them: a stream, or Skipped

vars == <<names, sent, taken>>

Zero == 48     \* '0'
LowerA == 97   \* 'a'
UpperA == 65   \* 'A'
Skipped == -1

\* packet_fourcc_for
PacketFourccFor(index) == <<(index \div 10) + Zero, (index % 10) + Zero>>

\* ascii_hex, -1 for None
AsciiHex(b) ==
  CASE b \in Zero .. Zero + 9 -> b - Zero
    [] b \in LowerA .. LowerA + 5 -> b - LowerA + 10
    [] b \in UpperA .. UpperA + 5 -> b - UpperA + 10
    [] OTHER -> -1

\* parse_stream_index, -1 for None
ParseStreamIndex(name) ==
  LET h == AsciiHex(name[1])
      l == AsciiHex(name[2])
  IN IF h = -1 \/ l = -1 THEN -1 ELSE h * 16 + l

Init == names = <<>> /\ sent = <<>> /\ taken = <<>>

\* write_packet for one stream after the other.
WritePacket ==
  /\ Len(names) < NumStreams
  /\ names' = Append(names, PacketFourccFor(Len(names)))
  /\ sent' = Append(sent, Len(names))
  /\ UNCHANGED taken

\* next_packet: a chunk of a stream the header does not declare is skipped.
NextPacket ==
  /\ Len(taken) < Len(names)
  /\ LET s == ParseStreamIndex(names[Len(taken) + 1])
     IN taken' = Append(taken, IF s \in 0 .. NumStreams - 1 THEN s ELSE Skipped)
  /\ UNCHANGED <<names, sent>>

Next == WritePacket \/ NextPacket

Spec == Init /\ [][Next]_vars

\* open_avi of the muxer: "We use 2 ASCII *decimal* digits 00..99 for the chunk
\* index": every packet is returned for the stream it was written for.
ReadAsWritten == \A i \in DOMAIN taken : taken[i] = sent[i]

=============================================================================
