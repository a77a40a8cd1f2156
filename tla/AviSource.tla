------------------------------ MODULE AviSource ------------------------------
(***************************************************************************)
(* What a caller may expect of a demuxer, whatever its file looks like     *)
(* inside: a fixed list of packets, a cursor that reading moves by one and *)
(* seeking moves to a keyframe, and answers that say which.  A call that   *)
(* fails leaves the cursor alone.                                          *)
(***************************************************************************)
EXTENDS Integers, Sequences

VARIABLES
  packets,  \* the packets the file holds, in file order: [trk, at, key]
  cursor,   \* how many of them are behind the reader
  answer    \* of the last call

vars == <<packets, cursor, answer>>

Failures == {"refused", "io_error"}

Init == cursor = 0 /\ answer.kind \in {"nothing"} \cup Failures

\* next_packet returns the packet after the cursor.
Read ==
  /\ cursor < Len(packets)
  /\ cursor' = cursor + 1
  /\ answer'.kind = "packet"
  /\ answer'.trk = packets[cursor'].trk
  /\ answer'.at = packets[cursor'].at
  /\ UNCHANGED packets

\* It says Eof only when there is none.
End ==
  /\ cursor = Len(packets)
  /\ answer'.kind = "eof"
  /\ UNCHANGED <<packets, cursor>>

\* A seek lands in front of a keyframe of the stream asked for.
Land ==
  /\ answer'.kind = "landed"
  /\ \E i \in 1 .. Len(packets) :
       /\ packets[i].trk = answer'.trk
       /\ packets[i].key
       /\ cursor' = i - 1
  /\ UNCHANGED packets

Fail ==
  /\ answer'.kind \in Failures
  /\ UNCHANGED <<packets, cursor>>

Next == Read \/ End \/ Land \/ Fail

Spec == Init /\ [][Next]_vars

=============================================================================
