---------------------------- MODULE MCAviRoundTrip ----------------------------
(***************************************************************************)
(* The configurations of MCAviMuxer with PCM audio of two bytes a tick.    *)
(***************************************************************************)
EXTENDS MCAviMuxer, AviRoundTrip

PcmSampleSize == [t \in Streams |-> 2 * t]

RoundTripPackets ==
  { [trk |-> 0, len |-> 1601, dur |-> 0, key |-> TRUE],
    [trk |-> 0, len |-> 700, dur |-> 0, key |-> FALSE],
    [trk |-> 1, len |-> 5, dur |-> 0, key |-> TRUE] }

=============================================================================
