---------------------------- MODULE StreamHeader ----------------------------
(***************************************************************************)
(* The 56 bytes of strh: written by write_strl of muxer.rs with an         *)
(* optional override for every field, read by build_stream of demuxer.rs.  *)
(* dwLength and dwSuggestedBufferSize start at zero and are patched at the *)
(* end of the file.                                                        *)
(***************************************************************************)
EXTENDS StreamFormat

\* FourCCs of zeroes, and the dwQuality that means "not set" (0xFFFFFFFF,
\* which as a 32-bit number is -1).
NoFourcc == "BI_RGB"
QualityUnset == -1

StrhLength == 32
StrhBuffer == 36

\* Every with_stream_* override absent.
NoOverrides ==
  [fcc_type |-> None, handler |-> None, flags |-> None, priority |-> None, language |-> None,
   initial_frames |-> None, timebase |-> None, start |-> None, quality |-> None,
   sample_size |-> None, rect |-> None]

\* rcFrame: the override, the coded size of a video stream, or zero.
DestinationRect(strh_type, width, height, ov) ==
  OrElse(ov.rect, IF strh_type = "vids" THEN <<0, 0, OrElse(width, 0), OrElse(height, 0)>>
                                        ELSE <<0, 0, 0, 0>>)

StrhFields(entry, timebase, rect, ov) ==
  [o \in {0, 4, 8, 12, 14, 16, 20, 24, 28, 32, 36, 40, 44, 48, 50, 52, 54} |->
     CASE o = 0 -> OrElse(ov.fcc_type, entry.strh_type)
       [] o = 4 -> OrElse(ov.handler, entry.handler)
       [] o = 8 -> OrElse(ov.flags, 0)
       [] o = 12 -> OrElse(ov.priority, 0)
       [] o = 14 -> OrElse(ov.language, 0)
       [] o = 16 -> OrElse(ov.initial_frames, 0)
       [] o = 20 -> timebase[1]
       [] o = 24 -> timebase[2]
       [] o = 28 -> OrElse(ov.start, 0)
       [] o \in {StrhLength, StrhBuffer} -> 0
       [] o = 40 -> OrElse(ov.quality, QualityUnset)
       [] o = 44 -> OrElse(ov.sample_size, entry.sample_size)
       [] OTHER -> rect[(o - 46) \div 2]]

WriteStrh(entry, params, ov) ==
  Body(56, StrhFields(entry, OrElse(ov.timebase, <<entry.scale, entry.rate>>),
                      DestinationRect(entry.strh_type, params.width, params.height, ov), ov))

\* A 48-byte strh without rcFrame is accepted.  A field that holds its
\* default reads as absent.
NonZeroFourcc(f) == IF f = NoFourcc THEN None ELSE Some(f)

ReadTimebase(scale, rate) == IF scale = 0 \/ rate = 0 THEN None ELSE Some(<<scale, rate>>)

OptionalWord(b, o) == NonZero(b.at[o])
OptionalDword(b, o) == NonZero(b.at[o])
ReadQuality(b) == IF b.at[40] = QualityUnset THEN None ELSE Some(b.at[40])

ReadRect(b) ==
  IF b.len < 56 \/ \A o \in {48, 50, 52, 54} : b.at[o] = 0 THEN None
  ELSE Some(<<b.at[48], b.at[50], b.at[52], b.at[54]>>)

ParseStrh(b) ==
  IF b.len < 48 THEN TooShort
  ELSE [ok |-> TRUE, strh_type |-> b.at[0],
        fcc_type |-> NonZeroFourcc(b.at[0]), handler |-> NonZeroFourcc(b.at[4]),
        flags |-> OptionalDword(b, 8), priority |-> OptionalWord(b, 12),
        language |-> OptionalWord(b, 14), initial_frames |-> OptionalDword(b, 16),
        timebase |-> ReadTimebase(b.at[20], b.at[24]), start |-> OptionalDword(b, 28),
        length |-> OptionalDword(b, StrhLength), buffer |-> OptionalDword(b, StrhBuffer),
        quality |-> ReadQuality(b), sample_size |-> OptionalDword(b, 44),
        rect |-> ReadRect(b)]

\* The clamped pair a stream's timestamps count in.
TimeBaseOf(scale, rate) == <<Largest(scale, 1), Largest(rate, 1)>>
=============================================================================
