----------------------------- MODULE AviStreams -----------------------------
(***************************************************************************)
(* build_stream of demuxer.rs: from strh and strf to the parameters of a   *)
(* stream, with the codec registry's answers as an external function, and  *)
(* the two rules open_avi_inner derives from them: whether a file opens,   *)
(* and how the rows of a rawvideo stream are laid out.                     *)
(***************************************************************************)
EXTENDS Packaging

\* CodecResolver::resolve_tag: an empty registry, or one with the codecs the
\* repository's tests register.
Resolvers == {"none", "fleet"}
ResolveFourcc(resolver, fourcc) ==
  IF resolver = "none" THEN None
  ELSE CASE fourcc = "MJPG" -> Some("mjpeg") [] fourcc = "H264" -> Some("h264") [] OTHER -> None
ResolveFormatTag(resolver, tag) ==
  IF resolver = "none" THEN None
  ELSE CASE tag = 6 -> Some("pcm_alaw") [] tag = 7 -> Some("pcm_mulaw")
         [] tag = 85 -> Some("mp3") [] tag = 255 -> Some("aac") [] OTHER -> None

VideoCodecIdFallback(fourcc) == IF fourcc = "BI_RGB" THEN "rgb24" ELSE "avi:fourcc"

AudioCodecIdFallback(tag, bits) ==
  CASE tag = 1 -> PcmName(bits) [] tag = 3 -> FloatName(bits) [] OTHER -> "avi:tag"

\* Mutant: a depth that says nothing is taken for sixteen bits.
SampleFormatGuessed(id, bits) ==
  CASE id = "pcm_u8" -> Some("U8")
    [] id \in {"pcm_s16le", "pcm_s16be", "pcm_mulaw", "pcm_alaw"} -> Some("S16")
    [] id = "pcm_s24le" -> Some("S24")
    [] id = "pcm_s32le" -> Some("S32")
    [] id = "pcm_f32le" -> Some("F32")
    [] id = "pcm_f64le" -> Some("F64")
    [] OTHER -> CASE bits = 8 -> Some("U8") [] bits = 24 -> Some("S24")
                  [] bits = 32 -> Some("S32") [] OTHER -> Some("S16")

SampleFormatFor(id, bits) ==
  CASE id = "pcm_u8" -> Some("U8")
    [] id \in {"pcm_s16le", "pcm_s16be", "pcm_mulaw", "pcm_alaw"} -> Some("S16")
    [] id = "pcm_s24le" -> Some("S24")
    [] id = "pcm_s32le" -> Some("S32")
    [] id = "pcm_f32le" -> Some("F32")
    [] id = "pcm_f64le" -> Some("F64")
    [] OTHER -> CASE bits = 8 -> Some("U8") [] bits = 16 -> Some("S16")
                  [] bits = 24 -> Some("S24") [] bits = 32 -> Some("S32") [] OTHER -> None

\* gcd by repeated remainders; rates are lowered to their terms.
CommonDivisor[a \in Nat, b \in Nat] == IF b = 0 THEN a ELSE CommonDivisor[b, a % b]

FrameRateFromStrh(rate, scale) ==
  IF rate = 0 \/ scale = 0 THEN None
  ELSE Some(<<rate \div CommonDivisor[rate, scale], scale \div CommonDivisor[rate, scale]>>)

-----------------------------------------------------------------------------
(* The three kinds of stream.  A stream that is built has the parameters,  *)
(* the chunk suffix packets are accepted with, and what the accessors keep *)
(* of its strf.                                                            *)

NotBuilt == [ok |-> FALSE]
Built(params, suffix, audio, picture) ==
  [ok |-> TRUE, params |-> params, suffix |-> suffix, audio |-> audio, picture |-> picture]

VideoParams(id, raw, fourcc, bmih, strh) ==
  [NoParams EXCEPT
     !.media = "video", !.id = id, !.tag = Some(fourcc),
     !.pixel_format = IF raw = NoFormat THEN None ELSE Some(raw.fmt),
     !.width = IF bmih.ok THEN Some(bmih.width) ELSE None,
     !.height = IF bmih.ok THEN Some(bmih.height) ELSE None,
     !.ext = IF bmih.ok THEN bmih.extra ELSE NoExtra,
     !.frame_rate = FrameRateFromStrh(strh.at[24], strh.at[20])]

\* VideoStrfInfo.
Picture(bmih, masks) ==
  [top_down |-> bmih.top_down, masks |-> masks,
   palette |-> IF bmih.compression = "BI_BITFIELDS" THEN None
               ELSE ParseColorTable(bmih.bit_count, bmih.clr_used, bmih.extra),
   planes |-> bmih.planes, size_image |-> bmih.size_image,
   pels_per_meter |-> bmih.pels_per_meter, clr_used |-> bmih.clr_used,
   clr_important |-> bmih.clr_important]

BuildVideo(strh, bmih, fourcc, masks, raw, id) ==
  Built(VideoParams(id, raw, fourcc, bmih, strh),
        IF id \in {"rgb24", "rawvideo"} THEN "db" ELSE "dc", None,
        IF bmih.ok THEN Some(Picture(bmih, masks)) ELSE None)

NameVideo(strh, bmih, fourcc, masks, raw, resolver) ==
  BuildVideo(strh, bmih, fourcc, masks, raw,
    IF raw # NoFormat THEN "rawvideo"
    ELSE OrElse(ResolveFourcc(resolver, fourcc), VideoCodecIdFallback(fourcc)))

BitfieldsOf(bmih) ==
  IF bmih.ok /\ bmih.compression = "BI_BITFIELDS" THEN ParseBitfieldsMasks(bmih.extra) ELSE NoMasks

ReadVideo(strh, bmih, fourcc, masks, resolver) ==
  NameVideo(strh, bmih, fourcc, masks,
    IF bmih.ok THEN PixelFormatFor(fourcc, bmih.bit_count, masks) ELSE NoFormat, resolver)

BuildVids(strh, strf, bmih, resolver) ==
  IF strf.len > 0 /\ ~bmih.ok THEN NotBuilt
  ELSE ReadVideo(strh, bmih, IF bmih.ok THEN bmih.compression ELSE strh.at[4],
                 BitfieldsOf(bmih), resolver)

\* wValidBitsPerSample, when it is set, stands for the depth.
DepthOf(wfx, ex) == IF ex.ok THEN (IF ex.valid > 0 THEN ex.valid ELSE wfx.bits) ELSE wfx.bits

\* The 22 bytes of the extension are not dwords; nothing looks into them.
AudioExtra(strf, wfx, ex) ==
  IF ex.ok THEN Extra(<<>>, wfx.ext_len)
  ELSE IF wfx.ext_len = 0 THEN NoExtra ELSE ReadExtra(strf, 18, 18 + wfx.ext_len)

\* Mutant: the bit rate is the byte rate.
AudioParamsInBytes(id, strf, wfx, ex) ==
  [NoParams EXCEPT
     !.media = "audio", !.id = id, !.tag = Some(wfx.tag), !.channels = Some(wfx.channels),
     !.sample_rate = Some(wfx.rate), !.ext = AudioExtra(strf, wfx, ex),
     !.sample_format = SampleFormatFor(id, DepthOf(wfx, ex)),
     !.bit_rate = IF wfx.avg > 0 THEN Some(wfx.avg) ELSE None]

AudioParams(id, strf, wfx, ex) ==
  [NoParams EXCEPT
     !.media = "audio", !.id = id, !.tag = Some(wfx.tag), !.channels = Some(wfx.channels),
     !.sample_rate = Some(wfx.rate), !.ext = AudioExtra(strf, wfx, ex),
     !.sample_format = SampleFormatFor(id, DepthOf(wfx, ex)),
     !.bit_rate = IF wfx.avg > 0 THEN Some(8 * wfx.avg) ELSE None]

\* What stays of WAVEFORMATEX and of its extension.
AudioKept(strh, wfx, ex) ==
  [format_tag |-> wfx.tag, sample_size |-> strh.at[44], block_align |-> wfx.align,
   avg |-> wfx.avg, bits |-> wfx.bits,
   valid |-> IF ex.ok THEN Some(ex.valid) ELSE None,
   mask |-> IF ex.ok THEN Some(ex.mask) ELSE None,
   guid |-> IF ex.ok THEN Some(ex.subformat) ELSE None]

\* The registry first, then the sub-format's GUID, then the format tag.
AudioName(resolver, wfx, ex) ==
  OrElse(ResolveFormatTag(resolver, wfx.tag),
    IF ex.ok THEN OrElse(SubformatCodecHint(ex.subformat, DepthOf(wfx, ex)), "avi:guid")
    ELSE AudioCodecIdFallback(wfx.tag, wfx.bits))

\* A strf without a byte leaves a stream without a format.
SilentParams(resolver) ==
  [NoParams EXCEPT !.media = "audio", !.tag = Some(0),
                   !.id = OrElse(ResolveFormatTag(resolver, 0), AudioCodecIdFallback(0, 0))]
SilentKept(strh) ==
  [format_tag |-> 0, sample_size |-> strh.at[44], block_align |-> 0, avg |-> 0, bits |-> 0,
   valid |-> None, mask |-> None, guid |-> None]

ReadAudio(strh, strf, wfx, ex, resolver) ==
  Built(AudioParams(AudioName(resolver, wfx, ex), strf, wfx, ex), "wb",
        Some(AudioKept(strh, wfx, ex)), None)

BuildAuds(strh, strf, wfx, resolver) ==
  IF strf.len = 0 THEN Built(SilentParams(resolver), "wb", Some(SilentKept(strh)), None)
  ELSE IF ~wfx.ok THEN NotBuilt
  ELSE IF wfx.tag # WAVE_FORMAT_EXTENSIBLE THEN ReadAudio(strh, strf, wfx, TooShort, resolver)
  ELSE IF wfx.ext_len < 22 THEN NotBuilt
  ELSE ReadAudio(strh, strf, wfx, ParseWaveformatextensible(strf), resolver)

BuildTxts(strf) ==
  Built([NoParams EXCEPT !.media = "subtitle", !.id = "avi:txts",
                         !.ext = ReadExtra(strf, 0, strf.len)], "tx", None, None)

BuildOther == Built([NoParams EXCEPT !.id = "avi:other"], "xx", None, None)

BuildStream(strh, strf, resolver) ==
  IF strh.len < 48 THEN NotBuilt
  ELSE CASE strh.at[0] = "vids" -> BuildVids(strh, strf, ParseBitmapInfoHeader(strf), resolver)
         [] strh.at[0] = "auds" -> BuildAuds(strh, strf, ParseWaveformatex(strf), resolver)
         [] strh.at[0] = "txts" -> BuildTxts(strf)
         [] OTHER -> BuildOther

-----------------------------------------------------------------------------
(* What opening a file makes of its streams *)

VariableRateTags == {80, 85, 255, 5633, 8192, 8193, 353, 354, 355, 352, 28751}
ConstantRateTags == {1, 6, 7, 17}

AudioStrhViolation(audio) ==
  \/ audio.format_tag \in VariableRateTags /\ audio.sample_size # 0
  \/ audio.format_tag \in ConstantRateTags /\ audio.sample_size = 0

\* Without the lenient flag a stream that breaks the rule fails the open.
Opens(s) == s.ok /\ (s.audio = None \/ ~AudioStrhViolation(s.audio[1]))

RowRuleOf(tag) == IF tag \in {Some("BI_RGB"), Some("BI_BITFIELDS")} THEN "Dib" ELSE "PackedTopDown"

\* raw_layouts: how next_packet unpacks the rows of a rawvideo stream.
ReadLayout(p, picture) ==
  IF p.id # "rawvideo" THEN None
  ELSE Relaid(NewLayout(p.pixel_format[1], RowRuleOf(p.tag), p.width[1], p.height[1],
                        picture # None /\ picture[1].top_down))

\* The bytes of a tick, when a packet's size decides how far time moves.
TimeDeltaDivisor(p) ==
  IF p.media # "audio" \/ p.channels = None \/ p.sample_format = None THEN None
  ELSE IF p.channels[1] = 0 THEN None
  ELSE Some(p.channels[1] * BytesPerSample[p.sample_format[1]])
=============================================================================
