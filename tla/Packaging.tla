----------------------------- MODULE Packaging -----------------------------
(***************************************************************************)
(* packaging.rs: from the parameters of a stream and the options given for *)
(* it to the strf body, the chunk suffix and the strh defaults.            *)
(***************************************************************************)
EXTENDS StreamHeader

\* CodecParameters.  tag holds a FourCC for video and a wFormatTag for audio.
NoParams ==
  [media |-> "data", id |-> "none", tag |-> None, ext |-> NoExtra, width |-> None,
   height |-> None, pixel_format |-> None, frame_rate |-> None, channels |-> None,
   sample_rate |-> None, sample_format |-> None, bit_rate |-> None]

\* BmihOverrides, and the options of one stream that reach packaging.
NoBmih == [size_image |-> None, pels_per_meter |-> None, clr_important |-> None, planes |-> None]
NoChoices ==
  [top_down |-> FALSE, extensible |-> None, indexed |-> None, bmih |-> NoBmih,
   avg |-> None, time_base |-> <<1, 1>>]

\* StrfEntry.
Entry(suffix, layout, handler, strf, strh_type, sample_size, scale_rate) ==
  [ok |-> TRUE, suffix |-> suffix, layout |-> layout, handler |-> handler, strf |-> strf,
   strh_type |-> strh_type, sample_size |-> sample_size, scale |-> scale_rate[1],
   rate |-> scale_rate[2]]
NotPackaged == [ok |-> FALSE]

PutField(b, o, off) == IF o = None THEN b ELSE WithField(b, off, o[1])

\* Mutant: the planes go where the bit count stands.
ApplyPlanesLate(b, ov) ==
  PutField(PutField(PutField(PutField(PutField(b, ov.planes, 14), ov.size_image, 20),
      IF ov.pels_per_meter = None THEN None ELSE Some(ov.pels_per_meter[1][1]), 24),
      IF ov.pels_per_meter = None THEN None ELSE Some(ov.pels_per_meter[1][2]), 28),
    ov.clr_important, 36)

ApplyBmihOverrides(b, ov) ==
  PutField(PutField(PutField(PutField(PutField(b, ov.planes, 12), ov.size_image, 20),
      IF ov.pels_per_meter = None THEN None ELSE Some(ov.pels_per_meter[1][1]), 24),
      IF ov.pels_per_meter = None THEN None ELSE Some(ov.pels_per_meter[1][2]), 28),
    ov.clr_important, 36)

-----------------------------------------------------------------------------
(* Video *)

\* The dwords that spell four letters or digits, and the FourCC they spell
\* in upper case: the model has one of them.
SpelledFourcc == [q \in {19} |-> "M8RG"]

ExtradataFourccHint(ext) ==
  IF Len(ext.quads) > 0 /\ ext.quads[1] \in DOMAIN SpelledFourcc
  THEN Some(SpelledFourcc[ext.quads[1]]) ELSE None

VideoFourcc(p) ==
  IF p.tag # None THEN p.tag
  ELSE IF ExtradataFourccHint(p.ext) # None THEN ExtradataFourccHint(p.ext)
  ELSE IF p.id = "rgb24" THEN Some("BI_RGB") ELSE None

VideoScaleRate(p) ==
  IF p.frame_rate = None THEN <<1, 25>>
  ELSE <<Largest(p.frame_rate[1][2], 1), Largest(p.frame_rate[1][1], 1)>>

\* rawvideo: the pixel format picks the header; a DIB is written top-down
\* and its rows are padded when they need to be.
Relaid(l) == IF IsIdentity(l) THEN None ELSE Some(l)

\* Mutant: the layout forgets that the DIB is declared top-down.
RawEntryBottomUp(p, h) ==
  Entry(IF h.rule = "Dib" THEN "db" ELSE "dc",
        Relaid(NewLayout(p.pixel_format[1], h.rule, p.width[1], p.height[1], FALSE)),
        h.compression,
        WriteBitmapInfoHeaderOriented(p.width[1], p.height[1], h.compression, h.bit_count,
                                      Extra(h.masks, 0), h.rule = "Dib"),
        "vids", 0, VideoScaleRate(p))

RawEntry(p, h) ==
  Entry(IF h.rule = "Dib" THEN "db" ELSE "dc",
        Relaid(NewLayout(p.pixel_format[1], h.rule, p.width[1], p.height[1], TRUE)),
        h.compression,
        WriteBitmapInfoHeaderOriented(p.width[1], p.height[1], h.compression, h.bit_count,
                                      Extra(h.masks, 0), h.rule = "Dib"),
        "vids", 0, VideoScaleRate(p))

RawVideo(p) ==
  IF p.pixel_format = None THEN NotPackaged
  ELSE IF p.pixel_format[1] \notin WritableFormats THEN NotPackaged
  ELSE RawEntry(p, HeaderFor(p.pixel_format[1]))

\* Anything else keeps its FourCC and its extra data, at 24 bits a pixel; an
\* indexed stream is BI_RGB whatever its FourCC, and only BI_RGB turns over.
TaggedEntry(p, fourcc, c) ==
  IF c.indexed # None
  THEN Entry("db", None, NoFourcc,
             WriteIndexedBitmapInfoHeader(p.width[1], p.height[1], c.indexed[1][1],
                                          c.indexed[1][2]),
             "vids", 0, VideoScaleRate(p))
  ELSE Entry(IF fourcc = NoFourcc THEN "db" ELSE "dc", None, fourcc,
             WriteBitmapInfoHeaderOriented(p.width[1], p.height[1], fourcc, 24, p.ext,
                                           c.top_down /\ fourcc = NoFourcc),
             "vids", 0, VideoScaleRate(p))

BuildVideoStrf(p, c) ==
  IF p.width = None \/ p.height = None THEN NotPackaged
  ELSE IF p.id = "rawvideo" THEN RawVideo(p)
  ELSE IF VideoFourcc(p) = None THEN NotPackaged
  ELSE TaggedEntry(p, VideoFourcc(p)[1], c)

-----------------------------------------------------------------------------
(* Audio *)

PcmSynthFormatTag(id) ==
  CASE id \in {"pcm_u8", "pcm_s16le", "pcm_s24le", "pcm_s32le"} -> Some(1)
    [] id \in {"pcm_f32le", "pcm_f64le"} -> Some(3)
    [] OTHER -> None

AudioFormatTag(p) == IF p.tag # None THEN p.tag ELSE PcmSynthFormatTag(p.id)

BytesPerSample == [U8 |-> 1, S16 |-> 2, S24 |-> 3, S32 |-> 4, F32 |-> 4, F64 |-> 8]

PcmBitsPerSample(id, sample_format) ==
  CASE id = "pcm_u8" -> Some(8)
    [] id \in {"pcm_s16le", "pcm_s16be"} -> Some(16)
    [] id = "pcm_s24le" -> Some(24)
    [] id \in {"pcm_s32le", "pcm_f32le"} -> Some(32)
    [] id = "pcm_f64le" -> Some(64)
    [] OTHER -> IF sample_format = None THEN None
                ELSE Some(8 * BytesPerSample[sample_format[1]])

WholeBytes(bits) == ((bits + 7) \div 8) * 8
BlockAlign(channels, bits) == channels * Largest(bits \div 8, 1)

ExtensibleEntry(p, pcm, e, bits) ==
  LET align == BlockAlign(p.channels[1], bits)
  IN  Entry("wb", None, NoFourcc,
            WriteWaveformatextensible(p.channels[1], p.sample_rate[1],
              p.sample_rate[1] * align, align, bits, e.valid, e.mask, e.guid),
            "auds", IF pcm = None THEN 0 ELSE align, <<1, p.sample_rate[1]>>)

\* Mutant: the block align does not reach strh.
ConstantRateAsFrames(p, tag, align, bits) ==
  Entry("wb", None, NoFourcc,
        WriteWaveformatex(tag, p.channels[1], p.sample_rate[1], p.sample_rate[1] * align,
                          align, bits, 0, EmptyBody.at),
        "auds", 0, <<1, p.sample_rate[1]>>)

\* Blocks of one size: PCM, and the companded eight bits of G.711.
ConstantRateEntry(p, tag, align, bits) ==
  Entry("wb", None, NoFourcc,
        WriteWaveformatex(tag, p.channels[1], p.sample_rate[1], p.sample_rate[1] * align,
                          align, bits, 0, EmptyBody.at),
        "auds", align, <<1, p.sample_rate[1]>>)

\* One frame a chunk.
VariableRateEntry(p, tag) ==
  Entry("wb", None, NoFourcc,
        WriteWaveformatex(tag, p.channels[1], p.sample_rate[1], OrElse(p.bit_rate, 0) \div 8,
                          1, 0, ExtraBytes(p.ext), ExtraFields(p.ext, 18)),
        "auds", 0, <<1, p.sample_rate[1]>>)

PlainAudio(p, tag, pcm) ==
  IF tag = None THEN NotPackaged
  ELSE IF tag[1] = WAVE_FORMAT_EXTENSIBLE THEN NotPackaged
  ELSE IF pcm # None THEN ConstantRateEntry(p, tag[1], BlockAlign(p.channels[1], pcm[1]), pcm[1])
  ELSE IF p.id \in {"pcm_alaw", "pcm_mulaw"} THEN ConstantRateEntry(p, tag[1], p.channels[1], 8)
  ELSE VariableRateEntry(p, tag[1])

BuildAudioStrf(p, c) ==
  LET pcm == PcmBitsPerSample(p.id, p.sample_format)
  IN  IF p.channels = None \/ p.sample_rate = None THEN NotPackaged
      ELSE IF c.extensible = None THEN PlainAudio(p, AudioFormatTag(p), pcm)
      ELSE ExtensibleEntry(p, pcm, c.extensible[1],
             IF pcm # None THEN pcm[1] ELSE WholeBytes(Largest(c.extensible[1].valid, 8)))

-----------------------------------------------------------------------------
\* A text stream's strf is its extra data as it is.
TextEntry(p, c) ==
  Entry("tx", None, NoFourcc, Body(ExtraBytes(p.ext), ExtraFields(p.ext, 0)), "txts", 0,
        <<Largest(c.time_base[1], 1), Largest(c.time_base[2], 1)>>)

WithStrf(entry, strf) == [entry EXCEPT !.strf = strf]

Overridden(entry, c) ==
  IF ~entry.ok THEN entry
  ELSE IF entry.strh_type = "vids"
       THEN WithStrf(entry, ApplyBmihOverrides(entry.strf, c.bmih))
       ELSE WithStrf(entry, PutField(entry.strf, c.avg, 8))

BuildStrf(p, c) ==
  CASE p.media = "video" -> Overridden(BuildVideoStrf(p, c), c)
    [] p.media = "audio" -> Overridden(BuildAudioStrf(p, c), c)
    [] p.media = "subtitle" -> TextEntry(p, c)
    [] OTHER -> NotPackaged
=============================================================================
