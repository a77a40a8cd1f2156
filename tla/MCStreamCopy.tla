---------------------------- MODULE MCStreamCopy ----------------------------
(* Streams for StreamCopy: every writable pixel format in sizes whose rows *)
(* need padding or do not, the audio codecs the code tells apart, and      *)
(* headers of other writers.                                               *)
EXTENDS StreamCopy

Video(id, tag, w, h, fmt, rate, ext) ==
  [NoParams EXCEPT !.media = "video", !.id = id, !.tag = tag, !.width = w, !.height = h,
                   !.pixel_format = fmt, !.frame_rate = rate, !.ext = ext]
Audio(id, tag, ch, fmt, rate, ext) ==
  [NoParams EXCEPT !.media = "audio", !.id = id, !.tag = tag, !.channels = Some(ch),
                   !.sample_rate = Some(8000), !.sample_format = fmt, !.bit_rate = rate,
                   !.ext = ext]
With(p, c) == [params |-> p, choices |-> c, frame |-> <<>>]
Plain(p) == With(p, NoChoices)

\* Pictures, and the parameter sets a writer of each family makes of them.
\* Sizes are in samples; MaxU32 is 63 in the instance.
Shot(chroma, bits, coded, size, frames_only) ==
  [chroma |-> chroma, bits |-> bits, coded |-> coded, size |-> size, frames_only |-> frames_only]

Shots ==
  << Shot(1, 8, <<16, 16>>, <<10, 12>>, TRUE),
     Shot(1, 8, <<16, 32>>, <<14, 24>>, FALSE),
     Shot(2, 10, <<16, 16>>, <<16, 16>>, TRUE),
     Shot(2, 12, <<32, 16>>, <<30, 15>>, TRUE),
     Shot(0, 8, <<16, 16>>, <<16, 11>>, TRUE),
     Shot(3, 14, <<16, 16>>, <<15, 16>>, TRUE),
     Shot(3, 8, <<16, 80>>, <<16, 75>>, TRUE),
     Shot(4, 8, <<16, 16>>, <<16, 16>>, TRUE) >>

CropX(s) == (s.coded[1] - s.size[1]) \div SubWidth(s.chroma, FALSE)
CropY(s) == (s.coded[2] - s.size[2]) \div (SubHeight(s.chroma, FALSE) * FieldFactor(s))
WindowOf(s) == IF s.coded = s.size THEN None ELSE Some(<<0, CropX(s), 0, CropY(s)>>)

AvcSet(s, reach) ==
  [nal |-> 7, high |-> TRUE, chroma |-> s.chroma, planes |-> FALSE, luma |-> s.bits - 8,
   chroma_depth |-> s.bits - 8, width |-> s.coded[1] \div 16,
   height |-> s.coded[2] \div (16 * FieldFactor(s)), frames_only |-> s.frames_only,
   window |-> WindowOf(s), reach |-> reach]
\* H.265 has no fields: the window is in samples of a frame.
HevcSet(s, reach) ==
  [nal |-> 33, chroma |-> s.chroma, planes |-> FALSE, luma |-> s.bits - 8,
   chroma_depth |-> s.bits - 8, width |-> s.coded[1], height |-> s.coded[2],
   window |-> IF s.coded = s.size THEN None
              ELSE Some(<<CropX(s), 0, (s.coded[2] - s.size[2]) \div SubHeight(s.chroma, FALSE), 0>>),
   reach |-> reach]

Vp9Key(s) ==
  [form |-> "vp9", key |-> TRUE, rgb |-> FALSE, twelve |-> s.bits = 12,
   profile |-> (IF s.chroma = 1 THEN 0 ELSE 1) + (IF s.bits = 8 THEN 0 ELSE 2),
   ssx |-> s.chroma \in {1, 2}, ssy |-> s.chroma \in {1, 4}]
Av1Header(s) ==
  [type |-> 1, whole |-> TRUE, high |-> s.bits # 8, twelve |-> s.bits = 12,
   profile |-> IF s.bits = 12 \/ s.chroma = 2 THEN 2 ELSE IF s.chroma = 3 THEN 1 ELSE 0,
   mono |-> s.chroma = 0, srgb |-> FALSE, ssx |-> s.chroma \in {0, 1, 2},
   ssy |-> s.chroma \in {0, 1}]

\* A carrier with what its sets are sets of, and whether one is whole.
Shows(s, sized) ==
  [pixel_format |-> LayoutPixelFormat(s.chroma, s.bits),
   size |-> IF sized THEN Coded(s.size[1], s.size[2]) ELSE None]
Nals(s, form, nals, whole, fields) ==
  [form |-> form, nals |-> nals, fields |-> fields, shows |-> Shows(s, TRUE),
   whole |-> whole /\ Coded(s.coded[1], s.coded[2]) # None]
Other(n) == [nal |-> n, reach |-> 0]
\* A window that leaves nothing of the picture.
Blind(set) == [set EXCEPT !.window = Some(<<16, 16, 0, 0>>)]

AvcConfigs(s) ==
  << Nals(s, "avcC", <<AvcSet(s, 6)>>, TRUE, <<>>), Nals(s, "avcC", <<AvcSet(s, 3)>>, FALSE, <<>>),
     Nals(s, "avcC", <<>>, FALSE, <<>>), Nals(s, "avcC", <<Blind(AvcSet(s, 6))>>, FALSE, <<>>),
     Nals(s, "annexB", <<Other(9), AvcSet(s, 6)>>, TRUE, <<>>) >>
AvcFrames(s) ==
  << Nals(s, "annexB", <<Other(9), AvcSet(s, 6), Other(5)>>, TRUE, <<>>),
     Nals(s, "annexB", <<AvcSet(s, 4)>>, s.coded = s.size, <<>>) >>
HevcFields(s) == <<s.chroma, s.bits, s.bits>>
HevcConfigs(s) ==
  << Nals(s, "hvcC", <<Other(32), HevcSet(s, 6)>>, TRUE, HevcFields(s)),
     Nals(s, "hvcC", <<HevcSet(s, 5)>>, FALSE, HevcFields(s)),
     Nals(s, "hvcC", <<Blind(HevcSet(s, 6))>>, FALSE, HevcFields(s)),
     Nals(s, "hvcC", <<>>, FALSE, HevcFields(s)) >>
HevcFrames(s) ==
  << Nals(s, "annexB", <<HevcSet(s, 2), HevcSet(s, 6)>>, TRUE, <<>>),
     Nals(s, "annexB", <<HevcSet(s, 5)>>, FALSE, <<>>) >>
Plainly(s, c) == c @@ [shows |-> Shows(s, FALSE)]
Av1Record(s) ==
  Plainly(s, [form |-> "av1C", high |-> s.bits # 8, twelve |-> s.bits = 12, mono |-> s.chroma = 0,
              ssx |-> s.chroma \in {0, 1, 2}, ssy |-> s.chroma \in {0, 1}, whole |-> TRUE])
Av1Units(s, whole) ==
  Plainly(s, [form |-> "obus", whole |-> whole,
              units |-> <<[type |-> 2, whole |-> TRUE], [Av1Header(s) EXCEPT !.whole = whole]>>])
Vp9Frame(s, key) == Plainly(s, [Vp9Key(s) EXCEPT !.key = key] @@ [whole |-> key])

\* Families by number: H.264, H.265, VP9, AV1.
Writes(f, s) ==
  CASE f = 0 -> s.chroma # 4
    [] f = 1 -> s.chroma # 4
    [] f = 2 -> s.chroma # 0 /\ s.bits # 14
    [] f = 3 -> s.chroma # 4 /\ s.bits # 14
Configs(f, s) ==
  CASE f = 0 -> AvcConfigs(s)
    [] f = 1 -> HevcConfigs(s)
    [] f = 2 -> <<>>
    [] f = 3 -> <<Av1Record(s), Av1Units(s, TRUE)>>
Frames(f, s) ==
  CASE f = 0 -> AvcFrames(s)
    [] f = 1 -> HevcFrames(s)
    [] f = 2 -> <<Vp9Frame(s, TRUE), Vp9Frame(s, FALSE)>>
    [] f = 3 -> <<Av1Units(s, TRUE), Av1Units(s, FALSE)>>

\* A dword and a byte for each carrier.
ConfigKey(f, i, v) == 1000 + 100 * f + 10 * i + v
FrameKey(f, i, v) == 190 + 16 * f + 2 * (i - 1) + v - 1
Written == {<<f, i>> \in (0..3) \X DOMAIN Shots : Writes(f, Shots[i])}
ConfigKeys(w) == {ConfigKey(w[1], w[2], v) : v \in DOMAIN Configs(w[1], Shots[w[2]])}
FrameKeys(w) == {FrameKey(w[1], w[2], v) : v \in 1..2}

MCConfigs ==
  [q \in UNION {ConfigKeys(w) : w \in Written} |->
     Configs((q \div 100) % 10, Shots[(q \div 10) % 10])[q % 10]]
MCFrames ==
  [b \in UNION {FrameKeys(w) : w \in Written} |->
     Frames((b - 190) \div 16, Shots[(((b - 190) % 16) \div 2) + 1])[(b % 2) + 1]]

Rates == {None, Some(<<30, 1>>), Some(<<50, 2>>), Some(<<0, 3>>)}

RawCallers ==
  { Plain(Video("rawvideo", None, Some(w), Some(h), Some(f), r, NoExtra)) :
      w \in 1..4, h \in 0..2, f \in WritableFormats, r \in {None, Some(<<50, 2>>)} }

TaggedCallers ==
  { With(Video(id, t, Some(3), Some(2), None, r, x), c) :
      id \in {"rgb24", "avi:fourcc"}, t \in {None, Some("MJPG"), Some("H264"), Some("BI_RGB")},
      r \in Rates, x \in {NoExtra, Extra(<<19>>, 0), Extra(<<7, 8>>, 3)},
      c \in {NoChoices, [NoChoices EXCEPT !.top_down = TRUE],
             [NoChoices EXCEPT !.indexed = Some(<<8, <<1, 2>>>>),
                               !.bmih.planes = Some(2), !.bmih.pels_per_meter = Some(<<4, 5>>)]} }

Extensible(valid, guid) ==
  [NoChoices EXCEPT !.extensible = Some([mask |-> 3, valid |-> valid, guid |-> guid])]

PcmFormats == [pcm_u8 |-> "U8", pcm_s16le |-> "S16", pcm_s24le |-> "S24",
               pcm_s32le |-> "S32", pcm_f32le |-> "F32", pcm_f64le |-> "F64"]

AudioCallers ==
  { With(Audio(id, None, ch, f, None, NoExtra), c) :
      id \in DOMAIN PcmFormats, ch \in 1..2, f \in {None, Some("S16")},
      c \in {NoChoices, [NoChoices EXCEPT !.avg = Some(5)],
             Extensible(24, KsGuid(1)), Extensible(0, KsGuid(3)),
             Extensible(16, ForeignGuid)} }
  \cup
  { Plain(Audio(n[1], n[2], 2, f, r, x)) :
      n \in {<<"pcm_mulaw", Some(7)>>, <<"mp3", Some(85)>>, <<"mp3", None>>,
             <<"avi:tag", Some(17)>>, <<"avi:tag", Some(65534)>>},
      f \in {None, Some("S16")}, r \in {None, Some(64000)},
      x \in {NoExtra, Extra(<<7>>, 1)} }

\* Compressed video under a name the families know, declared in its coded
\* size, with or without parameter sets in the header and in the frame.
FourccsOf == <<{"H264", "X264"}, {"HEVC"}, {"VP90"}, {"AV01"}>>
ExtrasOf(w) == {NoExtra} \cup {Extra(<<q>>, 1) : q \in ConfigKeys(w)}
HeadsOf(w) == {<<>>} \cup {<<b>> : b \in FrameKeys(w)}

CodedCallers ==
  UNION { { [With(Video("avi:fourcc", Some(t), Some(Shots[w[2]].coded[1]),
                        Some(Shots[w[2]].coded[2]), None, None, x), NoChoices)
             EXCEPT !.frame = h] :
              t \in FourccsOf[w[1] + 1], x \in ExtrasOf(w), h \in HeadsOf(w) } :
          w \in Written }

TextCallers ==
  { With([NoParams EXCEPT !.media = "subtitle", !.id = "avi:txts", !.ext = x],
         [NoChoices EXCEPT !.time_base = <<1, 1000>>]) : x \in {NoExtra, Extra(<<7>>, 1)} }

MCCallers ==
  RawCallers \cup TaggedCallers \cup CodedCallers \cup AudioCallers \cup TextCallers
  \cup {Plain(NoParams), Plain(Video("rawvideo", None, None, Some(2), None, None, NoExtra)),
        Plain(Video("rawvideo", None, Some(2), Some(2), Some("Gray8"), None, NoExtra))}

\* Another writer's stream: upright or not, bit fields known or not, eight
\* bits with a colour table, a short strf, none, a stream of another kind.
ForeignStrh(type, handler, size) ==
  WriteStrh([strh_type |-> type, handler |-> handler, sample_size |-> size, scale |-> 2,
             rate |-> 50], NoParams, NoOverrides)
ForeignFile(strh, strf, n) ==
  [strh |-> strh, strf |-> strf, before |-> <<>>, wire |-> Payload(n)]

ForeignVideo ==
  { ForeignFile(ForeignStrh("vids", "BI_RGB", 0),
                WriteBitmapInfoHeaderOriented(3, 2, c, bits, x, up), n) :
      c \in {"BI_RGB", "BI_BITFIELDS", "RGBA", "MJPG"}, bits \in {8, 16, 24, 32},
      x \in {NoExtra, Extra(<<31744, 992, 31>>, 0), Extra(<<2, 1, 0>>, 0), Extra(<<9>>, 2)},
      up \in BOOLEAN, n \in {16, 24} }

\* In front of the first frame: nothing, an empty chunk, a cluster, a chunk of
\* another stream, one too long to be read past, a palette change.
InFront ==
  {<<>>, <<Chunk(TRUE, 0, 0)>>, <<RecList>>, <<RecList, Chunk(FALSE, 3, 0)>>,
   <<Chunk(FALSE, 60, 0)>>, <<Chunk(TRUE, 6, 1)>>}

ForeignCoded ==
  UNION { { [ForeignFile(ForeignStrh("vids", t, 0),
                         WriteBitmapInfoHeaderOriented(Shots[w[2]].coded[1], Shots[w[2]].coded[2],
                                                       t, 24, x, FALSE), 0)
             EXCEPT !.before = b, !.wire = h \o Payload(20)] :
              t \in FourccsOf[w[1] + 1], x \in ExtrasOf(w), h \in HeadsOf(w), b \in InFront } :
          w \in {v \in Written : v[2] < 4} }

ForeignAudio ==
  { ForeignFile(ForeignStrh("auds", "BI_RGB", s),
                WriteWaveformatex(t, 2, 8000, 16000, 2, bits, 4, ExtraFields(Extra(<<7>>, 0), 18)),
                24) : t \in {1, 3, 6, 7, 85, 255, 65534}, bits \in {0, 8, 16, 24}, s \in {0, 2} }

ForeignOther ==
  { ForeignFile(ForeignStrh(t, h, 0), EmptyBody, 24) :
      t \in {"vids", "auds", "txts", "mids"}, h \in {"BI_RGB", "MJPG"} }
  \cup { ForeignFile(ForeignStrh(t, "MJPG", 0), Body(8, [o \in {} |-> 0]), 24) :
           t \in {"vids", "auds"} }
  \cup { ForeignFile(Body(16, EmptyBody.at), EmptyBody, 24) }

MCForeign == ForeignVideo \cup ForeignCoded \cup ForeignAudio \cup ForeignOther

\* For the runs of one claim each: nobody, MP3 and AAC of another writer with
\* sixteen bits a sample, and callers with G.711 whose parameters leave the
\* sample format to the codec.
Nobody == {}
ForeignCompressed ==
  {f \in ForeignAudio : f.strf.at[0] \in {85, 255} /\ f.strf.at[14] = 16}
CompandedCallers ==
  { Plain(Audio(n[1], n[2], ch, None, None, NoExtra)) :
      n \in {<<"pcm_alaw", Some(6)>>, <<"pcm_mulaw", Some(7)>>}, ch \in 1..2 }

ASSUME ShallowAssumption == NoneTooDeep
=============================================================================
