---------------------------- MODULE VideoConfig ----------------------------
(***************************************************************************)
(* video_config.rs: the picture a compressed stream's own parameter sets   *)
(* state, and fill_layouts_from_parameter_sets of demuxer.rs, which asks   *)
(* the bytes behind the BITMAPINFOHEADER first and the stream's first      *)
(* chunk after them.  A parameter set is the record of its syntax elements *)
(* and of how far its data reach; which elements a parser can read is what *)
(* the model keeps of the bit reader.                                      *)
(***************************************************************************)
EXTENDS StreamFormat, SequencesExt, FiniteSetsExt

CONSTANTS MaxU32,        \* the largest 32-bit number
          PeekBytes,     \* FIRST_FRAME_PEEK_BYTES
          ConfigSpelled, \* what extra data spell, by their first dword
          FrameSpelled   \* what a chunk spells, by its first byte

ASSUME VideoConfigAssumption == MaxU32 \in Nat /\ PeekBytes \in Nat

\* Layout of the code: what is known of a picture.
Stated(pixel_format, size) == [pixel_format |-> pixel_format, size |-> size]
NothingStated == Stated(None, None)

PlanarFormats ==
  [n \in {8, 10, 12} |->
     CASE n = 8 -> <<"Gray8", "Yuv420P", "Yuv422P", "Yuv444P", "Yuv440P">>
       [] n = 10 -> <<"Gray10Le", "Yuv420P10Le", "Yuv422P10Le", "Yuv444P10Le", "Yuv440P10Le">>
       [] n = 12 -> <<"Gray12Le", "Yuv420P12Le", "Yuv422P12Le", "Yuv444P12Le", "Yuv440P12Le">>]

LayoutPixelFormat(chroma, bits) ==
  IF bits \in DOMAIN PlanarFormats THEN Some(PlanarFormats[bits][chroma + 1]) ELSE None

\* Luma and chroma of one depth, or luma alone.
FormatOf(t) ==
  IF t = None THEN None
  ELSE IF t[1][1] # 0 /\ t[1][2] # t[1][3] THEN None
  ELSE LayoutPixelFormat(t[1][1], t[1][2])

\* The family of a codec, or of the FourCC when no codec claimed it.
FourccFamily(fourcc) ==
  CASE fourcc \in {"H264", "X264", "AVC1", "DAVC"} -> Some("H264")
    [] fourcc \in {"HEVC", "H265", "HVC1", "HEV1", "X265"} -> Some("Hevc")
    [] fourcc = "VP90" -> Some("Vp9")
    [] fourcc = "AV01" -> Some("Av1")
    [] OTHER -> None

FamilyOf(id, fourcc) ==
  CASE id = "h264" -> Some("H264")
    [] id \in {"h265", "hevc"} -> Some("Hevc")
    [] id = "vp9" -> Some("Vp9")
    [] id = "av1" -> Some("Av1")
    [] id = "avi:fourcc" -> FourccFamily(fourcc)
    [] OTHER -> None

\* VP9 and AV1 state no size that is looked for.
IsComplete(family, l) == l.pixel_format # None /\ (l.size # None \/ family \in {"Vp9", "Av1"})

-----------------------------------------------------------------------------
(* H.264 and H.265.  A parameter set reaches through its id (1), the       *)
(* chroma format (2), H.264's bit depths (3), the size and the flag of the *)
(* window (4), the window's offsets (5), and H.265's bit depths (6).       *)

\* Bytes of chroma per step of the window; separate planes count as luma.
SubWidth(chroma, planes) == IF ~planes /\ chroma \in {1, 2} THEN 2 ELSE 1
SubHeight(chroma, planes) == IF ~planes /\ chroma = 1 THEN 2 ELSE 1

\* What the window <<left, right, top, bottom>> leaves, in steps of x and y.
Windowed(width, height, w, x, y) ==
  LET crop_x == (w[1] + w[2]) * x
      crop_y == (w[3] + w[4]) * y
  IN  IF \/ width > MaxU32 \/ height > MaxU32 \/ crop_x > MaxU32 \/ crop_y > MaxU32
         \/ crop_x >= width \/ crop_y >= height
      THEN None ELSE Some(<<width - crop_x, height - crop_y>>)

\* Without a window nothing is compared.
Coded(width, height) ==
  IF width > MaxU32 \/ height > MaxU32 THEN None ELSE Some(<<width, height>>)

\* The profiles without a chroma format are 4:2:0 at eight bits.
SpsLayout(s) ==
  IF s.nal # 7 \/ s.reach < 1 THEN None
  ELSE IF ~s.high THEN Some(<<1, 8, 8>>)
  ELSE IF s.reach < 3 \/ s.chroma > 3 \/ s.planes THEN None
  ELSE Some(<<s.chroma, s.luma + 8, s.chroma_depth + 8>>)

ChromaOf(s) == IF s.high THEN s.chroma ELSE 1
FieldFactor(s) == IF s.frames_only THEN 1 ELSE 2

\* Mutant: a field picture is cropped in steps of a frame's.
AvcCropsFrames(s) ==
  IF s.nal # 7 \/ s.reach < (IF s.window = None THEN 4 ELSE 5) \/ ChromaOf(s) > 3 THEN None
  ELSE IF s.window = None THEN Coded(16 * s.width, 16 * s.height * FieldFactor(s))
  ELSE Windowed(16 * s.width, 16 * s.height * FieldFactor(s), s.window[1],
                SubWidth(ChromaOf(s), s.high /\ s.planes),
                SubHeight(ChromaOf(s), s.high /\ s.planes))

\* Width and height in macroblocks and map units, each at least one.
AvcSpsCroppedSize(s) ==
  IF s.nal # 7 \/ s.reach < (IF s.window = None THEN 4 ELSE 5) \/ ChromaOf(s) > 3 THEN None
  ELSE IF s.window = None THEN Coded(16 * s.width, 16 * s.height * FieldFactor(s))
  ELSE Windowed(16 * s.width, 16 * s.height * FieldFactor(s), s.window[1],
                SubWidth(ChromaOf(s), s.high /\ s.planes),
                SubHeight(ChromaOf(s), s.high /\ s.planes) * FieldFactor(s))

\* All or nothing: a set that ends before the depths states no size either.
HevcSpsInfo(s) ==
  LET size == Windowed(s.width, s.height, OrElse(s.window, <<0, 0, 0, 0>>),
                       SubWidth(s.chroma, s.planes), SubHeight(s.chroma, s.planes))
  IN  IF s.nal # 33 \/ s.reach < 6 \/ s.chroma > 3 \/ size = None THEN None
      ELSE Some([size |-> size[1],
                 layout |-> IF s.planes THEN None
                            ELSE Some(<<s.chroma, s.luma + 8, s.chroma_depth + 8>>)])

AvcLayout(s) == Stated(FormatOf(SpsLayout(s)), AvcSpsCroppedSize(s))

\* The first element that passes the test, if one does.
FirstWith(s, Test(_)) ==
  IF \E i \in DOMAIN s : Test(s[i]) THEN Some(s[Min({i \in DOMAIN s : Test(s[i])})]) ELSE None

\* avcC names its parameter sets by place; a byte stream's are told by type.
\* A record without one is searched as a byte stream and holds none.
H264Layout(data) ==
  LET set == IF data.form = "avcC" THEN FirstWith(data.nals, LAMBDA s : TRUE)
             ELSE IF data.form = "annexB" THEN FirstWith(data.nals, LAMBDA s : s.nal = 7)
             ELSE None
  IN  IF set = None THEN NothingStated ELSE AvcLayout(set[1])

\* hvcC states the layout in fields of its own, which count when there is a
\* parameter set in it; in a byte stream the first set that can be read does.
HevcLayout(data) ==
  LET set == FirstWith(data.nals, LAMBDA s : s.nal = 33)
      read == FirstWith(data.nals, LAMBDA s : HevcSpsInfo(s) # None)
      InfoSize(i) == IF i = None THEN None ELSE Some(i[1].size)
  IN  CASE data.form = "hvcC" /\ set # None ->
             Stated(FormatOf(Some(data.fields)), InfoSize(HevcSpsInfo(set[1])))
        [] data.form = "annexB" /\ read # None ->
             Stated(FormatOf(HevcSpsInfo(read[1])[1].layout), InfoSize(HevcSpsInfo(read[1])))
        [] OTHER -> NothingStated

-----------------------------------------------------------------------------
(* VP9 and AV1 *)

\* A whole header of a key frame; RGB is not for the even profiles.
Vp9FramePixelFormat(f) ==
  LET bits == IF f.profile < 2 THEN 8 ELSE IF f.twelve THEN 12 ELSE 10
      odd == f.profile \in {1, 3}
  IN  CASE ~f.key -> None
        [] f.key /\ f.rgb -> IF odd THEN LayoutPixelFormat(3, bits) ELSE None
        [] f.key /\ ~f.rgb /\ ~odd -> LayoutPixelFormat(1, bits)
        [] f.key /\ ~f.rgb /\ odd ->
             LayoutPixelFormat(CASE f.ssx /\ f.ssy -> 1 [] f.ssx /\ ~f.ssy -> 2
                                 [] ~f.ssx /\ f.ssy -> 4 [] ~f.ssx /\ ~f.ssy -> 3, bits)

Subsampled(ssx, ssy, bits) ==
  CASE ssx /\ ssy -> LayoutPixelFormat(1, bits)
    [] ssx /\ ~ssy -> LayoutPixelFormat(2, bits)
    [] ~ssx /\ ~ssy -> LayoutPixelFormat(3, bits)
    [] ~ssx /\ ssy -> None

\* AV1CodecConfigurationRecord.
Av1cLayout(c) ==
  LET bits == IF ~c.high THEN 8 ELSE IF c.twelve THEN 12 ELSE 10
  IN  IF c.mono THEN LayoutPixelFormat(0, bits) ELSE Subsampled(c.ssx, c.ssy, bits)

\* color_config() of the sequence header: what the profile fixes is not coded.
Av1SequenceHeaderLayout(h) ==
  LET bits == IF ~h.high THEN 8 ELSE IF h.profile = 2 /\ h.twelve THEN 12 ELSE 10
  IN  CASE h.profile > 2 -> None
        [] h.profile <= 2 /\ h.profile # 1 /\ h.mono -> LayoutPixelFormat(0, bits)
        [] h.profile <= 2 /\ (h.profile = 1 \/ ~h.mono) ->
             IF h.srgb \/ h.profile = 1 THEN LayoutPixelFormat(3, bits)
             ELSE IF h.profile = 0 THEN LayoutPixelFormat(1, bits)
             ELSE IF bits = 12 THEN Subsampled(h.ssx, h.ssx /\ h.ssy, bits)
             ELSE LayoutPixelFormat(2, bits)

\* The first sequence header, unless a unit in front of it is cut.
Av1ObusLayout(units) ==
  LET stop == FirstWith(units, LAMBDA u : u.type = 1 \/ ~u.whole)
  IN  IF stop = None THEN None
      ELSE IF ~stop[1].whole THEN None ELSE Av1SequenceHeaderLayout(stop[1])

\* layout_of; LayoutOf is the channel layout's.
LayoutStated(family, data) ==
  CASE family = "H264" -> H264Layout(data)
    [] family = "Hevc" -> HevcLayout(data)
    [] family = "Vp9" ->
         Stated(IF data.form = "vp9" THEN Vp9FramePixelFormat(data) ELSE None, None)
    [] family = "Av1" ->
         Stated(CASE data.form = "av1C" -> Av1cLayout(data)
                  [] data.form = "obus" -> Av1ObusLayout(data.units)
                  [] OTHER -> None, None)

-----------------------------------------------------------------------------
(* fill_layouts_from_parameter_sets, for one stream: what the walk does    *)
(* for another stream does not move it.  A chunk is a LIST rec, which is   *)
(* entered, or a size, whether its id begins with the stream's number, and *)
(* the byte its body begins with.                                          *)

NothingSpelled == [form |-> "none"]
Spelled(dictionary, word) ==
  IF word \in DOMAIN dictionary THEN dictionary[word] ELSE NothingSpelled

ConfigOf(ext) == Spelled(ConfigSpelled, IF ext.quads = <<>> THEN 0 ELSE ext.quads[1])
FrameOf(bytes) == Spelled(FrameSpelled, IF bytes = <<>> THEN 0 ELSE bytes[1])

Chunk(own, size, head) == [rec |-> FALSE, own |-> own, size |-> size, head |-> head]
RecList == [rec |-> TRUE, own |-> FALSE, size |-> 0, head |-> 0]

Advance(pos, c) == pos + (IF c.rec THEN 12 ELSE 8 + c.size + (c.size % 2))
PositionOf(chunks, k) == FoldLeft(Advance, 0, SubSeq(chunks, 1, k - 1))

\* The body of the stream's first chunk that is not empty, be it a frame or
\* not, when its header lies within the bytes looked at.
Peeked(chunks) ==
  LET own == {k \in DOMAIN chunks : chunks[k].own /\ chunks[k].size > 0}
      limit == Least(PositionOf(chunks, Len(chunks) + 1), PeekBytes)
  IN  IF own = {} THEN NothingSpelled
      ELSE IF PositionOf(chunks, Min(own)) + 8 > limit THEN NothingSpelled
      ELSE Spelled(FrameSpelled, chunks[Min(own)].head)

\* The configuration goes first, each part for itself.
Either(l, m) ==
  Stated(IF l.pixel_format # None THEN l.pixel_format ELSE m.pixel_format,
         IF l.size # None THEN l.size ELSE m.size)

ApplyLayout(p, l) ==
  [p EXCEPT !.pixel_format = l.pixel_format,
            !.width = IF l.size = None THEN @ ELSE Some(l.size[1][1]),
            !.height = IF l.size = None THEN @ ELSE Some(l.size[1][2])]

FillFrom(p, family, stated, chunks) ==
  ApplyLayout(p, IF IsComplete(family, stated) THEN stated
                 ELSE Either(stated, LayoutStated(family, Peeked(chunks))))

FillLayouts(p, chunks) ==
  LET family == FamilyOf(p.id, OrElse(p.tag, "BI_RGB"))
  IN  IF p.media # "video" \/ p.pixel_format # None \/ family = None THEN p
      ELSE FillFrom(p, family[1], LayoutStated(family[1], ConfigOf(p.ext)), chunks)
=============================================================================
