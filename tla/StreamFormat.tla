---------------------------- MODULE StreamFormat ----------------------------
(***************************************************************************)
(* The strf bodies of stream_format.rs: BITMAPINFOHEADER, WAVEFORMATEX and *)
(* WAVEFORMATEXTENSIBLE, written and parsed.  A body is its length and the *)
(* little-endian fields by the byte offset they start at, so that writer   *)
(* and parser meet in offsets, as they do in the code.  Fields that no     *)
(* writer of this crate fills are zero.                                    *)
(***************************************************************************)
EXTENDS Integers, Sequences, RawDib

\* Option<T>: the empty sequence or a sequence of one.
None == <<>>
Some(v) == <<v>>
OrElse(o, default) == IF o = None THEN default ELSE o[1]
NonZero(n) == IF n = 0 THEN None ELSE Some(n)

Least(a, b) == IF a < b THEN a ELSE b
Largest(a, b) == IF a > b THEN a ELSE b
Magnitude(n) == IF n < 0 THEN -n ELSE n

\* A body, and one with a field replaced.
Body(len, fields) == [len |-> len, at |-> fields]
WithField(b, off, v) == [b EXCEPT !.at[off] = v]
EmptyBody == Body(0, [o \in {} |-> 0])

\* Extra bytes: the dwords they hold, and how many bytes are left over.
Extra(quads, tail) == [quads |-> quads, tail |-> tail]
NoExtra == Extra(<<>>, 0)
ExtraBytes(x) == 4 * Len(x.quads) + x.tail

\* The extra bytes laid out from an offset, and read back up to an end.
ExtraFields(x, from) ==
  [o \in {from + 4 * (k - 1) : k \in DOMAIN x.quads} |-> x.quads[(o - from) \div 4 + 1]]
ReadExtra(b, from, to) ==
  Extra([k \in 1..((to - from) \div 4) |-> b.at[from + 4 * (k - 1)]], (to - from) % 4)

\* Two functions on disjoint sets of offsets side by side.
Beside(f, g) == [o \in DOMAIN f \cup DOMAIN g |-> IF o \in DOMAIN f THEN f[o] ELSE g[o]]

-----------------------------------------------------------------------------
(* BITMAPINFOHEADER *)

BmihFields(size, width, height, bit_count, compression, clr_used) ==
  [o \in {0, 4, 8, 12, 14, 16, 20, 24, 28, 32, 36} |->
     CASE o = 0 -> size
       [] o = 4 -> width
       [] o = 8 -> height
       [] o = 12 -> 1
       [] o = 14 -> bit_count
       [] o = 16 -> compression
       [] o = 32 -> clr_used
       [] OTHER -> 0]

WriteBitmapInfoHeaderOriented(width, height, compression, bit_count, extra, top_down) ==
  LET size == 40 + ExtraBytes(extra)
  IN  Body(size, Beside(BmihFields(size, width, IF top_down THEN -height ELSE height,
                                   bit_count, compression, 0),
                        ExtraFields(extra, 40)))

WriteBitmapInfoHeader(width, height, compression, bit_count, extra) ==
  WriteBitmapInfoHeaderOriented(width, height, compression, bit_count, extra, FALSE)

\* biSize counts the header alone; the palette stands behind it.
WriteIndexedBitmapInfoHeader(width, height, bit_count, palette) ==
  Body(40 + 4 * Len(palette),
       Beside(BmihFields(40, width, height, bit_count, "BI_RGB", Len(palette)),
              ExtraFields(Extra(palette, 0), 40)))

TooShort == [ok |-> FALSE]

\* Mutant: the height keeps the sign that tells the direction.
ParseKeepsSign(b) ==
  IF b.len < 40 THEN TooShort
  ELSE [ok |-> TRUE, width |-> b.at[4], height |-> b.at[8],
        top_down |-> b.at[8] < 0, planes |-> b.at[12], bit_count |-> b.at[14],
        compression |-> b.at[16], size_image |-> b.at[20],
        pels_per_meter |-> <<b.at[24], b.at[28]>>, clr_used |-> b.at[32],
        clr_important |-> b.at[36], extra |-> ReadExtra(b, 40, b.len)]

\* biSize is not looked at: whatever follows byte 40 is extra data.
ParseBitmapInfoHeader(b) ==
  IF b.len < 40 THEN TooShort
  ELSE [ok |-> TRUE, width |-> b.at[4], height |-> Magnitude(b.at[8]),
        top_down |-> b.at[8] < 0, planes |-> b.at[12], bit_count |-> b.at[14],
        compression |-> b.at[16], size_image |-> b.at[20],
        pels_per_meter |-> <<b.at[24], b.at[28]>>, clr_used |-> b.at[32],
        clr_important |-> b.at[36], extra |-> ReadExtra(b, 40, b.len)]

ParseBitfieldsMasks(extra) ==
  IF ExtraBytes(extra) < 12 THEN NoMasks ELSE SubSeq(extra.quads, 1, 3)

ParseColorTable(bit_count, clr_used, extra) ==
  LET declared == IF clr_used = 0 THEN 2 ^ bit_count ELSE clr_used
      count == Least(declared, Len(extra.quads))
  IN  IF bit_count = 0 \/ bit_count > 8 \/ count = 0 THEN None
      ELSE Some(SubSeq(extra.quads, 1, count))

-----------------------------------------------------------------------------
(* WAVEFORMATEX and WAVEFORMATEXTENSIBLE *)

WAVE_FORMAT_EXTENSIBLE == 65534

WriteWaveformatex(tag, channels, rate, avg, align, bits, ext_len, ext) ==
  Body(18 + ext_len,
       Beside([o \in {0, 2, 4, 8, 12, 14, 16} |->
                 CASE o = 0 -> tag
                   [] o = 2 -> channels
                   [] o = 4 -> rate
                   [] o = 8 -> avg
                   [] o = 12 -> align
                   [] o = 14 -> bits
                   [] o = 16 -> ext_len],
              ext))

\* The sub-format's GUID is one field of sixteen bytes.
WriteWaveformatextensible(channels, rate, avg, align, container, valid, mask, guid) ==
  WriteWaveformatex(WAVE_FORMAT_EXTENSIBLE, channels, rate, avg, align, container, 22,
    [o \in {18, 20, 24} |-> CASE o = 18 -> valid [] o = 20 -> mask [] o = 24 -> guid])

\* The 14-byte WAVEFORMAT and the 16-byte PCM form are read too; a cbSize
\* that points behind the body is cut to it.
ParseWaveformatex(b) ==
  IF b.len < 14 THEN TooShort
  ELSE [ok |-> TRUE, tag |-> b.at[0], channels |-> b.at[2], rate |-> b.at[4],
        avg |-> b.at[8], align |-> b.at[12],
        bits |-> IF b.len >= 16 THEN b.at[14] ELSE 0,
        ext_len |-> IF b.len >= 18 THEN Least(b.at[16], b.len - 18) ELSE 0]

ParseWaveformatextensible(b) ==
  LET w == ParseWaveformatex(b)
  IN  IF ~w.ok THEN TooShort
      ELSE IF w.tag # WAVE_FORMAT_EXTENSIBLE \/ w.ext_len < 22 THEN TooShort
      ELSE [ok |-> TRUE, valid |-> b.at[18], mask |-> b.at[20], subformat |-> b.at[24]]

\* KSDATAFORMAT_SUBTYPE_*: the format tag in Data1 over a common base, which
\* is all the model keeps of a GUID; any other GUID is Foreign.
ForeignGuid == [tag |-> 0, base |-> FALSE]
KsGuid(tag) == [tag |-> tag, base |-> TRUE]

KsdataformatTag(guid) == IF guid.base THEN Some(guid.tag) ELSE None

PcmName(bits) ==
  CASE bits = 8 -> "pcm_u8"
    [] bits = 24 -> "pcm_s24le"
    [] bits = 32 -> "pcm_s32le"
    [] OTHER -> "pcm_s16le"

FloatName(bits) == IF bits = 64 THEN "pcm_f64le" ELSE "pcm_f32le"

SubformatCodecHint(guid, bits) ==
  CASE guid = KsGuid(1) -> Some(PcmName(bits))
    [] guid = KsGuid(3) -> Some(FloatName(bits))
    [] guid = KsGuid(6) -> Some("pcm_alaw")
    [] guid = KsGuid(7) -> Some("pcm_mulaw")
    [] guid = KsGuid(2) -> Some("adpcm_ms")
    [] guid = KsGuid(80) -> Some("mp2")
    [] guid = KsGuid(9) -> Some("drm")
    [] OTHER -> None

-----------------------------------------------------------------------------
(* Channel masks: a mask is the set of its bits, a layout a set of speakers. *)

Speakers == 0..17 \cup {31}

\* Front left 0, front right 1, front centre 2, low frequency 3, back left 4,
\* back right 5, side left 9, side right 10.
LayoutMasks ==
  [ mono |-> {2}, stereo |-> {0, 1}, two_one |-> {0, 1, 3}, quad |-> {0, 1, 4, 5},
    five_one_back |-> {0, 1, 2, 3, 4, 5}, five_one_side |-> {0, 1, 2, 3, 9, 10},
    seven_one |-> {0, 1, 2, 3, 4, 5, 9, 10} ]

ReservedBits(mask) == mask \ Speakers

LayoutOf(mask) ==
  IF \E n \in DOMAIN LayoutMasks : LayoutMasks[n] = mask \cap Speakers
  THEN Some(CHOOSE n \in DOMAIN LayoutMasks : LayoutMasks[n] = mask \cap Speakers)
  ELSE None
=============================================================================
