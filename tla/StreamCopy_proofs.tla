-------------------------- MODULE StreamCopy_proofs --------------------------
(***************************************************************************)
(* Proofs about RawDib and StreamCopy.  What is written is described field *)
(* by field (VideoWritten, AudioWritten, TextWritten), what is read of any *)
(* file too (ReadsVideo, ReadsAudio, OthersRead), and the two meet in the  *)
(* fields of strh and strf.  Two invariants rest on that: Faithful, for    *)
(* the types and the packets, and Reopens, for the copies of copies.       *)
(***************************************************************************)
EXTENDS StreamCopy, FiniteSetTheorems, SequenceTheorems, WellFoundedInduction, TLAPS

-----------------------------------------------------------------------------
(* Rows                                                                    *)

\* Every layout NewLayout can return for a picture with at least one column.
Layouts ==
  [row_bytes : Nat \ {0}, stride : Nat \ {0}, rows : Nat, bottom_up : BOOLEAN]

Fits(l) == l \in Layouts /\ l.row_bytes <= l.stride

\* Division with a remainder finds row and column again (the index
\* arithmetic of both loops).
LEMMA Division ==
  ASSUME NEW n \in Nat \ {0}, NEW row \in Nat, NEW column \in 0..(n - 1)
  PROVE  /\ RowOf(ByteAt(row, n, column), n) = row
         /\ ColumnOf(ByteAt(row, n, column), n) = column
  BY SMTT(30) DEF RowOf, ColumnOf, ByteAt

LEMMA Quotient ==
  ASSUME NEW n \in Nat \ {0}, NEW k \in Nat, NEW i \in 1..(n * k)
  PROVE  /\ RowOf(i, n) \in 0..(k - 1)
         /\ ColumnOf(i, n) \in 0..(n - 1)
         /\ ByteAt(RowOf(i, n), n, ColumnOf(i, n)) = i
  BY SMTT(30) DEF RowOf, ColumnOf, ByteAt

\* Every layout of a writable format has rows that fit their stride, and the
\* rows of a DIB start at a multiple of four bytes (RawLayout::new).
THEOREM LayoutsFit ==
  ASSUME NEW fmt \in WritableFormats, NEW rule \in RowRules, NEW width \in Nat \ {0},
         NEW height \in Nat, NEW top_down \in BOOLEAN
  PROVE  LET l == NewLayout(fmt, rule, width, height, top_down)
         IN  Fits(l) /\ (rule = "Dib" => l.stride % 4 = 0)
<1> DEFINE bytes == BytesPerPixel(fmt)
           row == bytes * width
<1>1. bytes \in 2..4  BY DEF BytesPerPixel
<1>2. row \in Nat \ {0}
  <2>1. CASE bytes = 2  BY <2>1
  <2>2. CASE bytes = 3  BY <2>2
  <2>3. CASE bytes = 4  BY <2>3
  <2> QED  BY <1>1, <2>1, <2>2, <2>3
<1> HIDE DEF bytes
<1>3. DwordAligned(row) \in Nat /\ DwordAligned(row) >= row /\ DwordAligned(row) % 4 = 0
  BY <1>2 DEF DwordAligned
<1> HIDE DEF row
<1>4. CASE rule = "Dib"
  <2>1. NewLayout(fmt, rule, width, height, top_down)
          = Layout(row, DwordAligned(row), height, ~top_down)
    BY <1>4 DEF NewLayout, row, bytes
  <2> QED  BY <1>2, <1>3, <2>1 DEF Layout, Layouts, Fits
<1>5. CASE rule = "PackedTopDown"
  <2>1. NewLayout(fmt, rule, width, height, top_down) = Layout(row, row, height, FALSE)
    BY <1>5 DEF NewLayout, row, bytes
  <2>2. Fits(Layout(row, row, height, FALSE))  BY <1>2 DEF Layout, Layouts, Fits
  <2>3. rule # "Dib"  BY <1>5
  <2> QED  BY <2>1, <2>2, <2>3
<1> QED  BY <1>4, <1>5 DEF RowRules

LEMMA Lines ==
  ASSUME NEW l \in Layouts, NEW r \in 0..(l.rows - 1)
  PROVE  Line(l, r) \in 0..(l.rows - 1) /\ Line(l, Line(l, r)) = r
  BY DEF Line, Layouts

\* A row and a column inside a buffer name a byte of it.
LEMMA Inside ==
  ASSUME NEW n \in Nat \ {0}, NEW k \in Nat, NEW row \in 0..(k - 1),
         NEW column \in 0..(n - 1)
  PROVE  ByteAt(row, n, column) \in 1..(n * k)
<1>1. row * n <= (k - 1) * n  BY SMTT(30)
<1> QED  BY <1>1, SMTT(30) DEF ByteAt

\* What the demuxer unpacks is the packet the muxer was given, for a packet
\* of the size the layout states (RawLayout::pack and unpack).
THEOREM UnpackInvertsPack ==
  ASSUME NEW l, Fits(l), NEW data \in Seq(Nat), Len(data) = PacketBytes(l)
  PROVE  Unpack(l, Pack(l, data)) = data
<1> DEFINE wire == Padded(l, data)
<1>1. l \in Layouts /\ l.row_bytes \in Nat \ {0} /\ l.stride \in Nat \ {0} /\ l.rows \in Nat
      /\ l.row_bytes <= l.stride
  BY DEF Fits, Layouts
<1>2. CASE IsIdentity(l)
  BY <1>2 DEF Pack, Refuses, Unpack
<1>3. CASE ~IsIdentity(l)
  <2>1. Pack(l, data) = wire  BY <1>3 DEF Pack, Refuses
  <2>2. Len(wire) = l.stride * l.rows
    BY <1>1 DEF Padded
  <2>3. CASE l.rows = 0
    <3>1. Len(data) = 0  BY <1>1, <2>3 DEF PacketBytes
    <3>2. data = <<>>  BY <3>1
    <3>3. wire = <<>>  BY <1>1, <2>3 DEF Padded
    <3> QED  BY <2>1, <2>3, <3>2, <3>3 DEF Unpack
  <2>4. CASE l.rows # 0
    <3>1. Needed(l) <= l.stride * l.rows
      BY <1>1, <2>4, SMTT(30) DEF Needed
    <3>2. Needed(l) \in Int  BY <1>1 DEF Needed
    <3>3. Unpack(l, wire) = Rows(l, wire)
      BY <1>1, <1>3, <2>2, <2>4, <3>1, <3>2 DEF Unpack
    <3>4. ASSUME NEW i \in 1..PacketBytes(l)
          PROVE  Rows(l, wire)[i] = data[i]
      <4> DEFINE r == RowOf(i, l.row_bytes)
                 c == ColumnOf(i, l.row_bytes)
                 j == ByteAt(Line(l, r), l.stride, c)
      <4>1. r \in 0..(l.rows - 1) /\ c \in 0..(l.row_bytes - 1) /\ ByteAt(r, l.row_bytes, c) = i
        BY <1>1, Quotient DEF PacketBytes
      <4>2. Line(l, r) \in 0..(l.rows - 1) /\ Line(l, Line(l, r)) = r
        BY <1>1, <4>1, Lines
      <4> HIDE DEF r, c
      <4>3. c \in 0..(l.stride - 1)  BY <1>1, <4>1
      <4>4. j \in 1..(l.stride * l.rows)
        BY <1>1, <4>2, <4>3, Inside
      <4>5. RowOf(j, l.stride) = Line(l, r) /\ ColumnOf(j, l.stride) = c
        BY <1>1, <4>2, <4>3, Division
      <4>6. Rows(l, wire)[i] = wire[j]
        BY DEF Rows, r, c
      <4> HIDE DEF j
      <4>7. wire[j] = data[ByteAt(Line(l, Line(l, r)), l.row_bytes, c)]
        BY <1>1, <4>1, <4>4, <4>5 DEF Padded
      <4> QED  BY <4>1, <4>2, <4>6, <4>7
    <3>5. Rows(l, wire) = data
      <4>1. PacketBytes(l) \in Nat  BY <1>1 DEF PacketBytes
      <4>2. DOMAIN data = 1..PacketBytes(l)
        BY <4>1
      <4>3. Rows(l, wire) = [i \in 1..PacketBytes(l) |-> Rows(l, wire)[i]]
        BY DEF Rows
      <4>4. data = [i \in 1..PacketBytes(l) |-> data[i]]
        BY <4>2
      <4> HIDE DEF wire
      <4> QED  BY <3>4, <4>3, <4>4
    <3> QED  BY <2>1, <3>3, <3>5
  <2> QED  BY <2>3, <2>4
<1> QED  BY <1>2, <1>3

\* The pixel format and the row order a rawvideo stream is written with are
\* those read back from its header (header_for, pixel_format_for).
THEOREM FormatReadsBack ==
  ASSUME NEW fmt \in WritableFormats
  PROVE  LET h == HeaderFor(fmt)
         IN  PixelFormatFor(h.compression, h.bit_count, h.masks) = Found(fmt, h.rule)
<1>1. DOMAIN Masks16 = {"Rgb555Le", "Rgb565Le", "Bgr555Le", "Bgr565Le"}  BY DEF Masks16
<1>2. DOMAIN Masks32 = {"Bgrx", "Rgbx", "Xrgb", "Xbgr"}  BY DEF Masks32
<1>3. ASSUME NEW f \in DOMAIN Masks16
      PROVE  WithMasks(Masks16, Masks16[f]) = Found(f, "Dib")
  <2>1. \A g \in DOMAIN Masks16 : Masks16[g] = Masks16[f] => g = f
    BY <1>1 DEF Masks16
  <2> QED  BY <2>1 DEF WithMasks
<1>4. ASSUME NEW f \in DOMAIN Masks32
      PROVE  WithMasks(Masks32, Masks32[f]) = Found(f, "Dib")
  <2>1. \A g \in DOMAIN Masks32 : Masks32[g] = Masks32[f] => g = f
    BY <1>2 DEF Masks32
  <2> QED  BY <2>1 DEF WithMasks
<1>5. CASE fmt \in {"Rgb565Le", "Bgr555Le", "Bgr565Le"}
  BY <1>1, <1>3, <1>5 DEF HeaderFor, Header, PixelFormatFor
<1>6. CASE fmt \in {"Rgbx", "Xrgb", "Xbgr"}
  BY <1>2, <1>4, <1>6 DEF HeaderFor, Header, PixelFormatFor
<1>7. CASE fmt \in {"Rgb555Le", "Bgr24", "Bgrx", "Rgba"}
  BY <1>7 DEF HeaderFor, Header, PixelFormatFor
<1> QED  BY <1>1, <1>2, <1>5, <1>6, <1>7 DEF WritableFormats, DibFormats

\* A function on the first n numbers is a sequence.
LEMMA FunctionIsSeq ==
  ASSUME NEW X, NEW n \in Nat, NEW f \in [1 .. n -> X]
  PROVE  f \in Seq(X) /\ Len(f) = n
<1>1. f \in Seq(X) BY SeqDef
<1>2. Len(f) \in Nat /\ DOMAIN f = 1 .. Len(f) BY <1>1, LenProperties
<1>3. 1 .. Len(f) = 1 .. n BY <1>2
<1> QED BY <1>1, <1>2, <1>3

\* The same of layouts without a column.
Laid(l) ==
  /\ l \in [row_bytes : Nat, stride : Nat, rows : Nat, bottom_up : BOOLEAN]
  /\ l.row_bytes <= l.stride
  /\ l.row_bytes = 0 => l.stride = 0

\* Bytes are numbers.
LEMMA BytesAreNumbers == \A b \in Bytes : b \in Nat /\ b <= 255
BY DEF Bytes

\* The same rows counted from above.
TopDown(l) == Layout(l.row_bytes, l.stride, l.rows, FALSE)

\* A packet that comes back from a layout: its rows are all there is to it,
\* or the layout leaves it alone.
Ready(l, data) ==
  IsIdentity(l) \/ l.rows = 0 \/ Len(data) = PacketBytes(l) \/ Len(data) < Needed(l)

\* Every layout NewLayout makes is one, the rows counted from below or not.
LEMMA NewLayoutLaid ==
  ASSUME NEW fmt \in WritableFormats, NEW rule \in RowRules, NEW width \in Nat,
         NEW height \in Nat, NEW top_down \in BOOLEAN
  PROVE  /\ Laid(NewLayout(fmt, rule, width, height, top_down))
         /\ NewLayout(fmt, rule, width, height, top_down).rows = height
         /\ rule = "PackedTopDown" => IsIdentity(NewLayout(fmt, rule, width, height, top_down))
         /\ rule = "Dib" => ~NewLayout(fmt, rule, width, height, TRUE).bottom_up
         /\ TopDown(NewLayout(fmt, rule, width, height, top_down))
              = NewLayout(fmt, rule, width, height, TRUE)
<1> DEFINE row == BytesPerPixel(fmt) * width
<1>1. row \in Nat
  <2>1. BytesPerPixel(fmt) \in Nat BY DEF BytesPerPixel
  <2> QED BY <2>1
<1> HIDE DEF row
<1>2. DwordAligned(row) \in Nat /\ row <= DwordAligned(row) /\ (row = 0 => DwordAligned(row) = 0)
  BY <1>1 DEF DwordAligned
<1>3. CASE rule = "Dib"
  <2>1. \A up \in BOOLEAN : NewLayout(fmt, rule, width, height, up)
                                = Layout(row, DwordAligned(row), height, ~up)
    BY <1>3 DEF NewLayout, row
  <2> DEFINE stride == DwordAligned(row)
  <2>2. ASSUME NEW up \in BOOLEAN
        PROVE  /\ Laid(Layout(row, stride, height, up)) /\ Layout(row, stride, height, up).rows = height
               /\ TopDown(Layout(row, stride, height, up)) = Layout(row, stride, height, FALSE)
    <3> HIDE DEF stride
    <3>1. stride \in Nat /\ row <= stride /\ (row = 0 => stride = 0) BY <1>2 DEF stride
    <3>2. Laid(Layout(row, stride, height, up)) /\ Layout(row, stride, height, up).rows = height
      BY <1>1, <3>1 DEF Layout, Laid
    <3>3. TopDown(Layout(row, stride, height, up)) = Layout(row, stride, height, FALSE)
      BY DEF Layout, TopDown
    <3> QED BY <3>2, <3>3
  <2>3. ~Layout(row, stride, height, FALSE).bottom_up BY DEF Layout
  <2> HIDE DEF stride
  <2>4. \A up \in BOOLEAN : NewLayout(fmt, rule, width, height, up) = Layout(row, stride, height, ~up)
    BY <2>1 DEF stride
  <2> QED BY <1>3, <2>2, <2>3, <2>4
<1>4. CASE rule = "PackedTopDown"
  <2>1. \A up \in BOOLEAN : NewLayout(fmt, rule, width, height, up)
                                = Layout(row, row, height, FALSE)
    BY <1>4 DEF NewLayout, row
  <2>2. LET l == Layout(row, row, height, FALSE)
        IN  Laid(l) /\ IsIdentity(l) /\ l.rows = height /\ TopDown(l) = l
    BY <1>1 DEF Layout, Laid, IsIdentity, TopDown
  <2> QED BY <1>4, <2>1, <2>2
<1> QED BY <1>3, <1>4 DEF RowRules

\* What is unpacked is ready to be packed by the same layout from the top down.
LEMMA UnpackReadies ==
  ASSUME NEW l, Laid(l), NEW wire \in Seq(Bytes)
  PROVE  /\ Unpack(l, wire) \in Seq(Bytes)
         /\ Ready(TopDown(l), Unpack(l, wire))
<1> DEFINE d == TopDown(l)
<1>1. /\ l.row_bytes \in Nat /\ l.stride \in Nat /\ l.rows \in Nat /\ l.bottom_up \in BOOLEAN
      /\ l.row_bytes <= l.stride /\ (l.row_bytes = 0 => l.stride = 0)
      /\ d.row_bytes = l.row_bytes /\ d.stride = l.stride /\ d.rows = l.rows /\ ~d.bottom_up
  BY DEF Laid, TopDown, Layout
<1>2. Len(wire) \in Nat /\ \A i \in 1 .. Len(wire) : wire[i] \in Bytes
  BY LenProperties, ElementOfSeq
<1>3. CASE IsIdentity(l) \/ l.rows = 0 \/ Len(wire) < Needed(l)
  <2>1. Unpack(l, wire) = wire BY <1>3 DEF Unpack
  <2>2. IsIdentity(l) => IsIdentity(d) BY <1>1 DEF IsIdentity
  <2>3. Needed(l) = Needed(d) BY <1>1 DEF Needed
  <2> HIDE DEF d
  <2> QED BY <1>1, <1>3, <2>1, <2>2, <2>3 DEF Ready, d
<1>4. CASE ~(IsIdentity(l) \/ l.rows = 0 \/ Len(wire) < Needed(l))
  <2>1. Unpack(l, wire) = Rows(l, wire) BY <1>4 DEF Unpack
  <2>2. PacketBytes(l) \in Nat /\ PacketBytes(d) = PacketBytes(l) BY <1>1 DEF PacketBytes
  <2>3. ASSUME NEW i \in 1 .. PacketBytes(l) PROVE Rows(l, wire)[i] \in Bytes
    <3> DEFINE r == RowOf(i, l.row_bytes)
               c == ColumnOf(i, l.row_bytes)
    <3>1. l.row_bytes \in Nat \ {0}
      <4> SUFFICES ASSUME l.row_bytes = 0 PROVE FALSE
        BY <1>1
      <4> QED BY <1>1 DEF PacketBytes
    <3>2. r \in 0 .. l.rows - 1 /\ c \in 0 .. l.row_bytes - 1
      BY <1>1, <3>1, Quotient DEF PacketBytes
    <3> HIDE DEF r, c
    <3>3. Line(l, r) \in 0 .. l.rows - 1 BY <1>1, <3>2 DEF Line
    <3>4. Line(l, r) * l.stride <= (l.rows - 1) * l.stride BY <1>1, <3>3, SMTT(30)
    <3>5. Line(l, r) * l.stride \in Nat BY <1>1, <3>3, SMTT(30)
    <3>6. l.stride * (l.rows - 1) = (l.rows - 1) * l.stride BY <1>1, SMTT(30)
    <3> DEFINE a == Line(l, r) * l.stride
               b == (l.rows - 1) * l.stride
    <3>7. b \in Int /\ a \in Nat /\ a <= b /\ Needed(l) = b + l.row_bytes
      BY <1>1, <3>4, <3>5, <3>6 DEF Needed
    <3>8. ByteAt(Line(l, r), l.stride, c) = a + c + 1 BY DEF ByteAt
    <3> HIDE DEF a, b
    <3>9. a + c + 1 \in 1 .. Len(wire) BY <1>1, <1>2, <1>4, <3>1, <3>2, <3>7
    <3> QED BY <1>2, <3>8, <3>9 DEF Rows, r, c
  <2>4. Rows(l, wire) \in [1 .. PacketBytes(l) -> Bytes]
    <3>1. Rows(l, wire) = [i \in 1 .. PacketBytes(l) |-> Rows(l, wire)[i]] BY DEF Rows
    <3> QED BY <2>3, <3>1
  <2>5. Rows(l, wire) \in Seq(Bytes) /\ Len(Rows(l, wire)) = PacketBytes(l)
    <3> HIDE DEF d
    <3> QED BY <2>2, <2>4, FunctionIsSeq
  <2> QED BY <2>1, <2>2, <2>5 DEF Ready
<1> QED BY <1>3, <1>4

\* A packet that is ready comes back, and if a picture has rows the layouts of
\* both sides have to agree on their order.
LEMMA ReadyReturns ==
  ASSUME NEW l, Laid(l), NEW data \in Seq(Bytes), Ready(l, data),
         NEW m, Laid(m), m.rows = l.rows, l.rows # 0 => m = l
  PROVE  Pack(l, data) \in Seq(Bytes) /\ Unpack(m, Pack(l, data)) = data
<1>1. /\ l.row_bytes \in Nat /\ l.stride \in Nat /\ l.rows \in Nat /\ l.bottom_up \in BOOLEAN
      /\ l.row_bytes <= l.stride /\ (l.row_bytes = 0 => l.stride = 0)
  BY DEF Laid
<1>2. Len(data) \in Nat /\ \A i \in 1 .. Len(data) : data[i] \in Bytes
  BY LenProperties, ElementOfSeq
<1>3. CASE IsIdentity(l)
  <2>1. Pack(l, data) = data BY <1>3 DEF Pack, Refuses
  <2>2. IsIdentity(m) \/ m.rows = 0 BY <1>3
  <2> QED BY <2>1, <2>2 DEF Unpack
<1>4. CASE ~IsIdentity(l) /\ Len(data) # PacketBytes(l)
  <2>1. Pack(l, data) = data BY <1>4 DEF Pack, Refuses
  <2>2. m.rows = 0 \/ (m = l /\ Len(data) < Needed(m)) BY <1>4 DEF Ready
  <2> QED BY <2>1, <2>2 DEF Unpack
<1>5. CASE ~IsIdentity(l) /\ Len(data) = PacketBytes(l)
  <2>1. Pack(l, data) = Padded(l, data) BY <1>5 DEF Pack, Refuses
  <2>2. l.stride * l.rows \in Nat /\ PacketBytes(l) \in Nat BY <1>1 DEF PacketBytes
  <2>3. ASSUME NEW j \in 1 .. l.stride * l.rows PROVE Padded(l, data)[j] \in Bytes
    <3> DEFINE r == RowOf(j, l.stride)
               c == ColumnOf(j, l.stride)
    <3>1. l.stride \in Nat \ {0}
      <4> SUFFICES ASSUME l.stride = 0 PROVE FALSE
        BY <1>1
      <4> QED BY <1>1
    <3>2. r \in 0 .. l.rows - 1 /\ c \in 0 .. l.stride - 1 BY <1>1, <3>1, Quotient
    <3> HIDE DEF r, c
    <3>3. Line(l, r) \in 0 .. l.rows - 1 BY <1>1, <3>2 DEF Line
    <3>4. CASE c < l.row_bytes
      <4>1. c \in 0 .. l.row_bytes - 1 /\ l.row_bytes \in Nat \ {0} BY <1>1, <3>2, <3>4
      <4>2. ByteAt(Line(l, r), l.row_bytes, c) \in 1 .. PacketBytes(l)
        BY <1>1, <3>3, <4>1, Inside DEF PacketBytes
      <4> QED BY <1>2, <1>5, <3>4, <4>2 DEF Padded, r, c
    <3>5. CASE ~(c < l.row_bytes)
      BY <3>5 DEF Padded, r, c, Bytes
    <3> QED BY <3>4, <3>5
  <2>4. Padded(l, data) \in Seq(Bytes)
    <3>1. Padded(l, data) = [j \in 1 .. l.stride * l.rows |-> Padded(l, data)[j]] BY DEF Padded
    <3>2. Padded(l, data) \in [1 .. l.stride * l.rows -> Bytes] BY <2>3, <3>1
    <3> QED BY <2>2, <3>2, FunctionIsSeq
  <2>5. CASE l.rows = 0
    <3>1. Len(data) = 0 /\ l.stride * l.rows = 0 BY <1>1, <1>5, <2>5 DEF PacketBytes
    <3>2. data = <<>> BY <3>1, EmptySeq
    <3>3. 1 .. l.stride * l.rows = {} BY <3>1
    <3>4. Padded(l, data) = <<>> BY <3>3 DEF Padded
    <3> QED BY <2>1, <2>5, <3>2, <3>4 DEF Unpack
  <2>6. CASE l.rows # 0
    <3>1. CASE l.row_bytes = 0
      <4>1. IsIdentity(l) \/ l.bottom_up BY <1>1, <3>1 DEF IsIdentity
      <4>2. Len(data) = 0 BY <1>1, <1>5, <3>1 DEF PacketBytes
      <4>3. data = <<>> BY <4>2, EmptySeq
      <4>4. PacketBytes(l) = 0 /\ 1 .. PacketBytes(l) = {} BY <1>5, <4>2
      <4>5. l.stride * l.rows = 0 /\ 1 .. l.stride * l.rows = {} BY <1>1, <3>1
      <4>6. Padded(l, data) = <<>> BY <4>5 DEF Padded
      <4>7. \A wire : Rows(l, wire) = <<>> BY <4>4 DEF Rows
      <4> QED BY <2>1, <2>6, <4>3, <4>6, <4>7 DEF Unpack
    <3>2. CASE l.row_bytes # 0
      <4>1. Fits(l) BY <1>1, <3>2 DEF Fits, Layouts, Laid
      <4>2. data \in Seq(Nat)
        <5>1. ASSUME NEW i \in 1 .. Len(data) PROVE data[i] \in Nat
          BY <1>2, BytesAreNumbers
        <5>2. data \in [1 .. Len(data) -> Nat] BY <1>2, <5>1, LenProperties
        <5> QED BY <1>2, <5>2, FunctionIsSeq
      <4> QED BY <1>5, <2>1, <2>4, <2>6, <4>1, <4>2, UnpackInvertsPack
    <3> QED BY <3>1, <3>2
  <2> QED BY <2>1, <2>4, <2>5, <2>6
<1> QED BY <1>3, <1>4, <1>5

-----------------------------------------------------------------------------
(* Fields                                                                  *)

\* A body is its length and the fields at their offsets.
IsBody(b) == b = Body(b.len, b.at) /\ b.at = [o \in DOMAIN b.at |-> b.at[o]]

\* d is b but for the fields at the offsets in S.
SameBut(d, b, S) ==
  /\ IsBody(d) /\ d.len = b.len /\ DOMAIN d.at = DOMAIN b.at
  /\ \A n \in DOMAIN b.at \ S : d.at[n] = b.at[n]

\* An override of one field leaves the others alone.
LEMMA PutKeeps ==
  ASSUME NEW b, IsBody(b), NEW o, NEW off
  PROVE  SameBut(PutField(b, o, off), b, {off})
<1>1. CASE o = None BY <1>1 DEF SameBut, PutField
<1>2. CASE o # None
  <2> DEFINE f == b.at
             g == [f EXCEPT ![off] = o[1]]
             d == PutField(b, o, off)
  <2>1. d = [b EXCEPT !.at = g] BY <1>2 DEF PutField, WithField
  <2>2. DOMAIN g = DOMAIN f /\ \A n \in DOMAIN f \ {off} : g[n] = f[n] OBVIOUS
  <2>3. g = [n \in DOMAIN g |-> g[n]] OBVIOUS
  <2> HIDE DEF g
  <2>4. d = Body(b.len, g) BY <2>1 DEF IsBody, Body
  <2>5. d.len = b.len /\ d.at = g BY <2>4 DEF Body
  <2> QED BY <2>2, <2>3, <2>4, <2>5 DEF SameBut, IsBody
<1> QED BY <1>1, <1>2

\* Two sets of overrides leave alone what neither names.
LEMMA KeepsOn ==
  ASSUME NEW a, NEW b, NEW c, NEW S, NEW T, SameBut(b, a, S), SameBut(c, b, T)
  PROVE  SameBut(c, a, S \cup T)
BY DEF SameBut

\* The overrides of a BITMAPINFOHEADER touch neither size nor format.
LEMMA BmihKeeps ==
  ASSUME NEW b, IsBody(b), NEW ov
  PROVE  SameBut(ApplyBmihOverrides(b, ov), b, {12, 20, 24, 28, 36})
<1> DEFINE o3 == IF ov.pels_per_meter = None THEN None ELSE Some(ov.pels_per_meter[1][1])
           o4 == IF ov.pels_per_meter = None THEN None ELSE Some(ov.pels_per_meter[1][2])
           b1 == PutField(b, ov.planes, 12)
           b2 == PutField(b1, ov.size_image, 20)
           b3 == PutField(b2, o3, 24)
           b4 == PutField(b3, o4, 28)
           b5 == PutField(b4, ov.clr_important, 36)
<1>1. ApplyBmihOverrides(b, ov) = b5 BY DEF ApplyBmihOverrides
<1> HIDE DEF o3, o4
<1>2. SameBut(b1, b, {12}) BY PutKeeps
<1> HIDE DEF b1
<1>3. SameBut(b2, b1, {20}) BY <1>2, PutKeeps DEF SameBut
<1> HIDE DEF b2
<1>4. SameBut(b3, b2, {24}) BY <1>3, PutKeeps DEF SameBut
<1> HIDE DEF b3
<1>5. SameBut(b4, b3, {28}) BY <1>4, PutKeeps DEF SameBut
<1> HIDE DEF b4
<1>6. SameBut(b5, b4, {36}) BY <1>5, PutKeeps DEF SameBut
<1> HIDE DEF b5
<1>7. SameBut(b2, b, {12} \cup {20}) BY <1>2, <1>3, KeepsOn
<1>8. SameBut(b3, b, {12} \cup {20} \cup {24}) BY <1>4, <1>7, KeepsOn
<1>9. SameBut(b4, b, {12} \cup {20} \cup {24} \cup {28}) BY <1>5, <1>8, KeepsOn
<1>10. SameBut(b5, b, {12} \cup {20} \cup {24} \cup {28} \cup {36}) BY <1>6, <1>9, KeepsOn
<1>11. {12} \cup {20} \cup {24} \cup {28} \cup {36} = {12, 20, 24, 28, 36} OBVIOUS
<1> QED BY <1>1, <1>10, <1>11

\* Extra data has a length.
LEMMA ExtraSize ==
  ASSUME NEW x, IsExtra(x)
  PROVE  Len(x.quads) \in Nat /\ DOMAIN x.quads = 1 .. Len(x.quads) /\ x.tail \in Nat
         /\ ExtraBytes(x) \in Nat
<1>1. Len(x.quads) \in Nat /\ DOMAIN x.quads = 1 .. Len(x.quads) /\ x.tail \in Nat
  BY LenProperties DEF IsExtra, IsSeq
<1> QED BY <1>1 DEF ExtraBytes

\* The k-th dword of extra data stands 4 * (k - 1) bytes behind its start, and
\* no dword stands before it.
LEMMA ExtraFieldsAre ==
  ASSUME NEW x, IsExtra(x), NEW from \in Nat
  PROVE  LET f == ExtraFields(x, from)
         IN /\ \A o \in DOMAIN f : o \in Nat /\ o >= from
            /\ \A k \in DOMAIN x.quads : /\ from + 4 * (k - 1) \in DOMAIN f
                                         /\ f[from + 4 * (k - 1)] = x.quads[k]
<1> DEFINE f == ExtraFields(x, from)
<1>1. \A k \in DOMAIN x.quads : k \in Nat /\ k >= 1 BY ExtraSize
<1>2. DOMAIN f = {from + 4 * (k - 1) : k \in DOMAIN x.quads}
      /\ \A o \in DOMAIN f : f[o] = x.quads[(o - from) \div 4 + 1]
  BY DEF ExtraFields
<1> HIDE DEF f
<1>3. ASSUME NEW k \in DOMAIN x.quads
      PROVE  from + 4 * (k - 1) \in DOMAIN f /\ f[from + 4 * (k - 1)] = x.quads[k]
  <2>1. k \in Nat BY <1>1
  <2> DEFINE o == from + 4 * (k - 1)
  <2>2. (o - from) \div 4 + 1 = k
    <3>1. o - from = 4 * (k - 1) BY <2>1
    <3>2. (4 * (k - 1)) \div 4 = k - 1 BY <2>1
    <3> QED BY <2>1, <3>1, <3>2
  <2>3. o \in DOMAIN f BY <1>2
  <2> HIDE DEF o
  <2>4. f[o] = x.quads[k] BY <1>2, <2>2, <2>3
  <2> QED BY <2>3, <2>4 DEF o
<1>4. ASSUME NEW o \in DOMAIN f PROVE o \in Nat /\ o >= from
  <2>1. PICK k \in DOMAIN x.quads : o = from + 4 * (k - 1) BY <1>2
  <2>2. k \in Nat /\ k >= 1 BY <1>1
  <2> QED BY <2>1, <2>2
<1> QED BY <1>3, <1>4 DEF f

\* Fields side by side: the fields in front keep their places.
IsBeside(h, f, g) ==
  /\ DOMAIN h = DOMAIN f \cup DOMAIN g
  /\ h = [o \in DOMAIN h |-> h[o]]
  /\ \A o \in DOMAIN f : h[o] = f[o]
  /\ \A o \in DOMAIN g \ DOMAIN f : h[o] = g[o]

LEMMA BesideIs ==
  ASSUME NEW f, NEW g
  PROVE  IsBeside(Beside(f, g), f, g)
BY DEF Beside, IsBeside

\* What a BITMAPINFOHEADER says when it is read, whatever was overridden.
SaysPicture(b, width, height, compression, bits) ==
  /\ IsBody(b) /\ b.len \in Nat /\ b.len >= 40
  /\ {0, 4, 8, 12, 14, 16, 20, 24, 28, 32, 36} \subseteq DOMAIN b.at
  /\ b.at[4] = width /\ b.at[8] = height /\ b.at[16] = compression /\ b.at[14] = bits

LEMMA BmihSays ==
  ASSUME NEW size, NEW width, NEW height, NEW bits, NEW compression, NEW used
  PROVE  LET f == BmihFields(size, width, height, bits, compression, used)
         IN /\ DOMAIN f = {0, 4, 8, 12, 14, 16, 20, 24, 28, 32, 36}
            /\ f[4] = width /\ f[8] = height /\ f[14] = bits /\ f[16] = compression
<1> DEFINE f == BmihFields(size, width, height, bits, compression, used)
<1>1. DOMAIN f = {0, 4, 8, 12, 14, 16, 20, 24, 28, 32, 36} BY DEF BmihFields
<1>2. f[4] = width BY DEF BmihFields
<1>3. f[8] = height BY DEF BmihFields
<1>4. f[14] = bits BY DEF BmihFields
<1>5. f[16] = compression BY DEF BmihFields
<1> QED BY <1>1, <1>2, <1>3, <1>4, <1>5

\* So says what write_bitmap_info_header_oriented writes, with the dwords of the
\* extra data from byte 40 on.
LEMMA WrittenSays ==
  ASSUME NEW width, NEW height \in Nat, NEW compression, NEW bits, NEW x, IsExtra(x),
         NEW up \in BOOLEAN, NEW ov
  PROVE  LET b == ApplyBmihOverrides(
                    WriteBitmapInfoHeaderOriented(width, height, compression, bits, x, up), ov)
         IN /\ SaysPicture(b, width, IF up THEN -height ELSE height, compression, bits)
            /\ b.len = 40 + ExtraBytes(x)
            /\ \A k \in DOMAIN x.quads : b.at[40 + 4 * (k - 1)] = x.quads[k]
<1> DEFINE h == IF up THEN -height ELSE height
           size == 40 + ExtraBytes(x)
           f == BmihFields(size, width, h, bits, compression, 0)
           g == ExtraFields(x, 40)
           w == WriteBitmapInfoHeaderOriented(width, height, compression, bits, x, up)
           b == ApplyBmihOverrides(w, ov)
<1>1. w = Body(size, Beside(f, g)) BY DEF WriteBitmapInfoHeaderOriented
<1>2. /\ DOMAIN f = {0, 4, 8, 12, 14, 16, 20, 24, 28, 32, 36}
      /\ f[4] = width /\ f[8] = h /\ f[14] = bits /\ f[16] = compression
  <2> HIDE DEF h, size
  <2> QED BY BmihSays
<1>3. size \in Nat /\ size >= 40 BY ExtraSize
<1>4. /\ \A o \in DOMAIN g : o \in Nat /\ o >= 40
      /\ \A k \in DOMAIN x.quads : 40 + 4 * (k - 1) \in DOMAIN g /\ g[40 + 4 * (k - 1)] = x.quads[k]
  BY ExtraFieldsAre
<1> HIDE DEF f, g, size, h, w
<1> DEFINE m == Beside(f, g)
<1>5. /\ DOMAIN m = DOMAIN f \cup DOMAIN g /\ m = [o \in DOMAIN m |-> m[o]]
      /\ \A o \in DOMAIN f : m[o] = f[o]
      /\ \A o \in DOMAIN g \ DOMAIN f : m[o] = g[o]
  <2>1. IsBeside(m, f, g) BY BesideIs
  <2> HIDE DEF m
  <2> QED BY <2>1 DEF IsBeside
<1> HIDE DEF m
<1>6. w.len = size /\ w.at = m /\ IsBody(w) BY <1>1, <1>5 DEF Body, IsBody, m
<1>7. SameBut(b, w, {12, 20, 24, 28, 36}) BY <1>6, BmihKeeps
<1> HIDE DEF b
<1>8. IsBody(b) /\ b.len = size /\ DOMAIN b.at = DOMAIN m
      /\ \A n \in DOMAIN m \ {12, 20, 24, 28, 36} : b.at[n] = m[n]
  BY <1>6, <1>7 DEF SameBut
<1>9. SaysPicture(b, width, h, compression, bits)
  <2>1. {4, 8, 14, 16} \subseteq DOMAIN m \ {12, 20, 24, 28, 36} BY <1>2, <1>5
  <2>2. b.at[4] = m[4] /\ b.at[8] = m[8] /\ b.at[14] = m[14] /\ b.at[16] = m[16]
    BY <1>8, <2>1
  <2> QED BY <1>2, <1>3, <1>5, <1>8, <2>2 DEF SaysPicture
<1>10. ASSUME NEW k \in DOMAIN x.quads PROVE b.at[40 + 4 * (k - 1)] = x.quads[k]
  <2> DEFINE o == 40 + 4 * (k - 1)
  <2>1. o \in DOMAIN g /\ g[o] = x.quads[k] /\ o \in Nat /\ o >= 40 BY <1>4
  <2> HIDE DEF o
  <2>2. o \notin {0, 4, 8, 12, 14, 16, 20, 24, 28, 32, 36} BY <2>1
  <2>3. o \in DOMAIN g \ DOMAIN f BY <1>2, <2>1, <2>2
  <2>4. m[o] = g[o] BY <1>5, <2>3
  <2>5. o \in DOMAIN m \ {12, 20, 24, 28, 36} BY <1>5, <2>1, <2>2
  <2>6. b.at[o] = m[o] BY <1>8, <2>5
  <2> QED BY <2>1, <2>4, <2>6 DEF o
<1> QED BY <1>8, <1>9, <1>10 DEF b, w, h, size

-----------------------------------------------------------------------------
(* What is written                                                         *)

\* strh says what the entry says, without an override.
LEMMA StrhSays ==
  ASSUME NEW e, NEW p
  PROVE  LET b == WriteStrh(e, p, NoOverrides)
         IN /\ b.len = 56 /\ b.at[0] = e.strh_type /\ b.at[4] = e.handler
            /\ b.at[20] = e.scale /\ b.at[24] = e.rate /\ b.at[44] = e.sample_size
<1> DEFINE tb == <<e.scale, e.rate>>
           r == DestinationRect(e.strh_type, p.width, p.height, NoOverrides)
           f == StrhFields(e, tb, r, NoOverrides)
<1>1. NoOverrides.timebase = None /\ NoOverrides.fcc_type = None /\ NoOverrides.handler = None
      /\ NoOverrides.sample_size = None
  BY DEF NoOverrides
<1>2. WriteStrh(e, p, NoOverrides) = Body(56, f) BY <1>1 DEF WriteStrh, OrElse
<1> HIDE DEF r, tb
<1>3. f[0] = e.strh_type BY <1>1 DEF StrhFields, OrElse, StrhLength, StrhBuffer
<1>4. f[4] = e.handler BY <1>1 DEF StrhFields, OrElse, StrhLength, StrhBuffer
<1>5. f[20] = tb[1] BY DEF StrhFields, StrhLength, StrhBuffer
<1>6. f[24] = tb[2] BY DEF StrhFields, StrhLength, StrhBuffer
<1>7. f[44] = e.sample_size BY <1>1 DEF StrhFields, OrElse, StrhLength, StrhBuffer
<1> HIDE DEF f
<1> QED BY <1>2, <1>3, <1>4, <1>5, <1>6, <1>7 DEF Body, tb

\* An entry is the record of its fields.
IsEntry(e) ==
  e = Entry(e.suffix, e.layout, e.handler, e.strf, e.strh_type, e.sample_size, <<e.scale, e.rate>>)

\* a is b but for its strf.
SameEntry(a, b) ==
  /\ a.ok /\ a.layout = b.layout /\ a.handler = b.handler /\ a.strh_type = b.strh_type
  /\ a.sample_size = b.sample_size /\ a.scale = b.scale /\ a.rate = b.rate

LEMMA EntryIs ==
  ASSUME NEW su, NEW l, NEW h, NEW b, NEW t, NEW z, NEW r
  PROVE  LET e == Entry(su, l, h, b, t, z, r)
         IN /\ IsEntry(e) /\ e.ok /\ e.layout = l /\ e.handler = h /\ e.strf = b /\ e.strh_type = t
            /\ e.sample_size = z /\ e.scale = r[1] /\ e.rate = r[2]
BY DEF Entry, IsEntry

\* The options of a stream override fields of its strf and nothing else.
LEMMA OverriddenIs ==
  ASSUME NEW e, IsEntry(e), NEW c
  PROVE  /\ SameEntry(Overridden(e, c), e)
         /\ Overridden(e, c).strf = IF e.strh_type = "vids" THEN ApplyBmihOverrides(e.strf, c.bmih)
                                    ELSE PutField(e.strf, c.avg, 8)
<1>1. /\ DOMAIN e = {"ok", "suffix", "layout", "handler", "strf", "strh_type", "sample_size",
                     "scale", "rate"}
      /\ e.ok
  BY DEF IsEntry, Entry
<1>2. ASSUME NEW b
      PROVE  SameEntry(WithStrf(e, b), e) /\ WithStrf(e, b).strf = b
  BY <1>1 DEF WithStrf, SameEntry
<1> QED BY <1>1, <1>2 DEF Overridden

\* The strf of a raw picture: its masks, and its rows from the top down if they
\* are those of a DIB.
RawWritten(e, p) ==
  LET fmt == p.pixel_format[1]
      h == HeaderFor(fmt)
      height == IF h.rule = "Dib" THEN -p.height[1] ELSE p.height[1]
  IN /\ p.pixel_format # None /\ fmt \in WritableFormats
     /\ e.layout = Relaid(NewLayout(fmt, h.rule, p.width[1], p.height[1], TRUE))
     /\ SaysPicture(e.strf, p.width[1], height, h.compression, h.bit_count)
     /\ e.strf.len = 40 + 4 * Len(h.masks)
     /\ \A k \in DOMAIN h.masks : e.strf.at[40 + 4 * (k - 1)] = h.masks[k]

\* Any other picture: 24 bits unless it is written as BI_RGB, and its extra data.
TaggedWritten(e, p) ==
  /\ e.layout = None
  /\ SaysPicture(e.strf, p.width[1], e.strf.at[8], e.strf.at[16], e.strf.at[14])
  /\ e.strf.at[8] \in {p.height[1], -p.height[1]}
  /\ e.strf.at[16] # "BI_RGB" =>
       /\ VideoFourcc(p) # None /\ e.strf.at[16] = VideoFourcc(p)[1] /\ e.strf.at[14] = 24
       /\ e.strf.at[8] = p.height[1]
       /\ e.strf.len = 40 + ExtraBytes(p.ext)
       /\ \A k \in DOMAIN p.ext.quads : e.strf.at[40 + 4 * (k - 1)] = p.ext.quads[k]

VideoWritten(e, p) ==
  /\ e.strh_type = "vids" /\ e.scale = VideoScaleRate(p)[1] /\ e.rate = VideoScaleRate(p)[2]
  /\ p.width = Some(p.width[1]) /\ p.width[1] \in Nat
  /\ p.height = Some(p.height[1]) /\ p.height[1] \in Nat
  /\ IF p.id = "rawvideo" THEN RawWritten(e, p) ELSE TaggedWritten(e, p)

\* The masks of a header are a sequence of numbers.
LEMMA MasksAre ==
  ASSUME NEW fmt \in WritableFormats
  PROVE  IsExtra(Extra(HeaderFor(fmt).masks, 0))
<1>1. HeaderFor(fmt).masks = <<>> \/ \E a, b, c : HeaderFor(fmt).masks = <<a, b, c>>
  <2>1. DOMAIN Masks16 = {"Rgb555Le", "Rgb565Le", "Bgr555Le", "Bgr565Le"} BY DEF Masks16
  <2>2. DOMAIN Masks32 = {"Bgrx", "Rgbx", "Xrgb", "Xbgr"} BY DEF Masks32
  <2>3. CASE fmt \in {"Rgb565Le", "Bgr555Le", "Bgr565Le"}
    <3>1. HeaderFor(fmt).masks = Masks16[fmt] BY <2>3 DEF HeaderFor, Header
    <3>2. \E a, b, c : Masks16[fmt] = <<a, b, c>> BY <2>3 DEF Masks16
    <3> QED BY <3>1, <3>2
  <2>4. CASE fmt \in {"Rgbx", "Xrgb", "Xbgr"}
    <3>1. HeaderFor(fmt).masks = Masks32[fmt] BY <2>4 DEF HeaderFor, Header
    <3>2. \E a, b, c : Masks32[fmt] = <<a, b, c>> BY <2>4 DEF Masks32
    <3> QED BY <3>1, <3>2
  <2>5. CASE fmt \in {"Rgb555Le", "Bgr24", "Bgrx", "Rgba"}
    BY <2>5 DEF HeaderFor, Header, NoMasks
  <2> QED BY <2>1, <2>2, <2>3, <2>4, <2>5 DEF WritableFormats, DibFormats
<1>2. ASSUME NEW q, q = <<>> \/ \E a, b, c : q = <<a, b, c>> PROVE IsSeq(q)
  <2>1. CASE q = <<>> BY <2>1 DEF IsSeq
  <2>2. ASSUME NEW a, NEW b, NEW c, q = <<a, b, c>> PROVE IsSeq(q)
    <3>1. DOMAIN q = 1 .. 3 BY <2>2
    <3>2. q = [i \in 1 .. 3 |-> q[i]] BY <2>2
    <3>3. \A i \in DOMAIN q : q[i] \in Range(q) BY DEF Range
    <3>4. q \in [1 .. 3 -> Range(q)] BY <3>1, <3>2, <3>3
    <3> QED BY <3>4, FunctionIsSeq DEF IsSeq
  <2> QED BY <1>2, <2>1, <2>2
<1> QED BY <1>1, <1>2 DEF IsExtra, Extra

LEMMA RawIsWritten ==
  ASSUME NEW p, IsParams(p), p.width # None, p.height # None, p.id = "rawvideo",
         NEW c, Overridden(RawVideo(p), c).ok
  PROVE  VideoWritten(Overridden(RawVideo(p), c), p)
<1> DEFINE fmt == p.pixel_format[1]
           h == HeaderFor(fmt)
           x == Extra(h.masks, 0)
           up == h.rule = "Dib"
           b == WriteBitmapInfoHeaderOriented(p.width[1], p.height[1], h.compression, h.bit_count,
                                              x, up)
           l == Relaid(NewLayout(fmt, h.rule, p.width[1], p.height[1], TRUE))
           e == RawEntry(p, h)
<1>1. p.pixel_format # None /\ fmt \in WritableFormats /\ RawVideo(p) = e
  BY DEF RawVideo, Overridden, NotPackaged
<1>2. p.width = Some(p.width[1]) /\ p.width[1] \in Nat /\ p.height = Some(p.height[1])
      /\ p.height[1] \in Nat
  BY DEF IsParams, OptionOf
<1>3. /\ IsEntry(e) /\ e.layout = l /\ e.strf = b /\ e.strh_type = "vids"
      /\ e.scale = VideoScaleRate(p)[1] /\ e.rate = VideoScaleRate(p)[2]
  <2> HIDE DEF b, l
  <2>1. e = Entry(IF h.rule = "Dib" THEN "db" ELSE "dc", l, h.compression, b, "vids", 0,
                  VideoScaleRate(p))
    BY DEF RawEntry, l, b
  <2> QED BY <2>1, EntryIs
<1> DEFINE o == Overridden(e, c)
<1> HIDE DEF e, l
<1>4. SameEntry(o, e) /\ o.strf = ApplyBmihOverrides(b, c.bmih) BY <1>3, OverriddenIs
<1>5. IsExtra(x) /\ up \in BOOLEAN BY <1>1, MasksAre
<1> HIDE DEF up, x
<1>6. /\ SaysPicture(o.strf, p.width[1], IF up THEN -p.height[1] ELSE p.height[1],
                     h.compression, h.bit_count)
      /\ o.strf.len = 40 + ExtraBytes(x)
      /\ \A k \in DOMAIN x.quads : o.strf.at[40 + 4 * (k - 1)] = x.quads[k]
  <2> HIDE DEF h, o
  <2> QED BY <1>2, <1>4, <1>5, WrittenSays
<1>7. x.quads = h.masks /\ ExtraBytes(x) = 4 * Len(h.masks)
  <2>1. x.quads = h.masks /\ x.tail = 0 BY DEF x, Extra
  <2>2. Len(x.quads) \in Nat BY <1>5, ExtraSize
  <2> QED BY <2>1, <2>2 DEF ExtraBytes
<1> HIDE DEF o, b
<1>8. RawWritten(o, p) BY <1>1, <1>3, <1>4, <1>6, <1>7 DEF RawWritten, SameEntry, up, l
<1> QED BY <1>1, <1>2, <1>3, <1>4, <1>8 DEF VideoWritten, SameEntry, o

LEMMA TaggedIsWritten ==
  ASSUME NEW p, IsParams(p), p.width # None, p.height # None, p.id # "rawvideo",
         VideoFourcc(p) # None, NEW c, IsChoices(c)
  PROVE  VideoWritten(Overridden(TaggedEntry(p, VideoFourcc(p)[1], c), c), p)
<1> DEFINE fourcc == VideoFourcc(p)[1]
           up == c.top_down /\ fourcc = NoFourcc
           palette == c.indexed[1][2]
           b == WriteBitmapInfoHeaderOriented(p.width[1], p.height[1], fourcc, 24, p.ext, up)
           d == WriteIndexedBitmapInfoHeader(p.width[1], p.height[1], c.indexed[1][1], palette)
           e == TaggedEntry(p, fourcc, c)
           o == Overridden(e, c)
<1>1. p.width = Some(p.width[1]) /\ p.width[1] \in Nat /\ p.height = Some(p.height[1])
      /\ p.height[1] \in Nat /\ IsExtra(p.ext)
  BY DEF IsParams, OptionOf
<1>2. /\ IsEntry(e) /\ e.layout = None /\ e.strh_type = "vids"
      /\ e.strf = IF c.indexed # None THEN d ELSE b
      /\ e.scale = VideoScaleRate(p)[1] /\ e.rate = VideoScaleRate(p)[2]
  <2> HIDE DEF b, d
  <2>1. e = IF c.indexed # None
            THEN Entry("db", None, NoFourcc, d, "vids", 0, VideoScaleRate(p))
            ELSE Entry(IF fourcc = NoFourcc THEN "db" ELSE "dc", None, fourcc, b, "vids", 0,
                       VideoScaleRate(p))
    BY DEF TaggedEntry, b, d
  <2> HIDE DEF e, fourcc
  <2>2. CASE c.indexed # None BY <2>1, <2>2, EntryIs
  <2>3. CASE c.indexed = None BY <2>1, <2>3, EntryIs
  <2> QED BY <2>2, <2>3
<1> HIDE DEF e
<1>3. SameEntry(o, e) /\ o.strf = ApplyBmihOverrides(e.strf, c.bmih)
  <2>1. SameEntry(o, e) /\ o.strf = IF e.strh_type = "vids" THEN ApplyBmihOverrides(e.strf, c.bmih)
                                    ELSE PutField(e.strf, c.avg, 8)
    BY <1>2, OverriddenIs
  <2> QED BY <1>2, <2>1
<1> HIDE DEF o
<1>4. ASSUME c.indexed = None PROVE VideoWritten(o, p)
  <2> HIDE DEF fourcc
  <2>1. /\ SaysPicture(o.strf, p.width[1], IF up THEN -p.height[1] ELSE p.height[1], fourcc, 24)
        /\ o.strf.len = 40 + ExtraBytes(p.ext)
        /\ \A k \in DOMAIN p.ext.quads : o.strf.at[40 + 4 * (k - 1)] = p.ext.quads[k]
    <3>1. up \in BOOLEAN OBVIOUS
    <3> HIDE DEF up
    <3> DEFINE v == ApplyBmihOverrides(b, c.bmih)
    <3>2. o.strf = v BY <1>2, <1>3, <1>4
    <3>3. /\ SaysPicture(v, p.width[1], IF up THEN -p.height[1] ELSE p.height[1], fourcc, 24)
          /\ v.len = 40 + ExtraBytes(p.ext)
          /\ \A k \in DOMAIN p.ext.quads : v.at[40 + 4 * (k - 1)] = p.ext.quads[k]
      <4> DEFINE x == p.ext
                 w == p.width[1]
                 h == p.height[1]
                 ov == c.bmih
      <4>1. h \in Nat /\ IsExtra(x) /\ v = ApplyBmihOverrides(
              WriteBitmapInfoHeaderOriented(w, h, fourcc, 24, x, up), ov)
        BY <1>1
      <4> HIDE DEF v, x, w, h, ov
      <4>2. /\ SaysPicture(v, w, IF up THEN -h ELSE h, fourcc, 24)
            /\ v.len = 40 + ExtraBytes(x)
            /\ \A k \in DOMAIN x.quads : v.at[40 + 4 * (k - 1)] = x.quads[k]
        BY ONLY <3>1, <4>1, WrittenSays
      <4> QED BY <4>2 DEF x, w, h
    <3> HIDE DEF v
    <3> QED BY <3>2, <3>3
  <2>2. o.strf.at[8] = (IF up THEN -p.height[1] ELSE p.height[1]) /\ o.strf.at[16] = fourcc
        /\ o.strf.at[14] = 24
    BY <2>1 DEF SaysPicture
  <2>3. SaysPicture(o.strf, p.width[1], o.strf.at[8], o.strf.at[16], o.strf.at[14])
    BY <2>1, <2>2
  <2>4. o.layout = None BY <1>2, <1>3 DEF SameEntry
  <2>5. o.strf.at[8] \in {p.height[1], -p.height[1]} BY <2>2
  <2>6. o.strf.at[16] # "BI_RGB" => ~up BY <2>2 DEF NoFourcc
  <2>7. TaggedWritten(o, p)
    <3> HIDE DEF up
    <3> QED BY <2>1, <2>2, <2>3, <2>4, <2>5, <2>6 DEF TaggedWritten, fourcc
  <2> QED BY <2>7, <1>1, <1>2, <1>3 DEF VideoWritten, SameEntry
<1>5. ASSUME c.indexed # None PROVE VideoWritten(o, p)
  <2> DEFINE x == Extra(palette, 0)
             f == BmihFields(40, p.width[1], p.height[1], c.indexed[1][1], "BI_RGB", Len(palette))
             g == ExtraFields(x, 40)
             m == Beside(f, g)
             a == 40 + 4 * Len(palette)
  <2>1. IsExtra(x) /\ x.quads = palette BY <1>5 DEF IsExtra, Extra, IsChoices
  <2>2. a \in Nat /\ a >= 40
    <3>1. Len(palette) \in Nat BY <2>1, ExtraSize
    <3> QED BY <3>1
  <2>3. /\ DOMAIN f = {0, 4, 8, 12, 14, 16, 20, 24, 28, 32, 36}
        /\ f[4] = p.width[1] /\ f[8] = p.height[1] /\ f[16] = "BI_RGB"
    <3> HIDE DEF palette
    <3> QED BY BmihSays
  <2> HIDE DEF f, g
  <2>4. IsBeside(m, f, g) BY BesideIs
  <2>5. d = Body(a, m) BY DEF WriteIndexedBitmapInfoHeader, f, g
  <2> HIDE DEF m, a, d
  <2>6. IsBody(d) /\ d.len = a /\ d.at = m BY <2>4, <2>5 DEF Body, IsBody, IsBeside
  <2>7. SameBut(o.strf, d, {12, 20, 24, 28, 36})
    <3>1. o.strf = ApplyBmihOverrides(d, c.bmih) BY <1>2, <1>3, <1>5
    <3> QED BY <2>6, <3>1, BmihKeeps
  <2>8. /\ {0, 4, 8, 12, 14, 16, 20, 24, 28, 32, 36} \subseteq DOMAIN m
        /\ m[4] = p.width[1] /\ m[8] = p.height[1] /\ m[16] = "BI_RGB"
    BY <2>3, <2>4 DEF IsBeside
  <2>9. /\ IsBody(o.strf) /\ o.strf.len = a
        /\ {0, 4, 8, 12, 14, 16, 20, 24, 28, 32, 36} \subseteq DOMAIN o.strf.at
        /\ o.strf.at[4] = p.width[1] /\ o.strf.at[8] = p.height[1] /\ o.strf.at[16] = "BI_RGB"
    BY <2>6, <2>7, <2>8 DEF SameBut
  <2>10. SaysPicture(o.strf, p.width[1], o.strf.at[8], o.strf.at[16], o.strf.at[14])
    BY <2>2, <2>9 DEF SaysPicture
  <2>11. o.layout = None BY <1>2, <1>3 DEF SameEntry
  <2>12. TaggedWritten(o, p) BY <2>9, <2>10, <2>11 DEF TaggedWritten
  <2> QED BY <2>12, <1>1, <1>2, <1>3 DEF VideoWritten, SameEntry
<1> QED BY <1>4, <1>5 DEF o, e

\* Whatever video is written is written like this.
LEMMA VideoIsWritten ==
  ASSUME NEW p, IsParams(p), p.media = "video", NEW c, IsChoices(c), BuildStrf(p, c).ok
  PROVE  VideoWritten(BuildStrf(p, c), p)
<1> DEFINE e == BuildVideoStrf(p, c)
<1>1. BuildStrf(p, c) = Overridden(e, c) BY DEF BuildStrf
<1> HIDE DEF e
<1>2. e.ok BY <1>1 DEF Overridden
<1>3. p.width # None /\ p.height # None BY <1>2 DEF e, BuildVideoStrf, NotPackaged
<1>4. CASE p.id = "rawvideo"
  <2>1. e = RawVideo(p) BY <1>3, <1>4 DEF e, BuildVideoStrf
  <2> QED BY <1>1, <1>3, <1>4, <2>1, RawIsWritten
<1>5. CASE p.id # "rawvideo"
  <2>1. VideoFourcc(p) # None BY <1>2, <1>5 DEF e, BuildVideoStrf, NotPackaged
  <2>2. e = TaggedEntry(p, VideoFourcc(p)[1], c) BY <1>3, <1>5, <2>1 DEF e, BuildVideoStrf
  <2> QED BY <1>1, <1>3, <1>5, <2>1, <2>2, TaggedIsWritten
<1> QED BY <1>4, <1>5

\* What a WAVEFORMATEX says, whatever byte rate was chosen for it.
LEMMA WaveSays ==
  ASSUME NEW tag, NEW channels, NEW rate, NEW avg, NEW align, NEW bits, NEW n \in Nat, NEW x, NEW ov
  PROVE  LET b == PutField(WriteWaveformatex(tag, channels, rate, avg, align, bits, n, x), ov, 8)
         IN  /\ b.len = 18 + n /\ b.at[0] = tag /\ b.at[2] = channels /\ b.at[14] = bits
             /\ b.at[16] = n
<1> DEFINE f == [o \in {0, 2, 4, 8, 12, 14, 16} |->
                   CASE o = 0 -> tag [] o = 2 -> channels [] o = 4 -> rate [] o = 8 -> avg
                     [] o = 12 -> align [] o = 14 -> bits [] o = 16 -> n]
           m == Beside(f, x)
           w == WriteWaveformatex(tag, channels, rate, avg, align, bits, n, x)
           b == PutField(w, ov, 8)
<1>1. w = Body(18 + n, m) BY DEF WriteWaveformatex
<1>2. /\ DOMAIN f = {0, 2, 4, 8, 12, 14, 16} /\ f[0] = tag /\ f[2] = channels /\ f[14] = bits
      /\ f[16] = n
  <2>1. DOMAIN f = {0, 2, 4, 8, 12, 14, 16} OBVIOUS
  <2>2. f[0] = tag OBVIOUS
  <2>3. f[2] = channels OBVIOUS
  <2>4. f[14] = bits OBVIOUS
  <2>5. f[16] = n OBVIOUS
  <2> QED BY <2>1, <2>2, <2>3, <2>4, <2>5
<1> HIDE DEF f, w
<1>3. IsBeside(m, f, x) BY BesideIs
<1> HIDE DEF m
<1>4. IsBody(w) /\ w.len = 18 + n /\ w.at = m BY <1>1, <1>3 DEF IsBeside, IsBody, Body
<1>5. SameBut(b, w, {8}) BY <1>4, PutKeeps
<1> HIDE DEF b
<1>6. {0, 2, 14, 16} \subseteq DOMAIN m \ {8} BY <1>2, <1>3 DEF IsBeside
<1>7. \A o \in {0, 2, 14, 16} : b.at[o] = f[o]
  BY <1>2, <1>3, <1>4, <1>5, <1>6 DEF SameBut, IsBeside
<1> QED BY <1>2, <1>4, <1>5, <1>7 DEF SameBut, b, w

\* Audio: an extensible header, blocks of one size, or a frame a chunk.
Depths == {8, 16, 24, 32, 64}

Extensibly(e) == e.strf.at[0] = WAVE_FORMAT_EXTENSIBLE /\ e.strf.len = 40 /\ e.strf.at[16] = 22

Constantly(e, p) ==
  /\ AudioFormatTag(p) = Some(e.strf.at[0]) /\ e.strf.at[0] # WAVE_FORMAT_EXTENSIBLE
  /\ e.strf.at[14] \in Depths
  /\ e.strf.at[14] = 64 => PcmBitsPerSample(p.id, p.sample_format) = Some(64)
  /\ e.sample_size = 0 <=> p.channels[1] = 0
  /\ PcmBitsPerSample(p.id, p.sample_format) # None \/ p.id \in {"pcm_alaw", "pcm_mulaw"}

Variably(e, p) ==
  /\ AudioFormatTag(p) = Some(e.strf.at[0]) /\ e.strf.at[0] # WAVE_FORMAT_EXTENSIBLE
  /\ e.strf.at[14] = 0 /\ e.sample_size = 0
  /\ PcmBitsPerSample(p.id, p.sample_format) = None /\ p.id \notin {"pcm_alaw", "pcm_mulaw"}

AudioWritten(e, p) ==
  /\ e.strh_type = "auds" /\ e.layout = None
  /\ p.channels = Some(p.channels[1]) /\ p.channels[1] \in Nat
  /\ e.strf.at[16] \in Nat /\ e.strf.len = 18 + e.strf.at[16]
  /\ e.strf.at[2] = p.channels[1]
  /\ Extensibly(e) \/ Constantly(e, p) \/ Variably(e, p)

\* The depths of the formats.
LEMMA DepthsAre ==
  ASSUME NEW id, NEW format, OptionOf(format, DOMAIN BytesPerSample),
         PcmBitsPerSample(id, format) # None
  PROVE  /\ PcmBitsPerSample(id, format) = Some(PcmBitsPerSample(id, format)[1])
         /\ PcmBitsPerSample(id, format)[1] \in Depths
<1>1. CASE format = None BY <1>1 DEF PcmBitsPerSample, Depths, Some
<1>2. ASSUME NEW s \in DOMAIN BytesPerSample, format = Some(s)
      PROVE  /\ PcmBitsPerSample(id, format) = Some(PcmBitsPerSample(id, format)[1])
             /\ PcmBitsPerSample(id, format)[1] \in Depths
  <2>1. 8 * BytesPerSample[s] \in Depths BY DEF BytesPerSample, Depths
  <2>2. format # None /\ format[1] = s BY <1>2 DEF Some, None
  <2> QED BY <2>1, <2>2 DEF PcmBitsPerSample, Depths, Some
<1> QED BY <1>1, <1>2 DEF OptionOf

LEMMA AudioIsWritten ==
  ASSUME NEW p, IsParams(p), p.media = "audio", NEW c, BuildStrf(p, c).ok
  PROVE  /\ AudioWritten(BuildStrf(p, c), p)
         /\ Extensibly(BuildStrf(p, c)) <=> c.extensible # None
<1> DEFINE e == BuildAudioStrf(p, c)
           o == Overridden(e, c)
           pcm == PcmBitsPerSample(p.id, p.sample_format)
           n == p.channels[1]
           rate == p.sample_rate[1]
<1>1. BuildStrf(p, c) = o BY DEF BuildStrf
<1> HIDE DEF e
<1>2. e.ok BY <1>1 DEF Overridden
<1>3. /\ p.channels # None
      /\ e = IF c.extensible = None THEN PlainAudio(p, AudioFormatTag(p), pcm)
             ELSE ExtensibleEntry(p, pcm, c.extensible[1],
                    IF pcm # None THEN pcm[1] ELSE WholeBytes(Largest(c.extensible[1].valid, 8)))
  BY <1>2 DEF e, BuildAudioStrf, NotPackaged
<1>4. p.channels = Some(n) /\ n \in Nat BY <1>3 DEF IsParams, OptionOf
<1>5. ASSUME NEW su, NEW h, NEW b, NEW z, NEW r, e = Entry(su, None, h, b, "auds", z, r)
      PROVE  /\ o.strh_type = "auds" /\ o.layout = None /\ o.sample_size = z
             /\ o.strf = PutField(b, c.avg, 8)
  <2>1. IsEntry(e) /\ e.layout = None /\ e.strf = b /\ e.strh_type = "auds" /\ e.sample_size = z
    BY <1>5, EntryIs
  <2>2. /\ SameEntry(o, e)
        /\ o.strf = IF e.strh_type = "vids" THEN ApplyBmihOverrides(e.strf, c.bmih)
                    ELSE PutField(e.strf, c.avg, 8)
    BY <2>1, OverriddenIs
  <2> QED BY <2>1, <2>2 DEF SameEntry
<1> HIDE DEF o, pcm, n, rate
<1>6. CASE c.extensible # None
  <2> DEFINE bits == IF pcm # None THEN pcm[1] ELSE WholeBytes(Largest(c.extensible[1].valid, 8))
             ex == c.extensible[1]
             align == BlockAlign(n, bits)
             x == [k \in {18, 20, 24} |->
                     CASE k = 18 -> ex.valid [] k = 20 -> ex.mask [] k = 24 -> ex.guid]
             z == IF pcm = None THEN 0 ELSE align
             b == WriteWaveformatex(WAVE_FORMAT_EXTENSIBLE, n, rate, rate * align, align, bits, 22, x)
  <2>1. e = Entry("wb", None, NoFourcc, b, "auds", z, <<1, rate>>)
    <3> HIDE DEF bits
    <3> QED BY <1>3, <1>6 DEF ExtensibleEntry, WriteWaveformatextensible, n, rate, bits
  <2>2. LET w == PutField(b, c.avg, 8)
        IN  w.len = 18 + 22 /\ w.at[0] = WAVE_FORMAT_EXTENSIBLE /\ w.at[2] = n /\ w.at[16] = 22
    <3> HIDE DEF bits, align, x
    <3> QED BY ONLY WaveSays
  <2> HIDE DEF b, z, bits, align, x
  <2>3. o.strh_type = "auds" /\ o.layout = None /\ o.strf = PutField(b, c.avg, 8) BY <1>5, <2>1
  <2>4. o.strf.len = 40 /\ o.strf.at[0] = WAVE_FORMAT_EXTENSIBLE /\ o.strf.at[2] = n
        /\ o.strf.at[16] = 22
    BY <2>2, <2>3
  <2> QED BY <1>1, <1>4, <1>6, <2>3, <2>4 DEF AudioWritten, Extensibly, n
<1>7. CASE c.extensible = None
  <2> DEFINE tag == AudioFormatTag(p)
  <2>1. e = PlainAudio(p, tag, pcm) BY <1>3, <1>7
  <2> HIDE DEF tag
  <2>2. tag # None /\ tag[1] # WAVE_FORMAT_EXTENSIBLE BY <1>2, <2>1 DEF PlainAudio, NotPackaged
  <2>3. tag = Some(tag[1]) BY <2>2 DEF tag, AudioFormatTag, PcmSynthFormatTag, Some, IsParams
  <2>4. ASSUME NEW align, NEW bits \in Depths,
               e = ConstantRateEntry(p, tag[1], align, bits),
               bits = 64 => pcm = Some(64), align = 0 <=> n = 0,
               pcm # None \/ p.id \in {"pcm_alaw", "pcm_mulaw"}
        PROVE  AudioWritten(o, p) /\ ~Extensibly(o)
    <3> DEFINE b == WriteWaveformatex(tag[1], n, rate, rate * align, align, bits, 0, EmptyBody.at)
               w == PutField(b, c.avg, 8)
    <3>1. e = Entry("wb", None, NoFourcc, b, "auds", align, <<1, rate>>)
      BY <2>4 DEF ConstantRateEntry, n, rate
    <3>2. w.len = 18 + 0 /\ w.at[0] = tag[1] /\ w.at[2] = n /\ w.at[14] = bits /\ w.at[16] = 0
      BY ONLY WaveSays
    <3> HIDE DEF b
    <3>3. o.strh_type = "auds" /\ o.layout = None /\ o.strf = w /\ o.sample_size = align
      BY <1>5, <3>1
    <3> HIDE DEF w
    <3>4. Constantly(o, p)
      BY <2>2, <2>3, <2>4, <3>2, <3>3 DEF Constantly, tag, n, pcm
    <3>5. ~Extensibly(o) BY <3>4 DEF Constantly, Extensibly
    <3> QED BY <1>4, <3>2, <3>3, <3>4, <3>5 DEF AudioWritten, n
  <2>5. CASE pcm # None
    <3>1. pcm = Some(pcm[1]) /\ pcm[1] \in Depths BY <2>5, DepthsAre DEF pcm, IsParams
    <3>2. e = ConstantRateEntry(p, tag[1], BlockAlign(n, pcm[1]), pcm[1])
      BY <2>1, <2>2, <2>5 DEF PlainAudio, n
    <3>3. BlockAlign(n, pcm[1]) = 0 <=> n = 0
      BY <1>4, <3>1 DEF Depths, BlockAlign, Largest
    <3>4. pcm[1] = 64 => pcm = Some(64) BY <3>1
    <3> QED BY <1>1, <1>7, <2>4, <2>5, <3>1, <3>2, <3>3, <3>4
  <2>6. CASE pcm = None /\ p.id \in {"pcm_alaw", "pcm_mulaw"}
    <3>1. e = ConstantRateEntry(p, tag[1], n, 8) BY <2>1, <2>2, <2>6 DEF PlainAudio, n
    <3>2. 8 \in Depths /\ 8 # 64 BY DEF Depths
    <3> QED BY <1>1, <1>7, <2>4, <2>6, <3>1, <3>2
  <2>7. CASE pcm = None /\ p.id \notin {"pcm_alaw", "pcm_mulaw"}
    <3> DEFINE k == ExtraBytes(p.ext)
               x == ExtraFields(p.ext, 18)
               avg == OrElse(p.bit_rate, 0) \div 8
               b == WriteWaveformatex(tag[1], n, rate, avg, 1, 0, k, x)
               w == PutField(b, c.avg, 8)
    <3>1. e = Entry("wb", None, NoFourcc, b, "auds", 0, <<1, rate>>)
      <4>1. e = VariableRateEntry(p, tag[1]) BY <2>1, <2>2, <2>7 DEF PlainAudio
      <4> QED BY <4>1 DEF VariableRateEntry, n, rate
    <3>2. k \in Nat BY ExtraSize DEF IsParams
    <3> HIDE DEF avg, x, k
    <3>3. w.len = 18 + k /\ w.at[0] = tag[1] /\ w.at[2] = n /\ w.at[14] = 0 /\ w.at[16] = k
      BY ONLY <3>2, WaveSays
    <3> HIDE DEF b
    <3>4. o.strh_type = "auds" /\ o.layout = None /\ o.strf = w /\ o.sample_size = 0
      BY <1>5, <3>1
    <3> HIDE DEF w
    <3>5. Variably(o, p) BY <2>2, <2>3, <2>7, <3>3, <3>4 DEF Variably, tag, pcm
    <3>6. ~Extensibly(o) BY <3>5 DEF Variably, Extensibly
    <3> QED BY <1>1, <1>4, <1>7, <3>2, <3>3, <3>4, <3>5, <3>6 DEF AudioWritten, n
  <2> QED BY <2>5, <2>6, <2>7
<1> QED BY <1>6, <1>7

-----------------------------------------------------------------------------
(* What parameter sets state                                               *)

LEMMA LeastIsThere ==
  ASSUME NEW s, IsSeq(s), NEW S \in SUBSET DOMAIN s, S # {}
  PROVE  Min(S) \in S
<1>1. S \subseteq Nat
  <2>1. Len(s) \in Nat /\ DOMAIN s = 1 .. Len(s) BY LenProperties DEF IsSeq
  <2> QED BY <2>1
<1>2. \A i, j \in Nat : <<i, j>> \in OpToRel(<, Nat) <=> i < j BY DEF OpToRel
<1>3. PICK x \in S : \A y \in S : ~ (<<y, x>> \in OpToRel(<, Nat))
  BY <1>1, NatLessThanWellFounded, WFMin
<1>4. ASSUME NEW y \in S PROVE x =< y
  <2>1. x \in Nat /\ y \in Nat BY <1>1
  <2>2. ~ (y < x) BY <1>2, <1>3, <2>1
  <2> QED BY <2>1, <2>2
<1> QED BY <1>4 DEF Min

\* A size is a pair of numbers.
IsSize(o) == o = None \/ (o = Some(o[1]) /\ o[1][1] \in Nat /\ o[1][2] \in Nat)

LEMMA CodedIsSize ==
  ASSUME NEW w \in Nat, NEW h \in Nat
  PROVE  IsSize(Coded(w, h))
BY DEF Coded, IsSize, Some, None

LEMMA WindowedIsSize ==
  ASSUME NEW w \in Nat, NEW h \in Nat, NEW win, \A k \in 1 .. 4 : win[k] \in Nat,
         NEW x \in Nat, NEW y \in Nat
  PROVE  IsSize(Windowed(w, h, win, x, y))
<1> DEFINE a == (win[1] + win[2]) * x
           b == (win[3] + win[4]) * y
<1>1. a \in Nat /\ b \in Nat
  <2>1. win[1] + win[2] \in Nat /\ win[3] + win[4] \in Nat OBVIOUS
  <2> QED BY <2>1
<1>2. Windowed(w, h, win, x, y) =
        IF w > MaxU32 \/ h > MaxU32 \/ a > MaxU32 \/ b > MaxU32 \/ a >= w \/ b >= h
        THEN None ELSE Some(<<w - a, h - b>>)
  BY DEF Windowed
<1> HIDE DEF a, b
<1>3. CASE w > MaxU32 \/ h > MaxU32 \/ a > MaxU32 \/ b > MaxU32 \/ a >= w \/ b >= h
  BY <1>2, <1>3 DEF IsSize
<1>4. CASE ~(w > MaxU32 \/ h > MaxU32 \/ a > MaxU32 \/ b > MaxU32 \/ a >= w \/ b >= h)
  <2>1. w - a \in Nat /\ h - b \in Nat BY <1>1, <1>4
  <2>2. Windowed(w, h, win, x, y) = Some(<<w - a, h - b>>) BY <1>2, <1>4
  <2> QED BY <2>1, <2>2 DEF IsSize, Some
<1> QED BY <1>3, <1>4

LEMMA AvcIsSize ==
  ASSUME NEW s, IsSet(s)
  PROVE  IsSize(AvcLayout(s).size)
<1>1. AvcLayout(s).size = AvcSpsCroppedSize(s) BY DEF AvcLayout, Stated
<1>2. CASE s.nal # 7 \/ AvcSpsCroppedSize(s) = None
  <2>1. AvcSpsCroppedSize(s) = None BY <1>2 DEF AvcSpsCroppedSize
  <2> QED BY <1>1, <2>1 DEF IsSize
<1>3. CASE s.nal = 7 /\ AvcSpsCroppedSize(s) # None
  <2> DEFINE f == FieldFactor(s)
             w == 16 * s.width
             h == 16 * s.height * f
             x == SubWidth(ChromaOf(s), s.high /\ s.planes)
             y == SubHeight(ChromaOf(s), s.high /\ s.planes) * f
  <2>1. f \in Nat BY DEF FieldFactor
  <2>2. s.width \in Nat /\ s.height \in Nat
        /\ (s.window = None \/ \A k \in 1 .. 4 : s.window[1][k] \in Nat)
    BY <1>3 DEF IsSet
  <2>3. w \in Nat /\ h \in Nat
    <3> HIDE DEF f
    <3>1. 16 * s.height \in Nat BY <2>2
    <3> QED BY <2>1, <2>2, <3>1
  <2>4. x \in Nat BY DEF SubWidth
  <2>5. y \in Nat
    <3> DEFINE g == SubHeight(ChromaOf(s), s.high /\ s.planes)
    <3>1. g \in Nat BY DEF SubHeight
    <3> HIDE DEF f, g
    <3> QED BY <2>1, <3>1 DEF g
  <2>6. AvcSpsCroppedSize(s) = IF s.window = None THEN Coded(w, h)
                               ELSE Windowed(w, h, s.window[1], x, y)
    BY <1>3 DEF AvcSpsCroppedSize
  <2> HIDE DEF w, h, x, y
  <2> QED BY <1>1, <2>2, <2>3, <2>4, <2>5, <2>6, CodedIsSize, WindowedIsSize
<1> QED BY <1>2, <1>3

LEMMA HevcIsSize ==
  ASSUME NEW s, IsSet(s), HevcSpsInfo(s) # None
  PROVE  IsSize(Some(HevcSpsInfo(s)[1].size))
<1> DEFINE win == OrElse(s.window, <<0, 0, 0, 0>>)
           x == SubWidth(s.chroma, s.planes)
           y == SubHeight(s.chroma, s.planes)
           size == Windowed(s.width, s.height, win, x, y)
<1>1. s.nal = 33 /\ size # None /\ HevcSpsInfo(s)[1].size = size[1] BY DEF HevcSpsInfo, Some, None
<1>2. s.width \in Nat /\ s.height \in Nat
      /\ (s.window = None \/ \A k \in 1 .. 4 : s.window[1][k] \in Nat)
  BY <1>1 DEF IsSet
<1>3. \A k \in 1 .. 4 : win[k] \in Nat BY <1>2 DEF OrElse
<1>4. x \in Nat BY DEF SubWidth
<1>5. y \in Nat BY DEF SubHeight
<1> HIDE DEF win, x, y
<1>6. IsSize(size) BY <1>2, <1>3, <1>4, <1>5, WindowedIsSize
<1> HIDE DEF size
<1> QED BY <1>1, <1>6 DEF IsSize

LEMMA H264IsSize ==
  ASSUME NEW data, Sound(data)
  PROVE  IsSize(H264Layout(data).size)
<1> DEFINE nals == data.nals
           some == FirstWith(nals, LAMBDA s : TRUE)
           own == FirstWith(nals, LAMBDA s : s.nal = 7)
           set == IF data.form = "avcC" THEN some ELSE IF data.form = "annexB" THEN own ELSE None
<1>1. H264Layout(data) = IF set = None THEN NothingStated ELSE AvcLayout(set[1])
  BY DEF H264Layout
<1>2. NothingStated.size = None BY DEF NothingStated, Stated
<1>3. CASE set = None BY <1>1, <1>2, <1>3 DEF IsSize
<1>4. CASE set # None
  <2>1. data.form \in {"avcC", "annexB"} BY <1>4
  <2>2. IsSeq(nals) /\ \A k \in DOMAIN nals : IsSet(nals[k]) BY <2>1 DEF Sound
  <2>3. ASSUME data.form = "avcC"
        PROVE  \E k \in DOMAIN nals : set[1] = nals[k]
    <3> DEFINE T == {i \in DOMAIN nals : TRUE}
    <3>1. T # {} /\ some = Some(nals[Min(T)]) BY <1>4, <2>3 DEF FirstWith
    <3>2. Min(T) \in T BY <2>2, <3>1, LeastIsThere
    <3> HIDE DEF some
    <3> QED BY <2>3, <3>1, <3>2 DEF Some
  <2>4. ASSUME data.form = "annexB"
        PROVE  \E k \in DOMAIN nals : set[1] = nals[k]
    <3> DEFINE T == {i \in DOMAIN nals : nals[i].nal = 7}
    <3>1. T # {} /\ own = Some(nals[Min(T)]) BY <1>4, <2>4 DEF FirstWith
    <3>2. Min(T) \in T BY <2>2, <3>1, LeastIsThere
    <3> HIDE DEF own
    <3> QED BY <2>4, <3>1, <3>2 DEF Some
  <2> HIDE DEF set
  <2>5. IsSet(set[1]) BY <2>1, <2>2, <2>3, <2>4
  <2> QED BY <1>1, <1>4, <2>5, AvcIsSize
<1> QED BY <1>3, <1>4

LEMMA HevcLayoutIsSize ==
  ASSUME NEW data, Sound(data)
  PROVE  IsSize(HevcLayout(data).size)
<1> DEFINE nals == data.nals
           set == FirstWith(nals, LAMBDA s : s.nal = 33)
           read == FirstWith(nals, LAMBDA s : HevcSpsInfo(s) # None)
           Size(i) == IF i = None THEN None ELSE Some(i[1].size)
<1>1. CASE data.form = "hvcC" /\ set # None
  <2> DEFINE T == {i \in DOMAIN nals : nals[i].nal = 33}
  <2>1. HevcLayout(data).size = Size(HevcSpsInfo(set[1])) BY <1>1 DEF HevcLayout, Stated
  <2>2. IsSeq(nals) /\ \A k \in DOMAIN nals : IsSet(nals[k]) BY <1>1 DEF Sound
  <2>3. T # {} /\ set = Some(nals[Min(T)]) BY <1>1 DEF FirstWith
  <2>4. Min(T) \in T BY <2>2, <2>3, LeastIsThere
  <2> HIDE DEF set
  <2>5. IsSet(set[1]) BY <2>2, <2>3, <2>4 DEF Some
  <2>6. CASE HevcSpsInfo(set[1]) = None BY <2>1, <2>6 DEF IsSize
  <2>7. CASE HevcSpsInfo(set[1]) # None BY <2>1, <2>5, <2>7, HevcIsSize
  <2> QED BY <2>6, <2>7
<1>2. CASE data.form = "annexB" /\ read # None
  <2> DEFINE T == {i \in DOMAIN nals : HevcSpsInfo(nals[i]) # None}
  <2>1. HevcLayout(data).size = Size(HevcSpsInfo(read[1])) BY <1>2 DEF HevcLayout, Stated
  <2>2. IsSeq(nals) /\ \A k \in DOMAIN nals : IsSet(nals[k]) BY <1>2 DEF Sound
  <2>3. T # {} /\ read = Some(nals[Min(T)]) BY <1>2 DEF FirstWith
  <2>4. Min(T) \in T BY <2>2, <2>3, LeastIsThere
  <2>5. IsSet(read[1]) /\ HevcSpsInfo(read[1]) # None BY <2>2, <2>3, <2>4 DEF Some
  <2> HIDE DEF read
  <2> QED BY <2>1, <2>5, HevcIsSize
<1>3. CASE ~(data.form = "hvcC" /\ set # None) /\ ~(data.form = "annexB" /\ read # None)
  <2>1. HevcLayout(data) = NothingStated BY <1>3 DEF HevcLayout
  <2> QED BY <2>1 DEF IsSize, NothingStated, Stated
<1> QED BY <1>1, <1>2, <1>3

Families == {"H264", "Hevc", "Vp9", "Av1"}

LEMMA StatedIsSize ==
  ASSUME NEW family \in Families, NEW data, Sound(data)
  PROVE  IsSize(LayoutStated(family, data).size)
<1>1. CASE family = "H264"
  <2>1. LayoutStated(family, data) = H264Layout(data) BY <1>1 DEF LayoutStated
  <2> QED BY <2>1, H264IsSize
<1>2. CASE family = "Hevc"
  <2>1. LayoutStated(family, data) = HevcLayout(data) BY <1>2 DEF LayoutStated
  <2> QED BY <2>1, HevcLayoutIsSize
<1>3. CASE family \in {"Vp9", "Av1"}
  <2>1. LayoutStated(family, data).size = None BY <1>3 DEF LayoutStated, Stated
  <2> QED BY <2>1 DEF IsSize
<1> QED BY <1>1, <1>2, <1>3 DEF Families

LEMMA SpelledIsSound ==
  /\ \A word : Sound(Spelled(ConfigSpelled, word))
  /\ \A word : Sound(Spelled(FrameSpelled, word))
  /\ Sound(NothingSpelled)
<1>1. Sound(NothingSpelled) BY DEF NothingSpelled, Sound
<1> QED BY <1>1, SoundAssumption DEF SoundSpelling, Spelled

ParamFields == {"media", "id", "tag", "ext", "width", "height", "pixel_format", "frame_rate",
                "channels", "sample_rate", "sample_format", "bit_rate"}

\* q is p but for its picture.
SamePast(q, p) ==
  /\ q.media = p.media /\ q.id = p.id /\ q.tag = p.tag /\ q.ext = p.ext
  /\ q.channels = p.channels /\ q.sample_format = p.sample_format

\* Parameter sets fill in a picture that is not known, and nothing else.
LEMMA FillKeeps ==
  ASSUME NEW p, DOMAIN p = ParamFields, IsParams(p), NEW chunks
  PROVE  /\ IsParams(FillLayouts(p, chunks))
         /\ SamePast(FillLayouts(p, chunks), p)
         /\ p.media # "video" \/ p.pixel_format # None => FillLayouts(p, chunks) = p
<1> DEFINE family == FamilyOf(p.id, OrElse(p.tag, "BI_RGB"))
           q == FillLayouts(p, chunks)
<1>1. CASE p.media # "video" \/ p.pixel_format # None \/ family = None
  <2>1. q = p BY <1>1 DEF FillLayouts
  <2> QED BY <2>1 DEF SamePast
<1>2. CASE ~(p.media # "video" \/ p.pixel_format # None \/ family = None)
  <2> DEFINE stated == LayoutStated(family[1], ConfigOf(p.ext))
             peeked == LayoutStated(family[1], Peeked(chunks))
             l == IF IsComplete(family[1], stated) THEN stated ELSE Either(stated, peeked)
  <2>1. q = ApplyLayout(p, l) BY <1>2 DEF FillLayouts, FillFrom
  <2>2. family[1] \in Families
    <3>1. \A fourcc : FourccFamily(fourcc) # None => FourccFamily(fourcc)[1] \in Families
      BY DEF FourccFamily, Families, Some
    <3>2. \A id, fourcc : FamilyOf(id, fourcc) # None => FamilyOf(id, fourcc)[1] \in Families
      BY <3>1 DEF FamilyOf, Families, Some
    <3> QED BY <1>2, <3>2
  <2>3. IsSize(stated.size)
    <3>1. Sound(ConfigOf(p.ext)) BY SpelledIsSound DEF ConfigOf
    <3> QED BY <2>2, <3>1, StatedIsSize
  <2>4. IsSize(peeked.size)
    <3>1. Sound(Peeked(chunks)) BY SpelledIsSound DEF Peeked
    <3> QED BY <2>2, <3>1, StatedIsSize
  <2> HIDE DEF stated, peeked
  <2>5. IsSize(l.size)
    <3>1. Either(stated, peeked).size = IF stated.size # None THEN stated.size ELSE peeked.size
      BY DEF Either, Stated
    <3> QED BY <2>3, <2>4, <3>1
  <2> HIDE DEF l, family, q
  <2>6. /\ SamePast(q, p)
        /\ q.width = IF l.size = None THEN p.width ELSE Some(l.size[1][1])
        /\ q.height = IF l.size = None THEN p.height ELSE Some(l.size[1][2])
    BY <2>1 DEF ApplyLayout, SamePast, ParamFields
  <2>7. OptionOf(q.width, Nat) /\ OptionOf(q.height, Nat)
    BY <2>5, <2>6 DEF IsSize, OptionOf, IsParams, Some
  <2>8. IsParams(q) BY <2>6, <2>7 DEF IsParams, SamePast
  <2> QED BY <1>2, <2>6, <2>8 DEF q
<1> QED BY <1>1, <1>2

-----------------------------------------------------------------------------
(* What is read                                                            *)

LEMMA NoParamsAre ==
  /\ DOMAIN NoParams = ParamFields /\ NoParams.media = "data" /\ NoParams.id = "none"
  /\ NoParams.tag = None /\ NoParams.ext = NoExtra /\ NoParams.width = None
  /\ NoParams.height = None /\ NoParams.pixel_format = None /\ NoParams.channels = None
  /\ NoParams.sample_format = None
BY DEF NoParams, ParamFields

LEMMA NoExtraIs == IsExtra(NoExtra)
<1>1. NoExtra.quads = <<>> /\ NoExtra.tail = 0 BY DEF NoExtra, Extra
<1>2. <<>> \in Seq(Range(<<>>)) BY EmptySeq
<1> QED BY <1>1, <1>2 DEF IsExtra, IsSeq

LEMMA VideoParamsAre ==
  ASSUME NEW id, NEW raw, NEW fourcc, NEW bmih, NEW strh
  PROVE  LET p == VideoParams(id, raw, fourcc, bmih, strh)
         IN  /\ DOMAIN p = ParamFields /\ p.media = "video" /\ p.id = id /\ p.tag = Some(fourcc)
             /\ p.pixel_format = IF raw = NoFormat THEN None ELSE Some(raw.fmt)
             /\ p.width = IF bmih.ok THEN Some(bmih.width) ELSE None
             /\ p.height = IF bmih.ok THEN Some(bmih.height) ELSE None
             /\ p.ext = IF bmih.ok THEN bmih.extra ELSE NoExtra
             /\ p.channels = None /\ p.sample_format = None
BY NoParamsAre DEF VideoParams, ParamFields

LEMMA AudioParamsAre ==
  ASSUME NEW id, NEW strf, NEW wfx, NEW ex
  PROVE  LET p == AudioParams(id, strf, wfx, ex)
         IN  /\ DOMAIN p = ParamFields /\ p.media = "audio" /\ p.id = id /\ p.tag = Some(wfx.tag)
             /\ p.channels = Some(wfx.channels) /\ p.ext = AudioExtra(strf, wfx, ex)
             /\ p.sample_format = SampleFormatFor(id, DepthOf(wfx, ex))
             /\ p.width = None /\ p.height = None /\ p.pixel_format = None
BY NoParamsAre DEF AudioParams, ParamFields

\* Extra data read from a body are its dwords and the bytes left over.
LEMMA ReadExtraIs ==
  ASSUME NEW b, NEW from \in Nat, NEW to \in Nat, from <= to
  PROVE  LET x == ReadExtra(b, from, to)
         IN  /\ IsExtra(x) /\ Len(x.quads) = (to - from) \div 4 /\ x.tail = (to - from) % 4
             /\ DOMAIN x.quads = 1 .. (to - from) \div 4
             /\ \A k \in DOMAIN x.quads : x.quads[k] = b.at[from + 4 * (k - 1)]
<1> DEFINE n == (to - from) \div 4
           t == (to - from) % 4
           f == [k \in 1 .. n |-> b.at[from + 4 * (k - 1)]]
           x == ReadExtra(b, from, to)
<1>1. n \in Nat /\ t \in Nat BY SMTT(30)
<1>2. x = Extra(f, t) BY DEF ReadExtra
<1> HIDE DEF x, t, n
<1>3. DOMAIN f = 1 .. n /\ \A k \in 1 .. n : f[k] = b.at[from + 4 * (k - 1)] OBVIOUS
<1>4. f \in [1 .. n -> Range(f)] BY DEF Range
<1> HIDE DEF f
<1>5. f \in Seq(Range(f)) /\ Len(f) = n BY <1>1, <1>4, FunctionIsSeq
<1>6. x.quads = f /\ x.tail = t BY <1>2 DEF Extra
<1> QED BY <1>1, <1>3, <1>5, <1>6 DEF IsExtra, IsSeq, n, t, x

\* A format found in a header is one that is written with the same row rule.
LEMMA RawIs ==
  ASSUME NEW c, NEW bits, NEW masks, PixelFormatFor(c, bits, masks) # NoFormat
  PROVE  LET raw == PixelFormatFor(c, bits, masks)
         IN  /\ raw.fmt \in WritableFormats /\ raw.rule \in RowRules
             /\ raw.rule = HeaderFor(raw.fmt).rule /\ raw.rule = RowRuleOf(Some(c))
<1> DEFINE raw == PixelFormatFor(c, bits, masks)
<1>1. ASSUME NEW fmt \in DibFormats
      PROVE  HeaderFor(fmt).rule = "Dib"
  <2>1. fmt \in {"Rgb555Le", "Rgb565Le", "Bgr555Le", "Bgr565Le", "Bgrx", "Rgbx", "Xrgb", "Xbgr",
                 "Bgr24"}
    BY DEF DibFormats, Masks16, Masks32
  <2> QED BY <2>1 DEF HeaderFor, Header
<1>2. HeaderFor("Rgba").rule = "PackedTopDown" BY DEF HeaderFor, Header
<1>3. ASSUME NEW table, NEW m, WithMasks(table, m) # NoFormat
      PROVE  WithMasks(table, m).fmt \in DOMAIN table /\ WithMasks(table, m).rule = "Dib"
  BY <1>3 DEF WithMasks, Found
<1>4. CASE c = "RGBA"
  <2>1. raw = Found("Rgba", "PackedTopDown") BY <1>4 DEF PixelFormatFor
  <2>2. RowRuleOf(Some(c)) = "PackedTopDown" BY <1>4 DEF RowRuleOf, Some
  <2> QED BY <1>2, <2>1, <2>2 DEF Found, WritableFormats, RowRules
<1>5. CASE c \in {"BI_RGB", "BI_BITFIELDS"}
  <2>1. raw.fmt \in DibFormats /\ raw.rule = "Dib"
    <3>1. CASE c = "BI_RGB"
      BY <3>1 DEF PixelFormatFor, Found, DibFormats, Masks16, Masks32
    <3>2. CASE c = "BI_BITFIELDS"
      BY <1>3, <3>2 DEF PixelFormatFor, DibFormats
    <3> QED BY <1>5, <3>1, <3>2
  <2>2. RowRuleOf(Some(c)) = "Dib" BY <1>5 DEF RowRuleOf, Some
  <2> QED BY <1>1, <2>1, <2>2 DEF WritableFormats, RowRules
<1>6. CASE c \notin {"BI_RGB", "BI_BITFIELDS", "RGBA"} BY <1>6 DEF PixelFormatFor
<1> QED BY <1>4, <1>5, <1>6

\* The pixel format in a video header.
RawOf(strf) ==
  IF strf.len >= 40
  THEN PixelFormatFor(strf.at[16], strf.at[14], BitfieldsOf(ParseBitmapInfoHeader(strf)))
  ELSE NoFormat

ReadsVideo(s, strf) ==
  /\ s.ok /\ s.audio = None /\ DOMAIN s.params = ParamFields /\ s.params.media = "video"
  /\ IsParams(s.params) /\ ~TooDeep(s.params)
  /\ s.params.id = "rawvideo" <=> RawOf(strf) # NoFormat
  /\ s.params.pixel_format = IF RawOf(strf) = NoFormat THEN None ELSE Some(RawOf(strf).fmt)
  /\ strf.len >= 40 =>
       /\ s.params.width = Some(strf.at[4]) /\ s.params.height = Some(Magnitude(strf.at[8]))
       /\ s.params.tag = Some(strf.at[16])
       /\ s.picture # None /\ s.picture[1].top_down = (strf.at[8] < 0)

LEMMA VideoReads ==
  ASSUME NEW strh, NEW strf, NEW r, strh.len \in Nat, strh.len >= 48, strh.at[0] = "vids",
         strf.len \in Nat, strf.len >= 40 => strf.at[4] \in Nat /\ strf.at[8] \in Int,
         BuildStream(strh, strf, r).ok
  PROVE  ReadsVideo(BuildStream(strh, strf, r), strf)
<1> DEFINE b == ParseBitmapInfoHeader(strf)
           s == BuildStream(strh, strf, r)
           fourcc == IF b.ok THEN b.compression ELSE strh.at[4]
           masks == BitfieldsOf(b)
           raw == IF b.ok THEN PixelFormatFor(fourcc, b.bit_count, masks) ELSE NoFormat
           id == IF raw # NoFormat THEN "rawvideo"
                 ELSE OrElse(ResolveFourcc(r, fourcc), VideoCodecIdFallback(fourcc))
<1>1. s = BuildVids(strh, strf, b, r) BY DEF BuildStream
<1> HIDE DEF s
<1>2. b.ok <=> strf.len >= 40 BY DEF ParseBitmapInfoHeader, TooShort
<1>3. strf.len >= 40 =>
        /\ b.width = strf.at[4] /\ b.height = Magnitude(strf.at[8])
        /\ b.top_down = (strf.at[8] < 0) /\ b.bit_count = strf.at[14]
        /\ b.compression = strf.at[16] /\ b.extra = ReadExtra(strf, 40, strf.len)
  BY DEF ParseBitmapInfoHeader
<1>4. ~(strf.len > 0 /\ ~b.ok) BY <1>1 DEF BuildVids, NotBuilt, s
<1> HIDE DEF b
<1>5. s = BuildVideo(strh, b, fourcc, masks, raw, id)
  <2>1. s = NameVideo(strh, b, fourcc, masks, raw, r) BY <1>1, <1>4 DEF BuildVids, ReadVideo
  <2> QED BY <2>1 DEF NameVideo
<1>6. raw = RawOf(strf) BY <1>2, <1>3 DEF RawOf, b
<1>7. id = "rawvideo" <=> raw # NoFormat
  BY DEF OrElse, ResolveFourcc, VideoCodecIdFallback, Some, None
<1> HIDE DEF fourcc, masks, raw, id
<1> DEFINE p == VideoParams(id, raw, fourcc, b, strh)
<1>8. /\ DOMAIN p = ParamFields /\ p.media = "video" /\ p.id = id /\ p.tag = Some(fourcc)
      /\ p.pixel_format = (IF raw = NoFormat THEN None ELSE Some(raw.fmt))
      /\ p.width = (IF b.ok THEN Some(b.width) ELSE None)
      /\ p.height = (IF b.ok THEN Some(b.height) ELSE None)
      /\ p.ext = (IF b.ok THEN b.extra ELSE NoExtra)
      /\ p.channels = None /\ p.sample_format = None
  BY VideoParamsAre
<1> HIDE DEF p
<1>9. /\ s.ok /\ s.params = p /\ s.audio = None
      /\ s.picture = IF b.ok THEN Some(Picture(b, masks)) ELSE None
  BY <1>5 DEF BuildVideo, Built, p
<1>10. IsExtra(p.ext)
  <2>1. CASE b.ok
    <3>1. p.ext = ReadExtra(strf, 40, strf.len) BY <1>2, <1>3, <1>8, <2>1
    <3>2. strf.len \in Nat /\ 40 \in Nat /\ 40 <= strf.len BY <1>2, <2>1
    <3>3. IsExtra(ReadExtra(strf, 40, strf.len)) BY <3>2, ReadExtraIs
    <3> QED BY <3>1, <3>3
  <2>2. CASE ~b.ok BY <1>8, <2>2, NoExtraIs
  <2> QED BY <2>1, <2>2
<1>11. OptionOf(p.width, Nat) /\ OptionOf(p.height, Nat)
  <2>1. CASE b.ok
    <3>1. b.width \in Nat /\ b.height \in Nat BY <1>2, <1>3, <2>1 DEF Magnitude
    <3> QED BY <1>8, <2>1, <3>1 DEF OptionOf, Some
  <2>2. CASE ~b.ok BY <1>8, <2>2 DEF OptionOf
  <2> QED BY <2>1, <2>2
<1>12. IsParams(p) /\ ~TooDeep(p)
  BY <1>8, <1>10, <1>11 DEF IsParams, TooDeep, OptionOf, Some
<1>13. strf.len >= 40 =>
         /\ p.width = Some(strf.at[4]) /\ p.height = Some(Magnitude(strf.at[8]))
         /\ p.tag = Some(strf.at[16])
         /\ s.picture # None /\ s.picture[1].top_down = (strf.at[8] < 0)
  <2> SUFFICES ASSUME strf.len >= 40
               PROVE  /\ p.width = Some(strf.at[4]) /\ p.height = Some(Magnitude(strf.at[8]))
                      /\ p.tag = Some(strf.at[16])
                      /\ s.picture # None /\ s.picture[1].top_down = (strf.at[8] < 0)
    OBVIOUS
  <2>1. p.width = Some(strf.at[4]) /\ p.height = Some(Magnitude(strf.at[8]))
        /\ p.tag = Some(strf.at[16])
    BY <1>2, <1>3, <1>8 DEF fourcc
  <2>2. Picture(b, masks).top_down = (strf.at[8] < 0) BY <1>3 DEF Picture
  <2>3. s.picture = Some(Picture(b, masks)) BY <1>2, <1>9
  <2> QED BY <2>1, <2>2, <2>3 DEF Some, None
<1> QED BY <1>6, <1>7, <1>8, <1>9, <1>12, <1>13 DEF ReadsVideo, s

\* An audio stream that is read says what its WAVEFORMATEX says.
TaggedName(r, strf) ==
  OrElse(ResolveFormatTag(r, strf.at[0]), AudioCodecIdFallback(strf.at[0], strf.at[14]))

ReadsAudio(s, strh, strf, r) ==
  /\ s.ok /\ s.picture = None /\ DOMAIN s.params = ParamFields /\ s.params.media = "audio"
  /\ IsParams(s.params) /\ ~TooDeep(s.params) /\ s.params.id # "rawvideo"
  /\ s.audio # None /\ s.audio[1].sample_size = strh.at[44]
  /\ s.params.tag = Some(s.audio[1].format_tag)
  /\ strf.len >= 18 => s.params.tag = Some(strf.at[0]) /\ s.params.channels = Some(strf.at[2])
  /\ strf.len >= 18 /\ strf.at[0] # WAVE_FORMAT_EXTENSIBLE =>
       /\ s.params.id = TaggedName(r, strf)
       /\ s.params.sample_format = SampleFormatFor(TaggedName(r, strf), strf.at[14])

LEMMA SampleFormatIs ==
  ASSUME NEW id, NEW bits
  PROVE  OptionOf(SampleFormatFor(id, bits), DOMAIN BytesPerSample)
<1>1. SampleFormatFor(id, bits)
        \in {None, Some("U8"), Some("S16"), Some("S24"), Some("S32"), Some("F32"), Some("F64")}
  BY DEF SampleFormatFor
<1>2. DOMAIN BytesPerSample = {"U8", "S16", "S24", "S32", "F32", "F64"} BY DEF BytesPerSample
<1>3. \A f \in {None, Some("U8"), Some("S16"), Some("S24"), Some("S32"), Some("F32"), Some("F64")} :
        OptionOf(f, DOMAIN BytesPerSample)
  BY <1>2 DEF OptionOf, Some
<1> QED BY <1>1, <1>3

\* No companded or ADPCM stream is read with samples of sixty-four bits.
LEMMA ShallowEnough ==
  ASSUME NEW r, NEW tag \in {6, 7, 17}, NEW bits, NEW depth
  PROVE  LET id == OrElse(ResolveFormatTag(r, tag), AudioCodecIdFallback(tag, bits))
         IN  PcmBitsPerSample(id, SampleFormatFor(id, depth)) # Some(64)
<1> DEFINE id == OrElse(ResolveFormatTag(r, tag), AudioCodecIdFallback(tag, bits))
<1>1. id \in {"pcm_alaw", "pcm_mulaw", "avi:tag"}
  BY DEF OrElse, ResolveFormatTag, AudioCodecIdFallback, Some, None
<1> HIDE DEF id
<1>2. SampleFormatFor(id, depth) \in {None, Some("U8"), Some("S16"), Some("S24"), Some("S32")}
  BY <1>1 DEF SampleFormatFor
<1>3. \A f \in {None, Some("U8"), Some("S16"), Some("S24"), Some("S32")} :
        PcmBitsPerSample(id, f) # Some(64)
  BY <1>1 DEF PcmBitsPerSample, BytesPerSample, Some, None
<1> QED BY <1>2, <1>3 DEF id

\* No audio is named like a picture.
LEMMA AudioNamed ==
  ASSUME NEW r
  PROVE  /\ \A tag, bits : OrElse(ResolveFormatTag(r, tag), AudioCodecIdFallback(tag, bits)) # "rawvideo"
         /\ \A wfx, ex : AudioName(r, wfx, ex) # "rawvideo"
<1>1. \A o, d : o # Some("rawvideo") /\ d # "rawvideo" /\ (o = None \/ o = Some(o[1]))
                => OrElse(o, d) # "rawvideo"
  BY DEF OrElse
<1>2. \A tag : LET o == ResolveFormatTag(r, tag)
               IN  o # Some("rawvideo") /\ (o = None \/ o = Some(o[1]))
  BY DEF ResolveFormatTag, Some, None
<1>3. \A tag, bits : AudioCodecIdFallback(tag, bits) # "rawvideo"
  BY DEF AudioCodecIdFallback, PcmName, FloatName
<1>4. \A guid, bits : LET o == SubformatCodecHint(guid, bits)
                      IN  o # Some("rawvideo") /\ (o = None \/ o = Some(o[1]))
  BY DEF SubformatCodecHint, PcmName, FloatName, Some, None
<1>5. \A wfx, ex : AudioName(r, wfx, ex) # "rawvideo" BY <1>1, <1>2, <1>3, <1>4 DEF AudioName
<1> QED BY <1>1, <1>2, <1>3, <1>5

LEMMA AudioReads ==
  ASSUME NEW strh, NEW strf, NEW r, strh.len \in Nat, strh.len >= 48, strh.at[0] = "auds",
         strf.len \in Nat,
         strf.len >= 14 => strf.at[2] \in Nat /\ (strf.len >= 18 => strf.at[16] \in Nat),
         BuildStream(strh, strf, r).ok
  PROVE  ReadsAudio(BuildStream(strh, strf, r), strh, strf, r)
<1> DEFINE w == ParseWaveformatex(strf)
           s == BuildStream(strh, strf, r)
<1>1. s = BuildAuds(strh, strf, w, r) BY DEF BuildStream
<1> HIDE DEF s
<1>2. CASE strf.len = 0
  <2> DEFINE p == SilentParams(r)
             k == SilentKept(strh)
  <2>1. s = Built(p, "wb", Some(k), None) BY <1>1, <1>2 DEF BuildAuds
  <2>2. k.sample_size = strh.at[44] /\ k.format_tag = 0 BY DEF SilentKept
  <2>3. /\ DOMAIN p = ParamFields /\ p.media = "audio" /\ p.tag = Some(0) /\ p.ext = NoExtra
        /\ p.width = None /\ p.height = None /\ p.channels = None /\ p.sample_format = None
        /\ p.id = OrElse(ResolveFormatTag(r, 0), AudioCodecIdFallback(0, 0))
    BY NoParamsAre DEF SilentParams, ParamFields
  <2>7. p.id # "rawvideo" BY <2>3, AudioNamed
  <2> HIDE DEF p, k
  <2>4. s.ok /\ s.picture = None /\ s.params = p /\ s.audio = Some(k) BY <2>1 DEF Built
  <2>5. IsParams(p) BY <2>3, NoExtraIs DEF IsParams, OptionOf, Some
  <2>6. ~TooDeep(p) BY <2>3 DEF TooDeep, Some
  <2> QED BY <1>2, <2>2, <2>3, <2>4, <2>5, <2>6, <2>7 DEF ReadsAudio, Some, None, s
<1>3. CASE strf.len # 0
  <2>1. w.ok BY <1>1, <1>3 DEF BuildAuds, NotBuilt, s
  <2>2. strf.len >= 14 BY <2>1 DEF ParseWaveformatex, TooShort
  <2>3. /\ w.tag = strf.at[0] /\ w.channels = strf.at[2]
        /\ w.bits = (IF strf.len >= 16 THEN strf.at[14] ELSE 0)
        /\ w.ext_len = (IF strf.len >= 18 THEN Least(strf.at[16], strf.len - 18) ELSE 0)
    BY <2>2 DEF ParseWaveformatex
  <2>4. w.ext_len \in Nat /\ (w.ext_len # 0 => 18 + w.ext_len <= strf.len)
    BY <2>2, <2>3 DEF Least
  <2> HIDE DEF w
  <2> DEFINE ex == IF w.tag # WAVE_FORMAT_EXTENSIBLE THEN TooShort ELSE ParseWaveformatextensible(strf)
             id == AudioName(r, w, ex)
             p == AudioParams(id, strf, w, ex)
             k == AudioKept(strh, w, ex)
  <2>5. s = ReadAudio(strh, strf, w, ex, r)
    BY <1>1, <1>3, <2>1 DEF BuildAuds, NotBuilt, s
  <2>6. w.tag # WAVE_FORMAT_EXTENSIBLE => ~ex.ok BY DEF TooShort
  <2> HIDE DEF ex
  <2>7. k.sample_size = strh.at[44] /\ k.format_tag = w.tag BY DEF AudioKept
  <2>8. /\ DOMAIN p = ParamFields /\ p.media = "audio" /\ p.id = id /\ p.tag = Some(w.tag)
        /\ p.channels = Some(w.channels) /\ p.ext = AudioExtra(strf, w, ex)
        /\ p.sample_format = SampleFormatFor(id, DepthOf(w, ex))
        /\ p.width = None /\ p.height = None
    BY AudioParamsAre
  <2> HIDE DEF p, k
  <2>9. s.ok /\ s.picture = None /\ s.params = p /\ s.audio = Some(k)
    BY <2>5 DEF ReadAudio, Built, p, k, id
  <2>10. IsExtra(p.ext)
    <3>1. CASE ex.ok
      <4>1. p.ext = Extra(<<>>, w.ext_len) BY <2>8, <3>1 DEF AudioExtra
      <4>2. p.ext.quads = <<>> /\ p.ext.tail = w.ext_len BY <4>1 DEF Extra
      <4>3. <<>> \in Seq(Range(<<>>)) BY EmptySeq
      <4> QED BY <2>4, <4>2, <4>3 DEF IsExtra, IsSeq
    <3>2. CASE ~ex.ok /\ w.ext_len = 0
      BY <2>8, <3>2, NoExtraIs DEF AudioExtra
    <3>3. CASE ~ex.ok /\ w.ext_len # 0
      <4>1. p.ext = ReadExtra(strf, 18, 18 + w.ext_len) BY <2>8, <3>3 DEF AudioExtra
      <4>2. 18 \in Nat /\ 18 + w.ext_len \in Nat /\ 18 <= 18 + w.ext_len BY <2>4
      <4>3. IsExtra(ReadExtra(strf, 18, 18 + w.ext_len)) BY <4>2, ReadExtraIs
      <4> QED BY <4>1, <4>3
    <3> QED BY <3>1, <3>2, <3>3
  <2>11. OptionOf(p.sample_format, DOMAIN BytesPerSample) BY <2>8, SampleFormatIs
  <2>12. IsParams(p)
    <3>1. w.channels \in Nat BY <2>2, <2>3
    <3> QED BY <2>8, <2>10, <2>11, <3>1 DEF IsParams, OptionOf, Some
  <2>13. ~ex.ok => id = OrElse(ResolveFormatTag(r, w.tag), AudioCodecIdFallback(w.tag, w.bits))
                   /\ DepthOf(w, ex) = w.bits
    BY DEF AudioName, DepthOf
  <2>18. p.id # "rawvideo" BY <2>8, AudioNamed
  <2> HIDE DEF id
  <2>14. ~TooDeep(p)
    <3> SUFFICES ASSUME w.tag \in {6, 7, 17}
                 PROVE  PcmBitsPerSample(id, SampleFormatFor(id, DepthOf(w, ex))) # Some(64)
      BY <2>8 DEF TooDeep, Some
    <3>1. ~ex.ok BY <2>6 DEF WAVE_FORMAT_EXTENSIBLE
    <3> QED BY <2>13, <3>1, ShallowEnough
  <2>15. strf.len >= 18 /\ strf.at[0] # WAVE_FORMAT_EXTENSIBLE =>
           /\ p.id = TaggedName(r, strf)
           /\ p.sample_format = SampleFormatFor(TaggedName(r, strf), strf.at[14])
    <3> SUFFICES ASSUME strf.len >= 18, strf.at[0] # WAVE_FORMAT_EXTENSIBLE
                 PROVE  /\ p.id = TaggedName(r, strf)
                        /\ p.sample_format = SampleFormatFor(TaggedName(r, strf), strf.at[14])
      OBVIOUS
    <3>1. w.tag = strf.at[0] /\ w.bits = strf.at[14] /\ ~ex.ok BY <2>3, <2>6
    <3> QED BY <2>8, <2>13, <3>1 DEF TaggedName
  <2>16. p.tag = Some(strf.at[0]) /\ p.channels = Some(strf.at[2]) BY <2>3, <2>8
  <2>17. s.audio # None /\ s.audio[1].sample_size = strh.at[44]
         /\ p.tag = Some(s.audio[1].format_tag)
    BY <2>7, <2>8, <2>9 DEF Some, None
  <2> QED BY <2>8, <2>9, <2>12, <2>14, <2>15, <2>16, <2>17, <2>18 DEF ReadsAudio, s
<1> QED BY <1>2, <1>3

\* A stream of another kind has neither picture nor sound.
LEMMA OthersRead ==
  ASSUME NEW strh, NEW strf, NEW r, strh.len \in Nat, strh.len >= 48, strf.len \in Nat,
         strh.at[0] \notin {"vids", "auds"}
  PROVE  LET s == BuildStream(strh, strf, r)
         IN  /\ s.ok /\ s.audio = None /\ DOMAIN s.params = ParamFields
             /\ s.params.media \in {"subtitle", "data"}
             /\ IsParams(s.params) /\ ~TooDeep(s.params) /\ s.params.id # "rawvideo"
<1> DEFINE s == BuildStream(strh, strf, r)
<1>1. CASE strh.at[0] = "txts"
  <2> DEFINE x == ReadExtra(strf, 0, strf.len)
             p == [NoParams EXCEPT !.media = "subtitle", !.id = "avi:txts", !.ext = x]
  <2>1. s = Built(p, "tx", None, None) BY <1>1 DEF BuildStream, BuildTxts
  <2>2. 0 \in Nat /\ 0 <= strf.len OBVIOUS
  <2>3. IsExtra(x) BY <2>2, ReadExtraIs
  <2> HIDE DEF x
  <2>4. /\ DOMAIN p = ParamFields /\ p.media = "subtitle" /\ p.id = "avi:txts" /\ p.ext = x
        /\ p.tag = None /\ p.width = None /\ p.height = None /\ p.channels = None
        /\ p.sample_format = None
    BY NoParamsAre DEF ParamFields
  <2> HIDE DEF p, s
  <2>5. IsParams(p) BY <2>3, <2>4 DEF IsParams, OptionOf
  <2>6. s.ok /\ s.audio = None /\ s.params = p BY <2>1 DEF Built
  <2> QED BY <2>4, <2>5, <2>6 DEF TooDeep, s
<1>2. CASE strh.at[0] # "txts"
  <2> DEFINE p == [NoParams EXCEPT !.id = "avi:other"]
  <2>1. s = Built(p, "xx", None, None) BY <1>2 DEF BuildStream, BuildOther
  <2>2. /\ DOMAIN p = ParamFields /\ p.media = "data" /\ p.id = "avi:other" /\ p.ext = NoExtra
        /\ p.tag = None /\ p.width = None /\ p.height = None /\ p.channels = None
        /\ p.sample_format = None
    BY NoParamsAre DEF ParamFields
  <2> HIDE DEF p, s
  <2>3. IsParams(p) BY <2>2, NoExtraIs DEF IsParams, OptionOf
  <2>4. s.ok /\ s.audio = None /\ s.params = p BY <2>1 DEF Built
  <2> QED BY <2>2, <2>3, <2>4 DEF TooDeep, s
<1> QED BY <1>1, <1>2

StreamFields == {"ok", "params", "suffix", "audio", "picture"}

LEMMA StreamHas ==
  ASSUME NEW strh, NEW strf, NEW r, BuildStream(strh, strf, r).ok
  PROVE  DOMAIN BuildStream(strh, strf, r) = StreamFields
<1>1. \A a, b, c, d : DOMAIN Built(a, b, c, d) = StreamFields BY DEF Built, StreamFields
<1>2. NotBuilt.ok = FALSE BY DEF NotBuilt
<1>3. \A a, b : BuildVids(strh, strf, a, b) = NotBuilt \/ DOMAIN BuildVids(strh, strf, a, b) = StreamFields
  BY <1>1 DEF BuildVids, ReadVideo, NameVideo, BuildVideo
<1>4. \A a, b : BuildAuds(strh, strf, a, b) = NotBuilt \/ DOMAIN BuildAuds(strh, strf, a, b) = StreamFields
  BY <1>1 DEF BuildAuds, ReadAudio
<1>5. DOMAIN BuildTxts(strf) = StreamFields BY <1>1 DEF BuildTxts
<1>6. DOMAIN BuildOther = StreamFields BY <1>1 DEF BuildOther
<1> QED BY <1>2, <1>3, <1>4, <1>5, <1>6 DEF BuildStream

\* A stream of a file is read as it is, but for the picture.
LEMMA FilledIs ==
  ASSUME NEW s, DOMAIN s = StreamFields, s.ok,
         DOMAIN s.params = ParamFields, IsParams(s.params)
  PROVE  /\ Filled(s).ok /\ Filled(s).audio = s.audio /\ Filled(s).picture = s.picture
         /\ IsParams(Filled(s).params) /\ SamePast(Filled(s).params, s.params)
         /\ s.params.media # "video" \/ s.params.pixel_format # None =>
              Filled(s).params = s.params
<1> DEFINE q == FillLayouts(s.params, Chunks(file))
<1>1. Filled(s) = [s EXCEPT !.params = q] BY DEF Filled
<1>2. IsParams(q) /\ SamePast(q, s.params)
      /\ (s.params.media # "video" \/ s.params.pixel_format # None => q = s.params)
  BY FillKeeps
<1> HIDE DEF q
<1>3. /\ Filled(s).ok = s.ok /\ Filled(s).audio = s.audio /\ Filled(s).picture = s.picture
      /\ Filled(s).params = q
  BY <1>1 DEF StreamFields
<1> QED BY <1>2, <1>3

\* The layout of a raw picture on its way out; its rows from the top down.
OutLayout(p) ==
  NewLayout(p.pixel_format[1], HeaderFor(p.pixel_format[1]).rule, p.width[1], p.height[1], TRUE)

IsRaw(p) ==
  /\ p.media = "video" /\ p.id = "rawvideo" /\ p.width # None /\ p.height # None
  /\ p.pixel_format # None /\ p.pixel_format[1] \in WritableFormats

RawReady(p, data) == IsRaw(p) => Ready(OutLayout(p), data)

\* A layout that changes nothing is none.
LEMMA PackedIs ==
  ASSUME NEW e, NEW l, NEW data, e.layout = Relaid(l)
  PROVE  Packed(e, data) = Pack(l, data)
<1>1. CASE IsIdentity(l) BY <1>1 DEF Packed, Pack, Refuses, Relaid
<1>2. CASE ~IsIdentity(l)
  <2>1. e.layout # None /\ e.layout[1] = l BY <1>2 DEF Relaid, Some, None
  <2> QED BY <2>1 DEF Packed
<1> QED BY <1>1, <1>2

LEMMA UnpackedIs ==
  ASSUME NEW s, NEW l, NEW wire, ReadLayout(s.params, s.picture) = Relaid(l)
  PROVE  Unpacked(s, wire) = Unpack(l, wire)
<1>1. (IF s.picture = None THEN None ELSE s.picture) = s.picture OBVIOUS
<1>2. Unpacked(s, wire) = IF Relaid(l) = None THEN wire ELSE Unpack(Relaid(l)[1], wire)
  BY <1>1 DEF Unpacked
<1>3. CASE IsIdentity(l) BY <1>2, <1>3 DEF Unpack, Relaid
<1>4. CASE ~IsIdentity(l) BY <1>2, <1>4 DEF Relaid, Some, None
<1> QED BY <1>3, <1>4

LEMMA UnpackedOther ==
  ASSUME NEW s, NEW wire, s.params.id # "rawvideo"
  PROVE  Unpacked(s, wire) = wire
BY DEF Unpacked, ReadLayout

\* The layout of a raw picture on its way in.
InLayout(strf, raw) ==
  NewLayout(raw.fmt, raw.rule, strf.at[4], Magnitude(strf.at[8]), strf.at[8] < 0)

\* What any file gives.
ReadsFile(s) ==
  /\ s.ok /\ IsParams(s.params) /\ ~TooDeep(s.params)
  /\ Unpacked(s, file.wire) \in Seq(Bytes)
  /\ RawReady(s.params, Unpacked(s, file.wire))

LEMMA RawReads ==
  ASSUME IsFile(file), file.strh.len >= 48, file.strh.at[0] = "vids",
         NEW s, DOMAIN s = StreamFields, ReadsVideo(s, file.strf)
  PROVE  LET q == Filled(s)
             raw == RawOf(file.strf)
         IN  /\ q.params.id = "rawvideo" => raw # NoFormat
             /\ raw # NoFormat =>
                  /\ file.strf.len >= 40 /\ file.strf.at[4] \in Nat /\ file.strf.at[8] \in Int
                  /\ raw.fmt \in WritableFormats /\ raw.rule = HeaderFor(raw.fmt).rule
                  /\ q.params = s.params
                  /\ IsRaw(q.params)
                  /\ Unpacked(q, file.wire) = Unpack(InLayout(file.strf, raw), file.wire)
                  /\ OutLayout(q.params) = TopDown(InLayout(file.strf, raw))
                  /\ Laid(InLayout(file.strf, raw))
<1> DEFINE q == Filled(s)
           strf == file.strf
           raw == RawOf(strf)
           p == s.params
<1>1. /\ s.ok /\ s.audio = None /\ DOMAIN p = ParamFields /\ p.media = "video"
      /\ IsParams(p)
      /\ p.id = "rawvideo" <=> raw # NoFormat
      /\ p.pixel_format = (IF raw = NoFormat THEN None ELSE Some(raw.fmt))
      /\ strf.len >= 40 =>
           /\ p.width = Some(strf.at[4]) /\ p.height = Some(Magnitude(strf.at[8]))
           /\ p.tag = Some(strf.at[16])
           /\ s.picture # None /\ s.picture[1].top_down = (strf.at[8] < 0)
  BY DEF ReadsVideo
<1>2. /\ q.ok /\ q.picture = s.picture /\ SamePast(q.params, p)
      /\ p.pixel_format # None => q.params = p
  BY <1>1, FilledIs
<1> HIDE DEF q
<1>3. q.params.id = "rawvideo" => raw # NoFormat BY <1>1, <1>2 DEF SamePast
<1>4. ASSUME raw # NoFormat
      PROVE  /\ strf.len >= 40 /\ strf.at[4] \in Nat /\ strf.at[8] \in Int
             /\ raw.fmt \in WritableFormats /\ raw.rule = HeaderFor(raw.fmt).rule
             /\ q.params = p
             /\ IsRaw(q.params)
             /\ Unpacked(q, file.wire) = Unpack(InLayout(strf, raw), file.wire)
             /\ OutLayout(q.params) = TopDown(InLayout(strf, raw))
             /\ Laid(InLayout(strf, raw))
  <2>1. strf.len >= 40 BY <1>4 DEF RawOf
  <2>2. strf.at[4] \in Nat /\ strf.at[8] \in Int BY <2>1 DEF IsFile
  <2>3. /\ raw.fmt \in WritableFormats /\ raw.rule \in RowRules
        /\ raw.rule = HeaderFor(raw.fmt).rule /\ raw.rule = RowRuleOf(Some(strf.at[16]))
    <3> DEFINE m == BitfieldsOf(ParseBitmapInfoHeader(strf))
    <3>1. raw = PixelFormatFor(strf.at[16], strf.at[14], m) BY <2>1 DEF RawOf
    <3> HIDE DEF m, raw
    <3>2. PixelFormatFor(strf.at[16], strf.at[14], m) # NoFormat BY <1>4, <3>1
    <3> QED BY <3>1, <3>2, RawIs
  <2> HIDE DEF raw, strf
  <2>4. p.pixel_format = Some(raw.fmt) /\ p.pixel_format # None /\ p.pixel_format[1] = raw.fmt
        /\ p.id = "rawvideo"
    BY <1>1, <1>4 DEF Some, None
  <2>5. q.params = p BY <1>2, <2>4
  <2> PICK td \in BOOLEAN : td = (strf.at[8] < 0)
    <3>1. CASE strf.at[8] < 0
      <4> WITNESS TRUE \in BOOLEAN
      <4> QED BY <3>1
    <3>2. CASE ~(strf.at[8] < 0)
      <4> WITNESS FALSE \in BOOLEAN
      <4>1. (strf.at[8] < 0) = FALSE BY <3>2
      <4> QED BY <4>1
    <3> QED BY <3>1, <3>2
  <2> DEFINE h == Magnitude(strf.at[8])
             l == NewLayout(raw.fmt, raw.rule, strf.at[4], h, td)
  <2>6. h \in Nat BY <2>2 DEF Magnitude
  <2>7. td \in BOOLEAN /\ td = (strf.at[8] < 0) OBVIOUS
  <2>8. p.width # None /\ p.width[1] = strf.at[4] /\ p.height # None /\ p.height[1] = h
    <3>1. p.width = Some(strf.at[4]) /\ p.height = Some(h) BY <1>1, <2>1
    <3> HIDE DEF p, h
    <3> QED BY <3>1 DEF Some, None
  <2>9. s.picture # None /\ s.picture[1].top_down = td BY <1>1, <2>1, <2>7
  <2>10. p.tag = Some(strf.at[16]) BY <1>1, <2>1
  <2> HIDE DEF h, p
  <2>11. IsRaw(q.params) BY <1>1, <2>3, <2>4, <2>5, <2>8 DEF IsRaw
  <2>12. Laid(l) /\ TopDown(l) = NewLayout(raw.fmt, raw.rule, strf.at[4], h, TRUE)
    <3> DEFINE f == raw.fmt
               ru == raw.rule
               w == strf.at[4]
    <3>1. f \in WritableFormats /\ ru \in RowRules /\ w \in Nat BY <2>2, <2>3
    <3> HIDE DEF f, ru, w
    <3> DEFINE n == NewLayout(f, ru, w, h, td)
               m == NewLayout(f, ru, w, h, TRUE)
    <3>2. td \in BOOLEAN BY <2>7
    <3>3. Laid(n) /\ TopDown(n) = m
      BY ONLY <2>6, <3>1, <3>2, NewLayoutLaid
    <3> QED BY <3>3 DEF f, ru, w
  <2>13. ReadLayout(q.params, q.picture) = Relaid(l)
    <3> DEFINE up == q.picture # None /\ q.picture[1].top_down
    <3>1. ReadLayout(q.params, q.picture)
            = Relaid(NewLayout(p.pixel_format[1], RowRuleOf(p.tag), p.width[1], p.height[1], up))
      BY <2>4, <2>5 DEF ReadLayout
    <3>2. up = td BY <1>2, <2>9
    <3> HIDE DEF up
    <3> QED BY <2>3, <2>4, <2>8, <2>10, <3>1, <3>2
  <2>14. OutLayout(q.params) = TopDown(l) BY <2>3, <2>4, <2>5, <2>8, <2>12 DEF OutLayout
  <2> HIDE DEF l
  <2>15. Unpacked(q, file.wire) = Unpack(l, file.wire) BY <2>13, UnpackedIs
  <2>16. InLayout(strf, raw) = l BY <2>7 DEF InLayout, l, h
  <2> QED BY <2>1, <2>2, <2>3, <2>5, <2>11, <2>12, <2>14, <2>15, <2>16
<1> QED BY <1>3, <1>4 DEF q

LEMMA Reads ==
  ASSUME IsFile(file), BuildStream(file.strh, file.strf, resolver).ok
  PROVE  ReadsFile(Filled(BuildStream(file.strh, file.strf, resolver)))
<1> DEFINE s == BuildStream(file.strh, file.strf, resolver)
           q == Filled(s)
           strh == file.strh
           strf == file.strf
<1>1. /\ strh.len \in Nat /\ strf.len \in Nat /\ file.wire \in Seq(Bytes)
      /\ strh.len >= 48 /\ strh.at[0] = "vids" /\ strf.len >= 40 =>
           strf.at[4] \in Nat /\ strf.at[8] \in Int
      /\ strh.len >= 48 /\ strh.at[0] = "auds" /\ strf.len >= 14 =>
           strf.at[2] \in Nat /\ (strf.len >= 18 => strf.at[16] \in Nat)
  BY DEF IsFile
<1>2. strh.len >= 48
  <2>1. s.ok OBVIOUS
  <2>2. CASE strh.len < 48 BY <2>1, <2>2 DEF BuildStream, NotBuilt
  <2> QED BY <1>1, <2>2
<1>3. DOMAIN s = StreamFields /\ s.ok BY StreamHas
<1>4. ASSUME DOMAIN s.params = ParamFields, IsParams(s.params), ~TooDeep(s.params),
             s.params.id # "rawvideo"
      PROVE  ReadsFile(q)
  <2> HIDE DEF s
  <2>1. q.ok /\ IsParams(q.params) /\ SamePast(q.params, s.params) BY <1>3, <1>4, FilledIs
  <2> HIDE DEF q
  <2>2. q.params.id # "rawvideo" BY <1>4, <2>1 DEF SamePast
  <2>3. ~TooDeep(q.params) BY <1>4, <2>1 DEF SamePast, TooDeep
  <2>4. Unpacked(q, file.wire) = file.wire BY <2>2, UnpackedOther
  <2> QED BY <1>1, <2>1, <2>2, <2>3, <2>4 DEF ReadsFile, RawReady, IsRaw
<1>5. CASE strh.at[0] = "vids"
  <2>1. ReadsVideo(s, strf) BY <1>1, <1>2, <1>5, VideoReads
  <2>2. /\ DOMAIN s.params = ParamFields /\ IsParams(s.params) /\ ~TooDeep(s.params)
        /\ s.params.id = "rawvideo" <=> RawOf(strf) # NoFormat
    BY <2>1 DEF ReadsVideo
  <2>3. CASE RawOf(strf) = NoFormat BY <1>4, <2>2, <2>3
  <2>4. CASE RawOf(strf) # NoFormat
    <3> DEFINE l == InLayout(strf, RawOf(strf))
    <3> HIDE DEF s
    <3>1. /\ q.params = s.params /\ IsRaw(q.params) /\ Laid(l)
          /\ Unpacked(q, file.wire) = Unpack(l, file.wire) /\ OutLayout(q.params) = TopDown(l)
      BY <1>2, <1>3, <1>5, <2>1, <2>4, RawReads
    <3>2. q.ok BY <1>3, <2>2, FilledIs
    <3> HIDE DEF q, l
    <3>3. Unpack(l, file.wire) \in Seq(Bytes) /\ Ready(TopDown(l), Unpack(l, file.wire))
      BY <1>1, <3>1, UnpackReadies
    <3> QED BY <2>2, <3>1, <3>2, <3>3 DEF ReadsFile, RawReady, q, s
  <2> QED BY <2>3, <2>4
<1>6. CASE strh.at[0] = "auds"
  <2>1. ReadsAudio(s, strh, strf, resolver) BY <1>1, <1>2, <1>6, AudioReads
  <2> QED BY <1>4, <2>1 DEF ReadsAudio
<1>7. CASE strh.at[0] \notin {"vids", "auds"}
  <2>1. DOMAIN s.params = ParamFields /\ IsParams(s.params) /\ ~TooDeep(s.params)
        /\ s.params.id # "rawvideo"
    BY <1>1, <1>2, <1>7, OthersRead
  <2> QED BY <1>4, <2>1
<1> QED BY <1>5, <1>6, <1>7

-----------------------------------------------------------------------------
(* What is read of a file of this crate                                    *)

TextWritten(e) == e.strh_type = "txts" /\ e.layout = None /\ e.strf.len \in Nat

Written(e, p) ==
  \/ p.media = "video" /\ VideoWritten(e, p)
  \/ p.media = "audio" /\ AudioWritten(e, p)
  \/ p.media = "subtitle" /\ TextWritten(e)

LEMMA AllWritten ==
  ASSUME NEW p, IsParams(p), NEW c, IsChoices(c), BuildStrf(p, c).ok
  PROVE  Written(BuildStrf(p, c), p)
<1>1. p.media \in {"video", "audio", "subtitle", "data"} BY DEF IsParams
<1>2. CASE p.media = "video" BY <1>2, VideoIsWritten DEF Written
<1>3. CASE p.media = "audio" BY <1>3, AudioIsWritten DEF Written
<1>4. CASE p.media = "subtitle"
  <2> DEFINE b == Body(ExtraBytes(p.ext), ExtraFields(p.ext, 0))
             r == <<Largest(c.time_base[1], 1), Largest(c.time_base[2], 1)>>
             e == TextEntry(p, c)
  <2>1. e = Entry("tx", None, NoFourcc, b, "txts", 0, r) BY DEF TextEntry
  <2>2. b.len = ExtraBytes(p.ext) BY DEF Body
  <2> HIDE DEF b, r, e
  <2>3. e.strf = b /\ e.strh_type = "txts" /\ e.layout = None BY <2>1, EntryIs
  <2>4. ExtraBytes(p.ext) \in Nat BY ExtraSize DEF IsParams
  <2>5. BuildStrf(p, c) = e BY <1>4 DEF BuildStrf, e
  <2> QED BY <1>4, <2>2, <2>3, <2>4, <2>5 DEF Written, TextWritten
<1>5. CASE p.media = "data" BY <1>5 DEF BuildStrf, NotPackaged
<1> QED BY <1>1, <1>2, <1>3, <1>4, <1>5

\* A file of this crate is what it was made from.
MadeFrom(f, e, p, data) ==
  /\ f.strh = WriteStrh(e, p, NoOverrides) /\ f.strf = e.strf
  /\ f.wire = Packed(e, data)

Handed(p, c, data) ==
  /\ IsParams(p) /\ IsChoices(c)
  /\ data \in Seq(Bytes) /\ RawReady(p, data)

Carries(f, p, c, data) ==
  /\ BuildStrf(p, c).ok /\ MadeFrom(f, BuildStrf(p, c), p, data)
  /\ Handed(p, c, data)

FromSent == Carries(file, sent.params, sent.choices, sent.packet)

\* The rows of a raw picture as they are written.
LEMMA RawOut ==
  ASSUME NEW e, NEW p, IsParams(p), p.media = "video", p.id = "rawvideo", VideoWritten(e, p)
  PROVE  LET l == OutLayout(p)
         IN  /\ IsRaw(p) /\ Laid(l) /\ l.rows = p.height[1]
             /\ \A data : Packed(e, data) = Pack(l, data)
<1> DEFINE fmt == p.pixel_format[1]
           l == OutLayout(p)
<1>1. /\ p.pixel_format # None /\ fmt \in WritableFormats /\ e.layout = Relaid(l)
      /\ p.width = Some(p.width[1]) /\ p.width[1] \in Nat
      /\ p.height = Some(p.height[1]) /\ p.height[1] \in Nat
  BY DEF VideoWritten, RawWritten, OutLayout
<1>2. HeaderFor(fmt).rule \in RowRules
  <2>1. fmt \in {"Rgb555Le", "Rgb565Le", "Bgr555Le", "Bgr565Le", "Bgrx", "Rgbx", "Xrgb", "Xbgr",
                 "Bgr24", "Rgba"}
    BY <1>1 DEF WritableFormats, DibFormats, Masks16, Masks32
  <2> QED BY <2>1 DEF HeaderFor, Header, RowRules
<1>3. Laid(l) /\ l.rows = p.height[1]
  <2> DEFINE rule == HeaderFor(fmt).rule
             w == p.width[1]
             h == p.height[1]
  <2>1. OutLayout(p) = NewLayout(fmt, rule, w, h, TRUE) BY DEF OutLayout
  <2>2. fmt \in WritableFormats /\ rule \in RowRules /\ w \in Nat /\ h \in Nat /\ TRUE \in BOOLEAN
    BY <1>1, <1>2
  <2> HIDE DEF fmt, rule, w, h, l
  <2>3. Laid(NewLayout(fmt, rule, w, h, TRUE)) /\ NewLayout(fmt, rule, w, h, TRUE).rows = h
    BY ONLY <2>2, NewLayoutLaid
  <2> QED BY <2>1, <2>3 DEF l, h
<1>4. IsRaw(p) BY <1>1 DEF IsRaw, Some, None
<1> HIDE DEF l
<1>5. \A data : Packed(e, data) = Pack(l, data) BY <1>1, PackedIs
<1> QED BY <1>3, <1>4, <1>5 DEF l

LEMMA NotRawOut ==
  ASSUME NEW e, e.layout = None, NEW data
  PROVE  Packed(e, data) = data
BY DEF Packed

LEMMA OwnIsFile ==
  ASSUME NEW f, NEW p, NEW c, NEW data, Carries(f, p, c, data)
  PROVE  IsFile(f) /\ f.strh.len = 56
         /\ f.strh.at[0] = BuildStrf(p, c).strh_type
         /\ f.strh.at[44] = BuildStrf(p, c).sample_size
<1> DEFINE e == BuildStrf(p, c)
<1>1. e.ok /\ MadeFrom(f, e, p, data) /\ Handed(p, c, data) BY DEF Carries
<1>2. Written(e, p) BY <1>1, AllWritten DEF Handed
<1> HIDE DEF e
<1>3. f.strh.len = 56 /\ f.strh.at[0] = e.strh_type /\ f.strh.at[44] = e.sample_size
  BY <1>1, StrhSays DEF MadeFrom
<1>4. CASE p.media = "video"
  <2>1. VideoWritten(e, p) BY <1>2, <1>4 DEF Written
  <2>2. e.strh_type = "vids" /\ p.width[1] \in Nat /\ p.height[1] \in Nat BY <2>1 DEF VideoWritten
  <2>3. e.strf.len \in Nat /\ e.strf.at[4] \in Nat /\ e.strf.at[8] \in Int
    <3>1. CASE p.id = "rawvideo"
      <4> DEFINE hd == HeaderFor(p.pixel_format[1])
                 h == IF hd.rule = "Dib" THEN -p.height[1] ELSE p.height[1]
      <4>1. SaysPicture(e.strf, p.width[1], h, hd.compression, hd.bit_count)
        BY <2>1, <3>1 DEF VideoWritten, RawWritten
      <4>2. h \in Int BY <2>2
      <4> HIDE DEF h, hd
      <4> QED BY <2>2, <4>1, <4>2 DEF SaysPicture
    <3>2. CASE p.id # "rawvideo"
      BY <2>1, <2>2, <3>2 DEF VideoWritten, TaggedWritten, SaysPicture
    <3> QED BY <3>1, <3>2
  <2>4. Packed(e, data) \in Seq(Bytes)
    <3>1. CASE p.id = "rawvideo"
      <4> DEFINE l == OutLayout(p)
      <4>1. IsRaw(p) /\ Laid(l) /\ Packed(e, data) = Pack(l, data)
        BY <1>1, <1>4, <2>1, <3>1, RawOut DEF Handed
      <4>2. Ready(l, data) /\ data \in Seq(Bytes)
        BY <1>1, <4>1 DEF Handed, RawReady
      <4> HIDE DEF l
      <4> QED BY <4>1, <4>2, ReadyReturns
    <3>2. CASE p.id # "rawvideo"
      <4>1. e.layout = None BY <2>1, <3>2 DEF VideoWritten, TaggedWritten
      <4> QED BY <1>1, <4>1, NotRawOut DEF Handed
    <3> QED BY <3>1, <3>2
  <2> QED BY <1>1, <1>3, <2>2, <2>3, <2>4 DEF IsFile, MadeFrom, e
<1>5. CASE p.media = "audio"
  <2>1. AudioWritten(e, p) BY <1>2, <1>5 DEF Written
  <2>2. /\ e.strh_type = "auds" /\ e.layout = None /\ e.strf.len \in Nat
        /\ e.strf.at[2] \in Nat /\ e.strf.at[16] \in Nat
    BY <2>1 DEF AudioWritten
  <2>3. Packed(e, data) \in Seq(Bytes) BY <1>1, <2>2, NotRawOut DEF Handed
  <2> QED BY <1>1, <1>3, <2>2, <2>3 DEF IsFile, MadeFrom, e
<1>6. CASE p.media = "subtitle"
  <2>1. e.strh_type = "txts" /\ e.layout = None /\ e.strf.len \in Nat
    BY <1>2, <1>6 DEF Written, TextWritten
  <2>2. Packed(e, data) \in Seq(Bytes) BY <1>1, <2>1, NotRawOut DEF Handed
  <2> QED BY <1>1, <1>3, <2>1, <2>2 DEF IsFile, MadeFrom, e
<1> QED BY <1>2, <1>4, <1>5, <1>6 DEF Written

\* The masks of a raw header are read as they were written.
LEMMA MasksReadBack ==
  ASSUME NEW fmt \in WritableFormats, NEW strf,
         strf.len = 40 + 4 * Len(HeaderFor(fmt).masks),
         strf.at[16] = HeaderFor(fmt).compression,
         \A k \in DOMAIN HeaderFor(fmt).masks : strf.at[40 + 4 * (k - 1)] = HeaderFor(fmt).masks[k]
  PROVE  strf.len >= 40 /\ BitfieldsOf(ParseBitmapInfoHeader(strf)) = HeaderFor(fmt).masks
<1> DEFINE b == ParseBitmapInfoHeader(strf)
           m == HeaderFor(fmt).masks
<1>1. \/ HeaderFor(fmt).compression # "BI_BITFIELDS" /\ m = <<>>
      \/ HeaderFor(fmt).compression = "BI_BITFIELDS" /\ \E x, y, z : m = <<x, y, z>>
  <2>1. fmt \in {"Rgb555Le", "Rgb565Le", "Bgr555Le", "Bgr565Le", "Bgrx", "Rgbx", "Xrgb", "Xbgr",
                 "Bgr24", "Rgba"}
    BY DEF WritableFormats, DibFormats, Masks16, Masks32
  <2>2. CASE fmt \in {"Rgb565Le", "Bgr555Le", "Bgr565Le"}
    <3>1. HeaderFor(fmt) = Header("BI_BITFIELDS", 16, Masks16[fmt], "Dib")
      BY <2>2 DEF HeaderFor
    <3>2. \E x, y, z : Masks16[fmt] = <<x, y, z>> BY <2>2 DEF Masks16
    <3> QED BY <3>1, <3>2 DEF Header
  <2>3. CASE fmt \in {"Rgbx", "Xrgb", "Xbgr"}
    <3>1. HeaderFor(fmt) = Header("BI_BITFIELDS", 32, Masks32[fmt], "Dib")
      BY <2>3 DEF HeaderFor
    <3>2. \E x, y, z : Masks32[fmt] = <<x, y, z>> BY <2>3 DEF Masks32
    <3> QED BY <3>1, <3>2 DEF Header
  <2>4. CASE fmt \in {"Rgb555Le", "Bgr24", "Bgrx", "Rgba"}
    BY <2>4 DEF HeaderFor, Header, NoMasks
  <2> QED BY <2>1, <2>2, <2>3, <2>4
<1> HIDE DEF m
<1>2. CASE HeaderFor(fmt).compression # "BI_BITFIELDS" /\ m = <<>>
  <2>1. Len(m) = 0 BY <1>2
  <2>2. strf.len = 40 BY <2>1 DEF m
  <2>3. b.ok /\ b.compression = strf.at[16] BY <2>2 DEF ParseBitmapInfoHeader
  <2> HIDE DEF b
  <2>4. BitfieldsOf(b) = m BY <1>2, <2>3 DEF BitfieldsOf, NoMasks
  <2> QED BY <2>2, <2>4 DEF b, m
<1>3. CASE HeaderFor(fmt).compression = "BI_BITFIELDS" /\ \E x, y, z : m = <<x, y, z>>
  <2>1. PICK x, y, z : m = <<x, y, z>> BY <1>3
  <2>2. Len(m) = 3 /\ DOMAIN m = 1 .. 3 /\ m[1] = x /\ m[2] = y /\ m[3] = z BY <2>1
  <2>3. strf.len = 52 BY <2>2 DEF m
  <2>4. strf.at[40] = x /\ strf.at[44] = y /\ strf.at[48] = z
    <3>1. \A k \in 1 .. 3 : strf.at[40 + 4 * (k - 1)] = m[k] BY <2>2 DEF m
    <3> HIDE DEF m
    <3>2. strf.at[40 + 4 * (1 - 1)] = m[1] BY <3>1
    <3>3. strf.at[40 + 4 * (2 - 1)] = m[2] BY <3>1
    <3>4. strf.at[40 + 4 * (3 - 1)] = m[3] BY <3>1
    <3> QED BY <2>2, <3>2, <3>3, <3>4
  <2> DEFINE to == strf.len
             n == (to - 40) \div 4
             t == (to - 40) % 4
             e == ReadExtra(strf, 40, to)
  <2>5. b.ok /\ b.compression = strf.at[16] /\ b.extra = e BY <2>3 DEF ParseBitmapInfoHeader
  <2>6. /\ IsExtra(e) /\ Len(e.quads) = 3 /\ e.tail = 0 /\ DOMAIN e.quads = 1 .. 3
        /\ e.quads[1] = x /\ e.quads[2] = y /\ e.quads[3] = z
    <3>1. 40 \in Nat /\ to \in Nat /\ 40 <= to /\ to - 40 = 12 BY <2>3
    <3> HIDE DEF to
    <3>2. n = 3 /\ t = 0
      <4>1. 12 \div 4 = 3 /\ 12 % 4 = 0 OBVIOUS
      <4> QED BY <3>1, <4>1
    <3>3. /\ IsExtra(e) /\ Len(e.quads) = n /\ e.tail = t /\ DOMAIN e.quads = 1 .. n
          /\ \A k \in DOMAIN e.quads : e.quads[k] = strf.at[40 + 4 * (k - 1)]
      <4> DEFINE from == 40
      <4>1. from \in Nat /\ to \in Nat /\ from <= to BY <3>1
      <4>2. from = 40 OBVIOUS
      <4> HIDE DEF from
      <4> DEFINE f == ReadExtra(strf, from, to)
      <4>3. /\ IsExtra(f) /\ Len(f.quads) = (to - from) \div 4 /\ f.tail = (to - from) % 4
            /\ DOMAIN f.quads = 1 .. (to - from) \div 4
            /\ \A k \in DOMAIN f.quads : f.quads[k] = strf.at[from + 4 * (k - 1)]
        BY ONLY <4>1, ReadExtraIs
      <4> QED BY <4>2, <4>3
    <3> HIDE DEF n, t
    <3> HIDE DEF e
    <3>4. \A k \in 1 .. 3 : e.quads[k] = strf.at[40 + 4 * (k - 1)] BY <3>2, <3>3
    <3>5. e.quads[1] = strf.at[40 + 4 * (1 - 1)] BY <3>4
    <3>6. e.quads[2] = strf.at[40 + 4 * (2 - 1)] BY <3>4
    <3>7. e.quads[3] = strf.at[40 + 4 * (3 - 1)] BY <3>4
    <3> QED BY <2>4, <3>2, <3>3, <3>5, <3>6, <3>7
  <2> HIDE DEF e, b
  <2>7. ExtraBytes(e) = 12 BY <2>6 DEF ExtraBytes
  <2>8. SubSeq(e.quads, 1, 3) = m
    <3> DEFINE q == e.quads
    <3>1. q \in Seq(Range(q)) /\ Len(q) = 3 BY <2>6 DEF IsExtra, IsSeq
    <3>2. SubSeq(q, 1, 3) = [i \in 1 .. 3 |-> q[i]]
      <4> HIDE DEF q
      <4> QED BY <3>1
    <3>3. [i \in 1 .. 3 |-> q[i]] = <<x, y, z>> BY <2>6
    <3> QED BY <2>1, <3>2, <3>3
  <2>9. BitfieldsOf(b) = m
    BY <1>3, <2>5, <2>7, <2>8 DEF BitfieldsOf, ParseBitfieldsMasks
  <2>10. strf.len >= 40 BY <2>3
  <2> QED BY <2>9, <2>10 DEF b, m
<1> QED BY <1>1, <1>2, <1>3

\* A raw picture of this crate is read as the format it was written as.
LEMMA RawReadsBack ==
  ASSUME NEW e, NEW p, IsParams(p), p.id = "rawvideo", VideoWritten(e, p)
  PROVE  LET fmt == p.pixel_format[1]
             rule == HeaderFor(fmt).rule
         IN  /\ RawOf(e.strf) = Found(fmt, rule) /\ e.strf.len >= 40
             /\ e.strf.at[4] = p.width[1]
             /\ e.strf.at[8] = IF rule = "Dib" THEN -p.height[1] ELSE p.height[1]
<1> DEFINE fmt == p.pixel_format[1]
           h == HeaderFor(fmt)
           height == IF h.rule = "Dib" THEN -p.height[1] ELSE p.height[1]
           strf == e.strf
<1>1. /\ fmt \in WritableFormats
      /\ SaysPicture(strf, p.width[1], height, h.compression, h.bit_count)
      /\ strf.len = 40 + 4 * Len(h.masks)
      /\ \A k \in DOMAIN h.masks : strf.at[40 + 4 * (k - 1)] = h.masks[k]
  BY DEF VideoWritten, RawWritten
<1> HIDE DEF height
<1>2. /\ strf.at[4] = p.width[1] /\ strf.at[8] = height /\ strf.at[16] = h.compression
      /\ strf.at[14] = h.bit_count
  BY <1>1 DEF SaysPicture
<1> HIDE DEF fmt, strf
<1>3. strf.len >= 40 /\ BitfieldsOf(ParseBitmapInfoHeader(strf)) = h.masks
  BY <1>1, <1>2, MasksReadBack
<1>4. PixelFormatFor(h.compression, h.bit_count, h.masks) = Found(fmt, h.rule)
  BY <1>1, FormatReadsBack
<1> HIDE DEF h
<1>5. RawOf(strf) = Found(fmt, h.rule) BY <1>2, <1>3, <1>4 DEF RawOf
<1> QED BY <1>2, <1>3, <1>5 DEF height, h, fmt, strf

\* The packet of a file of this crate comes back, unless its caller handed over
\* rows as they stand on the wire.
LEMMA RawReturns ==
  ASSUME FromSent, BuildStream(file.strh, file.strf, resolver).ok,
         sent.params.media = "video", sent.params.id = "rawvideo"
  PROVE  Unpacked(Filled(BuildStream(file.strh, file.strf, resolver)), file.wire) = sent.packet
<1> DEFINE e == BuildStrf(sent.params, sent.choices)
           p == sent.params
           s == BuildStream(file.strh, file.strf, resolver)
           fmt == p.pixel_format[1]
           rule == HeaderFor(fmt).rule
           w == p.width[1]
           h == p.height[1]
           l == OutLayout(p)
           m == InLayout(file.strf, RawOf(file.strf))
<1>1. e.ok /\ MadeFrom(file, e, p, sent.packet) /\ Handed(p, sent.choices, sent.packet)
  BY DEF FromSent, Carries
<1>2. IsParams(p) BY <1>1 DEF Handed
<1>3. VideoWritten(e, p) BY <1>1, AllWritten DEF Handed, Written
<1>4. IsFile(file) /\ file.strh.len = 56 /\ file.strh.at[0] = "vids"
  BY <1>3, OwnIsFile DEF VideoWritten, FromSent
<1> HIDE DEF e
<1>5. file.strf = e.strf /\ file.wire = Packed(e, sent.packet) BY <1>1 DEF MadeFrom
<1>6. /\ w \in Nat /\ h \in Nat /\ fmt \in WritableFormats BY <1>3 DEF VideoWritten, RawWritten
<1>7. /\ RawOf(file.strf) = Found(fmt, rule) /\ file.strf.at[4] = w
      /\ file.strf.at[8] = IF rule = "Dib" THEN -h ELSE h
  BY <1>2, <1>3, <1>5, RawReadsBack
<1>8. IsRaw(p) /\ Laid(l) /\ l.rows = h /\ file.wire = Pack(l, sent.packet)
  BY <1>2, <1>3, <1>5, RawOut
<1>9. Ready(l, sent.packet) /\ sent.packet \in Seq(Bytes) BY <1>1, <1>8 DEF Handed, RawReady
<1>10. ReadsVideo(s, file.strf)
  <2>1. /\ file.strh.len \in Nat /\ file.strf.len \in Nat /\ file.strh.len >= 48
        /\ file.strf.len >= 40 => file.strf.at[4] \in Nat /\ file.strf.at[8] \in Int
    BY <1>4 DEF IsFile
  <2> QED BY <1>4, <2>1, VideoReads
<1>11. Unpacked(Filled(s), file.wire) = Unpack(m, file.wire) /\ Laid(m)
  <2>1. RawOf(file.strf) # NoFormat
    <3>1. fmt # "None"
      BY <1>6 DEF WritableFormats, DibFormats, Masks16, Masks32
    <3> QED BY <1>7, <3>1 DEF Found, NoFormat
  <2>2. file.strh.len >= 48 BY <1>4
  <2>3. DOMAIN s = StreamFields BY StreamHas
  <2> HIDE DEF s, m
  <2> QED BY <1>4, <1>10, <2>1, <2>2, <2>3, RawReads DEF m
<1>12. m = NewLayout(fmt, rule, w, h, file.strf.at[8] < 0)
  <2>1. RawOf(file.strf).fmt = fmt /\ RawOf(file.strf).rule = rule BY <1>7 DEF Found
  <2>2. Magnitude(file.strf.at[8]) = h BY <1>6, <1>7 DEF Magnitude
  <2> HIDE DEF fmt, rule, w, h
  <2> QED BY <1>7, <2>1, <2>2 DEF InLayout
<1>13. m.rows = l.rows BY <1>8, <1>12 DEF NewLayout, Layout
<1>14. l.rows # 0 => m = l
  <2> SUFFICES ASSUME h # 0 PROVE m = l BY <1>8
  <2>1. l = NewLayout(fmt, rule, w, h, TRUE) BY DEF OutLayout
  <2>2. CASE rule = "Dib"
    <3>1. file.strf.at[8] < 0 BY <1>6, <1>7, <2>2
    <3>2. (file.strf.at[8] < 0) = TRUE BY <3>1
    <3> HIDE DEF m, l, rule, fmt, w, h
    <3> QED BY <1>12, <2>1, <3>2
  <2>3. CASE rule # "Dib"
    <3> HIDE DEF m, l, rule, fmt, w, h
    <3> QED BY <1>12, <2>1, <2>3 DEF NewLayout
  <2> QED BY <2>2, <2>3
<1> HIDE DEF m, l, s
<1>15. Unpack(m, Pack(l, sent.packet)) = sent.packet
  BY <1>8, <1>9, <1>11, <1>13, <1>14, ReadyReturns
<1> QED BY <1>8, <1>11, <1>15 DEF s

LEMMA OtherReturns ==
  ASSUME FromSent, BuildStream(file.strh, file.strf, resolver).ok,
         ~(sent.params.media = "video" /\ sent.params.id = "rawvideo"), ~BareDib
  PROVE  Unpacked(Filled(BuildStream(file.strh, file.strf, resolver)), file.wire) = sent.packet
<1> DEFINE e == BuildStrf(sent.params, sent.choices)
           p == sent.params
           s == BuildStream(file.strh, file.strf, resolver)
           q == Filled(s)
<1>1. e.ok /\ MadeFrom(file, e, p, sent.packet) /\ Handed(p, sent.choices, sent.packet)
  BY DEF FromSent, Carries
<1>2. Written(e, p) BY <1>1, AllWritten DEF Handed
<1>3. /\ IsFile(file) /\ file.strh.len = 56 /\ file.strh.at[0] = e.strh_type
  BY OwnIsFile DEF FromSent
<1> HIDE DEF e
<1>4. file.strf = e.strf /\ file.wire = Packed(e, sent.packet) BY <1>1 DEF MadeFrom
<1>5. /\ file.strh.len \in Nat /\ file.strf.len \in Nat /\ file.strh.len >= 48
      /\ file.strh.at[0] = "vids" /\ file.strf.len >= 40 =>
           file.strf.at[4] \in Nat /\ file.strf.at[8] \in Int
      /\ file.strh.at[0] = "auds" /\ file.strf.len >= 14 =>
           file.strf.at[2] \in Nat /\ (file.strf.len >= 18 => file.strf.at[16] \in Nat)
  BY <1>3 DEF IsFile
<1>6. DOMAIN s = StreamFields /\ s.ok BY StreamHas
<1>7. ASSUME DOMAIN s.params = ParamFields, IsParams(s.params), s.params.id # "rawvideo",
             e.layout = None
      PROVE  Unpacked(q, file.wire) = sent.packet
  <2> HIDE DEF s
  <2>1. SamePast(q.params, s.params) BY <1>6, <1>7, FilledIs
  <2> HIDE DEF q
  <2>2. q.params.id # "rawvideo" BY <1>7, <2>1 DEF SamePast
  <2>3. Unpacked(q, file.wire) = file.wire BY <2>2, UnpackedOther
  <2> QED BY <1>4, <1>7, <2>3, NotRawOut
<1>8. CASE p.media = "video"
  <2>1. VideoWritten(e, p) /\ TaggedWritten(e, p) BY <1>2, <1>8 DEF Written, VideoWritten
  <2>2. file.strf.at[16] # "BI_RGB" BY <1>8 DEF BareDib
  <2>3. file.strf.at[14] = 24 /\ e.layout = None /\ e.strh_type = "vids"
    BY <1>4, <2>1, <2>2 DEF TaggedWritten, VideoWritten
  <2>4. RawOf(file.strf) = NoFormat
    <3>1. \A c, m : c # "BI_RGB" => PixelFormatFor(c, 24, m) = NoFormat BY DEF PixelFormatFor
    <3> QED BY <2>2, <2>3, <3>1 DEF RawOf
  <2>5. ReadsVideo(s, file.strf) BY <1>3, <1>5, <2>3, VideoReads
  <2>6. DOMAIN s.params = ParamFields /\ IsParams(s.params) /\ s.params.id # "rawvideo"
    BY <2>4, <2>5 DEF ReadsVideo
  <2> QED BY <1>7, <2>3, <2>6
<1>9. CASE p.media = "audio"
  <2>1. e.layout = None /\ e.strh_type = "auds" BY <1>2, <1>9 DEF Written, AudioWritten
  <2>2. ReadsAudio(s, file.strh, file.strf, resolver) BY <1>3, <1>5, <2>1, AudioReads
  <2>3. DOMAIN s.params = ParamFields /\ IsParams(s.params) /\ s.params.id # "rawvideo"
    BY <2>2 DEF ReadsAudio
  <2> QED BY <1>7, <2>1, <2>3
<1>10. CASE p.media = "subtitle"
  <2>1. e.layout = None /\ e.strh_type = "txts" BY <1>2, <1>10 DEF Written, TextWritten
  <2>2. DOMAIN s.params = ParamFields /\ IsParams(s.params) /\ s.params.id # "rawvideo"
    BY <1>3, <1>5, <2>1, OthersRead
  <2> QED BY <1>7, <2>1, <2>2
<1> QED BY <1>2, <1>8, <1>9, <1>10 DEF Written

-----------------------------------------------------------------------------
(* The inductive invariant                                                 *)

\* What is handed over is of its kind, a file can be read, and one of this
\* crate was made from what was sent and gives it back.
Faithful ==
  /\ phase \in {"caller", "file", "read", "refused", "unreadable"}
  /\ generation \in 0..MaxGeneration
  /\ phase = "caller" => generation = 0
  /\ Handed(params, choices, packet)
  /\ phase = "file" => IsFile(file)
  /\ phase \in {"file", "read"} /\ generation > 0 => FromSent
  /\ PacketsSurvive

LEMMA PayloadIs ==
  ASSUME NEW n \in Nat
  PROVE  Payload(n) \in Seq(Bytes) /\ Len(Payload(n)) = n
<1>1. \A i \in 1 .. n : i % 256 \in Bytes BY DEF Bytes
<1>2. Payload(n) \in [1 .. n -> Bytes] BY <1>1 DEF Payload
<1> QED BY <1>2, FunctionIsSeq

\* What a caller hands over.
LEMMA CallersHand ==
  ASSUME NEW c \in Callers
  PROVE  Handed(c.params, c.choices, c.frame \o PacketFor(c.params))
<1> DEFINE p == c.params
           f == p.pixel_format[1]
           w == p.width[1]
           h == p.height[1]
           n == IF p.id = "rawvideo" /\ p.pixel_format # None THEN BytesPerPixel(f) * w * h ELSE 24
<1>1. IsParams(p) /\ IsChoices(c.choices) /\ IsFrame(c) /\ c.frame \in Seq(Bytes)
  BY SoundAssumption DEF SoundCallers
<1>2. p.id = "rawvideo" /\ p.pixel_format # None =>
        c.frame = <<>> /\ w \in Nat /\ h \in Nat
  BY <1>1 DEF IsFrame, IsParams, OptionOf
<1>3. BytesPerPixel(f) \in Nat BY DEF BytesPerPixel
<1>4. n \in Nat
  <2> HIDE DEF w, h, f
  <2>1. CASE p.id = "rawvideo" /\ p.pixel_format # None
    <3>1. BytesPerPixel(f) * w \in Nat BY <1>2, <1>3, <2>1
    <3>2. BytesPerPixel(f) * w * h \in Nat BY <1>2, <2>1, <3>1
    <3> QED BY <2>1, <3>2
  <2>2. CASE ~(p.id = "rawvideo" /\ p.pixel_format # None) BY <2>2
  <2> QED BY <2>1, <2>2
<1>5. PacketFor(p) = Payload(n) BY DEF PacketFor
<1> HIDE DEF n
<1>6. PacketFor(p) \in Seq(Bytes) /\ Len(PacketFor(p)) = n BY <1>4, <1>5, PayloadIs
<1> DEFINE data == c.frame \o PacketFor(p)
<1>7. data \in Seq(Bytes) BY <1>1, <1>6, ConcatProperties
<1>8. RawReady(p, data)
  <2> SUFFICES ASSUME IsRaw(p) PROVE Ready(OutLayout(p), data) BY DEF RawReady
  <2> DEFINE l == OutLayout(p)
             rule == HeaderFor(f).rule
  <2>1. p.id = "rawvideo" /\ p.pixel_format # None /\ f \in WritableFormats BY DEF IsRaw
  <2>2. data = PacketFor(p)
    <3> DEFINE d == PacketFor(p)
    <3>1. d \in Seq(Bytes) BY <1>6
    <3>2. c.frame = <<>> BY <1>2, <2>1
    <3> HIDE DEF d
    <3>3. <<>> \o d = d BY <3>1, ConcatEmptySeq
    <3> QED BY <3>2, <3>3 DEF d
  <2>3. n = BytesPerPixel(f) * w * h BY <2>1 DEF n
  <2>4. l = NewLayout(f, rule, w, h, TRUE) BY DEF OutLayout
  <2>5. l.row_bytes = BytesPerPixel(f) * w /\ l.rows = h BY <2>4 DEF NewLayout, Layout
  <2>6. PacketBytes(l) = n
    <3> HIDE DEF l, w, h, f
    <3> QED BY <2>3, <2>5 DEF PacketBytes
  <2> HIDE DEF l, data
  <2> QED BY <1>6, <2>2, <2>6 DEF Ready, l
<1> QED BY <1>1, <1>7, <1>8 DEF Handed

LEMMA FaithfulInit == Init => Faithful
<1> SUFFICES ASSUME Init PROVE Faithful OBVIOUS
<1>1. generation = 0 /\ generation \in 0 .. MaxGeneration
  BY CopyAssumption DEF Init
<1>2. ASSUME NEW c \in Callers, phase = "caller", params = c.params, choices = c.choices,
             packet = c.frame \o PacketFor(c.params)
      PROVE  Faithful
  <2>1. Handed(params, choices, packet) BY <1>2, CallersHand
  <2> QED BY <1>1, <1>2, <2>1 DEF Faithful, PacketsSurvive, Copying
<1>3. ASSUME NEW f \in Foreign, phase = "file", file = f, params = NoParams, choices = NoChoices,
             packet = <<>>
      PROVE  Faithful
  <2>1. IsFile(file) BY <1>3, SoundAssumption DEF SoundForeign
  <2>2. IsParams(NoParams) BY NoParamsAre, NoExtraIs DEF IsParams, OptionOf
  <2>3. IsChoices(NoChoices) BY DEF IsChoices, NoChoices
  <2>4. \A data : RawReady(NoParams, data) BY NoParamsAre DEF RawReady, IsRaw
  <2>5. <<>> \in Seq(Bytes) BY EmptySeq
  <2>6. Handed(params, choices, packet) BY <1>3, <2>2, <2>3, <2>4, <2>5 DEF Handed
  <2> QED BY <1>1, <1>3, <2>1, <2>6 DEF Faithful, PacketsSurvive, Copying
<1> QED BY <1>2, <1>3 DEF Init

LEMMA FaithfulWrite == Faithful /\ Write => Faithful'
<1> SUFFICES ASSUME Faithful, Write PROVE Faithful' OBVIOUS
<1> DEFINE e == BuildStrf(params, choices)
<1>1. Handed(params, choices, packet) /\ generation \in 0 .. MaxGeneration BY DEF Faithful
<1>2. /\ phase \in {"caller", "read"} /\ generation < MaxGeneration /\ Mux(e) BY DEF Write
<1> HIDE DEF e
<1>3. CASE e.ok
  <2>1. /\ phase' = "file" /\ generation' = generation + 1
        /\ file' = [strh |-> WriteStrh(e, params, NoOverrides), strf |-> e.strf,
                    before |-> <<>>, wire |-> Packed(e, packet)]
        /\ sent' = [params |-> params, choices |-> choices, packet |-> packet,
                    align |-> e.sample_size]
        /\ UNCHANGED <<params, choices, packet>>
    BY <1>2, <1>3 DEF Mux, WriteFile
  <2>2. generation' \in 0 .. MaxGeneration BY <1>1, <1>2, <2>1, CopyAssumption
  <2>3. Handed(params, choices, packet)' BY <1>1, <2>1 DEF Handed, RawReady
  <2> DEFINE f == [strh |-> WriteStrh(e, params, NoOverrides), strf |-> e.strf,
                   before |-> <<>>, wire |-> Packed(e, packet)]
  <2>4. Carries(f, params, choices, packet)
    <3>1. MadeFrom(f, e, params, packet) BY DEF MadeFrom
    <3> QED BY <1>1, <1>3, <3>1 DEF Carries, e
  <2> HIDE DEF f
  <2>5. IsFile(f) BY <2>4, OwnIsFile
  <2>7. FromSent' /\ IsFile(file)'
    <3>1. sent'.params = params /\ sent'.choices = choices /\ sent'.packet = packet /\ file' = f
      BY <2>1 DEF f
    <3> QED BY <2>4, <2>5, <3>1 DEF FromSent
  <2>6. PacketsSurvive' BY <2>1 DEF PacketsSurvive, Copying
  <2> QED BY <2>1, <2>2, <2>3, <2>6, <2>7 DEF Faithful
<1>4. CASE ~e.ok
  <2>1. phase' = "refused" /\ UNCHANGED <<generation, params, choices, packet>>
    BY <1>2, <1>4 DEF Mux, Refuse
  <2>2. Handed(params, choices, packet)' BY <1>1, <2>1 DEF Handed, RawReady
  <2>3. PacketsSurvive' BY <2>1 DEF PacketsSurvive, Copying
  <2> QED BY <1>1, <2>1, <2>2, <2>3 DEF Faithful
<1> QED BY <1>3, <1>4

LEMMA FaithfulRead == Faithful /\ Read => Faithful'
<1> SUFFICES ASSUME Faithful, Read PROVE Faithful' OBVIOUS
<1> DEFINE b == BuildStream(file.strh, file.strf, resolver)
           s == Filled(b)
<1>1. phase = "file" /\ Demux(s) BY DEF Read
<1>2. /\ generation \in 0 .. MaxGeneration /\ IsFile(file)
      /\ Handed(params, choices, packet)
      /\ generation > 0 => FromSent
  BY <1>1 DEF Faithful
<1>3. b.ok => ReadsFile(s) BY <1>2, Reads
<1>4. ~b.ok => ~s.ok BY DEF Filled
<1>5. b.ok /\ generation > 0 /\ ~BareDib => Unpacked(s, file.wire) = sent.packet
  BY <1>2, RawReturns, OtherReturns
<1>6. s.ok => b.ok BY <1>4
<1> HIDE DEF b, s
<1>7. CASE Opens(s)
  <2>1. s.ok BY <1>7 DEF Opens
  <2>2. b.ok BY <1>6, <2>1
  <2>3. /\ phase' = "read" /\ params' = s.params /\ choices' = NoChoices
        /\ packet' = Unpacked(s, file.wire) /\ UNCHANGED <<generation, resolver, file, sent>>
    BY <1>1, <1>7 DEF Demux, Deliver
  <2> DEFINE d == Unpacked(s, file.wire)
  <2>4. IsParams(s.params) /\ d \in Seq(Bytes) /\ RawReady(s.params, d)
    BY <1>3, <2>2 DEF ReadsFile
  <2>5. generation > 0 /\ ~BareDib => d = sent.packet BY <1>5, <2>2
  <2> HIDE DEF d
  <2>6. packet' = d BY <2>3 DEF d
  <2>7. IsChoices(NoChoices) BY DEF IsChoices, NoChoices
  <2>8. Handed(s.params, NoChoices, d) BY <2>4, <2>7 DEF Handed
  <2>9. Handed(params, choices, packet)' BY <2>3, <2>6, <2>8
  <2>10. (generation > 0 => FromSent)' BY <1>2, <2>3 DEF FromSent
  <2>11. PacketsSurvive' BY <2>3, <2>5, <2>6 DEF PacketsSurvive, Copying, BareDib
  <2> QED BY <1>2, <2>3, <2>9, <2>10, <2>11 DEF Faithful
<1>8. CASE ~Opens(s)
  <2>1. phase' = "unreadable" /\ UNCHANGED <<generation, params, choices, packet>>
    BY <1>1, <1>8 DEF Demux, Reject
  <2>2. Handed(params, choices, packet)' BY <1>2, <2>1
  <2>3. PacketsSurvive' BY <2>1 DEF PacketsSurvive, Copying
  <2> QED BY <1>2, <2>1, <2>2, <2>3 DEF Faithful
<1> QED BY <1>7, <1>8

LEMMA FaithfulStutter == Faithful /\ UNCHANGED vars => Faithful'
BY DEF Faithful, vars, FromSent, PacketsSurvive, Copying, BareDib

\* Whatever callers and other writers hand over, every copy of it is faithful.
THEOREM CopiesFaithful == Spec => []Faithful
<1>1. Init => Faithful BY FaithfulInit
<1>2. Faithful /\ [Next]_vars => Faithful'
  <2> SUFFICES ASSUME Faithful, [Next]_vars PROVE Faithful' OBVIOUS
  <2>1. CASE Write BY <2>1, FaithfulWrite
  <2>2. CASE Read BY <2>2, FaithfulRead
  <2>3. CASE UNCHANGED vars BY <2>3, FaithfulStutter
  <2> QED BY <2>1, <2>2, <2>3 DEF Next
<1> QED BY <1>1, <1>2, PTL DEF Spec

\* A value is of its kind whatever went through the files: no picture read
\* from a top-down header has a negative height, and a packet is bytes.
THEOREM CopyTypesHold == Spec => []TypeOK
<1>1. Faithful => TypeOK
  <2> SUFFICES ASSUME Faithful PROVE TypeOK OBVIOUS
  <2>1. IsParams(params) /\ packet \in Seq(Bytes) BY DEF Faithful, Handed
  <2>2. \A o : OptionOf(o, Nat) => OrElse(o, 0) \in Nat BY DEF OptionOf, OrElse, Some, None
  <2>3. OrElse(params.width, 0) \in Nat /\ OrElse(params.height, 0) \in Nat
        /\ params.media \in {"video", "audio", "subtitle", "data"}
    BY <2>1, <2>2 DEF IsParams
  <2>4. \A i \in DOMAIN packet : packet[i] \in Bytes BY <2>1
  <2> QED BY <2>3, <2>4 DEF Faithful, TypeOK
<1> QED BY <1>1, CopiesFaithful, PTL

\* A packet comes out of a file byte for byte as it went in, for any picture
\* size, pixel format, header rule and packet, however many files it went
\* through: rows are packed by the layout the parameters give and unpacked by
\* the one the header gives.
THEOREM PacketsReturn == Spec => []PacketsSurvive
<1>1. Faithful => PacketsSurvive BY DEF Faithful
<1> QED BY <1>1, CopiesFaithful, PTL

-----------------------------------------------------------------------------
(* Which copies open                                                       *)

\* A file of this crate is never taken for a broken one.
LEMMA OwnBuilds ==
  ASSUME FromSent
  PROVE  BuildStream(file.strh, file.strf, resolver).ok
<1> DEFINE e == BuildStrf(sent.params, sent.choices)
           p == sent.params
           s == BuildStream(file.strh, file.strf, resolver)
<1>1. e.ok /\ MadeFrom(file, e, p, sent.packet) /\ Handed(p, sent.choices, sent.packet)
  BY DEF FromSent, Carries
<1>2. Written(e, p) BY <1>1, AllWritten DEF Handed
<1>3. /\ IsFile(file) /\ file.strh.len = 56 /\ file.strh.at[0] = e.strh_type
  BY OwnIsFile DEF FromSent
<1> HIDE DEF e
<1>4. file.strf = e.strf BY <1>1 DEF MadeFrom
<1>5. \A a, b, c, d : Built(a, b, c, d).ok BY DEF Built
<1>6. file.strf.len \in Nat BY <1>3 DEF IsFile
<1>7. CASE p.media = "video"
  <2>1. VideoWritten(e, p) BY <1>2, <1>7 DEF Written
  <2>2. file.strh.at[0] = "vids" BY <1>3, <2>1 DEF VideoWritten
  <2>3. file.strf.len >= 40
    <3>1. CASE p.id = "rawvideo"
      BY <1>4, <2>1, <3>1 DEF VideoWritten, RawWritten, SaysPicture
    <3>2. CASE p.id # "rawvideo"
      BY <1>4, <2>1, <3>2 DEF VideoWritten, TaggedWritten, SaysPicture
    <3> QED BY <3>1, <3>2
  <2>4. ParseBitmapInfoHeader(file.strf).ok BY <1>6, <2>3 DEF ParseBitmapInfoHeader
  <2>5. s = BuildVids(file.strh, file.strf, ParseBitmapInfoHeader(file.strf), resolver)
    BY <1>3, <2>2 DEF BuildStream
  <2> QED BY <1>5, <2>4, <2>5 DEF BuildVids, ReadVideo, NameVideo, BuildVideo
<1>8. CASE p.media = "audio"
  <2> DEFINE w == ParseWaveformatex(file.strf)
  <2>1. AudioWritten(e, p) BY <1>2, <1>8 DEF Written
  <2>2. file.strh.at[0] = "auds" /\ file.strf.len >= 18 BY <1>3, <1>4, <2>1 DEF AudioWritten
  <2>3. /\ w.ok /\ w.tag = file.strf.at[0]
        /\ w.ext_len = Least(file.strf.at[16], file.strf.len - 18)
    BY <1>6, <2>2 DEF ParseWaveformatex
  <2>4. w.tag = WAVE_FORMAT_EXTENSIBLE => w.ext_len = 22
    <3> SUFFICES ASSUME w.tag = WAVE_FORMAT_EXTENSIBLE PROVE w.ext_len = 22 OBVIOUS
    <3>1. Extensibly(e) BY <1>4, <2>1, <2>3 DEF AudioWritten, Constantly, Variably
    <3> QED BY <1>4, <2>3, <3>1 DEF Extensibly, Least
  <2>5. s = BuildAuds(file.strh, file.strf, w, resolver) BY <1>3, <2>2 DEF BuildStream
  <2> HIDE DEF w
  <2> QED BY <1>5, <1>6, <2>2, <2>3, <2>4, <2>5 DEF BuildAuds, ReadAudio
<1>9. CASE p.media = "subtitle"
  <2>1. file.strh.at[0] = "txts" BY <1>2, <1>3, <1>9 DEF Written, TextWritten
  <2>2. file.strh.len \in Nat /\ file.strh.len >= 48 BY <1>3
  <2> QED BY <1>6, <2>1, <2>2, OthersRead
<1> QED BY <1>2, <1>7, <1>8, <1>9 DEF Written

\* What an own file is opened as, when it has sound.
LEMMA OwnSound ==
  ASSUME FromSent
  PROVE  LET e == BuildStrf(sent.params, sent.choices)
             q == Filled(BuildStream(file.strh, file.strf, resolver))
         IN  IF sent.params.media = "audio"
             THEN /\ AudioWritten(e, sent.params)
                  /\ Opens(q) <=> /\ e.strf.at[0] \in VariableRateTags => e.sample_size = 0
                                  /\ e.strf.at[0] \in ConstantRateTags => e.sample_size # 0
                  /\ q.params.media = "audio"
                  /\ q.params.tag = Some(e.strf.at[0]) /\ q.params.channels = Some(e.strf.at[2])
                  /\ e.strf.at[0] # WAVE_FORMAT_EXTENSIBLE =>
                       /\ q.params.id = TaggedName(resolver, e.strf)
                       /\ q.params.sample_format
                            = SampleFormatFor(TaggedName(resolver, e.strf), e.strf.at[14])
             ELSE Opens(q) /\ q.params.media # "audio"
<1> DEFINE e == BuildStrf(sent.params, sent.choices)
           p == sent.params
           s == BuildStream(file.strh, file.strf, resolver)
           q == Filled(s)
<1>1. e.ok /\ MadeFrom(file, e, p, sent.packet) /\ Handed(p, sent.choices, sent.packet)
  BY DEF FromSent, Carries
<1>2. Written(e, p) BY <1>1, AllWritten DEF Handed
<1>3. /\ IsFile(file) /\ file.strh.len = 56 /\ file.strh.at[0] = e.strh_type
      /\ file.strh.at[44] = e.sample_size
  BY OwnIsFile DEF FromSent
<1> HIDE DEF e
<1>4. file.strf = e.strf BY <1>1 DEF MadeFrom
<1>5. /\ file.strh.len \in Nat /\ file.strf.len \in Nat /\ file.strh.len >= 48
      /\ file.strh.at[0] = "vids" /\ file.strf.len >= 40 =>
           file.strf.at[4] \in Nat /\ file.strf.at[8] \in Int
      /\ file.strh.at[0] = "auds" /\ file.strf.len >= 14 =>
           file.strf.at[2] \in Nat /\ (file.strf.len >= 18 => file.strf.at[16] \in Nat)
  BY <1>3 DEF IsFile
<1>6. DOMAIN s = StreamFields /\ s.ok BY OwnBuilds, StreamHas
<1>7. ASSUME DOMAIN s.params = ParamFields, IsParams(s.params)
      PROVE  q.ok /\ q.audio = s.audio /\ SamePast(q.params, s.params)
  <2> HIDE DEF s
  <2> QED BY <1>6, <1>7, FilledIs
<1>8. CASE p.media = "video"
  <2>1. e.strh_type = "vids" BY <1>2, <1>8 DEF Written, VideoWritten
  <2>2. ReadsVideo(s, file.strf) BY <1>3, <1>5, <1>6, <2>1, VideoReads
  <2>3. /\ DOMAIN s.params = ParamFields /\ IsParams(s.params) /\ s.audio = None
        /\ s.params.media = "video"
    BY <2>2 DEF ReadsVideo
  <2>4. q.ok /\ q.audio = None /\ q.params.media = "video" BY <1>7, <2>3 DEF SamePast
  <2> HIDE DEF q
  <2> QED BY <1>8, <2>4 DEF Opens, q, s
<1>9. CASE p.media = "audio"
  <2>1. AudioWritten(e, p) BY <1>2, <1>9 DEF Written
  <2>2. e.strh_type = "auds" /\ e.strf.len >= 18 BY <2>1 DEF AudioWritten
  <2>3. ReadsAudio(s, file.strh, file.strf, resolver) BY <1>3, <1>5, <1>6, <2>2, AudioReads
  <2> HIDE DEF s
  <2>4. /\ DOMAIN s.params = ParamFields /\ IsParams(s.params) /\ s.params.media = "audio"
        /\ s.audio # None /\ s.audio[1].sample_size = e.sample_size
        /\ s.params.tag = Some(s.audio[1].format_tag)
        /\ s.params.tag = Some(e.strf.at[0]) /\ s.params.channels = Some(e.strf.at[2])
        /\ e.strf.at[0] # WAVE_FORMAT_EXTENSIBLE =>
             /\ s.params.id = TaggedName(resolver, e.strf)
             /\ s.params.sample_format
                  = SampleFormatFor(TaggedName(resolver, e.strf), e.strf.at[14])
    BY <1>3, <1>4, <2>2, <2>3 DEF ReadsAudio
  <2>5. s.audio[1].format_tag = e.strf.at[0] BY <2>4 DEF Some
  <2>6. q.ok /\ q.audio = s.audio /\ SamePast(q.params, s.params) BY <1>7, <2>4
  <2> HIDE DEF q
  <2>7. Opens(q) <=> /\ e.strf.at[0] \in VariableRateTags => e.sample_size = 0
                     /\ e.strf.at[0] \in ConstantRateTags => e.sample_size # 0
    BY <2>4, <2>5, <2>6 DEF Opens, AudioStrhViolation
  <2>8. /\ q.params.media = "audio"
        /\ q.params.tag = Some(e.strf.at[0]) /\ q.params.channels = Some(e.strf.at[2])
        /\ e.strf.at[0] # WAVE_FORMAT_EXTENSIBLE =>
             /\ q.params.id = TaggedName(resolver, e.strf)
             /\ q.params.sample_format
                  = SampleFormatFor(TaggedName(resolver, e.strf), e.strf.at[14])
    BY <2>4, <2>6 DEF SamePast
  <2> QED BY <1>9, <2>1, <2>7, <2>8 DEF e, q, s
<1>10. CASE p.media = "subtitle"
  <2>1. file.strh.at[0] = "txts" BY <1>2, <1>3, <1>10 DEF Written, TextWritten
  <2>2. /\ DOMAIN s.params = ParamFields /\ IsParams(s.params) /\ s.audio = None
        /\ s.params.media \in {"subtitle", "data"}
    BY <1>5, <2>1, OthersRead
  <2>3. q.ok /\ q.audio = None /\ q.params.media # "audio" BY <1>7, <2>2 DEF SamePast
  <2> HIDE DEF q
  <2> QED BY <1>10, <2>3 DEF Opens, q, s
<1> QED BY <1>2, <1>8, <1>9, <1>10 DEF Written

\* An own file opens unless the sample size it was written with breaks the
\* rule of its tag.
LEMMA OwnOpens ==
  ASSUME FromSent
  PROVE  Opens(Filled(BuildStream(file.strh, file.strf, resolver)))
           <=> ~Contradicts(sent.params, sent.choices)
<1> DEFINE e == BuildStrf(sent.params, sent.choices)
           p == sent.params
           c == sent.choices
           q == Filled(BuildStream(file.strh, file.strf, resolver))
<1>1. CASE p.media # "audio" BY <1>1, OwnSound DEF Contradicts
<1>2. CASE p.media = "audio"
  <2>1. /\ AudioWritten(e, p)
        /\ Opens(q) <=> /\ e.strf.at[0] \in VariableRateTags => e.sample_size = 0
                        /\ e.strf.at[0] \in ConstantRateTags => e.sample_size # 0
    BY <1>2, OwnSound
  <2>2. Extensibly(e) <=> c.extensible # None
    BY <1>2, AudioIsWritten DEF FromSent, Carries, Handed
  <2> HIDE DEF e, q
  <2> DEFINE tag == e.strf.at[0]
  <2>3. ASSUME AudioFormatTag(p) = Some(tag) PROVE OrElse(AudioFormatTag(p), 0) = tag
    BY <2>3 DEF OrElse, Some, None
  <2>4. p.channels = Some(p.channels[1]) BY <2>1 DEF AudioWritten
  <2>5. p.channels = Some(0) <=> p.channels[1] = 0 BY <2>4 DEF Some
  <2>6. CASE Extensibly(e)
    <3>1. tag = 65534 BY <2>6 DEF Extensibly, WAVE_FORMAT_EXTENSIBLE
    <3>2. tag \notin VariableRateTags /\ tag \notin ConstantRateTags
      BY <3>1 DEF VariableRateTags, ConstantRateTags
    <3>3. ~Contradicts(p, c) BY <2>2, <2>6 DEF Contradicts
    <3> QED BY <2>1, <3>2, <3>3 DEF q
  <2>7. CASE Constantly(e, p)
    <3>1. OrElse(AudioFormatTag(p), 0) = tag /\ Rated(p) /\ ~Extensibly(e)
          /\ (e.sample_size = 0 <=> p.channels = Some(0))
      BY <2>3, <2>5, <2>7 DEF Constantly, Rated, Extensibly
    <3>2. Contradicts(p, c)
            <=> IF p.channels # Some(0) THEN tag \in VariableRateTags ELSE tag \in ConstantRateTags
      BY <1>2, <2>2, <3>1 DEF Contradicts
    <3> HIDE DEF tag
    <3> QED BY <2>1, <3>1, <3>2 DEF q, tag
  <2>8. CASE Variably(e, p)
    <3>1. OrElse(AudioFormatTag(p), 0) = tag /\ ~Rated(p) /\ ~Extensibly(e) /\ e.sample_size = 0
      BY <2>3, <2>8 DEF Variably, Rated, Extensibly
    <3>2. Contradicts(p, c) <=> tag \in ConstantRateTags BY <1>2, <2>2, <3>1 DEF Contradicts
    <3> QED BY <2>1, <3>1, <3>2 DEF q
  <2> QED BY <2>1, <2>6, <2>7, <2>8 DEF AudioWritten
<1> QED BY <1>1, <1>2

\* A frame-a-chunk tag is read without a depth.
LEMMA VariableUnrated ==
  ASSUME NEW r, NEW tag \in VariableRateTags
  PROVE  LET id == OrElse(ResolveFormatTag(r, tag), AudioCodecIdFallback(tag, 0))
         IN  /\ PcmBitsPerSample(id, SampleFormatFor(id, 0)) = None
             /\ id \notin {"pcm_alaw", "pcm_mulaw"}
<1> DEFINE id == OrElse(ResolveFormatTag(r, tag), AudioCodecIdFallback(tag, 0))
<1>1. tag \notin {1, 3, 6, 7} BY DEF VariableRateTags
<1>2. id \in {"mp3", "aac", "avi:tag"}
  BY <1>1 DEF OrElse, ResolveFormatTag, AudioCodecIdFallback, Some, None
<1> HIDE DEF id
<1>3. SampleFormatFor(id, 0) = None BY <1>2 DEF SampleFormatFor
<1>4. PcmBitsPerSample(id, None) = None BY <1>2 DEF PcmBitsPerSample
<1> QED BY <1>2, <1>3, <1>4 DEF id

\* A tag of blocks is read with one, unless its depth is sixty-four bits.
LEMMA ConstantRated ==
  ASSUME NEW r, NEW tag \in ConstantRateTags, NEW bits \in Depths, bits = 64 => tag = 1
  PROVE  LET id == OrElse(ResolveFormatTag(r, tag), AudioCodecIdFallback(tag, bits))
         IN  \/ PcmBitsPerSample(id, SampleFormatFor(id, bits)) # None
             \/ id \in {"pcm_alaw", "pcm_mulaw"}
<1> DEFINE id == OrElse(ResolveFormatTag(r, tag), AudioCodecIdFallback(tag, bits))
<1>1. CASE tag = 1
  <2>1. id \in {"pcm_u8", "pcm_s16le", "pcm_s24le", "pcm_s32le"}
    BY <1>1 DEF OrElse, ResolveFormatTag, AudioCodecIdFallback, PcmName, None
  <2> HIDE DEF id
  <2>2. \A f : PcmBitsPerSample(id, f) # None BY <2>1 DEF PcmBitsPerSample, Some, None
  <2> QED BY <2>2 DEF id
<1>2. CASE tag # 1
  <2>1. tag \in {6, 7, 17} BY <1>2 DEF ConstantRateTags
  <2>2. bits \in {8, 16, 24, 32} BY <1>2 DEF Depths
  <2>3. id \in {"pcm_alaw", "pcm_mulaw", "avi:tag"}
    BY <2>1 DEF OrElse, ResolveFormatTag, AudioCodecIdFallback, Some, None
  <2> HIDE DEF id
  <2>4. CASE id = "avi:tag"
    <3>1. SampleFormatFor(id, bits) # None BY <2>2, <2>4 DEF SampleFormatFor, Some, None
    <3>2. \A f : f # None => PcmBitsPerSample(id, f) # None
      BY <2>4 DEF PcmBitsPerSample, Some, None
    <3> QED BY <3>1, <3>2 DEF id
  <2> QED BY <2>3, <2>4 DEF id
<1> QED BY <1>1, <1>2

\* What is read of an own file that opens does not contradict itself.
LEMMA OwnAgrees ==
  ASSUME FromSent, ~TooDeep(sent.params),
         Opens(Filled(BuildStream(file.strh, file.strf, resolver)))
  PROVE  ~Contradicts(Filled(BuildStream(file.strh, file.strf, resolver)).params, NoChoices)
<1> DEFINE e == BuildStrf(sent.params, sent.choices)
           p == sent.params
           q == Filled(BuildStream(file.strh, file.strf, resolver))
           tag == e.strf.at[0]
<1> SUFFICES ASSUME q.params.media = "audio" PROVE ~Contradicts(q.params, NoChoices)
  BY DEF Contradicts
<1>1. p.media = "audio" BY OwnSound
<1>2. /\ AudioWritten(e, p)
      /\ tag \in VariableRateTags => e.sample_size = 0
      /\ tag \in ConstantRateTags => e.sample_size # 0
      /\ q.params.tag = Some(tag) /\ q.params.channels = Some(e.strf.at[2])
      /\ tag # WAVE_FORMAT_EXTENSIBLE =>
           /\ q.params.id = TaggedName(resolver, e.strf)
           /\ q.params.sample_format = SampleFormatFor(TaggedName(resolver, e.strf), e.strf.at[14])
  BY <1>1, OwnSound
<1> HIDE DEF e, q
<1>3. OrElse(AudioFormatTag(q.params), 0) = tag
  BY <1>2 DEF AudioFormatTag, OrElse, Some, None
<1>4. p.channels = Some(p.channels[1]) /\ e.strf.at[2] = p.channels[1]
  BY <1>2 DEF AudioWritten
<1>5. CASE tag = WAVE_FORMAT_EXTENSIBLE
  <2>1. tag \notin VariableRateTags /\ tag \notin ConstantRateTags
    BY <1>5 DEF VariableRateTags, ConstantRateTags, WAVE_FORMAT_EXTENSIBLE
  <2> QED BY <1>3, <2>1 DEF Contradicts
<1>6. CASE tag # WAVE_FORMAT_EXTENSIBLE
  <2> DEFINE id == TaggedName(resolver, e.strf)
             bits == e.strf.at[14]
  <2>1. Constantly(e, p) \/ Variably(e, p) BY <1>2, <1>6 DEF AudioWritten, Extensibly
  <2>2. id = OrElse(ResolveFormatTag(resolver, tag), AudioCodecIdFallback(tag, bits))
    BY DEF TaggedName
  <2>3. q.params.id = id /\ q.params.sample_format = SampleFormatFor(id, bits) BY <1>2, <1>6
  <2> HIDE DEF id, bits, tag
  <2>4. ASSUME tag \in VariableRateTags
        PROVE  q.params.channels = Some(0) \/ ~Rated(q.params)
    <3>1. CASE Constantly(e, p)
      <4>1. e.strf.at[2] = 0 BY <1>2, <1>4, <2>4, <3>1 DEF Constantly
      <4> QED BY <1>2, <4>1
    <3>2. CASE Variably(e, p)
      <4>1. bits = 0 BY <3>2 DEF Variably, bits
      <4> QED BY <2>2, <2>3, <2>4, <4>1, VariableUnrated DEF Rated
    <3> QED BY <2>1, <3>1, <3>2
  <2>5. ASSUME tag \in ConstantRateTags
        PROVE  q.params.channels # Some(0) /\ Rated(q.params)
    <3>1. Constantly(e, p) BY <1>2, <2>1, <2>5 DEF Variably
    <3>2. e.strf.at[2] # 0 BY <1>2, <1>4, <2>5, <3>1 DEF Constantly
    <3>3. q.params.channels # Some(0) BY <1>2, <3>2 DEF Some
    <3>4. bits \in Depths BY <3>1 DEF Constantly, bits
    <3>5. bits = 64 => tag = 1
      <4> SUFFICES ASSUME bits = 64, tag # 1 PROVE FALSE OBVIOUS
      <4>1. tag \in {6, 7, 17} BY <2>5 DEF ConstantRateTags
      <4>2. PcmBitsPerSample(p.id, p.sample_format) = Some(64) BY <3>1 DEF Constantly, bits
      <4>3. AudioFormatTag(p) = Some(tag) BY <3>1 DEF Constantly, tag
      <4>4. p.tag = Some(tag)
        <5>1. PcmSynthFormatTag(p.id) \in {None, Some(1), Some(3)} BY DEF PcmSynthFormatTag
        <5>2. \A t \in {6, 7, 17} : Some(t) \notin {None, Some(1), Some(3)}
          <6>1. \A t : Some(t)[1] = t /\ Some(t) # None BY DEF Some, None
          <6>2. \A t \in {6, 7, 17} : t # 1 /\ t # 3 OBVIOUS
          <6> QED BY <6>1, <6>2
        <5>3. PcmSynthFormatTag(p.id) # Some(tag) BY <4>1, <5>1, <5>2
        <5> QED BY <4>3, <5>3 DEF AudioFormatTag
      <4>5. p.tag \in {Some(6), Some(7), Some(17)} BY <4>1, <4>4
      <4> QED BY <1>1, <4>2, <4>5 DEF TooDeep
    <3>6. Rated(q.params) BY <2>2, <2>3, <2>5, <3>4, <3>5, ConstantRated DEF Rated
    <3> QED BY <3>3, <3>6
  <2> QED BY <1>3, <2>4, <2>5 DEF Contradicts, tag
<1> QED BY <1>5, <1>6 DEF q

\* What has been read once is written so that it opens.
Reopens ==
  /\ Faithful
  /\ ~TooDeep(params)
  /\ phase \in {"file", "read"} /\ generation > 0 => ~TooDeep(sent.params)
  /\ phase = "read" => choices = NoChoices
  /\ phase = "file" /\ generation > 1 => ~Contradicts(sent.params, sent.choices)
  /\ CopiesOpen

LEMMA ReopensInit ==
  ASSUME NoneTooDeep
  PROVE  Init => Reopens
<1> SUFFICES ASSUME Init PROVE Reopens OBVIOUS
<1>1. generation = 0 /\ phase \in {"caller", "file"} BY DEF Init
<1>2. ~TooDeep(NoParams) BY NoParamsAre DEF TooDeep
<1>3. ~TooDeep(params) BY <1>2 DEF Init, NoneTooDeep
<1> QED BY <1>1, <1>3, FaithfulInit DEF Reopens, CopiesOpen

LEMMA ReopensWrite == Reopens /\ Write => Reopens'
<1> SUFFICES ASSUME Reopens, Write PROVE Reopens' OBVIOUS
<1> DEFINE e == BuildStrf(params, choices)
<1>1. Faithful' BY FaithfulWrite DEF Reopens
<1>2. /\ phase \in {"caller", "read"} /\ Mux(e) /\ UNCHANGED params
  BY DEF Write, Mux, WriteFile, Refuse
<1>3. /\ generation \in Nat /\ (phase = "caller" => generation = 0)
      /\ ~TooDeep(params)
      /\ phase = "read" /\ generation > 0 => ~Contradicts(params, choices)
  BY CopyAssumption DEF Reopens, Faithful, CopiesOpen
<1> HIDE DEF e
<1>4. CASE e.ok
  <2>1. /\ phase' = "file" /\ generation' = generation + 1
        /\ sent'.params = params /\ sent'.choices = choices
    BY <1>2, <1>4 DEF Mux, WriteFile
  <2>2. generation' > 1 => ~Contradicts(params, choices) BY <1>2, <1>3, <2>1
  <2> QED BY <1>1, <1>2, <1>3, <2>1, <2>2 DEF Reopens, CopiesOpen
<1>5. CASE ~e.ok
  <2>1. phase' = "refused" BY <1>2, <1>5 DEF Mux, Refuse
  <2> QED BY <1>1, <1>2, <1>3, <2>1 DEF Reopens, CopiesOpen
<1> QED BY <1>4, <1>5

LEMMA ReopensRead == Reopens /\ Read => Reopens'
<1> SUFFICES ASSUME Reopens, Read PROVE Reopens' OBVIOUS
<1> DEFINE b == BuildStream(file.strh, file.strf, resolver)
           s == Filled(b)
<1>1. Faithful' BY FaithfulRead DEF Reopens
<1>2. phase = "file" /\ Demux(s) BY DEF Read
<1>3. /\ generation \in Nat /\ ~TooDeep(params) /\ IsFile(file)
      /\ generation > 0 => FromSent /\ ~TooDeep(sent.params)
      /\ generation > 1 => ~Contradicts(sent.params, sent.choices)
  BY <1>2, CopyAssumption DEF Reopens, Faithful
<1>4. s.ok => ReadsFile(s)
  <2>1. ~b.ok => ~s.ok BY DEF Filled
  <2> QED BY <1>3, <2>1, Reads
<1>5. generation > 0 /\ Opens(s) => ~Contradicts(s.params, NoChoices) BY <1>3, OwnAgrees
<1>6. generation > 0 => (Opens(s) <=> ~Contradicts(sent.params, sent.choices)) BY <1>3, OwnOpens
<1> HIDE DEF b, s
<1>7. CASE Opens(s)
  <2>1. /\ phase' = "read" /\ params' = s.params /\ choices' = NoChoices
        /\ UNCHANGED <<generation, sent>>
    BY <1>2, <1>7 DEF Demux, Deliver
  <2>2. ~TooDeep(s.params) BY <1>4, <1>7 DEF Opens, ReadsFile
  <2>3. CopiesOpen'
    <3>1. Contradicts(sent.params, sent.choices)' = Contradicts(sent.params, sent.choices)
      BY <2>1 DEF Contradicts
    <3>2. (generation > 0 => ~Contradicts(params, NoChoices))' BY <1>5, <1>7, <2>1
    <3> QED BY <1>3, <1>6, <1>7, <2>1, <3>1, <3>2 DEF CopiesOpen
  <2> QED BY <1>1, <1>3, <2>1, <2>2, <2>3 DEF Reopens
<1>8. CASE ~Opens(s)
  <2>1. phase' = "unreadable" /\ UNCHANGED <<generation, params, sent>>
    BY <1>2, <1>8 DEF Demux, Reject
  <2>2. generation > 0 => generation = 1 /\ Contradicts(sent.params, sent.choices)
    BY <1>3, <1>6, <1>8
  <2> QED BY <1>1, <1>3, <2>1, <2>2 DEF Reopens, CopiesOpen
<1> QED BY <1>7, <1>8

\* A file this crate wrote is refused exactly when the format tag it was
\* written with asks for another sample size than the depth gave it; what was
\* read of one never does, and a copy of a copy is opened.
THEOREM CopiesReopen ==
  ASSUME NoneTooDeep
  PROVE  Spec => []CopiesOpen
<1>1. Init => Reopens BY ReopensInit
<1>2. Reopens /\ [Next]_vars => Reopens'
  <2> SUFFICES ASSUME Reopens, [Next]_vars PROVE Reopens' OBVIOUS
  <2>1. CASE Write BY <2>1, ReopensWrite
  <2>2. CASE Read BY <2>2, ReopensRead
  <2>3. CASE UNCHANGED vars
    <3>1. Faithful' BY <2>3, FaithfulStutter DEF Reopens
    <3> QED BY <2>3, <3>1 DEF Reopens, CopiesOpen, vars
  <2> QED BY <2>1, <2>2, <2>3 DEF Next
<1>3. Reopens => CopiesOpen BY DEF Reopens
<1> QED BY <1>1, <1>2, <1>3, PTL DEF Spec
====
