------------------------------- MODULE RawDib -------------------------------
(***************************************************************************)
(* Rows of uncompressed video (raw_dib.rs).  On the wire a DIB stores its  *)
(* rows padded to four bytes and, unless biHeight is negative, from the    *)
(* bottom up; a rawvideo packet holds them packed and from the top down.   *)
(* A buffer is a sequence of bytes; row and column numbers count from 0.   *)
(***************************************************************************)
EXTENDS Integers, Sequences

\* biCompression as far as it decides anything: BI_RGB, BI_BITFIELDS, the
\* FourCC RGBA in any case, or a codec's FourCC.
NoMasks == <<>>

\* Three masks of a 16-bit pixel, and those of a 32-bit pixel as the number
\* of the byte each of red, green and blue occupies.
Masks16 == [ Rgb555Le |-> <<31744, 992, 31>>, Rgb565Le |-> <<63488, 2016, 31>>,
             Bgr555Le |-> <<31, 992, 31744>>, Bgr565Le |-> <<31, 2016, 63488>> ]
Masks32 == [ Bgrx |-> <<2, 1, 0>>, Rgbx |-> <<0, 1, 2>>,
             Xrgb |-> <<1, 2, 3>>, Xbgr |-> <<3, 2, 1>> ]

RowRules == {"Dib", "PackedTopDown"}

DibFormats == DOMAIN Masks16 \cup DOMAIN Masks32 \cup {"Bgr24"}
WritableFormats == DibFormats \cup {"Rgba"}

\* A pixel format and its row rule, or none.
NoFormat == [fmt |-> "None", rule |-> "None"]
Found(f, r) == [fmt |-> f, rule |-> r]

WithMasks(table, masks) ==
  IF \E f \in DOMAIN table : table[f] = masks
  THEN Found(CHOOSE f \in DOMAIN table : table[f] = masks, "Dib")
  ELSE NoFormat

PixelFormatFor(compression, bit_count, masks) ==
  CASE compression = "BI_RGB" /\ bit_count = 16 -> Found("Rgb555Le", "Dib")
    [] compression = "BI_RGB" /\ bit_count = 24 -> Found("Bgr24", "Dib")
    [] compression = "BI_RGB" /\ bit_count = 32 -> Found("Bgrx", "Dib")
    [] compression = "BI_BITFIELDS" /\ bit_count = 16 -> WithMasks(Masks16, masks)
    [] compression = "BI_BITFIELDS" /\ bit_count = 32 -> WithMasks(Masks32, masks)
    [] compression = "RGBA" /\ bit_count = 32 -> Found("Rgba", "PackedTopDown")
    [] OTHER -> NoFormat

\* What the muxer declares for a pixel format (header_for).
Header(c, b, m, r) == [compression |-> c, bit_count |-> b, masks |-> m, rule |-> r]

HeaderFor(fmt) ==
  CASE fmt = "Rgb555Le" -> Header("BI_RGB", 16, NoMasks, "Dib")
    [] fmt = "Bgr24" -> Header("BI_RGB", 24, NoMasks, "Dib")
    [] fmt = "Bgrx" -> Header("BI_RGB", 32, NoMasks, "Dib")
    [] fmt \in {"Rgb565Le", "Bgr555Le", "Bgr565Le"} ->
         Header("BI_BITFIELDS", 16, Masks16[fmt], "Dib")
    [] fmt \in {"Rgbx", "Xrgb", "Xbgr"} ->
         Header("BI_BITFIELDS", 32, Masks32[fmt], "Dib")
    [] fmt = "Rgba" -> Header("RGBA", 32, NoMasks, "PackedTopDown")

BytesPerPixel(fmt) == IF fmt \in DOMAIN Masks16 THEN 2 ELSE IF fmt = "Bgr24" THEN 3 ELSE 4

-----------------------------------------------------------------------------
(* RawLayout *)

\* The bytes a row takes when it is padded to a DWORD boundary.
DwordAligned(n) == ((n + 3) \div 4) * 4

Layout(row, stride, rows, up) ==
  [row_bytes |-> row, stride |-> stride, rows |-> rows, bottom_up |-> up]

NewLayout(fmt, rule, width, height, top_down) ==
  LET row == BytesPerPixel(fmt) * width
  IN  IF rule = "Dib" THEN Layout(row, DwordAligned(row), height, ~top_down)
                      ELSE Layout(row, row, height, FALSE)

IsIdentity(l) == ~l.bottom_up /\ l.stride = l.row_bytes

\* The row of the wire that holds row r of the packet, and the reverse.
Line(l, r) == IF l.bottom_up THEN l.rows - 1 - r ELSE r

\* Where the byte of a row and column stands when rows take n bytes, and back.
ByteAt(row, n, column) == row * n + column + 1
RowOf(i, n) == (i - 1) \div n
ColumnOf(i, n) == (i - 1) % n

PacketBytes(l) == l.row_bytes * l.rows

\* unpack: a short body, and one of an identity layout, comes back as it is.
Needed(l) == l.stride * (l.rows - 1) + l.row_bytes

Rows(l, wire) ==
  [i \in 1..PacketBytes(l) |->
     wire[ByteAt(Line(l, RowOf(i, l.row_bytes)), l.stride, ColumnOf(i, l.row_bytes))]]

Unpack(l, wire) ==
  IF IsIdentity(l) \/ l.rows = 0 \/ Len(wire) < Needed(l) THEN wire ELSE Rows(l, wire)

\* pack: a packet of another size is refused here and written as it is by
\* write_packet, as one of an identity layout is.
Padded(l, packet) ==
  [j \in 1..(l.stride * l.rows) |->
     IF ColumnOf(j, l.stride) < l.row_bytes
     THEN packet[ByteAt(Line(l, RowOf(j, l.stride)), l.row_bytes, ColumnOf(j, l.stride))]
     ELSE 0]

Refuses(l, packet) == IsIdentity(l) \/ Len(packet) # PacketBytes(l)

Pack(l, packet) == IF Refuses(l, packet) THEN packet ELSE Padded(l, packet)
=============================================================================
