------------------------------ MODULE AviHeader ------------------------------
(***************************************************************************)
(* What muxer.rs writes in front of the movi list, and what                *)
(* patch_post_counts writes back into it.  A file is its length and its    *)
(* chunks by the offset of their headers; a chunk is its id and size, the  *)
(* form type of a list, and otherwise a body (fields by offset).           *)
(***************************************************************************)
EXTENDS AviOptions, FiniteSets

Kinds == {"Avi10", "OpenDml"}
DefaultSuperIndex == 256

\* Of a track: its parameters, its strf entry and the four counters.
NewTrack(params, entry) ==
  [params |-> params, entry |-> entry, packet_count |-> 0, sample_count |-> 0,
   max_chunk_size |-> 0, total_bytes |-> 0]

IsVideo(t) == t.entry.strh_type = "vids"
IsAudio(t) == t.entry.strh_type = "auds"
FirstVideo(tracks) ==
  IF \E i \in DOMAIN tracks : IsVideo(tracks[i])
  THEN Some(CHOOSE i \in DOMAIN tracks :
              IsVideo(tracks[i]) /\ \A j \in 1..(i - 1) : ~IsVideo(tracks[j]))
  ELSE None

-----------------------------------------------------------------------------
(* Bodies *)

Dwords(values) ==
  Body(4 * Len(values), [o \in {4 * (k - 1) : k \in DOMAIN values} |-> values[(o \div 4) + 1]])

MicroPerFrame(t) == (1000000 * Largest(t.entry.scale, 1)) \div Largest(t.entry.rate, 1)

BuildAvih(tracks, o) ==
  LET v == FirstVideo(tracks)
      Of(F(_)) == IF v = None THEN 0 ELSE F(tracks[v[1]])
      Width(t) == OrElse(t.params.width, 0)
      Height(t) == OrElse(t.params.height, 0)
  IN  Dwords(<<OrElse(o.micro_sec, Of(MicroPerFrame)), 0, OrElse(o.padding, 0),
               OrElse(o.avih_flags, DefaultAvihFlags), 0, OrElse(o.initial_frames, 0),
               Len(tracks), 0, Of(Width), Of(Height), 0, 0, 0, 0>>)

\* build_vprp_body: a number of the configuration, or a default.
Pick(n, default) == IF n > 0 THEN n ELSE default

RefreshRate(e) == IF e.scale > 0 THEN (e.rate + (e.scale \div 2)) \div e.scale ELSE 0

VprpFixed(cfg, fields, t, w, h) ==
  <<cfg.video_format_token, cfg.video_standard,
    Pick(cfg.vertical_refresh_rate, RefreshRate(t.entry)),
    Pick(cfg.h_total_in_t, w), Pick(cfg.v_total_in_lines, h),
    Pick(cfg.frame_aspect_ratio, Ratio(4, 3)),
    Pick(cfg.frame_width_in_pixels, w), Pick(cfg.frame_height_in_lines, h), fields>>

\* The caller's field rectangles when they cover every field; otherwise two
\* at most, or one for the whole frame.
FieldRects(cfg, fields, w, h) ==
  IF cfg.field_descs # <<>> /\ Len(cfg.field_descs) >= fields
  THEN SubSeq(cfg.field_descs, 1, fields)
  ELSE IF fields = 1 THEN << <<h, w, h, w, 0, 0, 0, 0>> >>
  ELSE << <<h \div 2, w, h \div 2, w, 0, 0, 0, 23>>,
          <<h \div 2, w, h \div 2, w, 0, 0, 0, (h \div 2) + 23>> >>

Joined(rects) == [k \in 1..(8 * Len(rects)) |-> rects[((k - 1) \div 8) + 1][((k - 1) % 8) + 1]]

BuildVprpOf(cfg, fields, t, w, h) ==
  Dwords(VprpFixed(cfg, fields, t, w, h) \o Joined(FieldRects(cfg, fields, w, h)))

BuildVprpBody(t, cfg) ==
  BuildVprpOf(cfg, Pick(cfg.nb_field_per_frame, 1), t, OrElse(t.params.width, 0),
              OrElse(t.params.height, 0))

\* The two forms of indx: room for a super-index, or a standard index inside
\* the strl.  The name of the chunks it indexes is their stream and suffix.
IndxBody(len, longs, field2, type, i, t) ==
  Body(len, [o \in {0, 2, 3, 4, 8, 12, 16, 20} |->
               CASE o = 0 -> longs
                 [] o = 2 -> IF field2 THEN 1 ELSE 0
                 [] o = 3 -> type
                 [] o = 8 -> <<i, t.entry.suffix>>
                 [] OTHER -> 0])

SuperIndx(cap, field2, i, t) == IndxBody(24 + 16 * cap, 4, field2, 0, i, t)
StrlStdIndx(cap, field2, i, t) ==
  IF field2 THEN IndxBody(24 + 12 * cap, 3, TRUE, 1, i, t)
            ELSE IndxBody(24 + 8 * cap, 2, FALSE, 1, i, t)

\* A text is a sequence of characters; its terminator is one more.
TextBody(text) == Body(Len(text) + 1, [o \in {0} |-> Append(text, "nul")])
BytesBody(len, bytes) == Body(len, [o \in {0} |-> bytes])
CsetBody(c) == Body(8, [o \in {0, 2, 4, 6} |-> c[(o \div 2) + 1]])
DmlhBody(size) == Body(size, [o \in {0} |-> 0])

-----------------------------------------------------------------------------
(* The writes of write_header in order: a list is begun, a chunk written,  *)
(* the innermost list finished.                                            *)

Begin(id, form) == [op |-> "begin", id |-> id, form |-> form, body |-> EmptyBody]
Chunk(id, body) == [op |-> "chunk", id |-> id, form |-> "", body |-> body]
Finish == [op |-> "finish", id |-> "", form |-> "", body |-> EmptyBody]

When(o, Item(_)) == IF o = None THEN <<>> ELSE <<Item(o[1])>>

SuperIndexCapacity(o) == OrElse(o.super_index_capacity, DefaultSuperIndex)

\* open_avi: the compact index needs OpenDML and no inline flushes.
StrlStdActive(o, kind) ==
  kind = "OpenDml" /\ o.strl_std # None /\ \A s \in DOMAIN o.streams : o.streams[s].mid_movi = None

IndxItem(i, t, o, kind) ==
  IF kind = "Avi10" THEN <<>>
  ELSE IF StrlStdActive(o, kind)
  THEN <<Chunk("indx", StrlStdIndx(o.strl_std[1], o.streams[i].field2, i, t))>>
  ELSE <<Chunk("indx", SuperIndx(SuperIndexCapacity(o), o.streams[i].field2, i, t))>>

VprpItem(t, so, kind) ==
  IF kind = "OpenDml" /\ IsVideo(t)
  THEN <<Chunk("vprp", BuildVprpBody(t, OrElse(so.vprp, NoVprpConfig)))>> ELSE <<>>

WriteStrl(i, t, o, kind) ==
  <<Begin("LIST", "strl"), Chunk("strh", WriteStrh(t.entry, t.params, StrhOverrides(o.streams[i]))),
    Chunk("strf", t.entry.strf)>>
    \o IndxItem(i, t, o, kind) \o VprpItem(t, o.streams[i], kind)
    \o When(o.streams[i].header_data, LAMBDA d : Chunk("strd", BytesBody(d[1], d)))
    \o When(o.streams[i].name, LAMBDA n : Chunk("strn", TextBody(n)))
    \o <<Finish>>

Odml(o, kind) ==
  IF kind = "Avi10" THEN <<>>
  ELSE <<Begin("LIST", "odml"), Chunk("dmlh", DmlhBody(OrElse(o.dmlh_size, 4))), Finish>>

WriteInfoList(info) ==
  <<Begin("LIST", "INFO")>> \o [k \in DOMAIN info |-> Chunk(info[k][1], TextBody(info[k][2]))]
    \o <<Finish>>

InfoAt(o, top) == IF o.info = <<>> \/ o.info_top_level # top THEN <<>> ELSE WriteInfoList(o.info)

HdrlTail(o) ==
  InfoAt(o, FALSE) \o When(o.idit, LAMBDA d : Chunk("IDIT", TextBody(d)))
    \o When(o.ismp, LAMBDA d : Chunk("ISMP", TextBody(d))) \o <<Finish>>

TopLevel(o) ==
  InfoAt(o, TRUE)
    \o [k \in DOMAIN o.junk |-> Chunk("JUNK", Body(o.junk[k], EmptyBody.at))]
    \o [k \in DOMAIN o.disp |-> Chunk("DISP", BytesBody(o.disp[k][1], o.disp[k]))]
    \o [k \in DOMAIN o.cset |-> Chunk("CSET", CsetBody(o.cset[k]))]

Strls(tracks, o, kind) ==
  LET upto[i \in 0..Len(tracks)] ==
        IF i = 0 THEN <<>> ELSE upto[i - 1] \o WriteStrl(i, tracks[i], o, kind)
  IN  upto[Len(tracks)]

HeaderItems(tracks, o, kind) ==
  <<Begin("RIFF", "AVI "), Begin("LIST", "hdrl"), Chunk("avih", BuildAvih(tracks, o))>>
    \o Strls(tracks, o, kind) \o Odml(o, kind) \o HdrlTail(o) \o TopLevel(o)
    \o <<Begin("LIST", "movi")>>

-----------------------------------------------------------------------------
(* The file the writes make.  open holds the lists that are not finished,  *)
(* stray the patches that met no field.                                    *)

NoFile == [len |-> 0, chunks |-> [p \in {} |-> EmptyBody], open |-> <<>>, stray |-> {}]

Padded2(n) == n + (n % 2)

Placed(f, item, size) ==
  f.chunks @@ (f.len :> [id |-> item.id, size |-> size, form |-> item.form, body |-> item.body])

\* Mutant: the pad byte is left out.
WriteUnpadded(f, item) ==
  CASE item.op = "begin" ->
         [f EXCEPT !.chunks = Placed(f, item, 0), !.len = @ + 12, !.open = Append(@, f.len)]
    [] item.op = "chunk" ->
         [f EXCEPT !.chunks = Placed(f, item, item.body.len), !.len = @ + 8 + item.body.len]
    [] item.op = "finish" ->
         [f EXCEPT !.chunks[f.open[Len(f.open)]].size = f.len - f.open[Len(f.open)] - 8,
                   !.open = SubSeq(@, 1, Len(@) - 1)]

WriteItem(f, item) ==
  CASE item.op = "begin" ->
         [f EXCEPT !.chunks = Placed(f, item, 0), !.len = @ + 12, !.open = Append(@, f.len)]
    [] item.op = "chunk" ->
         [f EXCEPT !.chunks = Placed(f, item, item.body.len), !.len = @ + 8 + Padded2(item.body.len)]
    [] item.op = "finish" ->
         [f EXCEPT !.chunks[f.open[Len(f.open)]].size = f.len - f.open[Len(f.open)] - 8,
                   !.len = Padded2(@), !.open = SubSeq(@, 1, Len(@) - 1)]

Written(f, items) ==
  LET upto[n \in 0..Len(items)] == IF n = 0 THEN f ELSE WriteItem(upto[n - 1], items[n])
  IN  upto[Len(items)]

WriteHeader(tracks, o, kind) == Written(NoFile, HeaderItems(tracks, o, kind))

-----------------------------------------------------------------------------
(* patch_post_counts: absolute offsets for avih, the offsets kept by       *)
(* write_header for strh and dmlh.                                         *)

\* The offset of the body of the nth chunk of an id.
BodiesOf(f, id) == {p + 8 : p \in {p \in DOMAIN f.chunks : f.chunks[p].id = id}}
StrhBodyOff(f, i) ==
  CHOOSE b \in BodiesOf(f, "strh") : Cardinality({c \in BodiesOf(f, "strh") : c < b}) = i - 1

\* A value written at an offset lands in the field that starts there.
Holders(f, off) ==
  {p \in DOMAIN f.chunks : off - p - 8 \in DOMAIN f.chunks[p].body.at}

PatchIn(f, off, v, holders) ==
  IF holders = {} THEN [f EXCEPT !.stray = @ \cup {off}]
  ELSE [f EXCEPT !.chunks[CHOOSE p \in holders : TRUE].body.at[off - 8 - CHOOSE p \in holders : TRUE] = v]

Patch(f, off, v) == PatchIn(f, off, v, Holders(f, off))

TotalVideoFrames(tracks) ==
  IF FirstVideo(tracks) # None THEN tracks[FirstVideo(tracks)[1]].packet_count
  ELSE tracks[1].packet_count

Sum(tracks, F(_)) ==
  LET upto[i \in 0..Len(tracks)] == IF i = 0 THEN 0 ELSE upto[i - 1] + F(tracks[i])
  IN  upto[Len(tracks)]

AudioStrfAvgBytesPerSec(t) == IF IsAudio(t) /\ t.entry.strf.len >= 12 THEN t.entry.strf.at[8] ELSE 0

\* Bytes over the playing time; without one the nominal audio rates.
MicrosOf(tracks) ==
  IF FirstVideo(tracks) = None THEN 0
  ELSE TotalVideoFrames(tracks) * MicroPerFrame(tracks[FirstVideo(tracks)[1]])

BytesPerSec(tracks, bytes, micros) ==
  IF micros = 0 \/ bytes = 0 THEN Sum(tracks, AudioStrfAvgBytesPerSec)
  ELSE (bytes * 1000000) \div micros

MaxBytesPerSec(tracks) ==
  LET Bytes(t) == t.total_bytes
  IN  BytesPerSec(tracks, Sum(tracks, Bytes), MicrosOf(tracks))

LargestChunk(tracks) ==
  LET upto[i \in 0..Len(tracks)] ==
        IF i = 0 THEN 0 ELSE Largest(upto[i - 1], tracks[i].max_chunk_size)
  IN  upto[Len(tracks)]

\* Mutant: the frames go one field too far.
PatchAvihLate(f, tracks, o) ==
  Patch(Patch(Patch(f, 52, TotalVideoFrames(tracks)),
              36, OrElse(o.max_bytes_per_sec, MaxBytesPerSec(tracks))),
        60, OrElse(o.buffer, DwordAligned(LargestChunk(tracks))))

PatchAvih(f, tracks, o) ==
  Patch(Patch(Patch(f, 48, TotalVideoFrames(tracks)),
              36, OrElse(o.max_bytes_per_sec, MaxBytesPerSec(tracks))),
        60, OrElse(o.buffer, DwordAligned(LargestChunk(tracks))))

LengthOf(t) == IF IsAudio(t) THEN t.sample_count ELSE t.packet_count

\* Mutant: the offset of the first strh serves every stream.
PatchStrhFirst(f, b, t, so) ==
  Patch(Patch(f, StrhBodyOff(f, 1) + StrhLength, OrElse(so.length, LengthOf(t))),
        StrhBodyOff(f, 1) + StrhBuffer, OrElse(so.buffer, t.max_chunk_size))

PatchStrh(f, b, t, so) ==
  Patch(Patch(f, b + StrhLength, OrElse(so.length, LengthOf(t))),
        b + StrhBuffer, OrElse(so.buffer, t.max_chunk_size))

PatchStreams(f, tracks, o) ==
  LET upto[i \in 0..Len(tracks)] ==
        IF i = 0 THEN f
        ELSE PatchStrh(upto[i - 1], StrhBodyOff(f, i), tracks[i], o.streams[i])
  IN  upto[Len(tracks)]

PatchDmlh(f, tracks, o, at) ==
  IF at = {} THEN f
  ELSE Patch(f, CHOOSE b \in at : TRUE, OrElse(o.dmlh_total, TotalVideoFrames(tracks)))

PatchPostCounts(f, tracks, o) ==
  PatchDmlh(PatchStreams(PatchAvih(f, tracks, o), tracks, o), tracks, o, BodiesOf(f, "dmlh"))

-----------------------------------------------------------------------------
(* What write_packet leaves in a track's counters. *)

SampleCountOfPacket(t, size, duration) ==
  IF ~IsAudio(t) THEN 1
  ELSE IF t.entry.sample_size > 0 THEN size \div t.entry.sample_size
  ELSE IF duration > 0 THEN duration ELSE 1

Counted(t, size, duration) ==
  [t EXCEPT !.packet_count = @ + 1, !.max_chunk_size = Largest(@, size),
            !.total_bytes = @ + size,
            !.sample_count = @ + SampleCountOfPacket(t, size, duration)]
=============================================================================
