----------------------------- MODULE AviAccessors -----------------------------
(***************************************************************************)
(* The two ways demuxer.rs tells what stands in the header: the accessors  *)
(* of AviDemuxer, which answer an Option, and the metadata list open_avi   *)
(* fills, in which what is absent has no key.                              *)
(***************************************************************************)
EXTENDS AviHeaderReader

Pair(a, b) == IF a = 0 \/ b = 0 THEN None ELSE Some(<<a, b>>)
NonEmptySet(bits) == IF bits = {} THEN None ELSE Some(bits)
AllZero(numbers) == \A k \in DOMAIN numbers : numbers[k] = 0

\* The options that hold something, by name.
Present(options) ==
  [k \in {k \in DOMAIN options : options[k] # None} |-> options[k][1]]

-----------------------------------------------------------------------------
(* avih, the dates and what stands at the top level *)

MovieRect(a) == Pair(a.width, a.height)
DeclaredVsActual(a, actual) ==
  IF a.streams \in {0, actual} THEN None ELSE Some(<<a.streams, actual>>)
Reserved(a) == IF AllZero(a.reserved) THEN None ELSE Some(a.reserved)

AvihAnswers(a) ==
  [suggested_buffer_size |-> NonZero(a.suggested_buffer_size),
   initial_frames |-> NonZero(a.initial_frames),
   micro_sec_per_frame |-> NonZero(a.micro_sec_per_frame),
   max_bytes_per_sec |-> NonZero(a.max_bytes_per_sec),
   total_frames |-> NonZero(a.total_frames), streams |-> NonZero(a.streams),
   reserved |-> Reserved(a)]

AvihMetadata(a) ==
  Present([width |-> NonZero(a.width), height |-> NonZero(a.height),
           streams |-> NonZero(a.streams), flags |-> NonEmptySet(a.flags),
           suggested_buffer_size |-> NonZero(a.suggested_buffer_size),
           max_bytes_per_sec |-> NonZero(a.max_bytes_per_sec),
           padding_granularity |-> NonZero(a.padding),
           initial_frames |-> NonZero(a.initial_frames),
           micro_sec_per_frame |-> NonZero(a.micro_sec_per_frame),
           total_frames |-> NonZero(a.total_frames), reserved |-> Reserved(a)])

Summed(numbers) ==
  LET upto[n \in 0..Len(numbers)] == IF n = 0 THEN 0 ELSE upto[n - 1] + numbers[n]
  IN  upto[Len(numbers)]

TopLevelMetadata(v) ==
  Present([junk_count |-> NonZero(Len(v.junk)),
           junk_total_bytes |-> IF v.junk = <<>> THEN None ELSE Some(Summed(v.junk)),
           disp_count |-> NonZero(Len(v.disp)), cset_count |-> NonZero(Len(v.cset)),
           segments |-> IF v.segments > 1 THEN Some(v.segments) ELSE None,
           total_frames_all_segments |-> IF v.dmlh = None THEN None ELSE v.dmlh[1].total_frames,
           idit |-> v.idit, ismp |-> v.ismp])

-----------------------------------------------------------------------------
(* vprp: a body that was not there has no fields per frame *)

AspectRatio(p) == <<p.frame_aspect_ratio \div 65536, p.frame_aspect_ratio % 65536>>

\* The numbers that have an accessor of their own and read zero as absent.
VprpNumbers == {"vertical_refresh_rate", "h_total_in_t", "v_total_in_lines",
                "frame_width_in_pixels", "frame_height_in_lines"}

VprpAnswers(p) ==
  [k \in VprpNumbers |-> IF p.nb_field_per_frame = 0 THEN None ELSE NonZero(p[k])]

VprpFormat(p) == IF p.nb_field_per_frame = 0 THEN None ELSE Some(p.video_format_token)
VprpStandard(p) == IF p.nb_field_per_frame = 0 THEN None ELSE Some(p.video_standard)
VprpAspect(p) ==
  IF p.nb_field_per_frame = 0 \/ p.frame_aspect_ratio = 0 THEN None ELSE Some(AspectRatio(p))
VprpShape(p) ==
  IF p.nb_field_per_frame = 0 THEN None ELSE Some([k \in VprpNumbers |-> p[k]])

NoMetadata == [k \in {} |-> 0]

VprpMetadata(p) ==
  IF p.nb_field_per_frame = 0 THEN NoMetadata
  ELSE Present([k \in VprpNumbers |-> NonZero(p[k])])
         @@ [video_format_token |-> p.video_format_token, video_standard |-> p.video_standard,
             nb_field_per_frame |-> p.nb_field_per_frame]
         @@ Present([frame_aspect_ratio |->
                       IF p.frame_aspect_ratio > 0 THEN Some(AspectRatio(p)) ELSE None])

\* Of a field the numbers that are not zero, by field and place.
FieldMetadata(p) ==
  IF p.nb_field_per_frame = 0 THEN NoMetadata
  ELSE [at \in {at \in (DOMAIN p.field_descs) \X (1..8) : p.field_descs[at[1]][at[2]] > 0} |->
          p.field_descs[at[1]][at[2]]]

-----------------------------------------------------------------------------
(* strf *)

PelsPerMeter(pic) == IF pic.pels_per_meter = <<0, 0>> THEN None ELSE Some(pic.pels_per_meter)
MasksOf(pic) == IF pic.masks = NoMasks THEN None ELSE Some(pic.masks)

PictureAnswers(pic) ==
  [top_down |-> Some(pic.top_down), bitfields |-> MasksOf(pic), palette |-> pic.palette,
   size_image |-> NonZero(pic.size_image), pels_per_meter |-> PelsPerMeter(pic),
   clr_used |-> NonZero(pic.clr_used), clr_important |-> NonZero(pic.clr_important),
   planes |-> Some(pic.planes)]

\* Mutant: a resolution is only told when it has a horizontal part.
PictureMetadataFirst(pic) ==
  Present([top_down |-> IF pic.top_down THEN Some(TRUE) ELSE None, bitfields |-> MasksOf(pic),
           palette_entries |-> IF pic.palette = None THEN None ELSE Some(Len(pic.palette[1])),
           size_image |-> NonZero(pic.size_image),
           pels_per_meter |-> IF pic.pels_per_meter[1] = 0 THEN None ELSE Some(pic.pels_per_meter),
           clr_used |-> NonZero(pic.clr_used), clr_important |-> NonZero(pic.clr_important),
           planes |-> IF pic.planes = 1 THEN None ELSE Some(pic.planes)])

PictureMetadata(pic) ==
  Present([top_down |-> IF pic.top_down THEN Some(TRUE) ELSE None, bitfields |-> MasksOf(pic),
           palette_entries |-> IF pic.palette = None THEN None ELSE Some(Len(pic.palette[1])),
           size_image |-> NonZero(pic.size_image), pels_per_meter |-> PelsPerMeter(pic),
           clr_used |-> NonZero(pic.clr_used), clr_important |-> NonZero(pic.clr_important),
           planes |-> IF pic.planes = 1 THEN None ELSE Some(pic.planes)])

AudioAnswers(a) ==
  [avg_bytes_per_sec |-> NonZero(a.avg), bits_per_sample |-> NonZero(a.bits),
   valid_bits_per_sample |-> a.valid, channel_mask |-> a.mask, subformat |-> a.guid,
   channel_layout |-> IF a.mask = None THEN None ELSE LayoutOf(a.mask[1])]

\* The fields of the extension have keys under its own tag only.
ExtensionMetadata(a) ==
  IF a.format_tag # WAVE_FORMAT_EXTENSIBLE THEN NoMetadata
  ELSE Present([valid_bits_per_sample |-> a.valid, channel_mask |-> a.mask,
                subformat |-> a.guid,
                channel_layout |-> IF a.mask = None THEN None ELSE LayoutOf(a.mask[1]),
                subformat_wformat_tag |->
                  IF a.guid = None THEN None ELSE KsdataformatTag(a.guid[1])])

AudioMetadata(a) ==
  Present([avg_bytes_per_sec |-> NonZero(a.avg), bits_per_sample |-> NonZero(a.bits)])
    @@ ExtensionMetadata(a)

-----------------------------------------------------------------------------
(* strh, strn and strd.  The options of ParseStrh are the answers. *)

StrhKeys == {"fcc_type", "handler", "flags", "priority", "language", "initial_frames",
             "timebase", "start", "length", "buffer", "quality", "sample_size", "rect"}

IdentityAnswers(s) ==
  [name |-> s.name, header_data |-> s.header_data, rect |-> s.strh.rect,
   language |-> s.strh.language]
SchedulingAnswers(s) == [k \in SchedulingSetters |-> s.strh[k]]
KindAnswers(s) == [k \in KindSetters |-> s.strh[k]]
SamplingAnswers(s) == [k \in SamplingSetters |-> s.strh[k]]
StreamAnswers(s) ==
  IdentityAnswers(s) @@ SchedulingAnswers(s) @@ KindAnswers(s) @@ SamplingAnswers(s)

\* Opaque header data is told by its length.
IdentityMetadata(s) ==
  Present([name |-> s.name, rect |-> s.strh.rect, language |-> s.strh.language,
           header_data_len |->
             IF s.header_data = None THEN None ELSE Some(s.header_data[1][1])])
StrhMetadata(s) ==
  Present([k \in SchedulingSetters \cup KindSetters |-> s.strh[k]])
SamplingMetadata(s) == Present([k \in SamplingSetters |-> s.strh[k]])
StreamMetadata(s) == IdentityMetadata(s) @@ StrhMetadata(s) @@ SamplingMetadata(s)
=============================================================================
