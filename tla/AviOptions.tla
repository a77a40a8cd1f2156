----------------------------- MODULE AviOptions -----------------------------
(***************************************************************************)
(* The builder methods of AviMuxOptions and VprpConfig (muxer.rs).  A call *)
(* is its method (without with_ or with_stream_), the stream it names and  *)
(* its value; streams are numbered from 1.  The code keeps the per-stream  *)
(* options in lists with at most one entry for a stream: here a function.  *)
(***************************************************************************)
EXTENDS Packaging, TLC

Call(m, s, v) == [m |-> m, s |-> s, v |-> v]

-----------------------------------------------------------------------------
(* VprpConfig.  A zero is "take the default"; a field description is the   *)
(* tuple of its eight numbers.                                             *)

NoVprpConfig ==
  [video_format_token |-> 0, video_standard |-> 0, vertical_refresh_rate |-> 0,
   h_total_in_t |-> 0, v_total_in_lines |-> 0, frame_aspect_ratio |-> 0,
   frame_width_in_pixels |-> 0, frame_height_in_lines |-> 0, nb_field_per_frame |-> 0,
   field_descs |-> <<>>]

Ratio(x, y) == (x % 65536) * 65536 + (y % 65536)

Interlaced(token, standard, rate, totals, active) ==
  [video_format_token |-> token, video_standard |-> standard, vertical_refresh_rate |-> rate,
   h_total_in_t |-> totals[1], v_total_in_lines |-> totals[2], frame_aspect_ratio |-> Ratio(4, 3),
   frame_width_in_pixels |-> active[1], frame_height_in_lines |-> active[2],
   nb_field_per_frame |-> 2, field_descs |-> <<>>]

Ntsc == Interlaced(4, 2, 60, <<858, 525>>, <<720, 480>>)
Pal == Interlaced(2, 1, 50, <<864, 625>>, <<720, 576>>)
Secam == Interlaced(0, 3, 50, <<864, 625>>, <<720, 576>>)

WithAspect(cfg, x, y) == [cfg EXCEPT !.frame_aspect_ratio = Ratio(x, y)]
WithSignalTotals(cfg, h, v) == [cfg EXCEPT !.h_total_in_t = h, !.v_total_in_lines = v]
WithActiveFrame(cfg, w, h) ==
  [cfg EXCEPT !.frame_width_in_pixels = w, !.frame_height_in_lines = h]
WithFields(cfg, n, descs) == [cfg EXCEPT !.nb_field_per_frame = n, !.field_descs = descs]

-----------------------------------------------------------------------------
(* AviMuxOptions *)

\* The bits of AVIF_HASINDEX and of its neighbours; dwFlags is a set of bits.
AvihBit == [has_index |-> 4, must_use_index |-> 5, is_interleaved |-> 8, trust_ck_type |-> 11,
            was_capture_file |-> 16, copyrighted |-> 17]
DefaultAvihFlags == {AvihBit.has_index, AvihBit.trust_ck_type}

\* strh overrides and what else belongs to one stream.
IdentitySetters == {"name", "header_data", "rect", "language"}
SchedulingSetters == {"initial_frames", "quality", "priority", "start"}
KindSetters == {"handler", "fcc_type", "buffer"}
SamplingSetters == {"sample_size", "length", "flags", "timebase"}
StreamSetters ==
  IdentitySetters \cup SchedulingSetters \cup KindSetters \cup SamplingSetters

NoStreamOptions ==
  [f \in StreamSetters \cup {"vprp", "indexed", "extensible", "avg", "budget", "mid_movi"} |-> None]
    @@ [top_down |-> FALSE, field2 |-> FALSE, bmih |-> NoBmih]

NoOptions(streams) ==
  [rec_packets |-> None, rec_bytes |-> None, super_index_capacity |-> None, info |-> <<>>,
   info_top_level |-> FALSE, junk |-> <<>>, disp |-> <<>>, cset |-> <<>>, avih_flags |-> None,
   buffer |-> None, max_bytes_per_sec |-> None, strict |-> FALSE, synth |-> FALSE,
   strl_std |-> None, padding |-> None, initial_frames |-> None, micro_sec |-> None,
   idit |-> None, ismp |-> None, dmlh_total |-> None, dmlh_size |-> None,
   streams |-> [s \in streams |-> NoStreamOptions]]

Put(o, field, v) == [o EXCEPT ![field] = v]
PutStream(o, s, field, v) == [o EXCEPT !.streams[s][field] = v]

AtLeast(n, least) == IF n >= least THEN Some(n) ELSE None

\* Clusters, vprp, two-field streams, super-index.
LayoutCall(o, c) ==
  CASE c.m = "rec_cluster_packets" -> Put(o, "rec_packets", AtLeast(c.v, 2))
    [] c.m = "rec_cluster_bytes" -> Put(o, "rec_bytes", AtLeast(c.v, 256))
    [] c.m = "super_index_capacity" -> Put(o, "super_index_capacity", AtLeast(c.v, 16))
    [] c.m = "vprp" -> PutStream(o, c.s, "vprp", Some(c.v))
    [] c.m = "field2_stream" -> PutStream(o, c.s, "field2", TRUE)

\* What is collected: an empty LIST INFO value is not.
CollectCall(o, c) ==
  CASE c.m = "info" -> IF c.v[2] = <<>> THEN o ELSE Put(o, "info", Append(o.info, c.v))
    [] c.m = "top_level_info" -> Put(o, "info_top_level", c.v)
    [] c.m = "top_level_junk" -> Put(o, "junk", Append(o.junk, c.v))
    [] c.m = "disp_chunk" -> Put(o, "disp", Append(o.disp, c.v))
    [] c.m = "cset" -> Put(o, "cset", Append(o.cset, c.v))

\* What ends in strf.
FormatCall(o, c) ==
  CASE c.m = "indexed_video" -> PutStream(o, c.s, "indexed", Some(c.v))
    [] c.m = "avg_bytes_per_sec" -> PutStream(o, c.s, "avg", Some(c.v))
    [] c.m = "extensible_audio" -> PutStream(o, c.s, "extensible", Some(c.v))
    [] c.m = "top_down_video" -> PutStream(o, c.s, "top_down", TRUE)
    [] OTHER -> [o EXCEPT !.streams[c.s].bmih[c.m] = Some(c.v)]

\* Mutant: a single flag is set in an empty word, not in the default one.
FlagCallFromZero(o, c) ==
  LET base == OrElse(o.avih_flags, {})
  IN  CASE c.m = "avih_flags" -> Put(o, "avih_flags", Some(c.v))
        [] c.m = "avih_flag_bit" -> Put(o, "avih_flags", Some(base \cup c.v))
        [] OTHER -> Put(o, "avih_flags",
             Some(IF c.v THEN base \cup {AvihBit[c.m]} ELSE base \ {AvihBit[c.m]}))

FlagCall(o, c) ==
  LET base == OrElse(o.avih_flags, DefaultAvihFlags)
  IN  CASE c.m = "avih_flags" -> Put(o, "avih_flags", Some(c.v))
        [] c.m = "avih_flag_bit" -> Put(o, "avih_flags", Some(base \cup c.v))
        [] OTHER -> Put(o, "avih_flags",
             Some(IF c.v THEN base \cup {AvihBit[c.m]} ELSE base \ {AvihBit[c.m]}))

\* Budgets and indexes; a budget, an interval or a capacity of zero is none.
BudgetCall(o, c) ==
  CASE c.m = "suggested_buffer_size" -> Put(o, "buffer", Some(c.v))
    [] c.m = "max_bytes_per_sec" -> Put(o, "max_bytes_per_sec", Some(c.v))
    [] c.m = "per_stream_max_bytes_per_sec" -> PutStream(o, c.s, "budget", NonZero(c.v))
    [] c.m = "strict_per_stream_budget" -> Put(o, "strict", c.v)
    [] c.m = "synthesise_idx1_from_ix" -> Put(o, "synth", c.v)
    [] c.m = "mid_movi_index" -> PutStream(o, c.s, "mid_movi", NonZero(c.v))
    [] c.m = "strl_std_index" -> Put(o, "strl_std", NonZero(c.v))

PowersOfTwo == {2 ^ k : k \in 1..16}

\* avih, the dates and dmlh.
GlobalCall(o, c) ==
  CASE c.m = "padding_granularity" ->
         Put(o, "padding", IF c.v \in PowersOfTwo THEN Some(c.v) ELSE None)
    [] c.m = "initial_frames" -> Put(o, "initial_frames", Some(c.v))
    [] c.m = "micro_sec_per_frame" -> Put(o, "micro_sec", Some(c.v))
    [] c.m = "digitization_date" -> Put(o, "idit", Some(c.v))
    [] c.m = "smpte_timecode" -> Put(o, "ismp", Some(c.v))
    [] c.m = "dmlh_total_frames" -> Put(o, "dmlh_total", Some(c.v))
    [] c.m = "dmlh_body_size" -> Put(o, "dmlh_size", Some(Largest(c.v, 4)))

LayoutMethods == {"rec_cluster_packets", "rec_cluster_bytes", "super_index_capacity", "vprp",
                  "field2_stream"}
CollectMethods == {"info", "top_level_info", "top_level_junk", "disp_chunk", "cset"}
FormatMethods == {"indexed_video", "avg_bytes_per_sec", "extensible_audio", "top_down_video"}
                   \cup DOMAIN NoBmih
FlagMethods == {"avih_flags", "avih_flag_bit"} \cup DOMAIN AvihBit
BudgetMethods == {"suggested_buffer_size", "max_bytes_per_sec", "per_stream_max_bytes_per_sec",
                  "strict_per_stream_budget", "synthesise_idx1_from_ix", "mid_movi_index",
                  "strl_std_index"}

\* The builders of stream options share names with those of avih: a call
\* that names a stream is one of them.
Apply(o, c) ==
  CASE c.m \in LayoutMethods -> LayoutCall(o, c)
    [] c.m \in CollectMethods -> CollectCall(o, c)
    [] c.m \in FormatMethods -> FormatCall(o, c)
    [] c.m \in FlagMethods -> FlagCall(o, c)
    [] c.m \in BudgetMethods -> BudgetCall(o, c)
    [] c.m \in StreamSetters /\ c.s # 0 -> PutStream(o, c.s, c.m, Some(c.v))
    [] OTHER -> GlobalCall(o, c)

\* The overrides of strh that write_header looks up for a stream, and the
\* choices open_avi hands to packaging.
StrhOverrides(so) == [f \in DOMAIN NoOverrides |-> so[f]]
ChoicesOf(so, time_base) ==
  [top_down |-> so.top_down, extensible |-> so.extensible, indexed |-> so.indexed,
   bmih |-> so.bmih, avg |-> so.avg, time_base |-> time_base]
=============================================================================
