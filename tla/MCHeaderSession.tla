--------------------------- MODULE MCHeaderSession ---------------------------
(* Four stream lists and groups of builder calls for HeaderSession: every   *)
(* method with a value that must come back, one that reads as "absent", and *)
(* groups that speak of the same field twice or of neighbouring streams.    *)
EXTENDS HeaderSession

Pcm == [NoParams EXCEPT !.media = "audio", !.id = "pcm_s16le", !.channels = Some(2),
                        !.sample_rate = Some(8000), !.sample_format = Some("S16")]
Mjpeg == [NoParams EXCEPT !.media = "video", !.id = "avi:fourcc", !.tag = Some("MJPG"),
                          !.width = Some(64), !.height = Some(48), !.frame_rate = Some(<<25, 1>>)]
Dib == [NoParams EXCEPT !.media = "video", !.id = "rgb24", !.width = Some(5), !.height = Some(3),
                        !.frame_rate = Some(<<30, 1>>)]
Text == [NoParams EXCEPT !.media = "subtitle", !.id = "avi:txts", !.ext = Extra(<<7>>, 1)]
In(params, time_base) == [params |-> params, time_base |-> time_base]

MCInputs == << <<In(Pcm, <<1, 8000>>), In(Mjpeg, <<1, 25>>), In(Text, <<1, 1000>>)>>,
               <<In(Dib, <<1, 30>>), In(Mjpeg, <<1, 25>>)>>,
               <<In(Pcm, <<1, 8000>>)>>,
               <<In(Mjpeg, <<1, 25>>), In(NoParams, <<1, 1>>)>> >>

OneField == << <<576, 720, 576, 720, 0, 0, 0, 23>> >>
TwoFields == << <<240, 720, 240, 720, 1, 2, 0, 21>>, <<240, 720, 240, 720, 1, 2, 0, 284>> >>

Guids == [valid |-> 16, mask |-> {0, 1}, guid |-> KsGuid(1)]

MCGroups == <<
  <<Call("has_index", 0, FALSE), Call("copyrighted", 0, TRUE)>>,
  <<Call("avih_flags", 0, {5, 20})>>,
  <<Call("avih_flag_bit", 0, {0}), Call("was_capture_file", 0, TRUE),
    Call("must_use_index", 0, FALSE)>>,
  <<Call("padding_granularity", 0, 512), Call("micro_sec_per_frame", 0, 40)>>,
  <<Call("padding_granularity", 0, 12), Call("initial_frames", 0, 3),
    Call("micro_sec_per_frame", 0, 0)>>,
  <<Call("digitization_date", 0, <<"d", " ", "1">>), Call("smpte_timecode", 0, <<"t", "2">>),
    Call("dmlh_body_size", 0, 9)>>,
  <<Call("dmlh_total_frames", 0, 7), Call("dmlh_body_size", 0, 3)>>,
  <<Call("max_bytes_per_sec", 0, 0), Call("suggested_buffer_size", 0, 5),
    Call("per_stream_max_bytes_per_sec", 1, 9), Call("strict_per_stream_budget", 0, FALSE),
    Call("synthesise_idx1_from_ix", 0, TRUE)>>,
  <<Call("name", 1, <<"a", " ">>), Call("name", 2, <<"b">>), Call("header_data", 2, <<3, "x">>)>>,
  <<Call("name", 2, <<"c", "d", "e">>), Call("header_data", 1, <<0, "">>)>>,
  <<Call("rect", 1, <<1, 2, 3, 4>>), Call("rect", 2, <<0, 0, 0, 0>>), Call("language", 3, 9)>>,
  <<Call("initial_frames", 2, 2), Call("quality", 1, QualityUnset), Call("quality", 2, 5000),
    Call("priority", 2, 1)>>,
  <<Call("start", 2, 6), Call("handler", 2, NoFourcc), Call("handler", 1, "MJPG"),
    Call("fcc_type", 3, "mids")>>,
  <<Call("buffer", 2, 77), Call("buffer", 1, 0), Call("length", 1, 9), Call("length", 2, 0)>>,
  <<Call("sample_size", 1, 0), Call("sample_size", 2, 3)>>,
  <<Call("flags", 2, 1), Call("timebase", 2, <<2, 50>>), Call("timebase", 1, <<0, 1>>)>>,
  <<Call("vprp", 2, Ntsc), Call("vprp", 1, WithFields(Pal, 1, OneField))>>,
  <<Call("vprp", 2, WithFields(WithAspect(WithSignalTotals(Secam, 0, 700), 16, 9), 2, TwoFields))>>,
  <<Call("vprp", 2, WithFields(WithActiveFrame(NoVprpConfig, 8, 0), 3, TwoFields))>>,
  <<Call("super_index_capacity", 0, 16), Call("rec_cluster_packets", 0, 1),
    Call("rec_cluster_bytes", 0, 512), Call("field2_stream", 2, TRUE)>>,
  <<Call("strl_std_index", 0, 5), Call("super_index_capacity", 0, 3)>>,
  <<Call("mid_movi_index", 1, 4)>>,
  <<Call("info", 0, <<"INAM", <<" ", "t", " ">>>>), Call("info", 0, <<"XXXX", <<"u">>>>)>>,
  <<Call("info", 0, <<"INAM", <<>>>>), Call("info", 0, <<"ISFT", <<"v", "w">>>>),
    Call("top_level_info", 0, TRUE)>>,
  <<Call("top_level_junk", 0, 5), Call("disp_chunk", 0, <<3, "d">>),
    Call("cset", 0, <<1, 2, 3, 4>>), Call("top_level_junk", 0, 0)>>,
  <<Call("size_image", 2, 99), Call("pels_per_meter", 2, <<0, 4>>), Call("clr_important", 1, 2),
    Call("planes", 2, 2), Call("planes", 1, 1)>>,
  <<Call("avg_bytes_per_sec", 1, 5), Call("top_down_video", 1, TRUE)>>,
  <<Call("extensible_audio", 1, Guids), Call("indexed_video", 1, <<8, <<1, 2>>>>)>>
>>

MCPackets == {[s |-> 1, size |-> 7, duration |-> 0], [s |-> 2, size |-> 10, duration |-> 3]}
=============================================================================
