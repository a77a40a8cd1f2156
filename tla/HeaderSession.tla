---------------------------- MODULE HeaderSession ----------------------------
(***************************************************************************)
(* A recording as its header sees it: the caller builds options, opens a   *)
(* muxer, writes the header and packets and the trailer, and somebody      *)
(* opens the file.  Of a packet the counters are what the header depends   *)
(* on; where packets and indexes lie is the business of AviMuxer.          *)
(***************************************************************************)
EXTENDS AviAccessors

CONSTANTS Inputs,      \* sequence of stream lists: [params, time_base] each
          Groups,      \* sequence of the builder calls a caller may make at a time
          MaxTurns,    \* how many times
          Packets,     \* packets a caller may write: [s, size, duration]
          MaxPackets   \* packets of one file

ASSUME SessionAssumption ==
  /\ MaxTurns \in Nat /\ MaxPackets \in Nat
  /\ \A p \in Packets : p.s \in Nat /\ p.size \in Nat /\ p.duration \in Nat

VARIABLES phase,    \* "building", "open", "recording", "closed", "read", "refused"
          kind,     \* Avi10 or OpenDml
          input,    \* which stream list
          turns,    \* groups of calls so far
          made,     \* the calls so far
          opts,     \* AviMuxOptions
          tracks,   \* TrackState
          written,  \* packets so far
          file,
          view      \* what the reader made of the file

vars == <<phase, kind, input, turns, made, opts, tracks, written, file, view>>

Streams == DOMAIN Inputs[input]

Init ==
  /\ phase = "building"
  /\ kind \in Kinds
  /\ input \in DOMAIN Inputs
  /\ turns = 0
  /\ made = <<>>
  /\ opts = NoOptions(Streams)
  /\ tracks = <<>>
  /\ written = 0
  /\ file = NoFile
  /\ view = Refused

\* Builder methods, one after the other.  A call for a stream the input does
\* not have is kept by the code and never looked up.
ApplyAll(o, calls) ==
  LET upto[n \in 0..Len(calls)] == IF n = 0 THEN o ELSE Apply(upto[n - 1], calls[n])
  IN  upto[Len(calls)]

Known(calls) == SelectSeq(calls, LAMBDA c : c.s \in Streams \cup {0})

Build(calls) ==
  /\ phase = "building"
  /\ turns < MaxTurns
  /\ opts' = ApplyAll(opts, calls)
  /\ made' = made \o calls
  /\ turns' = turns + 1
  /\ UNCHANGED <<phase, kind, input, tracks, written, file, view>>

\* open_avi: every stream gets its strf, or the first that has none fails it.
TracksFrom(entries) ==
  [i \in Streams |-> NewTrack(Inputs[input][i].params, entries[i])]

Accept(entries) ==
  IF \A i \in Streams : entries[i].ok
  THEN phase' = "open" /\ tracks' = TracksFrom(entries)
  ELSE phase' = "refused" /\ tracks' = tracks

OpenMuxer ==
  /\ phase = "building"
  /\ Accept([i \in Streams |-> BuildStrf(Inputs[input][i].params,
                                ChoicesOf(opts.streams[i], Inputs[input][i].time_base))])
  /\ UNCHANGED <<kind, input, turns, made, opts, written, file, view>>

WriteHeaderStep ==
  /\ phase = "open"
  /\ file' = WriteHeader(tracks, opts, kind)
  /\ phase' = "recording"
  /\ UNCHANGED <<kind, input, turns, made, opts, tracks, written, view>>

WritePacket(p) ==
  /\ phase = "recording"
  /\ written < MaxPackets
  /\ p.s \in Streams
  /\ tracks' = [tracks EXCEPT ![p.s] = Counted(@, p.size, p.duration)]
  /\ written' = written + 1
  /\ UNCHANGED <<phase, kind, input, turns, made, opts, file, view>>

\* Mutant: the RIFF is not finished.
TrailerUnfinished ==
  /\ phase = "recording"
  /\ file' = PatchPostCounts(Written(file, <<Finish>>), tracks, opts)
  /\ phase' = "closed"
  /\ UNCHANGED <<kind, input, turns, made, opts, tracks, written, view>>

\* write_trailer: movi and the RIFF are finished, then the counts patched.
Trailer ==
  /\ phase = "recording"
  /\ file' = PatchPostCounts(Written(file, <<Finish, Finish>>), tracks, opts)
  /\ phase' = "closed"
  /\ UNCHANGED <<kind, input, turns, made, opts, tracks, written, view>>

Read ==
  /\ phase = "closed"
  /\ view' = OpenAvi(file, "none")
  /\ phase' = "read"
  /\ UNCHANGED <<kind, input, turns, made, opts, tracks, written, file>>

Next ==
  \/ \E g \in DOMAIN Groups : Build(Known(Groups[g]))
  \/ OpenMuxer
  \/ WriteHeaderStep
  \/ \E p \in Packets : WritePacket(p)
  \/ Trailer
  \/ Read

Spec == Init /\ [][Next]_vars

-----------------------------------------------------------------------------
(* What the caller asked for, from the calls alone *)

CallsOf(m, s) == {n \in DOMAIN made : made[n].m = m /\ made[n].s = s}
Called(m, s) == CallsOf(m, s) # {}

\* The value of the last call of a method for a stream (0: for the file).
LastCall(m, s) ==
  made[CHOOSE n \in CallsOf(m, s) : \A k \in CallsOf(m, s) : k <= n].v
Wanted(m, s, default) == IF Called(m, s) THEN LastCall(m, s) ELSE default

\* The values of all calls of a method in order.
AllCalls(m) ==
  LET own == SelectSeq(made, LAMBDA c : c.m = m)
  IN  [n \in DOMAIN own |-> own[n].v]

\* A bit of dwFlags is what the last call that speaks of it says; without
\* one it is what DefaultAvihFlags says.
Speaks(c, bit) ==
  \/ c.m = "avih_flags"
  \/ c.m = "avih_flag_bit" /\ bit \in c.v
  \/ c.m \in DOMAIN AvihBit /\ AvihBit[c.m] = bit
Says(c, bit) == IF c.m \in DOMAIN AvihBit THEN c.v ELSE bit \in c.v
WantedBit(bit, speakers) ==
  IF speakers = {} THEN bit \in DefaultAvihFlags
  ELSE Says(made[CHOOSE n \in speakers : \A k \in speakers : k <= n], bit)
WantedFlags ==
  {bit \in {AvihBit[k] : k \in DOMAIN AvihBit} \cup {0, 20} :
     WantedBit(bit, {n \in DOMAIN made : Speaks(made[n], bit)})}

\* What was recorded, from the tracks' own counters.
VideoPackets ==
  IF \E i \in Streams : IsVideo(tracks[i])
  THEN tracks[CHOOSE i \in Streams : IsVideo(tracks[i]) /\ \A j \in 1..(i - 1) : ~IsVideo(tracks[j])].packet_count
  ELSE tracks[1].packet_count

Reading == phase = "read" /\ view.ok

-----------------------------------------------------------------------------
(* Properties *)

TypeOK ==
  /\ phase \in {"building", "open", "recording", "closed", "read", "refused"}
  /\ kind \in Kinds
  /\ turns \in 0..MaxTurns
  /\ written \in 0..MaxPackets
  /\ phase \notin {"building", "refused"} => DOMAIN tracks = Streams
  /\ phase \in {"recording"} => Len(file.open) = 2
  /\ phase \in {"closed", "read"} => file.open = <<>>

\* avih and dmlh say what the caller asked for: single flags, whole words and
\* added bits together, the last call winning; a granularity only when it is a
\* power of two; a number that reads as "absent" reads as absent.  Without a
\* call the frames are those of the first video stream, and the buffer holds
\* the largest chunk of any stream.
LargestRecorded == CHOOSE n \in {tracks[i].max_chunk_size : i \in Streams} :
                     \A i \in Streams : tracks[i].max_chunk_size <= n

AvihReadsBack ==
  Reading =>
    /\ view.avih.flags = WantedFlags
    /\ view.avih.padding =
         (IF Called("padding_granularity", 0) /\ LastCall("padding_granularity", 0) \in PowersOfTwo
          THEN LastCall("padding_granularity", 0) ELSE 0)
    /\ view.avih.initial_frames = Wanted("initial_frames", 0, 0)
    /\ \A m \in {"micro_sec_per_frame", "max_bytes_per_sec", "suggested_buffer_size"} :
         Called(m, 0) => AvihAnswers(view.avih)[m] = NonZero(LastCall(m, 0))
    /\ ~Called("suggested_buffer_size", 0) =>
         view.avih.suggested_buffer_size \in
           {n \in LargestRecorded..(LargestRecorded + 3) : n % 4 = 0}
    /\ view.avih.total_frames = VideoPackets
    /\ DeclaredVsActual(view.avih, Len(view.streams)) = None
    /\ (view.dmlh # None) = (kind = "OpenDml")
    /\ kind = "OpenDml" =>
         /\ view.dmlh[1].total_frames = Some(Wanted("dmlh_total_frames", 0, VideoPackets))
         /\ view.dmlh[1].declared = Largest(Wanted("dmlh_body_size", 0, 4), 4)

\* A strh field of each stream is the last call for that stream, or what the
\* stream is by itself; no call for another stream touches it.
StrhDefault(k, t) ==
  CASE k = "fcc_type" -> t.entry.strh_type
    [] k = "handler" -> t.entry.handler
    [] k = "timebase" -> <<t.entry.scale, t.entry.rate>>
    [] k = "quality" -> QualityUnset
    [] k = "sample_size" -> t.entry.sample_size
    [] k = "length" -> IF IsAudio(t) THEN t.sample_count ELSE t.packet_count
    [] k = "buffer" -> t.max_chunk_size
    [] k = "rect" -> IF IsVideo(t) THEN <<0, 0, t.params.width[1], t.params.height[1]>>
                                   ELSE <<0, 0, 0, 0>>
    [] OTHER -> 0

\* The value that stands for "not set" of each field.
ReadsAs(k, v) ==
  CASE k \in {"fcc_type", "handler"} -> IF v = NoFourcc THEN None ELSE Some(v)
    [] k = "timebase" -> IF v[1] = 0 \/ v[2] = 0 THEN None ELSE Some(v)
    [] k = "quality" -> IF v = QualityUnset THEN None ELSE Some(v)
    [] k = "rect" -> IF v = <<0, 0, 0, 0>> THEN None ELSE Some(v)
    [] OTHER -> NonZero(v)

StreamsReadBack ==
  Reading =>
    /\ Len(view.streams) = Len(tracks)
    /\ \A i \in Streams :
         /\ \A k \in StrhKeys :
              StreamAnswers(view.streams[i])[k] = ReadsAs(k, Wanted(k, i, StrhDefault(k, tracks[i])))
         /\ view.streams[i].name = (IF Called("name", i) THEN Some(LastCall("name", i)) ELSE None)
         /\ view.streams[i].header_data =
              (IF Called("header_data", i) THEN Some(LastCall("header_data", i)) ELSE None)

\* The overrides of strf reach the stream they name and no other, and the
\* picture or the wave format says them back.
PictureReadsBack(pic, i) ==
  /\ pic.size_image = Wanted("size_image", i, 0)
  /\ pic.pels_per_meter = Wanted("pels_per_meter", i, <<0, 0>>)
  /\ pic.clr_important = Wanted("clr_important", i, 0)
  /\ pic.planes = Wanted("planes", i, 1)
  /\ Called("indexed_video", i) => pic.palette = Some(LastCall("indexed_video", i)[2])

WaveReadsBack(a, i) ==
  /\ Called("avg_bytes_per_sec", i) => a.avg = LastCall("avg_bytes_per_sec", i)
  /\ Called("extensible_audio", i) = (a.guid # None)
  /\ Called("extensible_audio", i) =>
       /\ a.mask = Some(LastCall("extensible_audio", i).mask)
       /\ a.guid = Some(LastCall("extensible_audio", i).guid)

FormatsReadBack ==
  Reading => \A i \in Streams :
    LET built == view.streams[i].built IN
    /\ built.picture # None => PictureReadsBack(built.picture[1], i)
    /\ built.audio # None => WaveReadsBack(built.audio[1], i)

\* What OpenDML adds to a stream is in OpenDML files alone, vprp for video
\* streams alone.  What the caller set is read, and no field description is
\* missing up to two: the count and the descriptions come from different
\* places.  The compact index is there for all streams or for none, and not
\* when one of them flushes its index inline.
VprpReadsBack(p, cfg) ==
  /\ p.nb_field_per_frame = Largest(cfg.nb_field_per_frame, 1)
  /\ Len(p.field_descs) >= Least(p.nb_field_per_frame, 2)
  /\ \A k \in VprpNumbers : cfg[k] # 0 => VprpAnswers(p)[k] = Some(cfg[k])
  /\ cfg.frame_aspect_ratio # 0 =>
       Ratio(VprpAspect(p)[1][1], VprpAspect(p)[1][2]) = cfg.frame_aspect_ratio
  /\ cfg.nb_field_per_frame # 0 /\ Len(cfg.field_descs) = cfg.nb_field_per_frame =>
       p.field_descs = cfg.field_descs

InlineFlush == \E i \in Streams : Called("mid_movi_index", i)

OpenDmlReadsBack ==
  Reading => \A i \in Streams :
    LET s == view.streams[i] IN
    /\ (s.vprp.nb_field_per_frame # 0) = (kind = "OpenDml" /\ IsVideo(tracks[i]))
    /\ s.vprp.nb_field_per_frame # 0 => VprpReadsBack(s.vprp, Wanted("vprp", i, NoVprpConfig))
    /\ (s.indx.type # None) = (kind = "OpenDml")
    /\ (s.indx.std # None) =
         (kind = "OpenDml" /\ Wanted("strl_std_index", 0, 0) # 0 /\ ~InlineFlush)
    /\ s.indx.std # None => s.indx.std[1].sub = (IF Called("field2_stream", i) THEN 1 ELSE 0)

\* What is collected comes back in the order of the calls wherever LIST INFO
\* stands, also asked for by identifier, and the dates without their
\* terminators.  An empty text is not collected.
Trimmed(text) == StripStart(StripEnd(text, {" "}), {" "})
WantedInfo == SelectSeq(AllCalls("info"), LAMBDA e : e[2] # <<>>)
WantedFor(id) == SelectSeq(WantedInfo, LAMBDA e : e[1] = id)

TextsReadBack ==
  Reading =>
    /\ view.info = [n \in DOMAIN WantedInfo |->
                      <<InfoKey(WantedInfo[n][1]), Trimmed(WantedInfo[n][2])>>]
    /\ \A id \in {"INAM", "ISFT", "XXXX"} :
         InfoAllFor(view.info, id) = [n \in DOMAIN WantedFor(id) |-> Trimmed(WantedFor(id)[n][2])]
    /\ view.junk = AllCalls("top_level_junk")
    /\ [n \in DOMAIN view.disp |-> view.disp[n].at[0]] = AllCalls("disp_chunk")
    /\ view.cset = AllCalls("cset")
    /\ view.idit = (IF Called("digitization_date", 0) THEN Some(LastCall("digitization_date", 0)) ELSE None)
    /\ view.ismp = (IF Called("smpte_timecode", 0) THEN Some(LastCall("smpte_timecode", 0)) ELSE None)

\* A file this crate closes opens again unless the caller gave an audio stream
\* a sample size its format tag forbids, and then it does not: what packaging
\* writes by itself never breaks the rule of the reader.
Forbidden(i) ==
  /\ Wanted("fcc_type", i, tracks[i].entry.strh_type) = "auds"
  /\ AudioStrhViolation([format_tag |-> tracks[i].entry.strf.at[0],
                         sample_size |-> Wanted("sample_size", i, tracks[i].entry.sample_size)])
OwnFilesOpen ==
  phase = "read" => view.ok = \A i \in Streams : ~(Called("sample_size", i) /\ Forbidden(i))

\* The chunks of a list lie end to end from its form type to its end, in
\* every list of a closed file.
Tiles(f, p) ==
  LET items == ListBody(f, p, p + 8 + f.chunks[p].size)
  IN  IF items = <<>> THEN f.chunks[p].size = 4
      ELSE Following(f, items[Len(items)], p + 8 + f.chunks[p].size) = p + 8 + f.chunks[p].size
ListsNest ==
  phase = "closed" =>
    /\ 8 + file.chunks[0].size = file.len
    /\ \A p \in DOMAIN file.chunks : IsList(file.chunks[p]) => Tiles(file, p)

\* patch_post_counts writes three fields of avih, two of each strh and one of
\* dmlh, by offsets that are partly literals; nothing else of the header
\* changes, whatever options moved its chunks.
Patched(id) ==
  CASE id = "avih" -> {4, 16, 28} [] id = "strh" -> {StrhLength, StrhBuffer}
    [] id = "dmlh" -> {0} [] OTHER -> {}
PatchesStayInField ==
  [][phase' = "closed" =>
       /\ file'.stray = {}
       /\ DOMAIN file'.chunks = DOMAIN file.chunks
       /\ \A p \in DOMAIN file.chunks :
            /\ file'.chunks[p].id = file.chunks[p].id
            /\ \A o \in DOMAIN file.chunks[p].body.at \ Patched(file.chunks[p].id) :
                 file'.chunks[p].body.at[o] = file.chunks[p].body.at[o]]_vars

\* A key of the metadata list is there exactly when the accessor of its name
\* answers, with the same value.
Agree(metadata, answers, keys) ==
  \A k \in keys : answers[k] = (IF k \in DOMAIN metadata THEN Some(metadata[k]) ELSE None)
MetadataAgrees ==
  Reading =>
    /\ Agree(AvihMetadata(view.avih), AvihAnswers(view.avih), DOMAIN AvihAnswers(view.avih))
    /\ MovieRect(view.avih) # None => {"width", "height"} \subseteq DOMAIN AvihMetadata(view.avih)
    /\ \A i \in Streams :
         LET s == view.streams[i] IN
         /\ Agree(StreamMetadata(s), StreamAnswers(s), StrhKeys \cup {"name"})
         /\ Agree(VprpMetadata(s.vprp), VprpAnswers(s.vprp), VprpNumbers)
         /\ s.built.picture # None =>
              Agree(PictureMetadata(s.built.picture[1]), PictureAnswers(s.built.picture[1]),
                    {"bitfields", "size_image", "pels_per_meter", "clr_used", "clr_important"})
         /\ s.built.audio # None =>
              Agree(AudioMetadata(s.built.audio[1]), AudioAnswers(s.built.audio[1]),
                    DOMAIN AudioAnswers(s.built.audio[1]))
=============================================================================
