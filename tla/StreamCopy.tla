----------------------------- MODULE StreamCopy -----------------------------
(***************************************************************************)
(* Stream copy: parameters and a packet go into a file and come back, and  *)
(* what came back goes into the next one.  A generation is one file.  The  *)
(* first comes from a caller with options, or from another writer.         *)
(***************************************************************************)
EXTENDS AviStreams, VideoConfig

CONSTANTS Callers,        \* what a caller hands over: [params, choices, frame]
          Foreign,        \* streams of other writers: [strh, strf, wire]
          MaxGeneration   \* files written one from the other

ASSUME CopyAssumption == MaxGeneration \in Nat

VARIABLES phase,        \* "caller", "file", "read", "refused", "unreadable"
          generation,   \* files of this crate so far
          resolver,     \* the registry of the program that copies
          params,       \* the parameters as last handed over or read
          choices,      \* the options of the next file
          packet,       \* the packet as last handed over or read
          file,         \* strh, strf, the chunks in front and the packet's bytes
          sent,         \* what the last file was made from
          divisor       \* the bytes of a tick, as read

vars == <<phase, generation, resolver, params, choices, packet, file, sent, divisor>>

\* A packet of n bytes, all different as far as bytes go.
Payload(n) == [i \in 1..n |-> i % 256]

\* The bytes a frame of the given format takes, and 24 bytes of anything else.
PacketFor(p) ==
  Payload(IF p.id = "rawvideo" /\ p.pixel_format # None
          THEN BytesPerPixel(p.pixel_format[1]) * p.width[1] * p.height[1] ELSE 24)

-----------------------------------------------------------------------------
(* What callers, other writers and dictionaries are taken to hand over      *)

Bytes == 0..255
IsSeq(s) == s \in Seq(Range(s))
OptionOf(o, S) == o = None \/ (o = Some(o[1]) /\ o[1] \in S)

IsExtra(x) == x.tail \in Nat /\ IsSeq(x.quads)

IsParams(p) ==
  /\ p.media \in {"video", "audio", "subtitle", "data"}
  /\ p.tag = None \/ p.tag = Some(p.tag[1])
  /\ OptionOf(p.width, Nat) /\ OptionOf(p.height, Nat)
  /\ IsExtra(p.ext)
  /\ OptionOf(p.channels, Nat)
  /\ OptionOf(p.sample_format, DOMAIN BytesPerSample)

\* A raw picture is handed over as a frame of its size, whatever it is of.
IsFrame(c) ==
  c.params.id = "rawvideo" =>
    /\ c.frame = <<>>
    /\ c.params.pixel_format # None => c.params.width # None /\ c.params.height # None

\* A palette of so many colours.
IsChoices(c) == c.indexed # None => IsSeq(c.indexed[1][2])

SoundCallers ==
  \A c \in Callers :
    /\ IsParams(c.params) /\ IsChoices(c.choices)
    /\ IsFrame(c) /\ c.frame \in Seq(Bytes)

\* The fields of a strf are numbers of their width.
IsFile(f) ==
  /\ f.wire \in Seq(Bytes)
  /\ f.strh.len \in Nat /\ f.strf.len \in Nat
  /\ f.strh.len >= 48 /\ f.strh.at[0] = "vids" /\ f.strf.len >= 40 =>
       f.strf.at[4] \in Nat /\ f.strf.at[8] \in Int
  /\ f.strh.len >= 48 /\ f.strh.at[0] = "auds" /\ f.strf.len >= 14 =>
       f.strf.at[2] \in Nat /\ (f.strf.len >= 18 => f.strf.at[16] \in Nat)

SoundForeign == \A f \in Foreign : IsFile(f)

IsSet(s) ==
  s.nal \in {7, 33} =>
    /\ s.width \in Nat /\ s.height \in Nat
    /\ s.window = None \/ \A k \in 1..4 : s.window[1][k] \in Nat
Sound(data) ==
  data.form \in {"avcC", "hvcC", "annexB"} =>
    IsSeq(data.nals) /\ \A k \in DOMAIN data.nals : IsSet(data.nals[k])
SoundSpelling ==
  /\ \A q \in DOMAIN ConfigSpelled : Sound(ConfigSpelled[q])
  /\ \A b \in DOMAIN FrameSpelled : Sound(FrameSpelled[b])

ASSUME SoundAssumption == SoundCallers /\ SoundForeign /\ SoundSpelling

\* A G.711 or ADPCM tag on samples of sixty-four bits: the file opens, and the
\* depth is lost when it is read, as no such codec has it.
TooDeep(p) ==
  /\ p.media = "audio" /\ p.tag \in {Some(6), Some(7), Some(17)}
  /\ PcmBitsPerSample(p.id, p.sample_format) = Some(64)
NoneTooDeep == \A c \in Callers : ~TooDeep(c.params)

-----------------------------------------------------------------------------
(* The state machine *)

NoFile == [strh |-> EmptyBody, strf |-> EmptyBody, before |-> <<>>, wire |-> <<>>]
NothingSent == [params |-> NoParams, choices |-> NoChoices, packet |-> <<>>, align |-> 0]

Init ==
  /\ generation = 0
  /\ resolver \in Resolvers
  /\ sent = NothingSent
  /\ divisor = None
  /\ \/ \E c \in Callers :
          /\ phase = "caller" /\ params = c.params /\ choices = c.choices
          /\ packet = c.frame \o PacketFor(c.params) /\ file = NoFile
     \/ \E f \in Foreign :
          /\ phase = "file" /\ file = f
          /\ params = NoParams /\ choices = NoChoices /\ packet = <<>>

\* open_avi, write_header and write_packet: the packet is packed when the
\* stream has a layout and the size is the layout's.
Packed(entry, data) == IF entry.layout = None THEN data ELSE Pack(entry.layout[1], data)

WriteFile(entry) ==
  /\ phase' = "file"
  /\ generation' = generation + 1
  /\ file' = [strh |-> WriteStrh(entry, params, NoOverrides), strf |-> entry.strf,
              before |-> <<>>, wire |-> Packed(entry, packet)]
  /\ sent' = [params |-> params, choices |-> choices, packet |-> packet,
              align |-> entry.sample_size]
  /\ UNCHANGED <<resolver, params, choices, packet, divisor>>

Refuse == phase' = "refused" /\ UNCHANGED <<generation, resolver, params, choices, packet,
                                            file, sent, divisor>>

Mux(entry) == IF entry.ok THEN WriteFile(entry) ELSE Refuse

Write ==
  /\ phase \in {"caller", "read"}
  /\ generation < MaxGeneration
  /\ Mux(BuildStrf(params, choices))

\* open_avi and next_packet: the packet is unpacked by the layout as read.
Unpacked(s, wire) ==
  IF ReadLayout(s.params, IF s.picture = None THEN None ELSE s.picture) = None THEN wire
  ELSE Unpack(ReadLayout(s.params, s.picture)[1], wire)

Deliver(s) ==
  /\ phase' = "read"
  /\ params' = s.params
  /\ choices' = NoChoices
  /\ packet' = Unpacked(s, file.wire)
  /\ divisor' = TimeDeltaDivisor(s.params)
  /\ UNCHANGED <<generation, resolver, file, sent>>

Reject == phase' = "unreadable" /\ UNCHANGED <<generation, resolver, params, choices, packet,
                                               file, sent, divisor>>

Demux(s) == IF Opens(s) THEN Deliver(s) ELSE Reject

\* The chunks of movi, the packet's behind those in front of it.
Chunks(f) ==
  Append(f.before, Chunk(TRUE, Len(f.wire), IF f.wire = <<>> THEN 0 ELSE f.wire[1]))

Filled(s) == IF s.ok THEN [s EXCEPT !.params = FillLayouts(@, Chunks(file))] ELSE s

Read == phase = "file" /\ Demux(Filled(BuildStream(file.strh, file.strf, resolver)))

Next == Write \/ Read

Spec == Init /\ [][Next]_vars

-----------------------------------------------------------------------------
(* Properties *)

\* A value is of its kind whatever went through the files: a picture read
\* from a top-down header has no negative height.
TypeOK ==
  /\ phase \in {"caller", "file", "read", "refused", "unreadable"}
  /\ generation \in 0..MaxGeneration
  /\ params.media \in {"video", "audio", "subtitle", "data"}
  /\ OrElse(params.width, 0) \in Nat /\ OrElse(params.height, 0) \in Nat
  /\ \A i \in DOMAIN packet : packet[i] \in Bytes

\* Parameter sets in reach: what they are sets of is known to whoever wrote
\* them, and they are of one picture.
InReach(p, data) == {c \in {ConfigOf(p.ext), FrameOf(data)} : c.form # "none"}

\* The chunks in front of the frame are not the stream's and not too long.
FrameIsNear ==
  /\ \A k \in DOMAIN file.before : file.before[k].own => file.before[k].size = 0
  /\ PositionOf(file.before, Len(file.before) + 1) + 8 <= PeekBytes

SizeOf(p) == <<p.width[1], p.height[1]>>

\* No parameter set, whole or cut, in the header or in the frame, makes a
\* stream another picture than its own, and one whole set makes it that.
PictureKnown(p, data) ==
  \A c \in InReach(p, data) :
    /\ p.pixel_format \in {None, c.shows.pixel_format}
    /\ c.whole /\ (c = ConfigOf(p.ext) \/ FrameIsNear) =>
         /\ p.pixel_format = c.shows.pixel_format
         /\ c.shows.size = None \/ SizeOf(p) = c.shows.size[1]

\* Sizes are the sender's own or those of the sets.
PictureKept(a, b, data) ==
  IF InReach(b, data) = {}
  THEN <<a.width, a.height, a.pixel_format>> = <<b.width, b.height, b.pixel_format>>
  ELSE SizeOf(b) = SizeOf(a) \/ \A c \in InReach(b, data) : c.shows.size = Some(SizeOf(b))

SameKind(a, b) ==
  /\ a.media = b.media
  /\ PictureKept(a, b, packet)
  /\ <<a.channels, a.sample_rate>> = <<b.channels, b.sample_rate>>

\* A frame rate in lowest terms; 1/25 when none was given.
SameRate(a, b) ==
  a.media # "video" \/
  b.frame_rate = FrameRateFromStrh(VideoScaleRate(a)[2], VideoScaleRate(a)[1])

Copying == phase = "read" /\ generation > 0

\* A stream given as BI_RGB under another name than rawvideo: its caller hands
\* over the rows of the wire, and reads frames.
BareDib ==
  sent.params.media = "video" /\ sent.params.id # "rawvideo" /\ file.strf.at[16] = "BI_RGB"

\* A PCM codec is known by its name; another one by what it was read as.
\* A sub-format GUID may name another codec than the parameters do.
NamedByItself(p, c) ==
  c.extensible = None /\ (generation > 1 \/ (p.tag = None /\ PcmSynthFormatTag(p.id) # None))

\* What came out of a file is what went in: dimensions, pixel format,
\* channels, sample rate, frame rate, and the codec's name; of compressed
\* video it is the picture its parameter sets state.
ParamsSurvive ==
  /\ phase = "read" => PictureKnown(params, packet)
  /\ Copying /\ ~BareDib =>
    /\ SameKind(sent.params, params) /\ SameRate(sent.params, params)
    /\ NamedByItself(sent.params, sent.choices) => params.id = sent.params.id

\* A packet of the stream's own frame size comes back byte for byte: rows
\* are packed and unpacked with the same layout although one is derived
\* from the parameters and the other from the header.
PacketsSurvive ==
  Copying /\ ~BareDib => packet = sent.packet

\* From the third copy on nothing changes any more: parameters the writer
\* replaces by its own (the depth of a companded codec, the bits of an indexed
\* picture, masks in the extra data) are replaced once, and not in turns.
CopyIsStable ==
  Copying /\ generation > 3 => params = sent.params /\ packet = sent.packet

\* A stream with a depth is written in blocks, another one a frame a chunk.
Rated(p) ==
  PcmBitsPerSample(p.id, p.sample_format) # None \/ p.id \in {"pcm_alaw", "pcm_mulaw"}

\* The sample size these parameters are written with is one their format tag
\* does not allow: MP3 or AAC with a depth, ADPCM or G.711 without one.
Contradicts(p, c) ==
  /\ p.media = "audio" /\ c.extensible = None
  /\ LET tag == OrElse(AudioFormatTag(p), 0)
     IN  IF Rated(p) /\ p.channels # Some(0)
         THEN tag \in VariableRateTags ELSE tag \in ConstantRateTags

\* A file of this crate is refused when the tag and the depth it was written
\* with contradict each other, and for no other reason.  What was read of such
\* a file does not contradict itself, so that only the first copy, of a foreign
\* file or of a caller's stream, is ever refused.
CopiesOpen ==
  generation > 0 =>
    /\ phase \in {"read", "unreadable"} =>
         (phase = "unreadable" <=> Contradicts(sent.params, sent.choices))
    /\ phase = "read" => ~Contradicts(params, NoChoices)
    /\ phase = "unreadable" => generation = 1

\* build_audio_strf's comment: compressed audio is written with a sample size
\* of zero, each chunk one frame.
CompressedIsVariable ==
  phase = "file" /\ generation > 0 /\ file.strh.at[0] = "auds" =>
    (file.strf.at[0] \in VariableRateTags => file.strh.at[44] = 0)

\* time_delta_divisor's comment: the stream ticks payload / block_align.
TicksAreBlocks ==
  Copying /\ divisor # None /\ sent.align > 0 => divisor[1] = sent.align
=============================================================================
