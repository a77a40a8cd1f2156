# oxideav-avi in TLA+

A verification development for the `oxideav-avi` crate: a pure-Rust AVI
(RIFF, AVI 1.0 and OpenDML 2.0) muxer and demuxer. TLA+ modules model the
code, TLC checks them on small instances, TLAPS proves the theorems listed
below for every value of the constants. `PROJECT.json` maps every definition
to the source lines it stands for.

## Inventory

The crate is sequential. A caller drives one `AviMuxer` over a
`Box<dyn WriteSeek>` or one `AviDemuxer` over a `Box<dyn ReadSeek>`; there is
no thread, lock, callback or message, and nothing is retried or timed out by
the crate itself. What makes it hard is state that has to stay consistent over
long sequences of calls: file offsets that are computed before bytes are
written and resolved much later, indexes in four layouts that describe the
same chunks, list sizes patched in afterwards, per-stream counters that several
code paths advance, and errors that leave a half-finished file behind.

| component | state | operations | what makes it correct |
|---|---|---|---|
| RIFF plumbing (`riff.rs`) | the position of the reader or writer | write_chunk, begin_list, finish_chunk, read_chunk_header, skip_chunk, skip_pad | word alignment; a list size is patched once, with the distance to the end of its body |
| AVI muxer (`muxer.rs`) | output position, open RIFF / movi / rec lists, idx1 entries, pending `ix##` entries and `ix##` records per stream, counters, segment list | write_header, write_packet, write_text_chunk, write_palette_change, set_field2_offset, write_trailer | the file can be walked; every index entry names its chunk; the indexes are complete; the packets are those of the caller, in order |
| option builders (`AviMuxOptions`) | one configuration, fixed at `open_avi` | `with_*` | clamps; no two options that ask for contradictory layouts |
| opening (`open_avi_inner`, `walk_riff_body`, `parse_*`) | streams, movi segments, index tables | one pass over the file | whatever the muxer wrote is found again; damaged sizes and counts never lead outside the file |
| packet reading (`next_packet`) | segment number, read position, packet counters | next_packet | packets in file order with the right stream and time; side-band chunks consumed, not returned |
| seeking (`seek_to`, keyframe and standard-index seeks) | read position, counters, the lazily built `SeekCache` | seek_to, seek_to_keyframe_strict, seek_to_first_video_keyframe_after, seek_via_std_indexes | lands on the last keyframe at or before the target; reading on continues with the timestamps a linear read gives |
| accessors and cross-checks | none beyond the parsed fields | getters, `*_violations` | a cross-check reports a file exactly when it is inconsistent |
| stream formats (`stream_format.rs`) | none | parse and write BITMAPINFOHEADER, WAVEFORMATEX, palettes, channel masks | parse is the inverse of write |
| packaging (`packaging.rs`) | none | choose FourCC, format tag, strf, scale and rate | a table |
| raw DIB rows (`raw_dib.rs`) | none | pack, unpack, format mapping | unpack is the inverse of pack |
| codec configuration (`video_config.rs`) | the streams whose picture is not yet known, while a file is opened | `layout_of` for four codec families, the walk of movi for a first frame | the picture a stream is read with is its own, whichever of its parameter sets are whole, cut or missing |
| registration (`lib.rs`) | none | register, probe | out of scope here |

The muxer and the demuxer share no state: they meet in the file. Inside the
muxer every public method is a composition of private methods over one struct;
`write_packet` and `write_sideband_chunk` share the roll, cluster and index
steps in duplicated code. The container registry, the sink and the source are
external.

The hazards found while reading are listed in `PROJECT.json` with the line
where they bite.

## Modules

`AviMuxer` is the muxer: the configuration (`opts`), the struct together with
its output (`m`), and a count of trailer calls that only bounds the model.

* The output is byte-accurate in layout and abstract in content. `m.pos` is the
  position of the writer, and `m.disk` maps the offset of every chunk header to
  a cell: the kind of chunk, its stream, its size field, and the part of the
  body a property speaks of (keyframe flag; base and entries of an index).
* A private method is an operator from muxer states to muxer states with the
  name of the method: `OpenRecCluster`, `CloseRecCluster`, `FlushIxForTrack`,
  `CloseCurrentSegment`, `OpenAvixSegment`, `EmitPaddingJunk`,
  `PatchSuperIndex` and so on. `Then` is Rust's `?`: what follows happens only
  if `ok` still holds, and whatever has been changed before an error stays
  changed.
* A public method is an action: `WriteHeader`, `WritePacket(p)`,
  `WriteSidebandChunk(c)`, `SetField2Offset(off)`, `WriteTrailer`, and
  `EarlyReturn` for the calls that return before touching anything. `m.ok` is
  the answer of the last call.
* `write_packet` takes the offset its index entries will hold before it writes the
  chunk, from a position it may have measured for the roll test and must drop when
  a roll or a cluster moves the output: `ChunkOff` is that cache, and the entries
  are made from it and not from the output position (`StampIx`, `StampIdx1`).
* Chunk payloads are lengths; FourCCs are a kind and a stream number; the whole
  of `LIST hdrl` is one cell whose length is part of the configuration, its
  fields of later interest (frame count, buffer size, stream lengths, the
  `indx` of each stream) being variables of their own that the trailer fills.
* Numbers that are parameters of the format are constants (`DwMax` for
  `u32::MAX`, `TwoGiB`), so that the runs can put them within reach.

`AviContainer` is what the muxer promises: a sequence of chunks cut into
segments. `AviMuxerRefinement` maps the muxer's disk to it by reading the media
chunks back in file order. `MCAviMuxer` gives the constants their values. The
proofs are in five modules, each extending the one it builds on:
`AviMuxer_proofs` (types and standard indexes), `AviMuxer_invariants` (what each
private method changes, and nothing else; idx1, clusters, alignment),
`AviMuxer_discipline` (append only, stamps, index layout, and that the finished
file can be walked), `AviMuxer_coverage` (its indexes are complete) and `AviMuxer_refines` (it implements the container).

`AviReader` is the demuxer as operators over a file, which is a disk of the
same cells and the length the file really has.

* `Open` is `open_avi`: the walk of the RIFF tree with its clamps (`Children`,
  `Extensions`, `MoviSegments`), idx1 and its offset base (`BuildIdxTable`), the
  `ix##` scan and the in-strl indexes (`StdIndexes`), the side-band scans. Its
  result is a record with the fields of the struct that change or steer what
  follows; `Closed` stands for an error.
* `ReadPacket` is `next_packet`. One turn of the Rust loop is `ReadChunk`, and
  each of its exits has a name: `LeaveSegment`, `StopAfterHeader`, `EnterList`,
  `TakeSideband`, `Deliver`. `d.got` is the answer of the last call.
* `SeekByIdx1`, `SeekByStd`, `Seek` and `SeekAfter` are the seeks; the tables
  and searches of `SeekCache` are a module of their own, with the bisecting and
  the linear form of each search side by side.
* `EffectivePaletteAt` and `EffectivePaletteAfterChanges` apply the palette
  changes, whose bodies and positions come from two different scans.
* A walk that terminates because the file does is a recursive function over
  offsets; there is no RECURSIVE operator.

`AviDemuxer` is the state machine: a file, opened, then any sequence of
`NextPacket` and the four seeks. Its properties compare the answers with the
chunks that stand in the file (`list`, taken directly from the disk and not
through any index). `AviSource` is what a caller may expect: a list of packets,
a cursor reading moves by one, seeks that land in front of a keyframe.
`AviDemuxer` implements it with the number of packets before the read position
as the cursor. `MCAviDemuxer` lays files out from short plans. `AviDemuxer_proofs`
has the theorems about every file, `AviDemuxer_orderly` that on the files a writer
lays out (`Orderly`) the demuxer implements `AviSource` and flags its packets
right.

`AviRoundTrip` composes the two sides: in every state of `AviMuxer` the output
is handed to `AviReader` as a file, opened and read to the end.
`AviCrossChecks` adds the `*_violations` accessors that set index chunks
against each other and against the movi lists.

`StreamFourcc` models the two characters of a chunk name that carry the stream
number, which the other modules abstract to the number itself.

Those modules look at where chunks lie. What stands in them is the business of
two more groups, which share a form for it: a body is its length and its
little-endian fields by the offset they start at (`StreamFormat`), so that a
writer and a parser meet in offsets, as they do in the code.

*A stream's format.* `RawDib` has the pixel formats, the row layout and both
row loops of `raw_dib.rs`; `StreamFormat` the strf bodies; `StreamHeader` the
56 bytes of strh with an optional override for each field; `Packaging` the way
from parameters and options to a `StrfEntry` (`BuildStrf`); `AviStreams` the
way back, `build_stream`, with the codec registry as an external function.
`VideoConfig` is what the parameter sets of H.264, H.265, VP9 and AV1 add to it:
`layout_of`, and `fill_layouts_from_parameter_sets` with its walk to the
stream's first chunk. A parameter set is the record of its syntax elements and
of how far its data reach, since the two H.264 parsers read to different places
in the same set; extra data and frames are bytes that spell a set
(`ConfigSpelled`, `FrameSpelled`). `StreamCopy` composes them as a state machine: parameters and a packet from a
caller, or a stream of another writer, go into a file, are read, and what was
read goes into the next file, up to `MaxGeneration` times.

*The header of a file.* `AviOptions` has every builder method of
`AviMuxOptions` and `VprpConfig` as an operator from options to options;
`AviHeader` is `write_header` chunk by chunk and `patch_post_counts` at its file
offsets; `AviHeaderReader` is what `open_avi` makes of the chunks in front of
movi; `AviAccessors` has both ways the demuxer tells it, accessor and metadata
key. `HeaderSession` composes them: builder calls in any order, `open_avi`,
`write_header`, packets (of which only the counters matter here),
`write_trailer`, and a reader.

## Runs

| run | checks | shows |
|---|---|---|
| `mux_index` | TypeOK, Idx1Resolves, IxResolves, SuperIndexResolves, ClusterAccounting, PacketsAligned | any order of calls, retries after an error and writes after the trailer included, leaves every index entry pointing at its chunk |
| `mux_file` | EveryChunkIndexedOnce, OneIndexLayout, SpansAddUp, FileWellFormed, StampsCount, AppendOnly, ImplementsContainer | for a caller who stops at the first error: if `write_trailer` answers Ok the file can be walked, the standard indexes list every chunk exactly once, and the file holds the caller's chunks in order |
| `demux_read` | TypeOK, KeyFlagsExact, LandsOnBest, StampsAgree, SidebandOnce, PalettesInForce, ImplementsSource, ReadsToEnd | whole or cut, read straight through or after two seeks anywhere, a file gives each of its packets once and in order; flags and timestamps are those that stand in the file wherever an index can say so; a seek lands on the best keyframe; the palette answered for a packet is the one the changes before it leave; a caller who reads on comes to Eof |
| `round_trip` | ReadsBack, IndexesAgree, SeeksLand, RolledSegmentsSurvive | a finished file reads back as what was written, passes the strict check and the cross-checks of its indexes, and can be sought by standard index in every layout; an unfinished one keeps the segments rolled before |
| `stream_copy` | TypeOK, ParamsSurvive, PacketsSurvive, CopyIsStable, CopiesOpen | parameters and packets that go through a file come back, for every pixel format, audio codec and option; compressed video gets the picture its parameter sets state; a chain of copies settles, and the files refused on the way are exactly those whose format tag and depth contradict each other |
| `header` | TypeOK, AvihReadsBack, StreamsReadBack, FormatsReadBack, OpenDmlReadsBack, TextsReadBack, OwnFilesOpen, ListsNest, MetadataAgrees, PatchesStayInField | whatever builder methods are called in whatever order, the header of the closed file says what the last call for each field and stream asked for, accessors and metadata say it back, and the counts are patched into their own fields |
| `mux_two_gib` | BelowTwoGiB is violated | an AVI 1.0 file can pass 2 GiB with every call answering Ok |
| `mux_truncation` | TruncationReported is violated | super-index records can be dropped while the report says none were |
| `demux_stamps` | StampsResume is violated | after a seek the other streams repeat a timestamp |
| `stream_fourcc` | ReadAsWritten is violated | stream 10 is written in decimal and read in hexadecimal |
| `copy_ticks` | TicksAreBlocks is violated | a G.711 stream read by a program that knows the codec does not advance by its blocks: its timestamps run at half the rate |
| `copy_compressed` | CompressedIsVariable is violated | the MP3 or AAC of another writer, with 16 bits a sample, is copied in PCM blocks, which no demuxer of this crate opens |

The last six are disagreements between the code and its documentation; each is
quoted under `findings`.

### Bounds

Two streams, one video and one audio; chunk and header sizes are the real ones,
and the packets (1601, 700 and 1 byte, odd and even, key and delta) are chosen
against the smallest segment limit the code accepts, 4096 bytes, so that four
chunks (`MaxChunks`) roll up to three segments. Nine configurations cover the
layouts: plain OpenDML, packet-counted clusters with alignment, byte-counted
clusters with inline index and synthesised idx1, inline index with two-field
entries, the compact in-strl index (capacity 2, so that it is kept, outgrown or
rolled away within the bound), two AVI 1.0 files, and two with a segment limit
above `DwMax` = 4700, where offsets and list sizes overflow their 32 bits.
Clusters of two and three packets, inline index cadences of one and two and a
compact capacity of two all fill, overflow and restart within four chunks.
`TwoGiB` is 6000 in the passing runs, so the AVI 1.0 ceiling is met too.
`MaxTrailers` = 2 lets a trailer that failed be called again. `Disciplined`
separates the callers: FALSE allows every sequence of calls, TRUE a caller who
writes nothing more once a call has failed or the trailer has been written.
`mux_two_gib` alone needs more chunks, 130 small ones of a single kind.

`demux_read`: nine whole files and the cuts of two more. The whole ones are a
plain file with idx1 relative, absolute and out of order; side-band chunks (palette changes
that overlap, that leave a gap behind the table, and one that does not parse), a
chunk of a stream the header does not declare and a keyframe entry with
AVIIF_NO_TIME, with and without idx1; LIST rec clusters with JUNK between them;
inline `ix##` inside and outside clusters; two segments with and without idx1.
The cut ones end at four places in and behind every header from the movi list
on: in the header's size, in a form type, right behind a list header, inside a
body. Chunk lengths are odd and even, an audio chunk is shorter than one tick.
Two seeks (`MaxSeeks`) to a target before, between and past all timestamps
are enough for a seek that follows a seek to another stream and segment; the
number of reads is bounded by the file. `round_trip` takes the bounds of
`mux_file` with PCM audio of two bytes a tick, so that audio timestamps are
sums of lengths. `stream_fourcc` needs eleven streams and has twelve.

`stream_copy`: every writable pixel format in pictures of one to four columns
and up to two rows, so that rows need one, two, three or no bytes of padding;
compressed, untyped, indexed and bare-DIB video with and without extra data;
PCM in every depth, extensible formats, companded and compressed audio with
and without a sample format and a bit rate; 130 streams of other writers, with
known and unknown masks, upright and bottom-up, of every depth, and with a
short or missing strf. Compressed video comes in eight pictures (every chroma
format, depths with and without a pixel format, fields and frames, with and
without a window, one larger than the widest number), in all four families,
with a configuration record that is whole, cut behind the depths, empty, or
with a window larger than the picture, or none, with a first frame that has a
whole set, a cut one or none, and in files of other writers with empty chunks,
clusters, a palette change or a long chunk in front of it. 32-bit numbers end
at 63 (`MaxU32`) and the walk after 64 bytes (`PeekBytes`). Four generations, because the third is the first that
two copies in a row can be compared on (`CopyIsStable`).

`header`: four stream lists (audio, video and text; two video streams; audio
alone; one with a stream that cannot be packaged), both kinds of file, and two
turns (`MaxTurns`) out of 28 groups of builder calls: every method is in a
group, with a value that must come back or one that reads as absent, and any
two groups meet in both orders, which is enough since no field depends on more
than two methods. Two packets (`MaxPackets`) make the counters of two streams
differ.

CHECK_DEADLOCK is FALSE where a behaviour may really end: no more calls within
the bound, a file that could not be opened, all packets taken.

### What the demuxer properties leave out, because the code does

* Timestamps after a seek are right for the stream that was sought. The others
  repeat one (`demux_stamps`).
* Index entries of side-band chunks tick the seek tables but not the packet
  counters, so on a stream with palette or text chunks timestamps after a seek,
  and the place a seek lands on, are off by their number.
* `packet_is_keyframe` and the other per-packet tables count side-band entries
  as packets.
* A palette change that does not parse keeps its position and loses its colours:
  `effective_palette_at` then applies one change too many, unless it stands
  behind all the others (`InStep`).
* Without idx1 no palette is answered once a change has been read, and before
  that the stream's own, whichever packet is asked about.
* A compact file without any chunk reports its own index: an empty movi list
  ends where it begins, and no base offset lies in it.
* With an idx1 a seek reaches the primary segment only.
* With an idx1 that is out of order the counters after a seek depend on where
  the walk stops.
* In a file without idx1 side-band bodies are collected again when a seek leads
  back over them; with one, those in continuation segments are never collected.
* Until the first roll the primary RIFF has size zero on disk, so a recording
  that stops there does not open.
* The ix## scan is skipped for a file of one segment without a super-index,
  although its comment says it does not depend on one.
* Eof after a cut chunk has consumed the chunk's header: a further call reads on
  behind it. Where it stands there is payload, which the model takes not to look
  like a chunk that fits.

### What the stream copy properties leave out, because the code does

* A stream given as BI_RGB under another name than `rawvideo` (`BareDib`): its
  caller hands over rows as they are on the wire and reads frames.
* An indexed 8-bit picture is read as 24-bit `rawvideo`, with rows misread.
* A companded stream is read with a 16-bit sample format; its copy says 16 bits
  and twice the block size. A 24-bit stream in 32-bit containers
  (WAVEFORMATEXTENSIBLE) is read as `pcm_s24le`. The copy of the copy is stable.
* The codec of a tagged stream is what the registry says, and not compared.
* A first copy may be one that `open_avi` refuses. `build_audio_strf` writes
  blocks where the parameters have a depth and frames where they have none,
  whatever the tag is, and the demuxer takes the depth from wBitsPerSample: MP3 or
  AAC with 16 bits there, as some writers leave it, is read as S16 and copied as
  blocks (`copy_compressed`); ADPCM, or G.711 under a name the muxer
  does not know, without a depth is copied as frames. `CopiesOpen` says that
  exactly these files are refused (`Contradicts`), and that nothing read of a
  file of this crate is one of them.

### What the header properties leave out, because the code does

* `nb_field_per_frame` above 2 without as many field descriptions writes two,
  although the comment at `muxer.rs:5573` speaks of one per field.
* `with_stream_sample_size` changes strh, but dwLength is still counted with
  packaging's sample size.
* A caller can forbid the reader a file: a sample size that contradicts the
  format tag (`Forbidden`).

### Fairness

`ReadsToEnd` assumes `WF_vars(NextPacket)`: a caller who is done seeking (the
bound on seeks makes every caller so) goes on calling `next_packet`, which is
possible in every state with an open demuxer. It says that no call leaves the
reader where it was: a chain of Ok answers, refusals and I/O errors comes to
Eof. For the muxer no liveness is claimed: every method runs to its end inside
one call, the crate never waits, and whether a file is finished is the caller's
decision.

## Proofs

| theorem | states | of whom |
|---|---|---|
| `TypeCorrect` | `TypeOK` | every caller |
| `StandardIndexesResolve` | `IxResolves` | every caller |
| `SuperIndexRecordsResolve` | `SuperIndexResolves` | every caller |
| `Idx1EntriesResolve` | `Idx1Resolves` | every caller |
| `ClustersAccounted` | `ClusterAccounting` | every caller |
| `PacketsStayAligned` | `PacketsAligned` | every caller |
| `OneIndexLayoutHolds` | `OneIndexLayout` | a disciplined caller |
| `StampsCountHolds` | `StampsCount` | a disciplined caller |
| `AppendOnlyHolds` | `AppendOnly` | a disciplined caller |
| `FileWellFormedHolds` | `FileWellFormed` | a disciplined caller |
| `EveryChunkIndexedOnceHolds` | `EveryChunkIndexedOnce` | a disciplined caller |
| `SpansAddUpHolds` | `SpansAddUp` | a disciplined caller |
| `MuxerImplementsContainer` | `ImplementsContainer` | a disciplined caller |
| `AviDemuxer_proofs!TypeCorrect` | `TypeOK` of the demuxer | every reader |
| `PacketsAreWhole` | a packet is a whole data chunk of its stream in a segment | every reader |
| `ReadingAdvances` | `next_packet` answers, and leaves its packet behind | every reader |
| `SeeksAreListed` | a seek lands on the best keyframe its index lists | every reader |
| `DemuxerImplementsSource` | `ImplementsSource` | every reader of an orderly file |
| `KeyFlagsHold` | `KeyFlagsExact` | every reader of an orderly file |
| `StampsHold` | `StampsAgree` | every reader of an orderly, gapless file |
| `LandsOnBestHolds` | `LandsOnBest` | every reader of an orderly, gapless, thorough file |
| `SidebandHolds` | `SidebandOnce` | every reader of an orderly, itemized file |
| `PalettesHold` | `PalettesInForce` | every reader of an orderly, itemized file |
| `LayoutsFit`, `UnpackInvertsPack`, `FormatReadsBack` | rows of uncompressed video | |
| `CopiesFaithful` | the inductive invariant of stream copy | every caller and foreign file |
| `CopyTypesHold` | `TypeOK` of stream copy | every caller and foreign file |
| `PacketsReturn` | `PacketsSurvive` | every caller and foreign file |
| `CopiesReopen` | `CopiesOpen` | callers without 64-bit G.711 or ADPCM |

So every property that the runs `mux_index` and `mux_file` check is also a
theorem. Those of the muxer hold for every number of streams up to 99 (two decimal digits),
every set of configurations, packets and side-band chunks, every limit, and any
number of calls.

### Assumptions

`MuxerAssumption`: the constants have their types, and an alignment is even (the
code accepts powers of two from 2 on). The theorems of a disciplined caller also
assume `Disciplined`, the constant that `mux_file` sets: nothing is written
after a call has failed, and nothing after `write_trailer`. The code does not
enforce it, and without it the properties are false: `write_packet` does not
look at `trailer_written` and appends to a closed RIFF, and a call that failed
in the middle of a roll leaves a list closed in fields that still say it is
open, to be patched again by the next.

### The muxer, any caller

`AviMuxer_proofs`: none of the first three properties is inductive alone, and they
are proved together from `IInv` (theorem `Inductive`). Before `write_header` a
state is fresh: nothing on disk, no open list, no entry anywhere. After it, it is
good, which has four parts: `Typed`, the types and the parity of the position;
`Below`, every chunk header stands below the position at an even offset, so that
a write never replaces an old cell; `Heads`, the open RIFF, movi and rec lists
have their headers where the saved size offsets say, so that a patch changes a
list header and never a chunk an index names; and `Entries`, the index
properties themselves, stated for the movi list that is open. Every private
method leads from good states to good states or to an error that is still good;
an entry keeps resolving because chunks on disk never change and because entries
of one movi list are flushed, with that list's base, before the next list is
opened.

That the cached position is never stale is the lemma `ChunkOffIs`: in every path
`write_packet` takes to the chunk, the offset it stamps is the output position.

`AviMuxer_invariants` begins with what every private method may change: fields
(`Only`), list sizes and kinds of chunk (`Writes`). All further proofs rest on these
summaries and hardly ever on a method's definition. Then the invariant `Sound` adds to a good state that idx1
entries lead to their chunks from the primary movi list, and that the entry whose
size `close_rec_cluster` will patch is that of the open cluster and of no other
(`Indexed`); that `rec_bytes` and `rec_packets` are what stands behind the
cluster's header (`Accounted`); that packets are aligned (`Aligned`); and that
the counters of a stream are those of its packets on disk (`Counts`). Most
methods are neutral to all four (`Neutral`), and one lemma covers them.

### The muxer, a disciplined caller

`AviMuxer_discipline`: until `write_trailer` is called, the lists it will patch
have size 0 (`Sealed`), and the compact layout, while it is kept, was asked for
and has neither an `ix##` chunk nor a second segment beside it (`Compact`).
`Tidy` is `AppendOnly` of one step: it is shown of every method and composed along
the `?` operator, where the one difficulty is a roll that fails after LIST movi
has been patched. Then LIST movi has a size and the RIFF does not; the segment is
too long for its RIFF ever to be closed, so that no later call answers Ok.

The layout (`AviMuxer_discipline` again): a file in the making is laid out like a finished one whose open
lists end at the output position (`Laid`, `Framed`). Three lemmas carry it: a
chunk added at the end stands in the open lists, a list opened there does too,
and closing the innermost one patches its size to where it was taken to end. The
alternative to `Framed` is a call that failed in a segment that is too long
(`Doomed`).

`AviMuxer_coverage`: every chunk has an entry in memory or on disk, unless its
offset did not fit 32 bits, and then its segment is `Doomed`; no two entries lead
to the same chunk (`Once`), because a new entry leads to the output position and
older ones below it; the entries of the compact layout fit the room reserved for
them; the spans of the records add up to the ticks flushed (`Covering`). A sum
over a sequence is a recursive function that takes elements out of a set by
`CHOOSE`; `SumExists` shows by induction over the length that there is a function
that is additive whichever element is taken, and `SumIs` that the recursive one
is it.

`AviMuxer_refines`: the mapping reads the media chunks back in the order of their
offsets, and a chunk whose offset is above all others comes last (`OrderAppend`).
The methods around the placing of a chunk leave the chunks alone (`Quiet`); only a
roll starts a segment, and unless it fails a chunk follows it in the same call
(`Ahead`). So each call maps to adding a chunk, opening a RIFF and adding one,
finishing, or nothing.

### Rows of uncompressed video

The first part of `StreamCopy_proofs`, about `RawDib` alone, needs no assumption:

* `LayoutsFit`: a layout made from a writable pixel format and any size has a
  stride that holds a row, in multiples of four for a DIB.
* `UnpackInvertsPack`: a packet of the layout's size that is packed and
  unpacked comes back byte for byte, for every width, height, stride and row
  order. The argument is index arithmetic: row and column of a byte are found
  again by division (`Division`, `Quotient`), and reversing the lines twice is
  the identity (`Lines`).
* `FormatReadsBack`: the header written for a writable format is read as that
  format with the row rule it was written with.

### Stream copy

The rest of `StreamCopy_proofs` is about whole streams, for every set of
callers, foreign files and dictionaries of parameter sets, and every number of
copies. What these are taken to be is `SoundAssumption`, which TLC evaluates for
the sets of the runs: numbers are numbers of their kind, sequences are sequences, a packet
is bytes, and a caller who declares `rawvideo` hands over a frame of its size (whose
size the muxer checks: another one is passed on unpacked, and what comes back
of it is not the subject). A foreign file may otherwise hold anything at all, an
unknown compression, a short strf or a size in the header that its packet does not
have.

* The writers: `BuildStrf` gives one of three kinds of entry, and of each the
  fields a reader looks at are known, whatever extra data lie behind them and
  whatever options were applied (`AllWritten`, from `VideoIsWritten` and
  `AudioIsWritten`). An option replaces the fields it is for and no other
  (`PutKeeps`, `BmihKeeps`).
* The readers: `VideoReads`, `AudioReads` and `OthersRead` say what `build_stream`
  makes of those fields in any file. What `fill_layouts_from_parameter_sets` does
  afterwards leaves everything but the picture alone, and the sizes it fills in are
  not negative, since a crop larger than the picture is refused (`FillKeeps`, from
  `StatedIsSize`).
* `RawReadsBack`: compression, depth and masks of a written `rawvideo` header
  lead back to the format and row rule they were written for. The row order comes
  back by the sign of biHeight; a picture of no rows has none, and both orders
  are the same then. So the layout made from the header is the one the rows were
  packed with, and `UnpackInvertsPack` applies. Any other stream is never taken
  for raw rows (`OtherReturns`), except the BI_RGB one that `BareDib` excludes.
* `Faithful` is what `PacketsSurvive` needs to be inductive: that a file was made
  from what was sent, and that what was read is again something the argument
  applies to. The last is why it speaks of foreign files: a packet read from one,
  after `unpack`, has the size its parameters say, even if the packet on the
  wire had not (`UnpackReadies`).
* `OwnOpens`, for `CopiesOpen`: a file of this crate is refused exactly when the
  parameters it was written with contradict themselves (`Contradicts`). Nothing
  but the rule of dwSampleSize refuses it (`OwnBuilds`), and the branch
  `build_audio_strf` took, which decides the sample size, is known from the
  parameters and the options.
* `OwnAgrees`: what was read of such a file does not contradict itself. The
  branch depends on the sample format, and that on the depth in the file, which the
  same branch wrote: a tag of one frame a chunk is read without a depth
  (`VariableUnrated`), a tag of blocks with one (`ConstantRated`). `Reopens` carries
  it into the next file, which is therefore opened: what is refused is a first copy.

`CopiesReopen` assumes `NoneTooDeep`, and has to: a caller who declares samples
of 64 bits under the tag of G.711 or ADPCM gets a file that opens; read back it
has no sample format, as no codec of those tags has 64 bits, and written
again without the depth it is refused. TLC finds that in four steps when such a
caller is added. Nobody records such a stream; the hypothesis is there because the
code does not exclude it, and no other is needed. What a foreign file or a caller
otherwise brings, contradictions included, is inside the theorem.

### The demuxer

The theorems hold for every set of files that satisfies `FilesAssumption`, every
number of streams, targets and seeks. `WellFormed` is what it means that a disk of
cells stands for the bytes of a file: headers are finitely many, the first at
offset 0, each wholly in the file; sizes and offsets are unsigned; an index chunk
holds the entries its size makes room for. It says nothing about where chunks lie,
what indexes name or where the file is cut.

A walk of the demuxer is a recursive function over offsets, and means something
only if a function that satisfies the recursion exists. `Iteration` builds the
sequence of approximations of one, and `WalkExists` (the walk moves forward and the
file ends) and `FoldExists` (a set is finite) that it becomes stationary. From them
come what is needed of `Children`, `Extensions` and `ScanMovi`, of the sums behind
the timestamps, and of the walks over a table.

* The movi segments are apart and in order (`SegmentsApart`): every turn but one
  within a segment is forward.
* A table's timestamps do not fall within a stream (`Tables`, `Rising`), since they
  are sums; so the tables a seek bisects are in order, which is what makes the
  bisection right (`SelectKeyframeFacts`). The seek to the first keyframe from a target
  on walks its table instead (`FirstAfterFacts`).
* A turn of `next_packet` that gives no answer passes a header or leaves a segment
  (`TurnsEnd`), so that within as many turns as there are of both there is an
  answer (`ReadPacketFacts`).
* The invariant `DInv` says that the reader is one of its file, stands in its segment
  or at most a form type behind it (`InPlace`), and that the last landing was a
  good one. `TypeOK` alone is not inductive: that a landing is a number, say, rests
  on the tables, and these on how `open_avi` made them.

`SeeksAreListed` compares a landing with what the index lists; `LandsOnBest`, below,
compares it with what stands in the file.

`AviDemuxer_orderly` compares with the file's list of packets. It needs to know
more of a file (`OrderlyFiles`; every file of `demux_read` satisfies it, which is
an assumption of `MCAviDemuxer` that TLC evaluates):

* `BackToBack`: headers and bodies follow one another without a gap. Without it
  the reader can stand where no header is with packets behind that place.
* `Contained`: a chunk of a movi list ends in it, or the file has been cut inside
  the chunk. A chunk that sticks out of its list is where next_packet stops for
  good, with the next segment unread.
* `Honest`: an index entry names a media chunk of a segment and has its size and
  flag, and a side-band chunk listed as a keyframe stands in front of one; what the
  offsets of idx1 count from can be told (`Bases`). A seek trusts its index, and so
  does the flag of a packet. It is said of the entries as they stand in the file,
  not of the tables made of them.
* `Gapless`, assumed by `StampsHold` and `LandsOnBestHolds`: an index that a seek resets a counter by
  lists the packets of a stream from the first on and leaves none out, until it
  stops. idx1 need satisfy it only if it is in file order, and nothing is said of
  streams with side-band chunks. The timestamp of an entry is the sum over the
  entries before it, so an index with a hole in it gives wrong ones. Of the standard
  indexes it speaks by what they say, one after the other (`SaidInOrder`).
* `Thorough`, assumed by `LandsOnBestHolds` alone: in an uncut file with the note
  `full`, of the streams without side-band chunks, idx1 (if it lists any stream)
  lists the packets of the primary RIFF, and the standard indexes list all packets
  of a stream or none of them; AVIIF_NO_TIME is on no packet. A seek cannot land
  on what its index leaves out, and the seek to the first keyframe from a target on
  passes over what has no time.
* `Itemized`, assumed by `SidebandHolds` and `PalettesHold`: in an uncut file an idx1 lists
  every media chunk of the primary RIFF, each once. What it leaves out nobody
  collects, since next_packet trusts `open_avi` to have read it; what it lists twice
  is collected twice.
* `Complete`: `full` notes of an uncut file that each of its packets is listed by
  idx1, by an index in the header or by an ix## chunk `open_avi` looks for. An index
  that lists less is allowed, without the note.

The chunks of such a file cannot overlap, so the reader, who starts at a header,
is at a header again after each turn (`OnPath`), until it stops behind the last
packet (`Spent`). A turn therefore passes nothing but the chunk it read, and at
most that chunk's packet (`Passes`). The turns of a call are composed: those
before the last deliver nothing and pass no packet, the last one delivers the
packet it passes, or fails without passing any, or says Eof with none left
(`ReadPacketPasses`). A seek puts the reader in front of a listed keyframe, or
of a side-band chunk listed as one, and the packets before it are those before the
keyframe that is read next (`SeekFronts`).

What `open_avi` makes of the indexes is followed entry by entry (`IdxSays`,
`StdSays`): the base it probes for is the one the offsets count from (`BaseFound`),
the scan for ix## chunks visits every header of a segment (`ScanCovers`), and so
the tables list nothing that is not there (`TablesTrue`) and, of a complete index,
everything (`AllListed`). `KeyFlagsHold` follows: a packet has the flag of an entry
that names it, or "keyframe" where there is none (`KeyframeAtSays`).

The timestamp of a packet is the sum of the ticks of the packets of its stream
before it (`StampAt`). The invariant `StampsOK` says that the counter of a stream is
the timestamp of the next packet there: of every stream before the first seek, and
of the one last sought after it. next_packet adds the ticks of the one packet it
passes (`ReadPacketStamps`). For a seek, the entries of a table are shown to be
those of the index in file order (`IdxDrawn`), so that the sum the table keeps for an
entry is the sum over the packets before its chunk (`StdClocks`, `IdxClocks`); and
bisection and walk are shown to stop at the entry that was landed on
(`StdCounterAgrees`, `WalkAgrees`).

`LandsOnBestHolds` puts the two together. A thorough table covers the packets a
seek can reach (`IdxCovers`, `StdCovers`), so the keyframes it searches mirror those of
the file, each with its offset and its timestamp and in the same order (`KeysMirror`,
`SameOrder`). What `SelectKeyframeFacts` and `FirstAfterFacts` say of the entry that is
selected is then what `Best` says of a packet (`SelectedWanted`), and the reader stands
at the offset of that entry (`SeekArrives`). `Best` is defined from the packets of the
file and the timestamps of a read from the start alone.

`SidebandHolds` says that each side-band body is kept once, by one of two readers.
With an idx1 it is `open_avi`: the places that list the chunks of a kind and a
stream, in ascending order, are the chunks in file order, because the offsets of an
idx1 in file order grow with the places and no two are equal; the ascending order
of a finite set is unique (`RanksWithin`, `InOrderIs`), which makes the two sequences
one (`EagerBodies`). Without one it is next_packet: a turn takes the side-band chunk
the reader stands on and passes no other (`ReadChunkCollects`), a chunk above the
others is appended to their sequence (`InOrderMore`, `TurnCollects`), and the
invariant `SideOK` says that this has been so since the file was opened, until a seek
lands.

`PalettesHold` says that the palette answered for a packet is the stream's own with
the changes made that stand before the packet. `effective_palette_at` never looks
where a change stands: it compares the packet's number in its stream with the
position of the change, the number of packets idx1 lists before it. Both are shown
to be numbers of packets in the file: the entries before a change and the packets
before it are paired off by the base offset (`EntriesBefore`, `PositionsAre`), and the
packets read before one and those that stand before it by the list
(`PacketNumber`). So a change is in force exactly if it stands before the packet
(`CountBelow`). The positions rise, hence the changes in force are the first ones
(`FirstInOrder`), and so are those that parse, where `InStep` holds (`FirstParse`); the
shorter of the two prefixes is what is applied (`ChangesApplied`). What the prefix
makes of the palette follows the fold change by change (`Painted`, `PaintStep`): a
colour is the one the last change that names it gave, else the stream's own, else
black (`ChangesColour`). The proof attempt showed that `Applied` was stated with a
`CASE` whose guards overlap, which leaves the value open where a change meets a
colour of the table; TLC takes the first branch and never noticed. It is an
`IF` now, in the order in which the code writes.

### Only model-checked

Of the demuxer, its liveness (`ReadsToEnd`): liveness under fairness is out of
reach of the prover altogether. The round trip, the cross-checks and the header.
Of stream copy, `ParamsSurvive` and `CopyIsStable`: what a parameter set states
is compared with the dictionary's own account of it, which is data, and the frame
rate that a chain settles at is a quotient by a greatest common divisor, a recursion
over numbers.

## Not modelled

* I/O errors of the sink, and with them the second attempt of `write_header`
  (which appends a second preamble) and an index entry for a chunk that was
  never written.
* An output that does not start at position 0 (the absolute patch offsets of
  `patch_post_counts` assume it does).
* Streams declared as text (`txts`) among the packets of `AviMuxer` and
  `AviReader`: their `##tx` chunks are packets.
* A header that is damaged in front of the movi list.
* Payload that looks like a chunk: the bytes of a chunk are taken to read, as a
  header, as one that does not fit. It matters only where the reader stands
  inside a body, after a stop at a cut chunk.
* Files damaged in other ways than by a cut: overlapping lists, an index that
  names other chunks than its own.
* Display strings (GUIDs, speaker names, FourCCs) and the typed wrappers that
  give a number a name.
* The bits of codec headers (Exp-Golomb and LEB128 numbers, emulation
  prevention, start codes): `VideoConfig` begins at the syntax elements they
  spell. That the parsers read the elements in the order of the standards, and
  skip scaling lists and picture order counts by their right length, is for the
  unit tests.
* Registration, probe and the fuzz target.
* The linear scan of `SeekCache` (`Scan`) cannot be reached from a file, since
  the timestamps of a table are sums; it is compared with the bisection over
  every small table by the assumption `SelectKeyframeAgrees` instead.

Behaviour met while modelling that no property speaks of: the segment limit is
tested against the packet alone, so that the index chunks written at the close
come on top; a side-band chunk may roll a segment that then has no packet;
reading a file with idx1 counts its side-band chunks a second time; a list
whose form type is cut off is an I/O error first and Eof after.

## Plan

1. Done: the muxer, its container abstraction, types and standard indexes proved.
2. Done: the demuxer with its source abstraction, the round trip, the stream
   number, and that a caller who reads on comes to the end.
3. Done: stream formats, packaging, raw rows (with proofs), the picture of
   compressed video and stream copy; the options, the header, its reader,
   accessors and metadata.
4. Sink failures in the muxer: a write that fails between the index update and
   the chunk, and the second attempt of `write_header`.
5. Done: every property of the muxer's passing runs proved, the refinement of
   `AviContainer` included.
6. Done: the types of the demuxer, that its walks end, what a seek table lookup
   returns.
7. Done: that the demuxer implements `AviSource` on orderly files, flags and
   stamps its packets right, lands its seeks on the best keyframe, keeps every
   side-band body once and answers the palette in force for each packet.
8. Done: that stream copy keeps its types and its packets, and that copies of
   copies open.
9. Proofs left: header sessions; the round trip, which composes the theorems of muxer
   and demuxer; that parameters survive.
