------------------------------ MODULE AviDemuxer ------------------------------
(***************************************************************************)
(* The AVI demuxer of src/demuxer.rs as a state machine: a file, opened,   *)
(* then any sequence of next_packet and the four seeks.  The calls are the *)
(* operators of AviReader; the properties compare what they answer with    *)
(* what stands in the file.                                                *)
(***************************************************************************)
EXTENDS AviReader

CONSTANTS
  Files,     \* the files considered
  Targets,   \* the timestamps a caller may ask for
  MaxSeeks   \* bound: seeks in a behaviour

ASSUME DemuxerAssumption == Targets \subseteq Int /\ MaxSeeks \in Nat

\* The fields of an idx1 entry and of an ix## entry: the numbers are unsigned.
Idx1Fields == [id : STRING, trk : Int, len : Nat, key : BOOLEAN, off : Nat]
IxFields == [off : Nat, len : Nat, key : BOOLEAN]

\* The bytes of a file as its chunk headers: the first stands at its start, each
\* is wholly there, and an index chunk holds the entries its size makes room for.
WellFormed(F) ==
  /\ F.len \in Nat
  /\ 0 \in DOMAIN F.disk /\ DOMAIN F.disk \subseteq Nat /\ IsFiniteSet(DOMAIN F.disk)
  /\ \A at \in DOMAIN F.disk :
       LET c == F.disk[at] IN
       /\ at + 8 <= F.len
       /\ c.len \in Nat /\ c.trk \in Int
       /\ c.id = "idx1" => c.ents \in Seq(Idx1Fields) /\ c.len \div 16 <= Len(c.ents)
       /\ c.id = "ix" => c.base \in Nat /\ c.ents \in Seq(IxFields)
       /\ c.id = "pc" => c.base \in Nat /\ c.ents \in Seq(STRING)
  /\ \A t \in Streams :
       /\ F.indx[t].kind = "std" => F.indx[t].base \in Nat /\ F.indx[t].ents \in Seq(IxFields)
       /\ F.table[t] \in Seq(STRING)

ASSUME FilesAssumption == \A F \in Files : WellFormed(F)

VARIABLES
  file,   \* the file, never changed
  list,   \* history: the packets it holds, never changed
  d,      \* the AviDemuxer
  asked,  \* history: the last seek that landed
  seeks   \* seeks so far

vars == <<file, list, d, asked, seeks>>

-----------------------------------------------------------------------------
(* What stands in a file F with the movi segments movi.  F.full is a note   *)
(* of the model: an index the demuxer reads lists every media chunk.        *)

\* The chunks of kinds ids and stream t that lie in a segment with their whole
\* body.
Standing(F, movi, ids, t) ==
  {at \in DOMAIN F.disk :
     /\ F.disk[at].id \in ids
     /\ F.disk[at].trk = t
     /\ \E i \in DOMAIN movi : movi[i].from <= at /\ at + 8 + F.disk[at].len <= movi[i].to}

\* The ticks of the chunks S of stream t before offset at.
Ticks(F, t, S, at) ==
  SumFunctionOnSet([b \in S |-> TimeDelta(t, F.disk[b].len)], {b \in S : b < at})

\* The packets of the file, as a caller should see them: its data chunks in
\* file order, each with the timestamp of a read from the start, the ticks of
\* the stream's data chunks before it.
Content(F, movi) ==
  LET own == [t \in Streams |-> Standing(F, movi, {"data"}, t)]
      order == InOrder(UNION {own[t] : t \in Streams})
      packet(at) ==
        LET t == F.disk[at].trk IN
        [trk |-> t, at |-> at, key |-> F.disk[at].key, pts |-> Ticks(F, t, own[t], at)]
  IN [i \in DOMAIN order |-> packet(order[i])]

-----------------------------------------------------------------------------
(* Files an AVI writer lays out.  The properties below hold of files that   *)
(* are broken, too; that next_packet returns all a file holds is said of    *)
(* these, whole or cut short.                                               *)

\* Where the header after the one at offset at should stand: a list is entered,
\* any other chunk padded to even size.
NextHeader(F, at) ==
  IF F.disk[at].id \in ListIds THEN at + 12 ELSE at + 8 + Even(F.disk[at].len)

\* Headers and bodies follow one another without a gap.
BackToBack(F) ==
  /\ \A a, b \in DOMAIN F.disk : a < b => NextHeader(F, a) <= b
  /\ \A b \in DOMAIN F.disk \ {0} : \E a \in DOMAIN F.disk : NextHeader(F, a) = b

\* A chunk of a movi list ends in it, or the file has been cut inside the chunk.
Contained(F) ==
  \A i \in DOMAIN MoviSegments(F), at \in DOMAIN F.disk :
    LET s == MoviSegments(F)[i]
        end == at + 8 + F.disk[at].len
    IN s.from <= at /\ at < s.to /\ F.disk[at].id \notin ListIds => end <= s.to \/ end > F.len

\* The packets of a file.
Packets(F) == UNION {Standing(F, MoviSegments(F), {"data"}, t) : t \in Streams}

\* What idx1 says of the chunks if its offsets count from base, and what the
\* standard indexes say: those in the header, and the ix## chunks that stand in
\* a segment.
Idx1Says(F, base) ==
  LET raw == RawIdx1(F) IN
  {[trk |-> raw[i].trk, off |-> base + raw[i].off, len |-> raw[i].len, key |-> raw[i].key] :
     i \in {j \in DOMAIN raw : PerStream(raw[j]) /\ raw[j].trk \in Streams}}

IxSays(t, x) ==
  {[trk |-> t, off |-> x.base + x.ents[i].off - 8, len |-> x.ents[i].len,
    key |-> x.ents[i].key] : i \in DOMAIN x.ents}
HeaderSays(F) == UNION {IxSays(t, F.indx[t]) : t \in {u \in Streams : F.indx[u].kind = "std"}}
ChunksSay(F) ==
  UNION {UNION {IxSays(t, F.disk[at]) : at \in Standing(F, MoviSegments(F), {"ix"}, t)} :
           t \in Streams}

\* The same in the order open_avi comes upon the indexes, one after the other.
SaidInOrder(F) ==
  LET std == StdIndexes(F, MoviSegments(F))
      says(x) == [i \in DOMAIN x.ents |->
                    [id |-> "data", trk |-> x.trk, key |-> x.ents[i].key,
                     off |-> x.base + x.ents[i].off - 8, len |-> x.ents[i].len]]
  IN FlattenSeq([n \in DOMAIN std |-> says(std[n])])

\* The first packet at or behind offset at is a keyframe of stream t.
Leads(F, t, at) ==
  \E k \in Packets(F) :
    /\ F.disk[k].trk = t /\ F.disk[k].key /\ at <= k
    /\ \A b \in Packets(F) : b < at \/ k <= b

\* An index entry names a media chunk and has its size and flag.  A side-band
\* chunk listed as a keyframe stands in front of one.
True(F, x) ==
  /\ x.off \in Standing(F, MoviSegments(F), MediaIds, x.trk)
  /\ x.len = F.disk[x.off].len /\ x.key = F.disk[x.off].key
  /\ x.key => Leads(F, x.trk, x.off)

\* What the offsets of idx1 count from, the movi list or the start of the file;
\* in the second case none of them would lead to its chunk from the movi list.
Bases(F) ==
  LET raw == RawIdx1(F)
      movi == MoviSegments(F)[1].from - 4
      Names(from, e) == ProbeOffsetHasCkid(F, from + e.off, e)
  IN {base \in {0, movi} :
        \A i \in DOMAIN raw :
          PerStream(raw[i]) => Names(base, raw[i]) /\ (base = 0 => ~Names(movi, raw[i]))}

\* What the indexes say is true.
Honest(F) ==
  /\ \E base \in Bases(F) : \A x \in Idx1Says(F, base) : True(F, x)
  /\ \A x \in HeaderSays(F) \cup ChunksSay(F) : True(F, x)

\* Nothing of the file is missing.
Uncut(F) == \A at \in DOMAIN F.disk : at + 8 + Even(F.disk[at].len) <= F.len

\* Every list holds its form type.
FormTypes(F) == \A at \in DOMAIN F.disk : F.disk[at].id \in ListIds => F.disk[at].len >= 4

\* What F.full notes of a file nothing is missing of: its lists have form types,
\* and every packet is listed by idx1 or by a standard index open_avi looks for.
Complete(F) ==
  F.full /\ Uncut(F) =>
    /\ FormTypes(F)
    /\ \A b \in Packets(F) :
         \/ \E base \in Bases(F) : \E x \in Idx1Says(F, base) : x.off = b
         \/ \E x \in HeaderSays(F) : x.off = b
         \/ WantIxScan(F, MoviSegments(F)) /\ \E x \in ChunksSay(F) : x.off = b

Orderly(F) ==
  BackToBack(F) /\ (MoviSegments(F) # <<>> => Contained(F) /\ Honest(F) /\ Complete(F))

\* The entries at the places I of an index, whose offsets are off, list the
\* packets S in file order, from the first on and with none left out.
Enumerates(off, I, S) ==
  \A i \in I : {off[j] : j \in {k \in I : k < i}} = {b \in S : b < off[i]}

\* The indexes a seek resets the counter of a stream by list its packets that
\* way: idx1 if it is in file order, and the standard indexes one after the
\* other.  Of streams with side-band chunks nothing is said: idx1 counts those.
Gapless(F) ==
  LET movi == MoviSegments(F)
      raw == RawIdx1(F)
      std == SaidInOrder(F)
  IN \A t \in Streams : Standing(F, movi, SideIds, t) = {} =>
       LET own == Standing(F, movi, {"data"}, t) IN
       /\ NonDecreasing(Offsets(raw)) => \A base \in Bases(F) :
            Enumerates([i \in DOMAIN raw |-> base + raw[i].off],
                       {i \in DOMAIN raw : PerStream(raw[i]) /\ raw[i].trk = t}, own)
       /\ Enumerates(Offsets(std), {i \in DOMAIN std : std[i].trk = t}, own)

\* The indexes a seek lands by list all there is to land on, where F.full notes it
\* and nothing is missing of the file: idx1, if it lists a stream at all, the
\* packets of the primary RIFF, the standard indexes those of the whole file, of
\* the streams they list.  AVIIF_NO_TIME is on no packet.
Thorough(F) ==
  LET movi == MoviSegments(F)
      raw == RawIdx1(F)
      std == SaidInOrder(F)
      In1 == {i \in DOMAIN raw : PerStream(raw[i]) /\ raw[i].trk \in Streams}
  IN F.full /\ Uncut(F) =>
       \A t \in Streams : Standing(F, movi, SideIds, t) = {} =>
         LET own == Standing(F, movi, {"data"}, t)
             listed == {std[i].off : i \in {j \in DOMAIN std : std[j].trk = t}}
         IN /\ In1 # {} => \A base \in Bases(F) :
                 {base + raw[i].off : i \in {j \in In1 : raw[j].trk = t}}
                   = {b \in own : b < PrimaryEnd(F)}
            /\ listed \in {{}, own}
            /\ own \cap F.notime = {}

\* An idx1 lists every chunk of every stream in the primary RIFF, each once, where
\* nothing is missing of the file.
Itemized(F) ==
  LET raw == RawIdx1(F)
      At1(k, t) == {i \in DOMAIN raw : raw[i].id = k /\ raw[i].trk = t}
  IN HasIdx1(F) /\ Uncut(F) =>
       \A k \in MediaIds, t \in Streams :
         /\ \A base \in Bases(F) :
              {base + raw[i].off : i \in At1(k, t)}
                = {at \in Standing(F, MoviSegments(F), {k}, t) : at < PrimaryEnd(F)}
         /\ \A i, j \in At1(k, t) : raw[i].off = raw[j].off => i = j

-----------------------------------------------------------------------------
(* Calls                                                                   *)

NotAsked == [how |-> "open", trk |-> 0, target |-> 0]

Init ==
  /\ file \in Files
  /\ d = Open(file)
  /\ list = IF d.open THEN Content(file, d.movi) ELSE <<>>
  /\ asked = NotAsked
  /\ seeks = 0

NextPacket ==
  /\ d.open
  /\ d' = ReadPacket(file, d)
  /\ UNCHANGED <<file, list, asked, seeks>>

\* A seek has made the demuxer to; it is remembered if it landed.
Sought(to, how, t, target) ==
  /\ seeks < MaxSeeks
  /\ seeks' = seeks + 1
  /\ d' = to
  /\ asked' = IF to.got.kind = "landed"
              THEN [how |-> how, trk |-> t, target |-> target] ELSE asked
  /\ UNCHANGED <<file, list>>

\* NumStreams stands for a stream index out of range: it has no index entry.
AnyStream == 0 .. NumStreams

SeekTo(t, target) ==
  d.open /\ Sought(Seek(d, t, target), "seek_to", t, target)

SeekToKeyframeStrict(t, target) ==
  d.open /\ Sought(WithGap(Seek(d, t, target), target), "seek_to", t, target)

SeekToKeyframeStrictViaStdIndex(t, target) ==
  d.open /\ Sought(WithGap(SeekByStd(d, t, target), target), "std", t, target)

SeekToFirstVideoKeyframeAfter(t, target) ==
  d.open /\ Sought(SeekAfter(d, t, target), "after", t, target)

Next ==
  \/ NextPacket
  \/ \E t \in AnyStream, target \in Targets :
       \/ SeekTo(t, target)
       \/ SeekToKeyframeStrict(t, target)
       \/ SeekToKeyframeStrictViaStdIndex(t, target)
       \/ SeekToFirstVideoKeyframeAfter(t, target)

Spec == Init /\ [][Next]_vars

\* A caller who is done seeking goes on calling next_packet.
FairSpec == Spec /\ WF_vars(NextPacket)

-----------------------------------------------------------------------------
(* Properties                                                              *)

\* Nothing of the file is missing, and idx1, if there is one, is in file order.
Whole == Uncut(file)
Ordered == NonDecreasing(Offsets(RawIdx1(file)))

SideOf(ids, t) == Standing(file, d.movi, ids, t)
PacketsOf(t) == {i \in DOMAIN list : list[i].trk = t}

\* The offsets of S in the primary RIFF.
Primary(S) == {at \in S : at < PrimaryEnd(file)}

\* The streams whose index entries are all packets.
Clean(t) == SideOf(SideIds, t) = {}

\* The packet just returned, as it should be.
Expected == list[CHOOSE i \in DOMAIN list : list[i].at = d.got.at]

TypeOK ==
  d.open =>
    /\ d.seg \in 1 .. Len(d.movi) + 1
    /\ d.pos \in Nat
    /\ d.counter \in [Streams -> Nat]
    /\ \A k \in SideIds, t \in Streams : d.counts[k][t] \in Nat
    /\ d.got.kind \in {"nothing", "packet", "landed", "eof", "refused", "io_error"}

Source == INSTANCE AviSource WITH
  packets <- list,
  cursor <- IF d.open THEN Cardinality({i \in DOMAIN list : list[i].at < d.pos}) ELSE 0,
  answer <- d.got

\* However segments, LIST rec clusters, JUNK, index and side-band chunks lie
\* between them, and wherever seeks have gone, next_packet returns every packet
\* the file holds and nothing else, in file order and once, up to the last one
\* whose bytes are all there; a seek lands in front of a keyframe of its stream.
ImplementsSource == Source!Spec

\* A caller who keeps calling next_packet comes to Eof and stays there, from
\* wherever seeks have left the reader and wherever the file is cut: no turn of
\* its loop, and no call that fails, leaves the reader where it was.
ReadsToEnd == <>[](d.open => d.got.kind = "eof")

\* The keyframe flag of a packet (looked up by offset in the two indexes, with
\* "keyframe" for what neither lists) is exact when an index is complete, and a
\* flag that says delta is right even in a file that has lost part of them.
KeyFlagsExact ==
  d.got.kind = "packet" =>
    /\ ~d.got.key => ~Expected.key
    /\ file.full /\ Whole => d.got.key = Expected.key

\* The keyframes of stream t that the last seek could reach: idx1 covers the
\* primary RIFF only.
Reachable(t) ==
  {i \in PacketsOf(t) :
     list[i].key /\ (asked.how = "std" \/ d.idx = <<>> \/ list[i].at < PrimaryEnd(file))}

\* Of the packets in S, the first of those with the greatest or least timestamp.
Greatest(S) == Least({i \in S : \A j \in S : list[j].pts <= list[i].pts})
Smallest(S) == Least({i \in S : \A j \in S : list[i].pts <= list[j].pts})

\* The keyframe the last seek should have landed on: the latest at or before
\* the target, or the first; for seek_to_first_video_keyframe_after the
\* earliest at or after it, or the last.
Best ==
  LET keys == Reachable(asked.trk)
      before == {i \in keys : list[i].pts <= asked.target}
      after == {i \in keys : list[i].pts >= asked.target}
  IN IF asked.how = "after"
     THEN IF after = {} THEN Greatest(keys) ELSE Smallest(after)
     ELSE IF before = {} THEN Least(keys) ELSE Greatest(before)

\* A seek lands on the best keyframe by the timestamps a read from the start
\* gives, through whichever index, and reports that timestamp and, if asked
\* for, its distance from the target.
LandsOnBest ==
  d.got.kind = "landed" /\ file.full /\ Whole /\ Ordered /\ Clean(asked.trk) =>
    /\ d.pos = list[Best].at
    /\ d.got.pts = list[Best].pts
    /\ d.got.gap > 0 => d.got.gap \in {asked.target - d.got.pts, d.got.pts - asked.target}

\* Packets carry the timestamps of a read from the start: all of them before
\* the first seek, those of the stream last sought after it.
StampsAgree ==
  d.got.kind = "packet" =>
    \/ d.got.pts = Expected.pts
    \/ asked # NotAsked /\ ~(asked.trk = d.got.trk /\ Clean(d.got.trk) /\ Ordered)

\* Every side-band body is kept exactly once: open_avi collects those idx1
\* lists, next_packet the others as it passes them, and neither what the other
\* has taken.
SidebandOnce ==
  d.open =>
    \A k \in SideIds, t \in Streams :
      /\ d.eager /\ Whole /\ Ordered => d.bodies[k][t] = InOrder(Primary(SideOf({k}, t)))
      /\ ~d.eager /\ asked = NotAsked =>
           /\ d.bodies[k][t] = InOrder({at \in SideOf({k}, t) : at < d.pos})
           /\ d.counts[k][t] = Len(d.bodies[k][t])

\* The colours (from 1) changed before offset at.
Changed(t, at) ==
  UNION {{file.disk[p].base + n : n \in DOMAIN file.disk[p].ents} :
           p \in {q \in SideOf({"pc"}, t) : q < at /\ Parsed(file.disk[q])}}

\* Colour k in force for the packet at offset at: the one the last
\* change before it gave, the stream's own if none did, black beyond both.
ColourAt(t, at, k) ==
  LET own == {p \in SideOf({"pc"}, t) : p < at /\ Parsed(file.disk[p])}
      gives == {p \in own : k - file.disk[p].base \in DOMAIN file.disk[p].ents}
      last == CHOOSE p \in gives : \A q \in gives : q <= p
  IN IF gives # {} THEN file.disk[last].ents[k - file.disk[last].base]
     ELSE IF k \in DOMAIN file.table[t] THEN file.table[t][k]
     ELSE Black

\* Positions are index-aligned with the changes that parse: none that does not
\* stands before one that does.
InStep(t) ==
  \A p, q \in SideOf({"pc"}, t) : p < q /\ Parsed(file.disk[q]) => Parsed(file.disk[p])

\* The palette of every packet of the primary RIFF is the stream's own with
\* exactly the changes that stand before the packet in the file made to it,
\* although changes and packets are counted apart, from idx1, and the bodies
\* are parsed later: effective_palette_at.
PalettesInForce ==
  d.open /\ d.eager /\ Whole /\ Ordered =>
    \A t \in Streams : file.table[t] # NoPalette /\ InStep(t) =>
      \A i \in PacketsOf(t) : list[i].at < PrimaryEnd(file) =>
        LET seq == Cardinality({j \in PacketsOf(t) : j < i})
            palette == EffectivePaletteAt(file, d, t, seq)
        IN \A k \in DOMAIN palette \cup Changed(t, list[i].at) :
             k \in DOMAIN palette /\ palette[k] = ColourAt(t, list[i].at, k)

-----------------------------------------------------------------------------
(* What the documentation says and the code does not do                    *)

\* seek_via_std_indexes: "`next_packet` then resumes synthesising correct
\* timestamps because it picks up from per_stream_counter[s]".
StampsResume ==
  d.got.kind = "packet" /\ asked.how = "std" => d.got.pts = Expected.pts

=============================================================================
