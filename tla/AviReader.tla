------------------------------ MODULE AviReader ------------------------------
(***************************************************************************)
(* The AVI demuxer of src/demuxer.rs as operators: `open_avi` from files   *)
(* to demuxers, `next_packet` and the seeks from demuxers to demuxers.     *)
(*                                                                         *)
(* A file F is the sequence of chunk headers that stand in it, with the    *)
(* cells of AviMuxer: F.disk maps the offset of a header to its cell,      *)
(* F.len is the number of bytes the file really has (a cut file declares   *)
(* more), F.indx the in-strl index of each stream, F.twofield the streams   *)
(* whose super-index says AVI_INDEX_2FIELD and F.notime the chunks whose    *)
(* idx1 entry carries AVIIF_NO_TIME.  An offset at which no header stands   *)
(* holds payload, taken to read as a size past the end of the file: a      *)
(* payload that looks like a short chunk is not considered.                *)
(***************************************************************************)
EXTENDS Integers, Sequences, FiniteSets, SequencesExt, SeekCache

CONSTANTS
  NumStreams,  \* streams the header declares, numbered from 0
  Divisor      \* time_delta_divisor of each stream: bytes per tick, 0 for None

ASSUME ReaderAssumption ==
  /\ NumStreams \in Nat \ {0}
  /\ Divisor \in [0 .. NumStreams - 1 -> Nat]

Streams == 0 .. NumStreams - 1

\* The chunks that are RIFF or LIST, and the per-stream chunks.
ListIds == {"RIFF", "hdrl", "movi", "rec"}
MediaIds == {"data", "tx", "pc"}
SideIds == {"tx", "pc"}

Even(n) == n + (n % 2)
Least(S) == CHOOSE n \in S : \A k \in S : n <= k

\* time_delta_with_divisor
TimeDelta(t, len) == IF Divisor[t] = 0 THEN 1 ELSE len \div Divisor[t]

-----------------------------------------------------------------------------
(* Opening                                                                 *)

\* Where the body of the list at offset at ends by its own size field.
ListEnd(F, at) == at + 12 + (IF F.disk[at].len > 4 THEN F.disk[at].len - 4 ELSE 0)

\* The header walk_riff_body reads after the one at offset at: a list is
\* clamped to the RIFF around it and to the file, any other chunk skipped whole.
NextSibling(F, at, end) ==
  LET c == F.disk[at] IN
  IF c.id \in ListIds THEN Least({ListEnd(F, at), end, F.len}) + (c.len % 2)
                      ELSE at + 8 + Even(c.len)

\* The headers walk_riff_body visits.  An offset without a header is the end:
\* no eight bytes are left there, or (after a size field that was never
\* patched) they are a FourCC pair whose size leads out of the file.
Children(F, from, end) ==
  LET visit[at \in Nat] ==
        IF at < end /\ at \in DOMAIN F.disk
        THEN {at} \cup visit[NextSibling(F, at, end)]
        ELSE {}
  IN visit[from]

\* End of the primary RIFF, clamped to the file.
PrimaryEnd(F) == Least({8 + F.disk[0].len, F.len})

ExtensionEnd(F, at) == Least({ListEnd(F, at), F.len})

\* The RIFF AVIX headers after the primary RIFF.
Extensions(F) ==
  LET visit[at \in Nat] ==
        IF at \notin DOMAIN F.disk THEN {}
        ELSE IF F.disk[at].id = "RIFF"
             THEN {at} \cup visit[ExtensionEnd(F, at) + (F.disk[at].len % 2)]
             ELSE visit[at + 8 + Even(F.disk[at].len)]
  IN visit[PrimaryEnd(F)]

PrimaryChildren(F) == Children(F, 12, PrimaryEnd(F))
ExtensionChildren(F) ==
  UNION {Children(F, at + 12, ExtensionEnd(F, at)) : at \in Extensions(F)}

\* read_form_type fails on a list whose form type is cut off.
FormCut(F, at) == F.disk[at].id \in ListIds /\ at + 12 > F.len

\* The end of the RIFF the list at offset at stands in.
RiffEnd(F, at) ==
  IF at < PrimaryEnd(F) THEN PrimaryEnd(F)
  ELSE ExtensionEnd(F, CHOOSE r \in Extensions(F) :
                         r < at /\ at < ExtensionEnd(F, r))

\* movi_segments: the bodies of the movi lists, in file order.
MoviSegments(F) ==
  LET lists == {at \in PrimaryChildren(F) \cup ExtensionChildren(F) : F.disk[at].id = "movi"}
      body(at) == [from |-> at + 12, to |-> Least({ListEnd(F, at), RiffEnd(F, at), F.len})]
      order == InOrder(lists)
  IN [i \in DOMAIN order |-> body(order[i])]

-----------------------------------------------------------------------------
(* The idx1 table                                                          *)

\* The raw entries: those of the last idx1 of the primary RIFF the file holds.
HasIdx1(F) == \E at \in PrimaryChildren(F) : F.disk[at].id = "idx1"

RawIdx1(F) ==
  LET at == Last(InOrder({a \in PrimaryChildren(F) : F.disk[a].id = "idx1"}))
      whole == Least({F.disk[at].len, F.len - (at + 8)}) \div 16
  IN IF HasIdx1(F) THEN SubSeq(F.disk[at].ents, 1, whole) ELSE <<>>

\* probe_offset_has_ckid
ProbeOffsetHasCkid(F, at, e) ==
  /\ at \in DOMAIN F.disk
  /\ F.disk[at].id = e.id
  /\ F.disk[at].trk = e.trk

PerStream(e) == e.id \in MediaIds

\* What idx1 offsets are relative to: the movi FourCC, or the file when only
\* that makes the first per-stream entry point at its chunk.
Idx1Base(F, raw, movi) ==
  LET i == SelectInSeq(raw, LAMBDA e : PerStream(e) /\ e.off # 0)
      absolute == /\ i # 0
                  /\ ProbeOffsetHasCkid(F, raw[i].off, raw[i])
                  /\ ~ProbeOffsetHasCkid(F, movi - 4 + raw[i].off, raw[i])
  IN IF absolute THEN 0 ELSE movi - 4

\* Entries s with a pts each: the ticks of the stream's entries before it.
WithPts(s) ==
  LET ticks == [j \in DOMAIN s |-> TimeDelta(s[j].trk, s[j].len)]
      before(i) == {j \in 1 .. i - 1 : s[j].trk = s[i].trk}
  IN [i \in DOMAIN s |->
       [trk |-> s[i].trk, key |-> s[i].key, off |-> s[i].off, len |-> s[i].len,
        id |-> s[i].id, pts |-> SumFunctionOnSet(ticks, before(i))]]

\* build_idx_table: the entries of known streams at file-absolute offsets.
\* LIST rec entries have no stream and are kept apart.
BuildIdxTable(F, raw, movi) ==
  LET base == Idx1Base(F, raw, movi)
      own == Kept(raw, LAMBDA e : PerStream(e) /\ e.trk \in Streams)
  IN WithPts([i \in DOMAIN own |-> [own[i] EXCEPT !.off = base + @]])

\* scan_idx1_sideband_counts
ScanIdx1SidebandCounts(raw) ==
  [k \in SideIds |-> [t \in Streams |->
     Cardinality({i \in DOMAIN raw : raw[i].id = k /\ raw[i].trk = t})]]

\* read_sideband_data_from_idx1: the chunks (by offset) whose bodies are
\* wholly in the file, in index order.
ReadSidebandDataFromIdx1(F, raw, movi) ==
  LET base == Idx1Base(F, raw, movi)
      readable(e) == base + e.off + 8 + e.len <= F.len
  IN [k \in SideIds |-> [t \in Streams |->
       LET own == Kept(raw, LAMBDA e : e.id = k /\ e.trk = t /\ readable(e))
       IN [i \in DOMAIN own |-> base + own[i].off]]]

\* Mutant: earlier palette changes are counted as packets.
PaletteCountsAll(raw) ==
  [t \in Streams |->
     LET pcs == InOrder({i \in DOMAIN raw : raw[i].id = "pc" /\ raw[i].trk = t})
         before(i) == {j \in 1 .. i - 1 : raw[j].trk = t /\ PerStream(raw[j])}
     IN [n \in DOMAIN pcs |-> Cardinality(before(pcs[n]))]]

\* compute_palette_change_positions: for each xxpc entry of a stream, how many
\* data chunks of that stream precede it.
ComputePaletteChangePositions(raw) ==
  [t \in Streams |->
     LET pcs == InOrder({i \in DOMAIN raw : raw[i].id = "pc" /\ raw[i].trk = t})
         packets(i) == {j \in 1 .. i - 1 : /\ raw[j].trk = t
                                           /\ PerStream(raw[j]) /\ raw[j].id \notin SideIds}
     IN [n \in DOMAIN pcs |-> Cardinality(packets(pcs[n]))]]

-----------------------------------------------------------------------------
(* Palettes.  An xxpc cell holds bFirstEntry in base and its colours in     *)
(* ents; F.table is the palette of each stream's format.                    *)

NoPalette == <<"none">>
Black == "black"

\* PaletteChange::parse: four bytes and whole entries behind them.
Parsed(c) == c.len >= 4 /\ (c.len - 4) % 4 = 0

\* palette_change_typed: the bodies that parse.
PaletteChangeTyped(F, d, t) ==
  LET bodies == d.bodies["pc"][t] IN
  Kept([i \in DOMAIN bodies |-> F.disk[bodies[i]]], Parsed)

\* A change written over a table, which grows with black if it must.
Applied(table, c) ==
  [i \in 1 .. Max({Len(table)} \cup {c.base + k : k \in DOMAIN c.ents}) |->
     IF i \in c.base + 1 .. c.base + Len(c.ents) THEN c.ents[i - c.base]
     ELSE IF i \in DOMAIN table THEN table[i] ELSE Black]

\* effective_palette_after_changes: the first n changes, or all there are.
EffectivePaletteAfterChanges(F, d, t, n) ==
  LET deltas == PaletteChangeTyped(F, d, t) IN
  IF F.table[t] = NoPalette THEN NoPalette
  ELSE FoldLeft(Applied, F.table[t], SubSeq(deltas, 1, Least({n, Len(deltas)})))

\* effective_palette_at: the palette of the packet with seq packets of its
\* stream before it.  Without idx1 there are bodies but no positions.
EffectivePaletteAt(F, d, t, seq) ==
  IF d.positions[t] = <<>> /\ d.bodies["pc"][t] # <<>> THEN NoPalette
  ELSE EffectivePaletteAfterChanges(F, d, t,
         Cardinality({n \in DOMAIN d.positions[t] : d.positions[t][n] <= seq}))

-----------------------------------------------------------------------------
(* The standard indexes                                                    *)

\* Mutant: the scan stops at the first LIST rec.
ScanStopsAtRec(F, from, end) ==
  LET visit[at \in Nat] ==
        IF at + 8 > end \/ at \notin DOMAIN F.disk \/ F.disk[at].id \in ListIds THEN {}
        ELSE {at} \cup visit[at + 8 + Even(F.disk[at].len)]
  IN visit[from]

\* The headers scan_ix_in_movi visits in one segment, entering every LIST.
ScanMovi(F, from, end) ==
  LET visit[at \in Nat] ==
        IF at + 8 > end \/ at \notin DOMAIN F.disk THEN {}
        ELSE IF F.disk[at].id \in ListIds THEN {at} \cup visit[at + 12]
        ELSE {at} \cup visit[at + 8 + Even(F.disk[at].len)]
  IN visit[from]

\* scan_ix_in_movi: the ix## chunks of every segment.  A cut form type is an
\* error, and open_avi goes on with no standard index at all; an ix## chunk
\* with a cut body is passed over.
ScanIxInMovi(F, movi) ==
  LET seen == UNION {ScanMovi(F, movi[i].from, movi[i].to) : i \in DOMAIN movi}
      whole == {at \in seen : F.disk[at].id = "ix" /\ at + 8 + F.disk[at].len <= F.len}
  IN IF \E at \in seen : FormCut(F, at) THEN <<>> ELSE InOrder(whole)

\* open_avi looks for ix## chunks when a super-index has entries, when there
\* are several segments, or when a super-index is of the two-field kind.
WantIxScan(F, movi) ==
  \/ \E t \in Streams : F.indx[t].kind = "super" /\ F.indx[t].ents # <<>>
  \/ Len(movi) > 1
  \/ F.twofield # {}

\* The standard indexes, the in-strl ones first.
StdIndexes(F, movi) ==
  LET inStrl == Kept([i \in 1 .. NumStreams |->
                        [trk |-> i - 1, base |-> F.indx[i - 1].base,
                         kind |-> F.indx[i - 1].kind, ents |-> F.indx[i - 1].ents]],
                     LAMBDA ix : ix.kind = "std")
      chunks == IF WantIxScan(F, movi) THEN ScanIxInMovi(F, movi) ELSE <<>>
  IN inStrl \o [i \in DOMAIN chunks |->
                 [trk |-> F.disk[chunks[i]].trk, base |-> F.disk[chunks[i]].base,
                  kind |-> "std", ents |-> F.disk[chunks[i]].ents]]

\* Mutant: dwOffset is taken to point at the chunk header.
StdOffsetAtHeader(ix, i) == ix.base + ix.ents[i].off

\* The chunk header an entry leads to: dwOffset points at the chunk's data.
StdOffset(ix, i) == ix.base + ix.ents[i].off - 8

\* std_entries of the seek cache: every entry of every index, with its pts.
StdEntries(std) ==
  WithPts(FlattenSeq([n \in DOMAIN std |->
    [i \in DOMAIN std[n].ents |->
       [id |-> "data", trk |-> std[n].trk, key |-> std[n].ents[i].key,
        off |-> StdOffset(std[n], i), len |-> std[n].ents[i].len]]]))

\* Mutant: the standard indexes are not consulted.
KeyframeByIdx1(idx, std, at) ==
  LET i == SelectLastInSeq(idx, LAMBDA e : e.off = at) IN i = 0 \/ idx[i].key

\* keyframe_by_offset: idx1 first, ix## for what it does not cover.  A chunk
\* without an entry counts as a keyframe.
KeyframeAt(idx, std, at) ==
  LET i == SelectLastInSeq(idx, LAMBDA e : e.off = at)
      j == SelectInSeq(std, LAMBDA e : e.off = at)
  IN IF i # 0 THEN idx[i].key ELSE IF j # 0 THEN std[j].key ELSE TRUE

\* keyframe_per_stream: by ix## where the stream has one, else by idx1.
KeyframePerStream(idx, std, t) ==
  LET keys(s) == [i \in DOMAIN s |-> s[i].key]
      own == OfStream(std, t)
  IN IF own # <<>> THEN keys(own) ELSE keys(OfStream(idx, t))

\* The idx1 - ix## cross-check of open_avi_strict: the streams whose two indexes
\* differ over the primary segment.
Divergent(F, movi, idx) ==
  LET primary == SelectSeq(StdIndexes(F, movi),
                           LAMBDA ix : movi[1].from <= ix.base /\ ix.base < movi[1].to)
      places(s) == [i \in DOMAIN s |-> <<s[i].off, s[i].len>>]
      one(t) == places(OfStream(idx, t))
      two(t) == places(OfStream(StdEntries(primary), t))
  IN {t \in Streams : one(t) # <<>> /\ two(t) # <<>> /\ one(t) # two(t)}

-----------------------------------------------------------------------------
(* The demuxer                                                             *)

Nothing == [kind |-> "nothing"]
Eof == [kind |-> "eof"]
Refused == [kind |-> "refused"]       \* Error::unsupported, Error::invalid
IoError == [kind |-> "io_error"]
PacketOf(t, at, key, pts) == [kind |-> "packet", trk |-> t, at |-> at, key |-> key, pts |-> pts]
Landed(t, pts, gap) == [kind |-> "landed", trk |-> t, pts |-> pts, gap |-> gap]

Closed == [open |-> FALSE, got |-> IoError]

\* Lists whose form type open_avi reads.
HeadersRead(F) == PrimaryChildren(F) \cup Extensions(F) \cup ExtensionChildren(F)

\* open_avi.  counts and bodies are the *_counts and *_data vectors of the
\* side-band kinds; got is the answer of the last call.
Open(F) ==
  LET movi == MoviSegments(F)
      raw == RawIdx1(F)
      base == movi[1].from
      std == StdEntries(StdIndexes(F, movi))
  IN IF movi = <<>> \/ \E at \in HeadersRead(F) : FormCut(F, at)
     THEN Closed
     ELSE [ open |-> TRUE, movi |-> movi,
            idx |-> BuildIdxTable(F, raw, base),
            std |-> Kept(std, LAMBDA e : e.trk \in Streams),
            eager |-> HasIdx1(F),
            counts |-> ScanIdx1SidebandCounts(raw),
            bodies |-> ReadSidebandDataFromIdx1(F, raw, base),
            positions |-> ComputePaletteChangePositions(raw),
            notime |-> F.notime,
            seg |-> 1, pos |-> base, counter |-> [t \in Streams |-> 0],
            got |-> Nothing ]

-----------------------------------------------------------------------------
(* next_packet: one turn of its loop.  d.got = Nothing means another turn.  *)

\* The segment has been read: go to the next one, or stop.
LeaveSegment(d) ==
  LET n == d.seg + 1 IN
  IF n <= Len(d.movi) THEN [d EXCEPT !.seg = n, !.pos = d.movi[n].from]
                      ELSE [d EXCEPT !.seg = n, !.got = Eof]

\* A header of which eight bytes could not be read, or whose body does not fit
\* the segment: Eof, with the header consumed.
StopAfterHeader(F, d) == [d EXCEPT !.pos = Least({@ + 8, F.len}), !.got = Eof]

\* Mutants: a LIST is skipped whole; a side-band chunk is buffered even though
\* open_avi has read it.
SkipList(F, d) == [d EXCEPT !.pos = @ + 8 + Even(F.disk[d.pos].len)]
BufferAgain(d, c) ==
  [d EXCEPT !.counts[c.id][c.trk] = @ + 1, !.bodies[c.id][c.trk] = Append(@, d.pos)]

\* Mutant: a form type that is cut off is read again by the next call.
EnterListAgain(F, d) ==
  IF FormCut(F, d.pos) THEN [d EXCEPT !.got = IoError]
                       ELSE [d EXCEPT !.pos = @ + 12]

\* Step into a LIST rec.
EnterList(F, d) ==
  IF FormCut(F, d.pos) THEN [d EXCEPT !.pos = F.len, !.got = IoError]
                       ELSE [d EXCEPT !.pos = @ + 12]

\* An xxpc or xxtx chunk: counted, and buffered unless open_avi did.
TakeSideband(d, c) ==
  [d EXCEPT !.counts[c.id][c.trk] = @ + 1,
            !.bodies[c.id][c.trk] = IF d.eager THEN @ ELSE Append(@, d.pos)]

\* A packet, stamped with its stream's counter.
Deliver(d, c) ==
  [d EXCEPT !.counter[c.trk] = @ + TimeDelta(c.trk, c.len),
            !.got = PacketOf(c.trk, d.pos, KeyframeAt(d.idx, d.std, d.pos),
                             d.counter[c.trk])]

\* A chunk of the segment: side-band and data chunks of the streams the header
\* declares are taken, JUNK, ix## and the chunks of other streams skipped.
TakeChunk(F, d) ==
  LET c == F.disk[d.pos]
      own == c.trk \in Streams
      t == IF own /\ c.id \in SideIds THEN TakeSideband(d, c)
           ELSE IF own /\ c.id = "data" THEN Deliver(d, c)
           ELSE d
  IN [t EXCEPT !.pos = d.pos + 8 + Even(c.len)]

ReadChunk(F, d) ==
  LET end == d.movi[d.seg].to IN
  IF d.seg > Len(d.movi) THEN [d EXCEPT !.got = Eof]
  ELSE IF d.pos >= end THEN LeaveSegment(d)
  ELSE IF d.pos \notin DOMAIN F.disk THEN StopAfterHeader(F, d)
  ELSE IF F.disk[d.pos].id \in ListIds THEN EnterList(F, d)
  ELSE IF d.pos + 8 + F.disk[d.pos].len > end THEN StopAfterHeader(F, d)
  ELSE TakeChunk(F, d)

\* next_packet: every turn consumes a header or leaves a segment.  A turn acts
\* on the set that holds the demuxer: TLC then evaluates it once.
Turned(F, ds) == {IF p.got = Nothing THEN ReadChunk(F, p) ELSE p : p \in ds}

ReadPacket(F, d) ==
  LET turn[n \in Nat] ==
        IF n = 0 THEN {[d EXCEPT !.got = Nothing]} ELSE Turned(F, turn[n - 1])
  IN CHOOSE p \in turn[Cardinality(DOMAIN F.disk) + Len(d.movi) + 1] : TRUE

-----------------------------------------------------------------------------
(* Seeking                                                                 *)

Refuse(d) == [d EXCEPT !.got = Refused]

\* The segment an offset lies in, 0 for none.
SegmentOf(d, off) == SelectInSeq(d.movi, LAMBDA s : s.from <= off /\ off < s.to)

\* Position the reader at offset off with the counters given.
Land(d, off, counter, answer) ==
  IF SegmentOf(d, off) = 0 THEN Refuse(d)
  ELSE [d EXCEPT !.seg = SegmentOf(d, off), !.pos = off, !.counter = counter, !.got = answer]

\* An idx1 offset before the movi list is moved up to its start.
Clamped(d, off) == IF off < d.movi[1].from THEN d.movi[1].from ELSE off

Keyframes(entries, t) == Kept(entries, LAMBDA e : e.trk = t /\ e.key)

\* seek_to with an idx1
SeekByIdx1(d, t, target) ==
  LET k == SelectKeyframe(Keyframes(d.idx, t), target)
      off == Clamped(d, k.off)
  IN IF k = None THEN Refuse(d)
     ELSE Land(d, off, [u \in Streams |-> Idx1Counter(d.idx, u, off)], Landed(t, k.pts, 0))

\* seek_via_std_indexes
SeekByStd(d, t, target) ==
  LET k == SelectKeyframe(Keyframes(d.std, t), target)
  IN IF k = None THEN Refuse(d)
     ELSE Land(d, k.off, [u \in Streams |-> StdCounter(OfStream(d.std, u), k.off)],
               Landed(t, k.pts, 0))

\* seek_to
Seek(d, t, target) ==
  IF d.idx = <<>> THEN SeekByStd(d, t, target) ELSE SeekByIdx1(d, t, target)

\* How far the caller has to decode on to reach the target.
WithGap(d, target) ==
  IF d.got.kind = "landed" /\ target > d.got.pts
  THEN [d EXCEPT !.got.gap = target - d.got.pts] ELSE d

\* Mutant: a keyframe at the target itself is passed over.
FirstBehind(keyframes, target) ==
  LET later(best, k) ==
        IF k.pts > target /\ (best = None \/ k.pts < best.pts) THEN k ELSE best
      found == FoldLeft(later, None, keyframes)
  IN IF found = None /\ keyframes # <<>> THEN Last(keyframes) ELSE found

\* The entry seek_to_first_video_keyframe_after picks: the first of the least
\* pts at or after the target, else the first of the greatest.
FirstAfter(keyframes, target) ==
  LET later(best, k) ==
        IF k.pts >= target /\ (best = None \/ k.pts < best.pts) THEN k ELSE best
      latest(best, k) == IF best = None \/ k.pts > best.pts THEN k ELSE best
      found == FoldLeft(later, None, keyframes)
  IN IF found = None THEN FoldLeft(latest, None, keyframes) ELSE found

\* seek_to_first_video_keyframe_after: idx1 only, past the entries with
\* AVIIF_NO_TIME, and always by the walk.
SeekAfter(d, t, target) ==
  LET timed == Kept(Keyframes(d.idx, t), LAMBDA e : e.off \notin d.notime)
      k == FirstAfter(timed, target)
      off == Clamped(d, k.off)
      gap == IF k.pts > target THEN k.pts - target ELSE 0
  IN IF k = None THEN Refuse(d)
     ELSE Land(d, off, [u \in Streams |-> ResetByWalk(d.idx, u, off)], Landed(t, k.pts, gap))

=============================================================================
