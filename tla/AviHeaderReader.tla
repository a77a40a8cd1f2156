--------------------------- MODULE AviHeaderReader ---------------------------
(***************************************************************************)
(* What open_avi of demuxer.rs makes of the chunks in front of the movi    *)
(* list: the walks, the bodies, and the rules that refuse a file.  Files   *)
(* are those of AviHeader; an offset without a header ends a walk.         *)
(***************************************************************************)
EXTENDS AviHeader, AviStreams

-----------------------------------------------------------------------------
(* Walking a list *)

IsList(c) == c.id \in {"RIFF", "LIST"}

\* The end of a list's body, clamped to what is around it.
BodyEnd(f, p, end) == Least(p + 12 + Largest(f.chunks[p].size - 4, 0), end)

Following(f, p, end) ==
  IF f.chunks[p].id = "LIST" THEN BodyEnd(f, p, end) + (f.chunks[p].size % 2)
                             ELSE p + 8 + Padded2(f.chunks[p].size)

\* The offsets of the headers from one offset up to another.
Walk(f, from, end) ==
  LET visit[p \in Nat] ==
        IF p >= end \/ p \notin DOMAIN f.chunks THEN <<>>
        ELSE <<p>> \o visit[Following(f, p, end)]
  IN  visit[from]

ListBody(f, p, end) == Walk(f, p + 12, BodyEnd(f, p, end))

ChunksOf(f, items, id) == SelectSeq(items, LAMBDA p : f.chunks[p].id = id)
ListsOf(f, items, form) ==
  SelectSeq(items, LAMBDA p : f.chunks[p].id = "LIST" /\ f.chunks[p].form = form)

\* A later chunk of the same id replaces an earlier one.
LastOf(offsets) == IF offsets = <<>> THEN None ELSE Some(offsets[Len(offsets)])
LastBody(f, items, id) ==
  LET at == LastOf(ChunksOf(f, items, id))
  IN  IF at = None THEN None ELSE Some(f.chunks[at[1]].body)

Concatenated(parts) ==
  LET upto[n \in 0..Len(parts)] == IF n = 0 THEN <<>> ELSE upto[n - 1] \o parts[n]
  IN  upto[Len(parts)]

-----------------------------------------------------------------------------
(* Texts *)

\* Mutant: a terminator stays with the text.
StripNothing(text, drop) == text

\* What is left without the characters of a set at the end.
StripEnd(text, drop) ==
  LET kept == {n \in DOMAIN text : text[n] \notin drop}
  IN  IF kept = {} THEN <<>>
      ELSE SubSeq(text, 1, CHOOSE n \in kept : \A k \in kept : k <= n)

StripStart(text, drop) ==
  LET kept == {n \in DOMAIN text : text[n] \notin drop}
  IN  IF kept = {} THEN <<>>
      ELSE SubSeq(text, CHOOSE n \in kept : \A k \in kept : n <= k, Len(text))

UpToNul(text) ==
  LET nuls == {n \in DOMAIN text : text[n] = "nul"}
  IN  IF nuls = {} THEN text ELSE SubSeq(text, 1, (CHOOSE n \in nuls : \A k \in nuls : n <= k) - 1)

NonEmpty(text) == IF text = <<>> THEN None ELSE Some(text)

\* Dates and time codes lose their white space, names only the terminator.
ParseDate(body) == IF body = None THEN None ELSE NonEmpty(StripEnd(body[1].at[0], {"nul", " "}))
ParseStrn(body) == IF body = None THEN None ELSE NonEmpty(StripEnd(body[1].at[0], {"nul"}))

\* LIST INFO: the identifiers with a name of their own, and all others.
InfoKeys ==
  [INAM |-> "title", IART |-> "artist", IPRD |-> "album", ICMT |-> "comment", ICRD |-> "date",
   IGNR |-> "genre", ICOP |-> "copyright", IENG |-> "engineer", ITCH |-> "technician",
   ISFT |-> "encoder", ISBJ |-> "subject", ITRK |-> "track"]
InfoKey(id) == IF id \in DOMAIN InfoKeys THEN <<"", InfoKeys[id]>> ELSE <<"avi:info", id>>

InfoValue(body) == StripStart(StripEnd(UpToNul(body.at[0]), {" "}), {" "})

ParseInfoList(f, items) ==
  LET entries == [k \in DOMAIN items |->
                    <<InfoKey(f.chunks[items[k]].id), InfoValue(f.chunks[items[k]].body)>>]
  IN  SelectSeq(entries, LAMBDA e : e[2] # <<>>)

\* info_all_for: the values of an identifier under either key.
Values(entries) == [k \in DOMAIN entries |-> entries[k][2]]
InfoAllFor(info, id) ==
  Values(SelectSeq(info, LAMBDA e : e[1] \in {InfoKey(id), <<"avi:info", id>>}))

-----------------------------------------------------------------------------
(* Bodies *)

NoAvih == Dwords(<<0, 0, 0, {}, 0, 0, 0, 0, 0, 0, 0, 0, 0, 0>>)

ParseAvih(b) ==
  [micro_sec_per_frame |-> b.at[0], max_bytes_per_sec |-> b.at[4], padding |-> b.at[8],
   flags |-> b.at[12], total_frames |-> b.at[16], initial_frames |-> b.at[20],
   streams |-> b.at[24], suggested_buffer_size |-> b.at[28], width |-> b.at[32],
   height |-> b.at[36],
   reserved |-> IF b.len >= 56 THEN <<b.at[40], b.at[44], b.at[48], b.at[52]>> ELSE <<0, 0, 0, 0>>]

\* Mutant: the first description is taken for a part of the fixed fields.
FieldCountShort(b) == Least(Least(b.at[32], (b.len - 68) \div 32), 8)

\* At most eight field descriptions, and no more than the body holds.
FieldCount(b) == Least(Least(b.at[32], (b.len - 36) \div 32), 8)

ParseVprp(b) ==
  [video_format_token |-> b.at[0], video_standard |-> b.at[4], vertical_refresh_rate |-> b.at[8],
   h_total_in_t |-> b.at[12], v_total_in_lines |-> b.at[16], frame_aspect_ratio |-> b.at[20],
   frame_width_in_pixels |-> b.at[24], frame_height_in_lines |-> b.at[28],
   nb_field_per_frame |-> b.at[32],
   field_descs |-> [i \in 1..FieldCount(b) |-> [k \in 1..8 |-> b.at[36 + 32 * (i - 1) + 4 * (k - 1)]]]]

\* A body that is too short leaves what was there.
VprpOf(f, items) ==
  LET at == LastOf(SelectSeq(ChunksOf(f, items, "vprp"), LAMBDA p : f.chunks[p].body.len >= 36))
  IN  IF at = None THEN NoVprpConfig ELSE ParseVprp(f.chunks[at[1]].body)

\* parse_ix_chunk on the body of an indx: the entry size follows from the
\* two fields before it; entries that do not fit are not read.
EntrySize(b) ==
  CASE b.at[0] = 2 -> 8 [] b.at[0] = 3 /\ b.at[2] = 1 -> 12 [] OTHER -> 0
ParseIxChunk(b) ==
  IF EntrySize(b) = 0 THEN None
  ELSE Some([chunk |-> b.at[8], sub |-> b.at[2], declared |-> b.at[4],
             entries |-> Least(b.at[4], (b.len - 24) \div EntrySize(b))])

NoIndx == [ok |-> TRUE, type |-> None, std |-> None]
ParseIndx(b) ==
  [ok |-> b.len >= 24 /\ (b.at[3] = 0 => b.len >= 24 + 16 * b.at[4]),
   type |-> Some(b.at[3]),
   std |-> IF b.at[3] = 1 THEN ParseIxChunk(b) ELSE None]
IndxOf(body) == IF body = None THEN NoIndx ELSE ParseIndx(body[1])

\* DmlhInfo: the number, the size declared, and the bytes after the number.
ParseDmlh(body) ==
  IF body = None THEN None
  ELSE Some([total_frames |-> IF body[1].len >= 4 THEN Some(body[1].at[0]) ELSE None,
             declared |-> body[1].len,
             reserved |-> Largest(Least(body[1].len, 4096) - 4, 0)])

\* Of several odml lists the last one counts, of several dmlh the first.
FirstBody(f, items, id) ==
  IF ChunksOf(f, items, id) = <<>> THEN None
  ELSE Some(f.chunks[ChunksOf(f, items, id)[1]].body)
OdmlOf(f, lists, end) ==
  IF lists = <<>> THEN None
  ELSE ParseDmlh(FirstBody(f, ListBody(f, lists[Len(lists)], end), "dmlh"))

-----------------------------------------------------------------------------
(* parse_strl, parse_hdrl and walk_riff_body *)

StrlOf(f, items, resolver, strh) ==
  [built |-> BuildStream(strh, OrElse(LastBody(f, items, "strf"), EmptyBody), resolver),
   strh |-> ParseStrh(strh), indx |-> IndxOf(LastBody(f, items, "indx")),
   vprp |-> VprpOf(f, items), name |-> ParseStrn(LastBody(f, items, "strn")),
   header_data |-> IF LastBody(f, items, "strd") = None THEN None
                   ELSE Some(LastBody(f, items, "strd")[1].at[0])]

\* A strl without a strh is no stream.
ParseStrl(f, items, resolver) ==
  IF LastBody(f, items, "strh") = None THEN <<>>
  ELSE <<StrlOf(f, items, resolver, LastBody(f, items, "strh")[1])>>

ParseHdrl(f, items, end, resolver) ==
  [main |-> OrElse(LastBody(f, items, "avih"), NoAvih),
   streams |-> Concatenated([k \in DOMAIN ListsOf(f, items, "strl") |->
                 ParseStrl(f, ListBody(f, ListsOf(f, items, "strl")[k], end), resolver)]),
   info |-> Concatenated([k \in DOMAIN ListsOf(f, items, "INFO") |->
              ParseInfoList(f, ListBody(f, ListsOf(f, items, "INFO")[k], end))]),
   dmlh |-> OdmlOf(f, ListsOf(f, items, "odml"), end),
   idit |-> ParseDate(LastBody(f, items, "IDIT")),
   ismp |-> ParseDate(LastBody(f, items, "ISMP"))]

Refused == [ok |-> FALSE]

Sizes(f, offsets) == [k \in DOMAIN offsets |-> f.chunks[offsets[k]].size]
BodiesAt(f, offsets) == [k \in DOMAIN offsets |-> f.chunks[offsets[k]].body]
CsetsAt(f, offsets) ==
  [k \in DOMAIN offsets |-> [i \in 1..4 |-> f.chunks[offsets[k]].body.at[2 * (i - 1)]]]

Acceptable(f, items, h) ==
  /\ h.main.len >= 40
  /\ h.streams # <<>>
  /\ \A i \in DOMAIN h.streams : Opens(h.streams[i].built) /\ h.streams[i].indx.ok
  /\ ListsOf(f, items, "movi") # <<>>

View(f, items, h, info) ==
  IF ~Acceptable(f, items, h) THEN Refused
  ELSE [ok |-> TRUE, avih |-> ParseAvih(h.main), streams |-> h.streams, info |-> info,
        dmlh |-> h.dmlh, idit |-> h.idit, ismp |-> h.ismp,
        junk |-> Sizes(f, ChunksOf(f, items, "JUNK")),
        disp |-> BodiesAt(f, ChunksOf(f, items, "DISP")),
        cset |-> CsetsAt(f, ChunksOf(f, items, "CSET")),
        segments |-> Len(ListsOf(f, items, "movi"))]

WithHdrl(f, items, h, end) ==
  View(f, items, h,
    h.info \o Concatenated([k \in DOMAIN ListsOf(f, items, "INFO") |->
                ParseInfoList(f, ListBody(f, ListsOf(f, items, "INFO")[k], end))]))

WalkRiffBody(f, items, end, resolver) ==
  LET hdrl == LastOf(ListsOf(f, items, "hdrl"))
  IN  IF hdrl = None THEN Refused
      ELSE WithHdrl(f, items,
             ParseHdrl(f, ListBody(f, hdrl[1], end), BodyEnd(f, hdrl[1], end), resolver), end)

\* The primary RIFF ends with its size or with the file.
OpenAvi(f, resolver) ==
  LET end == Least(8 + f.chunks[0].size, f.len)
  IN  WalkRiffBody(f, Walk(f, 12, end), end, resolver)
=============================================================================
