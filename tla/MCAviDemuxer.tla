----------------------------- MODULE MCAviDemuxer -----------------------------
(***************************************************************************)
(* Instances of AviDemuxer for TLC: files laid out from a short plan.      *)
(* Stream 0 is video (one tick a packet), stream 1 is PCM audio of two     *)
(* bytes a tick, stream 2 is named by a chunk and by no header.            *)
(***************************************************************************)
EXTENDS AviDemuxer, TLC

MCDivisor == 0 :> 0 @@ 1 :> 2

C(id, trk, len, key) ==
  [id |-> id, trk |-> trk, len |-> len, key |-> key, base |-> 0, ents |-> <<>>]
Vk == C("data", 0, 5, TRUE)
Vd == C("data", 0, 2, FALSE)
A3 == C("data", 1, 6, TRUE)
A0 == C("data", 1, 1, TRUE)
\* Palette changes: Pk is listed with AVIIF_KEYFRAME and AVIIF_NO_TIME, Pc
\* gives one of its colours anew, Pg leaves a gap behind the table, Pn does
\* not parse.
P(key, first, colours) ==
  [C("pc", 0, 4 + 4 * Len(colours), key) EXCEPT !.base = first, !.ents = colours]
Pk == P(TRUE, 1, <<"red", "green">>)
Pc == P(FALSE, 2, <<"blue">>)
Pg == P(FALSE, 5, <<"white">>)
Pn == C("pc", 0, 3, FALSE)
MCTable == [t \in Streams |-> IF t = 0 THEN <<"grey", "brown">> ELSE NoPalette]
Tx == C("tx", 1, 2, FALSE)
Alien == C("data", 2, 4, TRUE)
Junk == C("JUNK", -1, 4, FALSE)
Ix(t) == C("ix", t, 0, FALSE)

\* The bytes of a cell in a flat sequence: a list is followed by its contents.
Advance(c) == IF c.id \in ListIds THEN 12 ELSE 8 + Even(c.len)
Bytes(cells) == FoldLeft(LAMBDA n, c : n + Advance(c), 0, cells)
List(id, cells) == <<C(id, -1, 4 + Bytes(cells), FALSE)>> \o cells
Rec(cells) == List("rec", cells)

\* The media chunks an ix## cell at position i of a segment lists.
IxMembers(cells, i) ==
  LET t == cells[i].trk
      last == SelectLastInSubSeq(cells, 1, i - 1, LAMBDA c : c.id = "ix" /\ c.trk = t)
  IN SelectSeq([j \in 1 .. i - 1 |-> j],
               LAMBDA j : j > last /\ cells[j].id \in MediaIds /\ cells[j].trk = t)

\* Index chunks get their size from what they list.
Sized(cells) ==
  [i \in DOMAIN cells |-> IF cells[i].id = "ix"
                          THEN [cells[i] EXCEPT !.len = 24 + 8 * Len(IxMembers(cells, i))]
                          ELSE cells[i]]

\* Where the cells of a sequence stand that starts at offset from.
At(cells, from, i) == from + Bytes(SubSeq(cells, 1, i - 1))

\* Index chunks get their entries once every offset is known.
Indexed(cells, from) ==
  [i \in DOMAIN cells |->
     IF cells[i].id # "ix" THEN cells[i]
     ELSE LET js == IxMembers(cells, i) IN
          [cells[i] EXCEPT !.base = from, !.ents = [n \in DOMAIN js |->
             [off |-> At(cells, from, js[n]) + 8 - from,
              len |-> cells[js[n]].len, key |-> cells[js[n]].key]]]]

\* idx1 over a segment: every media chunk and every LIST rec.
Idx1Entry(c, off) == [id |-> c.id, trk |-> c.trk, len |-> c.len, key |-> c.key, off |-> off]
Idx1Listed(cells) ==
  SelectSeq([j \in DOMAIN cells |-> j], LAMBDA j : cells[j].id \in MediaIds \cup {"rec"})
Idx1Over(cells, from, shift) ==
  [n \in DOMAIN Idx1Listed(cells) |->
     LET j == Idx1Listed(cells)[n] IN Idx1Entry(cells[j], At(cells, from, j) - shift)]
Idx1Of(ents) == [C("idx1", -1, 16 * Len(ents), FALSE) EXCEPT !.ents = ents]
Idx1Cell(cells, from, mode) ==
  CASE mode = "absolute" -> Idx1Of(Idx1Over(cells, from, 0))
    [] mode = "relative" -> Idx1Of(Idx1Over(cells, from, from - 4))
    [] mode = "reversed" -> Idx1Of(Reverse(Idx1Over(cells, from, from - 4)))

Hdrl == C("hdrl", -1, 4, FALSE)
FirstMovi == 36      \* RIFF, hdrl and movi headers

Segment(n, from, cells, idx1) ==
  List("RIFF", (IF n = 1 THEN <<Hdrl>> ELSE <<>>) \o List("movi", Indexed(cells, from))
               \o (IF idx1 = "none" THEN <<>> ELSE <<Idx1Cell(cells, from, idx1)>>))

\* A plan is the cells of each segment, the kind of idx1 and whether the
\* streams have a super-index.
Plan(segs, idx1, super, full) == [segs |-> segs, idx1 |-> idx1, super |-> super, full |-> full]

\* The segments from the second on, behind the cells before them.
Extended(before, segs) ==
  IF Len(segs) = 1 THEN before
  ELSE before \o Segment(2, Bytes(before) + 24, Sized(segs[2]), "none")

Layout(p) == Extended(Segment(1, FirstMovi, Sized(p.segs[1]), p.idx1), p.segs)

\* The cells by their offsets offs; the keyframe palette change is the one with
\* AVIIF_NO_TIME.
Placed(cells, offs, p) ==
  [ disk |-> [at \in Range(offs) |-> cells[CHOOSE i \in DOMAIN cells : offs[i] = at]],
    len |-> Bytes(cells),
    indx |-> [t \in Streams |-> [kind |-> IF p.super THEN "super" ELSE "none", base |-> 0,
                                 ents |-> IF p.super THEN <<[at |-> 1]>> ELSE <<>>]],
    notime |-> {offs[i] : i \in {j \in DOMAIN cells : cells[j] = Pk}},
    twofield |-> {}, full |-> p.full, table |-> MCTable ]

FileFrom(cells, p) == Placed(cells, [i \in DOMAIN cells |-> At(cells, 0, i)], p)
FileOf(p) == FileFrom(Layout(p), p)

\* The file cut to n bytes: the headers that are still there.
Cut(F, n) ==
  [F EXCEPT !.len = n, !.disk = [at \in {a \in DOMAIN @ : a + 8 <= n} |-> @[at]]]

-----------------------------------------------------------------------------
Mixed == <<Vk, A3, Vd, A0, Vk, A0, A3, Vd>>
Sidebands == <<Pk, Vk, A3, Tx, Vd, Pc, Alien, Pg, Vk, Pn, A0>>
Clusters == Rec(<<Vk, A3>>) \o <<Junk>> \o Rec(<<Vd, A0, Vk>>)
Inline == Rec(<<Vk, A3>>) \o <<Ix(0)>> \o Rec(<<Vd, A0, Vk>>) \o <<Ix(0), Ix(1)>>
Second == <<Vd, A3, Vk, A0, Ix(0), Ix(1)>>

Plans ==
  { Plan(<<Mixed>>, k, FALSE, TRUE) : k \in {"relative", "absolute", "reversed"} }
  \cup { Plan(<<Sidebands>>, "relative", FALSE, TRUE),
         Plan(<<Sidebands>>, "none", FALSE, FALSE),
         Plan(<<Clusters>>, "absolute", FALSE, TRUE),
         Plan(<<Inline>>, "none", TRUE, TRUE),
         Plan(<<Inline, Second>>, "relative", TRUE, TRUE),
         Plan(<<Inline, Second>>, "none", FALSE, TRUE) }

WholeFiles == {FileOf(p) : p \in Plans}

\* Two files cut inside and right behind every chunk header from the movi list
\* on, the form types of lists included.
CutsOf(F) ==
  {Cut(F, at + n) : at \in {a \in DOMAIN F.disk : a >= FirstMovi - 12}, n \in {4, 9, 12, 13}}
CutFiles ==
  UNION {CutsOf(FileOf(p)) : p \in {Plan(<<Clusters>>, "relative", FALSE, TRUE),
                                    Plan(<<Inline, Second>>, "none", TRUE, TRUE)}}

MCFiles == WholeFiles \cup CutFiles
MCTargets == {-1, 1, 3, 9}

OnlyStdFile == {FileOf(Plan(<<Inline>>, "none", TRUE, TRUE))}

\* Every file here is laid out without gaps, ends its movi lists where chunks
\* end and lists only keyframes it holds: what AviDemuxer_orderly assumes.
ASSUME OrderlyMCFiles == \A F \in MCFiles : Orderly(F)

\* Where a movi list is left, their indexes leave out no packet before one they
\* list.
ASSUME GaplessMCFiles == \A F \in MCFiles : MoviSegments(F) # <<>> => Gapless(F)

\* Where an index is full, what a seek searches leaves out no keyframe.
ASSUME ThoroughMCFiles == \A F \in MCFiles : MoviSegments(F) # <<>> => Thorough(F)

\* Where nothing is missing, an idx1 lists every chunk once.
ASSUME ItemizedMCFiles == \A F \in MCFiles : MoviSegments(F) # <<>> => Itemized(F)

\* seek_cache_select_keyframe against the linear scan it replaced, over every
\* table of up to three entries, in order or not.
Table(n) == [1 .. n -> [pts : 0 .. 2, off : 1 .. 2]]
ASSUME SelectKeyframeAgrees ==
  \A n \in 0 .. 3 : \A s \in Table(n), target \in -1 .. 3 :
    SelectKeyframe(s, target) = IF n = 0 THEN None ELSE Scan(s, target)

=============================================================================
