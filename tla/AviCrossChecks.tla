---------------------------- MODULE AviCrossChecks ----------------------------
(***************************************************************************)
(* The *_violations accessors of AviDemuxer that set the index chunks of a *)
(* file against each other and against the movi lists.  d is an opened     *)
(* demuxer over F; a check answers the places where it found a fault.      *)
(***************************************************************************)
EXTENDS AviReader

Std(F, d) == StdIndexes(F, d.movi)

\* std_index_base_offset_violations: the standard indexes whose qwBaseOffset
\* lies in no movi segment.
StdIndexBaseOffsetViolations(F, d) ==
  {n \in DOMAIN Std(F, d) :
     ~\E i \in DOMAIN d.movi : d.movi[i].from <= Std(F, d)[n].base
                               /\ Std(F, d)[n].base < d.movi[i].to}

\* The super-index records of a stream; an in-strl standard index has none.
SuperEntries(F, t) == IF F.indx[t].kind = "super" THEN F.indx[t].ents ELSE <<>>

\* super_index_stale_targets: the used records at whose offset open_avi has
\* found no ix## chunk of the stream.
SuperIndexStaleTargets(F, d, t) ==
  LET found == IF WantIxScan(F, d.movi) THEN Range(ScanIxInMovi(F, d.movi)) ELSE {}
      own == {at \in found : F.disk[at].trk = t}
  IN {k \in DOMAIN SuperEntries(F, t) : SuperEntries(F, t)[k].at \notin own \cup {0}}

SuperIndexTargetViolations(F, d) ==
  {t \in Streams : SuperIndexStaleTargets(F, d, t) # {}}

\* super_index_duration_violations: the streams among video whose super-index
\* has records that do not add up to dmlh's dwTotalFrames.
SuperIndexDurationViolations(F, video, total) ==
  {t \in video :
     /\ SuperEntries(F, t) # <<>>
     /\ FoldLeft(LAMBDA n, e : n + e.dur, 0, SuperEntries(F, t)) # total}

\* cbr_audio_block_alignment_violations: the chunks, by header offset, listed
\* with a length that is no multiple of their stream's block (align, 0 for None).
CbrAudioBlockAlignmentViolations(F, d, align) ==
  UNION {LET ix == Std(F, d)[n] IN
         {StdOffset(ix, i) : i \in {j \in DOMAIN ix.ents :
            ix.trk \in Streams /\ align[ix.trk] > 1 /\ ix.ents[j].len % align[ix.trk] # 0}} :
         n \in DOMAIN Std(F, d)}

=============================================================================
