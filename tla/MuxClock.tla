------------------------------ MODULE MuxClock ------------------------------
(***************************************************************************)
(* The timestamps of the packets a muxer writes (mux_task.rs): the start   *)
(* and the end of copied streams, and the repairs without which the        *)
(* library refuses a packet.                                               *)
(***************************************************************************)
EXTENDS MediaTime

CONSTANTS
  PktTick, OutTick,   \* units in a tick of the packets and of the output streams
  SampleTick,         \* units in a sample of the copied audio
  MuxFormats,         \* records of nonstrict, start, recording (NOPTS: none)
  PktDts,             \* the dts of packets, in ticks
  MaxWritten          \* bound on the packets of a run

(* Time bases are positive, demuxers and encoders count from zero, and no  *)
(* start time is near the value that stands for none.                      *)
ASSUME MuxAssumption ==
  /\ PktTick \in Nat \ {0} /\ OutTick \in Nat \ {0} /\ SampleTick \in Nat \ {0}
  /\ PktDts \subseteq Nat /\ MaxWritten \in Nat
  /\ \A f \in MuxFormats :
       /\ f.nonstrict \in BOOLEAN /\ f.recording \in Int
       /\ LET start == IF f.start = NOPTS THEN 0 ELSE f.start
          IN  start \in Nat /\ start + 2 * PktTick + SampleTick < -NOPTS

VARIABLE muxer        \* what ready_to_init_mux's thread keeps

(* Of each kind one stream: copied audio, copied video, encoded video. *)
MuxStreams == {"audio", "video", "encoded"}

NewMuxers ==
  {[fmt |-> f, started |-> FALSE, n |-> 0,
    delta |-> 0,                                \* st_rescale_delta_last_map
    last |-> [s \in MuxStreams |-> NOPTS],      \* st_last_dts_map
    \* the packet given to av_interleaved_write_frame, and last before it
    out |-> [stream |-> "none", dts |-> NOPTS, pts |-> NOPTS, before |-> NOPTS],
    \* a copied packet was written that came with no dts after the end
    late |-> FALSE] : f \in MuxFormats}
MuxInit == muxer \in NewMuxers

MuxStart == IF muxer.fmt.start = NOPTS THEN 0 ELSE muxer.fmt.start

(* streamcopy_rescale: past the recording time ("eof", which the caller    *)
(* ignores), not at the start yet ("skip"), or to be written.              *)
CopyVerdict(pkt) ==
  LET before == IF pkt.pts = NOPTS THEN pkt.est < MuxStart
                ELSE pkt.pts < Rescale(MuxStart, 1, PktTick)
  IN  IF muxer.fmt.recording # NOPTS /\ pkt.est >= muxer.fmt.recording + MuxStart THEN "eof"
      ELSE IF ~muxer.started /\ (~pkt.key \/ before) THEN "skip"
      ELSE "write"

(* What streamcopy_rescale makes of the timestamps: from the start on, the *)
(* demuxer's estimate for a dts that is missing, and the dts of audio as   *)
(* its pts.                                                                *)
Copied(s, pkt) ==
  LET off == Rescale(MuxStart, 1, PktTick)
      dts == (IF pkt.dts = NOPTS THEN Rescale(pkt.est, 1, PktTick) ELSE pkt.dts) - off
  IN  [dts |-> dts,
       pts |-> IF pkt.dts # NOPTS /\ s = "audio" THEN dts
               ELSE IF pkt.pts = NOPTS THEN NOPTS ELSE pkt.pts - off]

\* A mutant: a dts that is larger than the pts is left alone.
FixNothing(last, dts, pts) ==
  IF dts # NOPTS /\ last # NOPTS /\ dts < last + 1 THEN [dts |-> last + 1, pts |-> pts]
  ELSE [dts |-> dts, pts |-> pts]

(* mux_fixup_ts: a dts behind its pts is replaced by a guess, one that     *)
(* does not come after the last by the next there is.                      *)
Fixed(last, dts, pts) ==
  LET guess == dts # NOPTS /\ pts # NOPTS /\ dts > pts
      d == IF guess THEN Median(pts, dts, last + 1) ELSE dts
      p == IF guess THEN d ELSE pts
      next == last + (IF muxer.fmt.nonstrict THEN 0 ELSE 1)
  IN  IF d # NOPTS /\ last # NOPTS /\ d < next
        THEN [dts |-> next, pts |-> IF p >= d THEN Larger(p, next) ELSE p]
        ELSE [dts |-> d, pts |-> p]

(* write_packet; copied audio is rescaled by its samples, one to a packet *)
Written(s, ts) ==
  LET r == RescaleDelta(PktTick, ts.dts, SampleTick, 1, muxer.delta, OutTick)
      f == IF s = "audio" THEN Fixed(muxer.last[s], r.ts, r.ts)
           ELSE Fixed(muxer.last[s], Rescale(ts.dts, PktTick, OutTick), Rescale(ts.pts, PktTick, OutTick))
  IN  [muxer EXCEPT !.delta = IF s = "audio" THEN r.last ELSE @,
                    !.last[s] = f.dts, !.n = @ + 1,
                    !.out = [stream |-> s, dts |-> f.dts, pts |-> f.pts, before |-> muxer.last[s]]]

(* A packet of the loop of ready_to_init_mux.  started is one for all the  *)
(* streams; a packet past the end is written as it came.                   *)
WritePacket(s, pkt) ==
  /\ muxer.n < MaxWritten
  /\ IF s = "encoded" THEN muxer' = Written(s, pkt)
     ELSE \/ /\ CopyVerdict(pkt) = "eof"
             /\ s = "video" \/ pkt.dts # NOPTS
             /\ muxer' = [Written(s, pkt) EXCEPT !.late = @ \/ pkt.dts = NOPTS]
          \/ /\ CopyVerdict(pkt) = "eof"
             /\ s = "audio" /\ pkt.dts = NOPTS        \* the assertion of the library
             /\ muxer' = [muxer EXCEPT !.late = TRUE, !.n = MaxWritten]
          \/ CopyVerdict(pkt) = "skip" /\ muxer' = [muxer EXCEPT !.n = @ + 1]
          \/ CopyVerdict(pkt) = "write" /\ muxer' = [Written(s, Copied(s, pkt)) EXCEPT !.started = TRUE]

(* The estimate is the dts when there is one; encoders give both stamps.   *)
MuxNext ==
  \E s \in MuxStreams, dts \in PktDts \cup {NOPTS}, ahead \in {-1, 0, 1, NOPTS}, key \in BOOLEAN, guess \in PktDts :
     LET pts == IF ahead = NOPTS THEN NOPTS ELSE IF dts = NOPTS THEN guess + ahead ELSE dts + ahead
     IN  /\ s = "encoded" => dts # NOPTS /\ pts # NOPTS /\ key
         /\ dts # NOPTS => guess = dts
         /\ WritePacket(s, [dts |-> dts, pts |-> pts, key |-> key, est |-> guess * PktTick])
MuxSpec == MuxInit /\ [][MuxNext]_muxer

-----------------------------------------------------------------------------
(* The library takes what it is given: of every stream the dts rise, in a  *)
(* format that is strict about it strictly, and no pts is before its dts,  *)
(* whatever the order of the stamps the demuxers and encoders send.  (A    *)
(* copied packet after the recording time that has no dts breaks this: it  *)
(* is written although streamcopy_rescale answered EOF before it was       *)
(* repaired.)                                                              *)
WritesInOrder ==
  LET o == muxer.out
  IN  o.stream # "none" /\ ~muxer.late =>
        /\ o.dts # NOPTS
        /\ o.before # NOPTS => o.dts >= o.before + (IF muxer.fmt.nonstrict THEN 0 ELSE 1)
        /\ o.pts # NOPTS => o.pts >= o.dts
=============================================================================
