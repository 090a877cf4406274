----------------------------- MODULE DemuxClock -----------------------------
(***************************************************************************)
(* The timestamps a demuxer gives its packets (demux_task.rs): correction  *)
(* of wrapped counters, offsets, loops of the input, discontinuities, and  *)
(* the prediction of the next dts of every stream.                         *)
(***************************************************************************)
EXTENDS MediaTime, FiniteSets

CONSTANTS
  Tick,           \* units in a tick of the packets' time base
  WrapBits,       \* bits of the counters in the input
  Delta, Tenth,   \* DTS_DELTA_THRESHOLD and AV_TIME_BASE / 10, in units
  ErrorLimit,     \* DTS_ERROR_THRESHOLD, in units
  FrameStep,      \* units from one packet of a stream to the next
  RawDts,         \* the dts that are read, in ticks
  Formats,        \* records of discont, copy_ts, have_audio_dec, start_time
  MaxPackets      \* bound on the packets of a run

(* A frame lasts a tick of its time base or more, and no packet comes with *)
(* a dts as low as the value that stands for none.                         *)
ASSUME DemuxAssumption ==
  /\ Tick \in Nat \ {0} /\ FrameStep \in Nat /\ FrameStep >= Tick /\ WrapBits \in Nat \ {0}
  /\ Delta \in Nat /\ Tenth \in Nat /\ ErrorLimit \in Nat
  /\ \A t \in RawDts : t \in Int /\ t > NOPTS
  /\ \A f \in Formats :
       /\ f.discont \in BOOLEAN /\ f.copy_ts \in BOOLEAN /\ f.have_audio_dec \in BOOLEAN
       /\ f.start_time \in Int

VARIABLE demuxer  \* DemuxerParamter, with the packet that was processed last

DemuxStreams == {"video", "audio"}

(* DemuxStreamParamter::new *)
NewStream == [wrap_done |-> FALSE, saw_first_ts |-> FALSE, first_dts |-> NOPTS,
              next_dts |-> NOPTS, dts |-> 0]

(* DemuxerParamter::new *)
NewDemuxer(fmt) ==
  [fmt |-> fmt, ts_offset_discont |-> 0, last_ts |-> 0, duration |-> 0, min_pts |-> NOPTS,
   max_pts |-> NOPTS, end_pts |-> NOPTS, loops |-> 1, read |-> 0,
   top |-> NOPTS,     \* the largest pts given out
   seam |-> NOPTS,    \* top and min_pts when the input was last taken to its start
   low |-> NOPTS,
   ds |-> [s \in DemuxStreams |-> NewStream],
   \* of the last packet: its stream, what was predicted, what it got
   last |-> [stream |-> "none", was |-> NewStream, dts |-> NOPTS, pts |-> NOPTS, raw |-> NOPTS]]

-----------------------------------------------------------------------------
(* A counter that wrapped before the start of the input is taken back, for *)
(* the packets up to the first that needs no correction.                   *)
Half == 2 ^ (WrapBits - 1)
Wrapped(d, s, ts) ==
  /\ ~d.ds[s].wrap_done /\ d.fmt.start_time # NOPTS /\ ts # NOPTS
  /\ ts > Rescale(d.fmt.start_time, 1, Tick) + Half
Unwrap(d, s, ts) == IF Wrapped(d, s, ts) THEN ts - 2 * Half ELSE ts

Shift(ts, by) == IF ts = NOPTS THEN NOPTS ELSE ts + by

(* ts_fixup up to the discontinuities: the counters, then the duration of  *)
(* the loops before, with the extent of the input noted on the way.        *)
WithExtent(d, s, pkt) ==
  LET pts == Shift(Unwrap(d, s, pkt.pts), d.duration)
      end == pts + (IF d.fmt.have_audio_dec THEN 0 ELSE FrameStep \div Tick)
      done == d.fmt.start_time # NOPTS /\ ~Wrapped(d, s, pkt.dts) /\ ~Wrapped(d, s, pkt.pts)
      e == [d EXCEPT !.ds[s].wrap_done = @ \/ done, !.end_pts = pkt.pts]
  IN  IF pts = NOPTS THEN e
      ELSE [e EXCEPT !.max_pts = IF @ = NOPTS \/ @ < end THEN end ELSE @,
                     !.min_pts = IF @ = NOPTS \/ @ > pts THEN pts ELSE @]

\* A mutant: only timestamps that jump ahead are noticed.
JumpAhead(d, s, dts) ==
  LET delta == dts * Tick - d.ds[s].next_dts
  IN  IF d.fmt.discont /\ d.ds[s].next_dts # NOPTS /\ delta > Delta THEN delta ELSE 0

(* ts_discontinuity_detect: what is taken from the timestamps of a packet  *)
(* whose dts is far from the one that was predicted, in units; copy_ts     *)
(* turns this off unless the counter wrapped.                              *)
Jump(d, s, dts) ==
  LET st == d.ds[s]
      at == dts * Tick
      delta == at - st.next_dts
      wrap == (dts + 2 * Half) * Tick
      off == d.fmt.copy_ts /\ ~(/\ st.next_dts # NOPTS /\ d.fmt.discont
                                /\ Abs(wrap - st.next_dts) < Abs(at - st.next_dts) \div 10)
  IN  IF ~d.fmt.discont THEN 0
      ELSE IF st.next_dts # NOPTS
        THEN IF ~off /\ (Abs(delta) > Delta \/ at + Tenth < st.dts) THEN delta ELSE 0
      ELSE IF ~d.fmt.copy_ts /\ d.last_ts # NOPTS /\ Abs(at - d.last_ts) > Delta
        THEN at - d.last_ts ELSE 0

(* In a format without discontinuities a timestamp that is far off is      *)
(* dropped instead.                                                        *)
Kept(d, s, ts) ==
  LET far == Abs(ts * Tick - d.ds[s].next_dts) > ErrorLimit
  IN  IF ts = NOPTS \/ d.fmt.discont \/ d.fmt.copy_ts \/ d.ds[s].next_dts = NOPTS \/ ~far
        THEN ts ELSE NOPTS

(* ts_discontinuity_process: the offset found so far, then the detection *)
Corrected(d, s, dts, pts) ==
  LET off == Near(d.ts_offset_discont, Tick)
      a == Shift(dts, off)
      b == Shift(pts, off)
      jump == IF a = NOPTS THEN 0 ELSE Jump(d, s, a)
      back == Near(jump, Tick)
  IN  IF a = NOPTS THEN [d |-> d, dts |-> a, pts |-> b]
      ELSE LET dts2 == Kept(d, s, a - back)
               pts2 == Kept(d, s, Shift(b, -back))
           IN  [d |-> [d EXCEPT !.ts_offset_discont = @ - jump, !.last_ts = Rescale(dts2, Tick, 1)],
                dts |-> dts2, pts |-> pts2]

(* ist_dts_update: the dts of the packet, predicted if it has none, and    *)
(* the prediction for the next: a frame of audio later, or the next tick   *)
(* of the frame rate.                                                      *)
Updated(st, s, dts, pts) ==
  LET first == IF pts = NOPTS THEN 0 ELSE pts * Tick
      next0 == IF st.next_dts = NOPTS THEN IF st.saw_first_ts THEN st.dts ELSE first
               ELSE st.next_dts
      now == IF dts # NOPTS THEN dts * Tick ELSE next0
  IN  [st EXCEPT !.saw_first_ts = TRUE, !.first_dts = IF st.saw_first_ts THEN @ ELSE first,
                 !.dts = now,
                 !.next_dts = IF s = "audio" THEN now + FrameStep
                              ELSE (Near(now, FrameStep) + 1) * FrameStep]

(* input_packet_process *)
Packet(s, pkt) ==
  /\ demuxer.read < MaxPackets
  /\ LET d == WithExtent(demuxer, s, pkt)
         c == Corrected(d, s, Shift(Unwrap(demuxer, s, pkt.dts), d.duration),
                              Shift(Unwrap(demuxer, s, pkt.pts), d.duration))
     IN  demuxer' = [c.d EXCEPT !.ds[s] = Updated(@, s, c.dts, c.pts), !.read = @ + 1,
                                !.last = [stream |-> s, was |-> d.ds[s], dts |-> c.dts, pts |-> c.pts, raw |-> pkt.pts],
                                !.top = Larger(@, c.pts)]

(* seek_to_start: the duration of what was read so far is added from now   *)
(* on; the largest pts ever seen stays.                                    *)
SeekToStart ==
  /\ demuxer.loops > 0 /\ demuxer.read \in 1 .. MaxPackets - 1
  /\ LET m == IF demuxer.max_pts < demuxer.end_pts THEN demuxer.end_pts ELSE demuxer.max_pts
         low == IF demuxer.min_pts = NOPTS THEN 0 ELSE demuxer.min_pts
     IN  demuxer' = [demuxer EXCEPT !.max_pts = m, !.loops = @ - 1, !.seam = demuxer.top, !.low = low,
                                    !.last.pts = NOPTS,
                                    !.duration = IF m = NOPTS THEN @ ELSE m - low]

NewDemuxers == {NewDemuxer(f) : f \in Formats}
DemuxInit == demuxer \in NewDemuxers
DemuxPacket == \E s \in DemuxStreams, dts \in RawDts \cup {NOPTS}, pts \in {1, NOPTS} :
                 Packet(s, [dts |-> dts, pts |-> IF pts = NOPTS \/ dts = NOPTS THEN pts ELSE dts + pts])
DemuxNext == DemuxPacket \/ SeekToStart

DemuxSpec == DemuxInit /\ [][DemuxNext]_demuxer

-----------------------------------------------------------------------------
(* In a format with discontinuities the dts of a stream neither falls back *)
(* by more than a tenth of a second nor runs ahead of its prediction by    *)
(* more than the threshold, whatever the input's counters do and although  *)
(* the streams share one offset; a tick is lost to rounding.               *)
TimelineHolds ==
  LET l == demuxer.last
  IN  demuxer.fmt.discont /\ ~demuxer.fmt.copy_ts /\ l.dts # NOPTS /\ l.was.next_dts # NOPTS =>
        /\ l.dts * Tick >= l.was.dts - Tenth - Tick
        /\ l.dts * Tick - l.was.next_dts <= Delta + Tick

(* A round of a looped input comes after the round before it: its packets  *)
(* have larger pts than all of that round, unless audio is decoded, whose  *)
(* decoders would have to report the duration of the last packet.          *)
LoopGoesOn ==
  LET d == demuxer
  IN  /\ ~d.fmt.discont /\ ~d.fmt.have_audio_dec /\ d.fmt.start_time = NOPTS
      /\ d.seam # NOPTS /\ d.last.pts # NOPTS /\ d.last.raw >= d.low
      => d.last.pts > d.seam

(* What a demuxer hands on has one timeline: no stream leaves it at a      *)
(* discontinuity, and the rounds of a looped input follow each other.      *)
DemuxTimesHold == TimelineHolds /\ LoopGoesOn
=============================================================================
