------------------------------ MODULE DecClock ------------------------------
(***************************************************************************)
(* The timestamps a decoder gives its frames (dec_task.rs): estimates of   *)
(* the duration of a video frame, and audio counted in a time base that    *)
(* changes with the sample rate.                                           *)
(***************************************************************************)
EXTENDS MediaTime

CONSTANTS
  Second,        \* units in a second
  FrameTick,     \* units in a tick of the frames' time base
  CodecTick, AverageTick,   \* units between frames by the codec's and the container's rate; 0: not known
  FramePts,      \* best_effort_timestamp of video and pts of audio frames, in ticks
  SampleRates,   \* sample rates, divisors of Second
  MaxRate,       \* rates above it are not representable: i32::MAX
  CommonRate,    \* 28224000, which is used then
  MaxFrames      \* bound on the frames of a run

(* Rates and time bases are positive, no time base is finer than a unit,   *)
(* and the timestamps that come with frames count from zero.               *)
ASSUME DecAssumption ==
  /\ Second \in Nat \ {0} /\ FrameTick \in Nat \ {0} /\ CodecTick \in Nat /\ AverageTick \in Nat
  /\ FramePts \subseteq Nat /\ SampleRates \subseteq Nat \ {0}
  /\ MaxRate \in Nat /\ MaxRate <= Second /\ CommonRate \in 1 .. Second

VARIABLE decoder   \* DecoderParameter

NewDecoders ==
  [media : {"video", "audio"}, last_pts : {NOPTS}, duration_est : {0}, tb : {1}, delta : {0},
   rate : {0}, n : {0},
   \* of the last frame: the end and the time base of the one before, its own pts and time
   \* base, whether it came without a pts, and whether its rate was not representable
   out : {[end |-> NOPTS, was |-> 1, pts |-> NOPTS, tb |-> 1, guessed |-> FALSE]}, inexact : {FALSE}]
DecInit == decoder \in NewDecoders

(* video_duration_estimate: the frame's own duration unless it looks made  *)
(* up, the distance to the frame before, then the frame rates there are.   *)
video_duration_estimate(pts, duration) ==
  LET diff == IF decoder.last_pts # NOPTS THEN pts - decoder.last_pts ELSE -1
      average == Rescale(AverageTick, 1, FrameTick)
      codec == Rescale(CodecTick, 1, FrameTick)
  IN  IF duration > 0 /\ ~(duration = 1 /\ diff > 2) THEN duration
      ELSE IF diff > 0 THEN diff
      ELSE IF duration > 0 THEN duration
      ELSE IF codec > 0 THEN codec
      ELSE IF average > 0 THEN average
      ELSE Larger(decoder.duration_est, 1)

(* pts_pred of audio, and of a video frame without a timestamp *)
Predicted(last, est) == IF last = NOPTS THEN 0 ELSE last + est

(* video_frame_process *)
VideoFrame(best_effort, duration) ==
  LET pts == IF best_effort = NOPTS THEN Predicted(decoder.last_pts, decoder.duration_est) ELSE best_effort
      end == IF decoder.last_pts = NOPTS THEN NOPTS ELSE decoder.last_pts
  IN  decoder' = [decoder EXCEPT !.duration_est = video_duration_estimate(pts, duration), !.last_pts = pts,
                                 !.out = [end |-> end, was |-> 1, pts |-> pts, tb |-> 1, guessed |-> best_effort = NOPTS],
                                 !.n = @ + 1]

Gcd(a, b) == LET common == {g \in 1 .. a : a % g = 0 /\ b % g = 0}
             IN  CHOOSE g \in common : \A h \in common : h <= g

\* A mutant: the last pts is not converted when the rate changes.
RateForgets(rate) ==
  LET g == Gcd(decoder.tb, rate)
      tb == (decoder.tb \div g) * rate
  IN  IF rate = decoder.rate THEN decoder ELSE [decoder EXCEPT !.tb = tb, !.rate = rate]

(* audio_samplerate_update: time bases are 1 / tb here.  The new one can   *)
(* count the samples of all the rates so far, if it is not too fine.       *)
audio_samplerate_update(rate) ==
  LET g == Gcd(decoder.tb, rate)
      fits == decoder.tb \div g < MaxRate \div rate
      tb0 == IF fits THEN (decoder.tb \div g) * rate ELSE CommonRate
      frame == Second \div FrameTick
      tb == IF frame > tb0 /\ frame % tb0 = 0 THEN frame ELSE tb0
  IN  IF rate = decoder.rate THEN decoder
      ELSE [decoder EXCEPT !.last_pts = Rescale(@, tb, decoder.tb), !.duration_est = Rescale(@, tb, decoder.tb),
                           !.tb = tb, !.rate = rate, !.inexact = @ \/ ~fits]

(* audio_ts_process: a frame of a number of samples; one without a pts is  *)
(* put at the end of the one before, one after a gap starts the count anew.*)
(* Time bases of 1 / tb are Second / tb units.                             *)
AudioFrame(in, samples, rate) ==
  LET d == audio_samplerate_update(rate)
      pred == Predicted(d.last_pts, d.duration_est)
      unit == Second \div d.tb
      pts == IF in = NOPTS THEN pred ELSE in
      from == IF in = NOPTS THEN unit ELSE FrameTick
      gap == in # NOPTS /\ d.last_pts # NOPTS /\ in > RescaleUp(pred, unit, FrameTick)
      r == RescaleDelta(from, pts, unit, samples, IF gap THEN NOPTS ELSE d.delta, unit)
      est == Rescale(samples, d.tb, rate)
  IN  decoder' = [d EXCEPT !.delta = r.last, !.last_pts = r.ts, !.duration_est = est, !.n = @ + 1,
                           !.out = [end |-> Predicted(decoder.last_pts, decoder.duration_est), was |-> decoder.tb,
                                    pts |-> r.ts, tb |-> d.tb, guessed |-> in = NOPTS]]

DecNext ==
  /\ decoder.n < MaxFrames
  /\ \E pts \in FramePts \cup {NOPTS}, size \in 0 .. 2 :
       IF decoder.media = "video" THEN VideoFrame(pts, size)
       ELSE \E rate \in SampleRates : size > 0 /\ AudioFrame(pts, size, rate)
DecSpec == DecInit /\ [][DecNext]_decoder

-----------------------------------------------------------------------------
(* A frame without a timestamp comes after the frame before it: video      *)
(* after its pts, audio exactly where its samples end, also across changes *)
(* of the sample rate as long as the rates have a common multiple.         *)
FramesFollow ==
  LET o == decoder.out
  IN  /\ decoder.media = "video" /\ o.guessed /\ o.end # NOPTS => o.pts > o.end
      /\ decoder.media = "audio" /\ o.guessed /\ ~decoder.inexact =>
           o.pts * o.was = o.end * o.tb
=============================================================================
