----------------------------- MODULE VideoSync -----------------------------
(***************************************************************************)
(* The frames a video output of a filter graph sends (filter_task.rs:      *)
(* fg_output_frame, video_sync_process): repeated and dropped so that they *)
(* fit the frame rate of the encoder, and the end of the output.  Times    *)
(* are in quarters of a tick of the output's time base, so that no sum     *)
(* meets one of the thresholds, which are tenths; the marks of key frames  *)
(* are left out.                                                           *)
(***************************************************************************)
EXTENDS MediaTime, Sequences

CONSTANTS
  Methods,       \* VSyncMethod: cfr, vfr, vscfr, passthrough
  Gaps,          \* distances from the end of a frame to the next, in quarters
  Durations,     \* durations of frames, in quarters
  MaxIn, MaxOut  \* bounds on the frames of a run and on the frames out

VSyncMethods == {"cfr", "vfr", "vscfr", "passthrough"}
ASSUME VideoAssumption == Methods \subseteq VSyncMethods /\ Gaps \subseteq Int /\ Durations \subseteq Int

VARIABLE video   \* OutputFilterParameter and its FPSConvContext

NewVideos ==
  [method : Methods, next_pts : {0}, hist : {<<0, 0, 0>>}, last_dropped : {FALSE},
   frame_number : {0}, got_frame : {FALSE},
   last : {0},            \* the frame kept in last_frame, 0: none; frames are numbered
   in : {0}, clock : {0}, \* frames so far, and the time at which the last one ends
   out : {<<>>},          \* [frame, pts] of what was sent
   eof : {FALSE}, dummy : {FALSE},
   sent : {NOPTS}]        \* frames sent for the last one, if that had a time
VideoInit == video \in NewVideos

(* mid_pred *)
mid_pred(a, b, c) == Median(a, b, c)

\* A mutant: a frame that is late is not repeated.
SyncOnce(v, sync, dur) ==
  LET delta == sync - 4 * v.next_pts + dur
  IN  [n |-> IF 10 * delta < -44 THEN 0 ELSE 1, prev |-> 0, pts |-> v.next_pts]

(* The frames to send for a frame at time sync that lasts dur: how many,   *)
(* how many of them repeat the frame before, and the pts of the first.     *)
Sync(v, sync, dur) ==
  LET at == 4 * v.next_pts
      delta == sync - at + dur
      clip == sync < at /\ delta > 0 /\ v.method # "passthrough"
      delta0 == IF clip THEN 0 ELSE sync - at
      start == IF clip THEN v.next_pts ELSE Near(sync, 4)
  IN  CASE v.method = "cfr" ->
             [n |-> IF 10 * delta < -44 THEN 0 ELSE IF 10 * delta > 44 THEN Near(delta, 4) ELSE 1,
              prev |-> IF 10 * delta > 44 /\ 10 * delta0 > 44 THEN Near(10 * delta0 - 24, 40) ELSE 0,
              pts |-> v.next_pts]
        [] v.method = "vfr" ->
             [n |-> IF 10 * delta <= -24 THEN 0 ELSE 1, prev |-> 0,
              pts |-> IF 10 * delta > 24 THEN start ELSE v.next_pts]
        [] v.method = "vscfr" ->
             [n |-> 1, prev |-> 0,
              pts |-> IF v.frame_number = 0 /\ delta0 >= 2 THEN start ELSE v.next_pts]
        [] OTHER -> [n |-> 1, prev |-> 0, pts |-> start]

(* video_sync_process: the history of repetitions *)
Noted(v, n, prev) == [v EXCEPT !.hist = <<prev, v.hist[1], v.hist[2]>>, !.last_dropped = n = prev]

(* The loop of fg_output_frame: n frames, the first prev of them the last  *)
(* frame again if there is one, with increasing pts.                       *)
Sent(v, n, prev, frame) ==
  LET F(i) == [frame |-> IF i <= prev /\ v.last # 0 THEN v.last ELSE frame, pts |-> v.next_pts + i - 1]
  IN  [v EXCEPT !.out = @ \o [i \in 1 .. n |-> F(i)], !.next_pts = @ + n, !.frame_number = @ + n,
                !.got_frame = @ \/ n > 0]

(* fg_output_step with a frame of the filter graph, at a time after the    *)
(* last one; a frame without a time is far before everything.              *)
OutputFrame(gap, dur) ==
  LET sync == IF gap = NOPTS THEN NOPTS ELSE video.clock + gap
      s == Sync(video, sync, dur)
      v == Noted([video EXCEPT !.next_pts = s.pts], s.n, s.prev)
      k == video.in + 1
  IN  /\ ~video.eof /\ video.in < MaxIn
      /\ Len(video.out) + s.n <= MaxOut
      /\ video' = [Sent(v, s.n, s.prev, k) EXCEPT
                     !.last = k, !.in = k, !.sent = IF gap = NOPTS THEN NOPTS ELSE s.n,
                     !.clock = IF gap = NOPTS THEN @ ELSE sync + dur]

(* The end: the last frame is repeated as often as frames were of late,    *)
(* then close_output sends a dummy frame if there was none at all, and the *)
(* end.                                                                    *)
OutputEof ==
  LET n == mid_pred(video.hist[1], video.hist[2], video.hist[3])
      v == [video EXCEPT !.hist = <<n, video.hist[1], video.hist[2]>>, !.last_dropped = FALSE]
  IN  /\ ~video.eof
      /\ video' = [(IF video.got_frame THEN Sent(v, n, n, 0) ELSE video) EXCEPT
                     !.eof = TRUE, !.dummy = ~video.got_frame]

VideoNext == OutputEof \/ \E gap \in Gaps \cup {NOPTS}, dur \in Durations : OutputFrame(gap, dur)
VideoSpec == VideoInit /\ [][VideoNext]_video

-----------------------------------------------------------------------------
(* The encoder never sees time stand still: the pts of the frames rise,    *)
(* whatever the frames of the graph do, unless they are passed through;    *)
(* and no frame is sent after a later one.                                 *)
PtsRise ==
  video.method # "passthrough" =>
    \A i \in 1 .. Len(video.out) - 1 : /\ video.out[i].pts < video.out[i + 1].pts
                                       /\ video.out[i].frame <= video.out[i + 1].frame

(* At a constant rate the output keeps up with the input: after a frame    *)
(* that has a time at most half a frame is missing, and no frame is sent   *)
(* that leaves the output more than two frames and a tenth ahead.          *)
KeepsPace ==
  LET ahead == 4 * video.next_pts - video.clock
  IN  video.method = "cfr" /\ ~video.eof /\ video.sent # NOPTS =>
        ahead >= -2 /\ (video.sent > 0 => 10 * ahead <= 84)

(* Frame rate conversion gives every frame a time of its own and keeps     *)
(* pace with its input, whichever way frames are dropped and doubled.      *)
FramesPaced == PtsRise /\ KeepsPace
=============================================================================
