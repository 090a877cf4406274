----------------------------- MODULE AudioQueue -----------------------------
(***************************************************************************)
(* The queue in which an encoder with frames of a fixed size regroups the  *)
(* samples it receives (enc_task.rs: receive_frame and below it).  Samples *)
(* are numbered in the order in which they arrive; a frame in the queue is *)
(* the sequence of its samples, and the frame that ends the stream is      *)
(* empty.                                                                  *)
(***************************************************************************)
EXTENDS Naturals, SequencesExt

CONSTANTS
  FrameSizes,     \* frame_size of the encoder; 0: it takes frames of any size
  Sizes,          \* numbers of samples of the frames that arrive
  MaxSamples      \* bound on the samples of a run

ASSUME AudioSizes == FrameSizes \subseteq Nat /\ Sizes \subseteq Nat \ {0} /\ MaxSamples \in Nat

VARIABLE audio

NewAudios ==
  [frame_samples : FrameSizes, queue : {<<>>},
   samples_queued : {0}, samples_sent : {0}, frames_sent : {0}, is_finished : {FALSE},
   came : {0},       \* samples that arrived
   sent : {<<>>},    \* the frames given to the encoder
   ended : {FALSE}]  \* the end was given to it
AudioInit == audio \in NewAudios

Joined(frames) == FlattenSeq(frames)

\* A mutant: what is left of the frame that is cut is dropped with it.
TakeWhole(q, n) ==
  LET k == CHOOSE i \in 1 .. Len(q) :
             /\ Len(Joined(SubSeq(q, 1, i))) >= n
             /\ \A j \in 1 .. i - 1 : Len(Joined(SubSeq(q, 1, j))) < n
  IN  [frame |-> SubSeq(Joined(q), 1, n), rest |-> SubSeq(q, k + 1, Len(q))]

(* receive_samples with offset_audio: n samples from the front, be it a    *)
(* part of one frame or pieces of several.                                 *)
receive_samples(q, n) ==
  LET k == CHOOSE i \in 1 .. Len(q) :
             /\ Len(Joined(SubSeq(q, 1, i))) >= n
             /\ \A j \in 1 .. i - 1 : Len(Joined(SubSeq(q, 1, j))) < n
      over == SubSeq(Joined(SubSeq(q, 1, k)), n + 1, Len(Joined(SubSeq(q, 1, k))))
  IN  [frame |-> SubSeq(Joined(q), 1, n),
       rest |-> (IF over = <<>> THEN <<>> ELSE <<over>>) \o SubSeq(q, k + 1, Len(q))]

(* process_audio_queue, when it has something to give: the end when it is  *)
(* at the front, a whole frame as it is, or samples put together.          *)
Ready(a) == a.queue # <<>> /\ (a.frame_samples <= a.samples_queued \/ a.is_finished)

process_audio_queue(a) ==
  LET n == IF a.is_finished /\ a.samples_queued < a.frame_samples THEN a.samples_queued ELSE a.frame_samples
      b == [a EXCEPT !.samples_sent = @ + n, !.frames_sent = (a.samples_sent + n) \div a.frame_samples]
      cut == receive_samples(a.queue, n)
  IN  IF a.is_finished /\ Head(a.queue) = <<>> THEN [b EXCEPT !.queue = Tail(@), !.ended = TRUE]
      ELSE IF n = Len(Head(a.queue))
      THEN [b EXCEPT !.samples_queued = @ - n, !.sent = Append(@, Head(a.queue)), !.queue = Tail(@)]
      ELSE [b EXCEPT !.samples_queued = @ - n, !.sent = Append(@, cut.frame), !.queue = cut.rest]

(* receive_frame while the encoder is open: first what the queue has *)
TakeQueued == /\ audio.frame_samples > 0 /\ ~audio.ended /\ Ready(audio)
              /\ audio' = process_audio_queue(audio)

(* ... then a frame of n samples (0: the end), queued and, if that made a  *)
(* frame of the encoder, taken at once.                                    *)
ReceiveFrame(n) ==
  LET frame == [i \in 1 .. n |-> audio.came + i]
      a == [audio EXCEPT !.is_finished = n = 0, !.samples_queued = @ + n, !.came = @ + n,
                         !.queue = Append(@, frame)]
  IN  /\ ~audio.ended /\ audio.came + n <= MaxSamples
      /\ audio.frame_samples > 0 => ~Ready(audio)
      /\ audio' = IF audio.frame_samples = 0
                    THEN [audio EXCEPT !.frames_sent = @ + 1, !.came = @ + n, !.ended = n = 0,
                                       !.sent = IF n = 0 THEN @ ELSE Append(@, frame)]
                  ELSE IF Ready(a) THEN process_audio_queue(a) ELSE a

AudioNext == TakeQueued \/ \E n \in Sizes \cup {0} : ReceiveFrame(n)
AudioSpec == AudioInit /\ [][AudioNext]_audio

-----------------------------------------------------------------------------
(* No sample is lost, repeated or moved by the regrouping: what was sent   *)
(* and what is queued are the samples that arrived, in their order; every  *)
(* frame has the encoder's size, but for the last, which is not empty; and *)
(* the end comes when nothing is left.                                     *)
SamplesKept ==
  LET a == audio
  IN  /\ Joined(a.sent) \o Joined(a.queue) = [i \in 1 .. a.came |-> i]
      /\ a.samples_queued = Len(Joined(a.queue))
      /\ a.frame_samples > 0 =>
           \A i \in 1 .. Len(a.sent) :
              \/ Len(a.sent[i]) = a.frame_samples
              \/ i = Len(a.sent) /\ a.is_finished /\ a.sent[i] # <<>>
      /\ a.ended => a.queue = <<>>
=============================================================================
