--------------------------- MODULE MediaPipeline ---------------------------
(***************************************************************************)
(* The threads of one FFmpeg job (crates/ez-ffmpeg, core/scheduler) and    *)
(* the client that owns it.  A demuxer reads the packets of its streams;   *)
(* a copied stream goes straight to the queue of its muxer, an encoded one *)
(* through a decoder, a filter graph and an encoder, each a thread with a  *)
(* bounded queue.  A muxer whose streams are not all ready is opened by a  *)
(* thread of its own once every encoder has seen a frame; until then the   *)
(* encoders fill a queue per stream that this thread moves over.           *)
(*                                                                         *)
(* A packet is its number in its stream; 0 is the empty packet or the null *)
(* frame that ends a stream, -1 the frame that carries the end timestamp.  *)
(* A receive, the check of the status that follows it and the work up to   *)
(* the next blocking call are one step; every send is a step of its own.   *)
(***************************************************************************)
EXTENDS Integers, Sequences, FiniteSets, FiniteSetsExt, SequencesExt

CONSTANTS
  Demuxers, Streams, Muxers,  \* inputs, output streams (both numbers), outputs
  Jobs,                       \* jobs and clients: [src, kind, mux, last, calls, faults, pauses]
  Cap,                        \* room in a queue between two threads
  Tolerance                   \* SCHEDULE_TOLERANCE, in packets

ASSUME MuxersFinite == IsFiniteSet(Muxers) /\ IsFiniteSet(Streams)

(* Streams are numbered; one that is used has an input and an output *)
ASSUME JobsAssumption ==
  /\ Streams \subseteq Nat
  /\ \A j \in Jobs : \A s \in Streams :
       /\ j.last[s] \in Nat /\ j.kind[s] \in {"none", "encode", "copy"}
       /\ (j.kind[s] # "none") <=> (j.src[s] \in Demuxers)
       /\ (j.kind[s] # "none") <=> (j.mux[s] \in Muxers)

VARIABLES
  top,                             \* the job: what feeds each stream, where it goes
  status, result, counter, waker,  \* FfmpegScheduler and its ThreadSynchronizer
  client, ret, faults, pauses,     \* the client, what it was told, the budgets
  dpc, read, todo, fin, choked,    \* demuxers: pc, packets read, sends left, dsts_finished
  decq, decpc, decout,             \* decoders
  fgq, fgpc,               \* filter graphs
  encq, encpc, encout, held,       \* encoders; held: the frame a codec keeps back
  pre, preOpen, raced,             \* src_pre_receivers; was a packet lost with one
  rpc, ready, nready, drain,       \* the threads that open muxers
  muxq, mpc, nbdone, started, header, trailer,
  lastDts, srcFin, written         \* MuxStream nodes; what the files hold

client_vars == <<client, ret, pauses>>
demux_vars == <<dpc, read, todo, fin>>
dec_vars == <<decq, decpc, decout>>
fg_vars == <<fgq, fgpc>>
enc_vars == <<encq, encpc, encout, held>>
pre_vars == <<pre, preOpen, raced>>
ready_vars == <<rpc, ready, nready, drain>>
mux_vars == <<muxq, mpc, nbdone, started, header, trailer, lastDts, srcFin, written>>
vars == <<top, status, result, counter, waker, client_vars, faults, demux_vars, choked,
          dec_vars, fg_vars, enc_vars, pre_vars, ready_vars, mux_vars>>

None == "none"
End == 0        \* an empty packet, a null frame
EofTs == -1     \* FrameOpaque::Eof

StreamsOf(m) == {s \in Streams : top.mux[s] = m}
Outputs == {m \in Muxers : StreamsOf(m) # {}}
Fed(d) == {s \in Streams : top.src[s] = d}
Used == {s \in Streams : top.kind[s] # "none"}
Encoded(s) == top.kind[s] = "encode"
Stopping == status \in {"abort", "end"}
NotPaused == status # "pause"

(* set_scheduler_error: the first error wins and ends the job *)
SetError(e) == /\ result' = IF result = None THEN e ELSE result
               /\ status' = IF result = None THEN "end" ELSE status
Fault == faults < top.faults /\ faults' = faults + 1

-----------------------------------------------------------------------------
(* InputController: which demuxers may read, given the dts and the ends of *)
(* the streams.                                                            *)

trailing_dts(dts, ended) == Min({dts[s] : s \in {t \in Used : ~ended[t]}})

Unchoked(dts, ended) ==
  LET open == {s \in Used : ~ended[s]}
      near == {s \in open : dts[s] - trailing_dts(dts, ended) < Tolerance}
  IN  {top.src[s] : s \in near}

(* The first demuxer that has not exited, if no stream asks for one.       *)
update_locked(dts, ended) ==
  IF Stopping THEN choked' = choked
  ELSE LET go == Unchoked(dts, ended)
           live == {d \in Demuxers : dpc[d] # "done"}
           one == IF go = {} /\ live # {} THEN {Min(live)} ELSE go
       IN  choked' = [d \in Demuxers |-> d \notin one]

-----------------------------------------------------------------------------
(* Demuxers *)

(* av_read_frame, then demux_send up to its gate: a choked demuxer sleeps   *)
(* until the controller wakes it.  Nobody wakes it when the job ends.       *)
DemuxRead(d) ==
  /\ dpc[d] = "read" /\ NotPaused /\ ~Stopping
  /\ \E s \in Fed(d) :
       /\ read[s] < top.last[s]
       /\ read' = [read EXCEPT ![s] = @ + 1]
       /\ todo' = [todo EXCEPT ![d] = {<<s, read[s] + 1>>}]
  /\ dpc' = [dpc EXCEPT ![d] = IF choked[d] THEN "asleep" ELSE "send"]
  /\ UNCHANGED <<top, status, result, counter, waker, client_vars, faults, fin, choked,
                 dec_vars, fg_vars, enc_vars, pre_vars, ready_vars, mux_vars>>

(* demux_done: an empty packet to every destination that is not finished *)
Ends(d) == {<<s, End>> : s \in {t \in Fed(d) : ~fin[t]}}

(* Nothing was read: demux_done is skipped, the senders are just dropped *)
DemuxLeave(d) ==
  LET out == IF \E s \in Fed(d) : read[s] > 0 THEN Ends(d) ELSE {}
  IN  /\ todo' = [todo EXCEPT ![d] = out]
      /\ dpc' = [dpc EXCEPT ![d] = IF out = {} THEN "done" ELSE "ends"]

DemuxStop(d) ==
  /\ dpc[d] = "read" /\ Stopping
  /\ DemuxLeave(d)
  /\ UNCHANGED <<top, status, result, counter, waker, client_vars, faults, read, fin, choked,
                 dec_vars, fg_vars, enc_vars, pre_vars, ready_vars, mux_vars>>

DemuxEof(d) ==
  /\ dpc[d] = "read" /\ NotPaused /\ ~Stopping
  /\ \A s \in Fed(d) : read[s] = top.last[s]
  /\ DemuxLeave(d)
  /\ UNCHANGED <<top, status, result, counter, waker, client_vars, faults, read, fin, choked,
                 dec_vars, fg_vars, enc_vars, pre_vars, ready_vars, mux_vars>>

(* A read error before the first packet is reported; a later one ends the  *)
(* input like its end does, unless exit_on_error is set.                   *)
DemuxFail(d) ==
  /\ dpc[d] = "read" /\ NotPaused /\ ~Stopping /\ Fault
  /\ \/ SetError("demux")
     \/ (\E s \in Fed(d) : read[s] > 0) /\ UNCHANGED <<result, status>>
  /\ DemuxLeave(d)
  /\ UNCHANGED <<top, counter, waker, client_vars, read, fin, choked,
                 dec_vars, fg_vars, enc_vars, pre_vars, ready_vars, mux_vars>>

(* wait_with_scheduler_status returns, and the job may be stopping by now *)
DemuxWake(d) ==
  /\ dpc[d] = "asleep" /\ ~choked[d] /\ NotPaused
  /\ IF Stopping THEN DemuxLeave(d) ELSE dpc' = [dpc EXCEPT ![d] = "send"] /\ todo' = todo
  /\ UNCHANGED <<top, status, result, counter, waker, client_vars, faults, read, fin, choked,
                 dec_vars, fg_vars, enc_vars, pre_vars, ready_vars, mux_vars>>

(* The receiver of a muxer's queue is held by its opening thread, then by  *)
(* the muxer.                                                              *)
MuxGone(m) == mpc[m] = "done" \/ (rpc[m] = "done" /\ mpc[m] = "none")
DstGone(s) == IF Encoded(s) THEN decpc[s] = "done" ELSE MuxGone(top.mux[s])
DstRoom(s) == IF Encoded(s) THEN Len(decq[s]) < Cap ELSE Len(muxq[top.mux[s]]) < Cap

(* The sends of a demuxer are in the order of its streams *)
Soonest(sends) == CHOOSE x \in sends : \A y \in sends : x[1] <= y[1]

(* demux_stream_send_to_dst: one packet to its destination; the demuxer    *)
(* stops when its only destination is gone.                                *)
DemuxSend(d) ==
  /\ dpc[d] \in {"send", "ends"} /\ todo[d] # {}
  /\ LET s == Soonest(todo[d])[1]
         p == Soonest(todo[d])[2]
         gone == fin[s] \/ DstGone(s)
         rest == todo[d] \ {Soonest(todo[d])}
     IN  /\ gone \/ DstRoom(s)
         /\ fin' = [fin EXCEPT ![s] = gone]
         /\ decq' = IF gone \/ ~Encoded(s) THEN decq ELSE [decq EXCEPT ![s] = Append(@, p)]
         /\ muxq' = IF gone \/ Encoded(s) THEN muxq
                    ELSE [muxq EXCEPT ![top.mux[s]] = Append(@, <<s, p>>)]
         /\ IF dpc[d] = "ends"
              THEN /\ todo' = [todo EXCEPT ![d] = rest]
                   /\ dpc' = [dpc EXCEPT ![d] = IF rest = {} THEN "done" ELSE "ends"]
            ELSE IF gone /\ Fed(d) = {s}
              THEN todo' = [todo EXCEPT ![d] = {}] /\ dpc' = [dpc EXCEPT ![d] = "done"]
            ELSE todo' = [todo EXCEPT ![d] = {}] /\ dpc' = [dpc EXCEPT ![d] = "read"]
  /\ UNCHANGED <<top, status, result, counter, waker, client_vars, faults, read, choked,
                 decpc, decout, fg_vars, enc_vars, pre_vars, ready_vars,
                 mpc, nbdone, started, header, trailer, lastDts, srcFin, written>>

-----------------------------------------------------------------------------
(* Decoders.  The codec gives a frame for every packet.  An empty packet   *)
(* drains it and is not the end of the loop; the end of the demuxer is.    *)

DecFinish(s, out) == decpc' = [decpc EXCEPT ![s] = "fin"] /\ decout' = [decout EXCEPT ![s] = out]

(* dec_send: a frame goes on when there is room; a decoder whose only      *)
(* destination is gone leaves its loop.                                    *)
DecRecv(s) ==
  /\ decpc[s] = "run" /\ decq[s] # <<>> /\ NotPaused /\ ~Stopping
  /\ decq' = [decq EXCEPT ![s] = Tail(@)]
  /\ \/ /\ Head(decq[s]) = End
        /\ UNCHANGED <<decpc, decout, fgq, status, result, faults>>
     \/ /\ Head(decq[s]) # End /\ fgpc[s] # "done" /\ Len(fgq[s]) < Cap
        /\ fgq' = [fgq EXCEPT ![s] = Append(@, Head(decq[s]))]
        /\ UNCHANGED <<decpc, decout, status, result, faults>>
     \/ /\ Head(decq[s]) # End /\ fgpc[s] = "done"
        /\ DecFinish(s, <<EofTs, End>>)
        /\ UNCHANGED <<fgq, status, result, faults>>
     \/ /\ Fault /\ SetError("dec")       \* packet_decode fails with exit_on_error
        /\ DecFinish(s, <<End>>) /\ UNCHANGED fgq
  /\ UNCHANGED <<top, counter, waker, client_vars, demux_vars, choked, fgpc, enc_vars,
                 pre_vars, ready_vars, mux_vars>>

(* The job is stopping, or the demuxer is gone: the end timestamp, then    *)
(* the null frames of dec_done.                                            *)
DecLeave(s) ==
  /\ decpc[s] = "run" /\ NotPaused
  /\ Stopping \/ (decq[s] = <<>> /\ dpc[top.src[s]] = "done")
  /\ DecFinish(s, <<EofTs, End>>)
  /\ UNCHANGED <<top, status, result, counter, waker, client_vars, faults, demux_vars, choked,
                 decq, fg_vars, enc_vars, pre_vars, ready_vars, mux_vars>>

DecEnd(s) ==
  /\ decpc[s] = "fin"
  /\ LET gone == fgpc[s] = "done"
         rest == Tail(decout[s])
     IN  /\ gone \/ Len(fgq[s]) < Cap
         /\ fgq' = IF gone THEN fgq ELSE [fgq EXCEPT ![s] = Append(@, Head(decout[s]))]
         /\ decout' = [decout EXCEPT ![s] = rest]
         /\ decpc' = [decpc EXCEPT ![s] = IF rest = <<>> THEN "done" ELSE @]
  /\ UNCHANGED <<top, status, result, counter, waker, client_vars, faults, demux_vars, choked,
                 decq, fgpc, enc_vars, pre_vars, ready_vars, mux_vars>>

-----------------------------------------------------------------------------
(* Filter graphs of one input and one output *)

(* A frame comes out again when there is room; the first end of the input, *)
(* be it the end timestamp or the null frame, closes the graph, and so     *)
(* does an encoder that is gone.                                           *)
FgRecv(s) ==
  /\ fgpc[s] = "run" /\ fgq[s] # <<>> /\ NotPaused /\ ~Stopping
  /\ fgq' = [fgq EXCEPT ![s] = Tail(@)]
  /\ \/ /\ Head(fgq[s]) \in {End, EofTs} \/ encpc[s] = "done"
        /\ fgpc' = [fgpc EXCEPT ![s] = "fin"]
        /\ UNCHANGED <<encq, status, result, faults>>
     \/ /\ Head(fgq[s]) \notin {End, EofTs} /\ encpc[s] # "done" /\ Len(encq[s]) < Cap
        /\ encq' = [encq EXCEPT ![s] = Append(@, Head(fgq[s]))]
        /\ UNCHANGED <<fgpc, status, result, faults>>
     \/ /\ Fault /\ SetError("fg")        \* fg_send_frame or fg_read_frames fails
        /\ fgpc' = [fgpc EXCEPT ![s] = "fin"] /\ UNCHANGED encq
  /\ UNCHANGED <<top, counter, waker, client_vars, demux_vars, choked, dec_vars,
                 encpc, encout, held, pre_vars, ready_vars, mux_vars>>

FgLeave(s) ==
  /\ fgpc[s] = "run" /\ NotPaused
  /\ Stopping \/ (fgq[s] = <<>> /\ decpc[s] = "done")
  /\ fgpc' = [fgpc EXCEPT ![s] = "fin"]
  /\ UNCHANGED <<top, status, result, counter, waker, client_vars, faults, demux_vars, choked,
                 dec_vars, fgq, enc_vars, pre_vars, ready_vars, mux_vars>>

(* close_output: the null frame *)
FgEnd(s) ==
  /\ fgpc[s] = "fin"
  /\ encpc[s] = "done" \/ Len(encq[s]) < Cap
  /\ encq' = IF encpc[s] = "done" THEN encq ELSE [encq EXCEPT ![s] = Append(@, End)]
  /\ fgpc' = [fgpc EXCEPT ![s] = "done"]
  /\ UNCHANGED <<top, status, result, counter, waker, client_vars, faults, demux_vars, choked,
                 dec_vars, fgq, encpc, encout, held, pre_vars, ready_vars, mux_vars>>

-----------------------------------------------------------------------------
(* Encoders.  The codec keeps the last frame back and gives it out with    *)
(* the next one, or when it is flushed.                                    *)

(* The loop is left: flush the codec unless a null frame did so or the     *)
(* job is aborted, then the empty packet that ends the stream.             *)
EncFinish(s, flush) ==
  /\ encpc' = [encpc EXCEPT ![s] = "fin"]
  /\ encout' = [encout EXCEPT ![s] = (IF flush THEN held[s] ELSE <<>>) \o <<End>>]
  /\ held' = [held EXCEPT ![s] = <<>>]

(* enc_open and the first frame: the encoder reports that it is ready, in  *)
(* a queue of one, unless the opening thread is gone.                      *)
EncOpen(s) ==
  /\ encpc[s] = "closed" /\ encq[s] # <<>> /\ NotPaused /\ ~Stopping
  /\ encq' = [encq EXCEPT ![s] = Tail(@)]
  /\ LET m == top.mux[s] f == Head(encq[s])
     IN  \/ /\ f = End /\ EncFinish(s, FALSE)
            /\ UNCHANGED <<ready, status, result, faults>>
         \/ /\ f # End /\ (ready[m] = {} \/ rpc[m] = "done")
            /\ ready' = IF rpc[m] = "done" THEN ready ELSE [ready EXCEPT ![m] = {s}]
            /\ encpc' = [encpc EXCEPT ![s] = "run"]
            /\ held' = [held EXCEPT ![s] = <<f>>]
            /\ UNCHANGED <<encout, status, result, faults>>
         \/ /\ f # End /\ Fault /\ SetError("enc")
            /\ EncFinish(s, FALSE)
            /\ UNCHANGED ready
  /\ UNCHANGED <<top, counter, waker, client_vars, demux_vars, choked, dec_vars, fg_vars,
                 pre_vars, rpc, nready, drain, mux_vars>>

\* A mutant: the null frame does not flush the codec.
EncRecvNoFlush(s) ==
  /\ encpc[s] = "run" /\ encout[s] = <<>> /\ encq[s] # <<>> /\ NotPaused /\ ~Stopping
  /\ encq' = [encq EXCEPT ![s] = Tail(@)]
  /\ LET f == Head(encq[s])
     IN  \/ /\ encout' = [encout EXCEPT ![s] = IF f = End THEN <<>> ELSE held[s]]
            /\ held' = [held EXCEPT ![s] = IF f = End THEN <<>> ELSE <<f>>]
            /\ encpc' = [encpc EXCEPT ![s] = IF f = End THEN "closed" ELSE @]
            /\ UNCHANGED <<status, result, faults>>
         \/ Fault /\ SetError("enc") /\ EncFinish(s, TRUE)
  /\ UNCHANGED <<top, counter, waker, client_vars, demux_vars, choked, dec_vars, fg_vars,
                 pre_vars, ready_vars, mux_vars>>

(* frame_encode on a later frame; the null frame flushes the codec *)
EncRecv(s) ==
  /\ encpc[s] = "run" /\ encout[s] = <<>> /\ encq[s] # <<>> /\ NotPaused /\ ~Stopping
  /\ encq' = [encq EXCEPT ![s] = Tail(@)]
  /\ LET f == Head(encq[s])
     IN  \/ /\ encout' = [encout EXCEPT ![s] = held[s]]
            /\ held' = [held EXCEPT ![s] = IF f = End THEN <<>> ELSE <<f>>]
            /\ encpc' = [encpc EXCEPT ![s] = IF f = End THEN "eof" ELSE @]
            /\ UNCHANGED <<status, result, faults>>
         \/ Fault /\ SetError("enc") /\ EncFinish(s, TRUE)
  /\ UNCHANGED <<top, counter, waker, client_vars, demux_vars, choked, dec_vars, fg_vars,
                 pre_vars, ready_vars, mux_vars>>

(* receive_from looks at the status only when it got a frame; without one  *)
(* the encoder leaves when the filter graph is gone.                       *)
EncLeave(s) ==
  /\ encpc[s] \in {"closed", "run"} /\ encout[s] = <<>>
  /\ \/ Stopping /\ encq[s] # <<>>
     \/ encq[s] = <<>> /\ fgpc[s] = "done"
  /\ encq' = [encq EXCEPT ![s] = IF @ = <<>> THEN @ ELSE Tail(@)]
  /\ EncFinish(s, encpc[s] = "run" /\ status # "abort")
  /\ UNCHANGED <<top, status, result, counter, waker, client_vars, faults, demux_vars, choked,
                 dec_vars, fg_vars, pre_vars, ready_vars, mux_vars>>

EncSent(s) ==
  LET rest == Tail(encout[s])
  IN  /\ UNCHANGED <<status, result>>
      /\ IF encpc[s] = "eof" THEN EncFinish(s, FALSE)
         ELSE /\ held' = held
              /\ encout' = [encout EXCEPT ![s] = rest]
              /\ encpc' = [encpc EXCEPT ![s] = IF @ = "fin" /\ rest = <<>> THEN "done" ELSE @]

(* A packet that cannot be sent ends the loop with an error; in the flush  *)
(* after the loop it only ends the flush; an end that cannot be sent is an *)
(* error again.                                                            *)
EncSendFails(s) ==
  IF encpc[s] # "fin" THEN SetError("enc") /\ EncFinish(s, TRUE)
  ELSE IF Head(encout[s]) # End
    THEN encout' = [encout EXCEPT ![s] = <<End>>] /\ UNCHANGED <<encpc, held, status, result>>
  ELSE /\ SetError("enc") /\ held' = held
       /\ encout' = [encout EXCEPT ![s] = <<>>]
       /\ encpc' = [encpc EXCEPT ![s] = "done"]

(* send_to_mux: to the muxer's queue once it is started, before that to    *)
(* the stream's own queue.  If this is closed already, the encoder looks   *)
(* every 100 ms whether the muxer is started, and gives up if the opening  *)
(* thread is gone, or still busy with another stream.                      *)
NeverStarts(m) == rpc[m] # "drain" \/ drain[m] # {}
EncSend(s) ==
  /\ encout[s] # <<>>
  /\ LET m == top.mux[s] p == Head(encout[s])
     IN  \/ /\ started[m] /\ ~MuxGone(m) /\ Len(muxq[m]) < Cap
            /\ muxq' = [muxq EXCEPT ![m] = Append(@, <<s, p>>)]
            /\ EncSent(s) /\ UNCHANGED pre
         \/ /\ ~started[m] /\ preOpen[s]
            /\ pre' = [pre EXCEPT ![s] = Append(@, p)]
            /\ EncSent(s) /\ UNCHANGED muxq
         \/ /\ IF started[m] THEN MuxGone(m) ELSE ~preOpen[s] /\ NeverStarts(m)
            /\ EncSendFails(s) /\ UNCHANGED <<muxq, pre>>
  /\ UNCHANGED <<top, counter, waker, client_vars, faults, demux_vars, choked, dec_vars,
                 fg_vars, encq, preOpen, raced, ready_vars,
                 mpc, nbdone, started, header, trailer, lastDts, srcFin, written>>

-----------------------------------------------------------------------------
(* Muxers and the threads that open them *)

(* ThreadSynchronizer::thread_done wakes the task that polls the job *)
thread_done ==
  /\ counter' = counter - 1
  /\ waker' = IF counter = 1 /\ waker = "set" THEN "woken" ELSE waker

(* ready_to_init_mux: count the encoders that are ready *)
ReadyRecv(m) ==
  /\ rpc[m] = "wait" /\ ready[m] # {} /\ NotPaused /\ ~Stopping
  /\ ready' = [ready EXCEPT ![m] = {}]
  /\ nready' = [nready EXCEPT ![m] = @ + 1]
  /\ rpc' = [rpc EXCEPT ![m] = IF nready[m] + 1 = Cardinality(StreamsOf(m)) THEN "open" ELSE @]
  /\ UNCHANGED <<top, status, result, counter, waker, client_vars, faults, demux_vars, choked,
                 dec_vars, fg_vars, enc_vars, pre_vars, drain, mux_vars>>

ClosePre(m) == preOpen' = [s \in Streams |-> preOpen[s] /\ top.mux[s] # m]

\* A mutant: a muxer that was never opened is not counted down.
ReadyStopUncounted(m) ==
  /\ rpc[m] = "wait" /\ Stopping
  /\ UNCHANGED <<counter, waker>> /\ ClosePre(m)
  /\ rpc' = [rpc EXCEPT ![m] = "done"]
  /\ UNCHANGED <<top, status, result, client_vars, faults, demux_vars, choked, dec_vars,
                 fg_vars, enc_vars, pre, raced, ready, nready, drain, mux_vars>>

ReadyStop(m) ==
  /\ rpc[m] = "wait" /\ Stopping
  /\ thread_done /\ ClosePre(m)
  /\ rpc' = [rpc EXCEPT ![m] = "done"]
  /\ UNCHANGED <<top, status, result, client_vars, faults, demux_vars, choked, dec_vars,
                 fg_vars, enc_vars, pre, raced, ready, nready, drain, mux_vars>>

(* Every encoder left without being ready: the muxer is given up *)
ReadyGone(m) ==
  /\ rpc[m] = "wait" /\ NotPaused /\ ~Stopping
  /\ ready[m] = {} /\ \A s \in StreamsOf(m) : Encoded(s) => encpc[s] = "done"
  /\ thread_done /\ ClosePre(m)
  /\ rpc' = [rpc EXCEPT ![m] = "leave"]
  /\ UNCHANGED <<top, status, result, client_vars, faults, demux_vars, choked, dec_vars,
                 fg_vars, enc_vars, pre, raced, ready, nready, drain, mux_vars>>

(* _mux_init: the header, then the thread of the muxer.  A header that     *)
(* fails here is only logged.                                              *)
ReadyOpen(m) ==
  /\ rpc[m] = "open"
  /\ header' = [header EXCEPT ![m] = TRUE]
  /\ mpc' = [mpc EXCEPT ![m] = "run"]
  /\ rpc' = [rpc EXCEPT ![m] = "drain"]
  /\ drain' = [drain EXCEPT ![m] = {s \in StreamsOf(m) : Encoded(s)}]
  /\ UNCHANGED <<top, status, result, counter, waker, client_vars, faults, demux_vars, choked,
                 dec_vars, fg_vars, enc_vars, pre_vars, ready, nready,
                 muxq, nbdone, started, trailer, lastDts, srcFin, written>>

ReadyOpenFails(m) ==
  /\ rpc[m] = "open" /\ Fault
  /\ thread_done /\ ClosePre(m)
  /\ rpc' = [rpc EXCEPT ![m] = "leave"]
  /\ UNCHANGED <<top, status, result, client_vars, demux_vars, choked, dec_vars,
                 fg_vars, enc_vars, pre, raced, ready, nready, drain, mux_vars>>

ReadyEnd(m) ==
  /\ rpc[m] = "leave"
  /\ status' = IF counter = 0 THEN "end" ELSE status
  /\ rpc' = [rpc EXCEPT ![m] = "done"]
  /\ UNCHANGED <<top, result, counter, waker, client_vars, faults, demux_vars, choked, dec_vars,
                 fg_vars, enc_vars, pre_vars, ready, nready, drain, mux_vars>>

(* mux_task_start moves what each stream's own queue holds, until it finds *)
(* it empty ...                                                            *)
DrainMove(m) ==
  /\ rpc[m] = "drain" /\ drain[m] # {}
  /\ LET s == Min(drain[m])
     IN  IF pre[s] = <<>> THEN rpc' = [rpc EXCEPT ![m] = "drop"] /\ UNCHANGED <<muxq, pre>>
         ELSE /\ Len(muxq[m]) < Cap \/ mpc[m] = "done"
              /\ muxq' = IF mpc[m] = "done" THEN muxq
                         ELSE [muxq EXCEPT ![m] = Append(@, <<s, Head(pre[s])>>)]
              /\ pre' = [pre EXCEPT ![s] = Tail(@)]
              /\ rpc' = rpc
  /\ UNCHANGED <<top, status, result, counter, waker, client_vars, faults, demux_vars, choked,
                 dec_vars, fg_vars, enc_vars, preOpen, raced, ready, nready, drain,
                 mpc, nbdone, started, header, trailer, lastDts, srcFin, written>>

(* ... and drops it, with what arrived since *)
DrainDrop(m) ==
  /\ rpc[m] = "drop"
  /\ LET s == Min(drain[m])
     IN  /\ raced' = (raced \/ pre[s] # <<>>)
         /\ pre' = [pre EXCEPT ![s] = <<>>]
         /\ preOpen' = [preOpen EXCEPT ![s] = FALSE]
  /\ drain' = [drain EXCEPT ![m] = @ \ {Min(@)}]
  /\ rpc' = [rpc EXCEPT ![m] = "drain"]
  /\ UNCHANGED <<top, status, result, counter, waker, client_vars, faults, demux_vars, choked,
                 dec_vars, fg_vars, enc_vars, ready, nready, mux_vars>>

DrainDone(m) ==
  /\ rpc[m] = "drain" /\ drain[m] = {}
  /\ started' = [started EXCEPT ![m] = TRUE]
  /\ rpc' = [rpc EXCEPT ![m] = "done"]
  /\ UNCHANGED <<top, status, result, counter, waker, client_vars, faults, demux_vars, choked,
                 dec_vars, fg_vars, enc_vars, pre_vars, ready, nready, drain,
                 muxq, mpc, nbdone, header, trailer, lastDts, srcFin, written>>

(* The packets an encoder makes have stream index 0, whatever their stream *)
Node(s, p) == IF Encoded(s) /\ p # End THEN Min(StreamsOf(top.mux[s])) ELSE s

(* A packet: note its dts, let the controller decide, write it *)
MuxPacket(m) ==
  /\ mpc[m] = "run" /\ muxq[m] # <<>> /\ NotPaused /\ ~Stopping
  /\ muxq' = [muxq EXCEPT ![m] = Tail(@)]
  /\ LET s == Head(muxq[m])[1] p == Head(muxq[m])[2] n == Node(s, p)
     IN  /\ p # End
         /\ lastDts' = [lastDts EXCEPT ![n] = p]
         /\ update_locked(lastDts', srcFin)
         /\ \/ /\ written' = [written EXCEPT ![s] = Append(@, p)]
               /\ UNCHANGED <<mpc, status, result, faults>>
            \/ /\ Fault /\ SetError("mux")
               /\ mpc' = [mpc EXCEPT ![m] = "trail"] /\ UNCHANGED written
  /\ UNCHANGED <<top, counter, waker, client_vars, demux_vars, dec_vars, fg_vars, enc_vars,
                 pre_vars, ready_vars, nbdone, started, header, trailer, srcFin>>

\* A mutant: the controller is not told of the end of a stream.
MuxStreamEndSilent(m) ==
  /\ mpc[m] = "run" /\ muxq[m] # <<>> /\ NotPaused /\ ~Stopping
  /\ muxq' = [muxq EXCEPT ![m] = Tail(@)]
  /\ LET s == Head(muxq[m])[1]
     IN  /\ Head(muxq[m])[2] = End
         /\ srcFin' = [srcFin EXCEPT ![s] = TRUE]
         /\ choked' = choked
  /\ nbdone' = [nbdone EXCEPT ![m] = @ + 1]
  /\ mpc' = [mpc EXCEPT ![m] = IF nbdone[m] + 1 = Cardinality(StreamsOf(m)) THEN "trail" ELSE @]
  /\ UNCHANGED <<top, status, result, counter, waker, client_vars, faults, demux_vars, dec_vars,
                 fg_vars, enc_vars, pre_vars, ready_vars, started, header, trailer, lastDts, written>>

(* The end of a stream; the muxer leaves its loop with the last one *)
MuxStreamEnd(m) ==
  /\ mpc[m] = "run" /\ muxq[m] # <<>> /\ NotPaused /\ ~Stopping
  /\ muxq' = [muxq EXCEPT ![m] = Tail(@)]
  /\ LET s == Head(muxq[m])[1]
     IN  /\ Head(muxq[m])[2] = End
         /\ srcFin' = [srcFin EXCEPT ![s] = TRUE]
         /\ update_locked(lastDts, srcFin')
  /\ nbdone' = [nbdone EXCEPT ![m] = @ + 1]
  /\ mpc' = [mpc EXCEPT ![m] = IF nbdone[m] + 1 = Cardinality(StreamsOf(m)) THEN "trail" ELSE @]
  /\ UNCHANGED <<top, status, result, counter, waker, client_vars, faults, demux_vars, dec_vars,
                 fg_vars, enc_vars, pre_vars, ready_vars, started, header, trailer, lastDts, written>>

(* The job is stopping, or every sender is gone *)
MuxSendersGone(m) == /\ rpc[m] = "done"
                     /\ \A s \in StreamsOf(m) :
                          IF Encoded(s) THEN encpc[s] = "done" ELSE dpc[top.src[s]] = "done"
MuxLeave(m) ==
  /\ mpc[m] = "run" /\ NotPaused
  /\ Stopping \/ (muxq[m] = <<>> /\ MuxSendersGone(m))
  /\ mpc' = [mpc EXCEPT ![m] = "trail"]
  /\ UNCHANGED <<top, status, result, counter, waker, client_vars, faults, demux_vars, choked,
                 dec_vars, fg_vars, enc_vars, pre_vars, ready_vars,
                 muxq, nbdone, started, header, trailer, lastDts, srcFin, written>>

(* av_write_trailer, unless the job is aborted *)
MuxTrailer(m) ==
  /\ mpc[m] = "trail"
  /\ mpc' = [mpc EXCEPT ![m] = "count"]
  /\ IF status = "abort" THEN UNCHANGED <<trailer, status, result, faults>>
     ELSE /\ trailer' = [trailer EXCEPT ![m] = TRUE]
          /\ \/ UNCHANGED <<status, result, faults>>
             \/ Fault /\ SetError("trailer")
  /\ UNCHANGED <<top, counter, waker, client_vars, demux_vars, choked, dec_vars, fg_vars,
                 enc_vars, pre_vars, ready_vars, muxq, nbdone, started, header, lastDts, srcFin, written>>

MuxCount(m) ==
  /\ mpc[m] = "count"
  /\ thread_done
  /\ mpc' = [mpc EXCEPT ![m] = "leave"]
  /\ UNCHANGED <<top, status, result, client_vars, faults, demux_vars, choked, dec_vars, fg_vars,
                 enc_vars, pre_vars, ready_vars,
                 muxq, nbdone, started, header, trailer, lastDts, srcFin, written>>

MuxEnd(m) ==
  /\ mpc[m] = "leave"
  /\ status' = IF counter = 0 THEN "end" ELSE status
  /\ mpc' = [mpc EXCEPT ![m] = "done"]
  /\ UNCHANGED <<top, result, counter, waker, client_vars, faults, demux_vars, choked, dec_vars,
                 fg_vars, enc_vars, pre_vars, ready_vars,
                 muxq, nbdone, started, header, trailer, lastDts, srcFin, written>>

-----------------------------------------------------------------------------
(* The client *)

thread_vars == <<demux_vars, dec_vars, fg_vars, enc_vars, pre_vars, ready_vars, mux_vars>>
ClientOnly == UNCHANGED <<top, counter, faults, choked, thread_vars>>

(* Which threads a start has spawned, given the muxers whose loop is       *)
(* entered and the last phase that was reached.                            *)
Ready(m) == \A s \in StreamsOf(m) : ~Encoded(s)
PhaseNo == [mux |-> 1, enc |-> 2, fg |-> 3, dec |-> 4, demux |-> 5]
Spawn(ms, phase) ==
  LET upto(ph) == PhaseNo[ph] <= PhaseNo[phase]
      Pc(ph, x) == [s \in Streams |-> IF Encoded(s) /\ upto(ph) THEN x ELSE "done"]
      opened == {m \in ms : Ready(m)}
  IN  /\ mpc' = [m \in Muxers |-> IF m \in opened THEN "run" ELSE "none"]
      /\ header' = [m \in Muxers |-> m \in opened]
      /\ started' = [m \in Muxers |-> m \in opened]
      /\ rpc' = [m \in Muxers |-> IF upto("enc") /\ m \in ms /\ ~Ready(m) THEN "wait" ELSE "done"]
      /\ preOpen' = [s \in Streams |-> Encoded(s) /\ upto("enc")]
      /\ encpc' = Pc("enc", "closed") /\ fgpc' = Pc("fg", "run") /\ decpc' = Pc("dec", "run")
      /\ dpc' = [d \in Demuxers |-> IF upto("demux") /\ Fed(d) # {} THEN "read" ELSE "done"]
      /\ UNCHANGED <<read, todo, fin, decq, decout, fgq, encq, encout, held, pre, raced,
                     ready, nready, drain, muxq, nbdone, trailer, lastDts, srcFin, written>>

Start ==
  /\ client = "new" /\ client' = "running"
  /\ status' = "run" /\ counter' = Cardinality(Outputs)
  /\ Spawn(Outputs, "demux")
  /\ choked' = [d \in Demuxers |-> d \notin Unchoked(lastDts, srcFin)]
  /\ UNCHANGED <<top, result, waker, ret, faults, pauses>>

(* A step of start fails: the header of a ready muxer, after others were   *)
(* entered, or the set-up of a later phase.  The job ends; no guard waits. *)
StartFails ==
  /\ client = "new" /\ client' = "failed" /\ Fault
  /\ status' = "end" /\ ret' = "failed"
  /\ \/ \E m \in Outputs : \E before \in SUBSET (Outputs \ {m}) :
          Ready(m) /\ Spawn(before, "mux") /\ counter' = Cardinality(before)
     \/ \E phase \in {"mux", "enc", "fg", "dec"} :
          Spawn(Outputs, phase) /\ counter' = Cardinality(Outputs)
  /\ UNCHANGED <<top, result, waker, choked, pauses>>

(* pause and resume look at the status, then overwrite it *)
Pause ==
  /\ client = "running" /\ "pause" \in top.calls /\ pauses < top.pauses
  /\ client' = IF Stopping THEN "paused" ELSE "pausing"
  /\ pauses' = pauses + 1
  /\ ClientOnly /\ UNCHANGED <<status, result, waker, ret>>
PauseStore ==
  /\ client = "pausing" /\ client' = "paused" /\ status' = "pause"
  /\ ClientOnly /\ UNCHANGED <<result, waker, ret, pauses>>
Resume ==
  /\ client = "paused"
  /\ client' = IF Stopping THEN "running" ELSE "resuming"
  /\ ClientOnly /\ UNCHANGED <<status, result, waker, ret, pauses>>
ResumeStore ==
  /\ client = "resuming" /\ client' = "running" /\ status' = "run"
  /\ ClientOnly /\ UNCHANGED <<result, waker, ret, pauses>>

(* wait: the threads are joined unless the job is stopping; then the       *)
(* result is taken, and the guard dropped.                                 *)
Wait ==
  /\ client = "running" /\ "wait" \in top.calls
  /\ client' = IF Stopping THEN "take" ELSE "join"
  /\ ClientOnly /\ UNCHANGED <<status, result, waker, ret, pauses>>
Joined ==
  /\ client = "join" /\ counter = 0
  /\ client' = "take" /\ status' = "end"
  /\ ClientOnly /\ UNCHANGED <<result, waker, ret, pauses>>
TakeResult ==
  /\ client = "take" /\ client' = "drop"
  /\ ret' = IF result = None THEN "ok" ELSE result
  /\ result' = None
  /\ ClientOnly /\ UNCHANGED <<status, waker, pauses>>

(* The job as a future: the waker is left after the status was read *)
Poll ==
  /\ client \in {"running", "poll"} /\ "poll" \in top.calls
  /\ client' = IF Stopping THEN "take" ELSE "arm"
  /\ ClientOnly /\ UNCHANGED <<status, result, waker, ret, pauses>>
PollArm ==
  /\ client = "arm" /\ client' = "pending" /\ waker' = "set"
  /\ ClientOnly /\ UNCHANGED <<status, result, ret, pauses>>
PollWoken ==
  /\ client = "pending" /\ waker = "woken"
  /\ client' = "poll" /\ waker' = None
  /\ ClientOnly /\ UNCHANGED <<status, result, ret, pauses>>

Stop ==
  /\ client = "running" /\ "stop" \in top.calls
  /\ client' = "stopping" /\ status' = "end" /\ ret' = "stopped"
  /\ ClientOnly /\ UNCHANGED <<result, waker, pauses>>
Stopped ==
  /\ client = "stopping" /\ counter = 0 /\ client' = "drop"
  /\ ClientOnly /\ UNCHANGED <<status, result, waker, ret, pauses>>

Abort ==
  /\ client \in {"running", "paused"} /\ "abort" \in top.calls
  /\ client' = "drop" /\ status' = "abort" /\ ret' = "aborted"
  /\ ClientOnly /\ UNCHANGED <<result, waker, pauses>>

\* A mutant: the guard does not wait for the threads.
DroppedAtOnce ==
  /\ client = "dropping" /\ client' = "returned"
  /\ ClientOnly /\ UNCHANGED <<status, result, waker, ret, pauses>>

(* The guard: END unless the job is stopping, then wait for the threads *)
Drop ==
  /\ \/ client = "drop" /\ UNCHANGED ret
     \/ client \in {"running", "paused"} /\ "drop" \in top.calls /\ ret' = "dropped"
  /\ client' = "dropping"
  /\ status' = IF Stopping THEN status ELSE "end"
  /\ ClientOnly /\ UNCHANGED <<result, waker, pauses>>
Dropped ==
  /\ client = "dropping" /\ counter = 0 /\ client' = "returned"
  /\ ClientOnly /\ UNCHANGED <<status, result, waker, ret, pauses>>

-----------------------------------------------------------------------------
Init ==
  /\ top \in Jobs
  /\ status = "init" /\ result = None /\ counter = 0 /\ waker = None
  /\ client = "new" /\ ret = None /\ faults = 0 /\ pauses = 0
  /\ dpc = [d \in Demuxers |-> None] /\ todo = [d \in Demuxers |-> {}]
  /\ choked = [d \in Demuxers |-> FALSE]
  /\ read = [s \in Streams |-> 0] /\ fin = [s \in Streams |-> FALSE]
  /\ decq = [s \in Streams |-> <<>>] /\ fgq = [s \in Streams |-> <<>>]
  /\ encq = [s \in Streams |-> <<>>] /\ pre = [s \in Streams |-> <<>>]
  /\ decout = [s \in Streams |-> <<>>]
  /\ encout = [s \in Streams |-> <<>>] /\ held = [s \in Streams |-> <<>>]
  /\ decpc = [s \in Streams |-> None] /\ fgpc = [s \in Streams |-> None]
  /\ encpc = [s \in Streams |-> None]
  /\ preOpen = [s \in Streams |-> FALSE] /\ raced = FALSE
  /\ rpc = [m \in Muxers |-> None] /\ ready = [m \in Muxers |-> {}]
  /\ nready = [m \in Muxers |-> Cardinality({s \in StreamsOf(m) : ~Encoded(s)})]
  /\ drain = [m \in Muxers |-> {}]
  /\ muxq = [m \in Muxers |-> <<>>] /\ mpc = [m \in Muxers |-> None]
  /\ nbdone = [m \in Muxers |-> 0] /\ started = [m \in Muxers |-> FALSE]
  /\ header = [m \in Muxers |-> FALSE] /\ trailer = [m \in Muxers |-> FALSE]
  /\ lastDts = [s \in Streams |-> 0] /\ srcFin = [s \in Streams |-> FALSE]
  /\ written = [s \in Streams |-> <<>>]

Demux(d) == DemuxRead(d) \/ DemuxStop(d) \/ DemuxEof(d) \/ DemuxWake(d) \/ DemuxSend(d)
Dec(s) == DecRecv(s) \/ DecLeave(s) \/ DecEnd(s)
Fg(s) == FgRecv(s) \/ FgLeave(s) \/ FgEnd(s)
Enc(s) == EncOpen(s) \/ EncRecv(s) \/ EncLeave(s) \/ EncSend(s)
ReadyThread(m) == ReadyRecv(m) \/ ReadyStop(m) \/ ReadyGone(m) \/ ReadyOpen(m) \/ ReadyEnd(m)
                  \/ DrainMove(m) \/ DrainDrop(m) \/ DrainDone(m)
Mux(m) == MuxPacket(m) \/ MuxStreamEnd(m) \/ MuxLeave(m) \/ MuxTrailer(m) \/ MuxCount(m) \/ MuxEnd(m)
ClientGoesOn == PauseStore \/ ResumeStore \/ Joined \/ TakeResult \/ PollArm \/ PollWoken
                \/ (client = "poll" /\ Poll) \/ Stopped \/ (client = "drop" /\ Drop) \/ Dropped
ClientCalls == Start \/ StartFails \/ Pause \/ Resume \/ Wait \/ Poll \/ Stop \/ Abort \/ Drop

Threads == \/ \E d \in Demuxers : Demux(d)
           \/ \E s \in Streams : Dec(s) \/ Fg(s) \/ Enc(s)
           \/ \E m \in Muxers : ReadyThread(m) \/ Mux(m)
Next == Threads \/ (\E d \in Demuxers : DemuxFail(d)) \/ (\E m \in Muxers : ReadyOpenFails(m))
        \/ ClientCalls \/ ClientGoesOn

(* The threads go on as long as one of them can, and the client finishes a *)
(* call it began.  No behaviour has infinitely many steps, so fairness for *)
(* each thread alone would say no more.                                    *)
Fairness == WF_vars(Threads \/ ClientGoesOn)
Spec == Init /\ [][Next]_vars /\ Fairness

-----------------------------------------------------------------------------
(* Each file holds the packets of its stream in their order and none of    *)
(* them twice, across the change from a stream's own queue to the muxer's, *)
(* pauses, faults and stops.                                               *)
WrittenInOrder ==
  \A s \in Streams : \A i, j \in DOMAIN written[s] : i < j => written[s][i] < written[s][j]

(* The counter that wait, stop and drop wait for is the number of muxers   *)
(* that still have something to do: no path counts a muxer down twice, or  *)
(* not at all.                                                             *)
CounterIsMuxersLeft ==
  client \notin {"new", "failed"} =>
    counter = Cardinality({m \in Muxers : \/ mpc[m] \in {"run", "trail", "count"}
                                          \/ mpc[m] = "none" /\ rpc[m] \in {"wait", "open"}})

(* When a call that ends the job returns, no muxer works on its file any   *)
(* more, and a file with a header has its trailer unless the job was       *)
(* aborted.                                                                *)
FinalizedOnReturn ==
  client = "returned" => \A m \in Muxers :
    /\ mpc[m] \in {"none", "leave", "done"} /\ (header[m] => mpc[m] # "none")
    /\ header[m] => trailer[m] \/ ret = "aborted"

(* Without a fault, a wait that reports success has written every packet   *)
(* of every output that was opened, unless one was sent to a stream's own  *)
(* queue just before it was dropped.  (An output one of whose encoders     *)
(* never gets a frame is not opened.)                                      *)
OkIsComplete ==
  ret = "ok" /\ faults = 0 /\ ~raced =>
    \A s \in Used : header[top.mux[s]] => Len(written[s]) = top.last[s]

(* What a job wrote is right: in order, without repetition, and complete   *)
(* when it is reported as such.                                            *)
OutputRight == WrittenInOrder /\ OkIsComplete

(* A call that ends the job returns, whatever is choked, blocked or        *)
(* failing.  (If the end of a stream is among the packets lost with its    *)
(* queue, another input may stay choked for ever, waiting for it.)         *)
CallReturns == client \in {"join", "stopping", "drop", "dropping"} ~> client = "returned" \/ raced

(* A failed start leaves no thread behind *)
AllGone == /\ \A d \in Demuxers : dpc[d] = "done"
           /\ \A s \in Streams : decpc[s] = "done" /\ fgpc[s] = "done" /\ encpc[s] = "done"
           /\ \A m \in Muxers : rpc[m] = "done" /\ mpc[m] \in {"none", "done"}
FailedStartEnds == client = "failed" ~> AllGone

(* Every job comes to its end, one that ran and one that could not be      *)
(* started.                                                                *)
JobEnds == CallReturns /\ FailedStartEnds
=============================================================================
