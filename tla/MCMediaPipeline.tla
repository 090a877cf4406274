-------------------------- MODULE MCMediaPipeline --------------------------
(***************************************************************************)
(* Small jobs for MediaPipeline.                                           *)
(***************************************************************************)
EXTENDS MediaPipeline

Job(src, kind, mux, last, calls, f, p) ==
  [src |-> src, kind |-> kind, mux |-> mux, last |-> last, calls |-> calls, faults |-> f, pauses |-> p]

(* one output, one encoded stream *)
OneEncoded(n, calls, f, p) == Job(<<1, 0>>, <<"encode", "none">>, <<"a", "none">>, <<n, 0>>, calls, f, p)
(* two outputs, one encoded and one copied, from one input *)
TwoOutputs(last, calls, f, p) == Job(<<1, 1>>, <<"encode", "copy">>, <<"a", "b">>, last, calls, f, p)
(* one output, encoded from one input and copied from another *)
EncodeAndCopy(last, calls, f, p) == Job(<<1, 2>>, <<"encode", "copy">>, <<"a", "a">>, last, calls, f, p)

MCJobs ==
  {OneEncoded(1, {"wait"}, 1, 0), OneEncoded(1, {"pause", "wait", "stop", "abort", "drop", "poll"}, 0, 1),
   EncodeAndCopy(<<2, 2>>, {"wait"}, 0, 0), EncodeAndCopy(<<1, 3>>, {"wait"}, 0, 0),
   EncodeAndCopy(<<0, 1>>, {"wait"}, 0, 0),
   TwoOutputs(<<1, 1>>, {"wait"}, 0, 0), OneEncoded(0, {"wait"}, 0, 0)}
=============================================================================
