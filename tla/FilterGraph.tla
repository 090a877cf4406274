---------------------------- MODULE FilterGraph ----------------------------
(***************************************************************************)
(* The thread of a filter graph (filter_task.rs) as it builds the graph    *)
(* and feeds it: the graph can be configured only when the parameters of   *)
(* all inputs are known, frames wait until then, and it is configured anew *)
(* when the parameters of an input change.  What the filters make of the   *)
(* frames is external; VideoSync has the outputs.                          *)
(***************************************************************************)
EXTENDS MediaTime, SequencesExt, FiniteSetsExt

CONSTANTS
  Inputs,        \* 1 .. n
  FrameKinds,    \* records of par (> 0), matrix (a Matrices member or NoMatrix), hw
  Fallbacks,     \* values of the fallback parameters of an input, 0: not known
  MaxFed         \* bound on the frames of an input

VARIABLE graph

(* The display matrices of images that lie along the axes: entries 0, 1, 3 *)
(* and 4 of the matrix, which takes (x, y) to (a x + c y, b x + d y).      *)
NoMatrix == <<0, 0, 0, 0>>
Matrices == {m \in {-1, 0, 1} \X {-1, 0, 1} \X {-1, 0, 1} \X {-1, 0, 1} :
               /\ Abs(m[1]) + Abs(m[2]) = 1 /\ Abs(m[1]) = Abs(m[4]) /\ Abs(m[2]) = Abs(m[3])}
Identity == <<1, 0, 0, 1>>

ASSUME GraphAssumption ==
  /\ Inputs \subseteq Nat /\ 1 \in Inputs
  /\ FrameKinds \subseteq [par : Nat \ {0}, matrix : Matrices \cup {NoMatrix}, hw : BOOLEAN]
  /\ Fallbacks \subseteq Nat /\ MaxFed \in Nat

(* What two filters do one after the other.                                *)
Then(m, n) == <<n[1] * m[1] + n[3] * m[2], n[2] * m[1] + n[4] * m[2],
                n[1] * m[3] + n[3] * m[4], n[2] * m[3] + n[4] * m[4]>>

(* What the library's filters do to an image.                              *)
Effect ==
  [hflip |-> <<-1, 0, 0, 1>>, vflip |-> <<1, 0, 0, -1>>, clock |-> <<0, 1, -1, 0>>, cclock |-> <<0, -1, 1, 0>>,
   clock_flip |-> <<0, -1, -1, 0>>, cclock_flip |-> <<0, 1, 1, 0>>, none |-> Identity]

(* configure_input_video_filter and get_rotation: the filters inserted for *)
(* a display matrix, at most two, by its angle and the signs of its        *)
(* entries.                                                                *)
Autorotate(m) ==
  LET flips == IF m[4] < 0 THEN Effect.vflip ELSE Effect.none
  IN  IF m[2] > 0 THEN <<IF m[3] > 0 THEN Effect.cclock_flip ELSE Effect.clock, Effect.none>>       \* 90 degrees
      ELSE IF m[1] < 0 THEN <<Effect.hflip, flips>>                                                 \* 180
      ELSE IF m[2] < 0 THEN <<IF m[3] < 0 THEN Effect.clock_flip ELSE Effect.cclock, Effect.none>>  \* 270
      ELSE <<Effect.none, IF m[1] > 0 THEN flips ELSE Effect.none>>                                 \* 0, all zero
Rotation(m) == Then(Autorotate(m)[1], Autorotate(m)[2])

-----------------------------------------------------------------------------
(* InputFilterParameter::new *)
NewInput(fb) == [par |-> 0, matrix |-> NoMatrix, present |-> FALSE, hw |-> FALSE, eof |-> FALSE,
                 queue |-> <<>>, fallback |-> fb, finished |-> FALSE]

NewGraphs ==
  [in : {[i \in Inputs |-> NewInput(fb)] : fb \in Fallbacks}, next_in : {1},
   configured : {FALSE}, closed : {{}}, rot : {[i \in Inputs |-> Identity]},
   fed : {[i \in Inputs |-> 0]},           \* frames received of an input
   pushed : {[i \in Inputs |-> <<>>]},     \* numbers of the frames given to the graph
   upright : {TRUE},                       \* the last one was rotated as it asked for
   status : {"run"}]
GraphInit == graph \in NewGraphs

HasAllFormats(in) == \A i \in Inputs : in[i].par # 0

(* configure_filtergraph, with the clean-up of the graph before (which     *)
(* also drops the hardware contexts of the inputs): the filters, then the  *)
(* frames that wait and the ends of the inputs that are at their end.      *)
configure_filtergraph(g) ==
  [g EXCEPT !.in = [i \in Inputs |-> [g.in[i] EXCEPT !.queue = <<>>, !.hw = FALSE]], !.configured = TRUE,
            !.rot = [i \in Inputs |-> Rotation(g.in[i].matrix)],
            !.closed = {i \in Inputs : g.in[i].eof},
            !.pushed = [i \in Inputs |-> @[i] \o g.in[i].queue]]

Failed(g) == [g EXCEPT !.status = "error"]

(* fg_read_frames: without a graph the first input whose format is not     *)
(* known is asked for next; with one, the one whose source the filters ask *)
(* for most.  The graph ends when all inputs did, or before (a trim).      *)
fg_read_frames(g) ==
  LET open == {i \in Inputs : ~g.in[i].eof}
      unknown == {i \in open : g.in[i].par = 0}
  IN  IF g.status # "run" THEN {g}
      ELSE IF ~g.configured
        THEN {IF unknown = {} THEN [g EXCEPT !.status = "bug"] ELSE [g EXCEPT !.next_in = Min(unknown)]}
      ELSE {[g EXCEPT !.next_in = i] : i \in open} \cup {[g EXCEPT !.status = "done"]}

(* need_reinit of fg_send_frame *)
Changed(in, f) ==
  \/ in.par # f.par
  \/ IF f.matrix = NoMatrix THEN in.present ELSE ~in.present \/ in.matrix # f.matrix
  \/ in.hw # f.hw

(* ifilter_parameters_from_frame: the matrix of an earlier frame stays     *)
ParametersFrom(in, f) ==
  [in EXCEPT !.par = f.par, !.hw = f.hw, !.present = f.matrix # NoMatrix,
             !.matrix = IF f.matrix = NoMatrix THEN @ ELSE f.matrix]

\* A mutant: a frame that makes the parameters complete is queued behind the graph.
SendQueued(g, i, f) ==
  LET g1 == [g EXCEPT !.in[i] = ParametersFrom(@, f)]
  IN  IF ~HasAllFormats(g1.in) THEN {[g1 EXCEPT !.in[i].queue = Append(@, g.fed[i])]}
      ELSE {[configure_filtergraph(g1) EXCEPT !.in[i].queue = <<g.fed[i]>>]}

(* fg_send_frame of the frame that was received last.  The library may     *)
(* refuse the configuration, or the frame because the input is done.       *)
fg_send_frame(g, i, f) ==
  LET reinit == Changed(g.in[i], f) \/ ~g.configured
      g1 == IF reinit THEN [g EXCEPT !.in[i] = ParametersFrom(@, f)] ELSE g
      g2 == IF reinit THEN configure_filtergraph(g1) ELSE g1
      up == f.matrix = NoMatrix \/ g2.rot[i] = f.matrix
  IN  IF reinit /\ ~HasAllFormats(g1.in) THEN {[g1 EXCEPT !.in[i].queue = Append(@, g.fed[i])]}
      ELSE {[g2 EXCEPT !.pushed[i] = Append(@, g.fed[i]), !.upright = up],
            [g2 EXCEPT !.in[i].finished = TRUE]} \cup (IF reinit THEN {Failed(g1)} ELSE {})

(* fg_send_eof: the source is closed; an input that never had a frame gets *)
(* the parameters its decoder announced.                                   *)
fg_send_eof(g, i) ==
  LET g1 == [g EXCEPT !.in[i].eof = TRUE]
      g2 == IF g.in[i].par # 0 THEN g1 ELSE [g1 EXCEPT !.in[i].par = g.in[i].fallback]
  IN  IF g.in[i].eof THEN {g}
      ELSE IF g.configured THEN {[g1 EXCEPT !.closed = @ \cup {i}], Failed(g1)}
      ELSE IF g.in[i].par = 0 /\ HasAllFormats(g2.in) THEN {configure_filtergraph(g2), Failed(g2)}
      ELSE {IF g2.in[i].par = 0 THEN Failed(g2) ELSE g2}

(* One round of the loop of filter_graph_init's thread.  Frames of an      *)
(* input that is finished are skipped, its end too.                        *)
FeedFrame(i, f) ==
  /\ graph.status = "run" /\ ~graph.in[i].eof /\ ~graph.in[i].finished /\ graph.fed[i] < MaxFed
  /\ \E g \in fg_send_frame([graph EXCEPT !.fed[i] = @ + 1], i, f) : graph' \in fg_read_frames(g)
FeedEof(i) ==
  /\ graph.status = "run" /\ ~graph.in[i].finished
  /\ \E g \in fg_send_eof(graph, i) : graph' \in fg_read_frames(g)

GraphNext == \E i \in Inputs : FeedEof(i) \/ \E f \in FrameKinds : FeedFrame(i, f)
GraphSpec == GraphInit /\ [][GraphNext]_graph

-----------------------------------------------------------------------------
(* No frame is lost or overtaken on its way into the graph, also those     *)
(* that came before the graph could be configured: the graph was given, or *)
(* will be given from the queue, the frames of an input in their order,    *)
(* until the input is finished; and a graph that exists leaves none back.  *)
FramesReachGraph ==
  graph.status = "run" => \A i \in Inputs :
     /\ ~graph.in[i].finished => graph.pushed[i] \o graph.in[i].queue = [k \in 1 .. graph.fed[i] |-> k]
     /\ graph.configured => graph.in[i].queue = <<>>

(* Whenever the graph is configured it learns of every input that ended,   *)
(* or it would wait for it; and while it is not there is an input left     *)
(* whose format is awaited: AVERROR_BUG is not returned, and the input     *)
(* that is asked for next has not ended.                                   *)
EndsKnown ==
  /\ graph.status # "bug"
  /\ graph.status = "run" =>
       /\ graph.configured => graph.closed = {i \in Inputs : graph.in[i].eof}
       /\ ~graph.in[graph.next_in].eof

(* A frame with a display matrix is rotated as the matrix says, for every  *)
(* matrix along the axes and also when the matrix changes.  (A frame       *)
(* without one is rotated like the frame with a matrix before it.)         *)
Upright == graph.upright /\ \A m \in Matrices : Rotation(m) = m

(* A filter graph loses no frame and no end of its inputs across its       *)
(* configurations, and shows pictures upright.                             *)
GraphFed == FramesReachGraph /\ EndsKnown /\ Upright
=============================================================================
