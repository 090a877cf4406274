---------------------------- MODULE QueueProofs ----------------------------
(***************************************************************************)
(* Proofs about the parts that take data in one shape and give it out in   *)
(* another: the inputs of a filter graph, the ring of FLV bytes, the queue *)
(* of audio samples.                                                       *)
(***************************************************************************)
EXTENDS FilterGraph, FlvBuffer, AudioQueue, FiniteSetTheorems, SequenceTheorems, NaturalsInduction,
        WellFoundedInduction, TLAPS

-----------------------------------------------------------------------------
(* The frames and the ends of a filter graph's inputs                      *)
GraphIns ==
  [par : Nat, matrix : Matrices \cup {NoMatrix}, present : BOOLEAN, hw : BOOLEAN, eof : BOOLEAN,
   queue : Seq(Nat), fallback : Nat, finished : BOOLEAN]
IsGraph(g) ==
  g \in [in : [Inputs -> GraphIns], next_in : Inputs, configured : BOOLEAN, closed : SUBSET Inputs,
         rot : [Inputs -> Int \X Int \X Int \X Int], fed : [Inputs -> Nat], pushed : [Inputs -> Seq(Nat)],
         upright : BOOLEAN, status : {"run", "error", "done", "bug"}]

(* The frames of an input that were received are in the graph or queued.   *)
Upto(n) == [k \in 1 .. n |-> k]
GraphKept(g, i, n) == ~g.in[i].finished => g.pushed[i] \o g.in[i].queue = Upto(n)

(* A graph that runs: the inputs it waits for, and what it was told of     *)
(* them when it was configured.                                            *)
GraphWaits(g) ==
  /\ \A i \in Inputs : g.in[i].eof => g.in[i].par # 0
  /\ ~g.configured => ~HasAllFormats(g.in)
GraphTold(g) ==
  g.configured =>
    /\ HasAllFormats(g.in) /\ g.closed = {i \in Inputs : g.in[i].eof}
    /\ \A i \in Inputs : g.in[i].queue = << >> /\ (g.in[i].present => g.in[i].matrix # NoMatrix /\ g.rot[i] = g.in[i].matrix)
PresentHas(g) == \A i \in Inputs : g.in[i].present => g.in[i].matrix # NoMatrix
GraphSound(g) ==
  /\ IsGraph(g) /\ g.status # "bug" /\ g.upright
  /\ g.status = "run" => GraphWaits(g) /\ GraphTold(g) /\ PresentHas(g) /\ \A i \in Inputs : GraphKept(g, i, g.fed[i])
GInv == GraphSound(graph) /\ (graph.status = "run" => ~graph.in[graph.next_in].eof)

LEMMA LeastIn ==
  ASSUME NEW T, T \subseteq Nat, T # {}
  PROVE  \E x \in T : \A y \in T : x <= y
<1>1. PICK x \in T : \A y \in T : ~(<<y, x>> \in OpToRel(<, Nat))
  BY NatLessThanWellFounded, WFMin, Zenon
<1>2. \A y \in T : ~(y < x)
  BY <1>1 DEF OpToRel
<1> QED BY <1>2

LEMMA MatrixShape ==
  ASSUME NEW m \in Matrices
  PROVE  /\ m = <<m[1], m[2], m[3], m[4]>>
         /\ m[1] \in {-1, 0, 1} /\ m[2] \in {-1, 0, 1} /\ m[3] \in {-1, 0, 1} /\ m[4] \in {-1, 0, 1}
         /\ m[1] # 0 => m[2] = 0 /\ m[3] = 0 /\ m[4] # 0
         /\ m[1] = 0 => m[2] # 0 /\ m[3] # 0 /\ m[4] = 0
BY DEF Matrices, Abs

LEMMA Pairs ==
  /\ \A x, y : <<x, y>>[1] = x /\ <<x, y>>[2] = y
  /\ \A x, y, z, w : <<x, y, z, w>>[1] = x /\ <<x, y, z, w>>[2] = y /\ <<x, y, z, w>>[3] = z /\ <<x, y, z, w>>[4] = w
OBVIOUS

LEMMA ThenShape ==
  ASSUME NEW a \in Int, NEW b \in Int, NEW c \in Int, NEW d \in Int,
         NEW p \in Int, NEW q \in Int, NEW r \in Int, NEW s \in Int
  PROVE  Then(<<a, b, c, d>>, <<p, q, r, s>>)
         = <<p * a + r * b, q * a + s * b, p * c + r * d, q * c + s * d>>
BY DEF Then

LEMMA RotationRight ==
  ASSUME NEW m \in Matrices
  PROVE  Rotation(m) = m
<1> DEFINE a == m[1]
           b == m[2]
           c == m[3]
           d == m[4]
<1>1. /\ m = <<a, b, c, d>> /\ a \in {-1, 0, 1} /\ b \in {-1, 0, 1} /\ c \in {-1, 0, 1} /\ d \in {-1, 0, 1}
      /\ (a # 0 => b = 0 /\ c = 0 /\ d # 0) /\ (a = 0 => b # 0 /\ c # 0 /\ d = 0)
  BY MatrixShape
<1>2. /\ Effect.hflip = <<-1, 0, 0, 1>> /\ Effect.vflip = <<1, 0, 0, -1>> /\ Effect.clock = <<0, 1, -1, 0>>
      /\ Effect.cclock = <<0, -1, 1, 0>> /\ Effect.clock_flip = <<0, -1, -1, 0>>
      /\ Effect.cclock_flip = <<0, 1, 1, 0>> /\ Effect.none = <<1, 0, 0, 1>>
  BY DEF Effect, Identity
<1>3. CASE b = 1
  <2>1. Autorotate(m) = <<IF c > 0 THEN Effect.cclock_flip ELSE Effect.clock, Effect.none>> BY <1>1, <1>3 DEF Autorotate
  <2>2. Rotation(m) = Then(IF c > 0 THEN <<0, 1, 1, 0>> ELSE <<0, 1, -1, 0>>, <<1, 0, 0, 1>>)
    BY <2>1, <1>2, Pairs DEF Rotation
  <2> HIDE DEF a, b, c, d
  <2>3. CASE c = 1
    <3>1. Rotation(m) = <<0, 1, 1, 0>> BY <2>2, <2>3, ThenShape
    <3> QED BY <1>1, <1>3, <2>3, <3>1
  <2>4. CASE c = -1
    <3>1. Rotation(m) = <<0, 1, -1, 0>> BY <2>2, <2>4, ThenShape
    <3> QED BY <1>1, <1>3, <2>4, <3>1
  <2> QED BY <1>1, <1>3, <2>3, <2>4
<1>4. CASE b = -1
  <2>1. Autorotate(m) = <<IF c < 0 THEN Effect.clock_flip ELSE Effect.cclock, Effect.none>> BY <1>1, <1>4 DEF Autorotate
  <2>2. Rotation(m) = Then(IF c < 0 THEN <<0, -1, -1, 0>> ELSE <<0, -1, 1, 0>>, <<1, 0, 0, 1>>)
    BY <2>1, <1>2, Pairs DEF Rotation
  <2> HIDE DEF a, b, c, d
  <2>3. CASE c = 1
    <3>1. Rotation(m) = <<0, -1, 1, 0>> BY <2>2, <2>3, ThenShape
    <3> QED BY <1>1, <1>4, <2>3, <3>1
  <2>4. CASE c = -1
    <3>1. Rotation(m) = <<0, -1, -1, 0>> BY <2>2, <2>4, ThenShape
    <3> QED BY <1>1, <1>4, <2>4, <3>1
  <2> QED BY <1>1, <1>4, <2>3, <2>4
<1>5. CASE b = 0
  <2> DEFINE flips == IF d < 0 THEN <<1, 0, 0, -1>> ELSE <<1, 0, 0, 1>>
  <2>1. Autorotate(m) = <<IF a < 0 THEN <<-1, 0, 0, 1>> ELSE <<1, 0, 0, 1>>, flips>>
    BY <1>1, <1>2, <1>5 DEF Autorotate
  <2>2. Rotation(m) = Then(IF a < 0 THEN <<-1, 0, 0, 1>> ELSE <<1, 0, 0, 1>>, flips)
    BY <2>1, Pairs DEF Rotation
  <2> HIDE DEF a, b, c, d
  <2>3. \A x, y \in {-1, 1} : Then(<<x, 0, 0, 1>>, <<1, 0, 0, y>>) = <<x, 0, 0, y>>
    <3> TAKE x, y \in {-1, 1}
    <3>1. Then(<<x, 0, 0, 1>>, <<1, 0, 0, y>>) = <<1 * x + 0 * 0, 0 * x + y * 0, 1 * 0 + 0 * 1, 0 * 0 + y * 1>>
      BY ThenShape
    <3> QED BY <3>1
  <2>4. a \in {-1, 1} /\ d \in {-1, 1} /\ c = 0 BY <1>1, <1>5
  <2>5. Rotation(m) = <<a, 0, 0, d>>
    BY <2>2, <2>3, <2>4
  <2> QED BY <1>1, <1>5, <2>4, <2>5
<1> QED BY <1>1, <1>3, <1>4, <1>5

LEMMA RotationType ==
  ASSUME NEW m \in Matrices \cup {NoMatrix}
  PROVE  Rotation(m) \in Int \X Int \X Int \X Int
<1>1. CASE m \in Matrices BY <1>1, RotationRight, MatrixShape
<1>2. CASE m = NoMatrix
  <2>1. m[1] = 0 /\ m[2] = 0 /\ m[3] = 0 /\ m[4] = 0 BY <1>2 DEF NoMatrix
  <2>2. Autorotate(m) = <<Effect.none, Effect.none>> BY <2>1 DEF Autorotate
  <2>3. Effect.none = <<1, 0, 0, 1>> BY DEF Effect, Identity
  <2>4. Rotation(m) = Then(<<1, 0, 0, 1>>, <<1, 0, 0, 1>>) BY <2>2, <2>3, Pairs DEF Rotation
  <2> QED BY <2>4, ThenShape
<1> QED BY <1>1, <1>2

(* Sequences: a queue behind a queue *)
LEMMA JoinTypes ==
  ASSUME NEW p \in Seq(Nat), NEW q \in Seq(Nat)
  PROVE  p \o q \in Seq(Nat) /\ p \o << >> = p /\ (p \o q) \o << >> = p \o q
OBVIOUS

LEMMA JoinAppend ==
  ASSUME NEW p \in Seq(Nat), NEW q \in Seq(Nat), NEW x \in Nat
  PROVE  p \o Append(q, x) = Append(p \o q, x) /\ Append(q, x) \in Seq(Nat)
OBVIOUS

LEMMA CountOn ==
  ASSUME NEW n \in Nat
  PROVE  Append(Upto(n), n + 1) = Upto(n + 1)
BY DEF Upto

LEMMA ConfigureStep ==
  ASSUME NEW g, IsGraph(g), HasAllFormats(g.in), PresentHas(g), NEW n \in [Inputs -> Nat],
         \A j \in Inputs : GraphKept(g, j, n[j]), NEW c, c = configure_filtergraph(g)
  PROVE  /\ IsGraph(c) /\ c.configured /\ HasAllFormats(c.in) /\ GraphTold(c) /\ PresentHas(c)
         /\ \A j \in Inputs : GraphKept(c, j, n[j])
         /\ c.status = g.status /\ c.upright = g.upright /\ c.fed = g.fed
<1>1. c = [g EXCEPT !.in = [j \in Inputs |-> [g.in[j] EXCEPT !.queue = << >>, !.hw = FALSE]], !.configured = TRUE,
                    !.rot = [j \in Inputs |-> Rotation(g.in[j].matrix)],
                    !.closed = {j \in Inputs : g.in[j].eof},
                    !.pushed = [j \in Inputs |-> g.pushed[j] \o g.in[j].queue]]
  BY DEF configure_filtergraph, IsGraph
<1>2. /\ c.in = [j \in Inputs |-> [g.in[j] EXCEPT !.queue = << >>, !.hw = FALSE]] /\ c.configured = TRUE
      /\ c.rot = [j \in Inputs |-> Rotation(g.in[j].matrix)] /\ c.closed = {j \in Inputs : g.in[j].eof}
      /\ c.pushed = [j \in Inputs |-> g.pushed[j] \o g.in[j].queue]
      /\ c.status = g.status /\ c.upright = g.upright /\ c.fed = g.fed /\ c.next_in = g.next_in
  BY <1>1 DEF IsGraph
<1>3. \A j \in Inputs : /\ g.in[j] \in GraphIns /\ c.in[j] \in GraphIns
                        /\ c.in[j].par = g.in[j].par /\ c.in[j].matrix = g.in[j].matrix
                        /\ c.in[j].present = g.in[j].present /\ c.in[j].eof = g.in[j].eof
                        /\ c.in[j].finished = g.in[j].finished /\ c.in[j].queue = << >>
  <2> TAKE j \in Inputs
  <2>1. g.in[j] \in GraphIns BY DEF IsGraph
  <2>2. c.in[j] = [g.in[j] EXCEPT !.queue = << >>, !.hw = FALSE] BY <1>2
  <2>3. << >> \in Seq(Nat) OBVIOUS
  <2> QED BY <2>1, <2>2, <2>3 DEF GraphIns
<1>4. \A j \in Inputs : Rotation(g.in[j].matrix) \in Int \X Int \X Int \X Int
  BY <1>3, RotationType DEF GraphIns
<1>5. \A j \in Inputs : g.pushed[j] \in Seq(Nat) /\ g.in[j].queue \in Seq(Nat)
  BY <1>3 DEF IsGraph, GraphIns
<1>6. \A j \in Inputs : /\ c.pushed[j] = g.pushed[j] \o g.in[j].queue /\ c.pushed[j] \in Seq(Nat)
                        /\ c.pushed[j] \o << >> = c.pushed[j]
  <2> TAKE j \in Inputs
  <2>1. c.pushed[j] = g.pushed[j] \o g.in[j].queue BY <1>2
  <2> QED BY <2>1, <1>5, JoinTypes
<1>7. IsGraph(c)
  <2>1. c.in \in [Inputs -> GraphIns] BY <1>2, <1>3
  <2>2. c.rot \in [Inputs -> Int \X Int \X Int \X Int]
    <3> DEFINE Q == Int \X Int \X Int \X Int
               R(j) == Rotation(g.in[j].matrix)
    <3>1. c.rot = [j \in Inputs |-> R(j)] /\ \A j \in Inputs : R(j) \in Q BY <1>2, <1>4
    <3> HIDE DEF Q, R
    <3>2. c.rot \in [Inputs -> Q] BY <3>1
    <3> QED BY <3>2 DEF Q
  <2>3. c.pushed \in [Inputs -> Seq(Nat)] BY <1>2, <1>6
  <2>4. c.closed \in SUBSET Inputs BY <1>2
  <2> QED BY ONLY <1>1, <1>2, <2>1, <2>2, <2>3, <2>4, IsGraph(g) DEF IsGraph
<1>8. HasAllFormats(c.in) /\ PresentHas(c)
  BY <1>3 DEF HasAllFormats, PresentHas
<1>9. \A j \in Inputs : c.in[j].present => c.in[j].matrix # NoMatrix /\ c.rot[j] = c.in[j].matrix
  <2> SUFFICES ASSUME NEW j \in Inputs, c.in[j].present
               PROVE  c.in[j].matrix # NoMatrix /\ c.rot[j] = c.in[j].matrix
    OBVIOUS
  <2> DEFINE m == g.in[j].matrix
  <2>1. m = c.in[j].matrix /\ m \in Matrices \cup {NoMatrix} /\ m # NoMatrix
    BY <1>3 DEF PresentHas, GraphIns
  <2>2. c.rot[j] = Rotation(m)
    <3> DEFINE R(k) == Rotation(g.in[k].matrix)
    <3>1. c.rot = [k \in Inputs |-> R(k)] BY <1>2
    <3> HIDE DEF R
    <3>2. c.rot[j] = R(j) BY <3>1
    <3> QED BY <3>2 DEF R
  <2> HIDE DEF m
  <2> QED BY <2>1, <2>2, RotationRight
<1>10. c.closed = {j \in Inputs : c.in[j].eof}
  BY <1>2, <1>3
<1>11. GraphTold(c) BY <1>3, <1>8, <1>9, <1>10 DEF GraphTold
<1>12. \A j \in Inputs : GraphKept(c, j, n[j])
  <2> SUFFICES ASSUME NEW j \in Inputs, ~c.in[j].finished
               PROVE  c.pushed[j] \o c.in[j].queue = Upto(n[j])
    BY DEF GraphKept
  <2>1. g.pushed[j] \o g.in[j].queue = Upto(n[j])
    BY <1>3 DEF GraphKept
  <2>2. c.pushed[j] \o c.in[j].queue = c.pushed[j] BY <1>3, <1>6
  <2> QED BY <2>1, <2>2, <1>6
<1> QED BY <1>2, <1>7, <1>8, <1>11, <1>12

(* Asking for the next input *)
LEMMA ReadStep ==
  ASSUME NEW g, GraphSound(g), NEW r \in fg_read_frames(g)
  PROVE  GraphSound(r) /\ (r.status = "run" => ~r.in[r.next_in].eof)
<1> DEFINE open == {j \in Inputs : ~g.in[j].eof}
           unknown == {j \in open : g.in[j].par = 0}
<1>1. CASE g.status # "run"
  BY <1>1 DEF fg_read_frames
<1>2. ASSUME g.status = "run", NEW j \in open, r = [g EXCEPT !.next_in = j]
      PROVE  GraphSound(r) /\ ~r.in[r.next_in].eof
  BY <1>2 DEF GraphSound, IsGraph, GraphWaits, GraphTold, PresentHas, GraphKept
<1>3. CASE g.status = "run" /\ ~g.configured
  <2>1. PICK j \in Inputs : g.in[j].par = 0
    BY <1>3 DEF GraphSound, GraphWaits, HasAllFormats
  <2>2. j \in unknown /\ unknown \subseteq Nat
    BY <1>3, <2>1, GraphAssumption DEF GraphSound, GraphWaits, IsGraph
  <2>3. Min(unknown) \in unknown
    <3>1. PICK x \in unknown : \A y \in unknown : x <= y
      BY <2>2, LeastIn
    <3> QED BY <3>1 DEF Min
  <2>4. r = [g EXCEPT !.next_in = Min(unknown)]
    BY <1>3, <2>2 DEF fg_read_frames
  <2> QED BY <1>2, <1>3, <2>3, <2>4
<1>4. CASE g.status = "run" /\ g.configured
  <2>1. (\E j \in open : r = [g EXCEPT !.next_in = j]) \/ r = [g EXCEPT !.status = "done"]
    BY <1>4 DEF fg_read_frames
  <2>2. CASE r = [g EXCEPT !.status = "done"]
    BY <2>2 DEF GraphSound, IsGraph
  <2> QED BY <1>2, <1>4, <2>1, <2>2
<1> QED BY <1>1, <1>3, <1>4

InputSet(a, g, i, x) ==
  /\ IsGraph(a) /\ a.in[i] = x /\ \A j \in Inputs : j # i => a.in[j] = g.in[j]
  /\ a.fed = g.fed /\ a.pushed = g.pushed /\ a.configured = g.configured /\ a.rot = g.rot
  /\ a.status = g.status /\ a.upright = g.upright /\ a.closed = g.closed

LEMMA SetInput ==
  ASSUME NEW g, IsGraph(g), NEW i \in Inputs, NEW x \in GraphIns, NEW a, a = [g EXCEPT !.in[i] = x]
  PROVE  InputSet(a, g, i, x)
<1>1. g.in \in [Inputs -> GraphIns] BY DEF IsGraph
<1>2. a.in = [g.in EXCEPT ![i] = x] BY DEF IsGraph
<1> HIDE DEF GraphIns
<1>3. a.in \in [Inputs -> GraphIns] /\ a.in[i] = x /\ \A j \in Inputs : j # i => a.in[j] = g.in[j] BY <1>1, <1>2
<1>4. /\ a.fed = g.fed /\ a.pushed = g.pushed /\ a.configured = g.configured /\ a.rot = g.rot
      /\ a.status = g.status /\ a.upright = g.upright /\ a.closed = g.closed /\ a.next_in = g.next_in
  BY DEF IsGraph
<1>5. IsGraph(a)
  BY <1>3, <1>4 DEF IsGraph
<1> QED BY <1>3, <1>4, <1>5 DEF InputSet

(* A frame that arrives *)
LEMMA GraphFrameStep ==
  ASSUME NEW g, GraphSound(g), g.status = "run", NEW i \in Inputs, ~g.in[i].eof, ~g.in[i].finished,
         NEW f \in FrameKinds, NEW h, h = [g EXCEPT !.fed[i] = g.fed[i] + 1], NEW r \in fg_send_frame(h, i, f)
  PROVE  GraphSound(r)
<1> DEFINE n == g.fed[i] + 1
           reinit == Changed(g.in[i], f) \/ ~g.configured
           old == g.in[i]
           new == ParametersFrom(old, f)
           a == [h EXCEPT !.in[i] = new]
<1>1. /\ f.par \in Nat /\ f.par # 0 /\ f.matrix \in Matrices \cup {NoMatrix} /\ f.hw \in BOOLEAN
  BY GraphAssumption
<1>2. /\ IsGraph(g) /\ old \in GraphIns /\ g.upright /\ GraphWaits(g) /\ GraphTold(g) /\ PresentHas(g)
      /\ \A j \in Inputs : GraphKept(g, j, g.fed[j])
      /\ g.fed \in [Inputs -> Nat] /\ n \in Nat
  <2>1. GraphSound(g) /\ g.status = "run" OBVIOUS
  <2>2. /\ IsGraph(g) /\ g.upright /\ GraphWaits(g) /\ GraphTold(g) /\ PresentHas(g)
        /\ \A j \in Inputs : GraphKept(g, j, g.fed[j])
    BY ONLY <2>1 DEF GraphSound
  <2>3. g.in \in [Inputs -> GraphIns] /\ g.fed \in [Inputs -> Nat] BY ONLY <2>2 DEF IsGraph
  <2>4. old \in GraphIns /\ g.fed[i] \in Nat BY <2>3
  <2> QED BY <2>2, <2>3, <2>4
<1> HIDE DEF n
<1>3. /\ IsGraph(h) /\ h.fed = [g.fed EXCEPT ![i] = n] /\ h.fed[i] = n /\ h.in = g.in /\ h.pushed = g.pushed
      /\ h.configured = g.configured /\ h.rot = g.rot /\ h.status = "run" /\ h.upright /\ h.closed = g.closed
      /\ \A j \in Inputs : j # i => h.fed[j] = g.fed[j]
  BY <1>2 DEF IsGraph, n
<1>4. /\ new \in GraphIns /\ new.par # 0 /\ new.eof = old.eof /\ new.queue = old.queue
      /\ new.finished = old.finished /\ (new.present => new.matrix # NoMatrix)
      /\ (f.matrix # NoMatrix => new.present /\ new.matrix = f.matrix)
  BY <1>1, <1>2 DEF ParametersFrom, GraphIns
<1>5. /\ IsGraph(a) /\ a.in[i] = new
      /\ (\A j \in Inputs : j # i => a.in[j] = g.in[j])
      /\ a.fed = h.fed /\ a.pushed = g.pushed /\ a.configured = g.configured
      /\ a.rot = g.rot /\ a.status = "run" /\ a.upright /\ a.closed = g.closed
  <2> HIDE DEF new
  <2>1. a = [h EXCEPT !.in[i] = new] OBVIOUS
  <2> HIDE DEF a
  <2>3. IsGraph(h) /\ new \in GraphIns BY <1>3, <1>4
  <2>2. InputSet(a, h, i, new) BY ONLY i \in Inputs, <2>1, <2>3, SetInput
  <2> QED BY <1>3, <2>2 DEF InputSet
<1> HIDE DEF a, new, old, reinit
<1>6. PresentHas(a) /\ \A j \in Inputs : a.in[j].eof => a.in[j].par # 0
  BY <1>2, <1>4, <1>5 DEF PresentHas, GraphWaits
<1>7. \A j \in Inputs : GraphKept(a, j, g.fed[j])
  <2> SUFFICES ASSUME NEW j \in Inputs, ~a.in[j].finished
               PROVE  a.pushed[j] \o a.in[j].queue = Upto(g.fed[j])
    BY DEF GraphKept
  <2>1. a.in[j].queue = g.in[j].queue /\ a.in[j].finished = g.in[j].finished BY <1>4, <1>5 DEF old
  <2>2. GraphKept(g, j, g.fed[j]) BY <1>2
  <2> QED BY <1>5, <2>1, <2>2 DEF GraphKept
<1>8. ASSUME NEW s, IsGraph(s), s.configured, HasAllFormats(s.in), GraphTold(s), PresentHas(s), s.status = "run",
             s.upright, s.fed = h.fed, \A j \in Inputs : GraphKept(s, j, g.fed[j]),
             f.matrix = NoMatrix \/ s.rot[i] = f.matrix
      PROVE  /\ GraphSound([s EXCEPT !.pushed[i] = Append(@, n), !.upright = (f.matrix = NoMatrix \/ s.rot[i] = f.matrix)])
             /\ GraphSound([s EXCEPT !.in[i].finished = TRUE])
  <2> DEFINE b == [s EXCEPT !.pushed[i] = Append(@, n), !.upright = (f.matrix = NoMatrix \/ s.rot[i] = f.matrix)]
             d == [s EXCEPT !.in[i].finished = TRUE]
  <2>1. /\ s.pushed \in [Inputs -> Seq(Nat)] /\ s.in[i] \in GraphIns /\ s.in \in [Inputs -> GraphIns]
    BY <1>8 DEF IsGraph
  <2>2. s.in[i].queue = << >> BY <1>8 DEF GraphTold
  <2>3. b = [s EXCEPT !.pushed[i] = Append(@, n), !.upright = TRUE]
    BY <1>8
  <2>4. IsGraph(b) /\ b.in = s.in /\ b.pushed = [s.pushed EXCEPT ![i] = Append(s.pushed[i], n)] /\ b.status = "run"
        /\ b.upright /\ b.fed = s.fed /\ b.configured = s.configured /\ b.closed = s.closed /\ b.rot = s.rot
    <3>1. Append(s.pushed[i], n) \in Seq(Nat) BY <2>1, <1>2
    <3>2. b.pushed = [s.pushed EXCEPT ![i] = Append(s.pushed[i], n)] BY <1>8, <2>3 DEF IsGraph
    <3>3. b.pushed \in [Inputs -> Seq(Nat)] BY <3>1, <3>2, <2>1
    <3> QED BY <1>8, <2>3, <3>2, <3>3 DEF IsGraph
  <2> HIDE DEF b
  <2>5. \A j \in Inputs : GraphKept(b, j, b.fed[j])
    <3> SUFFICES ASSUME NEW j \in Inputs, ~b.in[j].finished
                 PROVE  b.pushed[j] \o b.in[j].queue = Upto(b.fed[j])
      BY DEF GraphKept
    <3>1. s.pushed[j] \o s.in[j].queue = Upto(g.fed[j])
      BY <1>8, <2>4 DEF GraphKept
    <3>2. CASE j # i
      <4>1. b.fed[j] = g.fed[j] BY <1>3, <1>8, <2>4, <3>2
      <4>2. b.pushed[j] = s.pushed[j] BY <2>1, <2>4, <3>2
      <4>3. b.in[j].queue = s.in[j].queue BY <2>4
      <4> QED BY <3>1, <4>1, <4>2, <4>3
    <3>3. CASE j = i
      <4>1. s.pushed[i] = Upto(g.fed[i]) BY <3>1, <3>3, <2>1, <2>2, JoinTypes
      <4>2. b.pushed[i] = Append(s.pushed[i], n) /\ b.in[i].queue = << >> BY <2>1, <2>2, <2>4
      <4>3. b.pushed[i] = Upto(n) BY <4>1, <4>2, <1>2, CountOn DEF n
      <4>4. b.pushed[i] \in Seq(Nat) BY <2>4 DEF IsGraph
      <4>5. b.pushed[i] \o << >> = b.pushed[i] BY <4>4, JoinTypes
      <4>6. b.fed[i] = n BY <1>3, <1>8, <2>4
      <4> QED BY <3>3, <4>2, <4>3, <4>5, <4>6
    <3> QED BY <3>2, <3>3
  <2>6. GraphSound(b)
    <3>1. PresentHas(b) BY <1>8, <2>4 DEF PresentHas
    <3>2. GraphWaits(b) BY <1>8, <2>4 DEF GraphWaits, HasAllFormats
    <3>3. GraphTold(b) BY <1>8, <2>4 DEF GraphTold
    <3> QED BY <2>4, <2>5, <3>1, <3>2, <3>3 DEF GraphSound
  <2>7. d = [s EXCEPT !.in[i] = [s.in[i] EXCEPT !.finished = TRUE]] BY <1>8, <2>1 DEF IsGraph
  <2> DEFINE x == [s.in[i] EXCEPT !.finished = TRUE]
  <2>8. /\ x \in GraphIns /\ x.finished /\ x.par = s.in[i].par /\ x.matrix = s.in[i].matrix
        /\ x.present = s.in[i].present /\ x.eof = s.in[i].eof /\ x.queue = s.in[i].queue
    BY <2>1 DEF GraphIns
  <2> HIDE DEF d, x
  <2>9. /\ IsGraph(d) /\ d.pushed = s.pushed /\ d.status = "run" /\ d.upright
        /\ d.fed = s.fed /\ d.configured = s.configured /\ d.closed = s.closed /\ d.rot = s.rot
        /\ \A j \in Inputs : j # i => d.in[j] = s.in[j]
        /\ d.in[i] = x
    <3>1. InputSet(d, s, i, x)
      <4>1. d = [s EXCEPT !.in[i] = x] BY <2>7 DEF x
      <4> QED BY <1>8, <2>8, <4>1, SetInput
    <3> QED BY <1>8, <3>1 DEF InputSet
  <2>10. \A j \in Inputs : GraphKept(d, j, d.fed[j])
    <3> SUFFICES ASSUME NEW j \in Inputs, ~d.in[j].finished
                 PROVE  d.pushed[j] \o d.in[j].queue = Upto(d.fed[j])
      BY DEF GraphKept
    <3>1. j # i /\ ~s.in[j].finished /\ d.in[j] = s.in[j] BY <2>8, <2>9
    <3>2. s.pushed[j] \o s.in[j].queue = Upto(g.fed[j]) BY <1>8, <3>1 DEF GraphKept
    <3>3. d.fed[j] = g.fed[j] BY <1>3, <1>8, <2>9, <3>1
    <3>4. d.pushed[j] = s.pushed[j] BY <2>9
    <3> QED BY <3>1, <3>2, <3>3, <3>4
  <2> HIDE DEF d
  <2>11. GraphTold(d) BY <1>8, <2>8, <2>9 DEF GraphTold, HasAllFormats
  <2>12. PresentHas(d) BY <1>8, <2>8, <2>9 DEF PresentHas
  <2>13. GraphWaits(d) BY <1>8, <2>8, <2>9 DEF GraphWaits, HasAllFormats
  <2>14. GraphSound(d) BY <2>9, <2>10, <2>11, <2>12, <2>13 DEF GraphSound
  <2> QED BY <2>6, <2>14 DEF b, d
<1>9. CASE reinit /\ ~HasAllFormats(a.in)
  <2> DEFINE e == [a EXCEPT !.in[i].queue = Append(@, n)]
             q == Append(new.queue, n)
  <2>1. r = e BY <1>3, <1>9, <1>5 DEF fg_send_frame, a, new, reinit, old
  <2>2. new.queue \in Seq(Nat) BY <1>4 DEF GraphIns
  <2>3. q \in Seq(Nat) BY <1>2, <2>2, JoinAppend
  <2>4. e = [a EXCEPT !.in[i] = [new EXCEPT !.queue = q]] BY <1>5 DEF IsGraph
  <2> DEFINE x == [new EXCEPT !.queue = q]
  <2> HIDE DEF q
  <2>5. /\ x \in GraphIns /\ x.queue = q /\ x.par = new.par /\ x.matrix = new.matrix /\ x.present = new.present
        /\ x.eof = new.eof /\ x.finished = new.finished
    BY <1>4, <2>3 DEF GraphIns
  <2> HIDE DEF e, x
  <2>6. /\ IsGraph(e) /\ e.pushed = a.pushed /\ e.status = "run" /\ e.upright
        /\ e.fed = a.fed /\ e.configured = a.configured
        /\ \A j \in Inputs : j # i => e.in[j] = a.in[j]
        /\ e.in[i] = x
    <3>1. InputSet(e, a, i, x)
      <4>1. e = [a EXCEPT !.in[i] = x] BY <2>4 DEF x
      <4> QED BY <1>5, <2>5, <4>1, SetInput
    <3> QED BY <1>5, <3>1 DEF InputSet
  <2>7. ~e.configured
    BY <1>2, <1>4, <1>5, <1>9, <2>6 DEF GraphTold, HasAllFormats, reinit, old
  <2>8. \A j \in Inputs : GraphKept(e, j, e.fed[j])
    <3> SUFFICES ASSUME NEW j \in Inputs, ~e.in[j].finished
                 PROVE  e.pushed[j] \o e.in[j].queue = Upto(e.fed[j])
      BY DEF GraphKept
    <3>1. ~a.in[j].finished /\ a.pushed[j] \o a.in[j].queue = Upto(g.fed[j])
      BY <1>5, <1>7, <2>5, <2>6 DEF GraphKept
    <3>2. CASE j # i
      <4>1. e.fed[j] = g.fed[j] BY <1>3, <1>5, <2>6, <3>2
      <4>2. e.pushed[j] = a.pushed[j] /\ e.in[j] = a.in[j] BY <2>6, <3>2
      <4> QED BY <3>1, <4>1, <4>2
    <3>3. CASE j = i
      <4>1. a.pushed[i] \in Seq(Nat) BY <1>5 DEF IsGraph
      <4>2. a.pushed[i] \o q = Append(a.pushed[i] \o new.queue, n)
        BY <4>1, <2>2, <1>2, JoinAppend DEF q
      <4>3. a.pushed[i] \o q = Upto(n)
        BY <3>1, <3>3, <4>2, <1>2, <1>5, CountOn DEF n
      <4>4. e.fed[i] = n /\ e.pushed[i] = a.pushed[i] /\ e.in[i].queue = q BY <1>3, <1>5, <2>5, <2>6
      <4> QED BY <3>3, <4>3, <4>4
    <3> QED BY <3>2, <3>3
  <2>9. PresentHas(e) BY <1>5, <1>6, <2>5, <2>6 DEF PresentHas
  <2>10. GraphWaits(e) BY <1>5, <1>6, <1>9, <2>5, <2>6 DEF GraphWaits, HasAllFormats
  <2>11. GraphTold(e) BY <2>7 DEF GraphTold
  <2> QED BY <2>1, <2>6, <2>8, <2>9, <2>10, <2>11 DEF GraphSound
<1>10. CASE reinit /\ HasAllFormats(a.in)
  <2> DEFINE c == configure_filtergraph(a)
  <2>1. /\ IsGraph(c) /\ c.configured /\ HasAllFormats(c.in) /\ GraphTold(c) /\ PresentHas(c)
        /\ \A j \in Inputs : GraphKept(c, j, g.fed[j])
        /\ c.status = a.status /\ c.upright = a.upright /\ c.fed = a.fed
    BY <1>2, <1>5, <1>6, <1>7, <1>10, ConfigureStep
  <2>2. r \in {[c EXCEPT !.pushed[i] = Append(@, n), !.upright = (f.matrix = NoMatrix \/ c.rot[i] = f.matrix)],
               [c EXCEPT !.in[i].finished = TRUE], Failed(a)}
    <3>1. /\ Changed(h.in[i], f) \/ ~h.configured
          /\ [h EXCEPT !.in[i] = ParametersFrom(@, f)] = a
      BY <1>3, <1>10 DEF a, new, IsGraph, reinit, old
    <3>2. h.fed[i] = n BY <1>3
    <3> HIDE DEF c
    <3> QED BY <1>10, <3>1, <3>2 DEF fg_send_frame, c
  <2>3. f.matrix = NoMatrix \/ c.rot[i] = f.matrix
    <3>1. c.in[i].present = new.present /\ c.in[i].matrix = new.matrix
      BY <1>4, <1>5 DEF configure_filtergraph, IsGraph, GraphIns
    <3> HIDE DEF c
    <3> QED BY <2>1, <3>1, <1>4 DEF GraphTold
  <2> HIDE DEF c
  <2>4. GraphSound(Failed(a))
    BY <1>5 DEF Failed, GraphSound, IsGraph
  <2> QED BY <1>5, <1>8, <2>1, <2>2, <2>3, <2>4
<1>11. CASE ~reinit
  <2>1. r \in {[h EXCEPT !.pushed[i] = Append(@, n), !.upright = (f.matrix = NoMatrix \/ h.rot[i] = f.matrix)],
               [h EXCEPT !.in[i].finished = TRUE]}
    BY <1>3, <1>11 DEF fg_send_frame, reinit, old
  <2>2. HasAllFormats(h.in) /\ GraphTold(h) /\ PresentHas(h) /\ \A j \in Inputs : GraphKept(h, j, g.fed[j])
    <3>1. GraphTold(h) BY <1>2, <1>3 DEF GraphTold, HasAllFormats
    <3>2. HasAllFormats(h.in) BY <1>2, <1>3, <1>11 DEF GraphTold, reinit
    <3>3. PresentHas(h) BY <1>2, <1>3 DEF PresentHas
    <3>4. \A j \in Inputs : GraphKept(h, j, g.fed[j]) BY <1>2, <1>3 DEF GraphKept
    <3> QED BY <3>1, <3>2, <3>3, <3>4
  <2>3. f.matrix = NoMatrix \/ h.rot[i] = f.matrix
    BY <1>2, <1>3, <1>11 DEF GraphTold, Changed, reinit, old
  <2>4. h.configured = TRUE BY <1>3, <1>11 DEF reinit, IsGraph
  <2>5. /\ GraphSound([h EXCEPT !.pushed[i] = Append(@, n), !.upright = (f.matrix = NoMatrix \/ h.rot[i] = f.matrix)])
        /\ GraphSound([h EXCEPT !.in[i].finished = TRUE])
    BY <1>3, <1>8, <2>2, <2>3, <2>4
  <2> QED BY <2>1, <2>5
<1> QED BY <1>9, <1>10, <1>11

(* The end of an input *)
LEMMA GraphEofStep ==
  ASSUME NEW g, GraphSound(g), g.status = "run", NEW i \in Inputs, ~g.in[i].finished, NEW r \in fg_send_eof(g, i)
  PROVE  GraphSound(r)
<1> DEFINE old == g.in[i]
           x1 == [old EXCEPT !.eof = TRUE]
           x2 == IF old.par # 0 THEN x1 ELSE [x1 EXCEPT !.par = old.fallback]
           g1 == [g EXCEPT !.in[i].eof = TRUE]
           g2 == IF old.par # 0 THEN g1 ELSE [g1 EXCEPT !.in[i].par = old.fallback]
<1>1. /\ IsGraph(g) /\ old \in GraphIns /\ g.upright /\ GraphWaits(g) /\ GraphTold(g) /\ PresentHas(g)
      /\ \A j \in Inputs : GraphKept(g, j, g.fed[j])
      /\ g.fed \in [Inputs -> Nat]
  BY DEF GraphSound, IsGraph
<1>2. /\ x1 \in GraphIns /\ x1.eof /\ x1.par = old.par /\ x1.matrix = old.matrix /\ x1.present = old.present
      /\ x1.queue = old.queue /\ x1.finished = old.finished
  BY <1>1 DEF GraphIns
<1>3. /\ x2 \in GraphIns /\ x2.eof /\ (old.par # 0 => x2 = x1)
      /\ x2.matrix = old.matrix /\ x2.present = old.present
      /\ x2.queue = old.queue /\ x2.finished = old.finished
  BY <1>1 DEF GraphIns
<1>4. g1 = [g EXCEPT !.in[i] = x1] BY <1>1 DEF IsGraph
<1>5. g2 = [g EXCEPT !.in[i] = x2]
  BY <1>1, <1>4 DEF IsGraph, GraphIns
<1> HIDE DEF x1, x2
<1>6. InputSet(g1, g, i, x1)
  BY <1>1, <1>2, <1>4, SetInput
<1>7. InputSet(g2, g, i, x2)
  BY <1>1, <1>3, <1>5, SetInput
<1>8. r \in (IF old.eof THEN {g}
            ELSE IF g.configured THEN {[g1 EXCEPT !.closed = @ \cup {i}], Failed(g1)}
            ELSE IF old.par = 0 /\ HasAllFormats(g2.in) THEN {configure_filtergraph(g2), Failed(g2)}
            ELSE {IF g2.in[i].par = 0 THEN Failed(g2) ELSE g2})
  BY DEF fg_send_eof
<1> HIDE DEF g1, g2
<1>9. GraphSound(Failed(g1)) /\ GraphSound(Failed(g2))
  BY <1>1, <1>6, <1>7 DEF InputSet, Failed, GraphSound, IsGraph
<1>10. PresentHas(g2) /\ \A j \in Inputs : GraphKept(g2, j, g.fed[j])
  <2>1. PresentHas(g2) BY <1>1, <1>3, <1>7 DEF InputSet, PresentHas
  <2>2. ASSUME NEW j \in Inputs, ~g2.in[j].finished
        PROVE  g2.pushed[j] \o g2.in[j].queue = Upto(g.fed[j])
    <3>1. g2.in[j].queue = g.in[j].queue /\ g2.in[j].finished = g.in[j].finished /\ g2.pushed = g.pushed
      BY <1>3, <1>7 DEF InputSet
    <3>2. GraphKept(g, j, g.fed[j]) BY <1>1
    <3> QED BY <2>2, <3>1, <3>2 DEF GraphKept
  <2> QED BY <2>1, <2>2 DEF GraphKept
<1>11. CASE ~old.eof /\ g.configured
  <2> DEFINE c == [g1 EXCEPT !.closed = @ \cup {i}]
  <2>1. /\ IsGraph(c) /\ c.in = g1.in /\ c.closed = g.closed \cup {i} /\ c.fed = g.fed /\ c.pushed = g.pushed
        /\ c.configured = TRUE /\ c.rot = g.rot /\ c.status = "run" /\ c.upright = TRUE
    BY <1>1, <1>6, <1>11 DEF InputSet, IsGraph
  <2> HIDE DEF c
  <2>2. /\ c.in[i] = x1 /\ \A j \in Inputs : j # i => c.in[j] = g.in[j]
    BY <1>6, <2>1 DEF InputSet
  <2>3. HasAllFormats(g.in) /\ g.closed = {j \in Inputs : g.in[j].eof}
    BY <1>1, <1>11 DEF GraphTold
  <2>4. HasAllFormats(c.in) BY <1>2, <2>2, <2>3 DEF HasAllFormats
  <2>5. c.closed = {j \in Inputs : c.in[j].eof} BY <1>2, <2>1, <2>2, <2>3
  <2>6. GraphTold(c) BY <1>1, <1>2, <1>11, <2>1, <2>2, <2>4, <2>5 DEF GraphTold
  <2>7. GraphWaits(c) BY <2>1, <2>4 DEF GraphWaits, HasAllFormats
  <2>8. PresentHas(c) BY <1>1, <1>2, <2>2 DEF PresentHas
  <2>9. ASSUME NEW j \in Inputs, ~c.in[j].finished PROVE c.pushed[j] \o c.in[j].queue = Upto(c.fed[j])
    <3>1. c.in[j].queue = g.in[j].queue /\ c.in[j].finished = g.in[j].finished BY <1>2, <2>2
    <3>2. GraphKept(g, j, g.fed[j]) BY <1>1
    <3> QED BY <2>1, <2>9, <3>1, <3>2 DEF GraphKept
  <2>10. GraphSound(c) BY <2>1, <2>6, <2>7, <2>8, <2>9 DEF GraphSound, GraphKept
  <2> QED BY <1>8, <1>9, <1>11, <2>10 DEF c
<1>12. CASE ~old.eof /\ ~g.configured /\ old.par = 0 /\ HasAllFormats(g2.in)
  <2> DEFINE c == configure_filtergraph(g2)
  <2> HIDE DEF c
  <2>1. IsGraph(g2) /\ g2.status = "run" /\ g2.upright = g.upright /\ g2.fed = g.fed BY <1>7 DEF InputSet
  <2>2. /\ IsGraph(c) /\ c.configured /\ HasAllFormats(c.in) /\ GraphTold(c) /\ PresentHas(c)
        /\ \A j \in Inputs : GraphKept(c, j, g.fed[j])
        /\ c.status = g2.status /\ c.upright = g2.upright /\ c.fed = g2.fed
    BY <1>1, <1>10, <1>12, <2>1, ConfigureStep DEF c
  <2>3. GraphWaits(c) BY <2>2 DEF GraphWaits, HasAllFormats
  <2>4. GraphSound(c) BY <1>1, <2>1, <2>2, <2>3 DEF GraphSound
  <2> QED BY <1>8, <1>9, <1>12, <2>4 DEF c
<1>13. CASE ~old.eof /\ ~g.configured /\ ~(old.par = 0 /\ HasAllFormats(g2.in)) /\ g2.in[i].par # 0
  <2>1. r = g2 BY <1>8, <1>13
  <2>2. ~HasAllFormats(g2.in)
    <3>1. CASE old.par = 0 BY <1>13, <3>1
    <3>2. CASE old.par # 0
      <4>1. PICK j \in Inputs : g.in[j].par = 0 BY <1>1, <1>13 DEF GraphWaits, HasAllFormats
      <4>2. j # i BY <3>2, <4>1
      <4>3. g2.in[j] = g.in[j] BY <1>7, <4>2 DEF InputSet
      <4> QED BY <4>1, <4>3 DEF HasAllFormats
    <3> QED BY <3>1, <3>2
  <2>3. GraphWaits(g2) BY <1>1, <1>7, <1>13, <2>2 DEF GraphWaits, InputSet
  <2>4. GraphTold(g2) BY <1>7, <1>13 DEF GraphTold, InputSet
  <2>5. IsGraph(g2) /\ g2.status = "run" /\ g2.upright = g.upright /\ g2.fed = g.fed BY <1>7 DEF InputSet
  <2> QED BY <1>1, <1>10, <2>1, <2>3, <2>4, <2>5 DEF GraphSound
<1>14. CASE ~old.eof /\ ~g.configured /\ ~(old.par = 0 /\ HasAllFormats(g2.in)) /\ g2.in[i].par = 0
  BY <1>8, <1>9, <1>14
<1>15. CASE old.eof BY <1>8, <1>15
<1> QED BY <1>11, <1>12, <1>13, <1>14, <1>15

(* No frame and no end of an input is lost on the way into a filter graph, *)
(* whatever the number of inputs, the order in which frames and ends       *)
(* arrive, and the changes of their parameters; and every display matrix   *)
(* along the axes is undone by the filters that are inserted for it        *)
(* (filter_task.rs, fg_send_frame, fg_send_eof, configure_filtergraph).    *)
THEOREM GraphFedAlways == GraphSpec => []GraphFed
<1>1. GraphInit => GInv
  <2> SUFFICES ASSUME GraphInit PROVE GInv OBVIOUS
  <2>1. PICK fb \in Fallbacks : graph.in = [i \in Inputs |-> NewInput(fb)]
    BY DEF GraphInit, NewGraphs
  <2>2. /\ graph = [in |-> graph.in, next_in |-> 1, configured |-> FALSE, closed |-> {},
                    rot |-> [i \in Inputs |-> Identity], fed |-> [i \in Inputs |-> 0],
                    pushed |-> [i \in Inputs |-> << >>], upright |-> TRUE, status |-> "run"]
    BY DEF GraphInit, NewGraphs
  <2>3. NewInput(fb) \in GraphIns
    BY GraphAssumption DEF NewInput, GraphIns
  <2>4. \A i \in Inputs : graph.in[i] = NewInput(fb) BY <2>1
  <2>5. IsGraph(graph)
    <3>1. [i \in Inputs |-> Identity] \in [Inputs -> Int \X Int \X Int \X Int] BY DEF Identity
    <3>2. [i \in Inputs |-> << >>] \in [Inputs -> Seq(Nat)] OBVIOUS
    <3>3. graph.in \in [Inputs -> GraphIns] BY <2>1, <2>3
    <3> DEFINE new == graph.in
               rot == [i \in Inputs |-> Identity]
               none == [i \in Inputs |-> << >>]
    <3>4. graph = [in |-> new, next_in |-> 1, configured |-> FALSE, closed |-> {}, rot |-> rot,
                   fed |-> [i \in Inputs |-> 0], pushed |-> none, upright |-> TRUE, status |-> "run"]
      BY <2>2
    <3>5. new \in [Inputs -> GraphIns] /\ rot \in [Inputs -> Int \X Int \X Int \X Int] /\ none \in [Inputs -> Seq(Nat)]
      BY <3>1, <3>2, <3>3
    <3> HIDE DEF new, rot, none
    <3> QED BY ONLY <3>4, <3>5, GraphAssumption DEF IsGraph
  <2>6. \A i \in Inputs : GraphKept(graph, i, graph.fed[i])
    <3> TAKE i \in Inputs
    <3>1. graph.pushed[i] = << >> /\ graph.in[i].queue = << >> /\ graph.fed[i] = 0
      BY <2>2, <2>4 DEF NewInput
    <3>2. << >> \o << >> = Upto(0) BY DEF Upto
    <3> QED BY <3>1, <3>2 DEF GraphKept
  <2>7. GraphWaits(graph) /\ GraphTold(graph) /\ PresentHas(graph)
    BY <2>2, <2>4, GraphAssumption DEF GraphWaits, GraphTold, PresentHas, HasAllFormats, NewInput
  <2>8. ~graph.in[graph.next_in].eof
    BY <2>2, <2>4, GraphAssumption DEF NewInput
  <2> QED BY <2>2, <2>5, <2>6, <2>7, <2>8 DEF GInv, GraphSound
<1>2. GInv /\ [GraphNext]_graph => GInv'
  <2> SUFFICES ASSUME GInv, [GraphNext]_graph PROVE GInv' OBVIOUS
  <2>1. CASE UNCHANGED graph BY <2>1 DEF GInv
  <2>2. ASSUME NEW i \in Inputs, NEW f \in FrameKinds, FeedFrame(i, f) PROVE GInv'
    <3> DEFINE h == [graph EXCEPT !.fed[i] = graph.fed[i] + 1]
    <3>1. PICK g \in fg_send_frame(h, i, f) : graph' \in fg_read_frames(g)
      BY <2>2 DEF FeedFrame
    <3>2. GraphSound(g) BY <2>2, GraphFrameStep DEF FeedFrame, GInv
    <3> QED BY <3>1, <3>2, ReadStep DEF GInv
  <2>3. ASSUME NEW i \in Inputs, FeedEof(i) PROVE GInv'
    <3>1. PICK g \in fg_send_eof(graph, i) : graph' \in fg_read_frames(g)
      BY <2>3 DEF FeedEof
    <3>2. GraphSound(g) BY <2>3, GraphEofStep DEF FeedEof, GInv
    <3> QED BY <3>1, <3>2, ReadStep DEF GInv
  <2> QED BY <2>1, <2>2, <2>3 DEF GraphNext
<1>3. GInv => GraphFed
  <2> SUFFICES ASSUME GInv PROVE GraphFed OBVIOUS
  <2>1. FramesReachGraph
    BY DEF GInv, GraphSound, GraphTold, GraphKept, Upto, FramesReachGraph
  <2>2. EndsKnown
    BY DEF GInv, GraphSound, GraphTold, EndsKnown
  <2>3. Upright
    BY RotationRight DEF GInv, GraphSound, Upright
  <2> QED BY <2>1, <2>2, <2>3 DEF GraphFed
<1> QED BY <1>1, <1>2, <1>3, PTL DEF GraphSpec

-----------------------------------------------------------------------------
(* FlvBuffer: the ring between the muxer and the RTMP server               *)
(* Induction over a set of numbers *)
LEMMA SetInduction ==
  ASSUME NEW S, 0 \in S, \A n \in Nat : n \in S => n + 1 \in S
  PROVE  \A n \in Nat : n \in S
<1> SUFFICES ASSUME NEW m \in Nat, m \notin S PROVE FALSE OBVIOUS
<1>1. PICK x \in Nat \ S : \A y \in Nat \ S : x <= y
  BY LeastIn
<1>2. x # 0 /\ x - 1 \in Nat BY <1>1
<1>3. x - 1 \in S BY <1>1, <1>2
<1> QED BY <1>1, <1>2, <1>3

(* Powers of two *)
Doubles(f, m) == f = [k \in 0 .. m |-> IF k = 0 THEN 1 ELSE 2 * f[k - 1]]

LEMMA DoublesExists == \A m \in Nat : \E f : Doubles(f, m)
<1> DEFINE S == {m \in Nat : \E f : Doubles(f, m)}
<1>1. 0 \in S
  <2>1. Doubles([k \in 0 .. 0 |-> 1], 0) BY DEF Doubles
  <2> QED BY <2>1
<1>2. ASSUME NEW m \in Nat, m \in S PROVE m + 1 \in S
  <2>1. PICK f : Doubles(f, m) BY <1>2
  <2> DEFINE g == [k \in 0 .. m + 1 |-> IF k = m + 1 THEN 2 * f[m] ELSE f[k]]
  <2>2. \A k \in 0 .. m : f[k] = IF k = 0 THEN 1 ELSE 2 * f[k - 1]
    BY <2>1 DEF Doubles
  <2>3. \A k \in 0 .. m : g[k] = f[k] OBVIOUS
  <2>4. g[m + 1] = 2 * g[m + 1 - 1] BY <2>3
  <2>5. \A k \in 0 .. m + 1 : g[k] = IF k = 0 THEN 1 ELSE 2 * g[k - 1]
    <3> HIDE DEF g
    <3> TAKE k \in 0 .. m + 1
    <3>1. CASE k = m + 1 BY <2>4, <3>1
    <3>2. CASE k # m + 1
      <4>1. k \in 0 .. m /\ (k # 0 => k - 1 \in 0 .. m) BY <3>2
      <4> QED BY <2>2, <2>3, <4>1
    <3> QED BY <3>1, <3>2
  <2>6. g = [k \in 0 .. m + 1 |-> g[k]] OBVIOUS
  <2> HIDE DEF g
  <2>7. Doubles(g, m + 1) BY <2>5, <2>6 DEF Doubles
  <2> QED BY <2>7
<1> HIDE DEF S
<1>3. \A m \in Nat : m \in S BY <1>1, <1>2, SetInduction
<1> QED BY <1>3 DEF S

LEMMA PowerIs ==
  /\ CapacityBits \in Nat /\ Power[0] = 1
  /\ \A k \in 0 .. CapacityBits : Power[k] = IF k = 0 THEN 1 ELSE 2 * Power[k - 1]
<1>1. CapacityBits \in Nat BY FlvLengths
<1>2. \E f : f = [k \in 0 .. CapacityBits |-> IF k = 0 THEN 1 ELSE 2 * f[k - 1]]
  BY <1>1, DoublesExists DEF Doubles
<1>3. Power = [k \in 0 .. CapacityBits |-> IF k = 0 THEN 1 ELSE 2 * Power[k - 1]]
  BY <1>2, Zenon DEF Power
<1> QED BY <1>1, <1>3

LEMMA PowersPositive ==
  ASSUME NEW c \in Powers
  PROVE  c \in Nat \ {0}
<1> DEFINE S == {k \in Nat : k \in 0 .. CapacityBits => Power[k] \in Nat \ {0}}
<1>1. 0 \in S BY PowerIs
<1>2. ASSUME NEW k \in Nat, k \in S PROVE k + 1 \in S
  <2> SUFFICES ASSUME k + 1 \in 0 .. CapacityBits PROVE Power[k + 1] \in Nat \ {0} OBVIOUS
  <2>1. k \in 0 .. CapacityBits BY PowerIs
  <2>2. Power[k + 1] = 2 * Power[k] BY PowerIs
  <2> QED BY <1>2, <2>1, <2>2
<1> HIDE DEF S
<1>3. \A k \in Nat : k \in S BY <1>1, <1>2, SetInduction
<1> QED BY <1>3, PowerIs DEF S, Powers

(* A power of two is found for every size that memory has                  *)
LEMMA NextPower ==
  ASSUME NEW n \in Nat \ {0}, n <= Power[CapacityBits]
  PROVE  PowerOfTwo(n) \in Powers /\ PowerOfTwo(n) >= n
<1> DEFINE T == {k \in 0 .. CapacityBits : Power[k] >= n}
<1>1. T \subseteq Nat /\ T # {}
  <2>1. CapacityBits \in T BY PowerIs
  <2> QED BY <2>1
<1>2. PICK k \in T : \A j \in T : k <= j BY <1>1, LeastIn
<1>3. k \in 0 .. CapacityBits /\ Power[k] >= n /\ Power[k] \in Powers BY <1>2 DEF Powers
<1>4. Power[k] < 2 * n
  <2>1. CASE k = 0 BY <2>1, PowerIs
  <2>2. CASE k # 0
    <3>1. k - 1 \in 0 .. CapacityBits /\ k - 1 \notin T BY <1>2, <2>2, PowerIs
    <3>2. Power[k - 1] \in Nat BY <3>1, PowersPositive DEF Powers
    <3>3. Power[k - 1] < n BY <3>1, <3>2
    <3>4. Power[k] = 2 * Power[k - 1] BY <1>3, <2>2, PowerIs
    <3> QED BY <3>2, <3>3, <3>4
  <2> QED BY <2>1, <2>2
<1>5. \E c \in Powers : c >= n /\ c < 2 * n BY <1>3, <1>4
<1> QED BY <1>5 DEF PowerOfTwo

(* Positions of the ring *)
LEMMA ModIs ==
  ASSUME NEW c \in Nat \ {0}, NEW a \in Int, 0 <= a, a < 2 * c
  PROVE  a % c = (IF a < c THEN a ELSE a - c)
OBVIOUS

LEMMA Interval ==
  ASSUME NEW c \in Nat \ {0}
  PROVE  Cardinality(0 .. c - 1) = c
BY FS_Interval

Rings == UNION {[0 .. c - 1 -> Nat] : c \in Powers}
Flvs ==
  [stream : Seq(Nat), sizes : [1 .. NumTags -> TagSizes], headed : BOOLEAN, written : Nat, taken : Nat,
   ring : Rings, head : Nat, tail : Nat, parsed : BOOLEAN, tags : Seq([type : Nat, data : Seq(Nat)]), before : Nat]
(* A buffer of c bytes *)
Buffer(b, c) ==
  b \in Flvs /\ c \in Powers /\ b.ring \in [0 .. c - 1 -> Nat] /\ b.head \in 0 .. c - 1 /\ b.tail \in 0 .. c - 1
Spot(h, j, c) == IF h + j < c THEN h + j ELSE h + j - c

(* A sequence of sequences laid end to end *)
Flattens(f, seqs, m) ==
  /\ f = [i \in 1 .. m |-> IF i = 1 THEN seqs[i] ELSE f[i - 1] \o seqs[i]]

LEMMA FlattenExists ==
  ASSUME NEW seqs
  PROVE  \A m \in Nat : \E f : Flattens(f, seqs, m)
<1> DEFINE S == {m \in Nat : \E f : Flattens(f, seqs, m)}
<1>1. 0 \in S
  <2>1. Flattens([i \in 1 .. 0 |-> IF i = 1 THEN seqs[i] ELSE << >>], seqs, 0)
    BY DEF Flattens
  <2> QED BY <2>1
<1>2. ASSUME NEW m \in Nat, m \in S PROVE m + 1 \in S
  <2>1. PICK f : Flattens(f, seqs, m) BY <1>2
  <2> DEFINE last == IF m + 1 = 1 THEN seqs[m + 1] ELSE f[m] \o seqs[m + 1]
             g == [i \in 1 .. m + 1 |-> IF i = m + 1 THEN last ELSE f[i]]
  <2>2. \A i \in 1 .. m : f[i] = IF i = 1 THEN seqs[i] ELSE f[i - 1] \o seqs[i]
    BY <2>1 DEF Flattens
  <2>3. \A i \in 1 .. m : g[i] = f[i] OBVIOUS
  <2>4. g[m + 1] = IF m + 1 = 1 THEN seqs[m + 1] ELSE g[m + 1 - 1] \o seqs[m + 1]
    BY <2>3
  <2>5. \A i \in 1 .. m + 1 : g[i] = IF i = 1 THEN seqs[i] ELSE g[i - 1] \o seqs[i]
    <3> HIDE DEF g
    <3> TAKE i \in 1 .. m + 1
    <3>1. CASE i = m + 1 BY <2>4, <3>1
    <3>2. CASE i # m + 1
      <4>1. i \in 1 .. m BY <3>2
      <4>2. i # 1 => i - 1 \in 1 .. m BY <4>1
      <4> QED BY <2>2, <2>3, <4>1, <4>2
    <3> QED BY <3>1, <3>2
  <2>6. DOMAIN g = 1 .. m + 1 /\ g = [i \in DOMAIN g |-> g[i]] OBVIOUS
  <2> HIDE DEF g
  <2>7. Flattens(g, seqs, m + 1) BY <2>5, <2>6 DEF Flattens
  <2> QED BY <2>7
<1> HIDE DEF S
<1>3. \A m \in Nat : m \in S BY <1>1, <1>2, SetInduction
<1> QED BY <1>3 DEF S

LEMMA FlattenIs ==
  ASSUME NEW seqs, Len(seqs) \in Nat, Len(seqs) # 0
  PROVE  \E f : Flattens(f, seqs, Len(seqs)) /\ FlattenSeq(seqs) = f[Len(seqs)]
<1> DEFINE F == CHOOSE f : f = [i \in 1 .. Len(seqs) |-> IF i = 1 THEN seqs[i] ELSE f[i - 1] \o seqs[i]]
<1>1. \E f : f = [i \in 1 .. Len(seqs) |-> IF i = 1 THEN seqs[i] ELSE f[i - 1] \o seqs[i]]
  BY FlattenExists DEF Flattens
<1>2. F = [i \in 1 .. Len(seqs) |-> IF i = 1 THEN seqs[i] ELSE F[i - 1] \o seqs[i]]
  BY <1>1, Zenon
<1>3. FlattenSeq(seqs) = F[Len(seqs)]
  BY Zenon DEF FlattenSeq
<1> HIDE DEF F
<1> QED BY <1>2, <1>3 DEF Flattens

LEMMA Concat ==
  ASSUME NEW V, NEW p \in Seq(V), NEW q \in Seq(V)
  PROVE  /\ p \o q \in Seq(V) /\ Len(p \o q) = Len(p) + Len(q)
         /\ \A i \in 1 .. Len(p) : (p \o q)[i] = p[i]
         /\ \A i \in 1 .. Len(q) : (p \o q)[Len(p) + i] = q[i]
OBVIOUS

(* Where each of them starts *)
Starting(t, off, seqs) ==
  /\ off \in [1 .. Len(seqs) + 1 -> Nat] /\ off[1] = 0 /\ Len(t) = off[Len(seqs) + 1]
  /\ \A k \in 1 .. Len(seqs) : off[k + 1] = off[k] + Len(seqs[k])
  /\ \A k \in 1 .. Len(seqs) : \A j \in 1 .. Len(seqs[k]) : off[k] + j \in 1 .. Len(t) /\ t[off[k] + j] = seqs[k][j]

LEMMA FlattenLaid ==
  ASSUME NEW V, NEW seqs \in Seq(Seq(V))
  PROVE  FlattenSeq(seqs) \in Seq(V) /\ \E off : Starting(FlattenSeq(seqs), off, seqs)
<1> DEFINE m == Len(seqs)
<1>0. m \in Nat /\ \A k \in 1 .. m : seqs[k] \in Seq(V) /\ Len(seqs[k]) \in Nat OBVIOUS
<1>1. CASE m = 0
  <2>1. seqs = << >> BY <1>1
  <2>2. FlattenSeq(seqs) = << >> BY <2>1 DEF FlattenSeq
  <2>3. Starting(FlattenSeq(seqs), [k \in 1 .. 1 |-> 0], seqs) BY <2>1, <2>2 DEF Starting
  <2>4. FlattenSeq(seqs) \in Seq(V) BY <2>2
  <2> QED BY <2>3, <2>4
<1>2. CASE m # 0
  <2>1. PICK f : Flattens(f, seqs, m) /\ FlattenSeq(seqs) = f[m] BY <1>0, <1>2, FlattenIs
  <2> DEFINE off == [k \in 1 .. m + 1 |-> IF k = 1 THEN 0 ELSE Len(f[k - 1])]
             Laid(i) == /\ f[i] \in Seq(V)
                        /\ off[i + 1] = off[i] + Len(seqs[i]) /\ off[i + 1] = Len(f[i])
                        /\ \A k \in 1 .. i : \A j \in 1 .. Len(seqs[k]) :
                              off[k] + j \in 1 .. Len(f[i]) /\ f[i][off[k] + j] = seqs[k][j]
             S == {i \in Nat : i \in 1 .. m => Laid(i)}
  <2>2. f[1] = seqs[1] /\ \A i \in 1 .. m : i # 1 => f[i] = f[i - 1] \o seqs[i]
    <3>1. \A i \in 1 .. m : f[i] = IF i = 1 THEN seqs[i] ELSE f[i - 1] \o seqs[i]
      BY <2>1 DEF Flattens
    <3>2. 1 \in 1 .. m BY <1>0, <1>2
    <3> HIDE DEF m
    <3> QED BY <3>1, <3>2
  <2>3. off[1] = 0 /\ \A i \in 1 .. m : off[i + 1] = Len(f[i])
    BY <1>0
  <2> HIDE DEF off, m
  <2>4. 0 \in S OBVIOUS
  <2>5. ASSUME NEW n \in Nat, n \in S PROVE n + 1 \in S
    <3> SUFFICES ASSUME n + 1 \in 1 .. m PROVE Laid(n + 1) OBVIOUS
    <3>1. CASE n = 0
      <4>1. f[1] = seqs[1] /\ seqs[1] \in Seq(V) /\ off[1] = 0 /\ off[2] = Len(f[1])
        BY <1>0, <1>2, <2>2, <2>3
      <4>2. \A k \in 1 .. 1 : k = 1 OBVIOUS
      <4>3. Laid(1) BY <4>1, <4>2
      <4> QED BY <3>1, <4>3
    <3>2. CASE n # 0
      <4>1. n \in 1 .. m /\ n + 1 # 1 /\ (n + 1) - 1 = n BY <1>0, <3>2
      <4>2. Laid(n) BY <2>5, <4>1
      <4>3. f[n + 1] = f[n] \o seqs[n + 1] BY <2>2, <4>1
      <4>4. f[n] \in Seq(V) /\ seqs[n + 1] \in Seq(V) BY <1>0, <4>2
      <4>5. off[n + 1] = Len(f[n]) /\ off[(n + 1) + 1] = Len(f[n + 1]) BY <2>3, <4>1
      <4> DEFINE p == f[n]
                 q == seqs[n + 1]
                 t == f[n + 1]
      <4>6. /\ p \in Seq(V) /\ q \in Seq(V) /\ t = p \o q /\ off[n + 1] = Len(p) /\ off[(n + 1) + 1] = Len(t)
            /\ \A k \in 1 .. n : \A j \in 1 .. Len(seqs[k]) : off[k] + j \in 1 .. Len(p) /\ p[off[k] + j] = seqs[k][j]
        BY <4>2, <4>3, <4>4, <4>5
      <4>7. q = seqs[n + 1] OBVIOUS
      <4> HIDE DEF p, q, t
      <4>8. /\ t \in Seq(V) /\ Len(t) = Len(p) + Len(q) /\ Len(p) \in Nat /\ Len(q) \in Nat
            /\ \A i \in 1 .. Len(p) : t[i] = p[i]
            /\ \A i \in 1 .. Len(q) : t[Len(p) + i] = q[i]
        BY <4>6, Concat
      <4>9. ASSUME NEW k \in 1 .. n + 1, NEW j \in 1 .. Len(seqs[k])
            PROVE  off[k] + j \in 1 .. Len(t) /\ t[off[k] + j] = seqs[k][j]
        <5>1. CASE k = n + 1
          <6>1. j \in 1 .. Len(q) /\ off[k] = Len(p) BY <4>6, <4>7, <5>1
          <6> QED BY <4>7, <4>8, <5>1, <6>1
        <5>2. CASE k # n + 1
          <6>1. k \in 1 .. n BY <5>2
          <6>2. off[k] + j \in 1 .. Len(p) /\ p[off[k] + j] = seqs[k][j] BY <4>6, <6>1
          <6> QED BY <4>8, <6>2
        <5> QED BY <5>1, <5>2
      <4> QED BY <4>6, <4>8, <4>9, <4>7 DEF t
    <3> QED BY <3>1, <3>2
  <2> HIDE DEF S
  <2>6. \A i \in Nat : i \in S BY <2>4, <2>5, SetInduction
  <2> HIDE DEF Laid
  <2>7. \A i \in 1 .. m : Laid(i)
    <3> TAKE i \in 1 .. m
    <3>1. i \in Nat BY <1>0
    <3> QED BY <2>6, <3>1 DEF S
  <2>8. m \in 1 .. m /\ m = Len(seqs) BY <1>0, <1>2 DEF m
  <2>9. Laid(m) BY <2>7, <2>8
  <2>10. FlattenSeq(seqs) \in Seq(V) BY <2>1, <2>9 DEF Laid
  <2>11. off \in [1 .. m + 1 -> Nat]
    <3>1. \A k \in 1 .. m + 1 : off[k] \in Nat
      <4> TAKE k \in 1 .. m + 1
      <4>1. CASE k = 1 BY <2>3, <4>1
      <4>2. CASE k # 1
        <5>1. k - 1 \in 1 .. m /\ (k - 1) + 1 = k BY <2>8, <1>0, <4>2
        <5>2. f[k - 1] \in Seq(V) /\ off[(k - 1) + 1] = Len(f[k - 1]) BY <2>7, <2>3, <5>1 DEF Laid
        <5> QED BY <5>1, <5>2
      <4> QED BY <4>1, <4>2
    <3> QED BY <3>1 DEF off
  <2>12. \A k \in 1 .. m : off[k + 1] = off[k] + Len(seqs[k]) BY <2>7 DEF Laid
  <2>13. Starting(f[m], off, seqs) BY <2>3, <2>8, <2>9, <2>11, <2>12 DEF Starting, Laid
  <2> QED BY <2>1, <2>10, <2>13
<1> QED BY <1>1, <1>2

IsJoin(t, p, q) ==
  /\ t \in Seq(Nat) /\ Len(t) = Len(p) + Len(q) /\ Len(p) \in Nat /\ Len(q) \in Nat
  /\ \A i \in 1 .. Len(p) : t[i] = p[i]
  /\ \A i \in 1 .. Len(q) : t[Len(p) + i] = q[i]

LEMMA ConcatNat ==
  ASSUME NEW p \in Seq(Nat), NEW q \in Seq(Nat)
  PROVE  IsJoin(p \o q, p, q)
BY DEF IsJoin

(* The streams of the muxer *)
LEMMA TagBytesIs ==
  ASSUME NEW n \in Nat, NEW size \in Nat
  PROVE  /\ TagBytes(n, size) \in Seq(Nat) /\ Len(TagBytes(n, size)) = TagHeaderLen + size + PreviousTagSizeLen
         /\ TagBytes(n, size)[1] = n /\ TagBytes(n, size)[2] = size
         /\ \A j \in 1 .. size : TagBytes(n, size)[TagHeaderLen + j] = 10 * n + j
<1> DEFINE p == <<n, size>>
           z == [i \in 1 .. TagHeaderLen - 2 |-> 0]
           d == TagData(n, size)
           e == [i \in 1 .. PreviousTagSizeLen |-> TagHeaderLen + size]
<1>0. TagHeaderLen \in Nat /\ TagHeaderLen >= 2 /\ PreviousTagSizeLen \in Nat BY FlvLengths
<1>1. p \in Seq(Nat) /\ Len(p) = 2 /\ p[1] = n /\ p[2] = size OBVIOUS
<1>2. z \in Seq(Nat) /\ Len(z) = TagHeaderLen - 2 BY <1>0
<1>3. d \in Seq(Nat) /\ Len(d) = size /\ \A j \in 1 .. size : d[j] = 10 * n + j BY DEF TagData
<1>4. e \in Seq(Nat) /\ Len(e) = PreviousTagSizeLen BY <1>0
<1>5. TagBytes(n, size) = ((p \o z) \o d) \o e BY DEF TagBytes
<1> HIDE DEF p, z, d, e
<1> DEFINE q == p \o z
           r == q \o d
           t == r \o e
<1>6. q \in Seq(Nat) /\ Len(q) = TagHeaderLen /\ q[1] = n /\ q[2] = size
  <2>1. 1 \in 1 .. Len(p) /\ 2 \in 1 .. Len(p) BY <1>1
  <2>2. IsJoin(q, p, z) BY <1>1, <1>2, ConcatNat
  <2> HIDE DEF q
  <2> QED BY <1>0, <1>1, <1>2, <2>1, <2>2 DEF IsJoin
<1> HIDE DEF q
<1>7. r \in Seq(Nat) /\ Len(r) = TagHeaderLen + size /\ r[1] = n /\ r[2] = size
      /\ \A j \in 1 .. size : r[TagHeaderLen + j] = 10 * n + j
  <2>1. 1 \in 1 .. Len(q) /\ 2 \in 1 .. Len(q) BY <1>0, <1>6
  <2>2. IsJoin(r, q, d) BY <1>3, <1>6, ConcatNat
  <2> HIDE DEF r
  <2> QED BY <1>3, <1>6, <2>1, <2>2 DEF IsJoin
<1> HIDE DEF r
<1>8. t \in Seq(Nat) /\ Len(t) = TagHeaderLen + size + PreviousTagSizeLen /\ t[1] = n /\ t[2] = size
      /\ \A j \in 1 .. size : t[TagHeaderLen + j] = 10 * n + j
  <2>1. 1 \in 1 .. Len(r) /\ 2 \in 1 .. Len(r) /\ \A j \in 1 .. size : TagHeaderLen + j \in 1 .. Len(r)
    BY <1>0, <1>7
  <2>2. IsJoin(t, r, e) BY <1>4, <1>7, ConcatNat
  <2> HIDE DEF t
  <2> QED BY <1>0, <1>4, <1>7, <2>1, <2>2 DEF IsJoin
<1> QED BY <1>5, <1>8 DEF q, r

Total(b, k) == TagHeaderLen + b.sizes[k] + PreviousTagSizeLen
(* Where the tags of a stream start *)
Laid(b, off) ==
  /\ off \in [1 .. NumTags + 1 -> Nat]
  /\ off[1] = (IF b.headed THEN FlvHeaderLen ELSE 0) + PreviousTagSizeLen
  /\ \A k \in 1 .. NumTags : off[k + 1] = off[k] + Total(b, k)
  /\ Len(b.stream) = off[NumTags + 1]
  /\ \A k \in 1 .. NumTags :
       /\ b.stream[off[k] + 1] = k /\ b.stream[off[k] + 2] = b.sizes[k]
       /\ \A j \in 1 .. b.sizes[k] : b.stream[off[k] + TagHeaderLen + j] = 10 * k + j
  /\ b.headed <=> b.stream[1] = Signature

LEMMA HeadIs ==
  ASSUME NEW headed \in BOOLEAN, NEW h,
         h = (IF headed THEN FlvBytes ELSE [i \in 1 .. PreviousTagSizeLen |-> 0])
  PROVE  /\ h \in Seq(Nat) /\ Len(h) = (IF headed THEN FlvHeaderLen ELSE 0) + PreviousTagSizeLen
         /\ Len(h) >= 1 /\ (headed <=> h[1] = Signature)
<1> DEFINE p == [i \in 1 .. FlvHeaderLen |-> IF i = 1 THEN Signature ELSE 0]
           z == [i \in 1 .. PreviousTagSizeLen |-> 0]
<1>0. FlvHeaderLen \in Nat \ {0} /\ PreviousTagSizeLen \in Nat \ {0} BY FlvLengths
<1>1. p \in Seq(Nat) /\ Len(p) = FlvHeaderLen /\ p[1] = Signature BY <1>0 DEF Signature
<1>2. z \in Seq(Nat) /\ Len(z) = PreviousTagSizeLen /\ z[1] # Signature BY <1>0 DEF Signature
<1>3. h = IF headed THEN p \o z ELSE z BY DEF FlvBytes
<1> HIDE DEF p, z
<1>4. CASE headed
  <2>1. h = p \o z BY <1>3, <1>4
  <2>2. 1 \in 1 .. Len(p) BY <1>0, <1>1
  <2>3. IsJoin(h, p, z) BY <1>1, <1>2, <2>1, ConcatNat
  <2> QED BY <1>0, <1>1, <1>2, <1>4, <2>2, <2>3 DEF IsJoin
<1>5. CASE ~headed
  BY <1>0, <1>2, <1>3, <1>5
<1> QED BY <1>4, <1>5

LEMMA NewLaid ==
  ASSUME NEW b \in NewFlvs
  PROVE  b \in Flvs /\ \E off : Laid(b, off)
<1>1. PICK headed \in BOOLEAN, sizes \in [1 .. NumTags -> TagSizes] :
        b = NewFlv(headed, sizes)
  BY DEF NewFlvs
<1> DEFINE h == IF headed THEN FlvBytes ELSE [i \in 1 .. PreviousTagSizeLen |-> 0]
           seqs == [n \in 1 .. NumTags |-> TagBytes(n, sizes[n])]
           t == FlattenSeq(seqs)
           st == h \o t
<1>2. NumTags \in Nat /\ TagSizes \subseteq Nat /\ sizes \in [1 .. NumTags -> Nat]
  <2>1. NumTags \in Nat /\ TagSizes \subseteq Nat BY FlvLengths
  <2> QED BY <2>1
<1>3. /\ h \in Seq(Nat) /\ Len(h) = (IF headed THEN FlvHeaderLen ELSE 0) + PreviousTagSizeLen
      /\ Len(h) >= 1 /\ (headed <=> h[1] = Signature)
  BY HeadIs, Zenon
<1>4. /\ seqs \in Seq(Seq(Nat)) /\ Len(seqs) = NumTags
      /\ \A k \in 1 .. NumTags : seqs[k] = TagBytes(k, sizes[k])
  <2> DEFINE T(n) == TagBytes(n, sizes[n])
  <2>1. \A n \in 1 .. NumTags : T(n) \in Seq(Nat) BY <1>2, TagBytesIs
  <2>2. seqs = [n \in 1 .. NumTags |-> T(n)] OBVIOUS
  <2> HIDE DEF T, seqs
  <2>3. seqs \in Seq(Seq(Nat)) /\ Len(seqs) = NumTags /\ \A k \in 1 .. NumTags : seqs[k] = T(k)
    BY <1>2, <2>1, <2>2
  <2> QED BY <2>3 DEF T
<1> HIDE DEF h, seqs, t
<1>5. t \in Seq(Nat) BY <1>4, FlattenLaid DEF t
<1>6. PICK at : Starting(t, at, seqs) BY <1>4, FlattenLaid DEF t
<1>7. /\ st \in Seq(Nat) /\ Len(st) = Len(h) + Len(t)
      /\ \A i \in 1 .. Len(h) : st[i] = h[i]
      /\ \A i \in 1 .. Len(t) : st[Len(h) + i] = t[i]
  BY <1>3, <1>5, ConcatNat DEF IsJoin
<1>8. b.stream = st /\ b.sizes = sizes /\ b.headed = headed
  BY <1>1 DEF h, t, seqs, NewFlv
<1> HIDE DEF st
<1>9. Len(h) \in Nat /\ Len(t) \in Nat BY <1>3, <1>5
<1> DEFINE off == [k \in 1 .. NumTags + 1 |-> Len(h) + at[k]]
<1>10. /\ at \in [1 .. NumTags + 1 -> Nat] /\ at[1] = 0 /\ Len(t) = at[NumTags + 1]
       /\ \A k \in 1 .. NumTags : at[k + 1] = at[k] + Len(TagBytes(k, sizes[k]))
       /\ \A k \in 1 .. NumTags : \A j \in 1 .. Len(TagBytes(k, sizes[k])) :
            at[k] + j \in 1 .. Len(t) /\ t[at[k] + j] = TagBytes(k, sizes[k])[j]
  BY <1>4, <1>6 DEF Starting
<1>11. off \in [1 .. NumTags + 1 -> Nat] /\ off[1] = Len(h) /\ Len(st) = off[NumTags + 1]
  BY <1>2, <1>7, <1>9, <1>10
<1>12. ASSUME NEW k \in 1 .. NumTags
       PROVE  /\ off[k + 1] = off[k] + (TagHeaderLen + sizes[k] + PreviousTagSizeLen)
              /\ st[off[k] + 1] = k /\ st[off[k] + 2] = sizes[k]
              /\ \A j \in 1 .. sizes[k] : st[off[k] + TagHeaderLen + j] = 10 * k + j
  <2> DEFINE g == TagBytes(k, sizes[k])
             n == TagHeaderLen + sizes[k] + PreviousTagSizeLen
  <2>0. sizes[k] \in Nat /\ k \in Nat /\ at[k] \in Nat /\ at[k + 1] \in Nat
        /\ TagHeaderLen \in Nat /\ TagHeaderLen >= 2 /\ PreviousTagSizeLen \in Nat
    BY <1>2, <1>10, FlvLengths
  <2>1. /\ Len(g) = n /\ g[1] = k /\ g[2] = sizes[k] /\ \A j \in 1 .. sizes[k] : g[TagHeaderLen + j] = 10 * k + j
    BY <2>0, TagBytesIs
  <2>2. /\ at[k + 1] = at[k] + Len(g)
        /\ \A j \in 1 .. Len(g) : at[k] + j \in 1 .. Len(t) /\ t[at[k] + j] = g[j]
    BY <1>10
  <2>3. off[k] = Len(h) + at[k] /\ off[k + 1] = Len(h) + at[k + 1] BY <1>2
  <2> HIDE DEF g, off
  <2>4. \A j \in 1 .. n : st[off[k] + j] = g[j]
    <3> TAKE j \in 1 .. n
    <3>1. at[k] + j \in 1 .. Len(t) /\ t[at[k] + j] = g[j] BY <2>1, <2>2
    <3>2. st[Len(h) + (at[k] + j)] = t[at[k] + j] BY <1>7, <3>1
    <3>3. Len(h) + (at[k] + j) = off[k] + j BY <1>9, <2>0, <2>3
    <3> QED BY <3>1, <3>2, <3>3
  <2>5. off[k] \in Nat BY <1>9, <2>0, <2>3
  <2>6. off[k + 1] = off[k] + n BY <1>9, <2>0, <2>1, <2>2, <2>3
  <2>7. ASSUME NEW j \in 1 .. sizes[k] PROVE st[off[k] + TagHeaderLen + j] = 10 * k + j
    <3>1. TagHeaderLen + j \in 1 .. n /\ off[k] + (TagHeaderLen + j) = off[k] + TagHeaderLen + j BY <2>0, <2>5
    <3> QED BY <2>1, <2>4, <3>1
  <2>8. 1 \in 1 .. n /\ 2 \in 1 .. n BY <2>0
  <2> QED BY <2>1, <2>4, <2>6, <2>7, <2>8
<1> HIDE DEF off
<1>13. headed <=> st[1] = Signature BY <1>3, <1>7, <1>9
<1>14. Laid(b, off)
  BY <1>3, <1>8, <1>11, <1>12, <1>13 DEF Laid, Total
<1>15. b \in Flvs
  <2> DEFINE ring == [i \in 0 .. InitialCapacity - 1 |-> 0]
  <2>1. InitialCapacity \in Powers BY FlvLengths
  <2>2. ring \in Rings BY <2>1 DEF Rings
  <2> HIDE DEF ring
  <2>3. b = [stream |-> st, sizes |-> sizes, headed |-> headed, written |-> 0, taken |-> 0, ring |-> ring,
             head |-> 0, tail |-> 0, parsed |-> FALSE, tags |-> << >>, before |-> 0]
    BY <1>1 DEF st, h, t, seqs, ring, NewFlv
  <2> QED BY ONLY <2>3, <2>2, <1>7, headed \in BOOLEAN, sizes \in [1 .. NumTags -> TagSizes] DEF Flvs
<1> QED BY <1>14, <1>15

(* The ring *)
LEMMA AtIs ==
  ASSUME NEW c \in Nat \ {0}, NEW h \in 0 .. c - 1, NEW j \in 0 .. c - 1
  PROVE  /\ Spot(h, j, c) \in 0 .. c - 1 /\ (h + j) % c = Spot(h, j, c)
         /\ \A k \in 0 .. c - 1 : Spot(h, j, c) = Spot(h, k, c) => j = k
         /\ \A k \in 0 .. c - 1 : j + k < c => Spot(Spot(h, j, c), k, c) = Spot(h, j + k, c)
<1>1. (h + j) % c = Spot(h, j, c)
  <2> DEFINE a == h + j
  <2>1. a \in Int /\ 0 <= a /\ a < 2 * c OBVIOUS
  <2> HIDE DEF a
  <2>2. a % c = IF a < c THEN a ELSE a - c BY <2>1, ModIs
  <2> QED BY <2>2 DEF Spot, a
<1> QED BY <1>1 DEF Spot

LEMMA AtIn ==
  ASSUME NEW c \in Nat \ {0}, NEW h \in 0 .. c - 1, NEW j \in 0 .. c - 1
  PROVE  Spot(h, j, c) \in 0 .. c - 1
BY DEF Spot

LEMMA AtMod ==
  ASSUME NEW c \in Nat \ {0}, NEW h \in 0 .. c - 1, NEW j \in 0 .. c - 1
  PROVE  (h + j) % c = Spot(h, j, c)
BY AtIs

LEMMA AtOne ==
  ASSUME NEW c \in Nat \ {0}, NEW h \in 0 .. c - 1, NEW j \in 0 .. c - 1, NEW k \in 0 .. c - 1, Spot(h, j, c) = Spot(h, k, c)
  PROVE  j = k
BY DEF Spot

LEMMA AtSum ==
  ASSUME NEW c \in Nat \ {0}, NEW h \in 0 .. c - 1, NEW j \in 0 .. c - 1, NEW k \in 0 .. c - 1, j + k < c
  PROVE  Spot(Spot(h, j, c), k, c) = Spot(h, j + k, c)
BY DEF Spot

LEMMA Behind ==
  ASSUME NEW h \in Nat, NEW n \in Nat, NEW d \in Nat, h + n < d, NEW i \in 1 .. n
  PROVE  /\ i - 1 \in 0 .. n /\ h + (i - 1) < d /\ h + (i - 1) \in 0 .. d - 1 /\ h + (i - 1) = h + i - 1
         /\ \A j \in 0 .. h - 1 : h + (i - 1) # j
OBVIOUS

LEMMA Measures ==
  ASSUME NEW b, NEW c, Buffer(b, c)
  PROVE  /\ c \in Nat \ {0} /\ Cap(b) = c /\ Held(b) \in 0 .. c - 1 /\ b.tail = Spot(b.head, Held(b), c)
         /\ available_space(b) = c - 1 - Held(b)
<1>1. c \in Nat \ {0} /\ b.head \in 0 .. c - 1 /\ b.tail \in 0 .. c - 1 BY PowersPositive DEF Buffer
<1>2. Cap(b) = c
  <2>1. DOMAIN b.ring = 0 .. c - 1 BY DEF Buffer
  <2> QED BY <1>1, <2>1, Interval DEF Cap
<1>3. Held(b) = IF b.tail + c - b.head < c THEN b.tail + c - b.head ELSE b.tail - b.head
  <2> DEFINE a == b.tail + c - b.head
  <2>1. a \in Int /\ 0 <= a /\ a < 2 * c BY <1>1
  <2>2. Held(b) = a % c BY <1>2 DEF Held
  <2>3. a - c = b.tail - b.head BY <1>1
  <2> HIDE DEF a
  <2>4. Held(b) = IF a < c THEN a ELSE a - c BY <1>1, <2>1, <2>2, ModIs
  <2> QED BY <2>3, <2>4 DEF a
<1>4. available_space(b) = IF b.head + c - b.tail - 1 < c THEN b.head + c - b.tail - 1 ELSE b.head - b.tail - 1
  <2> DEFINE a == b.head + c - b.tail - 1
  <2>1. a \in Int /\ 0 <= a /\ a < 2 * c BY <1>1
  <2>2. available_space(b) = a % c BY <1>2 DEF available_space
  <2>3. a - c = b.head - b.tail - 1 BY <1>1
  <2> HIDE DEF a
  <2>4. available_space(b) = IF a < c THEN a ELSE a - c BY <1>1, <2>1, <2>2, ModIs
  <2> QED BY <2>3, <2>4 DEF a
<1> QED BY <1>1, <1>2, <1>3, <1>4 DEF Spot

LEMMA HeldOf ==
  ASSUME NEW b, NEW c, Buffer(b, c), NEW n \in 0 .. c - 1, b.tail = Spot(b.head, n, c)
  PROVE  Held(b) = n
<1>1. c \in Nat \ {0} /\ Held(b) \in 0 .. c - 1 /\ Spot(b.head, Held(b), c) = Spot(b.head, n, c) /\ b.head \in 0 .. c - 1
  BY Measures DEF Buffer
<1> QED BY <1>1, AtIs

(* What the ring's operations leave alone *)
SameStream(r, b) ==
  /\ r.stream = b.stream /\ r.sizes = b.sizes /\ r.headed = b.headed /\ r.written = b.written /\ r.taken = b.taken
  /\ r.parsed = b.parsed /\ r.tags = b.tags /\ r.before = b.before
(* The j-th byte that a buffer holds *)
Byte(b, c, j) == b.ring[Spot(b.head, j, c)]

IsBuffer(r, b, c, ring, h, t) ==
  Buffer(r, c) /\ SameStream(r, b) /\ r.ring = ring /\ r.head = h /\ r.tail = t

LEMMA BufferOf ==
  ASSUME NEW b \in Flvs, NEW c \in Powers, NEW ring \in [0 .. c - 1 -> Nat], NEW h \in 0 .. c - 1, NEW t \in 0 .. c - 1,
         NEW r, r = [b EXCEPT !.ring = ring, !.head = h, !.tail = t]
  PROVE  IsBuffer(r, b, c, ring, h, t)
<1>1. ring \in Rings BY DEF Rings
<1>2. h \in Nat /\ t \in Nat BY PowersPositive
<1>3. r \in Flvs BY <1>1, <1>2 DEF Flvs
<1>4. r.ring = ring /\ r.head = h /\ r.tail = t /\ SameStream(r, b) BY DEF Flvs, SameStream
<1> QED BY <1>3, <1>4 DEF Buffer, IsBuffer

LEMMA ResizeKeeps ==
  ASSUME NEW b, NEW c, Buffer(b, c), NEW need \in Nat, Held(b) < need, need <= Power[CapacityBits]
  PROVE  \E d : /\ Buffer(resize_buffer(b, need), d) /\ d >= need /\ Held(resize_buffer(b, need)) = Held(b)
                /\ SameStream(resize_buffer(b, need), b)
                /\ \A j \in 0 .. Held(b) - 1 : Byte(resize_buffer(b, need), d, j) = Byte(b, c, j)
<1> DEFINE d == Largest(PowerOfTwo(need), InitialCapacity)
           ring == [i \in 0 .. d - 1 |-> IF i < Held(b) THEN read_data(b, b.head, Held(b))[i + 1] ELSE 0]
           r == resize_buffer(b, need)
<1>1. c \in Nat \ {0} /\ Cap(b) = c /\ Held(b) \in 0 .. c - 1 /\ b.head \in 0 .. c - 1 /\ b.ring \in [0 .. c - 1 -> Nat]
  BY Measures DEF Buffer
<1>2. d \in Powers /\ d \in Nat \ {0} /\ d >= need
  <2>1. need \in Nat \ {0} BY <1>1
  <2>2. PowerOfTwo(need) \in Powers /\ PowerOfTwo(need) >= need BY <2>1, NextPower
  <2>3. InitialCapacity \in Powers BY FlvLengths
  <2>4. PowerOfTwo(need) \in Nat /\ InitialCapacity \in Nat BY <2>2, <2>3, PowersPositive
  <2>5. d \in Powers /\ d >= need BY <2>2, <2>3, <2>4 DEF Largest
  <2> QED BY <2>5, PowersPositive
<1>3. \A i \in 0 .. Held(b) - 1 : read_data(b, b.head, Held(b))[i + 1] = Byte(b, c, i)
  <2> TAKE i \in 0 .. Held(b) - 1
  <2>0. Held(b) \in Nat /\ Held(b) <= c - 1 /\ b.head \in Nat /\ i \in Nat /\ i <= Held(b) - 1 BY <1>1
  <2>1. i + 1 \in 1 .. Held(b) /\ b.head + (i + 1) - 1 = b.head + i /\ i \in 0 .. c - 1 BY <1>1, <2>0
  <2>2. read_data(b, b.head, Held(b))[i + 1] = b.ring[(b.head + (i + 1) - 1) % Cap(b)]
    BY <2>1 DEF read_data
  <2>3. (b.head + i) % c = Spot(b.head, i, c) BY <1>1, <2>1, AtMod, Zenon
  <2> QED BY <1>1, <2>1, <2>2, <2>3 DEF Byte
<1>4. \A i \in 0 .. Held(b) - 1 : Byte(b, c, i) \in Nat
  <2> TAKE i \in 0 .. Held(b) - 1
  <2>0. i \in 0 .. c - 1 BY <1>1
  <2>1. Spot(b.head, i, c) \in 0 .. c - 1 BY <1>1, <2>0, AtIn, Zenon
  <2> QED BY <1>1, <2>1 DEF Byte
<1>5. r = [b EXCEPT !.ring = ring, !.head = 0, !.tail = Held(b)] BY DEF resize_buffer
<1> HIDE DEF d, r
<1>6. ring \in [0 .. d - 1 -> Nat]
  <2>1. ASSUME NEW i \in 0 .. d - 1 PROVE (IF i < Held(b) THEN read_data(b, b.head, Held(b))[i + 1] ELSE 0) \in Nat
    <3>1. CASE i < Held(b)
      <4>1. i \in 0 .. Held(b) - 1 BY <1>1, <1>2, <3>1
      <4> QED BY <1>3, <1>4, <3>1, <4>1
    <3>2. CASE ~(i < Held(b)) BY <3>2
    <3> QED BY <3>1, <3>2
  <2> QED BY <2>1
<1>7. Held(b) \in 0 .. d - 1 /\ 0 \in 0 .. d - 1 BY <1>1, <1>2
<1>8. \A i \in 0 .. Held(b) - 1 : ring[i] = Byte(b, c, i)
  <2> TAKE i \in 0 .. Held(b) - 1
  <2>0. Held(b) \in Nat /\ d \in Nat /\ Held(b) < d BY <1>1, <1>2, <1>7
  <2>1. i \in 0 .. d - 1 /\ i < Held(b) BY <2>0
  <2>2. ring[i] = read_data(b, b.head, Held(b))[i + 1] BY <2>1
  <2> QED BY <1>3, <2>2
<1> HIDE DEF ring
<1>9. b \in Flvs BY DEF Buffer
<1>10. Buffer(r, d) /\ SameStream(r, b) /\ r.ring = ring /\ r.head = 0 /\ r.tail = Held(b)
  <2>1. IsBuffer(r, b, d, ring, 0, Held(b)) BY <1>2, <1>5, <1>6, <1>7, <1>9, BufferOf
  <2> QED BY <2>1 DEF IsBuffer
<1>11. Held(r) = Held(b)
  <2>1. r.tail = Spot(r.head, Held(b), d) BY <1>2, <1>7, <1>10 DEF Spot
  <2> QED BY <1>7, <1>10, <2>1, HeldOf
<1>12. \A j \in 0 .. Held(b) - 1 : Byte(r, d, j) = Byte(b, c, j)
  <2> TAKE j \in 0 .. Held(b) - 1
  <2>1. Spot(0, j, d) = j BY <1>1, <1>2, <1>7 DEF Spot
  <2> QED BY <1>8, <1>10, <2>1 DEF Byte
<1>13. Buffer(r, d) /\ d >= need /\ Held(r) = Held(b) /\ SameStream(r, b)
       /\ \A j \in 0 .. Held(b) - 1 : Byte(r, d, j) = Byte(b, c, j)
  BY <1>2, <1>10, <1>11, <1>12
<1> QED BY <1>13 DEF r

(* What a write does: the piece follows what was held                      *)
Wrote(w, d, b, c, piece) ==
  /\ Buffer(w, d) /\ Held(w) = Held(b) + Len(piece) /\ SameStream(w, b)
  /\ \A j \in 0 .. Held(b) - 1 : Byte(w, d, j) = Byte(b, c, j)
  /\ \A j \in 1 .. Len(piece) : Byte(w, d, Held(b) + j - 1) = piece[j]

(* The ring after a piece of n bytes was put behind position t             *)
Put(ring, t, piece, c) ==
  [p \in DOMAIN ring |-> IF \E i \in 1 .. Len(piece) : [j \in 1 .. Len(piece) |-> (t + j - 1) % c][i] = p
                         THEN piece[CHOOSE i \in 1 .. Len(piece) : [j \in 1 .. Len(piece) |-> (t + j - 1) % c][i] = p]
                         ELSE ring[p]]

IsPut(new, ring, t, piece, c) ==
  /\ new \in [0 .. c - 1 -> Nat]
  /\ \A i \in 1 .. Len(piece) : new[Spot(t, i - 1, c)] = piece[i]
  /\ \A p \in 0 .. c - 1 : (\A i \in 1 .. Len(piece) : Spot(t, i - 1, c) # p) => new[p] = ring[p]

LEMMA PutIs ==
  ASSUME NEW c \in Nat \ {0}, NEW ring \in [0 .. c - 1 -> Nat], NEW t \in 0 .. c - 1, NEW piece \in Seq(Nat), Len(piece) < c
  PROVE  IsPut(Put(ring, t, piece, c), ring, t, piece, c)
<1> DEFINE n == Len(piece)
           at == [j \in 1 .. n |-> (t + j - 1) % c]
           new == Put(ring, t, piece, c)
<1>1. n \in Nat /\ n < c OBVIOUS
<1>2. \A i \in 1 .. n : at[i] = Spot(t, i - 1, c)
  <2> TAKE i \in 1 .. n
  <2>1. i - 1 \in 0 .. c - 1 /\ t + i - 1 = t + (i - 1) BY <1>1
  <2>2. (t + (i - 1)) % c = Spot(t, i - 1, c) BY <2>1, AtMod, Zenon
  <2> QED BY <2>1, <2>2
<1>3. new = [p \in 0 .. c - 1 |-> IF \E i \in 1 .. n : at[i] = p
                                  THEN piece[CHOOSE i \in 1 .. n : at[i] = p] ELSE ring[p]]
  BY DEF Put
<1>4. \A i \in 1 .. n : piece[i] \in Nat OBVIOUS
<1> HIDE DEF n, at, new
<1>5. ASSUME NEW i \in 1 .. n, NEW k \in 1 .. n, at[i] = at[k] PROVE i = k
  <2>1. i - 1 \in 0 .. c - 1 /\ k - 1 \in 0 .. c - 1 BY <1>1
  <2>2. Spot(t, i - 1, c) = Spot(t, k - 1, c) BY <1>2, <1>5
  <2>3. i - 1 = k - 1 BY <2>1, <2>2, AtIs
  <2> QED BY <2>3, <1>1
<1>6. ASSUME NEW p \in 0 .. c - 1 PROVE new[p] \in Nat
  <2>1. CASE \E i \in 1 .. n : at[i] = p
    <3>1. (CHOOSE i \in 1 .. n : at[i] = p) \in 1 .. n BY <2>1
    <3> QED BY <1>3, <1>4, <2>1, <3>1
  <2>2. CASE ~(\E i \in 1 .. n : at[i] = p) BY <1>3, <2>2
  <2> QED BY <2>1, <2>2
<1>7. new \in [0 .. c - 1 -> Nat] BY <1>3, <1>6
<1>8. ASSUME NEW i \in 1 .. n PROVE new[Spot(t, i - 1, c)] = piece[i]
  <2>1. i - 1 \in 0 .. c - 1 BY <1>1
  <2>2. Spot(t, i - 1, c) \in 0 .. c - 1 BY <2>1, AtIn, Zenon
  <2>3. at[i] = Spot(t, i - 1, c) BY <1>2
  <2>4. (CHOOSE k \in 1 .. n : at[k] = Spot(t, i - 1, c)) = i BY <1>5, <2>3
  <2> QED BY <1>3, <2>2, <2>3, <2>4
<1>9. ASSUME NEW p \in 0 .. c - 1, \A i \in 1 .. n : Spot(t, i - 1, c) # p PROVE new[p] = ring[p]
  BY <1>2, <1>3, <1>9
<1> QED BY <1>7, <1>8, <1>9 DEF n, new, IsPut

LEMMA WriteGives ==
  ASSUME NEW b, NEW c, Buffer(b, c), NEW piece \in Seq(Nat), Held(b) + Len(piece) + 1 <= Power[CapacityBits]
  PROVE  \E d : Wrote(write_data(b, piece), d, b, c, piece)
<1> DEFINE n == Len(piece)
           r == IF n > available_space(b) THEN resize_buffer(b, Held(b) + n + 1) ELSE b
           w == write_data(b, piece)
<1>1. n \in Nat /\ c \in Nat \ {0} /\ Held(b) \in 0 .. c - 1 /\ available_space(b) = c - 1 - Held(b)
  BY Measures
<1>2. PICK d : /\ Buffer(r, d) /\ d > Held(b) + n /\ Held(r) = Held(b) /\ SameStream(r, b)
               /\ \A j \in 0 .. Held(b) - 1 : Byte(r, d, j) = Byte(b, c, j)
  <2>1. CASE n > available_space(b)
    <3> DEFINE need == Held(b) + n + 1
               z == resize_buffer(b, need)
    <3>1. need \in Nat /\ Held(b) < need /\ need <= Power[CapacityBits] BY <1>1
    <3>2. r = z BY <2>1
    <3> HIDE DEF need, r
    <3>3. PICK d : /\ Buffer(z, d) /\ d >= need /\ Held(z) = Held(b) /\ SameStream(z, b)
                   /\ \A j \in 0 .. Held(b) - 1 : Byte(z, d, j) = Byte(b, c, j)
      BY <3>1, ResizeKeeps, Zenon
    <3>4. d \in Nat BY <3>3, PowersPositive DEF Buffer
    <3>5. d > Held(b) + n BY <1>1, <3>3, <3>4 DEF need
    <3> HIDE DEF z
    <3> QED BY <3>2, <3>3, <3>5
  <2>2. CASE ~(n > available_space(b))
    <3>1. r = b /\ c > Held(b) + n BY <1>1, <2>2
    <3>2. SameStream(b, b) BY DEF SameStream
    <3> HIDE DEF r, n
    <3> QED BY <3>1, <3>2
  <2> QED BY <2>1, <2>2
<1>3. w = [r EXCEPT !.ring = Put(r.ring, r.tail, piece, Cap(r)), !.tail = (@ + n) % Cap(r)]
  BY DEF write_data, Put
<1> HIDE DEF r, w
<1>4. /\ d \in Nat \ {0} /\ Cap(r) = d /\ r.tail = Spot(r.head, Held(b), d) /\ d \in Powers
      /\ r \in Flvs /\ r.ring \in [0 .. d - 1 -> Nat] /\ r.head \in 0 .. d - 1 /\ r.tail \in 0 .. d - 1
  BY <1>2, Measures DEF Buffer
<1> DEFINE ring == Put(r.ring, r.tail, piece, d)
           t == Spot(r.tail, n, d)
<1>5. n \in 0 .. d - 1 /\ Held(b) + n \in 0 .. d - 1 /\ Held(b) \in 0 .. d - 1 /\ n < d
  <2> DEFINE held == Held(b)
  <2>1. n \in Nat /\ held \in Nat
    <3>1. n \in Nat /\ c \in Nat \ {0} /\ held \in 0 .. c - 1 BY <1>1
    <3> QED BY ONLY <3>1
  <2>2. d \in Nat /\ d > held + n BY <1>2, <1>4
  <2> HIDE DEF held, n
  <2>3. n \in 0 .. d - 1 /\ held + n \in 0 .. d - 1 /\ held \in 0 .. d - 1 /\ n < d BY ONLY <2>1, <2>2
  <2> QED BY <2>3 DEF held
<1>6. /\ ring \in [0 .. d - 1 -> Nat]
      /\ \A i \in 1 .. n : ring[Spot(r.tail, i - 1, d)] = piece[i]
      /\ \A p \in 0 .. d - 1 : (\A i \in 1 .. n : Spot(r.tail, i - 1, d) # p) => ring[p] = r.ring[p]
  <2>1. IsPut(ring, r.ring, r.tail, piece, d) BY <1>4, <1>5, PutIs
  <2> HIDE DEF ring
  <2> QED BY <2>1 DEF IsPut
<1>7. (r.tail + n) % d = t /\ t \in 0 .. d - 1
  <2>1. (r.tail + n) % d = Spot(r.tail, n, d) BY <1>4, <1>5, AtMod, Zenon
  <2>2. Spot(r.tail, n, d) \in 0 .. d - 1 BY <1>4, <1>5, AtIn, Zenon
  <2> QED BY <2>1, <2>2
<1> HIDE DEF n
<1>8. w = [r EXCEPT !.ring = ring, !.head = r.head, !.tail = t]
  BY <1>3, <1>4, <1>7 DEF Flvs
<1>9. IsBuffer(w, r, d, ring, r.head, t)
  <2> HIDE DEF ring, t
  <2> QED BY <1>4, <1>6, <1>7, <1>8, BufferOf
<1>10. ASSUME NEW k \in 0 .. n, Held(b) + k < d PROVE Spot(r.tail, k, d) = Spot(r.head, Held(b) + k, d)
  <2>1. k \in 0 .. d - 1 BY <1>1, <1>4, <1>5
  <2>2. Spot(Spot(r.head, Held(b), d), k, d) = Spot(r.head, Held(b) + k, d)
    <3>1. d \in Nat \ {0} /\ r.head \in 0 .. d - 1 /\ Held(b) \in 0 .. d - 1 BY <1>4, <1>5
    <3>2. Held(b) + k < d BY <1>10
    <3> QED BY <2>1, <3>1, <3>2, AtSum
  <2> QED BY <1>4, <2>2
<1>11. t = Spot(r.head, Held(b) + n, d)
  <2>1. n \in 0 .. n /\ Held(b) + n < d BY <1>1, <1>2 DEF n
  <2> QED BY <1>10, <2>1
<1> HIDE DEF ring, t
<1>12. Buffer(w, d) /\ SameStream(w, r) /\ w.ring = ring /\ w.head = r.head /\ w.tail = t BY <1>9 DEF IsBuffer
<1>13. Held(w) = Held(b) + n
  <2>1. w.tail = Spot(w.head, Held(b) + n, d) BY <1>11, <1>12
  <2> QED BY <1>5, <1>12, <2>1, HeldOf
<1>14. ASSUME NEW j \in 0 .. Held(b) - 1 PROVE Byte(w, d, j) = Byte(b, c, j)
  <2>1. j \in 0 .. d - 1 BY <1>1, <1>4, <1>5
  <2>2. Spot(r.head, j, d) \in 0 .. d - 1 BY <1>4, <2>1, AtIn, Zenon
  <2>3. ASSUME NEW i \in 1 .. n PROVE Spot(r.tail, i - 1, d) # Spot(r.head, j, d)
    <3>1. i - 1 \in 0 .. n /\ Held(b) + (i - 1) < d /\ Held(b) + (i - 1) \in 0 .. d - 1 /\ Held(b) + (i - 1) # j
      <4>1. Held(b) \in Nat /\ n \in Nat /\ d \in Nat /\ Held(b) + n < d BY <1>1, <1>2, <1>4
      <4> QED BY <4>1, Behind, Zenon
    <3>2. Spot(r.tail, i - 1, d) = Spot(r.head, Held(b) + (i - 1), d) BY <1>10, <3>1
    <3> QED BY <1>4, <2>1, <3>1, <3>2, AtOne
  <2>4. ring[Spot(r.head, j, d)] = r.ring[Spot(r.head, j, d)] BY <1>6, <2>2, <2>3
  <2>5. Byte(r, d, j) = Byte(b, c, j) BY <1>2
  <2> QED BY <1>12, <2>4, <2>5 DEF Byte
<1>15. ASSUME NEW j \in 1 .. n PROVE Byte(w, d, Held(b) + j - 1) = piece[j]
  <2>1. j - 1 \in 0 .. n /\ Held(b) + (j - 1) < d /\ Held(b) + (j - 1) = Held(b) + j - 1
    <3>1. Held(b) \in Nat /\ n \in Nat /\ d \in Nat /\ Held(b) + n < d BY <1>1, <1>2, <1>4
    <3> QED BY <3>1, Behind, Zenon
  <2>2. Spot(r.tail, j - 1, d) = Spot(r.head, Held(b) + (j - 1), d) BY <1>10, <2>1
  <2>3. ring[Spot(r.tail, j - 1, d)] = piece[j] BY <1>6
  <2> QED BY <1>12, <2>1, <2>2, <2>3 DEF Byte
<1>16. SameStream(w, b) BY <1>2, <1>12 DEF SameStream
<1>17. Wrote(w, d, b, c, piece)
  BY <1>12, <1>13, <1>14, <1>15, <1>16 DEF Wrote, n
<1> QED BY <1>17 DEF w

(* The buffer holds exactly what was written and not taken                 *)
Reads(b, c) ==
  /\ Buffer(b, c) /\ b.taken <= b.written /\ b.written <= Len(b.stream) /\ Held(b) = b.written - b.taken
  /\ \A j \in 0 .. Held(b) - 1 : Byte(b, c, j) = b.stream[b.taken + j + 1]

LEMMA ReadsTypes ==
  ASSUME NEW b, NEW c, Reads(b, c)
  PROVE  /\ b.taken \in Nat /\ b.written \in Nat /\ b.stream \in Seq(Nat) /\ Len(b.stream) \in Nat /\ Held(b) \in Nat
         /\ c \in Nat \ {0} /\ Held(b) \in 0 .. c - 1 /\ b.head \in 0 .. c - 1 /\ Cap(b) = c
         /\ b.sizes \in [1 .. NumTags -> Nat] /\ b.parsed \in BOOLEAN /\ b.headed \in BOOLEAN
         /\ b.tags \in Seq([type : Nat, data : Seq(Nat)]) /\ Len(b.tags) \in Nat
<1>1. Buffer(b, c) /\ b \in Flvs BY DEF Reads, Buffer
<1>2. c \in Nat \ {0} /\ Held(b) \in 0 .. c - 1 /\ Cap(b) = c BY <1>1, Measures
<1>3. b.sizes \in [1 .. NumTags -> Nat]
  <2>1. TagSizes \subseteq Nat BY FlvLengths
  <2>2. b.sizes \in [1 .. NumTags -> TagSizes] BY <1>1 DEF Flvs
  <2> QED BY <2>1, <2>2
<1>4. b.taken \in Nat /\ b.written \in Nat /\ b.stream \in Seq(Nat) /\ b.parsed \in BOOLEAN /\ b.headed \in BOOLEAN
      /\ b.tags \in Seq([type : Nat, data : Seq(Nat)])
  BY <1>1 DEF Flvs
<1>5. b.head \in 0 .. c - 1 BY <1>1 DEF Buffer
<1>6. Len(b.stream) \in Nat /\ Len(b.tags) \in Nat BY <1>4
<1> QED BY <1>2, <1>3, <1>4, <1>5, <1>6

LEMMA ReadIs ==
  ASSUME NEW b, NEW c, Reads(b, c), NEW s \in Nat, NEW n \in Nat, s + n <= Held(b), NEW i \in 1 .. n
  PROVE  read_data(b, b.head + s, n)[i] = b.stream[b.taken + s + i]
<1>1. /\ b.taken \in Nat /\ Held(b) \in Nat /\ c \in Nat \ {0} /\ Held(b) \in 0 .. c - 1 /\ b.head \in 0 .. c - 1 /\ Cap(b) = c
  BY ReadsTypes
<1> DEFINE j == s + i - 1
<1>2. j \in 0 .. Held(b) - 1 /\ j \in 0 .. c - 1 /\ b.head + s + i - 1 = b.head + j /\ b.taken + j + 1 = b.taken + s + i
  BY <1>1
<1>3. read_data(b, b.head + s, n)[i] = b.ring[(b.head + s + i - 1) % Cap(b)] BY DEF read_data
<1> HIDE DEF j
<1>4. (b.head + j) % c = Spot(b.head, j, c) BY <1>1, <1>2, AtMod, Zenon
<1>5. Byte(b, c, j) = b.stream[b.taken + j + 1] BY <1>2 DEF Reads
<1> QED BY <1>1, <1>2, <1>3, <1>4, <1>5 DEF Byte

LEMMA ReadsSame ==
  ASSUME NEW b, NEW c, Reads(b, c), NEW g \in Flvs, g.ring = b.ring, g.head = b.head, g.tail = b.tail,
         g.stream = b.stream, g.taken = b.taken, g.written = b.written
  PROVE  Reads(g, c) /\ Held(g) = Held(b)
<1>1. Held(g) = Held(b) BY DEF Held, Cap
<1>2. Buffer(g, c) BY DEF Buffer, Reads
<1>3. \A j \in 0 .. Held(b) - 1 : Byte(g, c, j) = Byte(b, c, j) BY DEF Byte
<1> QED BY <1>1, <1>2, <1>3 DEF Reads

(* Taking n bytes out                                                      *)
Skipped(s, b, n) ==
  /\ s.stream = b.stream /\ s.sizes = b.sizes /\ s.headed = b.headed /\ s.written = b.written /\ s.taken = b.taken + n
  /\ s.parsed = b.parsed /\ s.tags = b.tags /\ s.before = b.before /\ Held(s) = Held(b) - n

LEMMA SkipReads ==
  ASSUME NEW b, NEW c, Reads(b, c), NEW n \in Nat, n <= Held(b)
  PROVE  Reads(Skip(b, n), c) /\ Skipped(Skip(b, n), b, n)
<1> DEFINE h == Spot(b.head, n, c)
           s == Skip(b, n)
           k == b.taken + n
<1>1. /\ b.taken \in Nat /\ b.written \in Nat /\ Held(b) \in Nat /\ c \in Nat \ {0} /\ Held(b) \in 0 .. c - 1
      /\ b.head \in 0 .. c - 1 /\ Cap(b) = c
  BY ReadsTypes
<1>2. n \in 0 .. c - 1 BY <1>1
<1>3. (b.head + n) % c = h /\ h \in 0 .. c - 1
  <2>1. (b.head + n) % c = Spot(b.head, n, c) BY <1>1, <1>2, AtMod, Zenon
  <2>2. Spot(b.head, n, c) \in 0 .. c - 1 BY <1>1, <1>2, AtIn, Zenon
  <2> QED BY <2>1, <2>2
<1>4. b \in Flvs /\ Buffer(b, c) BY DEF Reads, Buffer
<1>5. s = [b EXCEPT !.head = h, !.taken = k] BY <1>1, <1>3, <1>4 DEF Skip, Flvs
<1>6. h \in Nat /\ k \in Nat BY <1>1, <1>3
<1>0. b.tail = Spot(b.head, Held(b), c) BY <1>4, Measures
<1> HIDE DEF h, s, k
<1>7. s \in Flvs BY <1>4, <1>5, <1>6 DEF Flvs
<1>8. /\ s.stream = b.stream /\ s.sizes = b.sizes /\ s.headed = b.headed /\ s.written = b.written /\ s.taken = k
      /\ s.parsed = b.parsed /\ s.tags = b.tags /\ s.before = b.before /\ s.ring = b.ring /\ s.tail = b.tail /\ s.head = h
  BY <1>4, <1>5 DEF Flvs
<1>9. Buffer(s, c) BY <1>3, <1>4, <1>7, <1>8 DEF Buffer
<1>10. ASSUME NEW j \in 0 .. Held(b) - n PROVE Spot(h, j, c) = Spot(b.head, n + j, c)
  <2>1. j \in 0 .. c - 1 /\ n + j < c BY <1>1, <1>2
  <2>2. Spot(Spot(b.head, n, c), j, c) = Spot(b.head, n + j, c) BY <1>1, <1>2, <2>1, AtSum
  <2> QED BY <2>2 DEF h
<1>11. Held(s) = Held(b) - n
  <2>1. Held(b) - n \in 0 .. Held(b) - n /\ Held(b) - n \in 0 .. c - 1 /\ n + (Held(b) - n) = Held(b) BY <1>1
  <2>2. s.tail = Spot(s.head, Held(b) - n, c) BY <1>0, <1>8, <1>10, <2>1
  <2> QED BY <1>9, <2>1, <2>2, HeldOf
<1>12. ASSUME NEW j \in 0 .. Held(s) - 1 PROVE Byte(s, c, j) = s.stream[s.taken + j + 1]
  <2>1. j \in 0 .. Held(b) - n /\ n + j \in 0 .. Held(b) - 1 /\ b.taken + (n + j) + 1 = k + j + 1
    BY <1>1, <1>11 DEF k
  <2>2. Byte(b, c, n + j) = b.stream[b.taken + (n + j) + 1] BY <2>1 DEF Reads
  <2> QED BY <1>8, <1>10, <2>1, <2>2 DEF Byte
<1>13. k <= b.written /\ Held(s) = b.written - k BY <1>1, <1>11 DEF Reads, k
<1>14. Reads(s, c) BY <1>8, <1>9, <1>12, <1>13 DEF Reads
<1>15. Skipped(s, b, n) BY <1>8, <1>11 DEF Skipped, k
<1> QED BY <1>14, <1>15 DEF s

(* The tags that came out are the first ones of the stream                 *)
TagsAre(b) ==
  /\ Len(b.tags) <= NumTags
  /\ \A k \in 1 .. Len(b.tags) : b.tags[k] = [type |-> k, data |-> TagData(k, b.sizes[k])]
FlvStreams(b, c, off) == Reads(b, c) /\ Laid(b, off) /\ Len(b.stream) < Power[CapacityBits] /\ TagsAre(b)
(* Past the file header, the next tag starts at the head of the buffer     *)
AtTag(b, off) == b.taken = off[Len(b.tags) + 1]
Unopened(b) == b.taken = 0 /\ Len(b.tags) = 0
Opens(b, off) ==
  /\ b.parsed => AtTag(b, off)
  /\ ~b.parsed => Unopened(b) /\ b.written < TagHeaderLen /\ (b.headed => b.written = 0)
(* Between a write and the search for a tag                                *)
Pending(b, off) ==
  /\ b.parsed => AtTag(b, off)
  /\ ~b.parsed => Unopened(b) /\ (b.headed => b.written >= FlvHeaderLen + PreviousTagSizeLen)
  /\ b.before = Len(b.tags)
ComesOut(b) ==
  b.parsed /\ Len(b.tags) + 1 <= NumTags /\ Held(b) >= Total(b, Len(b.tags) + 1) => Len(b.tags) = b.before + 1

LEMMA LaidSame ==
  ASSUME NEW b, NEW off, Laid(b, off), NEW g, g.stream = b.stream, g.sizes = b.sizes, g.headed = b.headed
  PROVE  Laid(g, off)
BY DEF Laid, Total

LEMMA LengthsAre ==
  /\ FlvHeaderLen \in Nat /\ TagHeaderLen \in Nat /\ PreviousTagSizeLen \in Nat /\ NumTags \in Nat
  /\ FlvHeaderLen >= 1 /\ TagHeaderLen >= 2 /\ FlvHeaderLen < TagHeaderLen /\ PreviousTagSizeLen <= TagHeaderLen
  /\ TagHeaderLen < FlvHeaderLen + PreviousTagSizeLen
BY FlvLengths

LEMMA ParseGives ==
  ASSUME NEW b, NEW c, NEW off, FlvStreams(b, c, off), Pending(b, off), Held(b) >= TagHeaderLen, NEW p, p = parse_flv_header(b)
  PROVE  FlvStreams(p, c, off) /\ p.parsed /\ AtTag(p, off) /\ p.tags = b.tags /\ p.before = b.before
<1>1. Reads(b, c) /\ Laid(b, off) /\ Len(b.stream) < Power[CapacityBits] /\ TagsAre(b) BY DEF FlvStreams
<1>2. /\ b.taken \in Nat /\ b.written \in Nat /\ Held(b) \in Nat /\ b.parsed \in BOOLEAN /\ b.headed \in BOOLEAN
      /\ c \in Nat \ {0} /\ b.head \in 0 .. c - 1 /\ Cap(b) = c /\ b.stream \in Seq(Nat)
  BY <1>1, ReadsTypes
<1>3. CASE b.parsed
  <2>1. p = b BY <1>3 DEF parse_flv_header
  <2> QED BY <1>1, <1>3, <2>1 DEF Pending, FlvStreams
<1>4. CASE ~b.parsed
  <2> DEFINE g == [b EXCEPT !.parsed = TRUE]
             n == PreviousTagSizeLen + (IF b.ring[b.head] = Signature THEN FlvHeaderLen ELSE 0)
  <2>1. ~(Held(b) < FlvHeaderLen) BY <1>2, LengthsAre
  <2>2. p = Skip(g, n) BY <1>4, <2>1 DEF parse_flv_header
  <2>3. b.ring[b.head] = b.stream[1]
    <3>1. 0 \in 0 .. Held(b) - 1 BY <1>2, LengthsAre
    <3>2. Spot(b.head, 0, c) = b.head BY <1>2 DEF Spot
    <3>3. Byte(b, c, 0) = b.stream[b.taken + 0 + 1] BY <1>1, <3>1 DEF Reads
    <3>4. b.taken = 0 BY <1>4 DEF Pending, Unopened
    <3> QED BY <3>2, <3>3, <3>4 DEF Byte
  <2>4. n = off[1] /\ n \in Nat
    <3>1. b.headed <=> b.ring[b.head] = Signature BY <1>1, <2>3 DEF Laid
    <3>2. off[1] = (IF b.headed THEN FlvHeaderLen ELSE 0) + PreviousTagSizeLen BY <1>1 DEF Laid
    <3> QED BY <3>1, <3>2, LengthsAre
  <2>5. n <= Held(b)
    <3>1. off[1] = (IF b.headed THEN FlvHeaderLen ELSE 0) + PreviousTagSizeLen BY <1>1 DEF Laid
    <3>2. b.headed => Held(b) >= FlvHeaderLen + PreviousTagSizeLen
      BY <1>1, <1>2, <1>4 DEF Pending, Unopened, Reads
    <3> QED BY <1>2, <2>4, <3>1, <3>2, LengthsAre
  <2>6. b \in Flvs BY <1>1 DEF Reads, Buffer
  <2>7. g \in Flvs BY <2>6 DEF Flvs
  <2>8. /\ g.stream = b.stream /\ g.sizes = b.sizes /\ g.headed = b.headed /\ g.written = b.written /\ g.taken = b.taken
        /\ g.parsed = TRUE /\ g.tags = b.tags /\ g.before = b.before /\ g.ring = b.ring /\ g.tail = b.tail /\ g.head = b.head
    BY <2>6 DEF Flvs
  <2> HIDE DEF g, n
  <2>9. Reads(g, c) /\ Held(g) = Held(b) BY <1>1, <2>7, <2>8, ReadsSame
  <2>10. Reads(p, c) /\ Skipped(p, g, n) BY <2>2, <2>4, <2>5, <2>9, SkipReads
  <2>11. /\ p.stream = b.stream /\ p.sizes = b.sizes /\ p.headed = b.headed /\ p.taken = n
         /\ p.parsed = TRUE /\ p.tags = b.tags /\ p.before = b.before
    <3>1. b.taken = 0 BY <1>4 DEF Pending, Unopened
    <3> QED BY <2>4, <2>8, <2>10, <3>1 DEF Skipped
  <2>12. Laid(p, off) BY <1>1, <2>11, LaidSame
  <2>13. TagsAre(p) BY <1>1, <2>11 DEF TagsAre
  <2>14. AtTag(p, off)
    <3>1. Len(b.tags) = 0 BY <1>4 DEF Pending, Unopened
    <3> QED BY <2>4, <2>11, <3>1 DEF AtTag
  <2>15. Len(p.stream) < Power[CapacityBits] BY <1>1, <2>11
  <2> QED BY <2>10, <2>11, <2>12, <2>13, <2>14, <2>15 DEF FlvStreams
<1> QED BY <1>2, <1>3, <1>4

(* The tag that starts at the head of the buffer                           *)
LEMMA TagAtHead ==
  ASSUME NEW p, NEW c, NEW off, FlvStreams(p, c, off), AtTag(p, off), Held(p) >= 2,
         NEW k, k = Len(p.tags) + 1
  PROVE  /\ k \in 1 .. NumTags /\ p.ring[p.head] = k /\ read_data(p, p.head, TagHeaderLen)[2] = p.sizes[k]
         /\ p.sizes[k] \in Nat /\ off[k + 1] = p.taken + Total(p, k)
         /\ (Held(p) >= Total(p, k) => read_data(p, p.head + TagHeaderLen, p.sizes[k]) = TagData(k, p.sizes[k]))
<1>1. Reads(p, c) /\ Laid(p, off) /\ TagsAre(p) BY DEF FlvStreams
<1>2. /\ p.taken \in Nat /\ p.written \in Nat /\ Held(p) \in Nat /\ Len(p.tags) \in Nat
      /\ c \in Nat \ {0} /\ p.head \in 0 .. c - 1 /\ Cap(p) = c /\ p.stream \in Seq(Nat) /\ Len(p.stream) \in Nat
      /\ Held(p) \in 0 .. c - 1 /\ p.sizes \in [1 .. NumTags -> Nat]
  BY <1>1, ReadsTypes
<1>3. k \in 1 .. NumTags
  <2>1. k \in 1 .. NumTags + 1 BY <1>1, <1>2, LengthsAre DEF TagsAre
  <2>2. ASSUME k = NumTags + 1 PROVE FALSE
    <3>1. p.taken = Len(p.stream) BY <1>1, <2>2 DEF AtTag, Laid
    <3>2. Held(p) = p.written - p.taken /\ p.written <= Len(p.stream) BY <1>1 DEF Reads
    <3> QED BY <1>2, <3>1, <3>2
  <2> QED BY <2>1, <2>2, LengthsAre
<1>4. /\ p.taken = off[k] /\ off[k + 1] = off[k] + Total(p, k)
      /\ p.stream[off[k] + 1] = k /\ p.stream[off[k] + 2] = p.sizes[k]
      /\ \A j \in 1 .. p.sizes[k] : p.stream[off[k] + TagHeaderLen + j] = 10 * k + j
  BY <1>1, <1>3 DEF AtTag, Laid
<1>5. p.ring[p.head] = k
  <2>1. 0 \in 0 .. Held(p) - 1 BY <1>2
  <2>2. Spot(p.head, 0, c) = p.head BY <1>2 DEF Spot
  <2>3. Byte(p, c, 0) = p.stream[p.taken + 0 + 1] BY <1>1, <2>1 DEF Reads
  <2>4. p.taken + 0 + 1 = off[k] + 1 BY <1>2, <1>4
  <2> QED BY <1>4, <2>2, <2>3, <2>4 DEF Byte
<1>6. read_data(p, p.head, TagHeaderLen)[2] = p.sizes[k]
  <2>1. read_data(p, p.head, TagHeaderLen)[2] = p.ring[(p.head + 2 - 1) % Cap(p)]
    <3>1. 2 \in 1 .. TagHeaderLen BY LengthsAre
    <3> QED BY <3>1 DEF read_data
  <2>2. 1 \in 0 .. Held(p) - 1 /\ 1 \in 0 .. c - 1 /\ p.head + 2 - 1 = p.head + 1 BY <1>2
  <2>3. (p.head + 1) % c = Spot(p.head, 1, c) BY <1>2, <2>2, AtMod, Zenon
  <2>4. Byte(p, c, 1) = p.stream[p.taken + 1 + 1] BY <1>1, <2>2 DEF Reads
  <2>5. p.taken + 1 + 1 = off[k] + 2 BY <1>2, <1>4
  <2> QED BY <1>2, <1>4, <2>1, <2>2, <2>3, <2>4, <2>5 DEF Byte
<1>7. p.sizes[k] \in Nat BY <1>2, <1>3
<1>8. ASSUME Held(p) >= Total(p, k) PROVE read_data(p, p.head + TagHeaderLen, p.sizes[k]) = TagData(k, p.sizes[k])
  <2> DEFINE n == p.sizes[k]
             d == read_data(p, p.head + TagHeaderLen, n)
  <2>0. n \in Nat /\ Held(p) \in Nat /\ Held(p) >= TagHeaderLen + n + PreviousTagSizeLen BY <1>2, <1>7, <1>8 DEF Total
  <2> HIDE DEF n
  <2>1. TagHeaderLen + n <= Held(p) BY <2>0, LengthsAre
  <2> USE DEF n
  <2>2. \A i \in 1 .. n : d[i] = 10 * k + i
    <3> TAKE i \in 1 .. n
    <3>1. d[i] = p.stream[p.taken + TagHeaderLen + i] BY <1>1, <1>7, <2>1, ReadIs, LengthsAre
    <3> QED BY <1>4, <3>1
  <2>3. d = [i \in 1 .. n |-> d[i]] BY DEF read_data
  <2> HIDE DEF d
  <2>4. d = [i \in 1 .. n |-> 10 * k + i] BY <2>2, <2>3
  <2> QED BY <2>4 DEF TagData, d
<1>9. off[k + 1] = p.taken + Total(p, k) BY <1>4
<1> QED BY <1>3, <1>5, <1>6, <1>7, <1>8, <1>9

LEMMA TagDataType ==
  ASSUME NEW k \in Nat, NEW size \in Nat
  PROVE  TagData(k, size) \in Seq(Nat)
BY DEF TagData

(* Taking that tag out                                                     *)
TakeTag(p, k) == Skip([p EXCEPT !.tags = Append(@, [type |-> k, data |-> TagData(k, p.sizes[k])])], Total(p, k))

LEMMA TagTaken ==
  ASSUME NEW p, NEW c, NEW off, FlvStreams(p, c, off), AtTag(p, off), Held(p) >= 2, NEW k, k = Len(p.tags) + 1,
         Held(p) >= Total(p, k), NEW g, g = TakeTag(p, k)
  PROVE  FlvStreams(g, c, off) /\ AtTag(g, off) /\ g.parsed = p.parsed /\ Len(g.tags) = Len(p.tags) + 1 /\ g.before = p.before
<1> DEFINE tag == [type |-> k, data |-> TagData(k, p.sizes[k])]
           tags == Append(p.tags, tag)
           q == [p EXCEPT !.tags = tags]
<1>1. Reads(p, c) /\ Laid(p, off) /\ TagsAre(p) /\ Len(p.stream) < Power[CapacityBits] BY DEF FlvStreams
<1>2. Held(p) \in Nat /\ p.tags \in Seq([type : Nat, data : Seq(Nat)]) /\ Len(p.tags) \in Nat BY <1>1, ReadsTypes
<1>3. k \in 1 .. NumTags /\ p.sizes[k] \in Nat /\ off[k + 1] = p.taken + Total(p, k) BY TagAtHead
<1>4. tag \in [type : Nat, data : Seq(Nat)]
  <2>1. k \in Nat BY <1>3, LengthsAre
  <2>2. TagData(k, p.sizes[k]) \in Seq(Nat) BY <1>3, <2>1, TagDataType
  <2> HIDE DEF tag
  <2>3. tag = [type |-> k, data |-> TagData(k, p.sizes[k])] BY DEF tag
  <2> QED BY <2>1, <2>2, <2>3
<1>5. p \in Flvs BY <1>1 DEF Reads, Buffer
<1>6. g = Skip(q, Total(p, k)) BY <1>5 DEF Flvs, TakeTag
<1>7. tag = [type |-> k, data |-> TagData(k, p.sizes[k])] OBVIOUS
<1> HIDE DEF tag
<1>8. /\ tags \in Seq([type : Nat, data : Seq(Nat)]) /\ Len(tags) = k /\ tags[k] = tag
      /\ \A j \in 1 .. Len(p.tags) : tags[j] = p.tags[j]
  BY <1>2, <1>4
<1> HIDE DEF tags
<1>9. q \in Flvs BY <1>5, <1>8 DEF Flvs
<1>10. /\ q.stream = p.stream /\ q.sizes = p.sizes /\ q.headed = p.headed /\ q.written = p.written /\ q.taken = p.taken
       /\ q.parsed = p.parsed /\ q.tags = tags /\ q.before = p.before /\ q.ring = p.ring /\ q.tail = p.tail /\ q.head = p.head
  BY <1>5 DEF Flvs
<1> HIDE DEF q
<1>11. Reads(q, c) /\ Held(q) = Held(p) BY <1>1, <1>9, <1>10, ReadsSame
<1>12. Total(p, k) \in Nat BY <1>3, LengthsAre DEF Total
<1>13. Reads(g, c) /\ Skipped(g, q, Total(p, k)) BY <1>6, <1>11, <1>12, SkipReads
<1>14. /\ g.stream = p.stream /\ g.sizes = p.sizes /\ g.headed = p.headed /\ g.taken = p.taken + Total(p, k)
       /\ g.parsed = p.parsed /\ g.tags = tags /\ g.before = p.before
  BY <1>10, <1>13 DEF Skipped
<1>15. Laid(g, off) BY <1>1, <1>14, LaidSame
<1>16. TagsAre(g)
  <2>1. ASSUME NEW j \in 1 .. k PROVE tags[j] = [type |-> j, data |-> TagData(j, p.sizes[j])]
    <3>1. CASE j = k BY <1>7, <1>8, <3>1
    <3>2. CASE j # k
      <4>1. j \in 1 .. Len(p.tags) BY <1>2, <3>2
      <4> QED BY <1>1, <1>8, <4>1 DEF TagsAre
    <3> QED BY <3>1, <3>2
  <2>2. k <= NumTags BY <1>3, LengthsAre
  <2> QED BY <1>8, <1>14, <2>1, <2>2 DEF TagsAre
<1>17. AtTag(g, off) BY <1>3, <1>8, <1>14 DEF AtTag
<1>18. Len(g.stream) < Power[CapacityBits] BY <1>1, <1>14
<1> QED BY <1>8, <1>13, <1>14, <1>15, <1>16, <1>17, <1>18 DEF FlvStreams

(* A piece of the stream                                                   *)
LEMMA PieceIs ==
  ASSUME NEW s \in Seq(Nat), NEW a \in Nat, NEW n \in Nat, a + n <= Len(s)
  PROVE  /\ SubSeq(s, a + 1, a + n) \in Seq(Nat) /\ Len(SubSeq(s, a + 1, a + n)) = n
         /\ \A j \in 1 .. n : SubSeq(s, a + 1, a + n)[j] = s[a + j]
<1> DEFINE e == SubSeq(s, a + 1, a + n)
<1>1. e = [i \in 1 .. n |-> s[i + a]]
  <2>1. (a + n) - (a + 1) + 1 = n /\ \A i \in 1 .. n : i + (a + 1) - 1 = i + a OBVIOUS
  <2> QED BY <2>1
<1>2. \A i \in 1 .. n : i + a = a + i /\ i + a \in 1 .. Len(s) OBVIOUS
<1> HIDE DEF e
<1>3. e \in Seq(Nat) /\ Len(e) = n /\ \A j \in 1 .. n : e[j] = s[a + j] BY <1>1, <1>2
<1> QED BY <1>3 DEF e

LEMMA GetGives ==
  ASSUME NEW b, NEW c, NEW off, FlvStreams(b, c, off), Pending(b, off), NEW g, g = get_flv_tag(b)
  PROVE  FlvStreams(g, c, off) /\ Opens(g, off) /\ ComesOut(g)
<1> DEFINE p == parse_flv_header(b)
           k == Len(p.tags) + 1
           size == read_data(p, p.head, TagHeaderLen)[2]
           total == TagHeaderLen + size + PreviousTagSizeLen
           t == [type |-> p.ring[p.head], data |-> read_data(p, p.head + TagHeaderLen, size)]
           s == Skip([p EXCEPT !.tags = Append(@, t)], total)
<1>0. /\ Held(b) \in Nat /\ Len(b.tags) \in Nat /\ b.sizes \in [1 .. NumTags -> Nat] /\ b.parsed \in BOOLEAN
      /\ b.taken \in Nat /\ b.written \in Nat /\ Held(b) = b.written - b.taken
  BY ReadsTypes DEF FlvStreams, Reads
<1>1. g = IF Held(b) < TagHeaderLen THEN b ELSE IF Held(p) < total THEN p ELSE s
  BY DEF get_flv_tag
<1> HIDE DEF p, s
<1>2. CASE Held(b) < TagHeaderLen
  <2>1. g = b BY <1>1, <1>2
  <2>2. Opens(b, off)
    <3>1. CASE b.parsed BY <3>1 DEF Pending, Opens
    <3>2. CASE ~b.parsed
      <4>1. b.taken = 0 /\ Unopened(b) /\ (b.headed => b.written >= FlvHeaderLen + PreviousTagSizeLen)
        BY <3>2 DEF Pending, Unopened
      <4>2. b.written < TagHeaderLen BY <1>0, <1>2, <4>1
      <4>3. ~b.headed BY <1>0, <4>1, <4>2, LengthsAre
      <4> QED BY <3>2, <4>1, <4>2, <4>3 DEF Opens
    <3> QED BY <3>1, <3>2
  <2>3. ComesOut(b)
    <3> SUFFICES ASSUME Len(b.tags) + 1 <= NumTags, Held(b) >= Total(b, Len(b.tags) + 1) PROVE FALSE BY DEF ComesOut
    <3> DEFINE m == b.sizes[Len(b.tags) + 1]
    <3>1. m \in Nat BY <1>0, LengthsAre
    <3>2. Held(b) >= TagHeaderLen + m + PreviousTagSizeLen BY DEF Total
    <3> HIDE DEF m
    <3> QED BY <1>0, <1>2, <3>1, <3>2, LengthsAre
  <2> QED BY <2>1, <2>2, <2>3
<1>3. CASE ~(Held(b) < TagHeaderLen)
  <2>1. Held(b) >= TagHeaderLen BY <1>0, <1>3, LengthsAre
  <2>2. FlvStreams(p, c, off) /\ p.parsed /\ AtTag(p, off) /\ p.tags = b.tags /\ p.before = b.before
    BY <2>1, ParseGives DEF p
  <2>3. Reads(p, c) BY <2>2 DEF FlvStreams
  <2>4. /\ Held(p) \in Nat /\ Len(p.tags) \in Nat /\ p.sizes \in [1 .. NumTags -> Nat]
        /\ c \in Nat \ {0} /\ p.head \in 0 .. c - 1 /\ Cap(p) = c
    BY <2>3, ReadsTypes
  <2>5. p.before = Len(p.tags) BY <2>2 DEF Pending
  <2>6. CASE Held(p) < total
    <3>1. g = p BY <1>1, <1>3, <2>6
    <3>2. Opens(p, off) BY <2>2 DEF Opens
    <3>3. ComesOut(p)
      <4> SUFFICES ASSUME k <= NumTags, Held(p) >= Total(p, k) PROVE FALSE BY DEF ComesOut
      <4> DEFINE m == p.sizes[k]
      <4>1. m \in Nat BY <2>4, LengthsAre
      <4>2. Total(p, k) = TagHeaderLen + m + PreviousTagSizeLen BY DEF Total
      <4> HIDE DEF m, size, k
      <4>3. Held(p) >= 2 BY <2>4, <4>1, <4>2, LengthsAre
      <4>4. size = m BY <2>2, <4>3, TagAtHead DEF m, size, k
      <4> QED BY <2>4, <2>6, <4>1, <4>2, <4>4, LengthsAre
    <3> QED BY <2>2, <3>1, <3>2, <3>3
  <2>7. CASE ~(Held(p) < total)
    <3>1. size \in Nat
      <4>1. p.ring \in [0 .. c - 1 -> Nat] BY <2>3 DEF Reads, Buffer
      <4>2. 2 \in 1 .. TagHeaderLen BY LengthsAre
      <4>3. size = p.ring[(p.head + 2 - 1) % c] BY <2>4, <4>2 DEF read_data
      <4> DEFINE a == p.head + 2 - 1
      <4>4. a \in Int /\ 0 <= a /\ a < 2 * c /\ a - c <= c - 1 BY <2>4
      <4> HIDE DEF a, size
      <4>5. a % c = IF a < c THEN a ELSE a - c BY <2>4, <4>4, ModIs
      <4>6. a % c \in 0 .. c - 1 BY <2>4, <4>4, <4>5
      <4> QED BY <4>1, <4>3, <4>6 DEF a
    <3>2. Held(p) >= total /\ Held(p) >= 2
      <4> HIDE DEF size
      <4> QED BY <2>4, <2>7, <3>1, LengthsAre
    <3>3. size = p.sizes[k] /\ p.ring[p.head] = k BY <2>2, <3>2, TagAtHead
    <3>4. total = Total(p, k) BY <3>3 DEF Total
    <3>5. read_data(p, p.head + TagHeaderLen, p.sizes[k]) = TagData(k, p.sizes[k])
      BY <2>2, <3>2, <3>4, TagAtHead
    <3>6. t = [type |-> k, data |-> TagData(k, p.sizes[k])] BY <3>3, <3>5
    <3>7. g = TakeTag(p, k)
      BY <1>1, <1>3, <2>7, <3>4, <3>6 DEF s, TakeTag
    <3>8. Held(p) >= Total(p, k) BY <3>2, <3>4
    <3> HIDE DEF size, t, total
    <3>9. FlvStreams(g, c, off) /\ AtTag(g, off) /\ g.parsed = p.parsed /\ Len(g.tags) = Len(p.tags) + 1 /\ g.before = p.before
      <4>1. Held(p) >= 2 BY <3>2
      <4> HIDE DEF k
      <4>2. k = Len(p.tags) + 1 BY DEF k
      <4>3. FlvStreams(p, c, off) /\ AtTag(p, off) BY <2>2
      <4> QED BY <3>7, <3>8, <4>1, <4>2, <4>3, TagTaken
    <3>10. Opens(g, off) /\ ComesOut(g) BY <2>2, <2>5, <3>9 DEF Opens, ComesOut
    <3> QED BY <3>9, <3>10
  <2> QED BY <2>6, <2>7
<1> QED BY <1>2, <1>3

(* What holds between calls                                                *)
FInv(b) == \E c, off : FlvStreams(b, c, off) /\ Opens(b, off) /\ ComesOut(b)

LEMMA FlvInitInv ==
  ASSUME FlvInit
  PROVE  FInv(flv)
<1>1. flv \in NewFlvs BY DEF FlvInit
<1>2. flv \in Flvs BY <1>1, NewLaid
<1>3. PICK off : Laid(flv, off) BY <1>1, NewLaid
<1>4. Len(flv.stream) < Power[CapacityBits] BY <1>1, FlvFits
<1>5. PICK headed \in BOOLEAN, sizes \in [1 .. NumTags -> TagSizes] : flv = NewFlv(headed, sizes)
  BY <1>1 DEF NewFlvs
<1> DEFINE c == InitialCapacity
<1>6. /\ flv.written = 0 /\ flv.taken = 0 /\ flv.head = 0 /\ flv.tail = 0 /\ flv.parsed = FALSE /\ flv.tags = << >>
      /\ flv.ring = [i \in 0 .. c - 1 |-> 0]
  BY <1>5 DEF NewFlv
<1>7. c \in Powers BY FlvLengths
<1>8. c \in Nat \ {0} BY <1>7, PowersPositive
<1> HIDE DEF c
<1>9. flv.ring \in [0 .. c - 1 -> Nat] BY <1>6
<1>10. Buffer(flv, c) BY <1>2, <1>6, <1>7, <1>8, <1>9 DEF Buffer
<1>11. Held(flv) = 0
  <2>1. flv.tail = Spot(flv.head, 0, c) /\ 0 \in 0 .. c - 1 BY <1>6, <1>8 DEF Spot
  <2> QED BY <1>10, <2>1, HeldOf
<1>12. Len(flv.stream) \in Nat
  <2>1. flv.stream \in Seq(Nat) BY <1>2 DEF Flvs
  <2> QED BY <2>1
<1>13. Reads(flv, c) BY <1>6, <1>10, <1>11, <1>12 DEF Reads
<1>14. TagsAre(flv) BY <1>6, LengthsAre DEF TagsAre
<1>15. Opens(flv, off) /\ ComesOut(flv) BY <1>6, LengthsAre DEF Opens, ComesOut, Unopened
<1> QED BY <1>3, <1>4, <1>13, <1>14, <1>15 DEF FInv, FlvStreams

LEMMA WriteStep ==
  ASSUME FInv(flv), NEW n \in 1 .. MaxPiece, WritePiece(n)
  PROVE  FInv(flv')
<1>1. PICK c, off : FlvStreams(flv, c, off) /\ Opens(flv, off) /\ ComesOut(flv) BY DEF FInv
<1> DEFINE b == flv
           piece == SubSeq(b.stream, b.written + 1, b.written + n)
           w == write_data(b, piece)
           v == b.written + n
           m == Len(b.tags)
           g == [w EXCEPT !.written = v, !.before = m]
<1>2. /\ b.written + n <= Len(b.stream) /\ (b.written = 0 /\ b.headed => n >= FlvHeaderLen + PreviousTagSizeLen)
      /\ flv' = get_flv_tag([w EXCEPT !.written = @ + n, !.before = Len(b.tags)])
  BY DEF WritePiece
<1>3. n \in Nat /\ n >= 1 BY FlvLengths
<1>4. Reads(b, c) /\ Laid(b, off) /\ Len(b.stream) < Power[CapacityBits] /\ TagsAre(b) BY <1>1 DEF FlvStreams
<1>5. /\ b.taken \in Nat /\ b.written \in Nat /\ b.stream \in Seq(Nat) /\ Len(b.stream) \in Nat /\ Held(b) \in Nat
      /\ b.parsed \in BOOLEAN /\ b.headed \in BOOLEAN /\ Len(b.tags) \in Nat
      /\ Buffer(b, c) /\ b.taken <= b.written /\ Held(b) = b.written - b.taken
  BY <1>4, ReadsTypes DEF Reads
<1> HIDE DEF b
<1>6. piece \in Seq(Nat) /\ Len(piece) = n /\ \A j \in 1 .. n : piece[j] = b.stream[b.written + j]
  BY <1>2, <1>3, <1>5, PieceIs
<1> HIDE DEF piece
<1>7. Held(b) + Len(piece) + 1 <= Power[CapacityBits]
  <2>1. Power[CapacityBits] \in Nat
    <3>1. CapacityBits \in 0 .. CapacityBits BY PowerIs
    <3> QED BY <3>1, PowersPositive DEF Powers
  <2>2. Held(b) <= b.written BY <1>5
  <2>3. Held(b) + n + 1 <= Power[CapacityBits]
    <3> DEFINE l == Len(b.stream)
               o == Power[CapacityBits]
               h == Held(b)
               x == b.written
    <3>1. l \in Nat /\ o \in Nat /\ h \in Nat /\ x \in Nat /\ n \in Nat /\ h <= x /\ x + n <= l /\ l < o
      BY <1>2, <1>3, <1>4, <1>5, <2>1, <2>2
    <3> HIDE DEF l, o, h, x
    <3>2. h + n + 1 <= o BY ONLY <3>1
    <3> QED BY <3>2 DEF h, o
  <2> QED BY <1>6, <2>3
<1>8. PICK d : Wrote(w, d, b, c, piece) BY <1>5, <1>6, <1>7, WriteGives
<1>9. w \in Flvs BY <1>8 DEF Wrote, Buffer
<1>10. w.written = b.written BY <1>8 DEF Wrote, SameStream
<1>11. flv' = get_flv_tag(g) BY <1>2, <1>9, <1>10 DEF Flvs
<1>12. v \in Nat /\ m \in Nat BY <1>3, <1>5
<1> HIDE DEF w, v, m
<1>13. g \in Flvs BY <1>9, <1>12 DEF Flvs
<1>14. /\ g.stream = w.stream /\ g.sizes = w.sizes /\ g.headed = w.headed /\ g.written = v /\ g.taken = w.taken
       /\ g.parsed = w.parsed /\ g.tags = w.tags /\ g.before = m /\ g.ring = w.ring /\ g.tail = w.tail /\ g.head = w.head
  BY <1>9 DEF Flvs
<1> HIDE DEF g
<1>15. /\ g.stream = b.stream /\ g.sizes = b.sizes /\ g.headed = b.headed /\ g.taken = b.taken /\ g.parsed = b.parsed
       /\ g.tags = b.tags
  BY <1>8, <1>14 DEF Wrote, SameStream
<1>16. Held(g) = Held(b) + n
  <2>1. Held(g) = Held(w) BY <1>14 DEF Held, Cap
  <2> QED BY <1>6, <1>8, <2>1 DEF Wrote
<1>17. Buffer(g, d) BY <1>8, <1>13, <1>14 DEF Wrote, Buffer
<1>18. ASSUME NEW j \in 0 .. Held(g) - 1 PROVE Byte(g, d, j) = g.stream[g.taken + j + 1]
  <2>1. Byte(g, d, j) = Byte(w, d, j) BY <1>14 DEF Byte
  <2>2. CASE j < Held(b)
    <3>1. j \in 0 .. Held(b) - 1 BY <1>3, <1>5, <1>16, <2>2
    <3>2. Byte(w, d, j) = Byte(b, c, j) BY <1>8, <3>1 DEF Wrote
    <3>3. Byte(b, c, j) = b.stream[b.taken + j + 1] BY <1>4, <3>1 DEF Reads
    <3> QED BY <1>15, <2>1, <3>2, <3>3
  <2>3. CASE ~(j < Held(b))
    <3> DEFINE i == j - Held(b) + 1
    <3>1. i \in 1 .. n /\ Held(b) + i - 1 = j /\ b.written + i = b.taken + j + 1
      <4>1. j \in Nat /\ Held(b) \in Nat /\ n \in Nat /\ j < Held(b) + n /\ j >= Held(b) BY <1>3, <1>5, <1>16, <2>3
      <4>2. b.written = b.taken + Held(b) /\ b.taken \in Nat BY <1>5
      <4> QED BY <4>1, <4>2
    <3> HIDE DEF i
    <3>2. Byte(w, d, Held(b) + i - 1) = piece[i] BY <1>6, <1>8, <3>1 DEF Wrote
    <3>3. piece[i] = b.stream[b.written + i] BY <1>6, <3>1
    <3> QED BY <1>15, <2>1, <3>1, <3>2, <3>3
  <2> QED BY <2>2, <2>3
<1>19. g.taken <= g.written /\ g.written <= Len(g.stream) /\ Held(g) = g.written - g.taken
  BY <1>2, <1>3, <1>5, <1>14, <1>15, <1>16 DEF v
<1>20. Reads(g, d) BY <1>17, <1>18, <1>19 DEF Reads
<1>21. FlvStreams(g, d, off)
  <2>1. Laid(g, off) BY <1>4, <1>15, LaidSame
  <2>2. TagsAre(g) BY <1>4, <1>15 DEF TagsAre
  <2>3. Len(g.stream) < Power[CapacityBits] BY <1>4, <1>15
  <2> QED BY <1>20, <2>1, <2>2, <2>3 DEF FlvStreams
<1>22. Pending(g, off)
  <2>0. Opens(b, off) BY <1>1 DEF b
  <2>1. g.before = Len(g.tags) BY <1>14, <1>15 DEF m
  <2>2. g.parsed => AtTag(g, off) BY <1>15, <2>0 DEF Opens, AtTag
  <2>3. ASSUME ~g.parsed PROVE Unopened(g) /\ (g.headed => g.written >= FlvHeaderLen + PreviousTagSizeLen)
    <3>1. ~b.parsed BY <1>15, <2>3
    <3>2. Unopened(b) /\ (b.headed => b.written = 0) BY <2>0, <3>1 DEF Opens
    <3>3. Unopened(g) BY <1>15, <3>2 DEF Unopened
    <3>4. g.headed => g.written >= FlvHeaderLen + PreviousTagSizeLen
      <4> SUFFICES ASSUME g.headed PROVE g.written >= FlvHeaderLen + PreviousTagSizeLen OBVIOUS
      <4>1. b.headed BY <1>15
      <4>2. b.written = 0 BY <3>2, <4>1
      <4>3. n >= FlvHeaderLen + PreviousTagSizeLen BY <1>2, <4>1, <4>2
      <4>4. g.written = n BY <1>3, <1>14, <4>2 DEF v
      <4> QED BY <4>3, <4>4
    <3> QED BY <3>3, <3>4
  <2> QED BY <2>1, <2>2, <2>3 DEF Pending
<1>23. FlvStreams(flv', d, off) /\ Opens(flv', off) /\ ComesOut(flv') BY <1>11, <1>21, <1>22, GetGives
<1> QED BY <1>23 DEF FInv

LEMMA FlvIs ==
  ASSUME FInv(flv)
  PROVE  TagsInOrder
<1>1. PICK c, off : FlvStreams(flv, c, off) /\ Opens(flv, off) /\ ComesOut(flv) BY DEF FInv
<1> DEFINE b == flv
<1>2. Reads(b, c) /\ TagsAre(b) /\ ComesOut(b) BY <1>1 DEF FlvStreams
<1>3. /\ b.taken \in Nat /\ b.written \in Nat /\ b.stream \in Seq(Nat) /\ Len(b.stream) \in Nat /\ Held(b) \in Nat
      /\ b.head \in Nat /\ b.taken <= b.written /\ b.written <= Len(b.stream) /\ Held(b) = b.written - b.taken
      /\ Buffer(b, c) /\ b.tags \in Seq([type : Nat, data : Seq(Nat)])
  BY <1>2, ReadsTypes DEF Reads
<1>4. TagComesOut BY <1>2 DEF ComesOut, TagComesOut, Total
<1> HIDE DEF b
<1>5. Cap(b) \in Powers BY <1>3, Measures DEF Buffer
<1>6. read_data(b, b.head, Held(b)) = SubSeq(b.stream, b.taken + 1, b.written)
  <2> DEFINE d == read_data(b, b.head, Held(b))
             e == SubSeq(b.stream, b.taken + 1, b.written)
  <2>1. \A i \in 1 .. Held(b) : d[i] = b.stream[b.taken + i]
    <3> TAKE i \in 1 .. Held(b)
    <3>1. read_data(b, b.head + 0, Held(b))[i] = b.stream[b.taken + 0 + i]
      <4>1. 0 + Held(b) <= Held(b) /\ 0 \in Nat BY <1>3
      <4> QED BY <1>2, <1>3, <4>1, ReadIs
    <3>2. b.head + 0 = b.head /\ b.taken + 0 + i = b.taken + i BY <1>3
    <3> QED BY <3>1, <3>2
  <2>2. e = [i \in 1 .. Held(b) |-> b.stream[b.taken + i]]
    <3>1. e \in Seq(Nat) /\ Len(e) = Held(b) /\ \A i \in 1 .. Held(b) : e[i] = b.stream[b.taken + i]
      <4>1. b.written = b.taken + Held(b) /\ b.taken + Held(b) <= Len(b.stream) BY <1>3
      <4> DEFINE f == SubSeq(b.stream, b.taken + 1, b.taken + Held(b))
      <4>2. f \in Seq(Nat) /\ Len(f) = Held(b) /\ \A i \in 1 .. Held(b) : f[i] = b.stream[b.taken + i]
        BY <1>3, <4>1, PieceIs
      <4>3. e = f BY <4>1
      <4> HIDE DEF e, f
      <4> QED BY <4>2, <4>3
    <3> HIDE DEF e
    <3> QED BY <3>1
  <2>3. d = [i \in 1 .. Held(b) |-> d[i]] BY DEF read_data
  <2> HIDE DEF d, e
  <2>4. d = e BY <2>1, <2>2, <2>3
  <2> QED BY <2>4 DEF d, e
<1>7. b.tags = [n \in DOMAIN b.tags |-> [type |-> n, data |-> TagData(n, b.sizes[n])]]
  <2>1. DOMAIN b.tags = 1 .. Len(b.tags) /\ b.tags = [n \in DOMAIN b.tags |-> b.tags[n]] BY <1>3
  <2>2. \A n \in DOMAIN b.tags : b.tags[n] = [type |-> n, data |-> TagData(n, b.sizes[n])] BY <1>2, <2>1 DEF TagsAre
  <2> QED BY <2>1, <2>2
<1>8. RingHolds BY <1>5, <1>6, <1>7 DEF RingHolds, b
<1> QED BY <1>4, <1>8 DEF TagsInOrder

(* FlvBuffer: however the muxer's bytes are cut into pieces, wherever they *)
(* wrap around the end of the ring and however often it grows, what is     *)
(* between head and tail is what was written and not taken, the tags come  *)
(* out whole and in order, and a call that finds a whole tag takes it; for *)
(* every number of tags and every size of tag, piece and initial buffer.   *)
THEOREM TagsInOrderAlways == FlvSpec => []TagsInOrder
<1>1. FlvInit => FInv(flv) BY FlvInitInv
<1>2. FInv(flv) /\ [FlvNext]_flv => FInv(flv)'
  <2> SUFFICES ASSUME FInv(flv), [FlvNext]_flv PROVE FInv(flv') BY DEF FInv, FlvStreams, Reads, Opens, ComesOut, Buffer, Held, Cap, Byte, Laid, Total, TagsAre, AtTag, Unopened
  <2>1. CASE FlvNext BY <2>1, WriteStep DEF FlvNext
  <2>2. CASE UNCHANGED flv BY <2>2
  <2> QED BY <2>1, <2>2
<1>3. FInv(flv) => TagsInOrder BY FlvIs
<1> QED BY <1>1, <1>2, <1>3, PTL DEF FlvSpec

-----------------------------------------------------------------------------
(* AudioQueue: the samples that an encoder takes in frames of its own size *)
(* The samples after a up to b                                             *)
Span(a, b) == [j \in 1 .. b - a |-> a + j]

LEMMA SpanIs ==
  ASSUME NEW a \in Nat, NEW b \in Nat, a <= b
  PROVE  /\ Span(a, b) \in Seq(Nat) /\ Len(Span(a, b)) = b - a /\ (Span(a, b) = << >> <=> a = b)
         /\ \A j \in 1 .. b - a : Span(a, b)[j] = a + j
<1>1. Span(a, b) \in Seq(Nat) /\ Len(Span(a, b)) = b - a /\ \A j \in 1 .. b - a : Span(a, b)[j] = a + j
  BY DEF Span
<1>2. Span(a, b) = << >> <=> Len(Span(a, b)) = 0 BY <1>1
<1> QED BY <1>1, <1>2

LEMMA SpanEmpty ==
  ASSUME NEW a \in Nat
  PROVE  Span(a, a) = << >>
BY SpanIs

LEMMA SpanNone ==
  ASSUME NEW a \in Nat, NEW b \in Nat, a <= b
  PROVE  Span(a, b) = << >> <=> a = b
BY SpanIs

LEMMA SpanLen ==
  ASSUME NEW a \in Nat, NEW b \in Nat, a <= b
  PROVE  Span(a, b) \in Seq(Nat) /\ Len(Span(a, b)) = b - a
BY SpanIs

LEMMA SpanJoin ==
  ASSUME NEW a \in Nat, NEW b \in Nat, NEW c \in Nat, a <= b, b <= c
  PROVE  Span(a, b) \o Span(b, c) = Span(a, c)
<1> DEFINE p == Span(a, b)
           q == Span(b, c)
           t == p \o q
           e == Span(a, c)
<1>1. p \in Seq(Nat) /\ Len(p) = b - a /\ \A j \in 1 .. b - a : p[j] = a + j BY SpanIs
<1>2. q \in Seq(Nat) /\ Len(q) = c - b /\ \A j \in 1 .. c - b : q[j] = b + j BY SpanIs
<1>3. e \in Seq(Nat) /\ Len(e) = c - a /\ \A j \in 1 .. c - a : e[j] = a + j
  <2>1. a <= c OBVIOUS
  <2> QED BY <2>1, SpanIs
<1> HIDE DEF p, q, e
<1>4. IsJoin(t, p, q) BY <1>1, <1>2, ConcatNat
<1> HIDE DEF t
<1>5. t \in Seq(Nat) /\ Len(t) = c - a BY <1>1, <1>2, <1>4 DEF IsJoin
<1>6. ASSUME NEW j \in 1 .. c - a PROVE t[j] = e[j]
  <2>1. CASE j <= b - a
    <3>1. j \in 1 .. Len(p) /\ j \in 1 .. b - a BY <1>1, <2>1
    <3> QED BY <1>1, <1>3, <1>4, <3>1 DEF IsJoin
  <2>2. CASE ~(j <= b - a)
    <3> DEFINE i == j - (b - a)
    <3>1. i \in 1 .. c - b /\ Len(p) + i = j /\ b + i = a + j BY <1>1, <2>2
    <3> HIDE DEF i
    <3>2. i \in 1 .. Len(q) BY <1>2, <3>1
    <3>3. t[Len(p) + i] = q[i] BY <1>4, <3>2 DEF IsJoin
    <3>4. q[i] = b + i BY <1>2, <3>1
    <3> QED BY <1>3, <3>1, <3>3, <3>4
  <2> QED BY <2>1, <2>2
<1>7. t = e BY <1>3, <1>5, <1>6
<1> QED BY <1>7 DEF t, p, q, e

LEMMA SpanCut ==
  ASSUME NEW a \in Nat, NEW b \in Nat, NEW n \in Nat, a + n <= b
  PROVE  /\ SubSeq(Span(a, b), 1, n) = Span(a, a + n)
         /\ SubSeq(Span(a, b), n + 1, Len(Span(a, b))) = Span(a + n, b)
<1> DEFINE s == Span(a, b)
<1>1. s \in Seq(Nat) /\ Len(s) = b - a /\ \A j \in 1 .. b - a : s[j] = a + j
  <2>1. a <= b OBVIOUS
  <2> QED BY <2>1, SpanIs
<1> HIDE DEF s
<1>2. SubSeq(s, 1, n) = Span(a, a + n)
  <2> DEFINE e == SubSeq(s, 0 + 1, 0 + n)
             f == Span(a, a + n)
  <2>1. e \in Seq(Nat) /\ Len(e) = n /\ \A j \in 1 .. n : e[j] = s[0 + j]
    <3>1. 0 + n <= Len(s) /\ 0 \in Nat BY <1>1
    <3> QED BY <1>1, <3>1, PieceIs
  <2>2. f \in Seq(Nat) /\ Len(f) = n /\ \A j \in 1 .. n : f[j] = a + j
    <3>1. a <= a + n /\ a + n \in Nat /\ (a + n) - a = n OBVIOUS
    <3> QED BY <3>1, SpanIs
  <2> HIDE DEF e, f
  <2>3. \A j \in 1 .. n : e[j] = f[j]
    <3> TAKE j \in 1 .. n
    <3>1. 0 + j = j /\ j \in 1 .. b - a BY <1>1
    <3> QED BY <1>1, <2>1, <2>2, <3>1
  <2>4. e = f BY <2>1, <2>2, <2>3
  <2>5. e = SubSeq(s, 1, n) BY DEF e
  <2> QED BY <2>4, <2>5 DEF f
<1>3. SubSeq(s, n + 1, Len(s)) = Span(a + n, b)
  <2> DEFINE m == b - (a + n)
             e == SubSeq(s, n + 1, n + m)
             f == Span(a + n, b)
  <2>0. m \in Nat /\ n + m = Len(s) BY <1>1
  <2>1. e \in Seq(Nat) /\ Len(e) = m /\ \A j \in 1 .. m : e[j] = s[n + j]
    <3> HIDE DEF m
    <3>1. n + m <= Len(s) BY <1>1, <2>0
    <3> QED BY <1>1, <2>0, <3>1, PieceIs
  <2>2. f \in Seq(Nat) /\ Len(f) = m /\ \A j \in 1 .. m : f[j] = a + n + j
    <3>1. a + n \in Nat OBVIOUS
    <3> QED BY <3>1, SpanIs
  <2> HIDE DEF e, f
  <2>3. \A j \in 1 .. m : e[j] = f[j]
    <3> TAKE j \in 1 .. m
    <3>1. n + j \in 1 .. b - a /\ a + (n + j) = a + n + j BY <1>1
    <3> QED BY <1>1, <2>1, <2>2, <3>1
  <2> HIDE DEF m
  <2>4. e = f BY <2>1, <2>2, <2>3
  <2>5. e = SubSeq(s, n + 1, Len(s)) BY <2>0 DEF e
  <2> QED BY <2>4, <2>5 DEF f
<1> QED BY <1>2, <1>3 DEF s

LEMMA SpanFront ==
  ASSUME NEW a \in Nat, NEW b \in Nat, NEW n \in Nat, a + n <= b
  PROVE  SubSeq(Span(a, b), 1, n) = Span(a, a + n)
BY SpanCut

LEMMA SpanBack ==
  ASSUME NEW a \in Nat, NEW b \in Nat, NEW n \in Nat, a + n <= b
  PROVE  SubSeq(Span(a, b), n + 1, Len(Span(a, b))) = Span(a + n, b)
BY SpanCut

(* Frames that hold the samples in order; frame k ends with sample off[k+1]*)
Runs(q, off) ==
  /\ q \in Seq(Seq(Nat)) /\ Len(q) \in Nat /\ off \in [1 .. Len(q) + 1 -> Nat]
  /\ \A k \in 1 .. Len(q) : off[k] <= off[k + 1] /\ q[k] = Span(off[k], off[k + 1])

LEMMA RunsJoin ==
  ASSUME NEW q, NEW off, Runs(q, off)
  PROVE  Joined(q) = Span(off[1], off[Len(q) + 1]) /\ off[1] <= off[Len(q) + 1]
<1> DEFINE m == Len(q)
<1>0. m \in Nat /\ off \in [1 .. m + 1 -> Nat] /\ q \in Seq(Seq(Nat)) BY DEF Runs
<1>1. CASE m = 0
  <2>1. q = << >> BY <1>0, <1>1
  <2>2. FlattenSeq(q) = << >> BY <2>1 DEF FlattenSeq
  <2>3. off[1] \in Nat /\ m + 1 = 1 BY <1>0, <1>1
  <2>4. Span(off[1], off[1]) = << >> /\ off[1] <= off[1] BY <2>3, SpanEmpty
  <2> HIDE DEF m
  <2>5. FlattenSeq(q) = Span(off[1], off[m + 1]) /\ off[1] <= off[m + 1] BY <2>2, <2>3, <2>4
  <2> QED BY <2>5 DEF Joined, m
<1>2. CASE m # 0
  <2>1. PICK f : Flattens(f, q, m) /\ FlattenSeq(q) = f[m] BY <1>0, <1>2, FlattenIs
  <2> DEFINE S == {i \in Nat : i \in 1 .. m => f[i] = Span(off[1], off[i + 1]) /\ off[1] <= off[i + 1]}
  <2> HIDE DEF m
  <2>2. ASSUME NEW i \in 1 .. m PROVE f[i] = IF i = 1 THEN q[i] ELSE f[i - 1] \o q[i]
    BY <2>1 DEF Flattens
  <2>3. ASSUME NEW i \in 1 .. m PROVE off[i] \in Nat /\ off[i + 1] \in Nat /\ off[i] <= off[i + 1] /\ q[i] = Span(off[i], off[i + 1])
    <3>1. i \in 1 .. m + 1 /\ i + 1 \in 1 .. m + 1 BY <1>0
    <3> QED BY <1>0, <3>1 DEF Runs, m
  <2>4. 0 \in S OBVIOUS
  <2>5. ASSUME NEW i \in Nat, i \in S PROVE i + 1 \in S
    <3> DEFINE n == i + 1
    <3> SUFFICES ASSUME n \in 1 .. m PROVE f[n] = Span(off[1], off[n + 1]) /\ off[1] <= off[n + 1] OBVIOUS
    <3>1. CASE i = 0
      <4>1. n = 1 BY <3>1
      <4> QED BY <2>2, <2>3, <4>1
    <3>2. CASE i # 0
      <4>1. i \in 1 .. m /\ n - 1 = i /\ n # 1 /\ 1 \in 1 .. m + 1 BY <1>0, <3>2
      <4>2. f[i] = Span(off[1], off[n]) /\ off[1] <= off[n] BY <2>5, <4>1
      <4> HIDE DEF n
      <4>3. off[n] \in Nat /\ off[n + 1] \in Nat /\ off[n] <= off[n + 1] /\ q[n] = Span(off[n], off[n + 1]) BY <2>3
      <4>4. off[1] \in Nat BY <1>0, <4>1
      <4>5. f[n] = f[i] \o q[n] BY <2>2, <4>1
      <4>6. Span(off[1], off[n]) \o Span(off[n], off[n + 1]) = Span(off[1], off[n + 1])
        BY <4>2, <4>3, <4>4, SpanJoin
      <4>7. off[1] <= off[n + 1] BY <4>2, <4>3, <4>4
      <4> QED BY <4>2, <4>3, <4>5, <4>6, <4>7
    <3> QED BY <3>1, <3>2
  <2> HIDE DEF S
  <2>6. \A i \in Nat : i \in S BY <2>4, <2>5, SetInduction
  <2>7. m \in 1 .. m BY <1>0, <1>2
  <2>8. f[m] = Span(off[1], off[m + 1]) /\ off[1] <= off[m + 1] BY <1>0, <2>6, <2>7 DEF S
  <2> QED BY <2>1, <2>8 DEF Joined, m
<1> QED BY <1>1, <1>2

OffsetSlice(off, i, n) == [k \in 1 .. n + 1 |-> off[i + k]]

LEMMA FramePiece ==
  ASSUME NEW s \in Seq(Seq(Nat)), NEW a \in Nat, NEW n \in Nat, a + n <= Len(s)
  PROVE  /\ SubSeq(s, a + 1, a + n) \in Seq(Seq(Nat)) /\ Len(SubSeq(s, a + 1, a + n)) = n
         /\ \A j \in 1 .. n : SubSeq(s, a + 1, a + n)[j] = s[a + j]
<1> DEFINE e == SubSeq(s, a + 1, a + n)
<1>1. e = [i \in 1 .. n |-> s[i + a]]
  <2>1. (a + n) - (a + 1) + 1 = n /\ \A i \in 1 .. n : i + (a + 1) - 1 = i + a OBVIOUS
  <2> QED BY <2>1
<1>2. \A i \in 1 .. n : i + a = a + i /\ i + a \in 1 .. Len(s) OBVIOUS
<1> HIDE DEF e
<1>3. e \in Seq(Seq(Nat)) /\ Len(e) = n /\ \A j \in 1 .. n : e[j] = s[a + j] BY <1>1, <1>2
<1> QED BY <1>3 DEF e

IsFrames(t, p, q) ==
  /\ t \in Seq(Seq(Nat)) /\ Len(t) = Len(p) + Len(q)
  /\ \A i \in 1 .. Len(p) : t[i] = p[i]
  /\ \A i \in 1 .. Len(q) : t[Len(p) + i] = q[i]

LEMMA ConcatFrames ==
  ASSUME NEW p \in Seq(Seq(Nat)), NEW q \in Seq(Seq(Nat))
  PROVE  IsFrames(p \o q, p, q)
BY DEF IsFrames

LEMMA RunsSlice ==
  ASSUME NEW q, NEW off, Runs(q, off), NEW a \in Nat, NEW n \in Nat, a + n <= Len(q)
  PROVE  /\ Runs(SubSeq(q, a + 1, a + n), OffsetSlice(off, a, n)) /\ Len(SubSeq(q, a + 1, a + n)) = n
         /\ OffsetSlice(off, a, n)[1] = off[a + 1] /\ OffsetSlice(off, a, n)[n + 1] = off[a + n + 1]
<1> DEFINE e == SubSeq(q, a + 1, a + n)
           o == OffsetSlice(off, a, n)
           m == Len(q)
<1>0. m \in Nat /\ off \in [1 .. m + 1 -> Nat] /\ q \in Seq(Seq(Nat)) BY DEF Runs
<1>1. e \in Seq(Seq(Nat)) /\ Len(e) = n /\ \A j \in 1 .. n : e[j] = q[a + j] BY <1>0, FramePiece
<1>2. \A k \in 1 .. n + 1 : o[k] = off[a + k] /\ a + k \in 1 .. m + 1 BY <1>0 DEF OffsetSlice
<1>3. \A k \in 1 .. m : off[k] <= off[k + 1] /\ q[k] = Span(off[k], off[k + 1]) BY DEF Runs
<1>4. o \in [1 .. n + 1 -> Nat] BY <1>0, <1>2 DEF OffsetSlice
<1> HIDE DEF e, o, m
<1>5. ASSUME NEW k \in 1 .. n PROVE o[k] <= o[k + 1] /\ e[k] = Span(o[k], o[k + 1])
  <2>1. k \in 1 .. n + 1 /\ k + 1 \in 1 .. n + 1 /\ a + k \in 1 .. m /\ a + (k + 1) = (a + k) + 1
    BY <1>0 DEF m
  <2>2. o[k] = off[a + k] /\ o[k + 1] = off[(a + k) + 1] BY <1>2, <2>1
  <2> QED BY <1>1, <1>3, <2>1, <2>2
<1>6. Runs(e, o) BY <1>1, <1>4, <1>5 DEF Runs
<1>7. o[1] = off[a + 1] /\ o[n + 1] = off[a + n + 1]
  <2>1. 1 \in 1 .. n + 1 /\ n + 1 \in 1 .. n + 1 /\ a + (n + 1) = a + n + 1 OBVIOUS
  <2> QED BY <1>2, <2>1
<1> QED BY <1>1, <1>6, <1>7 DEF e, o

LEMMA RunsAfter ==
  ASSUME NEW q, NEW off, Runs(q, off), NEW k \in 1 .. Len(q)
  PROVE  off[k + 1] <= off[Len(q) + 1]
<1> DEFINE n == Len(q) - k
           e == SubSeq(q, k + 1, k + n)
           o == OffsetSlice(off, k, n)
<1>1. Len(q) \in Nat BY DEF Runs
<1>2. n \in Nat /\ k \in Nat /\ k + n <= Len(q) /\ k + n + 1 = Len(q) + 1 BY <1>1
<1> HIDE DEF n
<1>3. Runs(e, o) /\ Len(e) = n /\ o[1] = off[k + 1] /\ o[n + 1] = off[k + n + 1] BY <1>2, RunsSlice
<1> HIDE DEF e, o
<1>4. o[1] <= o[Len(e) + 1] BY <1>3, RunsJoin
<1> QED BY <1>2, <1>3, <1>4

LEMMA RunsUp ==
  ASSUME NEW q, NEW off, Runs(q, off), 1 \in 1 .. Len(q)
  PROVE  off[2] <= off[Len(q) + 1]
<1> DEFINE k == 1
<1>1. k \in 1 .. Len(q) /\ k + 1 = 2 OBVIOUS
<1> HIDE DEF k
<1>2. off[k + 1] <= off[Len(q) + 1] BY <1>1, RunsAfter
<1> QED BY <1>1, <1>2

LEMMA RunsAppend ==
  ASSUME NEW q, NEW off, Runs(q, off), NEW b \in Nat, off[Len(q) + 1] <= b
  PROVE  \E o : Runs(Append(q, Span(off[Len(q) + 1], b)), o) /\ o[1] = off[1] /\ o[Len(q) + 2] = b
<1> DEFINE m == Len(q)
           x == Span(off[m + 1], b)
           e == Append(q, x)
           o == [k \in 1 .. m + 2 |-> IF k = m + 2 THEN b ELSE off[k]]
<1>0. m \in Nat /\ off \in [1 .. m + 1 -> Nat] /\ q \in Seq(Seq(Nat)) /\ off[m + 1] \in Nat /\ m + 1 \in 1 .. m + 1
  BY DEF Runs
<1>1. x \in Seq(Nat) BY <1>0, SpanIs
<1>2. \A k \in 1 .. m : off[k] <= off[k + 1] /\ q[k] = Span(off[k], off[k + 1]) BY DEF Runs
<1> HIDE DEF x
<1>3. e \in Seq(Seq(Nat)) /\ Len(e) = m + 1 /\ e[m + 1] = x /\ \A k \in 1 .. m : e[k] = q[k] BY <1>0, <1>1
<1> HIDE DEF m, e
<1>4. o \in [1 .. (m + 1) + 1 -> Nat] /\ o[1] = off[1] /\ o[m + 2] = b /\ \A k \in 1 .. m + 1 : o[k] = off[k]
  <2>1. ASSUME NEW k \in 1 .. m + 2 PROVE (IF k = m + 2 THEN b ELSE off[k]) \in Nat
    <3>1. k # m + 2 => k \in 1 .. m + 1 BY <1>0
    <3> QED BY <1>0, <3>1
  <2> QED BY <1>0, <2>1
<1> HIDE DEF o
<1>5. ASSUME NEW k \in 1 .. m + 1 PROVE o[k] <= o[k + 1] /\ e[k] = Span(o[k], o[k + 1])
  <2>1. CASE k = m + 1
    <3>1. k + 1 = m + 2 /\ k \in 1 .. m + 1 BY <1>0, <2>1
    <3>2. o[k] = off[m + 1] /\ o[k + 1] = b BY <1>4, <2>1, <3>1
    <3>3. off[m + 1] <= b BY DEF m
    <3>4. e[k] = Span(off[m + 1], b) BY <1>3, <2>1 DEF x
    <3> QED BY <3>2, <3>3, <3>4, Zenon
  <2>2. CASE k # m + 1
    <3>1. k \in 1 .. m /\ k \in 1 .. m + 1 /\ k + 1 \in 1 .. m + 1 BY <1>0, <2>2
    <3>2. o[k] = off[k] /\ o[k + 1] = off[k + 1] BY <1>4, <3>1
    <3>3. e[k] = q[k] BY <1>3, <3>1
    <3>4. off[k] <= off[k + 1] /\ q[k] = Span(off[k], off[k + 1])
      <4>1. \A l \in 1 .. m : off[l] <= off[l + 1] /\ q[l] = Span(off[l], off[l + 1]) BY <1>2 DEF m
      <4> QED BY <4>1, <3>1
    <3> QED BY <3>2, <3>3, <3>4, Zenon
  <2> QED BY <2>1, <2>2
<1>6. Runs(e, o)
  <2>1. e \in Seq(Seq(Nat)) /\ Len(e) \in Nat /\ o \in [1 .. Len(e) + 1 -> Nat] BY <1>0, <1>3, <1>4
  <2>2. ASSUME NEW k \in 1 .. Len(e) PROVE o[k] <= o[k + 1] /\ e[k] = Span(o[k], o[k + 1])
    <3>1. k \in 1 .. m + 1 BY <1>3
    <3> QED BY <1>5, <3>1, Zenon
  <2> QED BY <2>1, <2>2, Zenon DEF Runs
<1> QED BY <1>4, <1>6 DEF e, x, m

LEMMA RunsCons ==
  ASSUME NEW q, NEW off, Runs(q, off), NEW a \in Nat, a <= off[1]
  PROVE  \E o : Runs(<< Span(a, off[1]) >> \o q, o) /\ o[1] = a /\ o[Len(q) + 2] = off[Len(q) + 1]
<1> DEFINE m == Len(q)
           x == Span(a, off[1])
           e == << x >> \o q
           o == [k \in 1 .. m + 2 |-> IF k = 1 THEN a ELSE off[k - 1]]
<1>0. m \in Nat /\ off \in [1 .. m + 1 -> Nat] /\ q \in Seq(Seq(Nat)) /\ off[1] \in Nat /\ off[m + 1] \in Nat
  <2>1. m \in Nat /\ off \in [1 .. m + 1 -> Nat] /\ q \in Seq(Seq(Nat)) BY DEF Runs
  <2> HIDE DEF m
  <2>2. 1 \in 1 .. m + 1 /\ m + 1 \in 1 .. m + 1 BY <2>1
  <2> QED BY <2>1, <2>2
<1>1. x \in Seq(Nat) BY <1>0, SpanIs
<1>2. \A k \in 1 .. m : off[k] <= off[k + 1] /\ q[k] = Span(off[k], off[k + 1]) BY DEF Runs
<1> HIDE DEF x
<1>3. e \in Seq(Seq(Nat)) /\ Len(e) = m + 1 /\ e[1] = x /\ \A k \in 1 .. m : e[1 + k] = q[k]
  <2>1. << x >> \in Seq(Seq(Nat)) /\ Len(<< x >>) = 1 /\ << x >>[1] = x BY <1>1
  <2> DEFINE y == << x >>
  <2> HIDE DEF y
  <2>2. y \in Seq(Seq(Nat)) /\ Len(y) = 1 /\ y[1] = x /\ e = y \o q BY <2>1 DEF y
  <2> QED BY <1>0, <2>2, Concat
<1> HIDE DEF m, e
<1>4. o \in [1 .. (m + 1) + 1 -> Nat] /\ o[1] = a /\ \A k \in 1 .. m + 1 : o[k + 1] = off[k]
  <2>1. ASSUME NEW k \in 1 .. m + 2 PROVE (IF k = 1 THEN a ELSE off[k - 1]) \in Nat
    <3>1. k # 1 => k - 1 \in 1 .. m + 1 BY <1>0
    <3> QED BY <1>0, <3>1
  <2> QED BY <1>0, <2>1
<1> HIDE DEF o
<1>5. ASSUME NEW k \in 1 .. m + 1 PROVE o[k] <= o[k + 1] /\ e[k] = Span(o[k], o[k + 1])
  <2>1. CASE k = 1
    <3>1. o[k + 1] = off[1] BY <1>4, <2>1
    <3> QED BY <1>0, <1>3, <1>4, <2>1, <3>1 DEF x
  <2>2. CASE k # 1
    <3> DEFINE j == k - 1
    <3>1. j \in 1 .. m /\ j \in 1 .. m + 1 /\ j + 1 \in 1 .. m + 1 /\ k = j + 1 /\ 1 + j = k BY <1>0, <2>2
    <3> HIDE DEF j
    <3>2. o[k] = off[j] /\ o[k + 1] = off[j + 1] /\ e[k] = q[j] BY <1>3, <1>4, <3>1
    <3> QED BY <1>2, <3>1, <3>2
  <2> QED BY <2>1, <2>2
<1>6. Runs(e, o) BY <1>0, <1>3, <1>4, <1>5 DEF Runs
<1>7. o[m + 2] = off[m + 1]
  <2>1. m + 1 \in 1 .. m + 1 /\ (m + 1) + 1 = m + 2 BY <1>0
  <2> QED BY <1>4, <2>1
<1> QED BY <1>4, <1>6, <1>7 DEF e, x, m

InOrder(q, a, b) == \E off : Runs(q, off) /\ off[1] = a /\ off[Len(q) + 1] = b
(* Only the last frame is empty, and only at the end of the stream         *)
Tailed(q, fin) == \A i \in 1 .. Len(q) : q[i] = << >> => i = Len(q) /\ fin
Closed(q) == Len(q) >= 1 /\ q[Len(q)] = << >>

LEMMA OrderTypes ==
  ASSUME NEW q, NEW a, NEW b, InOrder(q, a, b)
  PROVE  /\ a \in Nat /\ b \in Nat /\ a <= b /\ q \in Seq(Seq(Nat)) /\ Len(q) \in Nat /\ Joined(q) = Span(a, b)
<1>1. PICK off : Runs(q, off) /\ off[1] = a /\ off[Len(q) + 1] = b BY DEF InOrder
<1>2. Len(q) \in Nat /\ off \in [1 .. Len(q) + 1 -> Nat] /\ q \in Seq(Seq(Nat)) BY <1>1 DEF Runs
<1>3. 1 \in 1 .. Len(q) + 1 /\ Len(q) + 1 \in 1 .. Len(q) + 1 BY <1>2
<1>4. a \in Nat /\ b \in Nat BY <1>1, <1>2, <1>3
<1>5. Joined(q) = Span(a, b) /\ a <= b BY <1>1, RunsJoin
<1> QED BY <1>2, <1>4, <1>5

LEMMA OrderEmpty ==
  ASSUME NEW a \in Nat
  PROVE  InOrder(<< >>, a, a)
<1> DEFINE o == [k \in 1 .. 1 |-> a]
<1>1. Runs(<< >>, o) /\ o[1] = a /\ o[Len(<< >>) + 1] = a BY DEF Runs
<1> QED BY <1>1 DEF InOrder

LEMMA OrderAppend ==
  ASSUME NEW q, NEW a, NEW b, InOrder(q, a, b), NEW c \in Nat, b <= c
  PROVE  InOrder(Append(q, Span(b, c)), a, c)
<1>1. PICK off : Runs(q, off) /\ off[1] = a /\ off[Len(q) + 1] = b BY DEF InOrder
<1>2. q \in Seq(Seq(Nat)) /\ Len(q) \in Nat /\ b \in Nat BY OrderTypes
<1>3. Span(b, c) \in Seq(Nat) BY <1>2, SpanIs
<1> DEFINE e == Append(q, Span(b, c))
<1>4. Len(e) + 1 = Len(q) + 2 BY <1>2, <1>3
<1>5. PICK o : Runs(e, o) /\ o[1] = a /\ o[Len(q) + 2] = c BY <1>1, RunsAppend
<1> HIDE DEF e
<1>6. InOrder(e, a, c) BY <1>4, <1>5 DEF InOrder
<1> QED BY <1>6 DEF e

(* What is behind sample x, within frame k that ends with sample y         *)
Rest(q, k, x, y) == (IF x = y THEN << >> ELSE << Span(x, y) >>) \o SubSeq(q, k + 1, Len(q))

LEMMA RestIs ==
  ASSUME NEW q, NEW off, Runs(q, off), NEW k \in 1 .. Len(q), NEW x \in Nat, off[k] < x, x <= off[k + 1],
         NEW fin \in BOOLEAN, Tailed(q, fin), NEW r, r = Rest(q, k, x, off[k + 1])
  PROVE  InOrder(r, x, off[Len(q) + 1]) /\ Tailed(r, fin) /\ (Closed(q) => Closed(r))
<1> DEFINE n == Len(q) - k
           e == SubSeq(q, k + 1, k + n)
           o == OffsetSlice(off, k, n)
<1>0. Len(q) \in Nat /\ q \in Seq(Seq(Nat)) /\ off \in [1 .. Len(q) + 1 -> Nat] BY DEF Runs
<1>1. n \in Nat /\ k \in Nat /\ k + n = Len(q) /\ k + n <= Len(q) BY <1>0
<1>2. off[k] \in Nat /\ off[k + 1] \in Nat /\ k + n + 1 = Len(q) + 1
  <2>1. k \in 1 .. Len(q) + 1 /\ k + 1 \in 1 .. Len(q) + 1 BY <1>0
  <2> QED BY <1>0, <1>1, <2>1
<1>3. e = SubSeq(q, k + 1, Len(q)) BY <1>1
<1>4. e \in Seq(Seq(Nat)) /\ Len(e) = n /\ \A j \in 1 .. n : e[j] = q[k + j]
  <2> HIDE DEF n
  <2> QED BY <1>0, <1>1, FramePiece
<1>5. Runs(e, o) /\ o[1] = off[k + 1] /\ o[n + 1] = off[Len(q) + 1]
  <2> HIDE DEF n
  <2> QED BY <1>1, <1>2, RunsSlice
<1>6. q[k] # << >>
  <2>1. q[k] = Span(off[k], off[k + 1]) BY DEF Runs
  <2>2. off[k] <= off[k + 1] /\ off[k] # off[k + 1] BY <1>2
  <2>3. Span(off[k], off[k + 1]) # << >> BY <1>2, <2>2, SpanNone, Zenon
  <2> QED BY <2>1, <2>3
<1> HIDE DEF n, e, o
<1>7. Tailed(e, fin)
  <2> SUFFICES ASSUME NEW i \in 1 .. n, e[i] = << >> PROVE i = n /\ fin BY <1>4 DEF Tailed
  <2>0. k + i \in 1 .. Len(q)
    <3>1. i \in Nat /\ i >= 1 /\ i <= n BY <1>1
    <3> QED BY <1>0, <1>1, <3>1
  <2>1. k + i \in 1 .. Len(q) /\ q[k + i] = << >> BY <1>4, <2>0
  <2>2. k + i = Len(q) /\ fin BY <2>1 DEF Tailed
  <2> QED BY <1>1, <2>2
<1>8. ASSUME Closed(q) PROVE n >= 1 /\ e[n] = << >>
  <2>1. k # Len(q) BY <1>6, <1>8 DEF Closed
  <2>2. n >= 1 /\ n \in 1 .. n BY <1>1, <2>1
  <2>3. e[n] = q[Len(q)] BY <1>1, <1>4, <2>2
  <2> QED BY <1>8, <2>2, <2>3 DEF Closed
<1>9. CASE x = off[k + 1]
  <2>1. r = e
    <3>1. r = << >> \o e BY <1>3, <1>9 DEF Rest
    <3> QED BY <1>4, <3>1
  <2>2. InOrder(e, x, off[Len(q) + 1]) BY <1>4, <1>5, <1>9 DEF InOrder
  <2>3. Closed(q) => Closed(e) BY <1>4, <1>8 DEF Closed
  <2> QED BY <1>7, <2>1, <2>2, <2>3
<1>10. CASE x # off[k + 1]
  <2> DEFINE y == Span(x, off[k + 1])
             w == << y >>
  <2>1. r = w \o e BY <1>3, <1>10 DEF Rest
  <2>2. y \in Seq(Nat) /\ y # << >> BY <1>2, <1>10, SpanLen, SpanNone
  <2>3. PICK v : Runs(<< Span(x, o[1]) >> \o e, v) /\ v[1] = x /\ v[Len(e) + 2] = o[Len(e) + 1]
    BY <1>5, RunsCons
  <2>4. Runs(r, v) BY <1>5, <2>1, <2>3
  <2> HIDE DEF y
  <2>5. w \in Seq(Seq(Nat)) /\ Len(w) = 1 /\ w[1] = y BY <2>2
  <2> HIDE DEF w
  <2>6. r \in Seq(Seq(Nat)) /\ Len(r) = 1 + n /\ r[1] = y /\ \A j \in 1 .. n : r[1 + j] = e[j]
    <3>1. 1 \in 1 .. Len(w) BY <2>5
    <3>2. IsFrames(r, w, e) BY <1>4, <2>1, <2>5, ConcatFrames
    <3> QED BY <1>4, <2>5, <3>1, <3>2 DEF IsFrames
  <2>7. InOrder(r, x, off[Len(q) + 1])
    <3>1. Len(r) + 1 = n + 2 BY <1>1, <2>6
    <3>2. v[Len(r) + 1] = off[Len(q) + 1] BY <1>4, <1>5, <2>3, <3>1
    <3> QED BY <2>3, <2>4, <3>2 DEF InOrder
  <2>8. Tailed(r, fin)
    <3> SUFFICES ASSUME NEW i \in 1 .. 1 + n, r[i] = << >> PROVE i = 1 + n /\ fin BY <2>6 DEF Tailed
    <3> DEFINE j == i - 1
    <3>1. i # 1 BY <2>2, <2>6
    <3>2. j \in 1 .. n /\ i = 1 + j BY <1>1, <3>1
    <3> HIDE DEF j
    <3>3. e[j] = << >> BY <2>6, <3>2
    <3>4. j = n /\ fin BY <1>4, <1>7, <3>2, <3>3 DEF Tailed
    <3> QED BY <3>2, <3>4
  <2>9. ASSUME Closed(q) PROVE Closed(r)
    <3>1. n >= 1 /\ e[n] = << >> /\ n \in 1 .. n BY <1>1, <1>8, <2>9
    <3>2. r[1 + n] = << >> /\ Len(r) >= 1 BY <1>1, <2>6, <3>1
    <3> QED BY <2>6, <3>2 DEF Closed
  <2> QED BY <2>7, <2>8, <2>9
<1> QED BY <1>9, <1>10

LEMMA ReceiveGives ==
  ASSUME NEW q, NEW off, Runs(q, off), NEW n \in Nat \ {0}, off[1] + n <= off[Len(q) + 1], NEW x, x = off[1] + n
  PROVE  /\ receive_samples(q, n).frame = Span(off[1], x)
         /\ \E k \in 1 .. Len(q) : /\ off[k] < x /\ x <= off[k + 1]
              /\ receive_samples(q, n).rest = Rest(q, k, x, off[k + 1])
<1> DEFINE a == off[1]
           m == Len(q)
           L(i) == Len(Joined(SubSeq(q, 1, i)))
           k == CHOOSE i \in 1 .. m : L(i) >= n /\ \A j \in 1 .. i - 1 : L(j) < n
           over == SubSeq(Joined(SubSeq(q, 1, k)), n + 1, Len(Joined(SubSeq(q, 1, k))))
<1>0. m \in Nat /\ q \in Seq(Seq(Nat)) /\ off \in [1 .. m + 1 -> Nat] BY DEF Runs
<1>1. a \in Nat /\ off[m + 1] \in Nat /\ x \in Nat /\ \A i \in 1 .. m + 1 : off[i] \in Nat
  <2> HIDE DEF m
  <2>1. 1 \in 1 .. m + 1 /\ m + 1 \in 1 .. m + 1 BY <1>0
  <2> QED BY <1>0, <2>1
<1>2. ASSUME NEW i \in 0 .. m
      PROVE  Joined(SubSeq(q, 1, i)) = Span(a, off[i + 1]) /\ a <= off[i + 1] /\ L(i) = off[i + 1] - a
  <2>1. i \in Nat /\ 0 + i <= m /\ i + 1 \in 1 .. m + 1 BY <1>0
  <2> DEFINE e == SubSeq(q, 0 + 1, 0 + i)
             o == OffsetSlice(off, 0, i)
  <2>2. Runs(e, o) /\ Len(e) = i /\ o[1] = off[0 + 1] /\ o[i + 1] = off[0 + i + 1] BY <2>1, RunsSlice
  <2>3. 0 + i + 1 = i + 1 /\ e = SubSeq(q, 1, i) BY <2>1
  <2> HIDE DEF e, o, m, a
  <2>4. Joined(e) = Span(a, off[i + 1]) /\ a <= off[i + 1]
    <3>1. Joined(e) = Span(o[1], o[Len(e) + 1]) /\ o[1] <= o[Len(e) + 1] BY <2>2, RunsJoin
    <3>2. o[1] = a /\ o[Len(e) + 1] = off[i + 1] BY <2>2, <2>3 DEF a
    <3> QED BY <3>1, <3>2
  <2>5. Len(Span(a, off[i + 1])) = off[i + 1] - a BY <1>1, <2>1, <2>4, SpanLen
  <2> QED BY <2>3, <2>4, <2>5
<1> HIDE DEF a, m, L
<1>3. k \in 1 .. m /\ L(k) >= n /\ \A j \in 1 .. k - 1 : L(j) < n
  <2> DEFINE T == {i \in 1 .. m : L(i) >= n}
  <2>1. m # 0
    <3>1. m = 0 => off[m + 1] = a BY DEF a
    <3> QED BY <1>1, <3>1 DEF m, a
  <2>2. m \in T
    <3>1. m \in 1 .. m /\ m \in 0 .. m BY <1>0, <2>1
    <3>2. L(m) = off[m + 1] - a BY <1>2, <3>1
    <3> QED BY <1>1, <3>1, <3>2 DEF a, m
  <2>3. T \subseteq Nat /\ T # {}
    <3>1. T \subseteq 1 .. m OBVIOUS
    <3> HIDE DEF T
    <3> QED BY <1>0, <2>2, <3>1
  <2>4. PICK i \in T : \A j \in T : i <= j BY <2>3, LeastIn
  <2>5. i \in 1 .. m /\ L(i) >= n BY <2>4
  <2>6. ASSUME NEW j \in 1 .. i - 1 PROVE L(j) < n
    <3>1. j \in 1 .. m /\ j \in 0 .. m /\ j \notin T BY <1>0, <2>4, <2>5
    <3>2. L(j) = off[j + 1] - a /\ j + 1 \in 1 .. m + 1 BY <1>0, <1>2, <3>1
    <3>3. L(j) \in Int BY <1>1, <3>2
    <3> QED BY <3>1, <3>3
  <2> HIDE DEF T
  <2>7. \E z \in 1 .. m : L(z) >= n /\ \A j \in 1 .. z - 1 : L(j) < n BY <2>5, <2>6
  <2> QED BY <2>7, Zenon
<1>4. receive_samples(q, n) = [frame |-> SubSeq(Joined(q), 1, n),
                               rest |-> (IF over = << >> THEN << >> ELSE << over >>) \o SubSeq(q, k + 1, m)]
  BY DEF receive_samples, L, m
<1> HIDE DEF k
<1>5. /\ k \in 0 .. m /\ k \in 1 .. m + 1 /\ k + 1 \in 1 .. m + 1 /\ k \in Nat BY <1>0, <1>3
<1>6. off[k] \in Nat /\ off[k + 1] \in Nat BY <1>1, <1>5
<1>7. x <= off[k + 1]
  <2>1. L(k) = off[k + 1] - a BY <1>2, <1>5
  <2> QED BY <1>1, <1>3, <1>6, <2>1 DEF a
<1>8. off[k] < x
  <2>1. CASE k = 1 BY <1>1, <2>1 DEF a
  <2>2. CASE k # 1
    <3> DEFINE j == k - 1
    <3>1. j \in 1 .. k - 1 /\ j \in 0 .. m /\ j + 1 = k BY <1>0, <1>3, <2>2
    <3>2. L(j) < n BY <1>3, <3>1
    <3>3. L(j) = off[k] - a BY <1>2, <3>1
    <3> QED BY <1>1, <1>6, <3>2, <3>3 DEF a
  <2> QED BY <2>1, <2>2
<1>9. over = Span(x, off[k + 1])
  <2>1. Joined(SubSeq(q, 1, k)) = Span(a, off[k + 1]) BY <1>2, <1>5
  <2>2. a + n <= off[k + 1] /\ x = a + n BY <1>7 DEF a
  <2>3. SubSeq(Span(a, off[k + 1]), n + 1, Len(Span(a, off[k + 1]))) = Span(a + n, off[k + 1])
    BY <1>1, <1>6, <2>2, SpanBack
  <2> QED BY <2>1, <2>2, <2>3
<1>10. over = << >> <=> x = off[k + 1] BY <1>1, <1>6, <1>7, <1>9, SpanNone
<1>11. SubSeq(Joined(q), 1, n) = Span(a, x)
  <2>1. Joined(q) = Span(a, off[m + 1]) BY RunsJoin DEF a, m
  <2>2. a + n <= off[m + 1] /\ x = a + n BY DEF a, m
  <2>3. SubSeq(Span(a, off[m + 1]), 1, n) = Span(a, a + n) BY <1>1, <2>2, SpanFront
  <2> QED BY <2>1, <2>2, <2>3
<1> HIDE DEF over
<1>12. receive_samples(q, n).frame = Span(a, x) BY <1>4, <1>11
<1>13. receive_samples(q, n).rest = Rest(q, k, x, off[k + 1])
  <2>1. receive_samples(q, n).rest = (IF over = << >> THEN << >> ELSE << over >>) \o SubSeq(q, k + 1, Len(q))
    <3> DEFINE rr == (IF over = << >> THEN << >> ELSE << over >>) \o SubSeq(q, k + 1, m)
               ff == SubSeq(Joined(q), 1, n)
    <3>1. receive_samples(q, n) = [frame |-> ff, rest |-> rr] BY <1>4
    <3> HIDE DEF rr, ff
    <3>2. receive_samples(q, n).rest = rr BY <3>1
    <3> QED BY <3>2 DEF rr, m
  <2>2. (IF over = << >> THEN << >> ELSE << over >>) = (IF x = off[k + 1] THEN << >> ELSE << Span(x, off[k + 1]) >>)
    BY <1>9, <1>10
  <2> QED BY <2>1, <2>2, Zenon DEF Rest
<1> QED BY <1>3, <1>7, <1>8, <1>12, <1>13 DEF a, m

Audios ==
  [frame_samples : FrameSizes, queue : Seq(Seq(Nat)), samples_queued : Nat, samples_sent : Nat, frames_sent : Nat,
   is_finished : BOOLEAN, came : Nat, sent : Seq(Seq(Nat)), ended : BOOLEAN]
(* The encoder was given the samples up to d                               *)
Ordered(a, d) == InOrder(a.sent, 0, d) /\ InOrder(a.queue, d, a.came) /\ a.samples_queued = a.came - d
Framed(a) ==
  a.frame_samples > 0 =>
    \A i \in 1 .. Len(a.sent) :
       \/ Len(a.sent[i]) = a.frame_samples
       \/ i = Len(a.sent) /\ a.is_finished /\ a.sent[i] # << >> /\ a.samples_queued = 0
AudioIs(a) ==
  /\ a \in Audios /\ (\E d : Ordered(a, d)) /\ Tailed(a.queue, a.is_finished) /\ Framed(a)
  /\ a.is_finished /\ ~a.ended => Closed(a.queue)
  /\ a.ended => a.queue = << >>
  /\ a.frame_samples = 0 => a.queue = << >> /\ ~a.is_finished

LEMMA AudioTypes ==
  ASSUME NEW a \in Audios
  PROVE  /\ a.frame_samples \in Nat /\ a.queue \in Seq(Seq(Nat)) /\ a.samples_queued \in Nat /\ a.samples_sent \in Nat
         /\ a.frames_sent \in Nat /\ a.is_finished \in BOOLEAN /\ a.came \in Nat /\ a.sent \in Seq(Seq(Nat))
         /\ a.ended \in BOOLEAN
<1>1. FrameSizes \subseteq Nat BY AudioSizes
<1> QED BY <1>1 DEF Audios

LEMMA GiveKeeps ==
  ASSUME NEW a, AudioIs(a), NEW d, Ordered(a, d), a.frame_samples > 0, ~a.ended, NEW n \in Nat \ {0}, n <= a.samples_queued,
         n = a.frame_samples \/ (a.is_finished /\ n = a.samples_queued), NEW r \in Audios,
         r.frame_samples = a.frame_samples, r.is_finished = a.is_finished, r.came = a.came, r.ended = a.ended,
         r.samples_queued = a.samples_queued - n, r.sent = Append(a.sent, Span(d, d + n)),
         InOrder(r.queue, d + n, a.came), Tailed(r.queue, a.is_finished), Closed(a.queue) => Closed(r.queue)
  PROVE  AudioIs(r)
<1>1. a \in Audios BY DEF AudioIs
<1>2. /\ a.frame_samples \in Nat /\ a.samples_queued \in Nat /\ a.came \in Nat /\ a.sent \in Seq(Seq(Nat))
      /\ a.is_finished \in BOOLEAN /\ a.ended \in BOOLEAN /\ Len(a.sent) \in Nat
  <2>1. a.sent \in Seq(Seq(Nat)) BY <1>1, AudioTypes
  <2>2. Len(a.sent) \in Nat BY <2>1
  <2> QED BY <1>1, <2>2, AudioTypes
<1>3. InOrder(a.sent, 0, d) /\ a.samples_queued = a.came - d BY DEF Ordered
<1>4. d \in Nat BY <1>3, OrderTypes
<1> DEFINE x == Span(d, d + n)
<1>5. d + n \in Nat /\ d <= d + n BY <1>4
<1>6. InOrder(r.sent, 0, d + n) BY <1>3, <1>5, OrderAppend
<1>7. Ordered(r, d + n)
  <2>1. a.samples_queued - n = a.came - (d + n) BY <1>2, <1>3, <1>4
  <2> QED BY <1>6, <2>1 DEF Ordered
<1>8. x \in Seq(Nat) /\ Len(x) = n /\ x # << >>
  <2>1. x \in Seq(Nat) /\ Len(x) = (d + n) - d BY <1>4, <1>5, SpanLen
  <2>2. d # d + n /\ (d + n) - d = n BY <1>4
  <2>3. x # << >> BY <1>4, <1>5, <2>2, SpanNone
  <2> QED BY <2>1, <2>2, <2>3
<1> HIDE DEF x
<1>9. /\ Len(r.sent) = Len(a.sent) + 1 /\ r.sent[Len(a.sent) + 1] = x /\ \A i \in 1 .. Len(a.sent) : r.sent[i] = a.sent[i]
  <2>1. r.sent = Append(a.sent, x) BY DEF x
  <2> QED BY <1>2, <1>8, <2>1
<1>10. Framed(r)
  <2> SUFFICES ASSUME NEW i \in 1 .. Len(r.sent)
               PROVE  \/ Len(r.sent[i]) = a.frame_samples
                      \/ i = Len(r.sent) /\ a.is_finished /\ r.sent[i] # << >> /\ r.samples_queued = 0
    BY DEF Framed
  <2>1. CASE i = Len(a.sent) + 1
    <3>1. r.sent[i] = x /\ i = Len(r.sent) BY <1>9, <2>1
    <3>2. CASE n = a.frame_samples BY <1>8, <3>1, <3>2
    <3>3. CASE a.is_finished /\ n = a.samples_queued
      <4>1. r.samples_queued = 0 BY <1>2, <3>3
      <4> QED BY <1>8, <3>1, <3>3, <4>1
    <3> QED BY <3>2, <3>3
  <2>2. CASE i # Len(a.sent) + 1
    <3>1. i \in 1 .. Len(a.sent) BY <1>2, <1>9, <2>2
    <3>2. r.sent[i] = a.sent[i] BY <1>9, <3>1
    <3>3. a.samples_queued # 0 BY <1>2
    <3>4. Len(a.sent[i]) = a.frame_samples BY <3>1, <3>3 DEF AudioIs, Framed
    <3> QED BY <3>2, <3>4
  <2> QED BY <2>1, <2>2
<1>11. r.is_finished /\ ~r.ended => Closed(r.queue) BY DEF AudioIs
<1>12. r.frame_samples # 0 BY <1>2
<1> QED BY <1>7, <1>10, <1>11, <1>12 DEF AudioIs

LEMMA Quotient ==
  ASSUME NEW a \in Nat, NEW b \in Nat \ {0}
  PROVE  a \div b \in Nat
OBVIOUS

(* The fields that a step of the queue changes                             *)
IsAudio(r, a, sent, fs, q, sq, st, en) ==
  /\ r \in Audios /\ r.frame_samples = a.frame_samples /\ r.is_finished = a.is_finished /\ r.came = a.came
  /\ r.samples_sent = sent /\ r.frames_sent = fs /\ r.queue = q /\ r.samples_queued = sq /\ r.sent = st /\ r.ended = en

LEMMA AudioOf ==
  ASSUME NEW a \in Audios, NEW sent \in Nat, NEW fs \in Nat, NEW q \in Seq(Seq(Nat)), NEW sq \in Nat,
         NEW st \in Seq(Seq(Nat)), NEW en \in BOOLEAN
  PROVE  /\ IsAudio([[a EXCEPT !.samples_sent = sent, !.frames_sent = fs] EXCEPT !.queue = q, !.ended = en],
                    a, sent, fs, q, a.samples_queued, a.sent, en)
         /\ IsAudio([[a EXCEPT !.samples_sent = sent, !.frames_sent = fs] EXCEPT !.samples_queued = sq, !.sent = st, !.queue = q],
                    a, sent, fs, q, sq, st, a.ended)
BY DEF Audios, IsAudio

LEMMA ProcessKeeps ==
  ASSUME NEW a, AudioIs(a), Ready(a), a.frame_samples > 0, ~a.ended
  PROVE  AudioIs(process_audio_queue(a))
<1> DEFINE n == IF a.is_finished /\ a.samples_queued < a.frame_samples THEN a.samples_queued ELSE a.frame_samples
           sent == a.samples_sent + n
           fs == (a.samples_sent + n) \div a.frame_samples
           cut == receive_samples(a.queue, n)
           b == [a EXCEPT !.samples_sent = sent, !.frames_sent = fs]
           p == process_audio_queue(a)
           q == a.queue
<1>1. a \in Audios BY DEF AudioIs
<1>2. /\ a.frame_samples \in Nat /\ a.samples_queued \in Nat /\ a.came \in Nat /\ a.sent \in Seq(Seq(Nat))
      /\ a.is_finished \in BOOLEAN /\ a.ended \in BOOLEAN /\ a.samples_sent \in Nat /\ a.queue \in Seq(Seq(Nat))
  BY <1>1, AudioTypes
<1>3. PICK d : Ordered(a, d) BY DEF AudioIs
<1>4. InOrder(a.sent, 0, d) /\ InOrder(q, d, a.came) /\ a.samples_queued = a.came - d /\ Tailed(q, a.is_finished)
      /\ (a.is_finished => Closed(q))
  BY <1>3 DEF Ordered, AudioIs
<1>5. d \in Nat /\ d <= a.came /\ Len(q) \in Nat BY <1>4, OrderTypes
<1>6. PICK off : Runs(q, off) /\ off[1] = d /\ off[Len(q) + 1] = a.came BY <1>4 DEF InOrder
<1>7. q # << >> /\ (a.frame_samples <= a.samples_queued \/ a.is_finished) BY DEF Ready
<1>8. Len(q) >= 1 /\ 1 \in 1 .. Len(q) /\ Head(q) = q[1] /\ Tail(q) = SubSeq(q, 2, Len(q)) /\ Tail(q) \in Seq(Seq(Nat))
  <2> HIDE DEF q
  <2>1. q \in Seq(Seq(Nat)) BY <1>2 DEF q
  <2> QED BY <1>5, <1>7, <2>1
<1>9. n \in Nat /\ (n = a.frame_samples \/ (a.is_finished /\ n = a.samples_queued)) /\ n <= a.samples_queued
  BY <1>2, <1>7
<1>10. sent \in Nat /\ fs \in Nat
  <2>1. sent \in Nat BY <1>2, <1>9
  <2>2. a.frame_samples \in Nat \ {0} BY <1>2
  <2> HIDE DEF n
  <2> QED BY <2>1, <2>2, Quotient
<1>11. p = IF a.is_finished /\ Head(q) = << >> THEN [b EXCEPT !.queue = Tail(@), !.ended = TRUE]
           ELSE IF n = Len(Head(q))
           THEN [b EXCEPT !.samples_queued = @ - n, !.sent = Append(@, Head(q)), !.queue = Tail(@)]
           ELSE [b EXCEPT !.samples_queued = @ - n, !.sent = Append(@, cut.frame), !.queue = cut.rest]
  BY <1>1 DEF process_audio_queue, Audios
<1>12. b.queue = q /\ b.samples_queued = a.samples_queued /\ b.sent = a.sent BY <1>1 DEF Audios
<1>13. q[1] = Span(d, off[2]) /\ off[2] \in Nat /\ d <= off[2]
  <2>1. off \in [1 .. Len(q) + 1 -> Nat] /\ 2 \in 1 .. Len(q) + 1 BY <1>6, <1>8 DEF Runs
  <2>2. off[1] <= off[1 + 1] /\ q[1] = Span(off[1], off[1 + 1]) BY <1>6, <1>8 DEF Runs
  <2> QED BY <1>6, <2>1, <2>2
<1> HIDE DEF n, sent, fs, p
<1>14. CASE a.is_finished /\ Head(q) = << >>
  <2>1. Len(q) = 1
    <3>1. q[1] = << >> BY <1>8, <1>14
    <3> QED BY <1>4, <1>8, <3>1 DEF Tailed
  <2>2. d = a.came
    <3>1. off[Len(q) + 1] = off[2] BY <2>1
    <3>2. d = off[2] BY <1>5, <1>8, <1>13, <1>14, SpanNone
    <3> QED BY <1>6, <3>1, <3>2
  <2>3. Tail(q) = << >>
    <3>1. Tail(q) = SubSeq(q, 2, 1) BY <1>8, <2>1
    <3> HIDE DEF q
    <3> QED BY <1>5, <2>1, <3>1
  <2> DEFINE e == << >>
  <2>4. p = [b EXCEPT !.queue = e, !.ended = TRUE] BY <1>11, <1>12, <1>14, <2>3
  <2>5. IsAudio(p, a, sent, fs, e, a.samples_queued, a.sent, TRUE)
    <3>1. e \in Seq(Seq(Nat)) /\ TRUE \in BOOLEAN OBVIOUS
    <3> HIDE DEF e
    <3> QED BY <1>1, <1>2, <1>10, <2>4, <3>1, AudioOf
  <2>6. Ordered(p, d) BY <1>4, <1>5, <2>2, <2>5, OrderEmpty DEF Ordered, IsAudio
  <2>7. Tailed(p.queue, p.is_finished) BY <2>5 DEF Tailed, IsAudio
  <2>8. Framed(p) BY <2>5 DEF Framed, IsAudio, AudioIs
  <2>9. /\ p \in Audios /\ p.ended = TRUE /\ p.queue = << >> /\ p.frame_samples = a.frame_samples /\ a.frame_samples # 0
    BY <1>2, <2>5 DEF IsAudio
  <2>10. AudioIs(p) BY <2>6, <2>7, <2>8, <2>9 DEF AudioIs
  <2> QED BY <2>10 DEF p
<1>15. CASE ~(a.is_finished /\ Head(q) = << >>)
  <2>1. q[1] # << >>
    <3>1. CASE a.is_finished BY <1>8, <1>15, <3>1
    <3>2. CASE ~a.is_finished BY <1>4, <1>8, <3>2 DEF Tailed
    <3> QED BY <3>1, <3>2
  <2>2. d < off[2] BY <1>5, <1>13, <2>1, SpanNone
  <2>3. n \in Nat \ {0}
    <3>1. off[2] <= a.came BY <1>6, <1>8, RunsUp, Zenon
    <3>2. a.samples_queued # 0 BY <1>2, <1>4, <1>5, <1>13, <2>2, <3>1
    <3> QED BY <1>2, <1>9, <3>2
  <2>4. PICK k \in 1 .. Len(q) : /\ off[k] < d + n /\ d + n <= off[k + 1] /\ p = [b EXCEPT !.samples_queued = a.samples_queued - n,
                                      !.sent = Append(a.sent, Span(d, d + n)), !.queue = Rest(q, k, d + n, off[k + 1])]
    <3>1. CASE n = Len(Head(q))
      <4>1. off[2] = d + n
        <5>1. Len(q[1]) = off[2] - d BY <1>5, <1>13, SpanLen
        <5>2. n = off[2] - d BY <1>8, <3>1, <5>1
        <5> QED BY <1>5, <1>13, <5>2
      <4>2. Head(q) = Span(d, d + n) BY <1>8, <1>13, <4>1
      <4>3. Tail(q) = Rest(q, 1, d + n, off[1 + 1])
        <5>0. d + n = off[1 + 1] /\ 1 + 1 = 2 BY <4>1
        <5>1. Rest(q, 1, d + n, off[1 + 1]) = << >> \o SubSeq(q, 1 + 1, Len(q)) BY <5>0, Zenon DEF Rest
        <5>2. << >> \o Tail(q) = Tail(q)
          <6> DEFINE z == Tail(q)
          <6>1. z \in Seq(Seq(Nat)) BY <1>8
          <6> HIDE DEF z
          <6>2. << >> \o z = z BY <6>1
          <6> QED BY <6>2 DEF z
        <5>3. Tail(q) = SubSeq(q, 1 + 1, Len(q)) BY <1>8, <5>0
        <5> QED BY <5>1, <5>2, <5>3, Zenon
      <4>4. p = [b EXCEPT !.samples_queued = @ - n, !.sent = Append(@, Head(q)), !.queue = Tail(@)]
        BY <1>11, <1>15, <3>1
      <4>5. p = [b EXCEPT !.samples_queued = a.samples_queued - n, !.sent = Append(a.sent, Span(d, d + n)),
                          !.queue = Rest(q, 1, d + n, off[1 + 1])]
        <5> HIDE DEF b
        <5> QED BY <1>12, <4>2, <4>3, <4>4
      <4>6. off[1] < d + n /\ d + n <= off[1 + 1] BY <1>5, <1>6, <2>3, <4>1
      <4> HIDE DEF b
      <4> QED BY <1>8, <4>5, <4>6
    <3>2. CASE n # Len(Head(q))
      <4>0. off[1] + n <= off[Len(q) + 1] /\ d + n = off[1] + n BY <1>2, <1>4, <1>5, <1>6, <1>9
      <4>1. /\ cut.frame = Span(off[1], d + n)
            /\ \E k \in 1 .. Len(q) : off[k] < d + n /\ d + n <= off[k + 1] /\ cut.rest = Rest(q, k, d + n, off[k + 1])
        <5> HIDE DEF q
        <5> QED BY <1>6, <2>3, <4>0, ReceiveGives DEF q
      <4>2. PICK k \in 1 .. Len(q) : off[k] < d + n /\ d + n <= off[k + 1] /\ cut.rest = Rest(q, k, d + n, off[k + 1])
        BY <4>1
      <4>3. p = [b EXCEPT !.samples_queued = @ - n, !.sent = Append(@, cut.frame), !.queue = cut.rest]
        BY <1>11, <1>15, <3>2
      <4> HIDE DEF cut
      <4>4. p = [b EXCEPT !.samples_queued = a.samples_queued - n, !.sent = Append(a.sent, Span(d, d + n)),
                          !.queue = Rest(q, k, d + n, off[k + 1])]
        <5> HIDE DEF b
        <5> QED BY <1>6, <1>12, <4>1, <4>2, <4>3
      <4> HIDE DEF b
      <4> QED BY <4>2, <4>4
    <3> QED BY <3>1, <3>2
  <2> DEFINE y == Rest(q, k, d + n, off[k + 1])
             st == Append(a.sent, Span(d, d + n))
             sq == a.samples_queued - n
  <2>5. InOrder(y, d + n, a.came) /\ Tailed(y, a.is_finished) /\ (Closed(q) => Closed(y))
    <3>1. d + n \in Nat BY <1>5, <2>3
    <3> HIDE DEF q
    <3>2. InOrder(y, d + n, off[Len(q) + 1]) /\ Tailed(y, a.is_finished) /\ (Closed(q) => Closed(y))
      BY <1>2, <1>4, <1>6, <2>4, <3>1, RestIs
    <3> QED BY <1>6, <3>2
  <2>6. y \in Seq(Seq(Nat)) BY <2>5, OrderTypes
  <2>7. st \in Seq(Seq(Nat))
    <3>1. Span(d, d + n) \in Seq(Nat)
      <4>1. d + n \in Nat /\ d <= d + n BY <1>5, <2>3
      <4> QED BY <1>5, <4>1, SpanLen
    <3> QED BY <1>2, <3>1
  <2>8. sq \in Nat BY <1>2, <1>9
  <2>9. p = [b EXCEPT !.samples_queued = sq, !.sent = st, !.queue = y] BY <2>4
  <2> HIDE DEF y, st, sq
  <2>10. IsAudio(p, a, sent, fs, y, sq, st, a.ended) BY <1>1, <1>2, <1>10, <2>6, <2>7, <2>8, <2>9, AudioOf
  <2> HIDE DEF q
  <2>11. /\ p \in Audios /\ p.frame_samples = a.frame_samples /\ p.is_finished = a.is_finished /\ p.came = a.came
         /\ p.ended = a.ended /\ p.samples_queued = a.samples_queued - n /\ p.sent = Append(a.sent, Span(d, d + n))
         /\ p.queue = y
    BY <2>10 DEF IsAudio, sq, st
  <2>12. Closed(a.queue) => Closed(y) BY <2>5 DEF q
  <2>13. AudioIs(p)
    <3>1. p \in Audios BY <2>11
    <3>2. /\ p.frame_samples = a.frame_samples /\ p.is_finished = a.is_finished /\ p.came = a.came
          /\ p.ended = a.ended /\ p.samples_queued = a.samples_queued - n /\ p.sent = Append(a.sent, Span(d, d + n))
      BY <2>11
    <3>3. InOrder(p.queue, d + n, a.came) /\ Tailed(p.queue, a.is_finished) /\ (Closed(a.queue) => Closed(p.queue))
      BY <2>5, <2>11, <2>12
    <3> QED BY <1>3, <1>9, <2>3, <3>1, <3>2, <3>3, GiveKeeps, ZenonT(60)
  <2> QED BY <2>13 DEF p
<1> QED BY <1>14, <1>15

LEMMA AudioInitInv ==
  ASSUME AudioInit
  PROVE  AudioIs(audio)
<1>1. /\ audio \in Audios /\ audio.queue = << >> /\ audio.samples_queued = 0 /\ audio.is_finished = FALSE
      /\ audio.came = 0 /\ audio.sent = << >> /\ audio.ended = FALSE
  <2>1. audio \in NewAudios BY DEF AudioInit
  <2>2. /\ audio.queue = << >> /\ audio.samples_queued = 0 /\ audio.is_finished = FALSE /\ audio.samples_sent = 0
        /\ audio.frames_sent = 0 /\ audio.came = 0 /\ audio.sent = << >> /\ audio.ended = FALSE
        /\ audio.frame_samples \in FrameSizes
    BY <2>1 DEF NewAudios
  <2>3. << >> \in Seq(Seq(Nat)) OBVIOUS
  <2>4. {<< >>} \subseteq Seq(Seq(Nat)) /\ {0} \subseteq Nat /\ {FALSE} \subseteq BOOLEAN BY <2>3
  <2>5. NewAudios \subseteq Audios BY <2>4, Zenon DEF NewAudios, Audios
  <2> QED BY <2>1, <2>2, <2>5
<1>2. Ordered(audio, 0) BY <1>1, OrderEmpty DEF Ordered
<1>3. Tailed(audio.queue, audio.is_finished) /\ Framed(audio) BY <1>1 DEF Tailed, Framed
<1> QED BY <1>1, <1>2, <1>3 DEF AudioIs

LEMMA TakeStep ==
  ASSUME AudioIs(audio), TakeQueued
  PROVE  AudioIs(audio')
<1>1. audio.frame_samples > 0 /\ ~audio.ended /\ Ready(audio) /\ audio' = process_audio_queue(audio)
  BY DEF TakeQueued
<1>2. AudioIs(process_audio_queue(audio)) BY <1>1, ProcessKeeps
<1> QED BY <1>1, <1>2

LEMMA JoinedNone == Joined(<< >>) = << >>
<1> DEFINE e == << >>
<1>1. FlattenSeq(e) = << >> BY DEF FlattenSeq
<1> QED BY <1>1 DEF Joined

LEMMA ReceiveStep ==
  ASSUME AudioIs(audio), NEW n \in Sizes \cup {0}, ReceiveFrame(n)
  PROVE  AudioIs(audio')
<1> DEFINE b == audio
           frame == [i \in 1 .. n |-> b.came + i]
           fin == n = 0
           sq == b.samples_queued + n
           came == b.came + n
           q == Append(b.queue, frame)
           a == [b EXCEPT !.is_finished = fin, !.samples_queued = sq, !.came = came, !.queue = q]
           fs == b.frames_sent + 1
           st == IF n = 0 THEN b.sent ELSE Append(b.sent, frame)
           z == [b EXCEPT !.frames_sent = fs, !.came = came, !.ended = fin, !.sent = st]
<1>1. b \in Audios BY DEF AudioIs
<1>2. /\ b.frame_samples \in Nat /\ b.samples_queued \in Nat /\ b.came \in Nat /\ b.sent \in Seq(Seq(Nat))
      /\ b.is_finished \in BOOLEAN /\ b.ended \in BOOLEAN /\ b.queue \in Seq(Seq(Nat)) /\ b.frames_sent \in Nat
  BY <1>1, AudioTypes
<1>3. n \in Nat BY AudioSizes
<1>4. /\ ~b.ended /\ (b.frame_samples > 0 => ~Ready(b))
      /\ audio' = IF b.frame_samples = 0 THEN z ELSE IF Ready(a) THEN process_audio_queue(a) ELSE a
  BY <1>1 DEF ReceiveFrame, Audios
<1>5. PICK d : Ordered(b, d) BY DEF AudioIs
<1>6. InOrder(b.sent, 0, d) /\ InOrder(b.queue, d, b.came) /\ b.samples_queued = b.came - d BY <1>5 DEF Ordered
<1>7. d \in Nat /\ d <= b.came BY <1>6, OrderTypes
<1>8. frame = Span(b.came, b.came + n)
  <2>1. (b.came + n) - b.came = n BY <1>2, <1>3
  <2> QED BY <2>1 DEF Span
<1>9. came \in Nat /\ b.came <= came /\ sq \in Nat /\ fin \in BOOLEAN /\ fs \in Nat BY <1>2, <1>3
<1>10. frame \in Seq(Nat) /\ (frame = << >> <=> n = 0)
  <2>1. b.came = came <=> n = 0 BY <1>2, <1>3
  <2>2. frame = Span(b.came, came) BY <1>8
  <2> HIDE DEF came, frame
  <2>3. Span(b.came, came) \in Seq(Nat) BY <1>2, <1>9, SpanLen
  <2>4. Span(b.came, came) = << >> <=> b.came = came BY <1>2, <1>9, SpanNone
  <2> QED BY <2>1, <2>2, <2>3, <2>4
<1>11. q \in Seq(Seq(Nat)) /\ Len(q) = Len(b.queue) + 1 /\ q[Len(q)] = frame /\ Len(b.queue) \in Nat
       /\ \A i \in 1 .. Len(b.queue) : q[i] = b.queue[i]
  <2> HIDE DEF frame
  <2> QED BY <1>2, <1>10
<1>12. InOrder(q, d, came)
  <2>1. InOrder(Append(b.queue, Span(b.came, came)), d, came) BY <1>6, <1>9, OrderAppend
  <2> QED BY <1>8, <2>1
<1> HIDE DEF b
<1>0. AudioIs(b) BY DEF b
<1>13. CASE b.frame_samples = 0
  <2>1. audio' = z BY <1>4, <1>13
  <2>2. b.queue = << >> /\ b.is_finished = FALSE BY <1>0, <1>2, <1>13 DEF AudioIs
  <2>3. d = b.came
    <3>1. Joined(b.queue) = Span(d, b.came) BY <1>6, OrderTypes
    <3>2. Joined(b.queue) = << >> BY <2>2, JoinedNone
    <3>3. Span(d, b.came) = << >> <=> d = b.came BY <1>2, <1>7, SpanNone
    <3> QED BY <3>1, <3>2, <3>3
  <2>4. st \in Seq(Seq(Nat)) /\ InOrder(st, 0, came)
    <3>1. CASE n = 0
      <4>1. came = d BY <1>2, <2>3, <3>1
      <4> QED BY <1>2, <1>6, <3>1, <4>1
    <3>2. CASE n # 0
      <4>1. InOrder(Append(b.sent, Span(d, came)), 0, came) BY <1>6, <1>9, <2>3, OrderAppend
      <4>2. InOrder(st, 0, came) BY <1>8, <2>3, <3>2, <4>1
      <4> QED BY <4>2, OrderTypes
    <3> QED BY <3>1, <3>2
  <2> HIDE DEF st, fin, came, fs
  <2>5. /\ z \in Audios /\ z.frame_samples = 0 /\ z.queue = b.queue /\ z.samples_queued = b.samples_queued
        /\ z.is_finished = b.is_finished /\ z.came = came /\ z.sent = st /\ z.ended = fin
    BY <1>1, <1>9, <1>13, <2>4 DEF Audios
  <2> HIDE DEF z
  <2>6. Ordered(z, came)
    <3>1. InOrder(z.queue, came, came) BY <1>9, <2>2, <2>5, OrderEmpty
    <3>2. z.samples_queued = came - came BY <1>2, <1>6, <1>9, <2>3, <2>5
    <3> QED BY <2>4, <2>5, <3>1, <3>2 DEF Ordered
  <2>7. Tailed(z.queue, z.is_finished) BY <2>2, <2>5 DEF Tailed
  <2>8. Framed(z) BY <2>5 DEF Framed
  <2>9. AudioIs(z) BY <2>2, <2>5, <2>6, <2>7, <2>8 DEF AudioIs
  <2> QED BY <2>1, <2>9
<1>14. CASE b.frame_samples # 0
  <2>1. b.frame_samples > 0 /\ ~Ready(b) BY <1>2, <1>4, <1>14
  <2>2. ~b.is_finished
    <3> SUFFICES ASSUME b.is_finished PROVE FALSE OBVIOUS
    <3>1. Closed(b.queue) BY <1>0, <1>4 DEF AudioIs
    <3>2. b.queue # << >> BY <3>1 DEF Closed
    <3> QED BY <2>1, <3>2 DEF Ready
  <2>3. Tailed(q, fin)
    <3> SUFFICES ASSUME NEW i \in 1 .. Len(q), q[i] = << >> PROVE i = Len(q) /\ fin BY DEF Tailed
    <3> HIDE DEF q, frame
    <3>1. i = Len(q)
      <4> SUFFICES ASSUME i # Len(q) PROVE FALSE OBVIOUS
      <4>1. i \in 1 .. Len(b.queue) BY <1>11
      <4>2. b.queue[i] = << >> BY <1>11, <4>1
      <4> QED BY <1>0, <2>2, <4>1, <4>2 DEF AudioIs, Tailed
    <3>2. fin BY <1>10, <1>11, <3>1
    <3> QED BY <3>1, <3>2
  <2>4. fin => Closed(q)
    <3> HIDE DEF q, frame
    <3> QED BY <1>10, <1>11 DEF Closed
  <2> HIDE DEF q, came, sq, fin, z
  <2>5. /\ a \in Audios /\ a.frame_samples = b.frame_samples /\ a.queue = q /\ a.samples_queued = sq
        /\ a.is_finished = fin /\ a.came = came /\ a.sent = b.sent /\ a.ended = b.ended
    BY <1>1, <1>9, <1>11 DEF Audios
  <2> HIDE DEF a
  <2>6. Ordered(a, d)
    <3>1. sq = came - d BY <1>2, <1>3, <1>6, <1>7 DEF sq, came
    <3> QED BY <1>6, <1>12, <2>5, <3>1 DEF Ordered
  <2>7. Framed(a)
    <3>1. \A i \in 1 .. Len(b.sent) : Len(b.sent[i]) = b.frame_samples BY <1>0, <2>1, <2>2 DEF AudioIs, Framed
    <3> QED BY <2>5, <3>1 DEF Framed
  <2>8. AudioIs(a)
    <3>1. a.frame_samples # 0 /\ ~a.ended BY <1>4, <1>14, <2>5
    <3> QED BY <2>3, <2>4, <2>5, <2>6, <2>7, <3>1 DEF AudioIs
  <2>9. CASE Ready(a)
    <3>1. a.frame_samples > 0 /\ ~a.ended BY <1>4, <2>1, <2>5
    <3>2. AudioIs(process_audio_queue(a)) BY <2>8, <2>9, <3>1, ProcessKeeps
    <3> QED BY <1>4, <1>14, <2>9, <3>2
  <2>10. CASE ~Ready(a) BY <1>4, <1>14, <2>8, <2>10
  <2> QED BY <2>9, <2>10
<1> QED BY <1>13, <1>14

LEMMA AudioKept ==
  ASSUME AudioIs(audio)
  PROVE  SamplesKept
<1> DEFINE a == audio
<1>1. PICK d : Ordered(a, d) BY DEF AudioIs
<1>2. InOrder(a.sent, 0, d) /\ InOrder(a.queue, d, a.came) /\ a.samples_queued = a.came - d BY <1>1 DEF Ordered
<1>3. d \in Nat /\ Joined(a.sent) = Span(0, d) BY <1>2, OrderTypes
<1>4. d <= a.came /\ a.came \in Nat /\ Joined(a.queue) = Span(d, a.came) BY <1>2, OrderTypes
<1>5. Span(0, d) \o Span(d, a.came) = Span(0, a.came)
  <2>1. 0 \in Nat /\ 0 <= d BY <1>3
  <2> QED BY <1>3, <1>4, <2>1, SpanJoin
<1>6. Span(0, a.came) = [i \in 1 .. a.came |-> i]
  <2>1. a.came - 0 = a.came /\ \A i \in 1 .. a.came : 0 + i = i BY <1>4
  <2> QED BY <2>1 DEF Span
<1>7. Len(Joined(a.queue)) = a.samples_queued BY <1>2, <1>3, <1>4, SpanLen
<1>8. Framed(a) /\ (a.ended => a.queue = << >>) BY DEF AudioIs
<1> QED BY <1>3, <1>4, <1>5, <1>6, <1>7, <1>8 DEF SamplesKept, Framed

(* AudioQueue: no sample is lost, repeated or moved by the regrouping, the *)
(* frames have the encoder's size but for the last, and the end comes when *)
(* nothing is left, for every frame size and every sequence of frames.     *)
THEOREM SamplesKeptAlways == AudioSpec => []SamplesKept
<1> DEFINE I == AudioIs(audio)
<1>1. AudioInit => I BY AudioInitInv
<1>2. I /\ [AudioNext]_audio => I'
  <2> SUFFICES ASSUME AudioIs(audio), [AudioNext]_audio PROVE AudioIs(audio') OBVIOUS
  <2>1. CASE TakeQueued BY <2>1, TakeStep
  <2>2. CASE \E n \in Sizes \cup {0} : ReceiveFrame(n) BY <2>2, ReceiveStep
  <2>3. CASE UNCHANGED audio BY <2>3
  <2> QED BY <2>1, <2>2, <2>3 DEF AudioNext
<1>3. I => SamplesKept BY AudioKept
<1> QED BY <1>1, <1>2, <1>3, PTL DEF AudioSpec
=============================================================================
