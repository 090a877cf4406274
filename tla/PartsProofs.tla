---------------------------- MODULE PartsProofs ----------------------------
(***************************************************************************)
(* Proofs about the sequential parts that MCParts checks on small          *)
(* instances.                                                              *)
(***************************************************************************)
EXTENDS DemuxClock, MuxClock, DecClock, VideoSync, HwDevices, Serving, Metadata, FiniteSetTheorems, SequenceTheorems,
        NaturalsInduction, WellFoundedInduction, TLAPS

-----------------------------------------------------------------------------
(* Products, quotients and rounding                                        *)

LEMMA Products ==
  /\ \A a \in Int, b \in Int : a * b \in Int
  /\ \A a \in Nat, b \in Nat : a * b \in Nat
  /\ \A a \in Nat \ {0}, b \in Nat \ {0} : a * b \in Nat \ {0}
OBVIOUS

LEMMA DivBounds ==
  ASSUME NEW a \in Int, NEW d \in Nat \ {0}
  PROVE  /\ a \div d \in Int /\ d * (a \div d) <= a /\ a < d * (a \div d) + d
         /\ a >= 0 => a \div d >= 0
OBVIOUS

LEMMA DivUnique ==
  ASSUME NEW a \in Int, NEW d \in Nat \ {0}, NEW q \in Int, d * q <= a, a < d * q + d
  PROVE  a \div d = q
OBVIOUS

LEMMA Monotone ==
  ASSUME NEW a \in Int, NEW b \in Int, NEW d \in Nat, a <= b
  PROVE  a * d <= b * d
OBVIOUS

LEMMA Cancel ==
  ASSUME NEW a \in Int, NEW b \in Int, NEW d \in Nat \ {0}, a * d < b * d
  PROVE  a < b
OBVIOUS

LEMMA NearExact ==
  ASSUME NEW a \in Int, NEW d \in Nat \ {0}
  PROVE  Near(a * d, d) = a
<1> DEFINE m == a * d
           n == a * (2 * d)
<1>1. m \in Int /\ n = 2 * m /\ 2 * d \in Nat \ {0} OBVIOUS
<1>2. (a >= 0 => m >= 0) /\ (a < 0 => m < 0) BY Monotone
<1>3. CASE a >= 0
  <2>1. (2 * m + d) \div (2 * d) = a BY <1>1, DivUnique
  <2> QED BY <1>2, <1>3, <2>1 DEF Near
<1>4. CASE a < 0
  <2>1. (2 * (-m) + d) \div (2 * d) = -a BY <1>1, DivUnique
  <2> QED BY <1>1, <1>2, <1>4, <2>1 DEF Near
<1> QED BY <1>3, <1>4

LEMMA NearBounds ==
  ASSUME NEW a \in Int, NEW d \in Nat \ {0}
  PROVE  /\ Near(a, d) \in Int
         /\ a >= 0 => Near(a, d) >= 0
         /\ a < 0 => Near(a, d) >= a
<1>1. CASE a >= 0
  <2>1. (2 * a + d) \div (2 * d) \in Int /\ (2 * a + d) \div (2 * d) >= 0 BY <1>1, DivBounds
  <2> QED BY <1>1, <2>1 DEF Near
<1>2. CASE a < 0
  <2> DEFINE n == -a
             q == (2 * n + d) \div (2 * d)
  <2>0. n \in Nat /\ 2 * d \in Nat \ {0} /\ 2 * n + d \in Int BY <1>2
  <2>1. q \in Int /\ (2 * d) * q <= 2 * n + d BY <2>0, DivBounds
  <2>2. Near(a, d) = -q BY <1>2 DEF Near
  <2> HIDE DEF q
  <2>3. 2 * n + d < (2 * d) * (n + 1)
    <3>1. n * d >= n * 1 BY <2>0
    <3> QED BY <2>0, <3>1
  <2>4. q * (2 * d) < (n + 1) * (2 * d) BY <2>0, <2>1, <2>3
  <2>5. q < n + 1 BY <2>0, <2>1, <2>4, Cancel
  <2> QED BY <1>2, <2>0, <2>1, <2>2, <2>5
<1> QED BY <1>1, <1>2

LEMMA NearQuarter ==
  ASSUME NEW a \in Int
  PROVE  /\ Near(a, 4) \in Int
         /\ 4 * Near(a, 4) - a <= 2 /\ a - 4 * Near(a, 4) <= 2
         /\ a >= 0 => Near(a, 4) >= 0
BY DEF Near

LEMMA NearTenths ==
  ASSUME NEW a \in Int, a >= 0
  PROVE  Near(a, 40) \in Nat
BY DEF Near

LEMMA MedianNat ==
  ASSUME NEW a \in Nat, NEW b \in Nat, NEW c \in Nat
  PROVE  Median(a, b, c) \in Nat
BY DEF Median, Larger, Smaller

LEMMA NoptsInt == NOPTS \in Int
BY SMT DEF NOPTS

-----------------------------------------------------------------------------
(* VideoSync.  Everything sent so far comes before the pts that is next,   *)
(* and the frame that is kept is the last one there was.                   *)

OutFrames == [frame : Nat, pts : Int]

Rising(q) == \A i \in 1 .. Len(q) - 1 : q[i].pts < q[i + 1].pts /\ q[i].frame <= q[i + 1].frame

(* What was sent comes before pts, and is of a frame up to last. *)
Before(q, pts, last) == Rising(q) /\ \A i \in DOMAIN q : q[i].pts < pts /\ q[i].frame <= last

Videos == [method : Methods, next_pts : Int, hist : Nat \X Nat \X Nat, last_dropped : BOOLEAN,
           frame_number : Int, got_frame : BOOLEAN, last : Nat, in : Nat, clock : Int,
           out : Seq(OutFrames), eof : BOOLEAN, dummy : BOOLEAN, sent : Int]

VInv == /\ video \in Videos
        /\ video.last = video.in
        /\ video.got_frame => video.last # 0
        /\ video.method # "passthrough" =>
             Before(video.out, video.next_pts, video.last)
        /\ KeepsPace

(* What fg_output_frame appends to a rising sequence leaves it rising. *)
LEMMA Extended ==
  ASSUME NEW q \in Seq(OutFrames), NEW n \in Nat, NEW start \in Int, NEW f \in [1 .. n -> Nat],
         NEW top \in Nat, Rising(q),
         \A i \in DOMAIN q : q[i].pts < start /\ q[i].frame <= top,
         \A i, j \in 1 .. n : i <= j => f[i] <= f[j],
         \A i \in 1 .. n : f[i] >= top
  PROVE  LET new == [i \in 1 .. n |-> [frame |-> f[i], pts |-> start + i - 1]]
         IN  /\ q \o new \in Seq(OutFrames) /\ Rising(q \o new)
             /\ \A i \in DOMAIN (q \o new) : (q \o new)[i].pts < start + n
             /\ \A i \in DOMAIN (q \o new) : n > 0 => (q \o new)[i].frame <= f[n]
<1> DEFINE new == [i \in 1 .. n |-> [frame |-> f[i], pts |-> start + i - 1]]
           all == q \o new
<1>1. new \in Seq(OutFrames) /\ Len(new) = n
  <2>1. ASSUME NEW i \in 1 .. n PROVE [frame |-> f[i], pts |-> start + i - 1] \in OutFrames
    <3>1. start + i - 1 \in Int OBVIOUS
    <3>2. f[i] \in Nat OBVIOUS
    <3> QED BY <3>1, <3>2 DEF OutFrames
  <2>2. new \in [1 .. n -> OutFrames] BY <2>1
  <2> HIDE DEF new
  <2> QED BY <2>2
<1>2. all \in Seq(OutFrames) /\ Len(all) = Len(q) + n BY <1>1
<1>3. \A i \in 1 .. Len(q) : all[i] = q[i] BY <1>1
<1>e. \A k \in 1 .. n : new[k].frame = f[k] /\ new[k].pts = start + k - 1 OBVIOUS
<1> HIDE DEF new
<1>a. \A k \in 1 .. n : all[Len(q) + k] = new[k] BY <1>1
<1>4. \A k \in 1 .. n : all[Len(q) + k].frame = f[k] /\ all[Len(q) + k].pts = start + k - 1
  BY <1>a, <1>e
<1> DEFINE l == Len(q)
<1>l. l \in Nat OBVIOUS
<1>f. \A k \in 1 .. n : f[k] \in Nat OBVIOUS
<1>q. \A i \in 1 .. l : q[i].frame \in Nat /\ q[i].pts \in Int
  <2>1. \A i \in 1 .. l : q[i] \in OutFrames OBVIOUS
  <2> QED BY <2>1 DEF OutFrames
<1> HIDE DEF l
<1>5. ASSUME NEW i \in 1 .. Len(all) - 1
      PROVE  all[i].pts < all[i + 1].pts /\ all[i].frame <= all[i + 1].frame
  <2>1. CASE i + 1 <= l BY <1>2, <1>3, <1>l, <2>1 DEF Rising, l
  <2>2. CASE i = l
    <3>1. all[i] = q[i] /\ i \in 1 .. l BY <1>3, <1>l, <2>2 DEF l
    <3>2. 1 \in 1 .. n BY <1>2, <1>l, <2>2 DEF l
    <3>3. all[i + 1].frame = f[1] /\ all[i + 1].pts = start BY <1>4, <2>2, <3>2 DEF l
    <3>4. q[i].pts < start /\ q[i].frame <= top BY <3>1 DEF l
    <3>5. q[i].frame <= f[1] BY <1>f, <1>q, <3>1, <3>2, <3>4
    <3> QED BY <3>1, <3>3, <3>4, <3>5
  <2>3. CASE i > l
    <3> DEFINE k == i - l
    <3>1. k \in 1 .. n /\ k + 1 \in 1 .. n /\ i = l + k /\ i + 1 = l + (k + 1) BY <1>2, <1>l, <2>3 DEF l
    <3> HIDE DEF k
    <3>2. f[k] <= f[k + 1] BY <3>1
    <3>3. all[i].frame = f[k] /\ all[i].pts = start + k - 1 BY <1>4, <3>1 DEF l
    <3>4. all[i + 1].frame = f[k + 1] /\ all[i + 1].pts = start + (k + 1) - 1 BY <1>4, <3>1 DEF l
    <3> QED BY <3>1, <3>2, <3>3, <3>4
  <2> QED BY <1>2, <1>l, <2>1, <2>2, <2>3
<1>6. ASSUME NEW i \in DOMAIN all
      PROVE  all[i].pts < start + n /\ (n > 0 => all[i].frame <= f[n])
  <2>1. CASE i <= l
    <3>1. all[i] = q[i] /\ i \in 1 .. l BY <1>2, <1>3, <1>l, <2>1 DEF l
    <3>2. n > 0 => f[n] >= top /\ f[n] \in Nat OBVIOUS
    <3>3. q[i].pts < start /\ q[i].frame <= top BY <3>1 DEF l
    <3> QED BY <1>q, <3>1, <3>2, <3>3
  <2>2. CASE i > l
    <3> DEFINE k == i - l
    <3>1. k \in 1 .. n /\ i = l + k BY <1>2, <1>l, <2>2 DEF l
    <3> HIDE DEF k
    <3>2. all[i].frame = f[k] /\ all[i].pts = start + k - 1 BY <1>4, <3>1 DEF l
    <3>3. f[k] <= f[n] /\ n > 0 BY <3>1
    <3> QED BY <3>1, <3>2, <3>3
  <2> QED BY <1>2, <1>l, <2>1, <2>2
<1> QED BY <1>2, <1>5, <1>6 DEF Rising, new

(* How many frames are sent, and from which pts on: never from an earlier  *)
(* one, and at a constant rate to within half a frame of the end.          *)
LEMMA SyncFacts ==
  ASSUME NEW v, v.next_pts \in Int, v.method \in VSyncMethods, NEW sync \in Int, NEW dur \in Int
  PROVE  LET s == Sync(v, sync, dur)
             delta == sync - 4 * v.next_pts + dur
         IN  /\ s.n \in Nat /\ s.prev \in Nat /\ s.pts \in Int
             /\ v.method # "passthrough" => s.pts >= v.next_pts
             /\ v.method = "cfr" =>
                  /\ s.pts = v.next_pts
                  /\ 4 * s.n - delta >= -2
                  /\ s.n > 0 => 10 * (4 * s.n - delta) <= 84
<1> DEFINE at == 4 * v.next_pts
           delta == sync - at + dur
           clip == sync < at /\ delta > 0 /\ v.method # "passthrough"
           delta0 == IF clip THEN 0 ELSE sync - at
           start == IF clip THEN v.next_pts ELSE Near(sync, 4)
           s == Sync(v, sync, dur)
<1>0. at \in Int /\ delta \in Int /\ Near(sync, 4) \in Int
  <2>1. at \in Int OBVIOUS
  <2> HIDE DEF at
  <2>2. delta \in Int BY <2>1
  <2>3. Near(sync, 4) \in Int BY NearQuarter
  <2> QED BY <2>1, <2>2, <2>3
<1>1. start \in Int /\ delta0 \in Int /\ delta \in Int BY <1>0
<1>2. v.method # "passthrough" /\ (delta > 0 \/ delta0 > 0) => start >= v.next_pts
  <2>1. sync >= at => Near(sync, 4) >= v.next_pts BY NearQuarter
  <2> QED BY <2>1
<1>3. 10 * delta > 44 => /\ Near(delta, 4) \in Nat \ {0}
                         /\ 4 * Near(delta, 4) - delta >= -2 /\ 4 * Near(delta, 4) - delta <= 2
  <2>1. /\ Near(delta, 4) \in Int
        /\ 4 * Near(delta, 4) - delta <= 2 /\ delta - 4 * Near(delta, 4) <= 2
    BY NearQuarter, <1>1
  <2> HIDE DEF delta
  <2> QED BY <1>1, <2>1
<1>4. 10 * delta0 > 44 => Near(10 * delta0 - 24, 40) \in Nat
  BY NearTenths, <1>1
<1> HIDE DEF start, delta0
<1>5. CASE v.method = "cfr"
  <2>1. s = [n |-> IF 10 * delta < -44 THEN 0 ELSE IF 10 * delta > 44 THEN Near(delta, 4) ELSE 1,
             prev |-> IF 10 * delta > 44 /\ 10 * delta0 > 44 THEN Near(10 * delta0 - 24, 40) ELSE 0,
             pts |-> v.next_pts]
    BY <1>5 DEF Sync, delta0
  <2> HIDE DEF delta, s
  <2>2. s.n = (IF 10 * delta < -44 THEN 0 ELSE IF 10 * delta > 44 THEN Near(delta, 4) ELSE 1) /\ s.pts = v.next_pts
    BY <2>1
  <2>3. s.prev \in Nat BY <2>1, <1>4
  <2>4. s.n \in Nat /\ 4 * s.n - delta >= -2 /\ (s.n > 0 => 10 * (4 * s.n - delta) <= 84)
    BY <2>2, <1>1, <1>3
  <2> QED BY <1>5, <2>2, <2>3, <2>4 DEF delta, s
<1>6. CASE v.method = "vfr"
  <2>1. s = [n |-> IF 10 * delta <= -24 THEN 0 ELSE 1, prev |-> 0,
             pts |-> IF 10 * delta > 24 THEN start ELSE v.next_pts]
    BY <1>6 DEF Sync, start
  <2> HIDE DEF delta, s
  <2> QED BY <1>1, <1>2, <1>6, <2>1 DEF s
<1>7. CASE v.method = "vscfr"
  <2>1. s = [n |-> 1, prev |-> 0,
             pts |-> IF v.frame_number = 0 /\ delta0 >= 2 THEN start ELSE v.next_pts]
    BY <1>7 DEF Sync, start, delta0
  <2> HIDE DEF delta, s
  <2> QED BY <1>1, <1>2, <1>7, <2>1 DEF s
<1>8. CASE v.method = "passthrough"
  <2>1. s = [n |-> 1, prev |-> 0, pts |-> start]
    BY <1>8 DEF Sync, start
  <2> QED BY <1>1, <1>8, <2>1
<1> QED BY <1>5, <1>6, <1>7, <1>8 DEF VSyncMethods

LEMMA NotedFacts ==
  ASSUME NEW v \in Videos, NEW n \in Nat, NEW prev \in Nat, NEW pts \in Int
  PROVE  LET w == Noted([v EXCEPT !.next_pts = pts], n, prev)
         IN  /\ w \in Videos /\ w.next_pts = pts
             /\ w.method = v.method /\ w.last = v.last /\ w.out = v.out /\ w.in = v.in
             /\ w.clock = v.clock /\ w.got_frame = v.got_frame /\ w.eof = v.eof
<1>1. v.hist \in Nat \X Nat \X Nat BY DEF Videos
<1>2. <<prev, v.hist[1], v.hist[2]>> \in Nat \X Nat \X Nat BY <1>1
<1> DEFINE u == [v EXCEPT !.next_pts = pts]
<1>3. u \in Videos /\ u.next_pts = pts /\ u.hist = v.hist
  BY DEF Videos
<1>4. /\ u.method = v.method /\ u.last = v.last /\ u.out = v.out /\ u.in = v.in
      /\ u.clock = v.clock /\ u.got_frame = v.got_frame /\ u.eof = v.eof
  BY DEF Videos
<1> HIDE DEF u
<1>5. Noted(u, n, prev) \in Videos
  BY <1>2, <1>3 DEF Videos, Noted
<1>6. LET w == Noted(u, n, prev) IN
        /\ w.next_pts = pts /\ w.method = v.method /\ w.last = v.last /\ w.out = v.out /\ w.in = v.in
        /\ w.clock = v.clock /\ w.got_frame = v.got_frame /\ w.eof = v.eof
  BY <1>3, <1>4 DEF Videos, Noted
<1> QED BY <1>5, <1>6 DEF u

LEMMA SentFacts ==
  ASSUME NEW v \in Videos, NEW n \in Nat, NEW prev \in Nat, NEW frame \in Nat, NEW bound \in Nat,
         \/ bound = frame /\ frame >= v.last
         \/ bound = v.last /\ v.last # 0 /\ n <= prev
  PROVE  LET w == Sent(v, n, prev, frame)
         IN  /\ w \in Videos /\ w.next_pts = v.next_pts + n
             /\ w.method = v.method /\ w.last = v.last /\ w.in = v.in
             /\ w.clock = v.clock /\ w.eof = v.eof /\ (w.got_frame <=> v.got_frame \/ n > 0)
             /\ Before(v.out, v.next_pts, v.last) => Before(w.out, w.next_pts, bound)
<1> DEFINE w == Sent(v, n, prev, frame)
           f == [i \in 1 .. n |-> IF i <= prev /\ v.last # 0 THEN v.last ELSE frame]
           new == [i \in 1 .. n |-> [frame |-> f[i], pts |-> v.next_pts + i - 1]]
           all == v.out \o new
<1>1. /\ v.next_pts \in Int /\ v.last \in Nat /\ v.out \in Seq(OutFrames) /\ v.frame_number \in Int
      /\ v.got_frame \in BOOLEAN
  BY DEF Videos
<1>2. f \in [1 .. n -> Nat] BY <1>1
<1>3. \A i \in 1 .. n : f[i] = (IF i <= prev /\ v.last # 0 THEN v.last ELSE frame) OBVIOUS
<1> HIDE DEF f
<1>4. /\ \A i \in 1 .. n : f[i] >= v.last /\ f[i] <= bound
      /\ \A i, j \in 1 .. n : i <= j => f[i] <= f[j]
  BY <1>1, <1>3
<1>5. new \in Seq(OutFrames) /\ Len(new) = n
  <2>1. ASSUME NEW i \in 1 .. n PROVE [frame |-> f[i], pts |-> v.next_pts + i - 1] \in OutFrames
    <3>1. v.next_pts + i - 1 \in Int BY <1>1
    <3>2. f[i] \in Nat BY <1>2
    <3> QED BY <3>1, <3>2 DEF OutFrames
  <2>2. new \in [1 .. n -> OutFrames] BY <2>1
  <2> HIDE DEF new
  <2> QED BY <2>2
<1>6. w = [v EXCEPT !.out = all, !.next_pts = v.next_pts + n, !.frame_number = v.frame_number + n,
                    !.got_frame = v.got_frame \/ n > 0]
  <2>1. new = [i \in 1 .. n |-> [frame |-> IF i <= prev /\ v.last # 0 THEN v.last ELSE frame,
                                pts |-> v.next_pts + i - 1]]
    BY <1>3
  <2> HIDE DEF new
  <2> QED BY <2>1 DEF Sent
<1>7. all \in Seq(OutFrames) BY <1>1, <1>5
<1>8. Before(v.out, v.next_pts, v.last) => Before(all, v.next_pts + n, bound)
  <2> SUFFICES ASSUME Before(v.out, v.next_pts, v.last) PROVE Before(all, v.next_pts + n, bound) OBVIOUS
  <2>1. /\ Rising(all) /\ \A i \in DOMAIN all : all[i].pts < v.next_pts + n
        /\ \A i \in DOMAIN all : n > 0 => all[i].frame <= f[n]
    BY <1>1, <1>2, <1>4, Extended DEF Before
  <2>2. ASSUME NEW i \in DOMAIN all PROVE all[i].frame <= bound
    <3>0. all[i] \in OutFrames BY <1>7
    <3>1. all[i].frame \in Nat BY <3>0 DEF OutFrames
    <3>2. CASE n > 0
      <4>1. f[n] <= bound /\ f[n] \in Nat BY <1>2, <1>4, <3>2
      <4>2. all[i].frame <= f[n] BY <2>1, <3>2
      <4> HIDE DEF all
      <4> QED BY <3>1, <4>1, <4>2
    <3>3. CASE n = 0
      <4>1. i \in DOMAIN v.out /\ all[i] = v.out[i]
        <5> HIDE DEF new
        <5> QED BY <1>1, <1>5, <3>3
      <4>2. v.out[i].frame <= v.last /\ v.last <= bound BY <1>1, <4>1 DEF Before
      <4> HIDE DEF all
      <4> QED BY <1>1, <3>1, <4>1, <4>2
    <3> QED BY <3>2, <3>3
  <2> HIDE DEF all
  <2> QED BY <2>1, <2>2 DEF Before
<1> HIDE DEF all, w
<1>9. w \in Videos
  <2> DEFINE x == v.next_pts + n
             y == v.frame_number + n
             g == v.got_frame \/ n > 0
  <2>1. x \in Int /\ y \in Int BY <1>1
  <2>2. g \in BOOLEAN OBVIOUS
  <2>3. w = [v EXCEPT !.out = all, !.next_pts = x, !.frame_number = y, !.got_frame = g] BY <1>6
  <2> HIDE DEF x, y, g
  <2> QED BY <1>7, <2>1, <2>2, <2>3 DEF Videos
<1>10. /\ w.next_pts = v.next_pts + n /\ w.out = all
       /\ w.method = v.method /\ w.last = v.last /\ w.in = v.in
       /\ w.clock = v.clock /\ w.eof = v.eof /\ w.got_frame = (v.got_frame \/ n > 0)
  BY <1>6 DEF Videos
<1> QED BY <1>8, <1>9, <1>10 DEF w

LEMMA VInvInit == VideoInit => VInv
<1> SUFFICES ASSUME VideoInit PROVE VInv OBVIOUS
<1>1. /\ video.out = <<>> /\ video.last = video.in /\ ~video.got_frame /\ video.sent = NOPTS
  BY DEF VideoInit, NewVideos
<1>2. video \in Videos
  <2>1. <<0, 0, 0>> \in Nat \X Nat \X Nat /\ <<>> \in Seq(OutFrames) OBVIOUS
  <2>2. {0} \subseteq Int /\ {0} \subseteq Nat /\ {FALSE} \subseteq BOOLEAN /\ {NOPTS} \subseteq Int
        /\ {<<0, 0, 0>>} \subseteq Nat \X Nat \X Nat /\ {<<>>} \subseteq Seq(OutFrames)
    BY <2>1, NoptsInt
  <2> QED BY <2>2, Zenon DEF VideoInit, NewVideos, Videos
<1> QED BY <1>1, <1>2 DEF VInv, Rising, Before, KeepsPace

LEMMA OutputFrameStep ==
  ASSUME VInv, NEW gap \in Gaps \cup {NOPTS}, NEW dur \in Durations, OutputFrame(gap, dur)
  PROVE  VInv'
<1> DEFINE sync == IF gap = NOPTS THEN NOPTS ELSE video.clock + gap
           s == Sync(video, sync, dur)
           k == video.in + 1
           v == Noted([video EXCEPT !.next_pts = s.pts], s.n, s.prev)
           w == Sent(v, s.n, s.prev, k)
           sent == IF gap = NOPTS THEN NOPTS ELSE s.n
           clock == IF gap = NOPTS THEN w.clock ELSE sync + dur
<1>1. /\ video.next_pts \in Int /\ video.clock \in Int /\ video.in \in Nat /\ video.last = video.in
      /\ video.method \in VSyncMethods /\ video.out \in Seq(OutFrames) /\ dur \in Int /\ gap \in Int
  BY VideoAssumption, NoptsInt DEF VInv, Videos
<1>2. sync \in Int BY <1>1, NoptsInt
<1>3. k \in Nat /\ k > video.last BY <1>1
<1> HIDE DEF sync
<1>4. /\ s.n \in Nat /\ s.prev \in Nat /\ s.pts \in Int
      /\ video.method # "passthrough" => s.pts >= video.next_pts
      /\ video.method = "cfr" =>
           /\ s.pts = video.next_pts
           /\ 4 * s.n - (sync - 4 * video.next_pts + dur) >= -2
           /\ s.n > 0 => 10 * (4 * s.n - (sync - 4 * video.next_pts + dur)) <= 84
  BY <1>1, <1>2, SyncFacts
<1>5. video' = [w EXCEPT !.last = k, !.in = k, !.sent = sent, !.clock = clock]
  BY DEF OutputFrame, sync
<1> HIDE DEF s, k
<1>6. /\ v \in Videos /\ v.next_pts = s.pts /\ v.method = video.method /\ v.last = video.last
      /\ v.out = video.out /\ v.in = video.in /\ v.clock = video.clock
  BY <1>4, NotedFacts DEF VInv
<1> HIDE DEF v
<1>7. /\ w \in Videos /\ w.next_pts = s.pts + s.n /\ w.method = video.method /\ w.clock = video.clock
      /\ Before(v.out, v.next_pts, v.last) => Before(w.out, w.next_pts, k)
  <2>1. k \in Nat /\ k = k /\ k >= v.last BY <1>1, <1>3, <1>6
  <2>2. s.n \in Nat /\ s.prev \in Nat BY <1>4
  <2>3. /\ w \in Videos /\ w.next_pts = v.next_pts + s.n /\ w.method = v.method /\ w.clock = v.clock
        /\ Before(v.out, v.next_pts, v.last) => Before(w.out, w.next_pts, k)
    BY <1>6, <2>1, <2>2, SentFacts, SMTT(30)
  <2> HIDE DEF w
  <2> QED BY <1>6, <2>3
<1>8. sent \in Int /\ clock \in Int BY <1>1, <1>2, <1>4, <1>7, NoptsInt
<1> HIDE DEF w, sent, clock
<1>9. video' \in Videos BY <1>3, <1>5, <1>7, <1>8 DEF Videos
<1>10. /\ video'.method = video.method /\ video'.last = k /\ video'.in = k /\ video'.next_pts = s.pts + s.n
       /\ video'.out = w.out /\ video'.sent = sent /\ video'.clock = clock
  BY <1>5, <1>7 DEF Videos
<1>11. video.method # "passthrough" => Before(w.out, s.pts + s.n, k)
  <2> SUFFICES ASSUME video.method # "passthrough" PROVE Before(v.out, v.next_pts, v.last) BY <1>7
  <2>1. Before(video.out, video.next_pts, video.last) BY DEF VInv
  <2>2. \A i \in DOMAIN video.out : video.out[i] \in OutFrames BY <1>1
  <2>3. \A i \in DOMAIN video.out : video.out[i].pts \in Int BY <2>2 DEF OutFrames
  <2>4. \A i \in DOMAIN video.out : video.out[i].pts < s.pts BY <1>1, <1>4, <2>1, <2>3 DEF Before
  <2> QED BY <1>6, <2>1, <2>4 DEF Before
<1>12. KeepsPace'
  <2>1. CASE gap = NOPTS
    <3>1. video'.sent = NOPTS BY <1>10, <2>1 DEF sent
    <3> QED BY <3>1 DEF KeepsPace
  <2>2. CASE gap # NOPTS
    <3>1. video'.clock = sync + dur /\ video'.sent = s.n BY <1>10, <2>2 DEF sent, clock
    <3>2. ASSUME video.method = "cfr"
          PROVE  LET ahead == 4 * video'.next_pts - video'.clock
                 IN  ahead >= -2 /\ (s.n > 0 => 10 * ahead <= 84)
      <4>1. 4 * video'.next_pts - video'.clock = 4 * s.n - (sync - 4 * video.next_pts + dur)
        BY <1>1, <1>2, <1>4, <1>10, <3>1, <3>2
      <4> QED BY <1>4, <3>2, <4>1
    <3> QED BY <1>10, <3>1, <3>2 DEF KeepsPace
  <2> QED BY <2>1, <2>2
<1> QED BY <1>3, <1>1, <1>9, <1>10, <1>11, <1>12 DEF VInv

LEMMA OutputEofStep ==
  ASSUME VInv, OutputEof
  PROVE  VInv'
<1> DEFINE n == mid_pred(video.hist[1], video.hist[2], video.hist[3])
           v == [video EXCEPT !.hist = <<n, video.hist[1], video.hist[2]>>, !.last_dropped = FALSE]
           w == Sent(v, n, n, 0)
<1>1. /\ video \in Videos /\ video.last = video.in /\ video.last \in Nat
      /\ video.hist \in Nat \X Nat \X Nat
  BY DEF VInv, Videos
<1>2. n \in Nat BY <1>1, MedianNat DEF mid_pred
<1>3. video' = [(IF video.got_frame THEN w ELSE video) EXCEPT !.eof = TRUE, !.dummy = ~video.got_frame]
  BY DEF OutputEof
<1> HIDE DEF n
<1>4. CASE ~video.got_frame
  <2>1. video' = [video EXCEPT !.eof = TRUE, !.dummy = TRUE] BY <1>3, <1>4
  <2>2. /\ video' \in Videos /\ video'.last = video.last /\ video'.in = video.in
        /\ video'.got_frame = video.got_frame /\ video'.method = video.method
        /\ video'.out = video.out /\ video'.next_pts = video.next_pts /\ video'.eof
    BY <1>1, <2>1 DEF Videos
  <2> QED BY <2>2 DEF VInv, KeepsPace
<1>5. CASE video.got_frame
  <2>0. video.last # 0 BY <1>5 DEF VInv
  <2>1. <<n, video.hist[1], video.hist[2]>> \in Nat \X Nat \X Nat BY <1>1, <1>2
  <2>2. /\ v \in Videos /\ v.next_pts = video.next_pts /\ v.method = video.method /\ v.last = video.last
        /\ v.out = video.out /\ v.in = video.in
    BY <1>1, <2>1 DEF Videos
  <2> HIDE DEF v
  <2>3. /\ w \in Videos /\ w.method = video.method /\ w.last = video.last /\ w.in = video.in
        /\ Before(v.out, v.next_pts, v.last) => Before(w.out, w.next_pts, video.last)
    <3>1. video.last = v.last /\ v.last # 0 /\ n <= n BY <1>2, <2>0, <2>2
    <3>2. /\ w \in Videos /\ w.method = v.method /\ w.last = v.last /\ w.in = v.in
          /\ Before(v.out, v.next_pts, v.last) => Before(w.out, w.next_pts, video.last)
      <4> DEFINE zero == 0
      <4>1. zero \in Nat OBVIOUS
      <4> HIDE DEF zero
      <4>2. v.last \in Nat /\ (\/ v.last = zero /\ zero >= v.last
                               \/ v.last = v.last /\ v.last # 0 /\ n <= n)
        BY <1>1, <2>2, <3>1
      <4> DEFINE x == Sent(v, n, n, zero)
      <4>3. /\ x \in Videos /\ x.method = v.method /\ x.last = v.last /\ x.in = v.in
            /\ Before(v.out, v.next_pts, v.last) => Before(x.out, x.next_pts, v.last)
        BY <1>2, <2>2, <4>1, <4>2, SentFacts
      <4> QED BY <2>2, <4>3 DEF zero
    <3> QED BY <2>2, <3>2
  <2> HIDE DEF w
  <2>4. video' = [w EXCEPT !.eof = TRUE, !.dummy = FALSE] BY <1>3, <1>5
  <2>5. /\ video' \in Videos /\ video'.last = w.last /\ video'.in = w.in
        /\ video'.method = w.method /\ video'.out = w.out /\ video'.next_pts = w.next_pts /\ video'.eof
    BY <2>3, <2>4 DEF Videos
  <2>6. video.method # "passthrough" => Before(video'.out, video'.next_pts, video'.last)
    BY <2>2, <2>3, <2>5 DEF VInv
  <2> QED BY <1>1, <2>0, <2>3, <2>5, <2>6 DEF VInv, KeepsPace
<1> QED BY <1>4, <1>5

(* Whatever gaps and durations the frames of the graph have, the frames    *)
(* sent to the encoder have rising pts in the order of their sources, and  *)
(* a constant rate stays within half a frame of its input.                 *)
THEOREM FramesPacedAlways == VideoSpec => []FramesPaced
<1>1. VInv /\ [VideoNext]_video => VInv'
  <2> SUFFICES ASSUME VInv, [VideoNext]_video PROVE VInv' OBVIOUS
  <2>1. CASE UNCHANGED video BY <2>1 DEF VInv, KeepsPace
  <2>2. CASE VideoNext BY <2>2, OutputEofStep, OutputFrameStep DEF VideoNext
  <2> QED BY <2>1, <2>2
<1>2. VInv => FramesPaced
  <2> SUFFICES ASSUME VInv PROVE FramesPaced OBVIOUS
  <2>1. PtsRise BY DEF VInv, Before, Rising, PtsRise
  <2> QED BY <2>1 DEF VInv, FramesPaced
<1> QED BY VInvInit, <1>1, <1>2, PTL DEF VideoSpec

-----------------------------------------------------------------------------
(* Sequences, and smallest elements                                        *)

LEMMA SeqMonotone ==
  ASSUME NEW A, NEW B, A \subseteq B, NEW q \in Seq(A)
  PROVE  q \in Seq(B)
<1>1. Len(q) \in Nat /\ q \in [1 .. Len(q) -> A] OBVIOUS
<1>2. q \in [1 .. Len(q) -> B] BY <1>1
<1> QED BY <1>1, <1>2

LEMMA LeastNat ==
  ASSUME NEW S \in SUBSET Nat, S # {}
  PROVE  \E x \in S : \A y \in S : x <= y
<1>1. PICK x \in S : \A y \in S : ~(<<y, x>> \in OpToRel(<, Nat))
  BY NatLessThanWellFounded, WFMin
<1>2. \A y \in S : ~(y < x) BY <1>1 DEF OpToRel
<1> QED BY <1>2

LEMMA MinInSet ==
  ASSUME NEW S \in SUBSET Nat, S # {}
  PROVE  Min(S) \in S /\ \A y \in S : Min(S) <= y
BY LeastNat DEF Min

-----------------------------------------------------------------------------
(* HwDevices.  A decoder that goes on to be opened with a hwaccel of its   *)
(* own has a device of its type, unless its codec knows of none.           *)

(* STRING; the provers do not know that these literals are in it *)
Texts == STRING \cup {"", "none", "auto", "generic", "cuda", "start", "create", "add", "open", "done", "error"}
HwDevice == [name : Texts \X Nat, type : Texts]
HwDecoders == [pc : Texts, ask : Accels, configs : Configs, id : {"none", "auto", "generic"}, type : Texts, dev : HwDevice,
               try : Nat, name : Texts \X Nat, fmt : Texts]

Fits(d) ==
  /\ d.pc = "add" => d.type \in Working
  /\ d.pc # "done" => d.fmt = ""
  /\ d.pc = "start" => d.dev = NoDevice
  /\ d.pc \in {"open", "done"} /\ d.id # "none" =>
       /\ d.configs # <<>> => d.dev # NoDevice
       /\ d.dev # NoDevice => d.dev.type = d.type
  /\ d.pc = "done" /\ d.fmt \notin {"", "sw", "none"} =>
       d.dev # NoDevice /\ \E c \in Range(d.configs) : c.fmt = d.fmt /\ c.type = d.dev.type

HwInv == /\ hw_devices \in Seq(HwDevice)
         /\ dec \in [Decoders -> HwDecoders]
         /\ \A i \in Decoders : Fits(dec[i])

LEMMA NoDeviceType == NoDevice \in HwDevice /\ NoName \in Texts \X Nat
<1>1. NoName \in Texts \X Nat BY DEF NoName, Texts
<1> QED BY <1>1 DEF NoDevice, NoType, HwDevice, Texts

LEMMA ByName ==
  ASSUME hw_devices \in Seq(HwDevice), NEW n
  PROVE  hw_device_get_by_name(n) \in HwDevice
<1> DEFINE I == {i \in 1 .. Len(hw_devices) : hw_devices[i].name = n}
<1>1. CASE by_name(n) = {} BY <1>1, NoDeviceType DEF hw_device_get_by_name
<1>2. CASE by_name(n) # {}
  <2>1. I # {} /\ I \in SUBSET Nat BY <1>2 DEF by_name, Range
  <2>2. Min(I) \in I
    <3> HIDE DEF I
    <3> QED BY <2>1, MinInSet
  <2>3. hw_device_get_by_name(n) = hw_devices[Min(I)] BY <1>2, <2>1 DEF hw_device_get_by_name, SelectInSeq
  <2> QED BY <2>2, <2>3
<1> QED BY <1>1, <1>2

LEMMA ByType ==
  ASSUME hw_devices \in Seq(HwDevice), NEW t
  PROVE  LET d == hw_device_get_by_type(t) IN d \in HwDevice /\ (d # NoDevice => d.type = t)
<1> DEFINE I == {i \in 1 .. Len(hw_devices) : hw_devices[i].type = t}
<1>0. I = {i \in DOMAIN hw_devices : hw_devices[i].type = t} OBVIOUS
<1>1. CASE Cardinality(I) = 1
  <2>0. I \in SUBSET Nat OBVIOUS
  <2>1. I # {}
    <3> HIDE DEF I
    <3>1. Cardinality({}) = 0 BY FS_EmptySet
    <3>2. 0 # 1 OBVIOUS
    <3> QED BY <1>1, <3>1, <3>2, Zenon
  <2>2. Min(I) \in I
    <3> HIDE DEF I
    <3> QED BY <2>0, <2>1, MinInSet
  <2>3. hw_device_get_by_type(t) = hw_devices[Min(I)] BY <1>0, <1>1, <2>1 DEF hw_device_get_by_type, SelectInSeq
  <2> QED BY <2>2, <2>3
<1>2. CASE Cardinality(I) # 1
  <2>1. hw_device_get_by_type(t) = NoDevice BY <1>0, <1>2 DEF hw_device_get_by_type
  <2> QED BY <2>1, NoDeviceType
<1> QED BY <1>1, <1>2

LEMMA ByCodec ==
  ASSUME hw_devices \in Seq(HwDevice), NEW configs
  PROVE  hw_device_match_by_codec(configs) \in HwDevice
BY ByType, NoDeviceType DEF hw_device_match_by_codec

LEMMA HwInvInit == HwInit => HwInv
<1> SUFFICES ASSUME HwInit PROVE HwInv OBVIOUS
<1>1. hw_devices \in Seq(HwDevice)
  <2>1. [name : HwNames, type : STRING] \subseteq HwDevice BY DEF HwNames, HwDevice, Texts
  <2>2. hw_devices \in Seq([name : HwNames, type : STRING]) BY HwAssumption DEF HwInit, NewDevices
  <2> QED BY <2>1, <2>2, SeqMonotone
<1>2. ASSUME NEW a \in Accels, NEW c \in Configs
      PROVE  NewDecoder(a, c) \in HwDecoders /\ Fits(NewDecoder(a, c))
  <2>1. a.accel \in Texts BY HwAssumption DEF Texts
  <2>2. find_hwaccel(a.accel).id \in {"none", "auto", "generic"} /\ find_hwaccel(a.accel).type \in Texts
    <3> DEFINE x == a.accel
    <3> HIDE DEF x
    <3>1. x = "none" => find_hwaccel(x) = [id |-> "none", type |-> "none"] BY DEF find_hwaccel, NoType
    <3>2. x = "auto" => find_hwaccel(x) = [id |-> "auto", type |-> "none"] BY DEF find_hwaccel, NoType
    <3>3. x \in {"nvdec", "cuvid"} => find_hwaccel(x) = [id |-> "generic", type |-> "cuda"] BY DEF find_hwaccel
    <3>4. x \notin {"none", "auto", "nvdec", "cuvid"} => find_hwaccel(x) = [id |-> "generic", type |-> x]
      BY DEF find_hwaccel
    <3>5. x \in Texts BY <2>1 DEF x
    <3> DEFINE Known == find_hwaccel(x).id \in {"none", "auto", "generic"} /\ find_hwaccel(x).type \in Texts
    <3>6. ASSUME x \in {"none", "auto"} PROVE Known
      <4>1. find_hwaccel(x).id = x /\ find_hwaccel(x).type = "none" BY <3>1, <3>2, <3>6
      <4> QED BY <3>5, <3>6, <4>1 DEF Texts
    <3>7. ASSUME x \in {"nvdec", "cuvid"} PROVE Known
      <4>1. find_hwaccel(x).id = "generic" /\ find_hwaccel(x).type = "cuda" BY <3>3, <3>7
      <4> QED BY <4>1 DEF Texts
    <3>8. ASSUME x \notin {"none", "auto", "nvdec", "cuvid"} PROVE Known
      <4>1. find_hwaccel(x).id = "generic" /\ find_hwaccel(x).type = x BY <3>4, <3>8
      <4> QED BY <3>5, <4>1 DEF Texts
    <3>9. Known BY <3>6, <3>7, <3>8
    <3> QED BY <3>9 DEF x
  <2>3. NewDecoder(a, c) \in HwDecoders
    <3> QED BY <2>2, NoDeviceType DEF NewDecoder, HwDecoders, Texts
  <2> QED BY <2>3 DEF NewDecoder, Fits
<1>3. \A i \in Decoders : \E a \in Accels, c \in Configs : dec[i] = NewDecoder(a, c)
  BY DEF HwInit, NewHwDecoders
<1>4. dec \in [Decoders -> HwDecoders]
  <2>1. {NewDecoder(a, c) : a \in Accels, c \in Configs} \subseteq HwDecoders BY <1>2
  <2> QED BY <2>1 DEF HwInit, NewHwDecoders
<1> QED BY <1>1, <1>2, <1>3, <1>4 DEF HwInv

LEMMA SetupStep ==
  ASSUME HwInv, NEW i \in Decoders, Setup(i)
  PROVE  \E e \in HwDecoders : To(i, e) /\ Fits(e)
<1> DEFINE d == dec[i]
           named == hw_device_get_by_name(d.ask.device)
           same == hw_device_get_by_type(d.type)
           matched == hw_device_match_by_codec(d.configs)
           other == IF d.ask.device # NoName THEN NoDevice ELSE matched
           found == d.ask.device # NoName /\ named # NoDevice
<1>1. d \in HwDecoders /\ Fits(d) /\ d.pc = "start" BY DEF HwInv, Setup
<1>2. named \in HwDevice /\ same \in HwDevice /\ other \in HwDevice /\ (same # NoDevice => same.type = d.type)
  BY ByName, ByType, ByCodec, NoDeviceType DEF HwInv
<1>3. d.fmt = "" BY <1>1 DEF Fits
<1>4. \/ found /\ d.id = "auto" /\ To(i, Attached([d EXCEPT !.type = named.type], named))
      \/ To(i, [d EXCEPT !.pc = "error"])
      \/ found /\ d.type = named.type /\ To(i, Attached(d, named))
      \/ ~found /\ d.id = "auto" /\ d.configs = <<>> /\ To(i, [d EXCEPT !.pc = "open"])
      \/ To(i, [d EXCEPT !.pc = "auto"])
      \/ same # NoDevice /\ To(i, Attached(d, same))
      \/ To(i, [d EXCEPT !.pc = "create"])
      \/ d.id \notin {"auto", "generic"} /\ To(i, Attached(d, other))
  BY DEF Setup
<1> HIDE DEF d, named, same, other, matched
<1>5. ASSUME NEW x \in {"error", "auto", "create"}, To(i, [d EXCEPT !.pc = x])
      PROVE  \E e \in HwDecoders : To(i, e) /\ Fits(e)
  <2> DEFINE e == [d EXCEPT !.pc = x]
  <2>1. e \in HwDecoders /\ e.pc = x /\ e.fmt = "" BY <1>1, <1>3, <1>5 DEF HwDecoders, Texts
  <2> HIDE DEF e
  <2> QED BY <1>5, <2>1 DEF Fits, e
<1>6. ASSUME NEW dev \in HwDevice, dev # NoDevice, To(i, Attached(d, dev)), dev.type = d.type
      PROVE  \E e \in HwDecoders : To(i, e) /\ Fits(e)
  <2> DEFINE e == Attached(d, dev)
  <2>1. /\ e \in HwDecoders /\ e.pc = "open" /\ e.fmt = "" /\ e.dev = dev /\ e.type = d.type
    BY <1>1, <1>3 DEF HwDecoders, Texts, Attached
  <2> HIDE DEF e
  <2> QED BY <1>6, <2>1 DEF Fits, e
<1>7. CASE found /\ d.id = "auto" /\ To(i, Attached([d EXCEPT !.type = named.type], named))
  <2> DEFINE u == [d EXCEPT !.type = named.type]
             e == Attached(u, named)
  <2>1. named.type \in Texts BY <1>2 DEF HwDevice
  <2>2. u \in HwDecoders /\ u.type = named.type /\ u.fmt = "" BY <1>1, <1>3, <2>1 DEF HwDecoders
  <2> HIDE DEF u
  <2>3. /\ e \in HwDecoders /\ e.pc = "open" /\ e.fmt = "" /\ e.dev = named /\ e.type = named.type
    BY <1>2, <2>2 DEF HwDecoders, Texts, Attached
  <2>4. To(i, e) BY <1>7 DEF u
  <2> HIDE DEF e
  <2> QED BY <1>7, <2>3, <2>4 DEF Fits
<1>8. CASE d.id = "auto" /\ ~found /\ d.configs = <<>> /\ To(i, [d EXCEPT !.pc = "open"])
  <2> DEFINE e == [d EXCEPT !.pc = "open"]
  <2>1. e \in HwDecoders /\ e.pc = "open" /\ e.fmt = "" /\ e.configs = <<>> /\ e.dev = d.dev /\ e.type = d.type
    BY <1>1, <1>3, <1>8 DEF HwDecoders, Texts
  <2>2. d.dev = NoDevice BY <1>1 DEF Fits
  <2> HIDE DEF e
  <2> QED BY <1>8, <2>1, <2>2 DEF Fits, e
<1>9. CASE d.id \notin {"auto", "generic"} /\ To(i, Attached(d, other))
  <2> DEFINE e == Attached(d, other)
  <2>1. e \in HwDecoders /\ e.pc = "open" /\ e.fmt = "" /\ e.id = "none"
    BY <1>1, <1>2, <1>3, <1>9 DEF HwDecoders, Texts, Attached
  <2> HIDE DEF e
  <2> QED BY <1>9, <2>1 DEF Fits, e
<1> QED BY <1>2, <1>4, <1>5, <1>6, <1>7, <1>8, <1>9

LEMMA OtherHwSteps ==
  ASSUME HwInv, NEW i \in Decoders,
         \/ AutoTry(i) \/ DefaultName(i) \/ AddDevice(i)
         \/ \E f \in FormatLists : OpenDecoder(i, f)
  PROVE  /\ hw_devices' \in Seq(HwDevice)
         /\ \E e \in HwDecoders : To(i, e) /\ Fits(e)
<1> DEFINE d == dec[i]
<1>0. d \in HwDecoders /\ Fits(d) /\ hw_devices \in Seq(HwDevice) BY DEF HwInv
<1>1. /\ d.configs \in Seq([type : STRING, fmt : STRING, ctx : BOOLEAN]) /\ d.type \in Texts
      /\ d.name \in Texts \X Nat /\ d.try \in Nat /\ d.fmt \in Texts
  BY <1>0, HwAssumption DEF HwDecoders
<1> HIDE DEF d
<1>2. CASE AutoTry(i)
  <2>1. d.pc = "auto" /\ hw_devices' = hw_devices /\ d.fmt = "" BY <1>0, <1>2 DEF AutoTry, Fits, d
  <2>2. CASE d.try > Len(d.configs)
    <3> DEFINE e == [d EXCEPT !.id = "none", !.pc = "open"]
    <3>1. To(i, e) BY <1>2, <2>2 DEF AutoTry, d
    <3>2. e \in HwDecoders /\ e.pc = "open" /\ e.id = "none" /\ e.fmt = ""
      BY <1>0, <2>1 DEF HwDecoders, Texts
    <3> HIDE DEF e
    <3> QED BY <1>0, <2>1, <3>1, <3>2 DEF Fits
  <2>3. CASE d.try <= Len(d.configs) /\ d.configs[d.try].type \in Working
    <3> DEFINE t == d.configs[d.try].type
               e == [d EXCEPT !.type = t, !.pc = "create"]
    <3>1. To(i, e) BY <1>1, <1>2, <2>3 DEF AutoTry, d
    <3>2. t \in Texts BY <2>3, HwAssumption DEF Texts
    <3> HIDE DEF t
    <3>c. "create" \in Texts BY DEF Texts
    <3>e. e \in HwDecoders BY <1>0, <3>2, <3>c DEF HwDecoders
    <3>3. e \in HwDecoders /\ e.pc = "create" /\ e.fmt = "" BY <1>0, <2>1, <3>e DEF HwDecoders
    <3> HIDE DEF e
    <3> QED BY <1>0, <2>1, <3>1, <3>3 DEF Fits
  <2>4. CASE d.try <= Len(d.configs) /\ d.configs[d.try].type \notin Working
    <3> DEFINE n == d.try + 1
               e == [d EXCEPT !.try = n]
    <3>1. To(i, e) BY <1>1, <1>2, <2>4 DEF AutoTry, d
    <3>n. n \in Nat BY <1>1
    <3> HIDE DEF n
    <3>2. e \in HwDecoders /\ e.pc = "auto" /\ e.fmt = "" BY <1>0, <2>1, <3>n DEF HwDecoders
    <3> HIDE DEF e
    <3> QED BY <1>0, <2>1, <3>1, <3>2 DEF Fits
  <2> QED BY <1>1, <2>2, <2>3, <2>4
<1>3. CASE DefaultName(i)
  <2> DEFINE free == {n \in 0 .. IndexLimit - 1 : by_name(<<d.type, n>>) = {}}
  <2>1. d.pc = "create" /\ hw_devices' = hw_devices /\ d.fmt = "" BY <1>0, <1>3 DEF DefaultName, Fits, d
  <2>2. CASE d.type \notin Working \/ free = {}
    <3>1. CASE d.id = "auto"
      <4> DEFINE n == d.try + 1
                 e == [d EXCEPT !.try = n, !.pc = "auto"]
      <4>1. To(i, e) BY <1>3, <2>2, <3>1 DEF DefaultName, d
      <4>n. n \in Nat BY <1>1
      <4> HIDE DEF n
      <4>2. e \in HwDecoders /\ e.pc = "auto" /\ e.fmt = "" BY <1>0, <2>1, <4>n DEF HwDecoders, Texts
      <4> HIDE DEF e
      <4> QED BY <1>0, <2>1, <4>1, <4>2 DEF Fits
    <3>2. CASE d.id # "auto"
      <4> DEFINE e == [d EXCEPT !.pc = "error"]
      <4>1. To(i, e) BY <1>3, <2>2, <3>2 DEF DefaultName, d
      <4>2. e \in HwDecoders /\ e.pc = "error" /\ e.fmt = "" BY <1>0, <1>1, <2>1 DEF HwDecoders, Texts
      <4> HIDE DEF e
      <4> QED BY <1>0, <2>1, <4>1, <4>2 DEF Fits
    <3> QED BY <3>1, <3>2
  <2>3. CASE d.type \in Working /\ free # {}
    <3> DEFINE name == <<d.type, Min(free)>>
               e == [d EXCEPT !.name = name, !.pc = "add"]
    <3>1. To(i, e) BY <1>3, <2>3 DEF DefaultName, d
    <3>2. free \in SUBSET Nat BY DEF IndexLimit
    <3>3. Min(free) \in Nat
      <4> HIDE DEF free
      <4> QED BY <2>3, <3>2, MinInSet
    <3>4. name \in Texts \X Nat BY <1>1, <3>3
    <3> HIDE DEF name
    <3>5. e \in HwDecoders /\ e.pc = "add" /\ e.fmt = "" /\ e.type = d.type
      BY <1>0, <2>1, <3>4 DEF HwDecoders, Texts
    <3> HIDE DEF e
    <3> QED BY <1>0, <2>1, <2>3, <3>1, <3>5 DEF Fits
  <2> QED BY <2>2, <2>3
<1>4. CASE AddDevice(i)
  <2> DEFINE new == [name |-> d.name, type |-> d.type]
             e == Attached(d, new)
  <2>1. d.pc = "add" /\ d.fmt = "" /\ d.type \in Working BY <1>0, <1>4 DEF AddDevice, Fits, d
  <2>2. new \in HwDevice BY <1>1 DEF HwDevice
  <2>3. new # NoDevice
    <3>1. d.type # "none" BY <2>1, HwAssumption
    <3> QED BY <3>1 DEF NoDevice, NoType
  <2>4. hw_devices' = Append(hw_devices, new) /\ To(i, e) BY <1>4 DEF AddDevice, d
  <2>5. new.type = d.type OBVIOUS
  <2> HIDE DEF new
  <2>6. /\ e \in HwDecoders /\ e.pc = "open" /\ e.fmt = "" /\ e.dev = new /\ e.type = d.type
    BY <1>0, <2>1, <2>2 DEF HwDecoders, Texts, Attached
  <2>7. hw_devices' \in Seq(HwDevice) BY <1>0, <2>2, <2>4
  <2> HIDE DEF e
  <2>8. Fits(e) BY <2>3, <2>5, <2>6 DEF Fits
  <2> QED BY <2>4, <2>6, <2>7, <2>8
<1>5. ASSUME NEW f \in FormatLists, OpenDecoder(i, f)
      PROVE  /\ hw_devices' \in Seq(HwDevice)
             /\ \E e \in HwDecoders : To(i, e) /\ Fits(e)
  <2> DEFINE fmt == get_format_callback(d, f)
             e == [d EXCEPT !.fmt = fmt, !.pc = "done"]
  <2>1. d.pc = "open" /\ To(i, e) /\ hw_devices' = hw_devices BY <1>5 DEF OpenDecoder, d
  <2>2. /\ fmt \in Texts
        /\ fmt \in {"sw", "none"} \/ (d.id # "none" /\ \E c \in Range(d.configs) : c.fmt = fmt /\ c.type = d.type)
    <3> DEFINE C(x) == {j \in 1 .. Len(d.configs) : d.configs[j].ctx /\ d.configs[j].fmt = x}
               ConfigOf(x) == IF C(x) # {} THEN Min(C(x)) ELSE 0
               Takes(x) == x = "sw" \/ (d.id # "none" /\ ConfigOf(x) # 0 /\ d.configs[ConfigOf(x)].type = d.type)
               K == {j \in 1 .. Len(f) : Takes(f[j])}
    <3>1. fmt = IF (IF K # {} THEN Min(K) ELSE 0) = 0 THEN "none" ELSE f[IF K # {} THEN Min(K) ELSE 0]
      BY DEF get_format_callback, SelectInSeq
    <3>2. K \in SUBSET Nat OBVIOUS
    <3>3. f \in Seq(STRING) BY HwAssumption
    <3>4. CASE K = {}
      <4>1. fmt = "none" BY <3>1, <3>4
      <4> QED BY <4>1 DEF Texts
    <3>5. CASE K # {}
      <4> DEFINE k == Min(K)
      <4>1. k \in K
        <5> HIDE DEF K
        <5> QED BY <3>2, <3>5, MinInSet
      <4>2. k \in 1 .. Len(f) /\ Takes(f[k]) BY <4>1
      <4> HIDE DEF k, Takes
      <4>3. fmt = f[k] BY <3>1, <3>5, <4>2 DEF k
      <4>4. fmt \in Texts
        <5>1. f[k] \in STRING BY <3>3, <4>2
        <5> QED BY <4>3, <5>1 DEF Texts
      <4>5. CASE f[k] # "sw"
        <5>1. d.id # "none" /\ ConfigOf(f[k]) # 0 /\ d.configs[ConfigOf(f[k])].type = d.type
          BY <4>2, <4>5 DEF Takes
        <5>2. C(f[k]) # {} /\ C(f[k]) \in SUBSET Nat BY <5>1
        <5>3. ConfigOf(f[k]) = Min(C(f[k])) /\ Min(C(f[k])) \in C(f[k])
          <6> HIDE DEF C
          <6> QED BY <5>2, MinInSet
        <5>4. ConfigOf(f[k]) \in 1 .. Len(d.configs) /\ d.configs[ConfigOf(f[k])].fmt = f[k] BY <5>3
        <5>5. d.configs[ConfigOf(f[k])] \in Range(d.configs)
          <6> DEFINE j == ConfigOf(f[k])
          <6>1. j \in DOMAIN d.configs BY <1>1, <5>4
          <6> HIDE DEF j
          <6>2. d.configs[j] \in Range(d.configs) BY <6>1 DEF Range
          <6> QED BY <6>2 DEF j
        <5> HIDE DEF ConfigOf
        <5> QED BY <4>3, <4>4, <5>1, <5>4, <5>5
      <4> QED BY <4>3, <4>4, <4>5
    <3> QED BY <3>4, <3>5
  <2> HIDE DEF fmt
  <2>3. /\ e \in HwDecoders /\ e.fmt = fmt /\ e.pc = "done" /\ e.configs = d.configs /\ e.dev = d.dev
        /\ e.id = d.id /\ e.type = d.type
    BY <1>0, <2>2 DEF HwDecoders, Texts
  <2>4. d.id # "none" => /\ d.configs # <<>> => d.dev # NoDevice
                         /\ d.dev # NoDevice => d.dev.type = d.type
    BY <1>0, <2>1 DEF Fits
  <2>5. (\E c \in Range(d.configs) : c.fmt = fmt) => d.configs # <<>> BY DEF Range
  <2> HIDE DEF e
  <2>6. Fits(e) BY <2>2, <2>3, <2>4, <2>5 DEF Fits
  <2> QED BY <1>0, <2>1, <2>3, <2>6
<1> QED BY <1>2, <1>3, <1>4, <1>5

(* A decoder that decodes in hardware has a device of the type its format  *)
(* needs, however many decoders share the list of devices and whatever     *)
(* they add to it in between.                                              *)
THEOREM DeviceFitsAlways == HwSpec => []DeviceFits
<1>1. HwInv /\ [HwNext]_<<hw_devices, dec>> => HwInv'
  <2> SUFFICES ASSUME HwInv, [HwNext]_<<hw_devices, dec>> PROVE HwInv' OBVIOUS
  <2>1. CASE UNCHANGED <<hw_devices, dec>> BY <2>1 DEF HwInv
  <2>2. ASSUME NEW i \in Decoders, NEW e \in HwDecoders, To(i, e), Fits(e), hw_devices' \in Seq(HwDevice)
        PROVE  HwInv'
    BY <2>2 DEF HwInv, To
  <2>3. CASE HwNext
    <3>1. PICK i \in Decoders : \/ Setup(i) \/ AutoTry(i) \/ DefaultName(i) \/ AddDevice(i)
                                \/ \E f \in FormatLists : OpenDecoder(i, f)
      BY <2>3 DEF HwNext
    <3>2. CASE Setup(i)
      <4>1. hw_devices' \in Seq(HwDevice) BY <3>2 DEF Setup, HwInv
      <4> QED BY <2>2, <3>2, <4>1, SetupStep
    <3>3. CASE ~Setup(i) BY <2>2, <3>1, <3>3, OtherHwSteps
    <3> QED BY <3>2, <3>3
  <2> QED BY <2>1, <2>3
<1>2. HwInv => DeviceFits BY DEF HwInv, Fits, DeviceFits
<1> QED BY HwInvInit, <1>1, <1>2, PTL DEF HwSpec
-----------------------------------------------------------------------------
(* MuxClock.  No stamp but a missing one is ever as small as NOPTS, so the *)
(* repairs of mux_fixup_ts are made of every packet that has a dts.        *)

Stamps == {t \in Int : t >= NOPTS}

Muxes == [fmt : MuxFormats, started : BOOLEAN, n : Int, delta : Int, last : [MuxStreams -> Stamps],
          out : [stream : MuxStreams \cup {"none"}, dts : Int, pts : Int, before : Int], late : BOOLEAN]

MuxInv == muxer \in Muxes /\ WritesInOrder

LEMMA StampsInt == Stamps \subseteq Int /\ NOPTS \in Stamps /\ NOPTS < -100
BY SMT DEF Stamps, NOPTS

LEMMA RescaleBounds ==
  ASSUME NEW a \in Int, NEW from \in Nat \ {0}, NEW to \in Nat \ {0}
  PROVE  /\ Rescale(a, from, to) \in Int
         /\ a = NOPTS => Rescale(a, from, to) = NOPTS
         /\ a # NOPTS => Rescale(a, from, to) >= 0 \/ Rescale(a, from, to) >= a * from
<1>1. a * from \in Int BY Products
<1>2. Near(a * from, to) \in Int /\ (Near(a * from, to) >= 0 \/ Near(a * from, to) >= a * from)
  BY <1>1, NearBounds
<1> QED BY <1>2, NoptsInt DEF Rescale

(* What mux_fixup_ts promises: a packet that has a dts comes after the last *)
(* of its stream and not after its own pts.                                *)
LEMMA FixedRight ==
  ASSUME muxer.fmt.nonstrict \in BOOLEAN, NEW last \in Stamps, NEW dts \in Stamps, NEW pts \in Stamps
  PROVE  LET f == Fixed(last, dts, pts)
         IN  /\ f.dts \in Stamps /\ f.pts \in Stamps
             /\ dts # NOPTS =>
                  /\ f.dts # NOPTS
                  /\ last # NOPTS => f.dts >= last + (IF muxer.fmt.nonstrict THEN 0 ELSE 1)
                  /\ f.pts # NOPTS => f.pts >= f.dts
<1> DEFINE guess == dts # NOPTS /\ pts # NOPTS /\ dts > pts
           d == IF guess THEN Median(pts, dts, last + 1) ELSE dts
           p == IF guess THEN d ELSE pts
           next == last + (IF muxer.fmt.nonstrict THEN 0 ELSE 1)
<1>0. last \in Int /\ dts \in Int /\ pts \in Int /\ last >= NOPTS /\ dts >= NOPTS /\ pts >= NOPTS /\ NOPTS \in Int
  BY NoptsInt DEF Stamps
<1>1. next \in Int /\ next >= NOPTS /\ (last # NOPTS => next > NOPTS) BY <1>0
<1>2. guess => d \in Int /\ d > NOPTS BY <1>0 DEF Median, Larger, Smaller
<1>3. /\ d \in Int /\ d >= NOPTS /\ p \in Int /\ p >= NOPTS
      /\ dts # NOPTS => d # NOPTS
      /\ d # NOPTS /\ p # NOPTS => p >= d
  BY <1>0, <1>2
<1> DEFINE f == IF d # NOPTS /\ last # NOPTS /\ d < next
                  THEN [dts |-> next, pts |-> IF p >= d THEN Larger(p, next) ELSE p]
                  ELSE [dts |-> d, pts |-> p]
<1>4. Fixed(last, dts, pts) = f BY DEF Fixed
<1> HIDE DEF d, p, next, guess
<1>5. f.dts \in Int /\ f.dts >= NOPTS /\ f.pts \in Int /\ f.pts >= NOPTS BY <1>0, <1>1, <1>3 DEF Larger
<1>6. dts # NOPTS => f.dts # NOPTS /\ (last # NOPTS => f.dts >= next) /\ (f.pts # NOPTS => f.pts >= f.dts)
  BY <1>0, <1>1, <1>3 DEF Larger
<1> HIDE DEF f
<1> QED BY <1>4, <1>5, <1>6 DEF Stamps, next

(* A stamp that is not far below zero stays a stamp when it is rescaled.   *)
LEMMA RescaleStamp ==
  ASSUME NEW ts \in Int, NEW from \in Nat \ {0}, NEW to \in Nat \ {0}, ts * from > NOPTS
  PROVE  Rescale(ts, from, to) \in Int /\ Rescale(ts, from, to) > NOPTS
<1>0. NOPTS \in Int /\ NOPTS < 0 BY NoptsInt, StampsInt, SMT
<1>1. ts # NOPTS
  <2>1. NOPTS * from <= NOPTS
    <3>1. from * NOPTS = NOPTS + (from - 1) * NOPTS /\ (from - 1) * NOPTS <= 0 BY <1>0
    <3> QED BY <1>0, <3>1
  <2> QED BY <1>0, <2>1
<1>2. ts * from \in Int BY Products
<1>3. /\ Rescale(ts, from, to) \in Int
      /\ Rescale(ts, from, to) >= 0 \/ Rescale(ts, from, to) >= ts * from
  BY <1>1, RescaleBounds
<1> QED BY <1>0, <1>2, <1>3

LEMMA DeltaStamp ==
  ASSUME NEW in \in Nat \ {0}, NEW fs \in Nat \ {0}, NEW out \in Nat \ {0}, NEW ts \in Int,
         NEW last \in Int, NEW low \in Nat, ts * in >= -low, low + in + fs < -NOPTS
  PROVE  LET r == RescaleDelta(in, ts, fs, 1, last, out)
         IN  r.ts \in Int /\ r.ts > NOPTS /\ r.last \in Int
<1>0. NOPTS \in Int /\ NOPTS < 0 BY NoptsInt, StampsInt, SMT
<1> DEFINE x == (2 * ts - 1) * in
           y == (2 * ts + 1) * in
           q == x \div fs
           a == q \div 2
           up == RescaleUp(2 * ts + 1, in, fs)
           b == (up + 1) \div 2
           this == IF last < a THEN a ELSE IF last > b THEN b ELSE last
<1>1. x \in Int /\ y \in Int /\ x >= -2 * low - in /\ y >= -2 * low + in
  <2>1. x = 2 * (ts * in) - in /\ y = 2 * (ts * in) + in OBVIOUS
  <2>2. ts * in \in Int BY Products
  <2> QED BY <2>1, <2>2
<1> HIDE DEF x, y
<1>2. q \in Int /\ fs * q >= x - fs BY <1>1, DivBounds
<1> HIDE DEF q
<1>3. a \in Int /\ 2 * a >= q - 1 BY <1>2, DivBounds
<1> HIDE DEF a
<1>4. fs * a \in Int /\ 2 * (fs * a) >= fs * q - fs
  <2>1. (q - 1) * fs <= (2 * a) * fs BY <1>2, <1>3, Monotone
  <2> QED BY <1>2, <1>3, <2>1
<1>5. a * fs >= -low - in - fs
  <2> DEFINE m == fs * a
             n == fs * q
  <2>1. m \in Int /\ n \in Int /\ a * fs = m BY <1>2, <1>3, Products
  <2> HIDE DEF m, n
  <2>2. 2 * m >= n - fs /\ n >= x - fs BY <1>2, <1>4 DEF m, n
  <2> QED BY <1>1, <2>1, <2>2
<1>6. up \in Int /\ fs * up >= y
  <2>1. up = -((-y) \div fs) BY DEF RescaleUp, y
  <2>2. (-y) \div fs \in Int /\ fs * ((-y) \div fs) <= -y BY <1>1, DivBounds
  <2> QED BY <1>1, <2>1, <2>2
<1> HIDE DEF up
<1>7. b \in Int /\ 2 * b >= up BY <1>6, DivBounds
<1> HIDE DEF b
<1>8. b * fs >= -low
  <2>1. up * fs <= (2 * b) * fs BY <1>6, <1>7, Monotone
  <2> QED BY <1>1, <1>6, <1>7, <2>1
<1>9. this \in Int /\ this * fs >= -low - in - fs
  <2>1. ~(last < a) => a * fs <= last * fs BY <1>3, Monotone
  <2>2. a * fs \in Int /\ b * fs \in Int /\ last * fs \in Int BY <1>3, <1>7, Products
  <2> QED BY <1>3, <1>5, <1>7, <1>8, <2>1, <2>2
<1> HIDE DEF this
<1>10. this * fs > NOPTS /\ ts * in > NOPTS
  <2>1. this * fs \in Int /\ ts * in \in Int BY <1>9, Products
  <2> QED BY <1>0, <1>9, <2>1
<1>11. /\ Rescale(this, fs, out) \in Int /\ Rescale(this, fs, out) > NOPTS
       /\ Rescale(ts, in, out) \in Int /\ Rescale(ts, in, out) > NOPTS /\ Rescale(ts, in, fs) \in Int
  BY <1>9, <1>10, RescaleStamp
<1> DEFINE r == IF last = NOPTS \/ in <= out \/ last < 2 * a - b \/ last > 2 * b - a
                  THEN [ts |-> Rescale(ts, in, out), last |-> Rescale(ts, in, fs) + 1]
                  ELSE [ts |-> Rescale(this, fs, out), last |-> this + 1]
<1>12. RescaleDelta(in, ts, fs, 1, last, out) = r
  BY DEF RescaleDelta, this, a, b, q, x, up
<1> QED BY <1>9, <1>11, <1>12

LEMMA StartBounds ==
  ASSUME muxer.fmt \in MuxFormats
  PROVE  /\ MuxStart \in Nat /\ MuxStart + 2 * PktTick + SampleTick < -NOPTS
         /\ LET off == Rescale(MuxStart, 1, PktTick)
            IN  off \in Nat /\ off * PktTick <= MuxStart + PktTick
<1>1. MuxStart \in Nat /\ MuxStart + 2 * PktTick + SampleTick < -NOPTS BY MuxAssumption DEF MuxStart
<1>2. PktTick \in Nat \ {0} BY MuxAssumption
<1>3. MuxStart # NOPTS BY <1>1, StampsInt, NoptsInt, SMT
<1> DEFINE q == (2 * MuxStart + PktTick) \div (2 * PktTick)
<1>4. Rescale(MuxStart, 1, PktTick) = q
  <2>1. MuxStart * 1 = MuxStart /\ MuxStart >= 0 BY <1>1
  <2> QED BY <1>3, <2>1 DEF Rescale, Near
<1>5. q \in Int /\ q >= 0 /\ (2 * PktTick) * q <= 2 * MuxStart + PktTick
  <2>1. 2 * MuxStart + PktTick \in Int /\ 2 * MuxStart + PktTick >= 0 /\ 2 * PktTick \in Nat \ {0} BY <1>1, <1>2
  <2> QED BY <2>1, DivBounds
<1> HIDE DEF q
<1>6. q * PktTick \in Int /\ 2 * (q * PktTick) = (2 * PktTick) * q BY <1>2, <1>5
<1> QED BY <1>1, <1>2, <1>4, <1>5, <1>6

(* What write_packet makes of a packet: a missing stamp, or one that is    *)
(* not far below zero.                                                     *)
LEMMA WrittenRight ==
  ASSUME muxer \in Muxes, NEW s \in MuxStreams, NEW ts, ts.dts \in Int, ts.pts \in Int,
         NEW low \in Nat, low + PktTick + SampleTick < -NOPTS,
         (ts.dts = NOPTS /\ s # "audio") \/ ts.dts * PktTick >= -low,
         ts.pts = NOPTS \/ ts.pts * PktTick > NOPTS
  PROVE  LET w == Written(s, ts)
             o == w.out
         IN  /\ w \in Muxes /\ w.late = muxer.late /\ w.fmt = muxer.fmt
             /\ ts.dts # NOPTS =>
                  /\ o.dts # NOPTS
                  /\ o.before # NOPTS => o.dts >= o.before + (IF w.fmt.nonstrict THEN 0 ELSE 1)
                  /\ o.pts # NOPTS => o.pts >= o.dts
<1> DEFINE r == RescaleDelta(PktTick, ts.dts, SampleTick, 1, muxer.delta, OutTick)
           d == IF s = "audio" THEN r.ts ELSE Rescale(ts.dts, PktTick, OutTick)
           p == IF s = "audio" THEN r.ts ELSE Rescale(ts.pts, PktTick, OutTick)
           f == Fixed(muxer.last[s], d, p)
           o == [stream |-> s, dts |-> f.dts, pts |-> f.pts, before |-> muxer.last[s]]
           delta == IF s = "audio" THEN r.last ELSE muxer.delta
           w == [muxer EXCEPT !.delta = delta, !.last[s] = f.dts, !.n = @ + 1, !.out = o]
<1>0. /\ PktTick \in Nat \ {0} /\ OutTick \in Nat \ {0} /\ SampleTick \in Nat \ {0} /\ NOPTS \in Int /\ NOPTS < 0
      /\ muxer.delta \in Int /\ muxer.last[s] \in Stamps /\ muxer.fmt.nonstrict \in BOOLEAN
  <2>1. NOPTS \in Int /\ NOPTS < 0 BY NoptsInt, StampsInt, SMT
  <2> QED BY <2>1, MuxAssumption DEF Muxes
<1>1. s = "audio" => r.ts \in Int /\ r.ts > NOPTS /\ r.last \in Int
  BY <1>0, DeltaStamp
<1>2. s # "audio" => /\ Rescale(ts.dts, PktTick, OutTick) \in Stamps
                     /\ ts.dts # NOPTS => Rescale(ts.dts, PktTick, OutTick) # NOPTS
                     /\ Rescale(ts.pts, PktTick, OutTick) \in Stamps
  <2>1. ts.dts # NOPTS => ts.dts * PktTick > NOPTS
    <3>1. ts.dts * PktTick \in Int BY <1>0, Products
    <3> QED BY <1>0, <3>1
  <2>2. ts.dts # NOPTS => Rescale(ts.dts, PktTick, OutTick) \in Int /\ Rescale(ts.dts, PktTick, OutTick) > NOPTS
    BY <1>0, <2>1, RescaleStamp
  <2>3. ts.pts # NOPTS => Rescale(ts.pts, PktTick, OutTick) \in Int /\ Rescale(ts.pts, PktTick, OutTick) > NOPTS
    BY <1>0, RescaleStamp
  <2>4. ts.dts = NOPTS => Rescale(ts.dts, PktTick, OutTick) = NOPTS BY DEF Rescale
  <2>5. ts.pts = NOPTS => Rescale(ts.pts, PktTick, OutTick) = NOPTS BY DEF Rescale
  <2> QED BY <1>0, <2>2, <2>3, <2>4, <2>5 DEF Stamps
<1>3. d \in Stamps /\ p \in Stamps /\ (ts.dts # NOPTS => d # NOPTS) /\ delta \in Int
  BY <1>0, <1>1, <1>2 DEF Stamps
<1>4. Written(s, ts) = w BY DEF Written
<1> HIDE DEF d, p, delta, r
<1>5. /\ f.dts \in Stamps /\ f.pts \in Stamps
      /\ ts.dts # NOPTS =>
           /\ f.dts # NOPTS
           /\ muxer.last[s] # NOPTS => f.dts >= muxer.last[s] + (IF muxer.fmt.nonstrict THEN 0 ELSE 1)
           /\ f.pts # NOPTS => f.pts >= f.dts
  BY <1>0, <1>3, FixedRight
<1> HIDE DEF f
<1>6. o \in [stream : MuxStreams \cup {"none"}, dts : Int, pts : Int, before : Int]
  BY <1>0, <1>5, StampsInt
<1>7. o.dts = f.dts /\ o.pts = f.pts /\ o.before = muxer.last[s] OBVIOUS
<1> HIDE DEF o
<1> DEFINE l == [muxer.last EXCEPT ![s] = f.dts]
           n == muxer.n + 1
<1>l. l \in [MuxStreams -> Stamps] /\ n \in Int BY <1>5 DEF Muxes
<1>w. w = [muxer EXCEPT !.delta = delta, !.last = l, !.n = n, !.out = o] BY DEF Muxes
<1> HIDE DEF l, n
<1>8. w \in Muxes BY <1>3, <1>l, <1>w, <1>6 DEF Muxes
<1>9. w.late = muxer.late /\ w.fmt = muxer.fmt /\ w.out = o BY DEF Muxes
<1> HIDE DEF w
<1> QED BY <1>4, <1>5, <1>7, <1>8, <1>9

(* What streamcopy_rescale makes of the stamps. *)
LEMMA CopiedRight ==
  ASSUME muxer \in Muxes, NEW s, NEW pkt, pkt.dts \in Nat \cup {NOPTS}, pkt.est \in Nat,
         pkt.pts # NOPTS => pkt.pts \in Int /\ pkt.pts >= -1
  PROVE  LET c == Copied(s, pkt)
         IN  /\ c.dts \in Int /\ c.pts \in Int
             /\ c.dts * PktTick >= -(MuxStart + PktTick)
             /\ c.pts = NOPTS \/ c.pts * PktTick > NOPTS
             /\ c.dts # NOPTS
<1> DEFINE off == Rescale(MuxStart, 1, PktTick)
           t == IF pkt.dts = NOPTS THEN Rescale(pkt.est, 1, PktTick) ELSE pkt.dts
           d == t - off
           p == IF pkt.dts # NOPTS /\ s = "audio" THEN d
                ELSE IF pkt.pts = NOPTS THEN NOPTS ELSE pkt.pts - off
<1>0. /\ PktTick \in Nat \ {0} /\ SampleTick \in Nat \ {0} /\ NOPTS \in Int /\ NOPTS < 0 /\ muxer.fmt \in MuxFormats
  <2>1. NOPTS \in Int /\ NOPTS < 0 BY NoptsInt, StampsInt, SMT
  <2> QED BY <2>1, MuxAssumption DEF Muxes
<1>1. /\ MuxStart \in Nat /\ MuxStart + 2 * PktTick + SampleTick < -NOPTS
      /\ off \in Nat /\ off * PktTick <= MuxStart + PktTick
  BY <1>0, StartBounds
<1>2. t \in Nat
  <2>1. pkt.est # NOPTS BY <1>0
  <2>2. Rescale(pkt.est, 1, PktTick) \in Nat
    <3>1. pkt.est * 1 = pkt.est BY SMT
    <3>2. Near(pkt.est, PktTick) \in Int /\ Near(pkt.est, PktTick) >= 0 BY <1>0, NearBounds
    <3> QED BY <2>1, <3>1, <3>2 DEF Rescale
  <2> QED BY <1>0, <2>2
<1>3. Copied(s, pkt) = [dts |-> d, pts |-> p] BY DEF Copied
<1> HIDE DEF t, off
<1>4. d \in Int /\ d * PktTick >= -(MuxStart + PktTick)
  <2>1. d * PktTick = t * PktTick - off * PktTick BY <1>0, <1>1, <1>2
  <2>2. t * PktTick \in Nat /\ off * PktTick \in Nat BY <1>0, <1>1, <1>2, Products
  <2> QED BY <1>0, <1>1, <1>2, <2>1, <2>2
<1>5. pkt.pts # NOPTS => pkt.pts - off \in Int /\ (pkt.pts - off) * PktTick > NOPTS
  <2> SUFFICES ASSUME pkt.pts # NOPTS PROVE pkt.pts - off \in Int /\ (pkt.pts - off) * PktTick > NOPTS OBVIOUS
  <2>1. (pkt.pts - off) * PktTick = pkt.pts * PktTick - off * PktTick BY <1>0, <1>1
  <2>2. (-1) * PktTick <= pkt.pts * PktTick BY <1>0, Monotone
  <2>3. off * PktTick \in Nat /\ pkt.pts * PktTick \in Int BY <1>0, <1>1, Products
  <2> QED BY <1>0, <1>1, <2>1, <2>2, <2>3
<1>6. d # NOPTS /\ d * PktTick > NOPTS
  <2>1. d * PktTick \in Int BY <1>0, <1>4, Products
  <2>2. d * PktTick > NOPTS BY <1>0, <1>1, <1>4, <2>1
  <2>3. d = NOPTS => d * PktTick <= NOPTS
    <3>1. d < 0 => d * PktTick <= d * 1 BY <1>0, <1>4
    <3> QED BY <1>0, <1>4, <2>1, <3>1
  <2> QED BY <1>0, <2>1, <2>2, <2>3
<1> HIDE DEF d
<1>7. p \in Int /\ (p = NOPTS \/ p * PktTick > NOPTS) BY <1>0, <1>4, <1>5, <1>6
<1> HIDE DEF p
<1> QED BY <1>3, <1>4, <1>6, <1>7

LEMMA MuxInvInit == MuxInit => MuxInv
<1> SUFFICES ASSUME MuxInit PROVE MuxInv OBVIOUS
<1>1. PICK f \in MuxFormats :
        muxer = [fmt |-> f, started |-> FALSE, n |-> 0, delta |-> 0, last |-> [s \in MuxStreams |-> NOPTS],
                 out |-> [stream |-> "none", dts |-> NOPTS, pts |-> NOPTS, before |-> NOPTS], late |-> FALSE]
  BY DEF MuxInit, NewMuxers
<1>2. [s \in MuxStreams |-> NOPTS] \in [MuxStreams -> Stamps] BY StampsInt
<1>3. [stream |-> "none", dts |-> NOPTS, pts |-> NOPTS, before |-> NOPTS]
        \in [stream : MuxStreams \cup {"none"}, dts : Int, pts : Int, before : Int]
  BY NoptsInt
<1>4. muxer.out.stream = "none" BY <1>1
<1>5. muxer \in Muxes BY <1>1, <1>2, <1>3 DEF Muxes
<1> QED BY <1>4, <1>5 DEF MuxInv, WritesInOrder

(* A packet as the loop of ready_to_init_mux receives it. *)
Received(pkt) ==
  /\ pkt.dts \in Nat \cup {NOPTS} /\ pkt.est \in Nat
  /\ pkt.pts # NOPTS => pkt.pts \in Int /\ pkt.pts >= -1

(* A packet whose stamps are written as they came. *)
LEMMA ReceivedRight ==
  ASSUME muxer \in Muxes, NEW s \in MuxStreams, NEW pkt, Received(pkt), s = "audio" => pkt.dts # NOPTS
  PROVE  LET w == Written(s, pkt)
             o == w.out
         IN  /\ w \in Muxes /\ w.late = muxer.late /\ w.fmt = muxer.fmt
             /\ pkt.dts # NOPTS =>
                  /\ o.dts # NOPTS
                  /\ o.before # NOPTS => o.dts >= o.before + (IF w.fmt.nonstrict THEN 0 ELSE 1)
                  /\ o.pts # NOPTS => o.pts >= o.dts
<1>0. /\ PktTick \in Nat \ {0} /\ SampleTick \in Nat \ {0} /\ NOPTS \in Int /\ muxer.fmt \in MuxFormats
  BY NoptsInt, MuxAssumption DEF Muxes
<1>1. MuxStart \in Nat /\ MuxStart + 2 * PktTick + SampleTick < -NOPTS BY <1>0, StartBounds
<1>2. 0 + PktTick + SampleTick < -NOPTS /\ NOPTS < -PktTick BY <1>0, <1>1
<1>3. pkt.dts # NOPTS => pkt.dts * PktTick >= -0
  <2>1. pkt.dts # NOPTS => pkt.dts * PktTick \in Nat BY <1>0, Products DEF Received
  <2> QED BY <2>1
<1>4. pkt.pts # NOPTS => pkt.pts * PktTick > NOPTS
  <2> SUFFICES ASSUME pkt.pts # NOPTS PROVE pkt.pts * PktTick > NOPTS OBVIOUS
  <2>1. (-1) * PktTick <= pkt.pts * PktTick BY <1>0, Monotone DEF Received
  <2>2. pkt.pts * PktTick \in Int BY <1>0, Products DEF Received
  <2> QED BY <1>0, <1>2, <2>1, <2>2
<1>5. pkt.dts \in Int /\ pkt.pts \in Int BY <1>0 DEF Received
<1> QED BY <1>2, <1>3, <1>4, <1>5, WrittenRight

LEMMA WritePacketStep ==
  ASSUME MuxInv, NEW s \in MuxStreams, NEW pkt, Received(pkt), s = "encoded" => pkt.dts # NOPTS,
         WritePacket(s, pkt)
  PROVE  MuxInv'
<1>0. muxer \in Muxes BY DEF MuxInv
<1> DEFINE w == Written(s, pkt)
           c == Written(s, Copied(s, pkt))
<1>1. CASE s = "encoded"
  <2>1. muxer' = w /\ pkt.dts # NOPTS BY <1>1 DEF WritePacket
  <2>2. /\ w \in Muxes
        /\ w.out.dts # NOPTS
        /\ w.out.before # NOPTS => w.out.dts >= w.out.before + (IF w.fmt.nonstrict THEN 0 ELSE 1)
        /\ w.out.pts # NOPTS => w.out.pts >= w.out.dts
    BY <1>0, <2>1, ReceivedRight
  <2> HIDE DEF w
  <2> QED BY <2>1, <2>2 DEF MuxInv, WritesInOrder
<1>2. CASE s # "encoded" /\ (s = "video" \/ pkt.dts # NOPTS)
           /\ muxer' = [w EXCEPT !.late = @ \/ pkt.dts = NOPTS]
  <2>1. /\ w \in Muxes /\ w.late = muxer.late
        /\ pkt.dts # NOPTS =>
             /\ w.out.dts # NOPTS
             /\ w.out.before # NOPTS => w.out.dts >= w.out.before + (IF w.fmt.nonstrict THEN 0 ELSE 1)
             /\ w.out.pts # NOPTS => w.out.pts >= w.out.dts
    BY <1>0, <1>2, ReceivedRight
  <2> HIDE DEF w
  <2>2. /\ muxer' \in Muxes /\ muxer'.fmt = w.fmt /\ muxer'.out = w.out
        /\ muxer'.late = (w.late \/ pkt.dts = NOPTS)
    BY <1>2, <2>1 DEF Muxes
  <2> QED BY <2>1, <2>2 DEF MuxInv, WritesInOrder
<1>3. CASE muxer' = [muxer EXCEPT !.late = TRUE, !.n = MaxWritten]
  <2>0. MaxWritten \in Int BY MuxAssumption
  <2>1. muxer' \in Muxes /\ muxer'.late = TRUE BY <1>0, <1>3, <2>0 DEF Muxes
  <2> QED BY <2>1 DEF MuxInv, WritesInOrder
<1>4. CASE muxer' = [muxer EXCEPT !.n = @ + 1]
  <2>1. muxer' \in Muxes /\ muxer'.late = muxer.late /\ muxer'.out = muxer.out /\ muxer'.fmt = muxer.fmt
    BY <1>0, <1>4 DEF Muxes
  <2> QED BY <2>1 DEF MuxInv, WritesInOrder
<1>5. CASE muxer' = [c EXCEPT !.started = TRUE]
  <2> DEFINE ts == Copied(s, pkt)
             low == MuxStart + PktTick
  <2>0. PktTick \in Nat \ {0} /\ SampleTick \in Nat \ {0} /\ NOPTS \in Int /\ muxer.fmt \in MuxFormats
    BY <1>0, NoptsInt, MuxAssumption DEF Muxes
  <2>1. MuxStart \in Nat /\ MuxStart + 2 * PktTick + SampleTick < -NOPTS BY <2>0, StartBounds
  <2>2. low \in Nat /\ low + PktTick + SampleTick < -NOPTS BY <2>0, <2>1
  <2>3. /\ ts.dts \in Int /\ ts.pts \in Int /\ ts.dts * PktTick >= -low
        /\ ts.pts = NOPTS \/ ts.pts * PktTick > NOPTS
        /\ ts.dts # NOPTS
    BY <1>0, CopiedRight DEF Received
  <2> HIDE DEF ts, low
  <2>4. /\ c \in Muxes
        /\ c.out.dts # NOPTS
        /\ c.out.before # NOPTS => c.out.dts >= c.out.before + (IF c.fmt.nonstrict THEN 0 ELSE 1)
        /\ c.out.pts # NOPTS => c.out.pts >= c.out.dts
    BY <1>0, <2>2, <2>3, WrittenRight DEF ts
  <2> HIDE DEF c
  <2>5. muxer' \in Muxes /\ muxer'.fmt = c.fmt /\ muxer'.out = c.out BY <1>5, <2>4 DEF Muxes
  <2> QED BY <2>4, <2>5 DEF MuxInv, WritesInOrder
<1> QED BY <1>1, <1>2, <1>3, <1>4, <1>5 DEF WritePacket

(* A muxer gives av_interleaved_write_frame packets in order: whatever     *)
(* stamps demuxers and encoders send, in whatever order, mux_fixup_ts has  *)
(* the dts of each stream rise and no pts before its dts, but for copied   *)
(* packets without a dts after the recording time.                         *)
THEOREM WritesInOrderAlways == MuxSpec => []WritesInOrder
<1>1. MuxInit => MuxInv BY MuxInvInit
<1>2. MuxInv /\ [MuxNext]_muxer => MuxInv'
  <2> SUFFICES ASSUME MuxInv, [MuxNext]_muxer PROVE MuxInv' OBVIOUS
  <2>1. CASE MuxNext
    <3>1. PICK s \in MuxStreams, dts \in PktDts \cup {NOPTS}, ahead \in {-1, 0, 1, NOPTS}, key \in BOOLEAN,
               guess \in PktDts :
            LET pts == IF ahead = NOPTS THEN NOPTS ELSE IF dts = NOPTS THEN guess + ahead ELSE dts + ahead
            IN  /\ s = "encoded" => dts # NOPTS /\ pts # NOPTS /\ key
                /\ dts # NOPTS => guess = dts
                /\ WritePacket(s, [dts |-> dts, pts |-> pts, key |-> key, est |-> guess * PktTick])
      BY <2>1 DEF MuxNext
    <3> DEFINE pts == IF ahead = NOPTS THEN NOPTS ELSE IF dts = NOPTS THEN guess + ahead ELSE dts + ahead
               pkt == [dts |-> dts, pts |-> pts, key |-> key, est |-> guess * PktTick]
    <3>2. guess \in Nat /\ dts \in Nat \cup {NOPTS} /\ PktTick \in Nat BY MuxAssumption
    <3>3. guess * PktTick \in Nat BY <3>2, Products
    <3>4. pts # NOPTS => pts \in Int /\ pts >= -1
      <4>1. ahead # NOPTS => ahead \in Int /\ ahead >= -1 OBVIOUS
      <4>2. dts # NOPTS /\ ahead # NOPTS => dts + ahead \in Int /\ dts + ahead >= -1 BY <3>2, <4>1
      <4>3. ahead # NOPTS => guess + ahead \in Int /\ guess + ahead >= -1 BY <3>2, <4>1
      <4>4. CASE ahead = NOPTS
        <5>1. pts = NOPTS BY <4>4, Zenon
        <5> HIDE DEF pts
        <5> QED BY <5>1
      <4>5. CASE ahead # NOPTS /\ dts = NOPTS
        <5>1. pts = guess + ahead BY <4>5
        <5> HIDE DEF pts
        <5> QED BY <4>3, <4>5, <5>1
      <4>6. CASE ahead # NOPTS /\ dts # NOPTS
        <5>1. pts = dts + ahead BY <4>6
        <5> HIDE DEF pts
        <5> QED BY <4>2, <4>6, <5>1
      <4> QED BY <4>4, <4>5, <4>6
    <3>5. (s = "encoded" => dts # NOPTS) /\ WritePacket(s, pkt) BY <3>1
    <3> HIDE DEF pts
    <3>6. pkt.dts = dts /\ pkt.pts = pts /\ pkt.est = guess * PktTick OBVIOUS
    <3> HIDE DEF pkt
    <3>7. Received(pkt) BY <3>2, <3>3, <3>4, <3>6 DEF Received
    <3> QED BY <3>5, <3>6, <3>7, WritePacketStep
  <2>2. CASE UNCHANGED muxer BY <2>2 DEF MuxInv, WritesInOrder
  <2> QED BY <2>1, <2>2
<1>3. MuxInv => WritesInOrder BY DEF MuxInv
<1> QED BY <1>1, <1>2, <1>3, PTL DEF MuxSpec

-----------------------------------------------------------------------------
(* DecClock.  A change of the sample rate multiplies the clock's time base *)
(* when it fits, so that the end of the last frame is carried over without *)
(* rounding; and the estimate of a video frame's duration is never zero.   *)

DecStamps == Nat \cup {NOPTS}

DecOuts == [end : Int, was : Int, pts : Int, tb : Int, guessed : BOOLEAN]

DecTypes == [media : {"video", "audio"}, last_pts : DecStamps, duration_est : Nat, tb : Nat \ {0}, delta : Nat,
             rate : Nat, n : Nat, out : DecOuts, inexact : BOOLEAN]

DecInv == /\ decoder \in DecTypes
          /\ decoder.tb <= Second
          /\ decoder.media = "video" /\ decoder.last_pts # NOPTS => decoder.duration_est >= 1
          /\ FramesFollow

LEMMA NatNotNopts == NOPTS \in Int /\ NOPTS \notin Nat /\ DecStamps \subseteq Int
BY SMT DEF NOPTS, DecStamps

LEMMA RescaleNat ==
  ASSUME NEW a \in Nat, NEW from \in Nat, NEW to \in Nat \ {0}
  PROVE  Rescale(a, from, to) \in Nat
<1>1. a * from \in Nat BY Products
<1>2. Near(a * from, to) \in Int /\ Near(a * from, to) >= 0 BY <1>1, NearBounds
<1> QED BY <1>2, NatNotNopts DEF Rescale

(* To a time base k times as fine nothing is lost. *)
LEMMA RescaleFiner ==
  ASSUME NEW a \in Nat, NEW k \in Nat, NEW tb \in Nat \ {0}
  PROVE  Rescale(a, tb * k, tb) = a * k
<1>1. a * (tb * k) = (a * k) * tb OBVIOUS
<1>2. a * k \in Int BY Products
<1>3. Near((a * k) * tb, tb) = a * k BY <1>2, NearExact
<1> QED BY <1>1, <1>3, NatNotNopts DEF Rescale

LEMMA DivExact ==
  ASSUME NEW a \in Nat, NEW g \in Nat \ {0}, a % g = 0
  PROVE  a \div g \in Nat /\ a = g * (a \div g)
OBVIOUS

LEMMA GcdDivides ==
  ASSUME NEW a \in Nat \ {0}, NEW b \in Nat \ {0}
  PROVE  LET g == Gcd(a, b) IN g \in 1 .. a /\ a % g = 0 /\ b % g = 0
<1> DEFINE common == {g \in 1 .. a : a % g = 0 /\ b % g = 0}
           S == {a - h : h \in common}
<1>1. 1 \in common
  <2>1. a % 1 = 0 /\ b % 1 = 0 /\ 1 \in 1 .. a OBVIOUS
  <2> QED BY <2>1
<1>2. common \subseteq 1 .. a OBVIOUS
<1> HIDE DEF common
<1>3. S \in SUBSET Nat /\ S # {} BY <1>1, <1>2
<1>4. PICK x \in S : \A y \in S : x <= y
  <2> HIDE DEF S
  <2> QED BY <1>3, LeastNat
<1>5. PICK g \in common : x = a - g BY <1>4
<1>6. \A h \in common : h <= g
  <2> TAKE h \in common
  <2>1. a - h \in S OBVIOUS
  <2>2. a - g <= a - h BY <1>4, <1>5, <2>1
  <2> QED BY <1>2, <2>2
<1>7. (CHOOSE z \in common : \A h \in common : h <= z) \in common BY <1>6
<1> QED BY <1>7 DEF Gcd, common

LEMMA UpNat ==
  ASSUME NEW a \in Nat, NEW from \in Nat, NEW to \in Nat \ {0}
  PROVE  RescaleUp(a, from, to) \in Nat
<1> DEFINE m == a * from
<1>1. m \in Nat BY Products
<1>2. RescaleUp(a, from, to) = -((-m) \div to) BY DEF RescaleUp
<1> HIDE DEF m
<1> DEFINE q == (-m) \div to
<1>3. q \in Int /\ to * q <= -m BY <1>1, DivBounds
<1> HIDE DEF q
<1>4. q <= 0
  <2>1. q > 0 => to * q > 0 BY <1>3
  <2> QED BY <1>1, <1>3, <2>1
<1> QED BY <1>2, <1>3, <1>4 DEF q

(* Of frames whose stamps count from zero the count of samples never goes  *)
(* below zero.                                                             *)
LEMMA DeltaNat ==
  ASSUME NEW in \in Nat \ {0}, NEW fs \in Nat \ {0}, NEW out \in Nat \ {0}, NEW ts \in Nat,
         NEW samples \in Nat, NEW last \in DecStamps
  PROVE  LET r == RescaleDelta(in, ts, fs, samples, last, out) IN r.ts \in Nat /\ r.last \in Nat
<1> DEFINE x == (2 * ts - 1) * in
           a == (x \div fs) \div 2
           up == RescaleUp(2 * ts + 1, in, fs)
           b == (up + 1) \div 2
           this == IF last < a THEN a ELSE IF last > b THEN b ELSE last
           first == [ts |-> Rescale(ts, in, out), last |-> Rescale(ts, in, fs) + samples]
           next == [ts |-> Rescale(this, fs, out), last |-> this + samples]
           fresh == last = NOPTS \/ samples = 0 \/ in <= out \/ last < 2 * a - b \/ last > 2 * b - a
<1>1. RescaleDelta(in, ts, fs, samples, last, out) = IF fresh THEN first ELSE next BY DEF RescaleDelta
<1>2. a \in Int
  <2>1. x \in Int BY Products
  <2> HIDE DEF x
  <2>2. x \div fs \in Int BY <2>1, DivBounds
  <2> QED BY <2>2, DivBounds
<1>3. b \in Nat
  <2>1. up \in Nat BY UpNat
  <2> HIDE DEF up
  <2> QED BY <2>1
<1> HIDE DEF a, b
<1>4. last # NOPTS => this \in Nat BY <1>2, <1>3 DEF DecStamps
<1> HIDE DEF this
<1>5. Rescale(ts, in, out) \in Nat /\ Rescale(ts, in, fs) \in Nat BY RescaleNat
<1>6. last # NOPTS => Rescale(this, fs, out) \in Nat BY <1>4, RescaleNat
<1>7. first.ts \in Nat /\ first.last \in Nat BY <1>5
<1>8. last # NOPTS => next.ts \in Nat /\ next.last \in Nat BY <1>4, <1>6
<1>9. ~fresh => last # NOPTS OBVIOUS
<1> HIDE DEF first, next, fresh
<1> QED BY <1>1, <1>7, <1>8, <1>9

(* audio_samplerate_update: the new time base is a multiple of the old one *)
(* unless it would not be representable.                                   *)
LEMMA RateUpdated ==
  ASSUME decoder \in DecTypes, decoder.tb <= Second, NEW rate \in SampleRates
  PROVE  LET d == audio_samplerate_update(rate)
         IN  /\ d \in DecTypes /\ d.tb <= Second /\ d.media = decoder.media
             /\ d.inexact \/ d.inexact = decoder.inexact
             /\ ~d.inexact => \E k \in Nat :
                  /\ d.tb = decoder.tb * k
                  /\ d.duration_est = decoder.duration_est * k
                  /\ d.last_pts = IF decoder.last_pts = NOPTS THEN NOPTS ELSE decoder.last_pts * k
<1> DEFINE otb == decoder.tb
           g == Gcd(otb, rate)
           fits == otb \div g < MaxRate \div rate
           tb0 == IF fits THEN (otb \div g) * rate ELSE CommonRate
           frame == Second \div FrameTick
           tb == IF frame > tb0 /\ frame % tb0 = 0 THEN frame ELSE tb0
           last == Rescale(decoder.last_pts, tb, otb)
           est == Rescale(decoder.duration_est, tb, otb)
           d == audio_samplerate_update(rate)
<1>0. /\ otb \in Nat \ {0} /\ rate \in Nat \ {0} /\ Second \in Nat \ {0} /\ FrameTick \in Nat \ {0}
      /\ MaxRate \in Nat /\ MaxRate <= Second /\ CommonRate \in 1 .. Second
      /\ decoder.last_pts \in DecStamps /\ decoder.duration_est \in Nat /\ otb <= Second
  BY DecAssumption DEF DecTypes
<1>1. CASE rate = decoder.rate
  <2>1. d = decoder BY <1>1 DEF audio_samplerate_update
  <2>2. /\ d.tb = otb * 1 /\ d.duration_est = decoder.duration_est * 1
        /\ d.last_pts = IF decoder.last_pts = NOPTS THEN NOPTS ELSE decoder.last_pts * 1
    BY <1>0, <2>1 DEF DecStamps
  <2> QED BY <1>0, <2>1, <2>2
<1>2. CASE rate # decoder.rate
  <2>1. g \in 1 .. otb /\ otb % g = 0 /\ rate % g = 0 BY <1>0, GcdDivides
  <2> HIDE DEF g
  <2>2. otb \div g \in Nat /\ otb = g * (otb \div g)
    <3>1. otb \in Nat /\ g \in Nat \ {0} BY <1>0, <2>1
    <3> HIDE DEF otb
    <3> QED BY <2>1, <3>1, DivExact
  <2>3. rate \div g \in Nat /\ rate = g * (rate \div g) BY <1>0, <2>1, DivExact
  <2> DEFINE m == otb \div g
             j == rate \div g
  <2>4. m * rate = otb * j /\ m # 0
    <3>1. m \in Nat /\ j \in Nat /\ otb = g * m /\ rate = g * j /\ g \in Nat BY <1>0, <2>1, <2>2, <2>3
    <3> HIDE DEF m, j
    <3> QED BY <1>0, <3>1
  <2>5. m * rate \in Nat \ {0}
    <3>1. m \in Nat \ {0} BY <2>2, <2>4
    <3> HIDE DEF m
    <3> QED BY <1>0, <3>1, Products
  <2>6. fits => m * rate <= Second
    <3> DEFINE q == MaxRate \div rate
    <3>1. q \in Int /\ rate * q <= MaxRate BY <1>0, DivBounds
    <3>2. fits => m <= q BY <2>2, <3>1
    <3> HIDE DEF q, m
    <3>3. fits => m * rate <= q * rate BY <1>0, <2>2, <3>1, <3>2, Monotone DEF m
    <3>4. fits => m * rate <= rate * q BY <1>0, <2>2, <3>1, <3>3 DEF m
    <3> QED BY <1>0, <2>5, <3>1, <3>4, Products
  <2>7. tb0 \in Nat \ {0} /\ tb0 <= Second /\ (fits => tb0 = otb * j)
    BY <1>0, <2>4, <2>5, <2>6
  <2> HIDE DEF tb0
  <2>8. frame \in Nat /\ frame <= Second
    <3>1. frame \in Int /\ frame >= 0 /\ FrameTick * frame <= Second BY <1>0, DivBounds
    <3> HIDE DEF frame
    <3>2. FrameTick * frame >= frame BY <1>0, <3>1
    <3> QED BY <1>0, <3>1, <3>2, Products
  <2> HIDE DEF frame
  <2>9. tb \in Nat \ {0} /\ tb <= Second /\ \E i \in Nat : tb = tb0 * i
    <3>1. CASE frame > tb0 /\ frame % tb0 = 0
      <4>1. frame \div tb0 \in Nat /\ frame = tb0 * (frame \div tb0) BY <2>7, <2>8, <3>1, DivExact
      <4> QED BY <2>7, <2>8, <3>1, <4>1
    <3>2. CASE ~(frame > tb0 /\ frame % tb0 = 0)
      <4>1. tb0 = tb0 * 1 BY <2>7
      <4> QED BY <2>7, <3>2, <4>1
    <3> QED BY <3>1, <3>2
  <2>10. PICK i \in Nat : tb = tb0 * i BY <2>9
  <2> HIDE DEF tb, j, m
  <2>11. j \in Nat BY <2>3 DEF j
  <2> DEFINE k == j * i
  <2>12. fits => k \in Nat /\ tb = otb * k BY <1>0, <2>7, <2>10, <2>11, Products
  <2> HIDE DEF k
  <2>13. d = [decoder EXCEPT !.last_pts = last, !.duration_est = est, !.tb = tb, !.rate = rate,
                             !.inexact = decoder.inexact \/ ~fits]
    BY <1>2 DEF audio_samplerate_update, tb, tb0, frame, g
  <2>14. est \in Nat /\ last \in DecStamps
    <3>1. est \in Nat BY <1>0, <2>9, RescaleNat
    <3>2. decoder.last_pts \in Nat => last \in Nat BY <1>0, <2>9, RescaleNat
    <3>3. decoder.last_pts = NOPTS => last = NOPTS BY DEF Rescale
    <3> QED BY <1>0, <3>1, <3>2, <3>3 DEF DecStamps
  <2>15. fits => /\ est = decoder.duration_est * k
                 /\ last = IF decoder.last_pts = NOPTS THEN NOPTS ELSE decoder.last_pts * k
    <3> SUFFICES ASSUME fits PROVE /\ est = decoder.duration_est * k
                                   /\ last = IF decoder.last_pts = NOPTS THEN NOPTS ELSE decoder.last_pts * k
      OBVIOUS
    <3>1. est = decoder.duration_est * k BY <1>0, <2>12, RescaleFiner
    <3>2. decoder.last_pts # NOPTS => last = decoder.last_pts * k BY <1>0, <2>12, RescaleFiner DEF DecStamps
    <3>3. decoder.last_pts = NOPTS => last = NOPTS BY DEF Rescale
    <3> QED BY <3>1, <3>2, <3>3
  <2> HIDE DEF last, est, fits
  <2>16. d \in DecTypes BY <1>0, <2>9, <2>13, <2>14 DEF DecTypes
  <2>17. /\ d.tb = tb /\ d.media = decoder.media /\ d.last_pts = last /\ d.duration_est = est
         /\ d.inexact = (decoder.inexact \/ ~fits)
    BY <2>13 DEF DecTypes
  <2>18. decoder.inexact \in BOOLEAN BY DEF DecTypes
  <2> QED BY <2>9, <2>12, <2>15, <2>16, <2>17, <2>18
<1> QED BY <1>1, <1>2

LEMMA PredictedNat ==
  ASSUME NEW last \in DecStamps, NEW est \in Nat
  PROVE  Predicted(last, est) \in Nat
BY DEF Predicted, DecStamps

LEMMA DecInvInit == DecInit => DecInv
<1> SUFFICES ASSUME DecInit PROVE DecInv OBVIOUS
<1> DEFINE o == [end |-> NOPTS, was |-> 1, pts |-> NOPTS, tb |-> 1, guessed |-> FALSE]
<1>1. /\ decoder.media \in {"video", "audio"} /\ decoder.last_pts = NOPTS /\ decoder.tb = 1
      /\ decoder.out = o /\ decoder.out.guessed = FALSE
  BY DEF DecInit, NewDecoders
<1>2. o \in DecOuts BY NoptsInt DEF DecOuts
<1>3. {o} \subseteq DecOuts /\ {NOPTS} \subseteq DecStamps BY <1>2 DEF DecStamps
<1> HIDE DEF o
<1>4. decoder \in [media : {"video", "audio"}, last_pts : {NOPTS}, duration_est : {0}, tb : {1}, delta : {0},
                   rate : {0}, n : {0}, out : {o}, inexact : {FALSE}]
  BY DEF DecInit, NewDecoders, o
<1>5. PICK m \in {"video", "audio"} :
        decoder = [media |-> m, last_pts |-> NOPTS, duration_est |-> 0, tb |-> 1, delta |-> 0,
                   rate |-> 0, n |-> 0, out |-> o, inexact |-> FALSE]
  BY <1>4
<1>6. decoder \in DecTypes BY <1>3, <1>5 DEF DecTypes
<1> QED BY <1>1, <1>6, DecAssumption DEF DecInv, FramesFollow

LEMMA EstimatePositive ==
  ASSUME decoder \in DecTypes, NEW pts \in Nat, NEW duration \in Nat
  PROVE  video_duration_estimate(pts, duration) \in Nat /\ video_duration_estimate(pts, duration) >= 1
<1> DEFINE diff == IF decoder.last_pts # NOPTS THEN pts - decoder.last_pts ELSE -1
           average == Rescale(AverageTick, 1, FrameTick)
           codec == Rescale(CodecTick, 1, FrameTick)
<1>1. diff \in Int BY DEF DecTypes, DecStamps
<1>2. average \in Nat /\ codec \in Nat BY DecAssumption, RescaleNat
<1>3. decoder.duration_est \in Nat BY DEF DecTypes
<1>4. video_duration_estimate(pts, duration) =
        IF duration > 0 /\ ~(duration = 1 /\ diff > 2) THEN duration
        ELSE IF diff > 0 THEN diff
        ELSE IF duration > 0 THEN duration
        ELSE IF codec > 0 THEN codec
        ELSE IF average > 0 THEN average
        ELSE Larger(decoder.duration_est, 1)
  BY DEF video_duration_estimate
<1> HIDE DEF diff, average, codec
<1> QED BY <1>1, <1>2, <1>3, <1>4 DEF Larger

LEMMA VideoFrameStep ==
  ASSUME DecInv, decoder.media = "video", NEW best \in DecStamps, NEW duration \in Nat, VideoFrame(best, duration)
  PROVE  DecInv'
<1> DEFINE pts == IF best = NOPTS THEN Predicted(decoder.last_pts, decoder.duration_est) ELSE best
           end == IF decoder.last_pts = NOPTS THEN NOPTS ELSE decoder.last_pts
           est == video_duration_estimate(pts, duration)
           o == [end |-> end, was |-> 1, pts |-> pts, tb |-> 1, guessed |-> best = NOPTS]
<1>0. /\ decoder \in DecTypes /\ decoder.last_pts \in DecStamps /\ decoder.duration_est \in Nat
      /\ decoder.n \in Nat /\ decoder.tb <= Second
      /\ decoder.last_pts # NOPTS => decoder.duration_est >= 1
  BY DEF DecInv, DecTypes
<1>1. decoder' = [decoder EXCEPT !.duration_est = est, !.last_pts = pts, !.out = o, !.n = decoder.n + 1]
  BY DEF VideoFrame
<1>2. pts \in Nat
  <2>1. Predicted(decoder.last_pts, decoder.duration_est) \in Nat BY <1>0, PredictedNat
  <2> QED BY <2>1 DEF DecStamps
<1>3. best = NOPTS /\ decoder.last_pts # NOPTS => pts > decoder.last_pts
  BY <1>0 DEF Predicted, DecStamps
<1>4. end \in Int /\ (end # NOPTS => decoder.last_pts # NOPTS /\ end = decoder.last_pts)
  BY <1>0, NatNotNopts
<1> HIDE DEF pts, end
<1>5. est \in Nat /\ est >= 1 BY <1>0, <1>2, EstimatePositive
<1> HIDE DEF est
<1>6. o \in DecOuts
  <2>1. (best = NOPTS) \in BOOLEAN OBVIOUS
  <2> QED BY <1>2, <1>4, <2>1 DEF DecOuts
<1>7. o.end = end /\ o.pts = pts /\ o.guessed = (best = NOPTS) OBVIOUS
<1> HIDE DEF o
<1> DEFINE n == decoder.n + 1
<1>8. n \in Nat BY <1>0
<1> HIDE DEF n
<1>9. decoder' \in DecTypes
  <2>1. pts \in DecStamps BY <1>2 DEF DecStamps
  <2> QED BY <1>0, <1>1, <1>5, <1>6, <1>8, <2>1 DEF DecTypes, n
<1>10. /\ decoder'.tb = decoder.tb /\ decoder'.media = "video" /\ decoder'.duration_est = est
       /\ decoder'.out = o
  BY <1>0, <1>1 DEF DecTypes
<1>11. FramesFollow' BY <1>3, <1>4, <1>7, <1>10 DEF FramesFollow
<1> QED BY <1>0, <1>5, <1>9, <1>10, <1>11 DEF DecInv

LEMMA AudioFrameStep ==
  ASSUME DecInv, decoder.media = "audio", NEW in \in DecStamps, NEW samples \in Nat, NEW rate \in SampleRates,
         AudioFrame(in, samples, rate)
  PROVE  DecInv'
<1> DEFINE d == audio_samplerate_update(rate)
           pred == Predicted(d.last_pts, d.duration_est)
           unit == Second \div d.tb
           pts == IF in = NOPTS THEN pred ELSE in
           from == IF in = NOPTS THEN unit ELSE FrameTick
           gap == in # NOPTS /\ d.last_pts # NOPTS /\ in > RescaleUp(pred, unit, FrameTick)
           last == IF gap THEN NOPTS ELSE d.delta
           r == RescaleDelta(from, pts, unit, samples, last, unit)
           est == Rescale(samples, d.tb, rate)
           end == Predicted(decoder.last_pts, decoder.duration_est)
           o == [end |-> end, was |-> decoder.tb, pts |-> r.ts, tb |-> d.tb, guessed |-> in = NOPTS]
<1>0. /\ decoder \in DecTypes /\ decoder.last_pts \in DecStamps /\ decoder.duration_est \in Nat
      /\ decoder.tb \in Nat \ {0} /\ decoder.tb <= Second
      /\ Second \in Nat \ {0} /\ FrameTick \in Nat \ {0} /\ rate \in Nat \ {0}
  BY DecAssumption DEF DecInv, DecTypes
<1>1. decoder' = [d EXCEPT !.delta = r.last, !.last_pts = r.ts, !.duration_est = est, !.n = d.n + 1, !.out = o]
  BY DEF AudioFrame
<1>2. /\ d \in DecTypes /\ d.tb <= Second /\ d.media = "audio"
      /\ ~d.inexact => \E k \in Nat :
           /\ d.tb = decoder.tb * k
           /\ d.duration_est = decoder.duration_est * k
           /\ d.last_pts = IF decoder.last_pts = NOPTS THEN NOPTS ELSE decoder.last_pts * k
  BY <1>0, RateUpdated
<1> HIDE DEF d
<1>3. /\ d.last_pts \in DecStamps /\ d.duration_est \in Nat /\ d.tb \in Nat \ {0} /\ d.delta \in Nat /\ d.n \in Nat
  BY <1>2 DEF DecTypes
<1>4. unit \in Nat \ {0}
  <2>1. unit \in Int /\ unit >= 0 /\ Second < d.tb * unit + d.tb
    <3> DEFINE t == d.tb
    <3>1. t \in Nat \ {0} /\ Second \in Int /\ Second >= 0 BY <1>0, <1>3
    <3> HIDE DEF t
    <3>2. Second \div t \in Int /\ Second \div t >= 0 /\ Second < t * (Second \div t) + t BY <3>1, DivBounds
    <3> QED BY <3>2 DEF t
  <2> HIDE DEF unit
  <2>2. unit = 0 => d.tb * unit = 0 BY <1>3
  <2> QED BY <1>0, <1>2, <1>3, <2>1, <2>2
<1> HIDE DEF unit
<1>5. pred \in Nat /\ end \in Nat BY <1>0, <1>3, PredictedNat
<1> HIDE DEF pred, end
<1>6. pts \in Nat /\ from \in Nat \ {0} /\ last \in DecStamps
  BY <1>0, <1>3, <1>4, <1>5 DEF DecStamps
<1>7. r.ts \in Nat /\ r.last \in Nat
  <2> HIDE DEF pts, from, last
  <2> QED BY <1>4, <1>6, DeltaNat
<1>8. in = NOPTS => r.ts = pred
  <2> SUFFICES ASSUME in = NOPTS PROVE r.ts = pred OBVIOUS
  <2>1. from = unit /\ pts = pred OBVIOUS
  <2>2. r = [ts |-> Rescale(pred, unit, unit), last |-> Rescale(pred, unit, unit) + samples]
    BY <1>4, <2>1 DEF RescaleDelta
  <2>3. Rescale(pred, unit, unit) = pred
    <3>1. Near(pred * unit, unit) = pred BY <1>4, <1>5, NearExact
    <3> QED BY <1>5, <3>1, NatNotNopts DEF Rescale
  <2> HIDE DEF r
  <2> QED BY <2>2, <2>3
<1> HIDE DEF r
<1>9. est \in Nat BY <1>0, <1>3, RescaleNat
<1> HIDE DEF est
<1>10. o \in DecOuts
  <2>1. (in = NOPTS) \in BOOLEAN OBVIOUS
  <2> QED BY <1>0, <1>3, <1>5, <1>7, <2>1 DEF DecOuts
<1>11. o.end = end /\ o.was = decoder.tb /\ o.pts = r.ts /\ o.tb = d.tb /\ o.guessed = (in = NOPTS) OBVIOUS
<1> HIDE DEF o
<1> DEFINE n == d.n + 1
<1>12. n \in Nat BY <1>3
<1> HIDE DEF n
<1>13. decoder' \in DecTypes
  <2>1. r.ts \in DecStamps BY <1>7 DEF DecStamps
  <2> QED BY <1>1, <1>2, <1>7, <1>9, <1>10, <1>12, <2>1 DEF DecTypes, n
<1>14. decoder'.tb = d.tb /\ decoder'.media = "audio" /\ decoder'.inexact = d.inexact /\ decoder'.out = o
  BY <1>1, <1>2 DEF DecTypes
<1>15. in = NOPTS /\ ~d.inexact => pred * decoder.tb = end * d.tb
  <2> SUFFICES ASSUME in = NOPTS, ~d.inexact PROVE pred * decoder.tb = end * d.tb OBVIOUS
  <2>1. PICK k \in Nat : /\ d.tb = decoder.tb * k
                         /\ d.duration_est = decoder.duration_est * k
                         /\ d.last_pts = IF decoder.last_pts = NOPTS THEN NOPTS ELSE decoder.last_pts * k
    BY <1>2
  <2>2. /\ decoder.last_pts = NOPTS => d.last_pts = NOPTS
        /\ decoder.last_pts # NOPTS => d.last_pts = decoder.last_pts * k
    BY <2>1
  <2>3. CASE decoder.last_pts = NOPTS
    <3>1. pred = 0 /\ end = 0 BY <2>2, <2>3 DEF Predicted, pred, end
    <3> QED BY <1>0, <1>3, <3>1
  <2>4. CASE decoder.last_pts # NOPTS
    <3> DEFINE l == decoder.last_pts
               e == decoder.duration_est
               t == decoder.tb
    <3>1. l \in Nat /\ e \in Nat /\ t \in Nat BY <1>0, <2>4 DEF DecStamps
    <3>2. d.last_pts # NOPTS BY <2>2, <2>4, <3>1, Products, NatNotNopts
    <3>3. pred = l * k + e * k /\ end = l + e BY <2>1, <2>2, <2>4, <3>2 DEF Predicted, pred, end
    <3>4. d.tb = t * k BY <2>1
    <3> HIDE DEF l, e, t
    <3>5. (l * k + e * k) * t = (l + e) * (t * k) BY <3>1
    <3> QED BY <3>3, <3>4, <3>5 DEF t
  <2> QED BY <2>3, <2>4
<1>16. FramesFollow'
  <2>1. in = NOPTS /\ ~d.inexact => o.pts * o.was = o.end * o.tb BY <1>8, <1>11, <1>15
  <2>2. decoder'.media # "video" BY <1>14
  <2> QED BY <1>11, <1>14, <2>1, <2>2 DEF FramesFollow
<1>17. decoder'.media # "video" BY <1>14
<1> QED BY <1>2, <1>13, <1>14, <1>16, <1>17 DEF DecInv

(* A frame that comes without a timestamp follows the frame before it: a   *)
(* video frame after its pts, an audio frame exactly where its samples     *)
(* end, across every sequence of sample rates whose common time base can   *)
(* be represented.                                                         *)
THEOREM FramesFollowAlways == DecSpec => []FramesFollow
<1>1. DecInit => DecInv BY DecInvInit
<1>2. DecInv /\ [DecNext]_decoder => DecInv'
  <2> SUFFICES ASSUME DecInv, [DecNext]_decoder PROVE DecInv' OBVIOUS
  <2>0. FramePts \cup {NOPTS} \subseteq DecStamps BY DecAssumption DEF DecStamps
  <2>1. decoder.media \in {"video", "audio"} BY DEF DecInv, DecTypes
  <2>2. CASE DecNext
    <3>1. PICK pts \in FramePts \cup {NOPTS}, size \in 0 .. 2 :
            IF decoder.media = "video" THEN VideoFrame(pts, size)
            ELSE \E rate \in SampleRates : size > 0 /\ AudioFrame(pts, size, rate)
      BY <2>2 DEF DecNext
    <3>2. pts \in DecStamps /\ size \in Nat BY <2>0
    <3>3. CASE decoder.media = "video" BY <3>1, <3>2, <3>3, VideoFrameStep
    <3>4. CASE decoder.media = "audio"
      <4>1. PICK rate \in SampleRates : AudioFrame(pts, size, rate) BY <3>1, <3>4
      <4> QED BY <3>2, <3>4, <4>1, AudioFrameStep
    <3> QED BY <2>1, <3>3, <3>4
  <2>3. CASE UNCHANGED decoder BY <2>3 DEF DecInv, FramesFollow
  <2> QED BY <2>2, <2>3
<1>3. DecInv => FramesFollow BY DEF DecInv
<1> QED BY <1>1, <1>2, <1>3, PTL DEF DecSpec


-----------------------------------------------------------------------------
(* Serving.  Both parsers of a path agree on every path; the slice of a    *)
(* file is exact as long as the file is the one whose size was read; and a *)
(* published video has all its files in one place, so that a request can   *)
(* only miss one that went after its size was read.                        *)

LEMMA NotEmptySeq == ASSUME NEW f, 1 \in DOMAIN f PROVE f # <<>>
OBVIOUS

LEMMA DigitsOf == ASSUME NEW x PROVE Digits(x).digits = x /\ Word(x).digits = NotGiven /\ Word(x).word = x
BY DEF Digits, Word

LEMMA Joined ==
  ASSUME NEW p, NEW q
  PROVE  /\ <<p>> \o <<q>> # <<>> /\ Len(<<p>> \o <<q>>) = 2
         /\ (<<p>> \o <<q>>)[1] = p /\ (<<p>> \o <<q>>)[2] = q
<1>1. <<p>> \in Seq({p, q}) /\ <<q>> \in Seq({p, q}) /\ Len(<<p>>) = 1 /\ Len(<<q>>) = 1
  OBVIOUS
<1>2. <<p>>[1] = p /\ <<q>>[1] = q
  OBVIOUS
<1> QED BY <1>1, <1>2

LEMMA PathParsed ==
  ASSUME NEW of \in ServeCases, NEW path \in ServePaths(of)
  PROVE  LET file    == split_bucket_and_key(path).key
             checked == parse_video_filename(path)
             w       == IF file[1] = <<>> THEN NotGiven ELSE file[1][1]
         IN  /\ checked.width = (IF w # NotGiven /\ w >= U16 THEN NotGiven ELSE w)
             /\ checked.segment = (IF file[2].kind = "init.mp4" THEN 0 ELSE file[2].n)
<1> DEFINE file    == split_bucket_and_key(path).key
           checked == parse_video_filename(path)
           digits  == IF path.dirs = <<>> THEN NotGiven ELSE Last(path.dirs).digits
           w       == IF file[1] = <<>> THEN NotGiven ELSE file[1][1]
<1>1. PICK b \in {<<>>} \union {<<Word(x)>> : x \in ServeBuckets},
           d \in {<<>>} \union {<<Digits(x)>> : x \in of.widths \union OddWidths}, n \in {f[2] : f \in Tree(of)} :
             path = [dirs |-> b \o d, name |-> n]
  BY DEF ServePaths
<1>2. path.dirs = b \o d
  BY <1>1
<1>3. file[2] = path.name
  BY DEF split_bucket_and_key
<1>4. checked.segment = (IF file[2].kind = "init.mp4" THEN 0 ELSE file[2].n)
  BY <1>3 DEF parse_video_filename
<1>5. w = digits
  <2>1. CASE b = <<>> /\ d = <<>>
    <3>1. path.dirs = <<>>
      BY <1>2, <2>1
    <3>2. file[1] = <<>>
      BY <3>1 DEF split_bucket_and_key
    <3> QED BY <3>1, <3>2
  <2>2. CASE b = <<>> /\ d # <<>>
    <3>1. PICK x \in of.widths \union OddWidths : d = <<Digits(x)>>
      BY <2>2
    <3>2. x # NotGiven
      BY ServeAssumption
    <3>3. path.dirs = <<Digits(x)>> /\ path.dirs # <<>> /\ Last(path.dirs) = Digits(x)
      BY <1>2, <2>2, <3>1 DEF Last
    <3>4. DOMAIN path.dirs = 1 .. 1 /\ path.dirs[1].digits = x
      <4>1. DOMAIN path.dirs = 1 .. 1 /\ path.dirs[1] = Digits(x)
        BY <3>3
      <4> QED BY <4>1, DigitsOf
    <3>5. file[1] = [i \in 1 .. 1 |-> path.dirs[i].digits]
      BY <3>2, <3>3, <3>4 DEF split_bucket_and_key
    <3>6. 1 \in DOMAIN file[1] /\ file[1][1] = x
      <4> HIDE DEF file
      <4> QED BY <3>4, <3>5
    <3> HIDE DEF file
    <3> QED BY <3>3, <3>6, NotEmptySeq, DigitsOf
  <2>3. CASE b # <<>> /\ d = <<>>
    <3>1. PICK x \in ServeBuckets : b = <<Word(x)>>
      BY <2>3
    <3>3. path.dirs = <<Word(x)>> /\ path.dirs # <<>> /\ Last(path.dirs) = Word(x)
      BY <1>2, <2>3, <3>1 DEF Last
    <3>4. file[1] = <<>>
      BY <3>3 DEF split_bucket_and_key, Word
    <3> QED BY <3>3, <3>4 DEF Word
  <2>4. CASE b # <<>> /\ d # <<>>
    <3>1. PICK x \in ServeBuckets : b = <<Word(x)>>
      BY <2>4
    <3>2. PICK y \in of.widths \union OddWidths : d = <<Digits(y)>>
      BY <2>4
    <3>4. Len(path.dirs) = 2 /\ path.dirs[1] = Word(x) /\ path.dirs[2] = Digits(y) /\ path.dirs # <<>>
      BY <1>2, <3>1, <3>2, Joined
    <3>5. path.dirs # <<>> /\ Last(path.dirs) = Digits(y) /\ path.dirs[1].digits = NotGiven
      BY <3>4, DigitsOf DEF Last
    <3>6. file[1] = [i \in 1 .. Len(path.dirs) - 1 |-> path.dirs[i + 1].digits]
      BY <3>5 DEF split_bucket_and_key
    <3>7. 1 \in DOMAIN file[1] /\ file[1][1] = y
      <4> HIDE DEF file
      <4>1. Len(path.dirs) - 1 = 1 /\ path.dirs[1 + 1].digits = y
        BY <3>4, DigitsOf
      <4> QED BY <3>6, <4>1
    <3> HIDE DEF file
    <3> QED BY <3>5, <3>7, NotEmptySeq, DigitsOf
  <2> QED BY <2>1, <2>2, <2>3, <2>4
<1>6. checked.width = IF digits = NotGiven \/ digits >= U16 THEN NotGiven ELSE digits
  BY DEF parse_video_filename
<1> HIDE DEF w, digits
<1>7. checked.width = (IF w # NotGiven /\ w >= U16 THEN NotGiven ELSE w)
  BY <1>5, <1>6
<1> QED BY <1>4, <1>7 DEF w


LEMMA MinOfTwo ==
  ASSUME NEW a \in Int, NEW b \in Int
  PROVE  Min({a, b}) = IF a <= b THEN a ELSE b
<1>1. CASE a <= b
  <2>1. Min({a, b}) = a
    BY <1>1 DEF Min
  <2> QED BY <1>1, <2>1
<1>2. CASE ~(a <= b)
  <2>1. Min({a, b}) = b
    BY <1>2 DEF Min
  <2> QED BY <1>2, <2>1
<1> QED BY <1>1, <1>2

LEMMA Wraps ==
  ASSUME NEW m \in Nat \ {0}, NEW x \in 0 .. m - 1
  PROVE  (x + m) % m = x /\ x % m = x
OBVIOUS

\* The bytes of a slice that lies in the file.
LEMMA SliceRight ==
  ASSUME NEW of \in ServeCases, NEW v \in DOMAIN of.sizes,
         NEW start \in Nat, NEW len \in Nat, start + len <= of.sizes[v]
  PROVE  LET body == Slice(Contents(of, v), start, len)
         IN  Len(body) = len /\ \A i \in DOMAIN body : body[i][2] = start + i - 1
<1> DEFINE n == of.sizes[v]
           bytes == Contents(of, v)
           body == SubSeq(bytes, start + 1, start + len)
<1>1. n \in Nat
  BY ServeAssumption
<1> HIDE DEF n
<1>2. bytes = [i \in 1 .. n |-> <<v, i - 1>>]
  BY DEF Contents, n
<1>3. bytes \in Seq({v} \X Int) /\ Len(bytes) = n
  BY <1>1, <1>2
<1>4. \A i \in 1 .. n : bytes[i][2] = i - 1
  BY <1>2
<1> HIDE DEF bytes
<1>5. /\ Len(body) = len /\ body \in Seq({v} \X Int)
      /\ \A i \in 1 .. len : body[i] = bytes[start + i]
  <2>1. \A i \in start + 1 .. start + len : bytes[i] \in {v} \X Int
    BY <1>1, <1>3 DEF n
  <2>2. start + 1 \in Int /\ start + len \in Int
    OBVIOUS
  <2>3. /\ body \in Seq({v} \X Int) /\ Len(body) = (IF start + 1 <= start + len THEN start + len - (start + 1) + 1 ELSE 0)
        /\ \A i \in 1 .. start + len - (start + 1) + 1 : body[i] = bytes[start + 1 + i - 1]
    BY <2>1, <2>2, SubSeqProperties
  <2> HIDE DEF body
  <2>4. start + len - (start + 1) + 1 = len /\ \A i \in 1 .. len : start + 1 + i - 1 = start + i
    OBVIOUS
  <2> QED BY <2>3, <2>4
<1>6. Slice(bytes, start, len) = body
  <2>1. Min({start + len, Len(bytes)}) = start + len
    BY <1>1, <1>3, MinOfTwo DEF n
  <2> QED BY <2>1 DEF Slice
<1> HIDE DEF body
<1>7. \A i \in DOMAIN body : body[i][2] = start + i - 1
  <2>1. DOMAIN body = 1 .. len
    BY <1>5
  <2>2. ASSUME NEW i \in 1 .. len PROVE body[i][2] = start + i - 1
    <3>1. start + i \in 1 .. n /\ body[i] = bytes[start + i]
      BY <1>1, <1>5 DEF n
    <3> QED BY <1>4, <3>1
  <2> QED BY <2>1, <2>2
<1> QED BY <1>5, <1>6, <1>7 DEF bytes

\* What a request for a range of a file of size bytes gets.
RangeKept(range, size, len, body) ==
  LET end   == Min({IF range.last = NotGiven THEN U64 - 1 ELSE range.last, size - 1})
      first == IF range.first = NotGiven THEN 0 ELSE range.first
  IN  /\ range.first = NotGiven => len = size
      /\ range.first # NotGiven /\ size > 0 /\ range.first <= end => len = end + 1 - first
      /\ range.first = NotGiven \/ (size > 0 /\ range.first <= end) =>
           Len(body) = len /\ \A i \in DOMAIN body : body[i][2] = first + i - 1

LEMMA RangeRight ==
  ASSUME NEW of \in ServeCases, NEW v \in DOMAIN of.sizes, NEW range \in ByteRanges
  PROVE  LET p    == parse_range(range, of.sizes[v])
             len  == (p.end + U64 + 1 - p.start) % U64
         IN  RangeKept(range, of.sizes[v], len, Slice(Contents(of, v), p.start, len))
<1> DEFINE size  == of.sizes[v]
           last  == (size + U64 - 1) % U64
           p     == parse_range(range, size)
           len   == (p.end + U64 + 1 - p.start) % U64
           end   == Min({IF range.last = NotGiven THEN U64 - 1 ELSE range.last, size - 1})
           first == IF range.first = NotGiven THEN 0 ELSE range.first
<1>1. size \in 0 .. U64 - 1 /\ U64 \in Nat \ {0}
  BY ServeAssumption
<1>2. last \in 0 .. U64 - 1 /\ (size > 0 => last = size - 1) /\ (size = 0 => last = U64 - 1)
  <2> HIDE DEF size
  <2>1. CASE size > 0
    <3>1. size - 1 \in 0 .. U64 - 1 /\ size + U64 - 1 = (size - 1) + U64
      BY <1>1, <2>1
    <3> QED BY <1>1, <2>1, <3>1, Wraps
  <2>2. CASE size = 0
    <3>1. U64 - 1 \in 0 .. U64 - 1 /\ size + U64 - 1 = U64 - 1
      BY <1>1, <2>2
    <3> QED BY <1>1, <2>2, <3>1, Wraps
  <2> QED BY <1>1, <2>1, <2>2
<1> HIDE DEF last
<1> USE DEF RangeKept
<1>3. CASE range.first = NotGiven
  <2>1. p.start = 0 /\ p.end = last
    BY <1>3 DEF parse_range, last
  <2>2. len = size
    <3> HIDE DEF p, size
    <3>1. CASE size > 0
      <4>1. p.end + U64 + 1 - p.start = size + U64
        BY <1>1, <1>2, <2>1, <3>1
      <4> QED BY <1>1, <4>1, Wraps
    <3>2. CASE size = 0
      <4>1. p.end + U64 + 1 - p.start = U64 + U64 /\ (U64 + U64) % U64 = 0
        BY <1>1, <1>2, <2>1, <3>2
      <4> QED BY <3>2, <4>1
    <3> QED BY <1>1, <3>1, <3>2
  <2> HIDE DEF p, len, size
  <2>3. len \in Nat /\ p.start \in Nat /\ p.start + len <= size
    BY <1>1, <2>1, <2>2
  <2>4. LET body == Slice(Contents(of, v), p.start, len)
        IN  Len(body) = len /\ \A i \in DOMAIN body : body[i][2] = p.start + i - 1
    BY <2>3, SliceRight DEF size
  <2> QED BY <1>3, <2>1, <2>2, <2>4 DEF p, len, size
<1>4. CASE range.first # NotGiven
  <2>0. /\ range.first \in 0 .. U64 - 1 /\ range.last \in (0 .. U64 - 1) \union {NotGiven}
        /\ NotGiven >= U64 /\ NotGiven \in Nat
    BY <1>4, ServeAssumption
  <2>1. SUFFICES ASSUME size > 0, range.first <= end
                 PROVE  /\ len = end + 1 - range.first
                        /\ LET body == Slice(Contents(of, v), p.start, len)
                           IN  Len(body) = len /\ \A i \in DOMAIN body : body[i][2] = range.first + i - 1
    BY <1>4
  <2>2. p.start = range.first /\ p.end = Min({IF range.last = NotGiven THEN last ELSE range.last, last})
    BY <1>4 DEF parse_range, last
  <2>3. p.end = end /\ end \in 0 .. size - 1
    <3> HIDE DEF size
    <3> DEFINE x == IF range.last = NotGiven THEN U64 - 1 ELSE range.last
               y == IF range.last = NotGiven THEN last ELSE range.last
    <3>1. last = size - 1 /\ x \in 0 .. U64 - 1 /\ y \in 0 .. U64 - 1
      BY <1>1, <1>2, <2>0, <2>1
    <3>2. end = IF x <= size - 1 THEN x ELSE size - 1
      BY <1>1, <3>1, MinOfTwo
    <3>3. Min({y, last}) = IF y <= last THEN y ELSE last
      BY <1>1, <3>1, MinOfTwo
    <3>4. Min({y, last}) = end /\ end \in 0 .. size - 1
      <4> HIDE DEF end
      <4> QED BY <1>1, <2>0, <2>1, <3>1, <3>2, <3>3
    <3> QED BY <2>2, <3>4
  <2> HIDE DEF p, end, size
  <2>4. len = end + 1 - range.first /\ len \in Nat /\ range.first + len <= size
    <3>1. end + 1 - range.first \in 0 .. U64 - 1 /\ p.end + U64 + 1 - p.start = (end + 1 - range.first) + U64
      BY <1>1, <2>0, <2>1, <2>2, <2>3
    <3>2. len = end + 1 - range.first
      BY <1>1, <3>1, Wraps
    <3> HIDE DEF len
    <3> QED BY <1>1, <2>0, <2>1, <2>3, <3>1, <3>2
  <2> HIDE DEF len
  <2>5. LET body == Slice(Contents(of, v), p.start, len)
        IN  Len(body) = len /\ \A i \in DOMAIN body : body[i][2] = p.start + i - 1
    BY <2>0, <2>2, <2>4, SliceRight DEF size
  <2> QED BY <2>2, <2>4, <2>5
<1> QED BY <1>3, <1>4

RequestFields == {"stage", "path", "range", "checked", "file", "remote", "size", "touched", "published"}
IsRequest(r) == r = [x \in RequestFields |-> r[x]]
ServeFields == {"of", "local", "s3", "version", "stage", "request", "answer"}
IsServe(s) == s = [x \in ServeFields |-> s[x]]

Stored ==
  /\ serve.of \in ServeCases
  /\ serve.version \in 0 .. Len(serve.of.sizes)
  /\ serve.stage = "converting" => serve.version < Len(serve.of.sizes)
  /\ \A f \in DOMAIN serve.local : serve.local[f] \in 1 .. serve.version
  /\ \A f \in DOMAIN serve.s3 : serve.s3[f] \in 1 .. serve.version

\* A published video has all its files in one place.
Complete ==
  /\ serve.stage \in {"idle", "converting", "uploading"}
  /\ serve.stage = "uploading" =>
       serve.of.s3 /\ serve.version > 0 /\ Tree(serve.of) \subseteq DOMAIN serve.local
  /\ serve.stage = "idle" /\ serve.version > 0 =>
       Tree(serve.of) \subseteq (IF serve.of.s3 THEN DOMAIN serve.s3 ELSE DOMAIN serve.local)

There(s) == IF s.request.remote THEN s.s3 ELSE s.local
Asked ==
  LET r == serve.request IN
  /\ r.touched \in BOOLEAN
  /\ r.stage # "" =>
       /\ r.path \in ServePaths(serve.of) /\ r.range \in ByteRanges
       /\ r.checked = parse_video_filename(r.path) /\ r.file = split_bucket_and_key(r.path).key
       /\ r.published => Published(serve)
  /\ r.stage = "open" =>
       /\ r.remote => serve.of.s3
       /\ ~r.touched => /\ r.file \in DOMAIN There(serve)
                        /\ r.size = serve.of.sizes[There(serve)[r.file]]

ServeInv == IsServe(serve) /\ IsRequest(serve.request) /\ Stored /\ Complete /\ Asked /\ ServedRight

\* An answer stands as long as nothing else is answered.
LEMMA AnswerStands ==
  ASSUME ServedRight, serve'.answer = serve.answer, serve'.of = serve.of
  PROVE  ServedRight'
<1>1. CheckedIsServed'
  BY DEF ServedRight, CheckedIsServed
<1>2. FoundWhilePublished'
  BY DEF ServedRight, FoundWhilePublished
<1>3. RangeExact'
  BY DEF ServedRight, RangeExact
<1> QED BY <1>1, <1>2, <1>3 DEF ServedRight

LEMMA ServeInvInit == ServeInit => ServeInv
<1> SUFFICES ASSUME ServeInit PROVE ServeInv
  OBVIOUS
<1>1. PICK of \in ServeCases :
        serve = [of |-> of, local |-> <<>>, s3 |-> <<>>, version |-> 0, stage |-> "idle", request |-> NoRequest, answer |-> NoAnswer]
  BY DEF ServeInit, NewServes
<1>2. /\ serve.of = of /\ serve.local = <<>> /\ serve.s3 = <<>> /\ serve.version = 0 /\ serve.stage = "idle"
      /\ serve.request = NoRequest /\ serve.answer = NoAnswer
  BY <1>1
<1>3. IsServe(serve)
  BY <1>1 DEF IsServe, ServeFields
<1>4. IsRequest(NoRequest) /\ NoRequest.touched = FALSE /\ NoRequest.stage = ""
  BY DEF IsRequest, NoRequest, RequestFields
<1>5. Stored
  <2>1. of.sizes \in Seq(0 .. U64 - 1)
    BY ServeAssumption
  <2>2. 0 \in 0 .. Len(of.sizes)
    BY <2>1
  <2> QED BY <1>2, <2>2 DEF Stored
<1>6. Complete /\ Asked
  <2>1. Complete
    BY <1>2 DEF Complete
  <2>2. Asked
    BY <1>2, <1>4 DEF Asked
  <2> QED BY <2>1, <2>2
<1>7. ServedRight
  <2>1. serve.answer.status = 0
    BY <1>2 DEF NoAnswer
  <2> QED BY <2>1 DEF ServedRight, CheckedIsServed, FoundWhilePublished, RangeExact
<1> QED BY <1>2, <1>3, <1>4, <1>5, <1>6, <1>7 DEF ServeInv

\* What a step that answers nothing does to the fields.
LEMMA Touched ==
  ASSUME NEW s, IsServe(s), IsRequest(s.request)
  PROVE  /\ IsServe(Touch(s)) /\ IsRequest(Touch(s).request)
         /\ Touch(s).of = s.of /\ Touch(s).local = s.local /\ Touch(s).s3 = s.s3
         /\ Touch(s).version = s.version /\ Touch(s).stage = s.stage /\ Touch(s).answer = s.answer
         /\ Touch(s).request = [s.request EXCEPT !.touched = TRUE]
<1> DEFINE r == [s.request EXCEPT !.touched = TRUE]
<1>1. IsRequest(r)
  BY DEF IsRequest, RequestFields
<1> HIDE DEF r
<1>2. Touch(s) = [s EXCEPT !.request = r]
  BY DEF Touch, r, IsServe
<1>4. IsServe([s EXCEPT !.request = r])
  BY DEF IsServe, ServeFields
<1> QED BY <1>1, <1>2, <1>4 DEF IsServe, ServeFields, r

SameRequest ==
  LET r == serve.request
      u == serve'.request
  IN  /\ u.stage = r.stage /\ u.path = r.path /\ u.range = r.range /\ u.checked = r.checked
      /\ u.file = r.file /\ u.remote = r.remote

LEMMA AskedKept ==
  ASSUME Asked, serve'.of = serve.of, SameRequest, serve'.request.touched \in BOOLEAN,
         serve'.request.published => Published(serve)',
         serve'.request.stage = "open" /\ ~serve'.request.touched =>
           /\ serve'.request.file \in DOMAIN There(serve)'
           /\ serve'.request.size = serve'.of.sizes[There(serve)'[serve'.request.file]]
  PROVE  Asked'
<1>1. serve'.request.stage # "" =>
       /\ serve'.request.path \in ServePaths(serve'.of) /\ serve'.request.range \in ByteRanges
       /\ serve'.request.checked = parse_video_filename(serve'.request.path)
       /\ serve'.request.file = split_bucket_and_key(serve'.request.path).key
  BY DEF Asked, SameRequest
<1>2. serve'.request.stage = "open" /\ serve'.request.remote => serve'.of.s3
  BY DEF Asked, SameRequest
<1> QED BY <1>1, <1>2 DEF Asked

\* What the video does leaves the answer and its case alone.
LEMMA ConvertStartsStep ==
  ASSUME ServeInv, ConvertStarts
  PROVE  ServeInv'
<1> USE DEF ServeInv
<1> DEFINE q == [serve.request EXCEPT !.published = FALSE]
           t == [serve EXCEPT !.stage = "converting", !.local = <<>>, !.request = q]
<1>1. IsRequest(q) /\ q.stage = serve.request.stage /\ q.published = FALSE
      /\ q.path = serve.request.path /\ q.range = serve.request.range /\ q.checked = serve.request.checked
      /\ q.file = serve.request.file /\ q.remote = serve.request.remote
  BY DEF IsRequest, RequestFields
<1> HIDE DEF q
<1>2. /\ IsServe(t) /\ t.of = serve.of /\ t.local = <<>> /\ t.s3 = serve.s3 /\ t.version = serve.version
      /\ t.stage = "converting" /\ t.request = q /\ t.answer = serve.answer
  BY DEF IsServe, ServeFields
<1>3. serve' = Touch(t)
  BY DEF ConvertStarts, q, IsServe, ServeFields
<1> HIDE DEF t
<1> DEFINE u == serve'.request
<1>4. /\ IsServe(serve)' /\ IsRequest(serve.request)' /\ serve'.of = serve.of /\ serve'.local = <<>>
      /\ serve'.s3 = serve.s3 /\ serve'.version = serve.version /\ serve'.stage = "converting"
      /\ serve'.answer = serve.answer /\ u = [q EXCEPT !.touched = TRUE]
  <2>1. IsServe(Touch(t)) /\ IsRequest(Touch(t).request)
    BY <1>1, <1>2, Touched
  <2> QED BY <1>1, <1>2, <1>3, <2>1, Touched DEF IsServe, IsRequest
<1>5. /\ u.stage = serve.request.stage /\ u.published = FALSE /\ u.touched = TRUE
      /\ u.path = serve.request.path /\ u.range = serve.request.range /\ u.checked = serve.request.checked
      /\ u.file = serve.request.file /\ u.remote = serve.request.remote
  BY <1>1, <1>4 DEF IsRequest, RequestFields
<1>6. Stored'
  BY <1>4 DEF Stored, ConvertStarts
<1>7. Complete'
  BY <1>4 DEF Complete
<1>8. Asked'
  <2>1. SameRequest
    BY <1>5 DEF SameRequest
  <2> QED BY <1>4, <1>5, <2>1, AskedKept
<1>9. ServedRight'
  BY <1>4, AnswerStands
<1> QED BY <1>4, <1>6, <1>7, <1>8, <1>9

LEMMA ConvertEndsStep ==
  ASSUME ServeInv, ConvertEnds
  PROVE  ServeInv'
<1> USE DEF ServeInv
<1> DEFINE to == IF serve.of.s3 THEN "uploading" ELSE "idle"
           made == [f \in Tree(serve.of) |-> serve.version + 1]
           t == [serve EXCEPT !.stage = to, !.version = @ + 1, !.local = made]
           u == serve'.request
<1>1. serve' = Touch(t) /\ serve.stage = "converting"
  BY DEF ConvertEnds
<1>0. (serve.of.s3 => to = "uploading") /\ (~serve.of.s3 => to = "idle") /\ to \in {"idle", "uploading"}
  OBVIOUS
<1>m. DOMAIN made = Tree(serve.of) /\ \A f \in DOMAIN made : made[f] = serve.version + 1
  OBVIOUS
<1> HIDE DEF to, made
<1>2. /\ IsServe(t) /\ t.of = serve.of /\ t.local = made /\ t.s3 = serve.s3 /\ t.version = serve.version + 1
      /\ t.stage = to /\ t.request = serve.request /\ t.answer = serve.answer
  BY DEF IsServe, ServeFields
<1> HIDE DEF t
<1>3. /\ IsServe(serve)' /\ IsRequest(serve.request)' /\ serve'.of = serve.of /\ serve'.local = made
      /\ serve'.s3 = serve.s3 /\ serve'.version = serve.version + 1 /\ serve'.stage = to
      /\ serve'.answer = serve.answer /\ u = [serve.request EXCEPT !.touched = TRUE]
  <2>1. /\ IsServe(Touch(t)) /\ IsRequest(Touch(t).request)
        /\ Touch(t).of = t.of /\ Touch(t).local = t.local /\ Touch(t).s3 = t.s3
        /\ Touch(t).version = t.version /\ Touch(t).stage = t.stage /\ Touch(t).answer = t.answer
        /\ Touch(t).request = [t.request EXCEPT !.touched = TRUE]
    BY <1>2, Touched
  <2>2. IsServe(serve') /\ IsRequest(serve'.request)
    BY <1>1, <2>1
  <2>3. IsServe(serve)' /\ IsRequest(serve.request)'
    BY <2>2 DEF IsServe, IsRequest
  <2> QED BY <1>1, <1>2, <2>1, <2>3
<1>4. u.touched = TRUE /\ u.published = serve.request.published /\ SameRequest
  BY <1>3 DEF IsRequest, RequestFields, SameRequest
<1>5. serve.version \in 0 .. Len(serve.of.sizes) - 1 /\ Len(serve.of.sizes) \in Nat
  <2>1. serve.of.sizes \in Seq(0 .. U64 - 1)
    BY ServeAssumption DEF Stored
  <2> QED BY <1>1, <2>1 DEF Stored
<1>6. Stored'
  BY <1>0, <1>m, <1>3, <1>5 DEF Stored
<1>7. Complete'
  BY <1>0, <1>m, <1>3, <1>5 DEF Complete, Stored
<1>8. u.published => Published(serve)'
  <2>1. serve'.version > 0 /\ serve'.stage # "converting"
    BY <1>0, <1>3, <1>5
  <2> QED BY <2>1 DEF Published
<1>9. Asked'
  BY <1>3, <1>4, <1>8, AskedKept
<1>10. ServedRight'
  BY <1>3, AnswerStands
<1> QED BY <1>3, <1>6, <1>7, <1>9, <1>10

LEMMA UploadOneStep ==
  ASSUME ServeInv, NEW f \in Tree(serve.of), UploadOne(f)
  PROVE  ServeInv'
<1> USE DEF ServeInv
<1> DEFINE r == serve.request
           there == [g \in DOMAIN serve.s3 \union {f} |-> IF g = f THEN serve.version ELSE serve.s3[g]]
           hit == r.touched \/ (r.remote /\ r.file = f)
           q == [r EXCEPT !.touched = hit]
           u == serve'.request
<1>1. serve' = [serve EXCEPT !.s3 = there, !.request = q] /\ serve.stage = "uploading"
  BY DEF UploadOne, IsServe, ServeFields, IsRequest, RequestFields
<1>2. DOMAIN there = DOMAIN serve.s3 \union {f}
      /\ \A g \in DOMAIN there : there[g] = IF g = f THEN serve.version ELSE serve.s3[g]
  OBVIOUS
<1>3. hit \in BOOLEAN /\ (~hit => ~r.touched /\ (r.remote => r.file # f))
  BY DEF Asked
<1> HIDE DEF hit, there
<1>4. /\ IsRequest(q) /\ q.touched = hit /\ q.published = r.published /\ q.stage = r.stage /\ q.path = r.path
      /\ q.range = r.range /\ q.checked = r.checked /\ q.file = r.file /\ q.remote = r.remote /\ q.size = r.size
  BY DEF IsRequest, RequestFields
<1> HIDE DEF q
<1>5. /\ IsServe(serve)' /\ serve'.of = serve.of /\ serve'.local = serve.local /\ serve'.s3 = there
      /\ serve'.version = serve.version /\ serve'.stage = serve.stage /\ serve'.answer = serve.answer
      /\ u = q
  BY <1>1 DEF IsServe, ServeFields
<1>6. IsRequest(serve.request)' /\ SameRequest
  BY <1>4, <1>5 DEF IsRequest, SameRequest
<1>7. Stored'
  <2>1. serve.version \in 1 .. serve.version
    BY <1>1 DEF Complete, Stored
  <2> QED BY <1>1, <1>2, <1>5, <2>1 DEF Stored
<1>8. Complete'
  BY <1>1, <1>5 DEF Complete
<1>9. Asked'
  <2>1. u.published => Published(serve)'
    <3>1. serve.version > 0
      BY <1>1 DEF Complete
    <3> QED BY <1>1, <1>5, <3>1 DEF Published
  <2>2. ASSUME u.stage = "open", ~u.touched
        PROVE  /\ u.file \in DOMAIN There(serve)'
               /\ u.size = serve'.of.sizes[There(serve)'[u.file]]
    <3>1. ~r.touched /\ (r.remote => r.file # f) /\ r.stage = "open"
      BY <1>3, <1>4, <1>5, <2>2
    <3>2. /\ r.file \in DOMAIN There(serve)
          /\ r.size = serve.of.sizes[There(serve)[r.file]]
      BY <3>1 DEF Asked
    <3>3. CASE r.remote
      <4>1. r.file \in DOMAIN serve.s3 /\ r.size = serve.of.sizes[serve.s3[r.file]]
        BY <3>2, <3>3 DEF There
      <4>2. r.file \in DOMAIN there /\ there[r.file] = serve.s3[r.file]
        BY <1>2, <3>1, <3>3, <4>1
      <4>3. There(serve)' = there
        BY <1>4, <1>5, <3>3 DEF There
      <4> QED BY <1>4, <1>5, <4>1, <4>2, <4>3
    <3>4. CASE ~r.remote
      <4>1. There(serve)' = There(serve)
        BY <1>4, <1>5, <3>4 DEF There
      <4> QED BY <1>4, <1>5, <3>2, <4>1
    <3> QED BY <3>3, <3>4
  <2>3. u.touched \in BOOLEAN
    BY <1>3, <1>4, <1>5
  <2> QED BY <1>5, <1>6, <2>1, <2>2, <2>3, AskedKept
<1>10. ServedRight'
  BY <1>5, AnswerStands
<1> QED BY <1>5, <1>6, <1>7, <1>8, <1>9, <1>10

LEMMA UploadEndsStep ==
  ASSUME ServeInv, UploadEnds
  PROVE  ServeInv'
<1> USE DEF ServeInv
<1> DEFINE t == [serve EXCEPT !.stage = "idle", !.local = <<>>]
           u == serve'.request
<1>1. serve' = Touch(t) /\ serve.stage = "uploading" /\ Left = {}
  BY DEF UploadEnds
<1>2. /\ IsServe(t) /\ t.of = serve.of /\ t.local = <<>> /\ t.s3 = serve.s3 /\ t.version = serve.version
      /\ t.stage = "idle" /\ t.request = serve.request /\ t.answer = serve.answer
  BY DEF IsServe, ServeFields
<1> HIDE DEF t
<1>3. /\ IsServe(serve)' /\ IsRequest(serve.request)' /\ serve'.of = serve.of /\ serve'.local = <<>>
      /\ serve'.s3 = serve.s3 /\ serve'.version = serve.version /\ serve'.stage = "idle"
      /\ serve'.answer = serve.answer /\ u = [serve.request EXCEPT !.touched = TRUE]
  <2>1. /\ IsServe(Touch(t)) /\ IsRequest(Touch(t).request)
        /\ Touch(t).of = t.of /\ Touch(t).local = t.local /\ Touch(t).s3 = t.s3
        /\ Touch(t).version = t.version /\ Touch(t).stage = t.stage /\ Touch(t).answer = t.answer
        /\ Touch(t).request = [t.request EXCEPT !.touched = TRUE]
    BY <1>2, Touched
  <2>2. IsServe(serve') /\ IsRequest(serve'.request)
    BY <1>1, <2>1
  <2>3. IsServe(serve)' /\ IsRequest(serve.request)'
    BY <2>2 DEF IsServe, IsRequest
  <2> QED BY <1>1, <1>2, <2>1, <2>3
<1>4. u.touched = TRUE /\ u.published = serve.request.published /\ SameRequest
  BY <1>3 DEF IsRequest, RequestFields, SameRequest
<1>5. serve.of.s3 /\ serve.version > 0 /\ Tree(serve.of) \subseteq DOMAIN serve.s3
  BY <1>1 DEF Complete, Left
<1>6. Stored'
  BY <1>3 DEF Stored
<1>7. Complete'
  BY <1>3, <1>5 DEF Complete
<1>8. u.published => Published(serve)'
  BY <1>3, <1>5 DEF Published
<1>9. Asked'
  BY <1>3, <1>4, <1>8, AskedKept
<1>10. ServedRight'
  BY <1>3, AnswerStands
<1> QED BY <1>3, <1>6, <1>7, <1>9, <1>10

\* An answer ends the request and leaves the video as it is.
LEMMA AnswerFields ==
  ASSUME ServeInv, NEW r, NEW status, NEW len, NEW body, Answer(r, status, len, body)
  PROVE  /\ serve'.of = serve.of
         /\ serve'.answer.status = status /\ serve'.answer.len = len
         /\ serve'.answer.body = body /\ serve'.answer.of = r
         /\ IsServe(serve)' /\ IsRequest(serve.request)' /\ Stored' /\ Complete' /\ Asked'
<1> USE DEF ServeInv
<1> DEFINE a == [status |-> status, len |-> len, body |-> body, of |-> r]
<1>1. a.status = status /\ a.len = len /\ a.body = body /\ a.of = r
  OBVIOUS
<1>2. serve' = [serve EXCEPT !.request = NoRequest, !.answer = a]
  BY DEF Answer
<1> HIDE DEF a
<1>3. /\ IsServe(serve)' /\ serve'.of = serve.of /\ serve'.local = serve.local /\ serve'.s3 = serve.s3
      /\ serve'.version = serve.version /\ serve'.stage = serve.stage
      /\ serve'.answer = a /\ serve'.request = NoRequest
  BY <1>2 DEF IsServe, ServeFields
<1>4. IsRequest(NoRequest) /\ NoRequest.touched = FALSE /\ NoRequest.stage = ""
  BY DEF IsRequest, NoRequest, RequestFields
<1>5. IsRequest(serve.request)'
  BY <1>3, <1>4 DEF IsRequest
<1>6. Stored'
  BY <1>3 DEF Stored
<1>7. Complete'
  BY <1>3 DEF Complete
<1>8. Asked'
  BY <1>3, <1>4 DEF Asked
<1> QED BY <1>1, <1>3, <1>5, <1>6, <1>7, <1>8

\* What may be asked of a request that can be answered.
Proper(r) == split_bucket_and_key(r.path).bucket = (IF serve.of.s3 THEN "mine" ELSE "")
Satisfiable(r) ==
  LET first == IF r.range.first = NotGiven THEN 0 ELSE r.range.first
  IN  ~serve.of.s3 \/ \A v \in DOMAIN serve.of.sizes : first < serve.of.sizes[v]
MustFind(r) == r.published /\ ~r.touched /\ r.file \in Tree(serve.of) /\ Proper(r) /\ Satisfiable(r)

LEMMA RefusedRight ==
  ASSUME ServeInv, NEW r, NEW status \in {400, 404}, Answer(r, status, 0, <<>>), ~MustFind(r)
  PROVE  ServeInv'
<1>1. /\ serve'.of = serve.of /\ serve'.answer.status = status /\ serve'.answer.of = r
      /\ IsServe(serve)' /\ IsRequest(serve.request)' /\ Stored' /\ Complete' /\ Asked'
  BY AnswerFields
<1>2. status \notin {200, 206}
  OBVIOUS
<1>3. CheckedIsServed' /\ RangeExact'
  BY <1>1, <1>2 DEF CheckedIsServed, RangeExact
<1>4. FoundWhilePublished'
  <2> DEFINE a == serve'.answer
             o == serve'.of
             first == IF a.of.range.first = NotGiven THEN 0 ELSE a.of.range.first
             satisfiable == ~o.s3 \/ \A v \in DOMAIN o.sizes : first < o.sizes[v]
             proper == split_bucket_and_key(a.of.path).bucket = (IF o.s3 THEN "mine" ELSE "")
  <2>1. ~(a.of.published /\ ~a.of.touched /\ a.of.file \in Tree(o) /\ proper /\ satisfiable)
    BY <1>1 DEF MustFind, Proper, Satisfiable
  <2> QED BY <2>1 DEF FoundWhilePublished
<1> QED BY <1>1, <1>3, <1>4 DEF ServeInv, ServedRight

LEMMA RequestStep ==
  ASSUME ServeInv, NEW path \in ServePaths(serve.of), NEW range \in ByteRanges, Request(path, range)
  PROVE  ServeInv'
<1> DEFINE split == split_bucket_and_key(path)
           checked == parse_video_filename(path)
           published == Published(serve)
           r == [NoRequest EXCEPT !.stage = "stat", !.path = path, !.range = range, !.checked = checked,
                                  !.file = split.key, !.published = published]
<1>1. IF serve.of.s3 /\ choose_bucket_for_s3(split.bucket, serve.of.home) = "" THEN Answer(r, 400, 0, <<>>)
      ELSE serve' = [serve EXCEPT !.request = r]
  BY DEF Request
<1> HIDE DEF published
<1>2. /\ IsRequest(r) /\ r.stage = "stat" /\ r.path = path /\ r.range = range /\ r.checked = checked
      /\ r.file = split.key /\ r.published = published /\ r.touched = FALSE
  BY DEF NoRequest, IsRequest, RequestFields
<1> HIDE DEF r
<1>3. CASE serve.of.s3 /\ choose_bucket_for_s3(split.bucket, serve.of.home) = ""
  <2>1. split.bucket # "mine"
    BY <1>3 DEF choose_bucket_for_s3
  <2>2. ~MustFind(r)
    BY <1>2, <1>3, <2>1 DEF MustFind, Proper
  <2> QED BY <1>1, <1>3, <2>2, RefusedRight
<1>4. CASE ~(serve.of.s3 /\ choose_bucket_for_s3(split.bucket, serve.of.home) = "")
  <2> USE DEF ServeInv
  <2>1. serve' = [serve EXCEPT !.request = r]
    BY <1>1, <1>4
  <2>2. /\ IsServe(serve)' /\ serve'.of = serve.of /\ serve'.local = serve.local /\ serve'.s3 = serve.s3
        /\ serve'.version = serve.version /\ serve'.stage = serve.stage
        /\ serve'.answer = serve.answer /\ serve'.request = r
    BY <2>1 DEF IsServe, ServeFields
  <2>3. IsRequest(serve.request)' /\ Stored' /\ Complete'
    BY <1>2, <2>2 DEF IsRequest, Stored, Complete
  <2>4. Published(serve)' = Published(serve)
    BY <2>2 DEF Published
  <2>5. Asked'
    BY <1>2, <2>2, <2>4 DEF Asked, published
  <2>6. ServedRight'
    BY <2>2, AnswerStands
  <2> QED BY <2>2, <2>3, <2>5, <2>6
<1> QED BY <1>3, <1>4

\* A published file is found, locally or in the bucket.
LEMMA StatFinds ==
  ASSUME ServeInv, serve.request.stage = "stat", NEW r, r.path = serve.request.path, r.file = serve.request.file,
         r.published = serve.request.published, MustFind(r)
  PROVE  r.file \in DOMAIN serve.local \/ InS3(serve.request)
<1> USE DEF ServeInv
<1>1. /\ serve.version > 0 /\ serve.stage \in {"idle", "uploading"} /\ r.file \in Tree(serve.of)
      /\ split_bucket_and_key(r.path).bucket = (IF serve.of.s3 THEN "mine" ELSE "")
  BY DEF Asked, Published, Complete, MustFind, Proper
<1>2. CASE serve.of.s3 /\ r.file \in DOMAIN serve.s3
  BY <1>1, <1>2 DEF InS3, choose_bucket_for_s3
<1>3. CASE r.file \in DOMAIN serve.local
  BY <1>3
<1>4. CASE serve.stage = "uploading"
  BY <1>1, <1>3, <1>4 DEF Complete
<1>5. CASE serve.stage = "idle"
  BY <1>1, <1>2, <1>3, <1>5 DEF Complete
<1> QED BY <1>1, <1>4, <1>5

LEMMA FoundStep ==
  ASSUME ServeInv, serve.request.stage = "stat", NEW remote \in BOOLEAN, remote => serve.of.s3,
         NEW there, there = (IF remote THEN serve.s3 ELSE serve.local), serve.request.file \in DOMAIN there,
         serve' = [serve EXCEPT !.request = [serve.request EXCEPT !.stage = "open", !.remote = remote,
                                               !.size = serve.of.sizes[there[serve.request.file]], !.touched = FALSE]]
  PROVE  ServeInv'
<1> USE DEF ServeInv
<1> DEFINE r == serve.request
           size == serve.of.sizes[there[r.file]]
           q == [r EXCEPT !.stage = "open", !.remote = remote, !.size = size, !.touched = FALSE]
<1>1. serve' = [serve EXCEPT !.request = q]
  OBVIOUS
<1> HIDE DEF size
<1>2. /\ IsRequest(q) /\ q.stage = "open" /\ q.remote = remote /\ q.size = size /\ q.touched = FALSE
      /\ q.path = r.path /\ q.range = r.range /\ q.checked = r.checked /\ q.file = r.file /\ q.published = r.published
  BY DEF IsRequest, RequestFields
<1> HIDE DEF q
<1>3. /\ IsServe(serve)' /\ serve'.of = serve.of /\ serve'.local = serve.local /\ serve'.s3 = serve.s3
      /\ serve'.version = serve.version /\ serve'.stage = serve.stage
      /\ serve'.answer = serve.answer /\ serve'.request = q
  BY <1>1 DEF IsServe, ServeFields
<1>4. IsRequest(serve.request)' /\ Stored' /\ Complete'
  BY <1>2, <1>3 DEF IsRequest, Stored, Complete
<1>5. Asked'
  <2>1. There(serve)' = there
    BY <1>2, <1>3 DEF There
  <2>2. Published(serve)' = Published(serve)
    BY <1>3 DEF Published
  <2>3. /\ r.path \in ServePaths(serve.of) /\ r.range \in ByteRanges
        /\ r.checked = parse_video_filename(r.path) /\ r.file = split_bucket_and_key(r.path).key
        /\ r.published => Published(serve)
    BY DEF Asked
  <2>4. size = serve.of.sizes[there[r.file]] /\ r.file \in DOMAIN there
    BY DEF size
  <2> QED BY <1>2, <1>3, <2>1, <2>2, <2>3, <2>4 DEF Asked
<1>6. ServedRight'
  BY <1>3, AnswerStands
<1> QED BY <1>3, <1>4, <1>5, <1>6

LEMMA StatFileStep ==
  ASSUME ServeInv, StatFile
  PROVE  ServeInv'
<1> DEFINE r == serve.request
           q == [r EXCEPT !.touched = FALSE]
           Found(remote, v) == serve' = [serve EXCEPT !.request = [r EXCEPT !.stage = "open", !.remote = remote,
                                                                    !.size = serve.of.sizes[v], !.touched = FALSE]]
<1>1. /\ r.stage = "stat"
      /\ IF r.file \in DOMAIN serve.local THEN Found(FALSE, serve.local[r.file])
         ELSE IF InS3(r) THEN Found(TRUE, serve.s3[r.file])
         ELSE Answer(q, 404, 0, <<>>)
  BY DEF StatFile
<1>2. CASE r.file \in DOMAIN serve.local
  BY <1>1, <1>2, FoundStep
<1>3. CASE r.file \notin DOMAIN serve.local /\ InS3(r)
  <2>1. serve.of.s3 /\ r.file \in DOMAIN serve.s3
    BY <1>3 DEF InS3
  <2> QED BY <1>1, <1>3, <2>1, FoundStep
<1>4. CASE r.file \notin DOMAIN serve.local /\ ~InS3(r)
  <2>1. Answer(q, 404, 0, <<>>)
    BY <1>1, <1>4
  <2>2. q.path = r.path /\ q.file = r.file /\ q.published = r.published
    BY DEF ServeInv, IsRequest, RequestFields
  <2> HIDE DEF q
  <2>3. ~MustFind(q)
    BY <1>1, <1>4, <2>2, StatFinds
  <2> QED BY <2>1, <2>3, RefusedRight
<1> QED BY <1>2, <1>3, <1>4

LEMMA RangeGiven ==
  ASSUME NEW of \in ServeCases, NEW v \in DOMAIN of.sizes, NEW range \in ByteRanges,
         NEW size, size = of.sizes[v],
         NEW p, p = parse_range(range, size), NEW len, len = (p.end + U64 + 1 - p.start) % U64,
         NEW body, body = Slice(Contents(of, v), p.start, len)
  PROVE  RangeKept(range, size, len, body)
BY RangeRight, Zenon

\* An answer that carries bytes is right about them.
LEMMA SentRight ==
  ASSUME ServeInv, NEW v \in DOMAIN serve.of.sizes, NEW r, r = serve.request, r.stage = "open",
         ~r.touched => r.size = serve.of.sizes[v],
         NEW p, p = parse_range(r.range, r.size), NEW len, len = (p.end + U64 + 1 - p.start) % U64,
         NEW body, body = Slice(Contents(serve.of, v), p.start, len),
         Answer(r, p.status, len, body)
  PROVE  ServeInv'
<1>1. /\ serve'.of = serve.of /\ serve'.answer.status = p.status /\ serve'.answer.of = r
      /\ serve'.answer.len = len /\ serve'.answer.body = body
      /\ IsServe(serve)' /\ IsRequest(serve.request)' /\ Stored' /\ Complete' /\ Asked'
  BY AnswerFields
<1>2. p.status \in {200, 206}
  BY DEF parse_range
<1>3. /\ serve.of \in ServeCases /\ r.path \in ServePaths(serve.of) /\ r.range \in ByteRanges
      /\ r.checked = parse_video_filename(r.path) /\ r.file = split_bucket_and_key(r.path).key
  BY DEF ServeInv, Stored, Asked
<1>4. FoundWhilePublished'
  BY <1>1, <1>2 DEF FoundWhilePublished
<1>5. CheckedIsServed'
  <2>1. LET w == IF r.file[1] = <<>> THEN NotGiven ELSE r.file[1][1]
        IN  /\ r.checked.width = (IF w # NotGiven /\ w >= U16 THEN NotGiven ELSE w)
            /\ r.checked.segment = (IF r.file[2].kind = "init.mp4" THEN 0 ELSE r.file[2].n)
    BY <1>3, PathParsed
  <2> QED BY <1>1, <2>1 DEF CheckedIsServed
<1>6. RangeExact'
  <2> DEFINE a == serve'.answer
  <2>1. ~r.touched => RangeKept(r.range, r.size, len, body)
    BY <1>3, RangeGiven
  <2>2. a.len = len /\ a.body = body /\ a.of = r
    BY <1>1
  <2> HIDE DEF a
  <2>3. ~a.of.touched => RangeKept(a.of.range, a.of.size, a.len, a.body)
    BY <2>1, <2>2
  <2> QED BY <2>3 DEF RangeKept, RangeExact, a
<1> QED BY <1>1, <1>4, <1>5, <1>6 DEF ServeInv, ServedRight

LEMMA OpenFileStep ==
  ASSUME ServeInv, OpenFile
  PROVE  ServeInv'
<1> DEFINE r == serve.request
           p == parse_range(r.range, r.size)
           len == (p.end + U64 + 1 - p.start) % U64
           there == There(serve)
           bytes == Contents(serve.of, there[r.file])
<1>1. /\ r.stage = "open"
      /\ IF r.file \notin DOMAIN there THEN Answer(r, 404, 0, <<>>)
         ELSE IF r.remote /\ p.start >= Len(bytes) THEN Answer(r, 404, 0, <<>>)
         ELSE Answer(r, p.status, len, Slice(bytes, p.start, len))
  BY DEF OpenFile, There
<1>2. ~r.touched => r.file \in DOMAIN there /\ r.size = serve.of.sizes[there[r.file]]
  BY <1>1 DEF ServeInv, Asked
<1>3. CASE r.file \notin DOMAIN there
  <2>1. ~MustFind(r)
    BY <1>2, <1>3 DEF MustFind
  <2> QED BY <1>1, <1>3, <2>1, RefusedRight
<1>4. ASSUME r.file \in DOMAIN there
      PROVE  there[r.file] \in DOMAIN serve.of.sizes
  <2>1. serve.of.sizes \in Seq(0 .. U64 - 1)
    BY ServeAssumption DEF ServeInv, Stored
  <2>2. there[r.file] \in 1 .. serve.version
    BY <1>4 DEF ServeInv, Stored, There
  <2>3. serve.version \in 0 .. Len(serve.of.sizes)
    BY DEF ServeInv, Stored
  <2> QED BY <2>1, <2>2, <2>3
<1>5. CASE r.file \in DOMAIN there /\ r.remote /\ p.start >= Len(bytes)
  <2> DEFINE n == serve.of.sizes[there[r.file]]
             first == IF r.range.first = NotGiven THEN 0 ELSE r.range.first
  <2>1. n \in Nat /\ Len(bytes) = n
    <3>1. n \in Nat
      <4>1. serve.of.sizes \in Seq(0 .. U64 - 1) /\ U64 \in Nat
        BY ServeAssumption DEF ServeInv, Stored
      <4>2. there[r.file] \in DOMAIN serve.of.sizes
        BY <1>4, <1>5
      <4>3. \A w \in DOMAIN serve.of.sizes : serve.of.sizes[w] \in 0 .. U64 - 1
        BY <4>1
      <4> HIDE DEF there
      <4> QED BY <4>1, <4>2, <4>3
    <3>2. bytes = [i \in 1 .. n |-> <<there[r.file], i - 1>>]
      BY DEF Contents
    <3> HIDE DEF n, bytes
    <3> QED BY <3>1, <3>2
  <2>2. p.start = first /\ first \in Nat
    <3>1. r.range \in ByteRanges
      BY <1>1 DEF ServeInv, Asked
    <3>2. p.start = first
      BY DEF parse_range
    <3> QED BY <3>1, <3>2, ServeAssumption
  <2>3. serve.of.s3
    BY <1>1, <1>5 DEF ServeInv, Asked
  <2>4. ~(first < n)
    <3> HIDE DEF n, bytes, first, p
    <3> QED BY <1>5, <2>1, <2>2
  <2>5. ~MustFind(r)
    BY <1>4, <1>5, <2>3, <2>4 DEF MustFind, Satisfiable
  <2> QED BY <1>1, <1>5, <2>5, RefusedRight
<1>6. CASE r.file \in DOMAIN there /\ ~(r.remote /\ p.start >= Len(bytes))
  <2>1. Answer(r, p.status, len, Slice(bytes, p.start, len))
    BY <1>1, <1>6
  <2> QED BY <1>1, <1>2, <1>4, <1>6, <2>1, SentRight
<1> QED BY <1>3, <1>5, <1>6

\* While a video is converted, uploaded, removed from the local disk and
\* converted again, a request is answered with the file that was checked, is
\* refused only for a reason, and gets exactly the bytes it asked for, for every
\* number and size of files, every width and every range of bytes.
THEOREM ServedAlways == ServeSpec => []ServedRight
<1>1. ServeInv /\ [ServeNext]_serve => ServeInv'
  <2> SUFFICES ASSUME ServeInv, [ServeNext]_serve PROVE ServeInv'
    OBVIOUS
  <2>1. CASE UNCHANGED serve
    BY <2>1, AnswerStands DEF ServeInv, IsServe, IsRequest, Stored, Complete, Asked, Published, There
  <2> QED BY <2>1, ConvertStartsStep, ConvertEndsStep, UploadOneStep, UploadEndsStep, RequestStep,
             StatFileStep, OpenFileStep DEF ServeNext
<1>2. ServeInv => ServedRight
  BY DEF ServeInv
<1> QED BY ServeInvInit, <1>1, <1>2, PTL DEF ServeSpec

-----------------------------------------------------------------------------
(* The times of a demuxer: DemuxClock                                      *)

LEMMA NearHalf ==
  ASSUME NEW a \in Int, NEW d \in Nat \ {0}
  PROVE  /\ Near(a, d) \in Int /\ Near(a, d) * d \in Int
         /\ 2 * (Near(a, d) * d) <= 2 * a + d /\ 2 * a <= 2 * (Near(a, d) * d) + d
<1>1. ASSUME NEW n \in Nat
      PROVE  LET q == (2 * n + d) \div (2 * d)
             IN  q \in Int /\ q * d \in Int /\ 2 * (q * d) <= 2 * n + d /\ 2 * n < 2 * (q * d) + d
  <2> DEFINE q == (2 * n + d) \div (2 * d)
  <2>1. 2 * n + d \in Int /\ 2 * d \in Nat \ {0}
    OBVIOUS
  <2>2. q \in Int /\ (2 * d) * q <= 2 * n + d /\ 2 * n + d < (2 * d) * q + 2 * d
    BY <2>1, DivBounds
  <2> HIDE DEF q
  <2>3. (2 * d) * q = 2 * (q * d) /\ q * d \in Int
    BY <2>2
  <2> QED BY <2>2, <2>3 DEF q
<1>2. CASE a >= 0
  BY <1>1, <1>2 DEF Near
<1>3. CASE a < 0
  <2> DEFINE q == (2 * (-a) + d) \div (2 * d)
  <2>1. Near(a, d) = -q
    BY <1>3 DEF Near
  <2>0. -a \in Nat
    BY <1>3
  <2>2. q \in Int /\ q * d \in Int /\ 2 * (q * d) <= 2 * (-a) + d /\ 2 * (-a) < 2 * (q * d) + d
    BY <1>1, <2>0
  <2> HIDE DEF q
  <2>3. (-q) * d = -(q * d)
    BY <2>2
  <2> QED BY <2>1, <2>2, <2>3
<1> QED BY <1>2, <1>3

\* A jump is taken back up to a tick.
LEMMA JumpBack ==
  ASSUME NEW dts \in Int, NEW delta \in Int
  PROVE  LET at == (dts - Near(delta, Tick)) * Tick
         IN  at \in Int /\ at >= dts * Tick - delta - Tick /\ at <= dts * Tick - delta + Tick
<1> DEFINE n == Near(delta, Tick)
           m == n * Tick
           e == dts * Tick
<1>1. Tick \in Nat \ {0}
  BY DemuxAssumption
<1>2. n \in Int /\ m \in Int /\ 2 * m <= 2 * delta + Tick /\ 2 * delta <= 2 * m + Tick /\ e \in Int
  BY <1>1, NearHalf
<1> HIDE DEF n
<1>3. (dts - n) * Tick = e - m
  BY <1>1, <1>2
<1> HIDE DEF m, e
<1>4. e - m \in Int /\ e - m >= e - delta - Tick /\ e - m <= e - delta + Tick
  BY <1>1, <1>2
<1> QED BY <1>3, <1>4 DEF n, e

(* The fields of a record that is a demuxer, a stream of it, what it says  *)
(* of its last packet.                                                     *)
DemuxFields == {"fmt", "ts_offset_discont", "last_ts", "duration", "min_pts", "max_pts", "end_pts", "loops", "read",
                "top", "seam", "low", "ds", "last"}
StreamFields == {"wrap_done", "saw_first_ts", "first_dts", "next_dts", "dts"}
LastFields == {"stream", "was", "dts", "pts", "raw"}
Has(r, fields) == r = [x \in fields |-> r[x]]

IsDemuxStream(st) ==
  /\ Has(st, StreamFields) /\ st.dts \in Int /\ st.next_dts \in Int
  /\ st.next_dts # NOPTS => st.next_dts >= st.dts

DemuxTyped(d) ==
  /\ Has(d, DemuxFields) /\ d.fmt \in Formats
  /\ d.ts_offset_discont \in Int /\ d.last_ts \in Int /\ d.duration \in Int
  /\ d.max_pts \in Int /\ d.min_pts \in Int /\ d.end_pts \in Int
  /\ Has(d.ds, DemuxStreams) /\ \A s \in DemuxStreams : IsDemuxStream(d.ds[s])

LEMMA UpdatedRight ==
  ASSUME NEW st, IsDemuxStream(st), NEW s \in DemuxStreams, NEW dts \in Int, NEW pts \in Int
  PROVE  IsDemuxStream(Updated(st, s, dts, pts))
<1> DEFINE first == IF pts = NOPTS THEN 0 ELSE pts * Tick
           next0 == IF st.next_dts = NOPTS THEN IF st.saw_first_ts THEN st.dts ELSE first ELSE st.next_dts
           now == IF dts # NOPTS THEN dts * Tick ELSE next0
           next == IF s = "audio" THEN now + FrameStep ELSE (Near(now, FrameStep) + 1) * FrameStep
           first2 == IF st.saw_first_ts THEN st.first_dts ELSE first
<1>1. Tick \in Int /\ FrameStep \in Nat \ {0}
  BY DemuxAssumption
<1>2. first \in Int
  BY <1>1
<1>3. next0 \in Int
  <2> HIDE DEF first
  <2> QED BY <1>2 DEF IsDemuxStream
<1>4. now \in Int
  <2> HIDE DEF next0
  <2> QED BY <1>1, <1>3
<1> HIDE DEF now
<1>5. next \in Int /\ next >= now
  <2> DEFINE m == Near(now, FrameStep) * FrameStep
  <2>1. Near(now, FrameStep) \in Int /\ m \in Int /\ 2 * now <= 2 * m + FrameStep
    BY <1>1, <1>4, NearHalf
  <2>2. (Near(now, FrameStep) + 1) * FrameStep = m + FrameStep
    BY <1>1, <2>1
  <2> HIDE DEF m
  <2>3. m + FrameStep \in Int /\ m + FrameStep >= now /\ now + FrameStep >= now
    BY <1>1, <1>4, <2>1
  <2> QED BY <1>1, <1>4, <2>2, <2>3
<1>6. Updated(st, s, dts, pts) =
        [st EXCEPT !.saw_first_ts = TRUE, !.first_dts = first2, !.dts = now, !.next_dts = next]
  BY DEF Updated, now, IsDemuxStream, Has, StreamFields
<1> HIDE DEF first2, next
<1> DEFINE u == [st EXCEPT !.saw_first_ts = TRUE, !.first_dts = first2, !.dts = now, !.next_dts = next]
<1>7. Has(u, StreamFields) /\ u.dts = now /\ u.next_dts = next
  BY DEF IsDemuxStream, Has, StreamFields
<1> HIDE DEF u
<1>8. IsDemuxStream(u)
  BY <1>4, <1>5, <1>7 DEF IsDemuxStream
<1> QED BY <1>6, <1>8 DEF u

\* The dts of a packet against what was predicted for it.
OnTimeline(st, dts) == 
  st.next_dts # NOPTS /\ dts # NOPTS =>
    dts * Tick >= st.dts - Tenth - Tick /\ dts * Tick - st.next_dts <= Delta + Tick

\* Formats whose loops are not interrupted by corrections.
Plain(fmt) == ~fmt.discont /\ ~fmt.have_audio_dec /\ fmt.start_time = NOPTS

LEMMA CorrectedRight ==
  ASSUME NEW d, DemuxTyped(d), NEW s \in DemuxStreams, NEW dts \in Int, NEW pts \in Int
  PROVE  LET c == Corrected(d, s, dts, pts)
         IN  /\ c.dts \in Int /\ c.pts \in Int
             /\ d.fmt.discont /\ ~d.fmt.copy_ts => OnTimeline(d.ds[s], c.dts)
             /\ \E off \in Int, last \in Int :
                  /\ c.d = [d EXCEPT !.ts_offset_discont = off, !.last_ts = last]
                  /\ ~d.fmt.discont => off = d.ts_offset_discont
             /\ ~d.fmt.discont /\ d.ts_offset_discont = 0 => c.pts \in {pts, NOPTS}
<1> DEFINE st == d.ds[s]
           off == Near(d.ts_offset_discont, Tick)
           a == Shift(dts, off)
           b == Shift(pts, off)
           c == Corrected(d, s, dts, pts)
<1>0. Tick \in Nat \ {0} /\ Delta \in Nat /\ Tenth \in Nat /\ NOPTS \in Int
  BY DemuxAssumption, NoptsInt
<1>z. Near(0, Tick) = 0
  <2>1. Near(0, Tick) \in Int /\ 2 * (Near(0, Tick) * Tick) <= Tick /\ 0 <= 2 * (Near(0, Tick) * Tick) + Tick
    BY <1>0, NearHalf
  <2> DEFINE n == Near(0, Tick)
  <2> HIDE DEF n
  <2>2. n < 1 /\ n > -1
    <3>1. n >= 1 => n * Tick >= 1 * Tick
      BY <1>0, <2>1 DEF n
    <3>2. n <= -1 => n * Tick <= (-1) * Tick
      BY <1>0, <2>1 DEF n
    <3> QED BY <1>0, <2>1, <3>1, <3>2 DEF n
  <2> QED BY <2>1, <2>2 DEF n
<1>1. off \in Int /\ (d.ts_offset_discont = 0 => off = 0)
  <2>1. off \in Int
    BY <1>0, NearHalf DEF DemuxTyped
  <2> QED BY <2>1, <1>z
<1> HIDE DEF off
<1>2. a \in Int /\ b \in Int /\ (off = 0 => b = pts)
  BY <1>0, <1>1 DEF Shift
<1> HIDE DEF a, b
<1>3. st.next_dts \in Int /\ st.dts \in Int /\ (st.next_dts # NOPTS => st.next_dts >= st.dts)
      /\ d.last_ts \in Int /\ d.ts_offset_discont \in Int /\ d.fmt \in Formats
  BY DEF DemuxTyped, IsDemuxStream
<1>4. CASE a = NOPTS
  <2>1. c = [d |-> d, dts |-> a, pts |-> b]
    BY <1>4 DEF Corrected, a, b, off
  <2>2. c.d = d /\ c.dts = NOPTS /\ c.pts = b
    BY <1>4, <2>1
  <2>3. d = [d EXCEPT !.ts_offset_discont = d.ts_offset_discont, !.last_ts = d.last_ts]
    BY DEF DemuxTyped, Has, DemuxFields
  <2> HIDE DEF c
  <2> QED BY <1>0, <1>1, <1>2, <1>3, <2>2, <2>3 DEF OnTimeline, c
<1>5. CASE a # NOPTS
  <2> DEFINE jump == Jump(d, s, a)
             back == Near(jump, Tick)
             dts2 == Kept(d, s, a - back)
             pts2 == Kept(d, s, Shift(b, -back))
             off2 == d.ts_offset_discont - jump
             last == Rescale(dts2, Tick, 1)
             at == a * Tick
  <2>1. c = [d |-> [d EXCEPT !.ts_offset_discont = off2, !.last_ts = last], dts |-> dts2, pts |-> pts2]
    BY <1>5 DEF Corrected, a, b, off
  <2>2. c.d = [d EXCEPT !.ts_offset_discont = off2, !.last_ts = last] /\ c.dts = dts2 /\ c.pts = pts2
    BY <2>1
  <2> HIDE DEF c
  <2>3. at \in Int
    BY <1>0, <1>2
  <2>4. jump \in Int /\ (~d.fmt.discont => jump = 0)
    BY <1>0, <1>2, <1>3, <2>3 DEF Jump
  <2>5. ASSUME d.fmt.discont, ~d.fmt.copy_ts, st.next_dts # NOPTS
        PROVE  \/ jump = at - st.next_dts
               \/ jump = 0 /\ at - st.next_dts <= Delta /\ at >= st.dts - Tenth
    BY <1>0, <1>2, <1>3, <2>3, <2>5 DEF Jump, Abs
  <2> HIDE DEF jump
  <2>6. back \in Int /\ (jump = 0 => back = 0)
    BY <1>0, <1>z, <2>4, NearHalf
  <2>7. /\ dts2 \in Int /\ pts2 \in Int /\ (d.fmt.discont => dts2 = a - back)
        /\ (back = 0 => pts2 \in {b, NOPTS})
    BY <1>0, <1>2, <2>6 DEF Kept, Shift
  <2>8. last \in Int /\ off2 \in Int
    <3>1. dts2 * Tick \in Int /\ Near(dts2 * Tick, 1) \in Int
      <4> HIDE DEF dts2
      <4>1. dts2 * Tick \in Int /\ 1 \in Nat \ {0}
        BY <1>0, <2>7
      <4> QED BY <4>1, NearHalf
    <3> QED BY <1>0, <1>3, <2>4, <3>1 DEF Rescale
  <2>9. ASSUME d.fmt.discont, ~d.fmt.copy_ts PROVE OnTimeline(st, dts2)
    <3> SUFFICES ASSUME st.next_dts # NOPTS
                 PROVE  dts2 * Tick >= st.dts - Tenth - Tick /\ dts2 * Tick - st.next_dts <= Delta + Tick
      BY DEF OnTimeline
    <3>1. dts2 = a - back
      BY <2>7, <2>9
    <3>2. CASE jump = at - st.next_dts
      <4> DEFINE now == (a - back) * Tick
      <4>1. now \in Int /\ now >= at - jump - Tick /\ now <= at - jump + Tick
        BY <1>2, <2>4, JumpBack
      <4> HIDE DEF now, at, back, st
      <4>2. now >= st.next_dts - Tick /\ now <= st.next_dts + Tick
        BY <1>0, <1>3, <2>3, <2>4, <3>2, <4>1 DEF st
      <4>3. now >= st.dts - Tenth - Tick /\ now - st.next_dts <= Delta + Tick
        BY <1>0, <1>3, <4>1, <4>2 DEF st
      <4> QED BY <3>1, <4>3 DEF now
    <3>3. CASE jump = 0 /\ at - st.next_dts <= Delta /\ at >= st.dts - Tenth
      <4>1. dts2 * Tick = at
        BY <1>2, <2>6, <3>1, <3>3
      <4> HIDE DEF at, dts2
      <4> QED BY <1>0, <1>3, <2>3, <3>3, <4>1
    <3> QED BY <2>5, <2>9, <3>2, <3>3
  <2> HIDE DEF dts2, pts2, off2, last, back
  <2>10. ~d.fmt.discont => off2 = d.ts_offset_discont /\ back = 0
    BY <1>3, <2>4, <2>6 DEF off2
  <2> QED BY <1>1, <1>2, <2>2, <2>7, <2>8, <2>9, <2>10 DEF c
<1> QED BY <1>4, <1>5

\* Before and after the end of a round: what was given out is below what the
\* next round starts from.
Rounds(d) ==
  /\ d.ts_offset_discont = 0 /\ d.duration \in Nat
  /\ {d.max_pts, d.min_pts, d.end_pts, d.top, d.seam, d.low} \subseteq Int
  /\ d.max_pts = NOPTS => d.min_pts = NOPTS /\ d.end_pts = NOPTS
  /\ d.max_pts # NOPTS => NOPTS < d.min_pts /\ d.min_pts <= d.max_pts
  /\ d.top # NOPTS => d.max_pts # NOPTS /\ d.top < d.max_pts
  /\ d.seam # NOPTS => d.seam < d.low + d.duration

DemuxInv ==
  /\ DemuxTyped(demuxer) /\ Has(demuxer.last, LastFields)
  /\ Plain(demuxer.fmt) => Rounds(demuxer)
  /\ DemuxTimesHold

LEMMA UnwrapInt ==
  ASSUME NEW d, NEW s, NEW ts \in Int
  PROVE  Unwrap(d, s, ts) \in Int /\ (d.fmt.start_time = NOPTS => Unwrap(d, s, ts) = ts)
<1>1. Half \in Int
  BY DemuxAssumption DEF Half
<1> QED BY <1>1 DEF Unwrap, Wrapped

LEMMA ExtentRight ==
  ASSUME NEW d, DemuxTyped(d), NEW s \in DemuxStreams, NEW pkt, pkt.pts \in Int, pkt.pts >= NOPTS
  PROVE  LET e == WithExtent(d, s, pkt)
             pts == Shift(pkt.pts, d.duration)
         IN  /\ DemuxTyped(e) /\ e.fmt = d.fmt /\ e.duration = d.duration
             /\ e.top = d.top /\ e.seam = d.seam /\ e.low = d.low /\ e.last = d.last
             /\ Plain(d.fmt) /\ Rounds(d) => Rounds(e) /\ (pts # NOPTS => e.max_pts # NOPTS /\ pts < e.max_pts)
<1> DEFINE p == Shift(Unwrap(d, s, pkt.pts), d.duration)
           step == IF d.fmt.have_audio_dec THEN 0 ELSE FrameStep \div Tick
           end == p + step
           done == d.fmt.start_time # NOPTS /\ ~Wrapped(d, s, pkt.dts) /\ ~Wrapped(d, s, pkt.pts)
           st == [d.ds[s] EXCEPT !.wrap_done = @ \/ done]
           ds == [d.ds EXCEPT ![s] = st]
           e0 == [d EXCEPT !.ds = ds, !.end_pts = pkt.pts]
           max == IF d.max_pts = NOPTS \/ d.max_pts < end THEN end ELSE d.max_pts
           min == IF d.min_pts = NOPTS \/ d.min_pts > p THEN p ELSE d.min_pts
           e == WithExtent(d, s, pkt)
<1>1. e = IF p = NOPTS THEN e0 ELSE [e0 EXCEPT !.max_pts = max, !.min_pts = min]
  BY DEF WithExtent, DemuxTyped, Has, DemuxFields
<1>2. IsDemuxStream(st)
  BY DEF DemuxTyped, IsDemuxStream, Has, StreamFields
<1> HIDE DEF st, done
<1>3. Has(ds, DemuxStreams) /\ \A t \in DemuxStreams : IsDemuxStream(ds[t])
  BY <1>2 DEF DemuxTyped, Has
<1> HIDE DEF ds
<1>4. /\ Has(e0, DemuxFields) /\ e0.ds = ds /\ e0.end_pts = pkt.pts /\ e0.fmt = d.fmt /\ e0.last = d.last
      /\ e0.ts_offset_discont = d.ts_offset_discont /\ e0.last_ts = d.last_ts /\ e0.duration = d.duration
      /\ e0.max_pts = d.max_pts /\ e0.min_pts = d.min_pts /\ e0.top = d.top /\ e0.seam = d.seam /\ e0.low = d.low
  BY DEF DemuxTyped, Has, DemuxFields
<1> HIDE DEF e0, max, min
<1>5. /\ Has(e, DemuxFields) /\ e.ds = ds /\ e.end_pts = pkt.pts /\ e.fmt = d.fmt /\ e.last = d.last
      /\ e.ts_offset_discont = d.ts_offset_discont /\ e.last_ts = d.last_ts /\ e.duration = d.duration
      /\ e.top = d.top /\ e.seam = d.seam /\ e.low = d.low
      /\ p = NOPTS => e.max_pts = d.max_pts /\ e.min_pts = d.min_pts
      /\ p # NOPTS => e.max_pts = max /\ e.min_pts = min
  <2> HIDE DEF p
  <2>1. CASE p = NOPTS
    BY <1>1, <1>4, <2>1
  <2>2. CASE p # NOPTS
    <3>1. e = [e0 EXCEPT !.max_pts = max, !.min_pts = min]
      BY <1>1, <2>2
    <3> HIDE DEF e
    <3> QED BY <1>4, <2>2, <3>1 DEF Has, DemuxFields
  <2> QED BY <2>1, <2>2
<1> HIDE DEF e
<1>6. DemuxTyped(e)
  <2>1. step \in Int
    BY DemuxAssumption, DivBounds
  <2>2. p \in Int
    BY UnwrapInt, NoptsInt DEF Shift, DemuxTyped
  <2> HIDE DEF p, step
  <2>3. max \in Int /\ min \in Int
    BY <2>1, <2>2 DEF max, min, DemuxTyped
  <2>4. e.max_pts \in Int /\ e.min_pts \in Int
    BY <1>5, <2>3 DEF DemuxTyped
  <2> QED BY <1>3, <1>5, <2>4 DEF DemuxTyped
<1>7. ASSUME Plain(d.fmt), Rounds(d)
      PROVE  Rounds(e) /\ (Shift(pkt.pts, d.duration) # NOPTS => e.max_pts # NOPTS /\ Shift(pkt.pts, d.duration) < e.max_pts)
  <2>1. p = Shift(pkt.pts, d.duration) /\ step = FrameStep \div Tick
    BY <1>7, UnwrapInt DEF Plain
  <2>2. step \in Int /\ step >= 1
    <3>1. Tick \in Nat \ {0} /\ FrameStep \in Nat /\ FrameStep >= Tick
      BY DemuxAssumption
    <3>2. FrameStep \div Tick \in Int /\ FrameStep < Tick * (FrameStep \div Tick) + Tick
      BY <3>1, DivBounds
    <3>3. FrameStep \div Tick >= 1
      <4> DEFINE q == FrameStep \div Tick
      <4> HIDE DEF q
      <4>1. q <= 0 => Tick * q <= 0
        BY <3>1, <3>2 DEF q
      <4> QED BY <3>1, <3>2, <4>1 DEF q
    <3> QED BY <2>1, <3>2, <3>3
  <2> HIDE DEF step
  <2>3. d.duration \in Nat /\ NOPTS \in Int
    BY <1>7, NoptsInt DEF Rounds
  <2>4. p \in Int /\ p >= NOPTS /\ (pkt.pts = NOPTS <=> p = NOPTS)
    BY <2>1, <2>3 DEF Shift
  <2> HIDE DEF p
  <2>5. {d.max_pts, d.min_pts, d.end_pts, d.top, d.seam, d.low} \subseteq Int
    BY <1>7 DEF Rounds
  <2>6. CASE p = NOPTS
    <3>1. pkt.pts = NOPTS /\ e.max_pts = d.max_pts /\ e.min_pts = d.min_pts
      BY <1>5, <2>4, <2>6
    <3> QED BY <1>5, <1>7, <2>1, <2>3, <2>6, <3>1 DEF Rounds
  <2>7. CASE p # NOPTS
    <3>1. /\ max \in Int /\ min \in Int /\ max > p /\ max # NOPTS /\ min > NOPTS /\ min <= p
          /\ d.max_pts # NOPTS => max >= d.max_pts
      BY <1>7, <2>2, <2>3, <2>4, <2>5, <2>7 DEF max, min, Rounds
    <3>2. e.max_pts = max /\ e.min_pts = min
      BY <1>5, <2>7
    <3>3. e.top # NOPTS => e.top < e.max_pts
      BY <1>5, <1>7, <2>5, <3>1, <3>2 DEF Rounds
    <3>4. Rounds(e)
      BY <1>5, <1>7, <2>3, <2>4, <2>5, <3>1, <3>2, <3>3 DEF Rounds
    <3> QED BY <2>1, <3>1, <3>2, <3>4
  <2> QED BY <2>6, <2>7
<1> QED BY <1>5, <1>6, <1>7 DEF e

LEMMA DemuxInvInit == DemuxInit => DemuxInv
<1> SUFFICES ASSUME DemuxInit PROVE DemuxInv
  OBVIOUS
<1>1. PICK f \in Formats : demuxer = NewDemuxer(f)
  BY DEF DemuxInit, NewDemuxers
<1>2. NOPTS \in Int
  BY NoptsInt
<1>3. IsDemuxStream(NewStream)
  BY <1>2 DEF IsDemuxStream, NewStream, Has, StreamFields
<1>4. /\ Has(demuxer, DemuxFields) /\ demuxer.fmt = f /\ demuxer.ts_offset_discont = 0 /\ demuxer.last_ts = 0
      /\ demuxer.duration = 0 /\ demuxer.min_pts = NOPTS /\ demuxer.max_pts = NOPTS /\ demuxer.end_pts = NOPTS
      /\ demuxer.top = NOPTS /\ demuxer.seam = NOPTS /\ demuxer.low = NOPTS
      /\ demuxer.ds = [s \in DemuxStreams |-> NewStream]
      /\ Has(demuxer.last, LastFields) /\ demuxer.last.dts = NOPTS /\ demuxer.last.pts = NOPTS
  BY <1>1 DEF NewDemuxer, Has, DemuxFields, LastFields
<1>5. DemuxTyped(demuxer)
  BY <1>2, <1>3, <1>4 DEF DemuxTyped, Has
<1>6. Rounds(demuxer)
  BY <1>2, <1>4 DEF Rounds
<1>7. DemuxTimesHold
  BY <1>4 DEF DemuxTimesHold, TimelineHolds, LoopGoesOn
<1> QED BY <1>4, <1>5, <1>6, <1>7 DEF DemuxInv

LEMMA SeekToStartStep == DemuxInv /\ SeekToStart => DemuxInv'
<1> SUFFICES ASSUME DemuxInv, SeekToStart PROVE DemuxInv'
  OBVIOUS
<1> DEFINE d == demuxer
           m == IF d.max_pts < d.end_pts THEN d.end_pts ELSE d.max_pts
           low == IF d.min_pts = NOPTS THEN 0 ELSE d.min_pts
           duration == IF m = NOPTS THEN d.duration ELSE m - low
           last == [d.last EXCEPT !.pts = NOPTS]
           more == d.loops - 1
<1>1. demuxer' = [demuxer EXCEPT !.max_pts = m, !.loops = more, !.seam = d.top, !.low = low, !.last = last,
                                 !.duration = duration]
  BY DEF SeekToStart, DemuxInv, DemuxTyped, Has, DemuxFields
<1>2. NOPTS \in Int /\ DemuxTyped(d) /\ d.max_pts \in Int /\ d.min_pts \in Int /\ d.end_pts \in Int /\ d.duration \in Int
  BY NoptsInt DEF DemuxInv, DemuxTyped
<1>3. m \in Int /\ m >= d.max_pts /\ low \in Int
  BY <1>2
<1>4. duration \in Int
  <2> HIDE DEF m, low
  <2> QED BY <1>2, <1>3
<1>5. Has(last, LastFields) /\ last.dts = d.last.dts /\ last.was = d.last.was /\ last.pts = NOPTS
  BY DEF DemuxInv, Has, LastFields
<1>6. ASSUME Plain(d.fmt)
      PROVE  /\ Rounds(d) /\ duration \in Nat
             /\ m = NOPTS => d.max_pts = NOPTS
             /\ d.top # NOPTS => m # NOPTS /\ d.top < m /\ d.top < low + duration
             /\ d.max_pts # NOPTS => m # NOPTS
             /\ d.max_pts = NOPTS => m = NOPTS
  <2>1. Rounds(d)
    BY <1>6 DEF DemuxInv
  <2>2. CASE d.max_pts = NOPTS
    BY <1>2, <2>1, <2>2 DEF Rounds
  <2>3. CASE d.max_pts # NOPTS
    <3>1. NOPTS < d.min_pts /\ d.min_pts <= d.max_pts /\ (d.top # NOPTS => d.top < d.max_pts) /\ d.top \in Int
      BY <2>1, <2>3 DEF Rounds
    <3>2. m # NOPTS /\ low = d.min_pts
      BY <1>2, <1>3, <3>1
    <3> HIDE DEF m, low
    <3>3. duration = m - low
      BY <3>2
    <3> HIDE DEF duration
    <3> QED BY <1>2, <1>3, <2>1, <2>3, <3>1, <3>2, <3>3
  <2> QED BY <2>2, <2>3
<1> HIDE DEF m, low, duration, last, more
<1>7. /\ Has(demuxer', DemuxFields) /\ demuxer'.fmt = d.fmt /\ demuxer'.ts_offset_discont = d.ts_offset_discont
      /\ demuxer'.last_ts = d.last_ts /\ demuxer'.duration = duration /\ demuxer'.min_pts = d.min_pts
      /\ demuxer'.max_pts = m /\ demuxer'.end_pts = d.end_pts /\ demuxer'.top = d.top /\ demuxer'.seam = d.top
      /\ demuxer'.low = low /\ demuxer'.ds = d.ds /\ demuxer'.last = last
  BY <1>1, <1>2 DEF DemuxTyped, Has, DemuxFields
<1>8. DemuxTyped(demuxer')
  BY <1>2, <1>3, <1>4, <1>7 DEF DemuxTyped
<1>9. Plain(demuxer'.fmt) => Rounds(demuxer')
  <2> SUFFICES ASSUME Plain(d.fmt) PROVE Rounds(demuxer')
    BY <1>7
  <2>1. Rounds(d) /\ duration \in Nat
    BY <1>6
  <2>2. {m, d.min_pts, d.end_pts, d.top, low} \subseteq Int
    BY <1>2, <1>3, <2>1 DEF Rounds
  <2>3. m = NOPTS => d.min_pts = NOPTS /\ d.end_pts = NOPTS
    BY <1>6, <2>1 DEF Rounds
  <2>4. m # NOPTS => NOPTS < d.min_pts /\ d.min_pts <= m
    BY <1>2, <1>3, <1>6, <2>1 DEF Rounds
  <2>5. d.top # NOPTS => m # NOPTS /\ d.top < m /\ d.top < low + duration
    BY <1>6
  <2> QED BY <1>7, <2>1, <2>2, <2>3, <2>4, <2>5 DEF Rounds
<1>10. DemuxTimesHold'
  BY <1>5, <1>7 DEF DemuxInv, DemuxTimesHold, TimelineHolds, LoopGoesOn
<1> QED BY <1>5, <1>7, <1>8, <1>9, <1>10 DEF DemuxInv

LEMMA PacketStep ==
  ASSUME DemuxInv, NEW s \in DemuxStreams, NEW pkt, pkt.dts \in Int, pkt.pts \in Int, pkt.pts >= NOPTS,
         Packet(s, pkt)
  PROVE  DemuxInv'
<1> DEFINE e == WithExtent(demuxer, s, pkt)
           dts == Shift(Unwrap(demuxer, s, pkt.dts), e.duration)
           pts == Shift(Unwrap(demuxer, s, pkt.pts), e.duration)
           c == Corrected(e, s, dts, pts)
           was == e.ds[s]
           last == [stream |-> s, was |-> was, dts |-> c.dts, pts |-> c.pts, raw |-> pkt.pts]
<1>1. demuxer' = [c.d EXCEPT !.ds[s] = Updated(@, s, c.dts, c.pts), !.read = @ + 1, !.last = last,
                             !.top = Larger(@, c.pts)]
  BY DEF Packet
<1>2. /\ DemuxTyped(e) /\ e.fmt = demuxer.fmt /\ e.duration = demuxer.duration
      /\ e.top = demuxer.top /\ e.seam = demuxer.seam /\ e.low = demuxer.low
      /\ Plain(demuxer.fmt) =>
           /\ Rounds(demuxer) /\ Rounds(e)
           /\ Shift(pkt.pts, demuxer.duration) # NOPTS => e.max_pts # NOPTS /\ Shift(pkt.pts, demuxer.duration) < e.max_pts
  BY ExtentRight DEF DemuxInv
<1> HIDE DEF e
<1>3. NOPTS \in Int /\ e.duration \in Int
  BY <1>2, NoptsInt DEF DemuxTyped
<1>4. dts \in Int /\ pts \in Int /\ (Plain(demuxer.fmt) => pts = Shift(pkt.pts, demuxer.duration))
  BY <1>2, <1>3, UnwrapInt DEF Shift, Plain
<1> HIDE DEF dts, pts
<1>5. /\ c.dts \in Int /\ c.pts \in Int
      /\ e.fmt.discont /\ ~e.fmt.copy_ts => OnTimeline(was, c.dts)
      /\ \E off \in Int, lts \in Int :
           /\ c.d = [e EXCEPT !.ts_offset_discont = off, !.last_ts = lts]
           /\ ~e.fmt.discont => off = e.ts_offset_discont
      /\ ~e.fmt.discont /\ e.ts_offset_discont = 0 => c.pts \in {pts, NOPTS}
  BY <1>2, <1>4, CorrectedRight
<1>6. PICK off \in Int, lts \in Int :
        /\ c.d = [e EXCEPT !.ts_offset_discont = off, !.last_ts = lts]
        /\ ~e.fmt.discont => off = e.ts_offset_discont
  BY <1>5
<1>7. /\ Has(c.d, DemuxFields) /\ c.d.fmt = e.fmt /\ c.d.ts_offset_discont = off /\ c.d.last_ts = lts
      /\ c.d.duration = e.duration /\ c.d.max_pts = e.max_pts /\ c.d.min_pts = e.min_pts /\ c.d.end_pts = e.end_pts
      /\ c.d.top = e.top /\ c.d.seam = e.seam /\ c.d.low = e.low /\ c.d.ds = e.ds
  <2> DEFINE f == c.d
  <2>1. f = [e EXCEPT !.ts_offset_discont = off, !.last_ts = lts]
    BY <1>6
  <2> HIDE DEF f, c
  <2>2. Has(e, DemuxFields)
    BY <1>2 DEF DemuxTyped
  <2>3. /\ Has(f, DemuxFields) /\ f.fmt = e.fmt /\ f.ts_offset_discont = off /\ f.last_ts = lts
        /\ f.duration = e.duration /\ f.max_pts = e.max_pts /\ f.min_pts = e.min_pts /\ f.end_pts = e.end_pts
        /\ f.top = e.top /\ f.seam = e.seam /\ f.low = e.low /\ f.ds = e.ds
    BY <2>1, <2>2 DEF Has, DemuxFields
  <2> QED BY <2>3 DEF f
<1> DEFINE g == c.d
           cd == c.dts
           cp == c.pts
           up == Updated(was, s, cd, cp)
           ds == [e.ds EXCEPT ![s] = up]
           top == Larger(e.top, cp)
           more == g.read + 1
<1>8. IsDemuxStream(was)
  BY <1>2 DEF DemuxTyped
<1>9. IsDemuxStream(up)
  BY <1>5, <1>8, UpdatedRight
<1>10. demuxer' = [g EXCEPT !.ds = ds, !.read = more, !.last = last, !.top = top]
  <2> HIDE DEF c, last
  <2> QED BY <1>1, <1>7 DEF Has, DemuxFields
<1>11. Has(last, LastFields) /\ last.was = was /\ last.dts = cd /\ last.pts = cp /\ last.raw = pkt.pts
  <2> HIDE DEF cd, cp, c, was
  <2>1. last = [stream |-> s, was |-> was, dts |-> cd, pts |-> cp, raw |-> pkt.pts]
    BY DEF cd, cp
  <2> HIDE DEF last
  <2> QED BY <2>1 DEF Has, LastFields
<1> HIDE DEF c, last, up
<1>12. Has(ds, DemuxStreams) /\ \A t \in DemuxStreams : IsDemuxStream(ds[t])
  BY <1>2, <1>9 DEF DemuxTyped, Has
<1>13. /\ Has(g, DemuxFields) /\ g.fmt = e.fmt /\ g.ts_offset_discont = off /\ g.last_ts = lts
       /\ g.duration = e.duration /\ g.max_pts = e.max_pts /\ g.min_pts = e.min_pts /\ g.end_pts = e.end_pts
       /\ g.seam = e.seam /\ g.low = e.low
  BY <1>7
<1>14. cd \in Int /\ cp \in Int /\ (e.fmt.discont /\ ~e.fmt.copy_ts => OnTimeline(was, cd))
       /\ (~e.fmt.discont /\ e.ts_offset_discont = 0 => cp \in {pts, NOPTS})
  BY <1>5
<1> HIDE DEF g, cd, cp, ds, top, more, was
<1>15. /\ Has(demuxer', DemuxFields) /\ demuxer'.fmt = e.fmt /\ demuxer'.ts_offset_discont = off
       /\ demuxer'.last_ts = lts /\ demuxer'.duration = e.duration /\ demuxer'.min_pts = e.min_pts
       /\ demuxer'.max_pts = e.max_pts /\ demuxer'.end_pts = e.end_pts /\ demuxer'.top = top /\ demuxer'.seam = e.seam
       /\ demuxer'.low = e.low /\ demuxer'.ds = ds /\ demuxer'.last = last
  BY <1>10, <1>13 DEF Has, DemuxFields
<1>16. DemuxTyped(demuxer')
  BY <1>2, <1>12, <1>15 DEF DemuxTyped
<1>17. ASSUME Plain(demuxer.fmt)
       PROVE  /\ Rounds(e) /\ off = 0 /\ cp \in {pts, NOPTS} /\ pts = Shift(pkt.pts, e.duration)
              /\ pts # NOPTS => e.max_pts # NOPTS /\ pts < e.max_pts
  <2>1. Rounds(e) /\ ~e.fmt.discont /\ e.ts_offset_discont = 0 /\ pts = Shift(pkt.pts, e.duration)
    BY <1>2, <1>4, <1>17 DEF Plain, Rounds
  <2> QED BY <1>2, <1>4, <1>6, <1>14, <1>17, <2>1
<1>18. Plain(demuxer'.fmt) => Rounds(demuxer')
  <2> SUFFICES ASSUME Plain(demuxer.fmt) PROVE Rounds(demuxer')
    BY <1>2, <1>15
  <2>1. top \in {e.top, cp} /\ e.top \in Int /\ top \in Int
    BY <1>14, <1>17 DEF top, Larger, Rounds
  <2>2. top # NOPTS => e.max_pts # NOPTS /\ top < e.max_pts
    BY <1>17, <2>1 DEF Rounds
  <2> QED BY <1>15, <1>17, <2>1, <2>2 DEF Rounds
<1>19. TimelineHolds'
  BY <1>11, <1>14, <1>15 DEF TimelineHolds, OnTimeline
<1>20. LoopGoesOn'
  <2> SUFFICES ASSUME Plain(demuxer.fmt), e.seam # NOPTS, cp # NOPTS, pkt.pts >= e.low
               PROVE  cp > e.seam
    BY <1>2, <1>11, <1>15 DEF LoopGoesOn, Plain
  <2>1. cp = pts /\ pts = Shift(pkt.pts, e.duration) /\ Rounds(e)
    BY <1>17
  <2>2. pts = pkt.pts + e.duration
    BY <2>1 DEF Shift
  <2>3. e.seam < e.low + e.duration /\ e.seam \in Int /\ e.low \in Int /\ e.duration \in Int
    BY <2>1 DEF Rounds
  <2> QED BY <2>1, <2>2, <2>3
<1> QED BY <1>11, <1>15, <1>16, <1>18, <1>19, <1>20 DEF DemuxInv, DemuxTimesHold

(* What a demuxer hands on has one timeline: in a format with              *)
(* discontinuities no dts falls behind or runs ahead of the prediction of  *)
(* its stream by more than the thresholds and a tick                       *)
(* (ts_discontinuity_detect, ts_discontinuity_process), and the packets of *)
(* a round of a looped input come after those of the round before          *)
(* (seek_to_start), for any time base, thresholds and timestamps.          *)
THEOREM DemuxTimesAlways == DemuxSpec => []DemuxTimesHold
<1>1. DemuxInit => DemuxInv
  BY DemuxInvInit
<1>2. DemuxInv /\ [DemuxNext]_demuxer => DemuxInv'
  <2> SUFFICES ASSUME DemuxInv, [DemuxNext]_demuxer PROVE DemuxInv'
    OBVIOUS
  <2>1. CASE DemuxPacket
    <3>1. PICK s \in DemuxStreams, dts \in RawDts \cup {NOPTS}, pts \in {1, NOPTS} :
            Packet(s, [dts |-> dts, pts |-> IF pts = NOPTS \/ dts = NOPTS THEN pts ELSE dts + pts])
      BY <2>1 DEF DemuxPacket
    <3> DEFINE pkt == [dts |-> dts, pts |-> IF pts = NOPTS \/ dts = NOPTS THEN pts ELSE dts + pts]
    <3>2. dts \in Int /\ dts >= NOPTS /\ NOPTS \in Int /\ NOPTS <= 1
      BY DemuxAssumption, SMT DEF NOPTS
    <3>3. pkt.dts \in Int /\ pkt.pts \in Int /\ pkt.pts >= NOPTS
      BY <3>2
    <3> QED BY <3>1, <3>3, PacketStep
  <2>2. CASE SeekToStart
    BY <2>2, SeekToStartStep
  <2>3. CASE UNCHANGED demuxer
    BY <2>3 DEF DemuxInv, DemuxTimesHold, TimelineHolds, LoopGoesOn
  <2> QED BY <2>1, <2>2, <2>3 DEF DemuxNext
<1>3. DemuxInv => DemuxTimesHold
  BY DEF DemuxInv
<1> QED BY <1>1, <1>2, <1>3, PTL DEF DemuxSpec

-----------------------------------------------------------------------------
(***************************************************************************)
(* Metadata.  The tags of an output are right when its stages end because  *)
(* of what holds all along: a kind that no mapping names has no tags until *)
(* the defaults are copied, what the first mapping brought stays, and the  *)
(* chapters copied so far are those of the input that were looked at.      *)
(***************************************************************************)
OutChapters == [start : Int, end : Int]
TagsShape ==
  /\ DOMAIN tags = {"in", "chapters", "maps", "user", "win", "auto", "global", "stream", "out", "stage", "i", "manual"}
  /\ tags.chapters \in ChapterSets /\ tags.maps \in Mappings /\ tags.user \in UserTags /\ tags.win \in Windows
  /\ tags.i \in Nat \ {0} /\ tags.out \in Seq(OutChapters)
  /\ \/ tags.stage = "map" \/ tags.stage = "chapters" \/ tags.stage = "defaults"
     \/ tags.stage = "user" \/ tags.stage = "rest" \/ tags.stage = "done"
NoDefaults == tags.stage = "map" \/ tags.stage = "chapters" \/ tags.stage = "defaults"

\* What no mapping and no user gave comes from the input's defaults.
UnmappedGlobal ==
  "global" \notin tags.manual =>
    /\ NoDefaults => DOMAIN tags.global = {}
    /\ ~NoDefaults => \A k \in DOMAIN tags.global \ UserKeys("global") :
                        /\ tags.auto /\ k \notin {"creation_time", "company_name"} /\ tags.global[k] = tags.in.global[k]
                        /\ tags.win.recording # -1 => k # "duration"
UnmappedStream ==
  "stream" \notin tags.manual =>
    /\ NoDefaults => DOMAIN tags.stream[1] = {}
    /\ ~NoDefaults /\ "encoder" \notin UserKeys("stream") => "encoder" \notin DOMAIN tags.stream[1]

\* What the first mapping brings to the global tags stays there.
FirstBrings == /\ tags.maps # <<>> /\ tags.maps[1].src.kind = "stream"
               /\ tags.maps[1].dst.kind = "global" /\ tags.maps[1].input = 1
Brought == \A k \in DOMAIN tags.in.stream \ UserKeys("global") : k \in DOMAIN tags.global /\ tags.global[k] = tags.in.stream[k]
BroughtStays ==
  /\ tags.stage = "map" /\ tags.i = 1 => DOMAIN tags.global = {}
  /\ FirstBrings /\ (tags.stage = "map" => tags.i # 1) => "global" \in tags.manual /\ Brought

\* The chapters of the output, and how they lie to those still to come.
ChapterWithin(c) == /\ 0 <= c.start /\ c.start <= c.end
                    /\ tags.win.recording # -1 => c.end <= tags.win.recording
OutWithin == \A j \in DOMAIN tags.out : ChapterWithin(tags.out[j])
OutSorted == \A j \in DOMAIN tags.out : j > 1 => tags.out[j - 1].start <= tags.out[j].start
OutBeforeNext ==
  tags.stage = "chapters" =>
    \A j \in DOMAIN tags.out : \A c \in tags.i .. Len(tags.chapters) :
      tags.out[j].start <= Larger(0, tags.chapters[c].start - Off(tags.win))
NoneYet == tags.stage = "map" \/ (tags.stage = "chapters" /\ tags.i = 1) => tags.out = <<>>

\* Of the chapters looked at, the output's cover what is recorded.
IsRecorded(t) == t >= Off(tags.win) /\ (tags.win.recording = -1 \/ t < Off(tags.win) + tags.win.recording)
InChapter(t, n) == \E c \in DOMAIN tags.chapters : c < n /\ t \in tags.chapters[c].start .. tags.chapters[c].end - 1
InOut(t) == \E j \in DOMAIN tags.out : t - Off(tags.win) \in tags.out[j].start .. tags.out[j].end - 1
Covered(n) == \A t \in Instants : IsRecorded(t) => (InChapter(t, n) <=> InOut(t))
CoverSoFar ==
  /\ tags.stage = "chapters" /\ CopiesChapters => Covered(tags.i)
  /\ tags.stage # "map" /\ tags.stage # "chapters" /\ CopiesChapters => Covered(Len(tags.chapters) + 1)

TagsInv == /\ TagsShape /\ UnmappedGlobal /\ UnmappedStream /\ BroughtStays /\ OutWithin /\ OutSorted
           /\ OutBeforeNext /\ NoneYet /\ CoverSoFar

LEMMA TagsInvInit == TagsInit => TagsInv
<1> SUFFICES ASSUME TagsInit PROVE TagsInv OBVIOUS
<1>1. /\ DOMAIN tags = {"in", "chapters", "maps", "user", "win", "auto", "global", "stream", "out", "stage", "i", "manual"}
      /\ tags.chapters \in ChapterSets /\ tags.maps \in Mappings /\ tags.user \in UserTags /\ tags.win \in Windows
      /\ tags.i = 1 /\ tags.out = <<>> /\ tags.stage = "map" /\ tags.global = Empty
      /\ tags.stream = [k \in OutStreams |-> Empty]
  BY DEF TagsInit, NewTags
<1>2. TagsShape BY <1>1, EmptySeq DEF TagsShape
<1>3. DOMAIN tags.global = {} /\ DOMAIN tags.stream[1] = {} BY <1>1 DEF Empty, OutStreams
<1>4. DOMAIN tags.out = {} BY <1>1
<1>5. NoDefaults BY <1>1 DEF NoDefaults
<1> QED
  BY <1>1, <1>2, <1>3, <1>4, <1>5 DEF TagsInv, UnmappedGlobal, UnmappedStream, BroughtStays, OutWithin, OutSorted,
     OutBeforeNext, NoneYet, CoverSoFar

\* The rules hold in every state of the invariant.
LEMMA TagsInvRight == TagsInv => MetadataRight
<1> SUFFICES ASSUME TagsInv PROVE MetadataRight OBVIOUS
<1>1. TagsComeFrom
  <2> SUFFICES ASSUME tags.stage = "done" PROVE TagsComeFrom BY DEF TagsComeFrom
  <2>1. ~NoDefaults BY DEF NoDefaults
  <2> QED BY <2>1 DEF TagsInv, TagsComeFrom, UnmappedGlobal, UnmappedStream, BroughtStays, FirstBrings, Brought
<1>2. \A i \in DOMAIN tags.out : /\ 0 <= tags.out[i].start /\ tags.out[i].start <= tags.out[i].end
                                 /\ tags.win.recording # -1 => tags.out[i].end <= tags.win.recording
                                 /\ i > 1 => tags.out[i - 1].start <= tags.out[i].start
  BY DEF TagsInv, OutWithin, ChapterWithin, OutSorted
<1>3. ASSUME tags.stage = "done", CopiesChapters, NEW t \in Instants, IsRecorded(t)
      PROVE  (\E i \in DOMAIN tags.chapters : t \in tags.chapters[i].start .. tags.chapters[i].end - 1)
             <=> \E i \in DOMAIN tags.out : t - Off(tags.win) \in tags.out[i].start .. tags.out[i].end - 1
  <2>1. InChapter(t, Len(tags.chapters) + 1) <=> InOut(t) BY <1>3 DEF TagsInv, CoverSoFar, Covered
  <2>2. tags.chapters \in Seq([start : Int, end : Int]) BY TagsAssumption DEF TagsInv, TagsShape
  <2>3. \A c \in DOMAIN tags.chapters : c < Len(tags.chapters) + 1 BY <2>2, LenProperties
  <2> QED BY <2>1, <2>3 DEF InChapter, InOut
<1>4. ChaptersFit BY <1>2, <1>3 DEF ChaptersFit, IsRecorded
<1> QED BY <1>1, <1>4 DEF MetadataRight

-----------------------------------------------------------------------------
\* What every step leaves alone.
SameJob == /\ DOMAIN tags' = DOMAIN tags /\ tags'.in = tags.in /\ tags'.chapters = tags.chapters
           /\ tags'.maps = tags.maps /\ tags'.user = tags.user /\ tags'.win = tags.win /\ tags'.auto = tags.auto
SameTags == tags'.global = tags.global /\ tags'.stream = tags.stream /\ tags'.manual = tags.manual

\* The source of a mapping, and whether it can be carried out.
MapSource(m) == IF m.src.kind = "global" THEN tags.in.global ELSE IF m.src.kind = "stream" THEN tags.in.stream ELSE Empty
MapWorks(m) == m.input = 1 /\ ~(m.src.kind = "chapter" /\ m.src.at > Len(tags.chapters))

LEMMA MapFacts ==
  ASSUME TagsShape, MapMetadata, NEW m, m = tags.maps[tags.i]
  PROVE  /\ SameJob /\ tags'.out = tags.out /\ tags'.stage = tags.stage /\ tags'.i = tags.i + 1
         /\ tags.stage = "map" /\ tags.i <= Len(tags.maps)
         /\ tags'.manual = tags.manual \cup {m.src.kind, m.dst.kind}
         /\ tags'.global = IF MapWorks(m) /\ m.dst.kind = "global" THEN CopyInto(tags.global, MapSource(m)) ELSE tags.global
         /\ tags'.stream[1] = IF MapWorks(m) /\ m.dst.kind = "stream" /\ m.dst.at \in {0, 1}
                              THEN CopyInto(tags.stream[1], MapSource(m)) ELSE tags.stream[1]
<1> DEFINE r == copy_metadata(tags, m)
<1>1. /\ DOMAIN r = DOMAIN tags /\ r.in = tags.in /\ r.chapters = tags.chapters
      /\ r.maps = tags.maps /\ r.user = tags.user /\ r.win = tags.win /\ r.auto = tags.auto
      /\ r.out = tags.out /\ r.stage = tags.stage /\ r.i = tags.i
      /\ r.manual = tags.manual \cup {m.src.kind, m.dst.kind}
      /\ r.global = IF MapWorks(m) /\ m.dst.kind = "global" THEN CopyInto(tags.global, MapSource(m)) ELSE tags.global
      /\ r.stream = [k \in OutStreams |-> IF MapWorks(m) /\ m.dst.kind = "stream" /\ m.dst.at \in {0, k}
                                          THEN CopyInto(tags.stream[k], MapSource(m)) ELSE tags.stream[k]]
  BY DEF TagsShape, copy_metadata, MapWorks, MapSource
<1>2. tags' = [r EXCEPT !.i = r.i + 1] BY DEF MapMetadata
<1>3. 1 \in OutStreams BY DEF OutStreams
<1> HIDE DEF r
<1>4. /\ DOMAIN tags' = DOMAIN r /\ tags'.in = r.in /\ tags'.chapters = r.chapters
      /\ tags'.maps = r.maps /\ tags'.user = r.user /\ tags'.win = r.win /\ tags'.auto = r.auto
      /\ tags'.out = r.out /\ tags'.stage = r.stage /\ tags'.i = r.i + 1 /\ tags'.manual = r.manual
      /\ tags'.global = r.global /\ tags'.stream = r.stream
  BY <1>1, <1>2 DEF TagsShape
<1>5. tags'.stream[1] = IF MapWorks(m) /\ m.dst.kind = "stream" /\ m.dst.at \in {0, 1}
                              THEN CopyInto(tags.stream[1], MapSource(m)) ELSE tags.stream[1]
  BY <1>1, <1>3, <1>4
<1> QED BY <1>1, <1>4, <1>5 DEF MapMetadata, SameJob

LEMMA GoesFacts ==
  ASSUME TagsShape, NEW stage, Goes(stage)
  PROVE  SameJob /\ SameTags /\ tags'.out = tags.out /\ tags'.stage = stage /\ tags'.i = 1
BY DEF TagsShape, Goes, SameJob, SameTags

LEMMA ChapterFacts ==
  ASSUME TagsShape, CopyChapter, NEW ch, ch = tags.chapters[tags.i]
  PROVE  /\ SameJob /\ SameTags /\ tags'.stage = tags.stage /\ tags'.i = tags.i + 1
         /\ tags'.out = IF Early(tags.win, ch) THEN tags.out ELSE Append(tags.out, Cut(tags.win, ch))
         /\ tags.stage = "chapters" /\ CopiesChapters /\ tags.i <= Len(tags.chapters) /\ ~Late(tags.win, ch)
<1>1. /\ tags' = [tags EXCEPT !.out = IF Early(tags.win, ch) THEN tags.out ELSE Append(tags.out, Cut(tags.win, ch)), !.i = tags.i + 1]
      /\ tags.stage = "chapters" /\ CopiesChapters /\ tags.i <= Len(tags.chapters) /\ ~Late(tags.win, ch)
  BY DEF CopyChapter
<1> QED BY <1>1 DEF TagsShape, SameJob, SameTags

\* The keys that the defaults take from the input only when asked.
StaleKeys == {"creation_time", "company_name"} \cup (IF tags.win.recording # -1 THEN {"duration"} ELSE {})
LEMMA DefaultFacts ==
  ASSUME TagsShape, CopyDefaults
  PROVE  /\ SameJob /\ tags'.manual = tags.manual /\ tags'.out = tags.out /\ tags'.stage = "user" /\ tags'.i = 1
         /\ tags.stage = "defaults"
         /\ tags'.global = IF ~tags.auto \/ "global" \in tags.manual THEN tags.global
                           ELSE Without(CopyInto(tags.global, tags.in.global), StaleKeys)
         /\ tags'.stream[1] = IF ~tags.auto \/ "stream" \in tags.manual THEN tags.stream[1]
                              ELSE Without(CopyInto(tags.stream[1], tags.in.stream), {"encoder"})
<1> DEFINE r == copy_metadata_default(tags)
<1>1. 1 \in OutStreams BY DEF OutStreams
<1>2. /\ DOMAIN r = DOMAIN tags /\ r.in = tags.in /\ r.chapters = tags.chapters
      /\ r.maps = tags.maps /\ r.user = tags.user /\ r.win = tags.win /\ r.auto = tags.auto
      /\ r.out = tags.out /\ r.manual = tags.manual
      /\ r.global = IF ~tags.auto \/ "global" \in tags.manual THEN tags.global
                    ELSE Without(CopyInto(tags.global, tags.in.global), StaleKeys)
  BY DEF TagsShape, copy_metadata_default, StaleKeys
<1>3. r.stream[1] = IF ~tags.auto \/ "stream" \in tags.manual THEN tags.stream[1]
                    ELSE Without(CopyInto(tags.stream[1], tags.in.stream), {"encoder"})
  BY <1>1 DEF TagsShape, copy_metadata_default
<1>4. tags' = [r EXCEPT !.stage = "user", !.i = 1] /\ tags.stage = "defaults" BY DEF CopyDefaults
<1> HIDE DEF r
<1> QED BY <1>2, <1>3, <1>4 DEF TagsShape, SameJob

LEMMA UserFacts ==
  ASSUME TagsShape, AddGlobal \/ AddOther, NEW x, x = tags.user[tags.i]
  PROVE  /\ SameJob /\ tags'.manual = tags.manual /\ tags'.out = tags.out /\ tags'.stage = tags.stage
         /\ tags'.i = tags.i + 1 /\ tags.i <= Len(tags.user) /\ tags.stage \in {"user", "rest"}
         /\ \/ tags'.global = tags.global
            \/ x.dst.kind = "global" /\ tags'.global = SetTag(tags.global, x.key, x.value)
         /\ \/ tags'.stream[1] = tags.stream[1]
            \/ x.dst.kind = "stream" /\ tags'.stream[1] = SetTag(tags.stream[1], x.key, x.value)
<1> DEFINE r == of_add_metadata(tags, x)
<1>1. 1 \in OutStreams BY DEF OutStreams
<1>2. /\ DOMAIN r = DOMAIN tags /\ r.in = tags.in /\ r.chapters = tags.chapters
      /\ r.maps = tags.maps /\ r.user = tags.user /\ r.win = tags.win /\ r.auto = tags.auto
      /\ r.out = tags.out /\ r.manual = tags.manual /\ r.stage = tags.stage /\ r.i = tags.i
      /\ r.global = IF x.dst.kind = "global" THEN SetTag(tags.global, x.key, x.value) ELSE tags.global
  BY DEF TagsShape, of_add_metadata
<1>3. r.stream[1] = IF x.dst.kind = "stream" /\ x.dst.at \in {0, 1} THEN SetTag(tags.stream[1], x.key, x.value) ELSE tags.stream[1]
  BY <1>1 DEF TagsShape, of_add_metadata
<1>4. /\ tags' = [r EXCEPT !.i = tags.i + 1] \/ tags' = [tags EXCEPT !.i = tags.i + 1]
      /\ tags.i <= Len(tags.user) /\ tags.stage \in {"user", "rest"}
  <2>1. CASE AddGlobal BY <1>2, <2>1 DEF AddGlobal
  <2>2. CASE AddOther BY <1>2, <2>2 DEF AddOther
  <2> QED BY <2>1, <2>2
<1> HIDE DEF r
<1>5. CASE tags' = [r EXCEPT !.i = tags.i + 1] BY <1>2, <1>3, <1>4, <1>5 DEF TagsShape, SameJob
<1>6. CASE tags' = [tags EXCEPT !.i = tags.i + 1] BY <1>4, <1>6 DEF TagsShape, SameJob
<1> QED BY <1>4, <1>5, <1>6

-----------------------------------------------------------------------------
\* Dictionaries.
LEMMA WithoutKeeps ==
  ASSUME NEW d, NEW keys
  PROVE  DOMAIN Without(d, keys) = DOMAIN d \ keys /\ \A k \in DOMAIN d \ keys : Without(d, keys)[k] = d[k]
BY DEF Without
LEMMA SetTagKeeps ==
  ASSUME NEW d, NEW key, NEW value
  PROVE  /\ DOMAIN SetTag(d, key, value) \ {key} = DOMAIN d \ {key}
         /\ \A k \in DOMAIN d \ {key} : SetTag(d, key, value)[k] = d[k]
<1>1. CASE value = "" BY <1>1, WithoutKeeps DEF SetTag
<1>2. CASE value # "" BY <1>2 DEF SetTag
<1> QED BY <1>1, <1>2

\* A tag of the user is one of its keys.
LEMMA UserKeyOf ==
  ASSUME TagsShape, NEW x, tags.i <= Len(tags.user), x = tags.user[tags.i]
  PROVE  x.key \in UserKeys(x.dst.kind)
<1>1. tags.user \in Seq(Range(tags.user)) BY TagsAssumption DEF TagsShape
<1>2. tags.i \in DOMAIN tags.user BY <1>1, LenProperties DEF TagsShape
<1> QED BY <1>2 DEF UserKeys, Range
LEMMA UserKeysSame == ASSUME SameJob, NEW kind PROVE UserKeys(kind)' = UserKeys(kind)
BY DEF SameJob, UserKeys

-----------------------------------------------------------------------------
\* The global tags.
LEMMA GlobalStep == ASSUME TagsShape, UnmappedGlobal, TagsNext PROVE UnmappedGlobal'
<1>1. CASE MapMetadata
  <2> DEFINE m == tags.maps[tags.i]
  <2>1. /\ SameJob /\ tags'.stage = "map" /\ tags.stage = "map"
        /\ tags'.manual = tags.manual \cup {m.src.kind, m.dst.kind}
        /\ m.dst.kind # "global" => tags'.global = tags.global
    BY <1>1, MapFacts
  <2> HIDE DEF m
  <2> QED BY <2>1 DEF UnmappedGlobal, NoDefaults
<1>2. CASE MapsEnd
  <2>1. SameTags /\ tags.stage = "map" /\ tags'.stage = "chapters" BY <1>2, GoesFacts DEF MapsEnd
  <2> QED BY <2>1 DEF UnmappedGlobal, NoDefaults, SameTags
<1>3. CASE CopyChapter
  <2>1. SameTags /\ tags.stage = "chapters" /\ tags'.stage = "chapters" BY <1>3, ChapterFacts
  <2> QED BY <2>1 DEF UnmappedGlobal, NoDefaults, SameTags
<1>4. CASE ChaptersEnd
  <2>1. SameTags /\ tags.stage = "chapters" /\ tags'.stage = "defaults" BY <1>4, GoesFacts DEF ChaptersEnd
  <2> QED BY <2>1 DEF UnmappedGlobal, NoDefaults, SameTags
<1>5. CASE CopyDefaults
  <2>1. /\ SameJob /\ tags'.manual = tags.manual /\ tags'.stage = "user" /\ tags.stage = "defaults"
        /\ tags'.global = IF ~tags.auto \/ "global" \in tags.manual THEN tags.global
                          ELSE Without(CopyInto(tags.global, tags.in.global), StaleKeys)
    BY <1>5, DefaultFacts
  <2>2. SUFFICES ASSUME "global" \notin tags.manual PROVE UnmappedGlobal' BY <2>1 DEF UnmappedGlobal
  <2>3. DOMAIN tags.global = {} BY <2>1, <2>2 DEF UnmappedGlobal, NoDefaults
  <2>4. ASSUME NEW k \in DOMAIN tags'.global
        PROVE  /\ tags.auto /\ k \notin {"creation_time", "company_name"} /\ tags'.global[k] = tags.in.global[k]
               /\ tags.win.recording # -1 => k # "duration"
    <3>1. tags.auto BY <2>1, <2>3, <2>4
    <3>2. tags'.global = Without(CopyInto(tags.global, tags.in.global), StaleKeys) BY <2>1, <2>2, <3>1
    <3> DEFINE c == CopyInto(tags.global, tags.in.global)
    <3>3. DOMAIN c = DOMAIN tags.in.global /\ \A n \in DOMAIN c : c[n] = tags.in.global[n] BY <2>3 DEF CopyInto
    <3> HIDE DEF c
    <3>4. DOMAIN tags'.global = DOMAIN c \ StaleKeys /\ \A n \in DOMAIN tags'.global : tags'.global[n] = c[n]
      BY <3>2 DEF c, Without
    <3>5. k \in DOMAIN tags.in.global \ StaleKeys BY <2>4, <3>3, <3>4
    <3>6. tags'.global[k] = tags.in.global[k] BY <2>4, <3>3, <3>4
    <3> QED BY <3>1, <3>5, <3>6 DEF StaleKeys
  <2>5. ~NoDefaults' BY <2>1 DEF NoDefaults
  <2> QED BY <2>1, <2>4, <2>5 DEF UnmappedGlobal, SameJob
<1>6. CASE AddGlobal \/ AddOther
  <2> DEFINE x == tags.user[tags.i]
  <2>1. /\ SameJob /\ tags'.manual = tags.manual /\ tags'.stage = tags.stage /\ tags.i <= Len(tags.user)
        /\ tags.stage \in {"user", "rest"}
        /\ \/ tags'.global = tags.global
           \/ x.dst.kind = "global" /\ tags'.global = SetTag(tags.global, x.key, x.value)
    BY <1>6, UserFacts
  <2>2. x.dst.kind = "global" => x.key \in UserKeys("global") BY <2>1, UserKeyOf
  <2>3. UserKeys("global")' = UserKeys("global") BY <2>1, UserKeysSame
  <2> HIDE DEF x
  <2>4. SUFFICES ASSUME "global" \notin tags.manual PROVE UnmappedGlobal' BY <2>1 DEF UnmappedGlobal
  <2>5. ~NoDefaults /\ ~NoDefaults' BY <2>1 DEF NoDefaults
  <2>6. ASSUME NEW k \in DOMAIN tags'.global \ UserKeys("global")
        PROVE  k \in DOMAIN tags.global /\ tags'.global[k] = tags.global[k]
    <3>1. CASE tags'.global = tags.global BY <2>6, <3>1
    <3>2. CASE x.dst.kind = "global" /\ tags'.global = SetTag(tags.global, x.key, x.value)
      BY <2>2, <2>6, <3>2, SetTagKeeps
    <3> QED BY <2>1, <3>1, <3>2
  <2> QED BY <2>1, <2>3, <2>4, <2>5, <2>6 DEF UnmappedGlobal, SameJob
<1>7. CASE GlobalsEnd
  <2>1. SameJob /\ SameTags /\ tags.stage = "user" /\ tags'.stage = "rest" BY <1>7, GoesFacts DEF GlobalsEnd
  <2> QED BY <2>1, UserKeysSame DEF UnmappedGlobal, NoDefaults, SameTags, SameJob
<1>8. CASE UserEnds
  <2>1. SameJob /\ SameTags /\ tags.stage = "rest" /\ tags'.stage = "done" BY <1>8, GoesFacts DEF UserEnds
  <2> QED BY <2>1, UserKeysSame DEF UnmappedGlobal, NoDefaults, SameTags, SameJob
<1> QED BY <1>1, <1>2, <1>3, <1>4, <1>5, <1>6, <1>7, <1>8 DEF TagsNext

\* The tags of the encoded stream.
LEMMA StreamStep == ASSUME TagsShape, UnmappedStream, TagsNext PROVE UnmappedStream'
<1>1. CASE MapMetadata
  <2> DEFINE m == tags.maps[tags.i]
  <2>1. /\ tags'.stage = "map" /\ tags.stage = "map" /\ tags'.manual = tags.manual \cup {m.src.kind, m.dst.kind}
        /\ m.dst.kind # "stream" => tags'.stream[1] = tags.stream[1]
    BY <1>1, MapFacts
  <2> HIDE DEF m
  <2> QED BY <2>1 DEF UnmappedStream, NoDefaults
<1>2. CASE MapsEnd
  <2>1. SameTags /\ tags.stage = "map" /\ tags'.stage = "chapters" BY <1>2, GoesFacts DEF MapsEnd
  <2> QED BY <2>1 DEF UnmappedStream, NoDefaults, SameTags
<1>3. CASE CopyChapter
  <2>1. SameTags /\ tags.stage = "chapters" /\ tags'.stage = "chapters" BY <1>3, ChapterFacts
  <2> QED BY <2>1 DEF UnmappedStream, NoDefaults, SameTags
<1>4. CASE ChaptersEnd
  <2>1. SameTags /\ tags.stage = "chapters" /\ tags'.stage = "defaults" BY <1>4, GoesFacts DEF ChaptersEnd
  <2> QED BY <2>1 DEF UnmappedStream, NoDefaults, SameTags
<1>5. CASE CopyDefaults
  <2>1. /\ tags'.manual = tags.manual /\ tags'.stage = "user" /\ tags.stage = "defaults"
        /\ tags'.stream[1] = IF ~tags.auto \/ "stream" \in tags.manual THEN tags.stream[1]
                             ELSE Without(CopyInto(tags.stream[1], tags.in.stream), {"encoder"})
    BY <1>5, DefaultFacts
  <2>2. SUFFICES ASSUME "stream" \notin tags.manual PROVE UnmappedStream' BY <2>1 DEF UnmappedStream
  <2>3. DOMAIN tags.stream[1] = {} BY <2>1, <2>2 DEF UnmappedStream, NoDefaults
  <2>4. "encoder" \notin DOMAIN tags'.stream[1]
    <3>1. CASE ~tags.auto BY <2>1, <2>3, <3>1
    <3>2. CASE tags.auto
      <4> DEFINE c == CopyInto(tags.stream[1], tags.in.stream)
      <4>1. tags'.stream[1] = Without(c, {"encoder"}) BY <2>1, <2>2, <3>2
      <4> HIDE DEF c
      <4> QED BY <4>1 DEF Without
    <3> QED BY <3>1, <3>2
  <2> QED BY <2>1, <2>4 DEF UnmappedStream, NoDefaults
<1>6. CASE AddGlobal \/ AddOther
  <2> DEFINE x == tags.user[tags.i]
  <2>1. /\ SameJob /\ tags'.manual = tags.manual /\ tags'.stage = tags.stage /\ tags.i <= Len(tags.user)
        /\ tags.stage \in {"user", "rest"}
        /\ \/ tags'.stream[1] = tags.stream[1]
           \/ x.dst.kind = "stream" /\ tags'.stream[1] = SetTag(tags.stream[1], x.key, x.value)
    BY <1>6, UserFacts
  <2>2. x.dst.kind = "stream" => x.key \in UserKeys("stream") BY <2>1, UserKeyOf
  <2>3. UserKeys("stream")' = UserKeys("stream") BY <2>1, UserKeysSame
  <2> HIDE DEF x
  <2>4. ~NoDefaults /\ ~NoDefaults' BY <2>1 DEF NoDefaults
  <2>5. SUFFICES ASSUME "stream" \notin tags.manual, "encoder" \notin UserKeys("stream")
                 PROVE  "encoder" \notin DOMAIN tags'.stream[1]
    BY <2>1, <2>3, <2>4 DEF UnmappedStream
  <2>6. "encoder" \notin DOMAIN tags.stream[1] BY <2>4, <2>5 DEF UnmappedStream
  <2>7. CASE tags'.stream[1] = tags.stream[1] BY <2>6, <2>7
  <2>8. CASE x.dst.kind = "stream" /\ tags'.stream[1] = SetTag(tags.stream[1], x.key, x.value)
    BY <2>2, <2>5, <2>6, <2>8, SetTagKeeps
  <2> QED BY <2>1, <2>7, <2>8
<1>7. CASE GlobalsEnd
  <2>1. SameJob /\ SameTags /\ tags.stage = "user" /\ tags'.stage = "rest" BY <1>7, GoesFacts DEF GlobalsEnd
  <2> QED BY <2>1, UserKeysSame DEF UnmappedStream, NoDefaults, SameTags
<1>8. CASE UserEnds
  <2>1. SameJob /\ SameTags /\ tags.stage = "rest" /\ tags'.stage = "done" BY <1>8, GoesFacts DEF UserEnds
  <2> QED BY <2>1, UserKeysSame DEF UnmappedStream, NoDefaults, SameTags
<1> QED BY <1>1, <1>2, <1>3, <1>4, <1>5, <1>6, <1>7, <1>8 DEF TagsNext

\* What the first mapping brought.
LEMMA BroughtKept ==
  ASSUME SameJob, Brought, \A k \in DOMAIN tags.global \ UserKeys("global") : k \in DOMAIN tags'.global /\ tags'.global[k] = tags.global[k]
  PROVE  Brought'
BY UserKeysSame DEF Brought, SameJob
LEMMA BroughtStep == ASSUME TagsShape, BroughtStays, TagsNext PROVE BroughtStays'
<1>1. CASE MapMetadata
  <2> DEFINE m == tags.maps[tags.i]
  <2>1. /\ SameJob /\ tags'.stage = "map" /\ tags.stage = "map" /\ tags'.i = tags.i + 1 /\ tags.i <= Len(tags.maps)
        /\ tags'.manual = tags.manual \cup {m.src.kind, m.dst.kind}
        /\ tags'.global = IF MapWorks(m) /\ m.dst.kind = "global" THEN CopyInto(tags.global, MapSource(m)) ELSE tags.global
    BY <1>1, MapFacts
  <2>2. tags'.i # 1 BY <2>1 DEF TagsShape
  <2>3. SUFFICES ASSUME FirstBrings PROVE "global" \in tags'.manual /\ Brought'
    BY <2>1, <2>2 DEF BroughtStays, FirstBrings, SameJob
  <2>4. CASE tags.i = 1
    <3>1. m.src.kind = "stream" /\ m.dst.kind = "global" /\ m.input = 1 BY <2>3, <2>4 DEF FirstBrings
    <3>2. tags'.global = CopyInto(tags.global, tags.in.stream) BY <2>1, <3>1 DEF MapWorks, MapSource
    <3>3. DOMAIN tags.global = {} BY <2>1, <2>4 DEF BroughtStays
    <3>4. \A k \in DOMAIN tags.in.stream : k \in DOMAIN tags'.global /\ tags'.global[k] = tags.in.stream[k]
      <4> DEFINE c == CopyInto(tags.global, tags.in.stream)
      <4>1. DOMAIN c = DOMAIN tags.in.stream /\ \A k \in DOMAIN c : c[k] = tags.in.stream[k] BY <3>3 DEF CopyInto
      <4> HIDE DEF c
      <4> QED BY <3>2, <4>1 DEF c
    <3> QED BY <2>1, <3>1, <3>4 DEF Brought, SameJob
  <2>5. CASE tags.i # 1
    <3>1. "global" \in tags.manual /\ Brought BY <2>1, <2>3, <2>5 DEF BroughtStays
    <3> HIDE DEF m
    <3>2. \A k \in DOMAIN tags.global : k \in DOMAIN tags'.global /\ tags'.global[k] = tags.global[k]
      <4> DEFINE src == MapSource(m)
                 c == CopyInto(tags.global, src)
      <4>1. \A k \in DOMAIN tags.global : k \in DOMAIN c /\ c[k] = tags.global[k] BY DEF CopyInto
      <4>2. tags'.global = c \/ tags'.global = tags.global BY <2>1
      <4> HIDE DEF c
      <4> QED BY <4>1, <4>2
    <3> QED BY <2>1, <3>1, <3>2, BroughtKept
  <2> QED BY <2>4, <2>5
<1>2. CASE MapsEnd
  <2>1. SameJob /\ SameTags /\ tags.stage = "map" /\ tags'.stage = "chapters" BY <1>2, GoesFacts DEF MapsEnd
  <2>2. FirstBrings => tags.i # 1
    <3>1. tags.maps \in Seq(Range(tags.maps)) BY TagsAssumption DEF TagsShape
    <3>2. tags.maps # <<>> => Len(tags.maps) \in Nat \ {0} BY <3>1, EmptySeq
    <3> QED BY <1>2, <3>2 DEF MapsEnd, FirstBrings, TagsShape
  <2> QED BY <2>1, <2>2, BroughtKept DEF BroughtStays, FirstBrings, SameTags, SameJob
<1>3. CASE CopyChapter
  <2>1. SameJob /\ SameTags /\ tags.stage = "chapters" /\ tags'.stage = "chapters" BY <1>3, ChapterFacts
  <2> QED BY <2>1, BroughtKept DEF BroughtStays, FirstBrings, SameTags, SameJob
<1>4. CASE ChaptersEnd
  <2>1. SameJob /\ SameTags /\ tags.stage = "chapters" /\ tags'.stage = "defaults" BY <1>4, GoesFacts DEF ChaptersEnd
  <2> QED BY <2>1, BroughtKept DEF BroughtStays, FirstBrings, SameTags, SameJob
<1>5. CASE CopyDefaults
  <2>1. /\ SameJob /\ tags'.manual = tags.manual /\ tags'.stage = "user" /\ tags.stage = "defaults"
        /\ "global" \in tags.manual => tags'.global = tags.global
    BY <1>5, DefaultFacts
  <2> QED BY <2>1, BroughtKept DEF BroughtStays, FirstBrings, SameJob
<1>6. CASE AddGlobal \/ AddOther
  <2> DEFINE x == tags.user[tags.i]
  <2>1. /\ SameJob /\ tags'.manual = tags.manual /\ tags'.stage = tags.stage /\ tags.i <= Len(tags.user)
        /\ tags.stage \in {"user", "rest"}
        /\ \/ tags'.global = tags.global
           \/ x.dst.kind = "global" /\ tags'.global = SetTag(tags.global, x.key, x.value)
    BY <1>6, UserFacts
  <2>2. x.dst.kind = "global" => x.key \in UserKeys("global") BY <2>1, UserKeyOf
  <2> HIDE DEF x
  <2>3. \A k \in DOMAIN tags.global \ UserKeys("global") : k \in DOMAIN tags'.global /\ tags'.global[k] = tags.global[k]
    <3>1. CASE tags'.global = tags.global BY <3>1
    <3>2. CASE x.dst.kind = "global" /\ tags'.global = SetTag(tags.global, x.key, x.value) BY <2>2, <3>2, SetTagKeeps
    <3> QED BY <2>1, <3>1, <3>2
  <2> QED BY <2>1, <2>3, BroughtKept DEF BroughtStays, FirstBrings, SameJob
<1>7. CASE GlobalsEnd
  <2>1. SameJob /\ SameTags /\ tags.stage = "user" /\ tags'.stage = "rest" BY <1>7, GoesFacts DEF GlobalsEnd
  <2> QED BY <2>1, BroughtKept DEF BroughtStays, FirstBrings, SameTags, SameJob
<1>8. CASE UserEnds
  <2>1. SameJob /\ SameTags /\ tags.stage = "rest" /\ tags'.stage = "done" BY <1>8, GoesFacts DEF UserEnds
  <2> QED BY <2>1, BroughtKept DEF BroughtStays, FirstBrings, SameTags, SameJob
<1> QED BY <1>1, <1>2, <1>3, <1>4, <1>5, <1>6, <1>7, <1>8 DEF TagsNext

-----------------------------------------------------------------------------
\* The chapters.
LEMMA TagTypes ==
  ASSUME TagsShape
  PROVE  /\ tags.chapters \in Seq(OutChapters) /\ Len(tags.chapters) \in Nat /\ DOMAIN tags.chapters = 1 .. Len(tags.chapters)
         /\ \A c \in DOMAIN tags.chapters : tags.chapters[c].start \in Int /\ tags.chapters[c].end \in Int
         /\ \A c, d \in DOMAIN tags.chapters : c < d => tags.chapters[c].start <= tags.chapters[d].start
         /\ Off(tags.win) \in Int /\ tags.win.recording \in Nat \cup {-1} /\ tags.i \in Nat \ {0}
         /\ Len(tags.out) \in Nat /\ DOMAIN tags.out = 1 .. Len(tags.out)
         /\ \A j \in DOMAIN tags.out : tags.out[j].start \in Int /\ tags.out[j].end \in Int
<1>1. tags.chapters \in Seq(OutChapters) BY TagsAssumption DEF TagsShape, OutChapters
<1>2. /\ Len(tags.chapters) \in Nat /\ DOMAIN tags.chapters = 1 .. Len(tags.chapters)
      /\ tags.chapters \in [1 .. Len(tags.chapters) -> OutChapters]
  BY <1>1, LenProperties
<1>3. /\ Len(tags.out) \in Nat /\ DOMAIN tags.out = 1 .. Len(tags.out)
      /\ tags.out \in [1 .. Len(tags.out) -> OutChapters]
  BY LenProperties DEF TagsShape
<1>4. \A c \in DOMAIN tags.chapters : tags.chapters[c].start \in Int /\ tags.chapters[c].end \in Int
  BY <1>2 DEF OutChapters
<1>5. \A j \in DOMAIN tags.out : tags.out[j].start \in Int /\ tags.out[j].end \in Int
  BY <1>3 DEF OutChapters
<1>6. \A c, d \in DOMAIN tags.chapters : c < d => tags.chapters[c].start <= tags.chapters[d].start
  BY TagsAssumption DEF TagsShape
<1>7. Off(tags.win) \in Int /\ tags.win.recording \in Nat \cup {-1}
  BY TagsAssumption DEF TagsShape, Off
<1> QED BY <1>1, <1>2, <1>3, <1>4, <1>5, <1>6, <1>7 DEF TagsShape

\* A chapter that is copied lies within the output and covers what of it is recorded.
LEMMA CutFacts ==
  ASSUME NEW win, NEW ch, Off(win) \in Int, win.recording \in Nat \cup {-1}, ch.start \in Int, ch.end \in Int,
         ~Early(win, ch), ~Late(win, ch), NEW c, c = Cut(win, ch)
  PROVE  /\ c \in OutChapters /\ c.start = Larger(0, ch.start - Off(win))
         /\ 0 <= c.start /\ c.start <= c.end
         /\ win.recording # -1 => c.end <= win.recording
         /\ \A t \in Int : t >= Off(win) /\ (win.recording = -1 \/ t < Off(win) + win.recording) =>
              (t \in ch.start .. ch.end - 1 <=> t - Off(win) \in c.start .. c.end - 1)
<1> DEFINE off == Off(win)
           rec == win.recording
           end == IF rec = -1 THEN ch.end - off ELSE Smaller(ch.end - off, rec)
<1>1. c.start = Larger(0, ch.start - off) /\ c.end = Larger(end, c.start) /\ DOMAIN c = {"start", "end"}
  BY DEF Cut
<1>2. c = [start |-> c.start, end |-> c.end] BY DEF Cut
<1>3. ch.end >= off /\ (rec = -1 \/ ch.start <= off + rec) BY DEF Early, Late
<1> DEFINE cs == c.start
           ce == c.end
           hs == ch.start
           he == ch.end
<1>4. cs = Larger(0, hs - off) /\ ce = Larger(end, cs) BY <1>1
<1>5. he >= off /\ (rec = -1 \/ hs <= off + rec) BY <1>3
<1>6. off \in Int /\ rec \in Nat \cup {-1} /\ hs \in Int /\ he \in Int OBVIOUS
<1>7. end = IF rec = -1 THEN he - off ELSE Smaller(he - off, rec) OBVIOUS
<1> HIDE DEF cs, ce, hs, he, off, rec, end
<1>8. cs \in Int /\ ce \in Int /\ end \in Int BY <1>4, <1>6, <1>7 DEF Larger, Smaller
<1>9. 0 <= cs /\ cs <= ce /\ (rec # -1 => ce <= rec) BY <1>4, <1>5, <1>6, <1>7 DEF Larger, Smaller
<1>10. ASSUME NEW t \in Int, t >= off, rec = -1 \/ t < off + rec
       PROVE  t \in hs .. he - 1 <=> t - off \in cs .. ce - 1
  BY <1>4, <1>5, <1>6, <1>7, <1>10 DEF Larger, Smaller
<1>11. c \in OutChapters BY <1>2, <1>8 DEF OutChapters, cs, ce
<1> QED BY <1>1, <1>9, <1>10, <1>11 DEF cs, ce, hs, he, off, rec

LEMMA ShapeStep == ASSUME TagsShape, TagsNext PROVE TagsShape'
<1>1. CASE MapMetadata
  <2>1. SameJob /\ tags'.out = tags.out /\ tags'.stage = tags.stage /\ tags'.i = tags.i + 1 BY <1>1, MapFacts
  <2> QED BY <2>1 DEF TagsShape, SameJob
<1>2. CASE MapsEnd
  <2>1. SameJob /\ tags'.out = tags.out /\ tags'.stage = "chapters" /\ tags'.i = 1 BY <1>2, GoesFacts DEF MapsEnd
  <2> QED BY <2>1 DEF TagsShape, SameJob
<1>3. CASE CopyChapter
  <2> DEFINE ch == tags.chapters[tags.i]
             c == Cut(tags.win, ch)
  <2>1. /\ SameJob /\ tags'.stage = tags.stage /\ tags'.i = tags.i + 1
        /\ tags'.out = IF Early(tags.win, ch) THEN tags.out ELSE Append(tags.out, c)
        /\ tags.i <= Len(tags.chapters) /\ ~Late(tags.win, ch)
    BY <1>3, ChapterFacts
  <2>2. ~Early(tags.win, ch) => c \in OutChapters
    <3>1. tags.i \in DOMAIN tags.chapters BY <2>1, TagTypes
    <3>2. ch.start \in Int /\ ch.end \in Int BY <3>1, TagTypes
    <3>3. Off(tags.win) \in Int /\ tags.win.recording \in Nat \cup {-1} BY TagTypes
    <3> HIDE DEF ch
    <3> QED BY <2>1, <3>2, <3>3, CutFacts
  <2> HIDE DEF c
  <2>3. tags'.out \in Seq(OutChapters) BY <2>1, <2>2, AppendProperties DEF TagsShape
  <2> HIDE DEF ch
  <2> QED BY <2>1, <2>3 DEF TagsShape, SameJob
<1>4. CASE ChaptersEnd
  <2>1. SameJob /\ tags'.out = tags.out /\ tags'.stage = "defaults" /\ tags'.i = 1 BY <1>4, GoesFacts DEF ChaptersEnd
  <2> QED BY <2>1 DEF TagsShape, SameJob
<1>5. CASE CopyDefaults
  <2>1. SameJob /\ tags'.out = tags.out /\ tags'.stage = "user" /\ tags'.i = 1 BY <1>5, DefaultFacts
  <2> QED BY <2>1 DEF TagsShape, SameJob
<1>6. CASE AddGlobal \/ AddOther
  <2>1. SameJob /\ tags'.out = tags.out /\ tags'.stage = tags.stage /\ tags'.i = tags.i + 1 BY <1>6, UserFacts
  <2> QED BY <2>1 DEF TagsShape, SameJob
<1>7. CASE GlobalsEnd
  <2>1. SameJob /\ tags'.out = tags.out /\ tags'.stage = "rest" /\ tags'.i = 1 BY <1>7, GoesFacts DEF GlobalsEnd
  <2> QED BY <2>1 DEF TagsShape, SameJob
<1>8. CASE UserEnds
  <2>1. SameJob /\ tags'.out = tags.out /\ tags'.stage = "done" /\ tags'.i = 1 BY <1>8, GoesFacts DEF UserEnds
  <2> QED BY <2>1 DEF TagsShape, SameJob
<1> QED BY <1>1, <1>2, <1>3, <1>4, <1>5, <1>6, <1>7, <1>8 DEF TagsNext

ChaptersInv == OutWithin /\ OutSorted /\ OutBeforeNext /\ NoneYet /\ CoverSoFar

\* Steps that add no chapter.
LEMMA OutSame ==
  ASSUME SameJob, tags'.out = tags.out
  PROVE  /\ OutWithin => OutWithin'
         /\ OutSorted => OutSorted'
         /\ \A n : Covered(n)' <=> Covered(n)
BY DEF OutWithin, ChapterWithin, OutSorted, Covered, InChapter, InOut, IsRecorded, SameJob

LEMMA ChaptersAlone ==
  ASSUME SameJob, SameTags \/ tags'.manual = tags.manual, tags'.out = tags.out, ChaptersInv,
         tags.stage # "map", tags.stage # "chapters", tags'.stage # "map", tags'.stage # "chapters"
  PROVE  ChaptersInv'
<1>1. tags'.manual = tags.manual BY DEF SameTags
<1>2. OutWithin' /\ OutSorted' BY OutSame DEF ChaptersInv
<1>3. CopiesChapters => Covered(Len(tags.chapters) + 1) BY DEF ChaptersInv, CoverSoFar
<1>4. CopiesChapters' => Covered(Len(tags.chapters) + 1)' BY <1>1, <1>3, OutSame DEF CopiesChapters, SameJob
<1> QED BY <1>2, <1>4 DEF ChaptersInv, OutBeforeNext, NoneYet, CoverSoFar

\* The loop over the input's chapters begins with none looked at.
LEMMA ChaptersBegin == ASSUME TagsShape, ChaptersInv, MapsEnd PROVE ChaptersInv'
<1>1. SameJob /\ SameTags /\ tags'.out = tags.out /\ tags.stage = "map" /\ tags'.stage = "chapters" /\ tags'.i = 1
  BY GoesFacts DEF MapsEnd
<1>2. tags.out = <<>> BY <1>1 DEF ChaptersInv, NoneYet
<1>3. DOMAIN tags.out = {} BY <1>2
<1>4. OutWithin' /\ OutSorted' BY <1>1, OutSame DEF ChaptersInv
<1>5. OutBeforeNext' BY <1>1, <1>3 DEF OutBeforeNext
<1>6. Covered(1)
  <2>1. \A c \in DOMAIN tags.chapters : ~(c < 1) BY TagTypes
  <2> QED BY <1>3, <2>1 DEF Covered, InChapter, InOut
<1>7. CoverSoFar' BY <1>1, <1>6, OutSame DEF CoverSoFar
<1> QED BY <1>1, <1>2, <1>4, <1>5, <1>7 DEF ChaptersInv, NoneYet

\* The loop ends with every chapter looked at that can be in the output.
LEMMA ChaptersStop == ASSUME TagsShape, ChaptersInv, ChaptersEnd PROVE ChaptersInv'
<1>1. SameJob /\ SameTags /\ tags'.out = tags.out /\ tags.stage = "chapters" /\ tags'.stage = "defaults"
  BY GoesFacts DEF ChaptersEnd
<1>2. OutWithin' /\ OutSorted' BY <1>1, OutSame DEF ChaptersInv
<1>3. ASSUME CopiesChapters PROVE Covered(Len(tags.chapters) + 1)
  <2>1. Covered(tags.i) BY <1>1, <1>3 DEF ChaptersInv, CoverSoFar
  <2>2. SUFFICES ASSUME NEW t \in Instants, IsRecorded(t) PROVE InChapter(t, Len(tags.chapters) + 1) <=> InChapter(t, tags.i)
    BY <2>1 DEF Covered
  <2>3. t \in Int BY TagsAssumption
  <2>4. SUFFICES ASSUME NEW c \in DOMAIN tags.chapters, ~(c < tags.i) PROVE t \notin tags.chapters[c].start .. tags.chapters[c].end - 1
    <3>1. \A d \in DOMAIN tags.chapters : d < tags.i => d < Len(tags.chapters) + 1 BY TagTypes
    <3> QED BY <3>1 DEF InChapter
  <2>5. tags.i \in DOMAIN tags.chapters /\ c \in Nat /\ tags.i \in Nat BY <2>4, TagTypes
  <2>6. Late(tags.win, tags.chapters[tags.i]) BY <1>3, <2>5, TagTypes DEF ChaptersEnd
  <2>7. tags.chapters[tags.i].start <= tags.chapters[c].start
    <3>1. CASE c = tags.i BY <2>5, <3>1, TagTypes
    <3>2. CASE c # tags.i BY <2>4, <2>5, <3>2, TagTypes
    <3> QED BY <3>1, <3>2
  <2> DEFINE first == tags.chapters[tags.i].start
             cs == tags.chapters[c].start
             ce == tags.chapters[c].end
             off == Off(tags.win)
             rec == tags.win.recording
  <2>8. first \in Int /\ cs \in Int /\ ce \in Int /\ off \in Int /\ rec \in Nat \cup {-1} BY <2>5, TagTypes
  <2>9. rec # -1 /\ first > off + rec /\ first <= cs BY <2>6, <2>7 DEF Late
  <2>10. t < off + rec BY <2>2, <2>9 DEF IsRecorded
  <2> HIDE DEF first, cs, ce, off, rec
  <2>11. ~(cs <= t) BY <2>3, <2>8, <2>9, <2>10
  <2> QED BY <2>3, <2>8, <2>11 DEF cs, ce
<1>4. CopiesChapters' <=> CopiesChapters BY <1>1 DEF CopiesChapters, SameJob, SameTags
<1>5. CoverSoFar' BY <1>1, <1>3, <1>4, OutSame DEF CoverSoFar, SameJob
<1> QED BY <1>1, <1>2, <1>5 DEF ChaptersInv, OutBeforeNext, NoneYet

\* One chapter more is looked at.
LEMMA ChapterOne == ASSUME TagsShape, ChaptersInv, CopyChapter PROVE ChaptersInv'
<1> DEFINE ch == tags.chapters[tags.i]
           c == Cut(tags.win, ch)
           n == Len(tags.out)
<1>1. /\ SameJob /\ SameTags /\ tags'.stage = "chapters" /\ tags'.i = tags.i + 1
      /\ tags'.out = IF Early(tags.win, ch) THEN tags.out ELSE Append(tags.out, c)
      /\ tags.stage = "chapters" /\ CopiesChapters /\ tags.i <= Len(tags.chapters) /\ ~Late(tags.win, ch)
  BY ChapterFacts
<1>2. tags.i \in DOMAIN tags.chapters /\ tags.i \in Nat \ {0} BY <1>1, TagTypes
<1>3. ch.start \in Int /\ ch.end \in Int /\ Off(tags.win) \in Int /\ tags.win.recording \in Nat \cup {-1}
  BY <1>2, TagTypes
<1>4. CopiesChapters' BY <1>1 DEF CopiesChapters, SameJob, SameTags
<1>5. \A t : InChapter(t, tags.i + 1) <=> InChapter(t, tags.i) \/ t \in ch.start .. ch.end - 1
  <2>1. \A d \in DOMAIN tags.chapters : d < tags.i + 1 <=> d < tags.i \/ d = tags.i BY <1>2, TagTypes
  <2> QED BY <1>2, <2>1 DEF InChapter
<1>6. ASSUME NEW t, NEW k PROVE InChapter(t, k)' <=> InChapter(t, k) BY <1>1 DEF InChapter, SameJob
<1>7. Covered(tags.i) BY <1>1 DEF ChaptersInv, CoverSoFar
<1>8. CASE Early(tags.win, ch)
  <2>1. tags'.out = tags.out BY <1>1, <1>8
  <2>2. OutWithin' /\ OutSorted' BY <1>1, <2>1, OutSame DEF ChaptersInv
  <2>3. OutBeforeNext'
    <3>1. \A d \in tags.i + 1 .. Len(tags.chapters) : d \in tags.i .. Len(tags.chapters) BY <1>2, TagTypes
    <3> QED BY <1>1, <2>1, <3>1 DEF ChaptersInv, OutBeforeNext, SameJob
  <2>4. Covered(tags.i + 1)
    <3> SUFFICES ASSUME NEW t \in Instants, IsRecorded(t) PROVE InChapter(t, tags.i + 1) <=> InOut(t) BY DEF Covered
    <3>1. t \in Int /\ t >= Off(tags.win) BY TagsAssumption DEF IsRecorded
    <3>2. ch.end < Off(tags.win) BY <1>8 DEF Early
    <3> HIDE DEF ch
    <3>3. t \notin ch.start .. ch.end - 1 BY <1>3, <3>1, <3>2
    <3> QED BY <1>5, <1>7, <3>3 DEF Covered
  <2>5. CoverSoFar' BY <1>1, <2>1, <2>4, OutSame DEF CoverSoFar
  <2>6. NoneYet' BY <1>1, <1>2 DEF NoneYet
  <2> QED BY <2>2, <2>3, <2>5, <2>6 DEF ChaptersInv
<1>9. CASE ~Early(tags.win, ch)
  <2>1. /\ c \in OutChapters /\ c.start = Larger(0, ch.start - Off(tags.win))
        /\ 0 <= c.start /\ c.start <= c.end
        /\ tags.win.recording # -1 => c.end <= tags.win.recording
        /\ \A t \in Int : t >= Off(tags.win) /\ (tags.win.recording = -1 \/ t < Off(tags.win) + tags.win.recording) =>
             (t \in ch.start .. ch.end - 1 <=> t - Off(tags.win) \in c.start .. c.end - 1)
    <3> HIDE DEF ch
    <3> QED BY <1>1, <1>3, <1>9, CutFacts
  <2>2. tags'.out = Append(tags.out, c) BY <1>1, <1>9
  <2> HIDE DEF c
  <2>3. /\ DOMAIN tags.out = 1 .. n /\ n \in Nat /\ DOMAIN tags'.out = 1 .. n + 1 /\ tags'.out[n + 1] = c
        /\ \A j \in 1 .. n : tags'.out[j] = tags.out[j]
    <3>1. tags'.out \in Seq(OutChapters) /\ Len(tags'.out) = n + 1 /\ tags'.out[n + 1] = c
          /\ \A j \in 1 .. n : tags'.out[j] = tags.out[j]
      BY <2>1, <2>2, AppendProperties DEF TagsShape
    <3> QED BY <3>1, TagTypes, LenProperties
  <2> HIDE DEF n, ch
  <2>4. \A j \in DOMAIN tags'.out : (j \in DOMAIN tags.out /\ tags'.out[j] = tags.out[j]) \/ (j = n + 1 /\ tags'.out[j] = c)
    BY <2>3
  <2>5. OutWithin'
    <3> SUFFICES ASSUME NEW j \in DOMAIN tags'.out
                 PROVE  LET o == tags'.out[j]
                        IN  /\ 0 <= o.start /\ o.start <= o.end
                            /\ tags.win.recording # -1 => o.end <= tags.win.recording
      BY <1>1 DEF OutWithin, ChapterWithin, SameJob
    <3>1. CASE j \in DOMAIN tags.out /\ tags'.out[j] = tags.out[j]
      BY <3>1 DEF ChaptersInv, OutWithin, ChapterWithin
    <3>2. CASE tags'.out[j] = c BY <2>1, <3>2
    <3> QED BY <2>4, <3>1, <3>2
  <2>6. \A j \in DOMAIN tags.out : tags.out[j].start <= c.start
    <3>1. tags.i \in tags.i .. Len(tags.chapters) BY <1>1, <1>2, TagTypes
    <3> QED BY <1>1, <2>1, <3>1 DEF ChaptersInv, OutBeforeNext, ch
  <2>7. OutSorted'
    <3> SUFFICES ASSUME NEW j \in DOMAIN tags'.out, j > 1 PROVE tags'.out[j - 1].start <= tags'.out[j].start
      BY DEF OutSorted
    <3>1. j - 1 \in 1 .. n /\ tags'.out[j - 1] = tags.out[j - 1] BY <2>3
    <3>2. CASE j = n + 1 BY <2>3, <2>6, <3>1, <3>2
    <3>3. CASE j # n + 1
      <4>1. j \in DOMAIN tags.out /\ tags'.out[j] = tags.out[j] BY <2>3, <3>3
      <4> QED BY <3>1, <4>1 DEF ChaptersInv, OutSorted
    <3> QED BY <3>2, <3>3
  <2>8. OutBeforeNext'
    <3> SUFFICES ASSUME NEW j \in DOMAIN tags'.out, NEW d \in tags.i + 1 .. Len(tags.chapters)
                 PROVE  tags'.out[j].start <= Larger(0, tags.chapters[d].start - Off(tags.win))
      BY <1>1 DEF OutBeforeNext, SameJob
    <3>1. d \in tags.i .. Len(tags.chapters) /\ d \in DOMAIN tags.chapters /\ tags.i < d BY <1>2, TagTypes
    <3>2. CASE j \in DOMAIN tags.out /\ tags'.out[j] = tags.out[j]
      BY <1>1, <3>1, <3>2 DEF ChaptersInv, OutBeforeNext
    <3>3. CASE tags'.out[j] = c
      <4>1. ch.start <= tags.chapters[d].start BY <1>2, <3>1, TagTypes DEF ch
      <4>2. tags.chapters[d].start \in Int BY <3>1, TagTypes
      <4>3. Larger(0, ch.start - Off(tags.win)) <= Larger(0, tags.chapters[d].start - Off(tags.win))
        BY <1>3, <4>1, <4>2 DEF Larger
      <4> QED BY <2>1, <3>3, <4>3
    <3> QED BY <2>4, <3>2, <3>3
  <2> PICK next : next = tags.i + 1 OBVIOUS
  <2>9. Covered(next)'
    <3>1. SUFFICES ASSUME NEW t \in Instants, IsRecorded(t) PROVE InChapter(t, next) <=> InOut(t)'
      BY <1>1, <1>6 DEF Covered, IsRecorded, SameJob
    <3>2. t \in Int /\ t >= Off(tags.win) /\ (tags.win.recording = -1 \/ t < Off(tags.win) + tags.win.recording)
      BY <3>1, TagsAssumption DEF IsRecorded
    <3>3. t \in ch.start .. ch.end - 1 <=> t - Off(tags.win) \in c.start .. c.end - 1 BY <2>1, <3>2
    <3>4. InOut(t)' <=> InOut(t) \/ t - Off(tags.win) \in c.start .. c.end - 1
      <4>1. DOMAIN tags.out \subseteq DOMAIN tags'.out /\ n + 1 \in DOMAIN tags'.out
            /\ \A j \in DOMAIN tags.out : tags'.out[j] = tags.out[j]
        BY <2>3
      <4> QED BY <1>1, <2>3, <2>4, <4>1 DEF InOut, SameJob
    <3> QED BY <1>5, <1>7, <3>1, <3>3, <3>4 DEF Covered
  <2>10. CoverSoFar' BY <1>1, <2>9 DEF CoverSoFar
  <2>11. NoneYet' BY <1>1, <1>2 DEF NoneYet
  <2> QED BY <2>5, <2>7, <2>8, <2>10, <2>11 DEF ChaptersInv
<1> QED BY <1>8, <1>9

LEMMA ChaptersStep == ASSUME TagsShape, ChaptersInv, TagsNext PROVE ChaptersInv'
<1>1. CASE MapMetadata
  <2>1. SameJob /\ tags'.out = tags.out /\ tags'.stage = "map" /\ tags.stage = "map" BY <1>1, MapFacts
  <2> QED BY <2>1, OutSame DEF ChaptersInv, OutBeforeNext, NoneYet, CoverSoFar
<1>2. CASE MapsEnd BY <1>2, ChaptersBegin
<1>3. CASE CopyChapter BY <1>3, ChapterOne
<1>4. CASE ChaptersEnd BY <1>4, ChaptersStop
<1>5. CASE CopyDefaults
  <2>1. /\ SameJob /\ tags'.manual = tags.manual /\ tags'.out = tags.out
        /\ tags.stage = "defaults" /\ tags'.stage = "user"
    BY <1>5, DefaultFacts
  <2> QED BY <2>1, ChaptersAlone
<1>6. CASE AddGlobal \/ AddOther
  <2>1. /\ SameJob /\ tags'.manual = tags.manual /\ tags'.out = tags.out
        /\ tags.stage \in {"user", "rest"} /\ tags'.stage = tags.stage
    BY <1>6, UserFacts
  <2> QED BY <2>1, ChaptersAlone
<1>7. CASE GlobalsEnd
  <2>1. SameJob /\ SameTags /\ tags'.out = tags.out /\ tags.stage = "user" /\ tags'.stage = "rest" BY <1>7, GoesFacts DEF GlobalsEnd
  <2> QED BY <2>1, ChaptersAlone
<1>8. CASE UserEnds
  <2>1. SameJob /\ SameTags /\ tags'.out = tags.out /\ tags.stage = "rest" /\ tags'.stage = "done" BY <1>8, GoesFacts DEF UserEnds
  <2> QED BY <2>1, ChaptersAlone
<1> QED BY <1>1, <1>2, <1>3, <1>4, <1>5, <1>6, <1>7, <1>8 DEF TagsNext

(* The tags and chapters of an output follow their rules, whatever the     *)
(* mappings, the tags of the user, the chapters and the recorded window.   *)
THEOREM MetadataRightAlways == TagsSpec => []MetadataRight
<1>1. TagsInit => TagsInv BY TagsInvInit
<1>2. TagsInv /\ [TagsNext]_tags => TagsInv'
  <2> SUFFICES ASSUME TagsInv, [TagsNext]_tags PROVE TagsInv' OBVIOUS
  <2>1. CASE TagsNext
    <3>1. TagsShape /\ UnmappedGlobal /\ UnmappedStream /\ BroughtStays /\ ChaptersInv BY DEF TagsInv, ChaptersInv
    <3>2. TagsShape' /\ UnmappedGlobal' /\ UnmappedStream' /\ BroughtStays' /\ ChaptersInv'
      BY <2>1, <3>1, ShapeStep, GlobalStep, StreamStep, BroughtStep, ChaptersStep
    <3> QED BY <3>2 DEF TagsInv, ChaptersInv
  <2>2. CASE UNCHANGED tags
    BY <2>2 DEF TagsInv, TagsShape, UnmappedGlobal, UnmappedStream, BroughtStays, FirstBrings, Brought, NoDefaults, UserKeys,
       OutWithin, ChapterWithin, OutSorted, OutBeforeNext, NoneYet, CoverSoFar, CopiesChapters, Covered, InChapter,
       InOut, IsRecorded
  <2> QED BY <2>1, <2>2
<1>3. TagsInv => MetadataRight BY TagsInvRight
<1> QED BY <1>1, <1>2, <1>3, PTL DEF TagsSpec
=============================================================================
