----------------------------- MODULE LiveProofs -----------------------------
(***************************************************************************)
(* Proofs about the RTMP server: whatever comes and goes in the turns of   *)
(* its worker, players see streams whole and are told their end, and no    *)
(* id that is used again leads to another client.                          *)
(*                                                                         *)
(* A player's view is what was written to it and is to be written to it.   *)
(* Each view is sound (SoundView); it goes on with every publisher of the  *)
(* stream the player watches (Follows); and the groups saved for a stream  *)
(* do so too, so that a player can come at any time. This, the shape of    *)
(* the slabs and maps (MapsAgree) and where the worker is (TurnRight) are  *)
(* the inductive invariant RtmpInv.                                        *)
(***************************************************************************)
EXTENDS RtmpServer, TLAPS

-----------------------------------------------------------------------------
(* What a player was sent, and what is saved for those who come late       *)
Packets == [kind : SentKinds \cup {"end"}, pub : Nat, n : Nat, early : BOOLEAN]
KeyIn(V, pub) == \E k \in DOMAIN V : FrameAt(V, k, pub) /\ V[k].kind = "key"

(* Sound: no picture before its keyframe; a publisher's frames rise; after *)
(* a keyframe each follows another; an end tells the number of the last.   *)
InterKeyed(V) == \A i \in DOMAIN V : V[i].kind = "inter" /\ FrameAt(V, i, V[i].pub) => KeyBy(V, i, V[i].pub)
Rising(V) == \A j \in DOMAIN V : \A i \in 1 .. j - 1 : FrameAt(V, i, V[j].pub) /\ FrameAt(V, j, V[j].pub) => V[i].n < V[j].n
Linked(V) ==
  \A j \in DOMAIN V : FrameAt(V, j, V[j].pub) /\ KeyBy(V, j - 1, V[j].pub) =>
    \E i \in 1 .. j - 1 : FrameAt(V, i, V[j].pub) /\ V[i].n + 1 = V[j].n
EndsMatch(V) ==
  \A j \in DOMAIN V : V[j].kind = "end" /\ KeyBy(V, j - 1, V[j].pub) =>
    /\ \E i \in 1 .. j - 1 : FrameAt(V, i, V[j].pub) /\ V[i].n = V[j].n
    /\ \A i \in 1 .. j - 1 : FrameAt(V, i, V[j].pub) => V[i].n <= V[j].n
SoundView(V) == InterKeyed(V) /\ Rising(V) /\ Linked(V) /\ EndsMatch(V)

(* A sequence and a publisher that goes on *)
KeyedNow(p) == \E j \in 1 .. p.at : p.script[j] = "key"
Below(V, p) == \A i \in DOMAIN V : FrameAt(V, i, p.serial) => V[i].n <= p.n
Latest(V, p) == \A j \in DOMAIN V : FrameAt(V, j, p.serial) => \E i \in DOMAIN V : FrameAt(V, i, p.serial) /\ V[i].n = p.n
Follows(V, p) == Latest(V, p) /\ (KeyedNow(p) => KeyIn(V, p.serial))

LEMMA SoundDecodable ==
  ASSUME NEW V \in Seq(Packets), SoundView(V)
  PROVE  Decodable(V)
<1>0. Len(V) \in Nat /\ DOMAIN V = 1 .. Len(V) /\ \A i \in 1 .. Len(V) : V[i].n \in Nat
  <2>1. \A f \in Packets : f.n \in Nat BY DEF Packets
  <2>2. Len(V) \in Nat /\ DOMAIN V = 1 .. Len(V) /\ \A i \in 1 .. Len(V) : V[i] \in Packets OBVIOUS
  <2> QED BY <2>1, <2>2
<1>1. \A i \in DOMAIN V : V[i].kind = "inter" /\ FrameAt(V, i, V[i].pub) => KeyBy(V, i, V[i].pub)
  BY DEF SoundView, InterKeyed
<1>2. ASSUME NEW j \in DOMAIN V, NEW i \in 1 .. j - 1, FrameAt(V, i, V[j].pub), KeyBy(V, i, V[j].pub),
             NoneBetween(V, i, j, V[j].pub)
      PROVE  (FrameAt(V, j, V[j].pub) => V[j].n = V[i].n + 1) /\ (V[j].kind = "end" => V[j].n = V[i].n)
  <2> DEFINE p == V[j].pub
  <2>0. j \in Nat /\ i \in Nat /\ 1 <= i /\ i < j /\ j <= Len(V) /\ i \in DOMAIN V BY <1>0, <1>2
  <2>1. KeyBy(V, j - 1, p) BY <1>2, <2>0 DEF KeyBy
  <2>2. \A k \in 1 .. j - 1 : FrameAt(V, k, p) => k <= i BY <1>2, <2>0 DEF NoneBetween
  <2>3. \A k \in 1 .. j - 1 : FrameAt(V, k, p) => V[k].n <= V[i].n
    <3> SUFFICES ASSUME NEW k \in 1 .. j - 1, FrameAt(V, k, p) PROVE V[k].n <= V[i].n OBVIOUS
    <3>1. k = i \/ k \in 1 .. i - 1 BY <2>0, <2>2
    <3>2. V[i].pub = p BY <1>2 DEF FrameAt
    <3>3. k \in 1 .. i - 1 => V[k].n < V[i].n BY <1>2, <2>0, <3>2 DEF SoundView, Rising
    <3>4. V[k].n \in Nat /\ V[i].n \in Nat BY <1>0, <2>0
    <3> QED BY <3>1, <3>3, <3>4
  <2>4. i \in 1 .. j - 1 BY <2>0
  <2>5. V[i].n \in Nat /\ V[j].n \in Nat BY <1>0, <2>0
  <2>6. ASSUME FrameAt(V, j, p) PROVE V[j].n = V[i].n + 1
    <3>1. PICK k \in 1 .. j - 1 : FrameAt(V, k, p) /\ V[k].n + 1 = V[j].n BY <2>1, <2>6 DEF SoundView, Linked
    <3>2. V[k].n \in Nat /\ V[k].n <= V[i].n BY <1>0, <2>0, <2>3, <3>1
    <3>3. V[i].n < V[j].n BY <1>2, <2>4, <2>6 DEF SoundView, Rising
    <3> QED BY <2>5, <3>1, <3>2, <3>3
  <2>7. ASSUME V[j].kind = "end" PROVE V[j].n = V[i].n
    <3>1. /\ \E k \in 1 .. j - 1 : FrameAt(V, k, p) /\ V[k].n = V[j].n
          /\ \A k \in 1 .. j - 1 : FrameAt(V, k, p) => V[k].n <= V[j].n BY <2>1, <2>7 DEF SoundView, EndsMatch
    <3>2. V[i].n <= V[j].n /\ V[j].n <= V[i].n BY <1>2, <2>3, <2>4, <3>1
    <3> QED BY <2>5, <3>2
  <2> QED BY <2>6, <2>7
<1> QED BY <1>1, <1>2 DEF Decodable

(* One more packet at the end of a sequence *)
Appended(V, f, W) ==
  /\ W \in Seq(Packets) /\ Len(V) \in Nat /\ Len(W) = Len(V) + 1
  /\ DOMAIN V = 1 .. Len(V) /\ DOMAIN W = 1 .. Len(V) + 1
  /\ \A i \in 1 .. Len(V) : W[i] = V[i]
  /\ W[Len(V) + 1] = f
  /\ \A p : \A i \in 1 .. Len(V) : FrameAt(W, i, p) = FrameAt(V, i, p)
  /\ \A p : \A i \in 0 .. Len(V) : KeyBy(W, i, p) = KeyBy(V, i, p)
  /\ \A p : KeyBy(W, Len(V), p) = KeyIn(V, p)

LEMMA AppendedView ==
  ASSUME NEW V \in Seq(Packets), NEW f \in Packets, NEW W, W = Append(V, f)
  PROVE  Appended(V, f, W)
<1>1. /\ W \in Seq(Packets) /\ Len(V) \in Nat /\ Len(W) = Len(V) + 1
      /\ DOMAIN V = 1 .. Len(V) /\ DOMAIN W = 1 .. Len(V) + 1
      /\ \A i \in 1 .. Len(V) : W[i] = V[i]
      /\ W[Len(V) + 1] = f
  OBVIOUS
<1>2. \A p : \A i \in 1 .. Len(V) : FrameAt(W, i, p) = FrameAt(V, i, p) BY <1>1 DEF FrameAt
<1>3. ASSUME NEW p, NEW i \in 0 .. Len(V) PROVE KeyBy(W, i, p) = KeyBy(V, i, p)
  <2>1. \A k \in 1 .. i : k \in 1 .. Len(V) /\ k \in DOMAIN V /\ k \in DOMAIN W BY <1>1, <1>3
  <2> QED BY <1>1, <1>2, <2>1 DEF KeyBy
<1>4. ASSUME NEW p PROVE KeyBy(W, Len(V), p) = KeyIn(V, p)
  <2>1. KeyBy(W, Len(V), p) = KeyBy(V, Len(V), p) BY <1>1, <1>3
  <2> QED BY <1>1, <2>1 DEF KeyBy, KeyIn
<1> QED BY <1>1, <1>2, <1>3, <1>4 DEF Appended

(* A packet that goes to a sound sequence *)
LEMMA SoundAppend ==
  ASSUME NEW V \in Seq(Packets), NEW f \in Packets, SoundView(V), NEW own, own = (~f.early /\ f.kind \notin {"meta", "end"}),
         own /\ f.kind = "inter" => KeyIn(V, f.pub),
         own => \A i \in DOMAIN V : FrameAt(V, i, f.pub) => V[i].n < f.n,
         own /\ KeyIn(V, f.pub) => \E i \in DOMAIN V : FrameAt(V, i, f.pub) /\ V[i].n + 1 = f.n,
         f.kind = "end" /\ KeyIn(V, f.pub) => \E i \in DOMAIN V : FrameAt(V, i, f.pub) /\ V[i].n = f.n,
         f.kind = "end" => \A i \in DOMAIN V : FrameAt(V, i, f.pub) => V[i].n <= f.n
  PROVE  SoundView(Append(V, f))
<1> DEFINE W == Append(V, f)
           l == Len(V)
<1>0. W = Append(V, f) OBVIOUS
<1> HIDE DEF W
<1>1. /\ W \in Seq(Packets) /\ l \in Nat /\ Len(W) = l + 1
      /\ DOMAIN V = 1 .. l /\ DOMAIN W = 1 .. l + 1
      /\ \A i \in 1 .. l : W[i] = V[i]
      /\ W[l + 1] = f
      /\ \A p : \A i \in 1 .. l : FrameAt(W, i, p) = FrameAt(V, i, p)
      /\ \A p : \A i \in 0 .. l : KeyBy(W, i, p) = KeyBy(V, i, p)
      /\ \A p : KeyBy(W, l, p) = KeyIn(V, p)
  <2>1. Appended(V, f, W) BY <1>0, AppendedView
  <2> QED BY <2>1 DEF Appended
<1>2. FrameAt(W, l + 1, f.pub) = own BY <1>1 DEF FrameAt
<1> HIDE DEF l
<1>3. \A j \in 1 .. l + 1 : j \in Nat /\ (j = l + 1 \/ (j \in 1 .. l /\ j - 1 \in 0 .. l)) BY <1>1
<1>4. l + 1 - 1 = l BY <1>1
<1>5. InterKeyed(W)
  <2> SUFFICES ASSUME NEW i \in 1 .. l + 1, W[i].kind = "inter", FrameAt(W, i, W[i].pub) PROVE KeyBy(W, i, W[i].pub)
    BY <1>1 DEF InterKeyed
  <2>1. CASE i \in 1 .. l
    <3>1. KeyBy(V, i, V[i].pub) BY <1>1, <2>1 DEF SoundView, InterKeyed
    <3> QED BY <1>1, <2>1, <3>1
  <2>2. CASE i = l + 1
    <3>1. KeyBy(W, l, f.pub) BY <1>1, <1>2, <2>2
    <3> QED BY <1>1, <2>2, <3>1 DEF KeyBy
  <2> QED BY <1>3, <2>1, <2>2
<1>6. Rising(W)
  <2> SUFFICES ASSUME NEW j \in 1 .. l + 1, NEW i \in 1 .. j - 1, FrameAt(W, i, W[j].pub), FrameAt(W, j, W[j].pub)
               PROVE  W[i].n < W[j].n
    BY <1>1 DEF Rising
  <2>0. i \in 1 .. l BY <1>1
  <2>1. CASE j \in 1 .. l
    <3>1. V[i].n < V[j].n BY <1>1, <2>0, <2>1 DEF SoundView, Rising
    <3> QED BY <1>1, <2>0, <2>1, <3>1
  <2>2. CASE j = l + 1 BY <1>1, <1>2, <2>0, <2>2
  <2> QED BY <1>3, <2>1, <2>2
<1>7. Linked(W)
  <2> SUFFICES ASSUME NEW j \in 1 .. l + 1, FrameAt(W, j, W[j].pub), KeyBy(W, j - 1, W[j].pub)
               PROVE  \E i \in 1 .. j - 1 : FrameAt(W, i, W[j].pub) /\ W[i].n + 1 = W[j].n
    BY <1>1 DEF Linked
  <2>1. CASE j \in 1 .. l
    <3>1. KeyBy(V, j - 1, V[j].pub) /\ FrameAt(V, j, V[j].pub) BY <1>1, <1>3, <2>1
    <3>2. PICK i \in 1 .. j - 1 : FrameAt(V, i, V[j].pub) /\ V[i].n + 1 = V[j].n BY <1>1, <2>1, <3>1 DEF SoundView, Linked
    <3>3. i \in 1 .. l BY <1>1, <2>1
    <3> QED BY <1>1, <2>1, <3>2, <3>3
  <2>2. CASE j = l + 1
    <3>1. KeyIn(V, f.pub) /\ own BY <1>1, <1>2, <1>4, <2>2
    <3>2. PICK i \in 1 .. l : FrameAt(V, i, f.pub) /\ V[i].n + 1 = f.n BY <1>1, <3>1
    <3> QED BY <1>1, <1>4, <2>2, <3>2
  <2> QED BY <1>3, <2>1, <2>2
<1>8. EndsMatch(W)
  <2> SUFFICES ASSUME NEW j \in 1 .. l + 1, W[j].kind = "end", KeyBy(W, j - 1, W[j].pub)
               PROVE  /\ \E i \in 1 .. j - 1 : FrameAt(W, i, W[j].pub) /\ W[i].n = W[j].n
                      /\ \A i \in 1 .. j - 1 : FrameAt(W, i, W[j].pub) => W[i].n <= W[j].n
    BY <1>1 DEF EndsMatch
  <2>1. CASE j \in 1 .. l
    <3>1. KeyBy(V, j - 1, V[j].pub) /\ V[j].kind = "end" BY <1>1, <1>3, <2>1
    <3>2. /\ \E i \in 1 .. j - 1 : FrameAt(V, i, V[j].pub) /\ V[i].n = V[j].n
          /\ \A i \in 1 .. j - 1 : FrameAt(V, i, V[j].pub) => V[i].n <= V[j].n
      BY <1>1, <2>1, <3>1 DEF SoundView, EndsMatch
    <3>3. \A i \in 1 .. j - 1 : i \in 1 .. l BY <1>1, <2>1
    <3> QED BY <1>1, <2>1, <3>2, <3>3
  <2>2. CASE j = l + 1
    <3>1. KeyIn(V, f.pub) /\ f.kind = "end" BY <1>1, <1>4, <2>2
    <3>2. PICK i \in 1 .. l : FrameAt(V, i, f.pub) /\ V[i].n = f.n BY <1>1, <3>1
    <3>3. \A k \in 1 .. l : FrameAt(V, k, f.pub) => V[k].n <= f.n BY <1>1, <3>1
    <3> QED BY <1>1, <1>4, <2>2, <3>2, <3>3
  <2> QED BY <1>3, <2>1, <2>2
<1> QED BY <1>0, <1>5, <1>6, <1>7, <1>8 DEF SoundView

-----------------------------------------------------------------------------
(* What is saved for a stream: frames of its publishers, one after another *)
AllFrames(S) == \A i \in DOMAIN S : FrameAt(S, i, S[i].pub)
PubsInOrder(S) == \A j \in DOMAIN S : \A i \in 1 .. j - 1 : S[i].pub <= S[j].pub

(* Without its oldest groups it is sound, when it starts with a keyframe.  *)
LEMMA TailSound ==
  ASSUME NEW S \in Seq(Packets), SoundView(S), AllFrames(S), PubsInOrder(S), NEW cut \in 0 .. Len(S),
         cut < Len(S) => S[cut + 1].kind = "key", NEW T, T = SubSeq(S, cut + 1, Len(S))
  PROVE  /\ T \in Seq(Packets) /\ Len(T) = Len(S) - cut /\ \A i \in 1 .. Len(S) - cut : T[i] = S[cut + i]
         /\ SoundView(T) /\ AllFrames(T) /\ PubsInOrder(T)
<1> DEFINE l == Len(S)
<1>1. l \in Nat /\ DOMAIN S = 1 .. l /\ cut \in Nat /\ cut <= l /\ l - cut \in Nat OBVIOUS
<1>2. T \in Seq(Packets) /\ Len(T) = l - cut /\ DOMAIN T = 1 .. l - cut /\ \A i \in 1 .. l - cut : T[i] = S[cut + i]
  OBVIOUS
<1>0. cut < l => S[cut + 1].kind = "key" OBVIOUS
<1> HIDE DEF l
<1>3. \A i \in 1 .. l - cut : cut + i \in 1 .. l BY <1>1
<1>4. \A p : \A i \in 1 .. l - cut : FrameAt(T, i, p) = FrameAt(S, cut + i, p) BY <1>2 DEF FrameAt
<1>5. AllFrames(T)
  <2> SUFFICES ASSUME NEW i \in 1 .. l - cut PROVE FrameAt(T, i, T[i].pub) BY <1>2 DEF AllFrames
  <2>1. cut + i \in DOMAIN S /\ T[i] = S[cut + i] BY <1>1, <1>2, <1>3
  <2>2. FrameAt(S, cut + i, S[cut + i].pub) BY <2>1 DEF AllFrames
  <2> QED BY <1>4, <2>1, <2>2
<1>6. PubsInOrder(T)
  <2> SUFFICES ASSUME NEW j \in 1 .. l - cut, NEW i \in 1 .. j - 1 PROVE T[i].pub <= T[j].pub BY <1>2 DEF PubsInOrder
  <2>1. i \in 1 .. l - cut /\ cut + i \in 1 .. (cut + j) - 1 /\ cut + j \in 1 .. l
    <3>1. j \in 1 .. l - cut /\ i \in 1 .. j - 1 OBVIOUS
    <3> QED BY ONLY <1>1, <3>1
  <2>2. S[cut + i].pub <= S[cut + j].pub BY <1>1, <2>1 DEF PubsInOrder
  <2> QED BY <1>2, <2>1, <2>2
<1>7. Rising(T)
  <2> SUFFICES ASSUME NEW j \in 1 .. l - cut, NEW i \in 1 .. j - 1, FrameAt(T, i, T[j].pub), FrameAt(T, j, T[j].pub)
               PROVE  T[i].n < T[j].n
    BY <1>2 DEF Rising
  <2>1. i \in 1 .. l - cut /\ cut + i \in 1 .. (cut + j) - 1 /\ cut + j \in 1 .. l
    <3>1. j \in 1 .. l - cut /\ i \in 1 .. j - 1 OBVIOUS
    <3> QED BY ONLY <1>1, <3>1
  <2>2. FrameAt(S, cut + i, S[cut + j].pub) /\ FrameAt(S, cut + j, S[cut + j].pub) BY <1>2, <1>4, <2>1
  <2>3. S[cut + i].n < S[cut + j].n BY <1>1, <2>1, <2>2 DEF SoundView, Rising
  <2> QED BY <1>2, <2>1, <2>3
<1>8. \A f \in Packets : f.n \in Nat /\ f.pub \in Nat BY DEF Packets
<1>9. \A i \in 1 .. l : S[i].n \in Nat /\ S[i].pub \in Nat BY <1>1, <1>8
<1>10. InterKeyed(T)
  <2> SUFFICES ASSUME NEW i \in 1 .. l - cut, T[i].kind = "inter", FrameAt(T, i, T[i].pub) PROVE KeyBy(T, i, T[i].pub)
    BY <1>2 DEF InterKeyed
  <2>1. cut + i \in 1 .. l /\ S[cut + i].kind = "inter" /\ FrameAt(S, cut + i, S[cut + i].pub) /\ T[i] = S[cut + i]
    BY <1>2, <1>3, <1>4
  <2>2. PICK k \in 1 .. cut + i : k \in DOMAIN S /\ FrameAt(S, k, T[i].pub) /\ S[k].kind = "key"
    BY <1>1, <2>1 DEF SoundView, InterKeyed, KeyBy
  <2>3. CASE k > cut
    <3>1. k - cut \in 1 .. i /\ k - cut \in 1 .. l - cut /\ cut + (k - cut) = k
      <4>1. k \in 1 .. cut + i /\ i \in 1 .. l - cut BY <2>2
      <4> QED BY ONLY <1>1, <2>3, <4>1
    <3> QED BY <1>2, <1>4, <2>2, <3>1 DEF KeyBy
  <2>4. CASE k <= cut
    <3>1. cut + 1 \in 1 .. l /\ S[cut + 1].kind = "key" /\ 1 \in 1 .. l - cut /\ 1 \in 1 .. i BY <1>0, <1>1
    <3>2. S[k].pub = T[i].pub BY <2>2 DEF FrameAt
    <3>3. k \in 1 .. (cut + 1) - 1 BY <1>1, <2>2, <2>4
    <3>4. S[k].pub <= S[cut + 1].pub BY <1>1, <3>1, <3>3 DEF PubsInOrder
    <3>5. cut + 1 = cut + i \/ cut + 1 \in 1 .. (cut + i) - 1 BY <1>1
    <3>6. S[cut + 1].pub <= S[cut + i].pub
      <4>1. CASE cut + 1 = cut + i BY <1>9, <2>1, <4>1
      <4>2. CASE cut + 1 \in 1 .. (cut + i) - 1 BY <1>1, <2>1, <4>2 DEF PubsInOrder
      <4> QED BY <3>5, <4>1, <4>2
    <3>7. S[cut + 1].pub = T[i].pub
      <4>1. S[cut + 1].pub \in Nat /\ S[cut + i].pub \in Nat BY <1>9, <2>1, <3>1
      <4>2. S[k].pub = S[cut + i].pub /\ T[i].pub = S[cut + i].pub BY <2>1, <3>2
      <4> QED BY ONLY <3>4, <3>6, <4>1, <4>2
    <3>8. FrameAt(S, cut + 1, T[i].pub) BY <1>1, <3>1, <3>7 DEF AllFrames
    <3>9. FrameAt(T, 1, T[i].pub) /\ T[1].kind = "key" BY <1>2, <1>4, <3>1, <3>8
    <3> QED BY <1>2, <3>1, <3>9 DEF KeyBy
  <2>5. k \in Nat BY <2>2
  <2> QED BY <1>1, <2>3, <2>4, <2>5
<1>11. Linked(T)
  <2> SUFFICES ASSUME NEW j \in 1 .. l - cut, FrameAt(T, j, T[j].pub), KeyBy(T, j - 1, T[j].pub)
               PROVE  \E i \in 1 .. j - 1 : FrameAt(T, i, T[j].pub) /\ T[i].n + 1 = T[j].n
    BY <1>2 DEF Linked
  <2> DEFINE p == T[j].pub
  <2>1. PICK k \in 1 .. j - 1 : k \in 1 .. l - cut /\ FrameAt(T, k, p) /\ T[k].kind = "key" BY <1>2 DEF KeyBy
  <2>2. /\ cut + j \in 1 .. l /\ cut + k \in 1 .. (cut + j) - 1 /\ cut + k \in 1 .. l /\ T[j] = S[cut + j] /\ T[k] = S[cut + k]
        /\ FrameAt(S, cut + j, p) /\ FrameAt(S, cut + k, p) /\ S[cut + k].kind = "key"
    <3>1. cut + j \in 1 .. l /\ cut + k \in 1 .. (cut + j) - 1 /\ cut + k \in 1 .. l
      <4>1. j \in 1 .. l - cut /\ k \in 1 .. j - 1 /\ k \in 1 .. l - cut BY <2>1
      <4> QED BY ONLY <1>1, <4>1
    <3>2. T[j] = S[cut + j] /\ T[k] = S[cut + k] BY <1>2, <2>1
    <3>3. FrameAt(S, cut + j, p) /\ FrameAt(S, cut + k, p) BY <1>4, <2>1
    <3> QED BY <2>1, <3>1, <3>2, <3>3
  <2>3. KeyBy(S, (cut + j) - 1, p) BY <1>1, <2>2 DEF KeyBy
  <2>4. PICK i \in 1 .. (cut + j) - 1 : FrameAt(S, i, p) /\ S[i].n + 1 = S[cut + j].n
    BY <1>1, <2>2, <2>3 DEF SoundView, Linked
  <2>5. S[cut + k].n < S[cut + j].n BY <1>1, <2>2 DEF SoundView, Rising
  <2>6. i >= cut + k
    <3> SUFFICES ASSUME i \in 1 .. (cut + k) - 1 PROVE FALSE BY <1>1, <2>2, <2>4
    <3>1. S[i].pub = p /\ S[cut + k].pub = p BY <2>2, <2>4 DEF FrameAt
    <3>2. S[i].n < S[cut + k].n BY <1>1, <2>2, <2>4, <3>1 DEF SoundView, Rising
    <3>3. i \in 1 .. l
      <4>1. i \in 1 .. (cut + k) - 1 /\ cut + k \in 1 .. l BY <2>2
      <4> QED BY ONLY <1>1, <4>1
    <3>4. S[i].n \in Nat /\ S[cut + k].n \in Nat /\ S[cut + j].n \in Nat BY <1>9, <2>2, <3>3
    <3>5. S[i].n + 1 = S[cut + j].n BY <2>4
    <3> QED BY ONLY <2>5, <3>2, <3>4, <3>5
  <2>7. i - cut \in 1 .. j - 1 /\ i - cut \in 1 .. l - cut /\ cut + (i - cut) = i
    <3>1. i \in 1 .. (cut + j) - 1 /\ j \in 1 .. l - cut /\ k \in 1 .. j - 1 BY <2>1, <2>4
    <3> QED BY ONLY <1>1, <2>6, <3>1
  <2>8. FrameAt(T, i - cut, p) /\ T[i - cut] = S[i] BY <1>2, <1>4, <2>4, <2>7
  <2> QED BY <2>2, <2>4, <2>7, <2>8
<1>12. EndsMatch(T)
  <2>1. \A i \in 1 .. l - cut : T[i].kind # "end" BY <1>2, <1>5 DEF AllFrames, FrameAt
  <2> QED BY <1>2, <2>1 DEF EndsMatch
<1> QED BY <1>2, <1>5, <1>6, <1>7, <1>10, <1>11, <1>12 DEF SoundView, l

(* A player that catches up: headers of earlier, and what is saved *)
Early(H) == \A i \in DOMAIN H : H[i].early /\ H[i].kind # "end"
HasEnd(V) == \E i \in DOMAIN V : V[i].kind = "end"
FromSaved(V, S) == \A i \in DOMAIN V : V[i].early \/ \E k \in DOMAIN S : V[i] = S[k]
LEMMA CatchUp ==
  ASSUME NEW H \in Seq(Packets), NEW S \in Seq(Packets), Early(H), SoundView(S), AllFrames(S), NEW V, V = H \o S
  PROVE  /\ V \in Seq(Packets) /\ SoundView(V) /\ ~HasEnd(V)
         /\ \A p : KeyIn(V, p) => KeyIn(S, p)
         /\ FromSaved(V, S)
         /\ \A p : Below(S, p) => Below(V, p)
         /\ \A p : Follows(S, p) => Follows(V, p)
<1> DEFINE h == Len(H)
           l == Len(S)
<1>1. /\ h \in Nat /\ l \in Nat /\ DOMAIN H = 1 .. h /\ DOMAIN S = 1 .. l
      /\ V \in Seq(Packets) /\ Len(V) = h + l /\ DOMAIN V = 1 .. h + l
      /\ \A i \in 1 .. h : V[i] = H[i]
      /\ \A i \in 1 .. l : V[h + i] = S[i]
  OBVIOUS
<1>2. \A p : \A i \in 1 .. h : ~FrameAt(V, i, p) BY <1>1 DEF Early, FrameAt
<1>3. \A p : \A i \in 1 .. l : FrameAt(V, h + i, p) = FrameAt(S, i, p) BY <1>1 DEF FrameAt
<1> HIDE DEF h, l
<1>4. \A i \in 1 .. h + l : i \in 1 .. h \/ (i - h \in 1 .. l /\ h + (i - h) = i) BY <1>1
<1>5. \A i \in 1 .. l : h + i \in 1 .. h + l BY <1>1
<1>6. \A i \in 1 .. h + l : \A p : FrameAt(V, i, p) => i - h \in 1 .. l /\ FrameAt(S, i - h, p) /\ V[i] = S[i - h] /\ h + (i - h) = i
  BY <1>1, <1>2, <1>3, <1>4
<1>7. \A i \in DOMAIN V : V[i].kind # "end"
  <2>1. \A i \in 1 .. l : S[i].kind # "end" BY <1>1 DEF AllFrames, FrameAt
  <2>2. \A i \in 1 .. h : H[i].kind # "end" BY <1>1 DEF Early
  <2> QED BY <1>1, <1>4, <2>1, <2>2
<1>8. ASSUME NEW p, NEW i \in 1 .. l, NEW m \in Nat, m >= i, KeyBy(S, i, p) PROVE KeyBy(V, h + m, p)
  <2>1. PICK k \in 1 .. i : k \in 1 .. l /\ FrameAt(S, k, p) /\ S[k].kind = "key" BY <1>1, <1>8 DEF KeyBy
  <2>2. h + k \in 1 .. h + m /\ h + k \in 1 .. h + l BY <1>1, <1>8, <2>1
  <2> QED BY <1>1, <1>3, <2>1, <2>2 DEF KeyBy
<1>9. ASSUME NEW p, NEW j \in Nat, h + j <= h + l, KeyBy(V, h + j, p) PROVE KeyBy(S, j, p)
  <2>1. PICK k \in 1 .. h + j : k \in 1 .. h + l /\ FrameAt(V, k, p) /\ V[k].kind = "key" BY <1>1, <1>9 DEF KeyBy
  <2>2. k - h \in 1 .. l /\ FrameAt(S, k - h, p) /\ V[k] = S[k - h] BY <1>6, <2>1
  <2>3. k - h \in 1 .. j BY <1>1, <1>9, <2>1, <2>2
  <2> QED BY <1>1, <2>1, <2>2, <2>3 DEF KeyBy
<1>10. InterKeyed(V)
  <2> SUFFICES ASSUME NEW i \in 1 .. h + l, V[i].kind = "inter", FrameAt(V, i, V[i].pub) PROVE KeyBy(V, i, V[i].pub)
    BY <1>1 DEF InterKeyed
  <2> DEFINE k == i - h
  <2>1. k \in 1 .. l /\ FrameAt(S, k, V[i].pub) /\ V[i] = S[k] /\ h + k = i BY <1>6
  <2> HIDE DEF k
  <2>2. KeyBy(S, k, V[i].pub) BY <1>1, <2>1 DEF SoundView, InterKeyed
  <2>3. KeyBy(V, h + k, V[i].pub) BY <1>8, <2>1, <2>2
  <2> QED BY <2>1, <2>3
<1>11. Rising(V)
  <2> SUFFICES ASSUME NEW j \in 1 .. h + l, NEW i \in 1 .. j - 1, FrameAt(V, i, V[j].pub), FrameAt(V, j, V[j].pub)
               PROVE  V[i].n < V[j].n
    BY <1>1 DEF Rising
  <2>1. i \in 1 .. h + l BY <1>1
  <2>2. /\ i - h \in 1 .. l /\ FrameAt(S, i - h, V[j].pub) /\ V[i] = S[i - h]
        /\ j - h \in 1 .. l /\ FrameAt(S, j - h, V[j].pub) /\ V[j] = S[j - h]
    BY <1>6, <2>1
  <2>3. i - h \in 1 .. (j - h) - 1 BY <1>1, <2>1, <2>2
  <2>4. S[i - h].n < S[j - h].n BY <1>1, <2>2, <2>3 DEF SoundView, Rising
  <2> QED BY <2>2, <2>4
<1>12. Linked(V)
  <2> SUFFICES ASSUME NEW j \in 1 .. h + l, FrameAt(V, j, V[j].pub), KeyBy(V, j - 1, V[j].pub)
               PROVE  \E i \in 1 .. j - 1 : FrameAt(V, i, V[j].pub) /\ V[i].n + 1 = V[j].n
    BY <1>1 DEF Linked
  <2> DEFINE m == j - h
             p == V[j].pub
  <2>1. m \in 1 .. l /\ FrameAt(S, m, p) /\ V[j] = S[m] /\ h + m = j BY <1>6
  <2>2. m - 1 \in Nat /\ h + (m - 1) = j - 1 /\ h + (m - 1) <= h + l BY <1>1, <2>1
  <2> HIDE DEF m
  <2>3. KeyBy(S, m - 1, p) BY <1>9, <2>2
  <2>4. PICK i \in 1 .. m - 1 : FrameAt(S, i, p) /\ S[i].n + 1 = S[m].n BY <1>1, <2>1, <2>3 DEF SoundView, Linked
  <2>5. h + i \in 1 .. j - 1 /\ i \in 1 .. l
    <3>1. m \in Nat /\ 1 <= m /\ m <= l /\ h + m = j BY <1>1, <2>1
    <3>2. h \in Nat /\ l \in Nat BY <1>1
    <3>3. i \in Nat /\ 1 <= i /\ i <= m - 1 BY <2>2, <2>4
    <3> QED BY ONLY <3>1, <3>2, <3>3
  <2>6. FrameAt(V, h + i, p) /\ V[h + i] = S[i] BY <1>1, <1>3, <2>4, <2>5
  <2> QED BY <2>1, <2>4, <2>5, <2>6
<1>13. EndsMatch(V) BY <1>7 DEF EndsMatch
<1>14. ASSUME NEW p PROVE KeyIn(V, p) = KeyIn(S, p)
  <2>1. KeyIn(V, p) => KeyIn(S, p) BY <1>1, <1>6 DEF KeyIn
  <2>2. KeyIn(S, p) => KeyIn(V, p) BY <1>1, <1>3, <1>5 DEF KeyIn
  <2>3. KeyIn(V, p) \in BOOLEAN /\ KeyIn(S, p) \in BOOLEAN BY DEF KeyIn
  <2> QED BY <2>1, <2>2, <2>3
<1>15. \A i \in DOMAIN V : V[i].early \/ \E k \in DOMAIN S : V[i] = S[k] BY <1>1, <1>4 DEF Early
<1>16. ASSUME NEW p, Below(S, p) PROVE Below(V, p) BY <1>1, <1>6, <1>16 DEF Below
<1>17. ASSUME NEW p, Follows(S, p) PROVE Follows(V, p)
  <2>1. KeyedNow(p) => KeyIn(V, p.serial) BY <1>14, <1>17 DEF Follows
  <2>2. ASSUME NEW j \in DOMAIN V, FrameAt(V, j, p.serial) PROVE \E i \in DOMAIN V : FrameAt(V, i, p.serial) /\ V[i].n = p.n
    <3>1. j - h \in 1 .. l /\ FrameAt(S, j - h, p.serial) BY <1>1, <1>6, <2>2
    <3>2. PICK i \in 1 .. l : FrameAt(S, i, p.serial) /\ S[i].n = p.n BY <1>1, <1>17, <3>1 DEF Follows, Latest
    <3> QED BY <1>1, <1>3, <1>5, <3>2
  <2> QED BY <2>1, <2>2 DEF Follows, Latest
<1> QED BY <1>1, <1>7, <1>10, <1>11, <1>12, <1>13, <1>14, <1>15, <1>16, <1>17 DEF SoundView, HasEnd, FromSaved

-----------------------------------------------------------------------------
(* A publisher and its next frame *)
KeyFirst(script) == \A i \in DOMAIN script : script[i] = "inter" => \E j \in 1 .. i - 1 : script[j] = "key"
Publishers == [key : StreamKeys, script : Seq(SentKinds), at : Nat, n : Nat, serial : Nat]
IsPublisher(p) == p \in Publishers /\ KeyFirst(p.script) /\ p.at <= Len(p.script)
NextFrame(p) ==
  LET kind == p.script[p.at + 1]
  IN  [kind |-> kind, pub |-> p.serial, n |-> IF kind = "meta" THEN p.n ELSE p.n + 1, early |-> FALSE]
Advanced(p) == [p EXCEPT !.at = @ + 1, !.n = NextFrame(p).n]

LEMMA NextFrameFacts ==
  ASSUME NEW p, IsPublisher(p), p.at < Len(p.script), NEW f, f = NextFrame(p), NEW q, q = Advanced(p)
  PROVE  /\ f \in Packets /\ f.kind \in SentKinds /\ f.pub = p.serial /\ ~f.early /\ f.n = q.n
         /\ (f.kind = "meta" => q.n = p.n) /\ (f.kind # "meta" => q.n = p.n + 1)
         /\ IsPublisher(q) /\ q.serial = p.serial /\ q.key = p.key /\ q.n \in Nat /\ p.n \in Nat /\ p.serial \in Nat
         /\ f.kind = "inter" => KeyedNow(p)
         /\ KeyedNow(q) => KeyedNow(p) \/ f.kind = "key"
<1>1. p \in Publishers /\ p.at \in Nat /\ p.n \in Nat /\ p.serial \in Nat /\ p.script \in Seq(SentKinds) /\ p.key \in StreamKeys
  BY DEF IsPublisher, Publishers
<1>2. p.at + 1 \in DOMAIN p.script /\ p.script[p.at + 1] \in SentKinds
  <2>1. Len(p.script) \in Nat /\ DOMAIN p.script = 1 .. Len(p.script) BY <1>1
  <2> QED BY <1>1, <2>1
<1>3. /\ f.kind = p.script[p.at + 1] /\ f.pub = p.serial /\ f.early = FALSE
      /\ f.n = IF f.kind = "meta" THEN p.n ELSE p.n + 1
      /\ f = [kind |-> f.kind, pub |-> f.pub, n |-> f.n, early |-> f.early]
  BY DEF NextFrame
<1>4. f \in Packets /\ f.n \in Nat
  <2>1. f.n \in Nat BY <1>1, <1>3
  <2>2. f.kind \in SentKinds \cup {"end"} /\ f.pub \in Nat /\ f.early \in BOOLEAN BY <1>1, <1>2, <1>3
  <2> QED BY <1>3, <2>1, <2>2 DEF Packets
<1>5. q = [p EXCEPT !.at = @ + 1, !.n = f.n] BY DEF Advanced
<1>6. /\ q.at = p.at + 1 /\ q.n = f.n /\ q.serial = p.serial /\ q.key = p.key /\ q.script = p.script
      /\ q \in Publishers
  <2>1. p.at + 1 \in Nat /\ f.n \in Nat BY <1>1, <1>4
  <2> QED BY <1>1, <1>5, <2>1 DEF Publishers
<1>7. IsPublisher(q)
  <2>1. Len(p.script) \in Nat BY <1>1
  <2> QED BY <1>1, <1>6, <2>1 DEF IsPublisher
<1>8. f.kind = "inter" => KeyedNow(p)
  <2> SUFFICES ASSUME f.kind = "inter" PROVE KeyedNow(p) OBVIOUS
  <2>1. PICK j \in 1 .. (p.at + 1) - 1 : p.script[j] = "key" BY <1>2, <1>3 DEF IsPublisher, KeyFirst
  <2> QED BY <1>1, <2>1 DEF KeyedNow
<1>9. KeyedNow(q) => KeyedNow(p) \/ f.kind = "key"
  <2> SUFFICES ASSUME NEW j \in 1 .. p.at + 1, p.script[j] = "key" PROVE KeyedNow(p) \/ f.kind = "key"
    BY <1>6 DEF KeyedNow
  <2>1. j = p.at + 1 \/ j \in 1 .. p.at BY <1>1
  <2> QED BY <1>3, <2>1 DEF KeyedNow
<1> QED BY <1>1, <1>2, <1>3, <1>4, <1>6, <1>7, <1>8, <1>9

(* What is no frame of a publisher changes nothing for it. *)
LEMMA OtherAppend ==
  ASSUME NEW V \in Seq(Packets), NEW f \in Packets, NEW W, W = Append(V, f), NEW q,
         f.pub # q.serial \/ f.early \/ f.kind \in {"meta", "end"}
  PROVE  Below(W, q) = Below(V, q) /\ Latest(W, q) = Latest(V, q) /\ Follows(W, q) = Follows(V, q)
<1> DEFINE l == Len(V)
           s == q.serial
<1>1. Appended(V, f, W) BY AppendedView
<1>2. /\ l \in Nat /\ DOMAIN V = 1 .. l /\ DOMAIN W = 1 .. l + 1 /\ W[l + 1] = f
      /\ \A i \in 1 .. l : W[i] = V[i]
      /\ \A p : \A i \in 1 .. l : FrameAt(W, i, p) = FrameAt(V, i, p)
  BY <1>1 DEF Appended
<1>3. ~FrameAt(W, l + 1, s) BY <1>2 DEF FrameAt
<1> HIDE DEF l
<1>4. \A i \in 1 .. l + 1 : i = l + 1 \/ i \in 1 .. l BY <1>2
<1>5. \A i \in 1 .. l : i \in 1 .. l + 1 BY <1>2
<1>6. Below(W, q) <=> Below(V, q) BY <1>2, <1>3, <1>4, <1>5 DEF Below
<1>7. KeyIn(W, s) <=> KeyIn(V, s) BY <1>2, <1>3, <1>4, <1>5 DEF KeyIn
<1>8. Latest(W, q) <=> Latest(V, q)
  <2>1. ASSUME Latest(V, q) PROVE Latest(W, q) BY <1>2, <1>3, <1>4, <1>5, <2>1 DEF Latest
  <2>2. ASSUME Latest(W, q) PROVE Latest(V, q) BY <1>2, <1>3, <1>4, <1>5, <2>2 DEF Latest
  <2> QED BY <2>1, <2>2
<1>9. Follows(W, q) <=> Follows(V, q) BY <1>7, <1>8 DEF Follows
<1>10. /\ Below(W, q) \in BOOLEAN /\ Below(V, q) \in BOOLEAN /\ Latest(W, q) \in BOOLEAN /\ Latest(V, q) \in BOOLEAN
       /\ Follows(W, q) \in BOOLEAN /\ Follows(V, q) \in BOOLEAN
  BY DEF Below, Latest, Follows
<1> QED BY <1>6, <1>8, <1>9, <1>10

(* Keyframes of the sequence with one more packet *)
LEMMA KeyAppend ==
  ASSUME NEW V \in Seq(Packets), NEW f \in Packets, NEW W, W = Append(V, f), NEW s
  PROVE  /\ KeyIn(V, s) => KeyIn(W, s)
         /\ KeyIn(W, s) => KeyIn(V, s) \/ f.kind = "key"
         /\ f.kind = "key" /\ f.pub = s /\ ~f.early => KeyIn(W, s)
<1> DEFINE l == Len(V)
<1>1. Appended(V, f, W) BY AppendedView
<1>2. /\ l \in Nat /\ DOMAIN V = 1 .. l /\ DOMAIN W = 1 .. l + 1 /\ W[l + 1] = f
      /\ \A i \in 1 .. l : W[i] = V[i]
      /\ \A p : \A i \in 1 .. l : FrameAt(W, i, p) = FrameAt(V, i, p)
  BY <1>1 DEF Appended
<1> HIDE DEF l
<1>3. \A i \in 1 .. l + 1 : i = l + 1 \/ i \in 1 .. l BY <1>2
<1>4. \A i \in 1 .. l : i \in 1 .. l + 1 BY <1>2
<1>5. KeyIn(V, s) => KeyIn(W, s) BY <1>2, <1>4 DEF KeyIn
<1>6. KeyIn(W, s) => KeyIn(V, s) \/ f.kind = "key" BY <1>2, <1>3 DEF KeyIn
<1>7. f.kind = "key" /\ f.pub = s /\ ~f.early => KeyIn(W, s)
  <2> SUFFICES ASSUME f.kind = "key", f.pub = s, ~f.early PROVE KeyIn(W, s) OBVIOUS
  <2>1. FrameAt(W, l + 1, s) /\ W[l + 1].kind = "key" /\ l + 1 \in 1 .. l + 1 BY <1>2 DEF FrameAt
  <2> QED BY <1>2, <2>1 DEF KeyIn
<1> QED BY <1>5, <1>6, <1>7

(* The next frame at the end of what has no keyframe or the latest frames *)
LEMMA GoesOn ==
  ASSUME NEW V \in Seq(Packets), NEW p, IsPublisher(p), p.at < Len(p.script), NEW f, f = NextFrame(p), NEW q, q = Advanced(p),
         NEW W, W = Append(V, f),
         SoundView(V), Below(V, p), KeyIn(V, p.serial) => Latest(V, p), f.kind = "inter" => KeyIn(V, p.serial)
  PROVE  /\ SoundView(W) /\ Below(W, q)
         /\ f.kind # "meta" => Latest(W, q)
         /\ Latest(V, p) => Latest(W, q)
<1> DEFINE l == Len(V)
           s == p.serial
<1>1. /\ f \in Packets /\ f.kind \in SentKinds /\ f.pub = s /\ ~f.early /\ f.n = q.n
      /\ (f.kind = "meta" => q.n = p.n) /\ (f.kind # "meta" => q.n = p.n + 1)
      /\ q.serial = s /\ q.n \in Nat /\ p.n \in Nat
  BY NextFrameFacts
<1>2. Appended(V, f, W) BY <1>1, AppendedView
<1>3. /\ l \in Nat /\ DOMAIN V = 1 .. l /\ DOMAIN W = 1 .. l + 1 /\ W[l + 1] = f
      /\ \A i \in 1 .. l : W[i] = V[i]
      /\ \A r : \A i \in 1 .. l : FrameAt(W, i, r) = FrameAt(V, i, r)
  BY <1>2 DEF Appended
<1>4. \A g \in Packets : g.n \in Nat BY DEF Packets
<1>5. \A i \in 1 .. l : V[i].n \in Nat BY <1>3, <1>4
<1>6. FrameAt(W, l + 1, s) <=> f.kind # "meta" BY <1>1, <1>3 DEF FrameAt, SentKinds
<1>7. \A i \in 1 .. l : FrameAt(V, i, s) => V[i].n <= p.n BY <1>3 DEF Below
<1>8. f.kind # "end" BY <1>1 DEF SentKinds
<1> HIDE DEF l
<1>9. \A i \in 1 .. l + 1 : i = l + 1 \/ i \in 1 .. l BY <1>3
<1>10. \A i \in 1 .. l : i \in 1 .. l + 1 BY <1>3
<1>11. SoundView(W)
  <2> DEFINE own == ~f.early /\ f.kind \notin {"meta", "end"}
  <2>1. own <=> f.kind # "meta" BY <1>1, <1>8
  <2>2. own /\ f.kind = "inter" => KeyIn(V, f.pub) BY <1>1
  <2>3. own => \A i \in DOMAIN V : FrameAt(V, i, f.pub) => V[i].n < f.n BY <1>1, <1>3, <1>5, <1>7, <2>1
  <2>4. own /\ KeyIn(V, f.pub) => \E i \in DOMAIN V : FrameAt(V, i, f.pub) /\ V[i].n + 1 = f.n
    <3> SUFFICES ASSUME f.kind # "meta", KeyIn(V, s) PROVE \E i \in DOMAIN V : FrameAt(V, i, s) /\ V[i].n + 1 = f.n
      BY <1>1, <2>1
    <3>1. \E j \in DOMAIN V : FrameAt(V, j, s) BY DEF KeyIn
    <3>2. \E i \in DOMAIN V : FrameAt(V, i, s) /\ V[i].n = p.n BY <3>1 DEF Latest
    <3> QED BY <1>1, <3>2
  <2> HIDE DEF own
  <2>5. SoundView(Append(V, f)) BY <1>1, <1>8, <2>2, <2>3, <2>4, SoundAppend DEF own
  <2> QED BY <2>5
<1>12. Below(W, q)
  <2> SUFFICES ASSUME NEW i \in 1 .. l + 1, FrameAt(W, i, s) PROVE W[i].n <= q.n BY <1>1, <1>3 DEF Below
  <2>1. CASE i = l + 1 BY <1>1, <1>3, <2>1
  <2>2. CASE i \in 1 .. l
    <3>1. V[i].n <= p.n BY <1>3, <1>7, <2>2
    <3> QED BY <1>1, <1>3, <1>5, <2>2, <3>1
  <2> QED BY <1>9, <2>1, <2>2
<1>13. ASSUME f.kind # "meta" PROVE Latest(W, q)
  <2>1. l + 1 \in 1 .. l + 1 /\ FrameAt(W, l + 1, s) /\ W[l + 1].n = q.n BY <1>1, <1>3, <1>6, <1>13
  <2> QED BY <1>1, <1>3, <2>1 DEF Latest
<1>14. ASSUME f.kind = "meta", Latest(V, p) PROVE Latest(W, q)
  <2> SUFFICES ASSUME NEW j \in 1 .. l + 1, FrameAt(W, j, s) PROVE \E i \in 1 .. l + 1 : FrameAt(W, i, s) /\ W[i].n = q.n
    BY <1>1, <1>3 DEF Latest
  <2>1. j \in 1 .. l /\ FrameAt(V, j, s) BY <1>3, <1>6, <1>9, <1>14
  <2>2. PICK i \in 1 .. l : FrameAt(V, i, s) /\ V[i].n = p.n BY <1>3, <1>14, <2>1 DEF Latest
  <2> QED BY <1>1, <1>3, <1>10, <1>14, <2>2
<1> QED BY <1>11, <1>12, <1>13, <1>14

(* The end of a publisher at the end of what has no keyframe or the latest *)
LEMMA EndsOn ==
  ASSUME NEW V \in Seq(Packets), NEW p, IsPublisher(p), NEW f, f = [kind |-> "end", pub |-> p.serial, n |-> p.n, early |-> FALSE],
         SoundView(V), Below(V, p), KeyIn(V, p.serial) => Latest(V, p)
  PROVE  f \in Packets /\ SoundView(Append(V, f))
<1>1. p.n \in Nat /\ p.serial \in Nat BY DEF IsPublisher, Publishers
<1>2. f.kind = "end" /\ f.pub = p.serial /\ f.n = p.n /\ f \in Packets BY <1>1 DEF Packets
<1> DEFINE own == ~f.early /\ f.kind \notin {"meta", "end"}
<1>3. ~own BY <1>2
<1>4. KeyIn(V, f.pub) => \E i \in DOMAIN V : FrameAt(V, i, f.pub) /\ V[i].n = f.n BY <1>2 DEF KeyIn, Latest
<1>5. \A i \in DOMAIN V : FrameAt(V, i, f.pub) => V[i].n <= f.n BY <1>2 DEF Below
<1> HIDE DEF own
<1>6. SoundView(Append(V, f)) BY <1>2, <1>3, <1>4, <1>5, SoundAppend DEF own
<1> QED BY <1>2, <1>6

-----------------------------------------------------------------------------
(* A stream's channel: what is kept for those who come late. Each group    *)
(* but the first of what is saved starts with a keyframe.                  *)
GroupsStart(S, starts) ==
  /\ S \in Seq(Packets) /\ starts \in Seq(Nat) /\ Len(starts) >= 1
  /\ \A g \in 2 .. Len(starts) : starts[g] \in 1 .. Len(S) /\ S[starts[g]].kind = "key"
  /\ \A h \in 2 .. Len(starts) : \A g \in 2 .. h : starts[g] <= starts[h]
IsChannel(ch) ==
  /\ DOMAIN ch = {"watchers", "meta", "vhdr", "ahdr", "saved", "starts"}
  /\ ch.meta \in Seq(Packets) /\ ch.vhdr \in Seq(Packets) /\ ch.ahdr \in Seq(Packets)
  /\ Early(ch.meta) /\ Early(ch.vhdr) /\ Early(ch.ahdr)
  /\ GroupsStart(ch.saved, ch.starts)
SavedSound(ch) == SoundView(ch.saved) /\ AllFrames(ch.saved) /\ PubsInOrder(ch.saved)

(* How many frames go, and the starts of the groups that stay *)
Cut(S, starts, kind, limit) ==
  IF kind # "key" \/ Len(starts) # limit THEN 0 ELSE IF Len(starts) = 1 THEN Len(S) ELSE starts[2] - 1
Groups(S, starts, kind, limit) ==
  IF kind # "key" \/ Len(starts) # limit THEN starts
  ELSE [g \in 1 .. Len(starts) - 1 |-> starts[g + 1] - Cut(S, starts, kind, limit)]

Saves(ch, f, cut, groups, new) ==
  /\ DOMAIN new = DOMAIN ch /\ new.watchers = ch.watchers
  /\ new.meta = ch.meta /\ new.vhdr = ch.vhdr /\ new.ahdr = ch.ahdr
  /\ new.saved = Append(SubSeq(ch.saved, cut + 1, Len(ch.saved)), f)
  /\ new.starts = IF f.kind = "key" THEN Append(groups, Len(ch.saved) - cut + 1) ELSE ch.starts

LEMMA SaveFacts ==
  ASSUME NEW ch, IsChannel(ch), NEW f, NEW limit \in Nat \ {0}, NEW cut, NEW groups,
         cut = Cut(ch.saved, ch.starts, f.kind, limit), groups = Groups(ch.saved, ch.starts, f.kind, limit),
         NEW new, new = save_frame_data(ch, f, limit)
  PROVE  Saves(ch, f, cut, groups, new)
<1>1. new = [ch EXCEPT !.saved = Append(SubSeq(ch.saved, cut + 1, Len(ch.saved)), f),
                       !.starts = IF f.kind = "key" THEN Append(groups, Len(ch.saved) - cut + 1) ELSE ch.starts]
  BY DEF save_frame_data, Cut, Groups
<1> QED BY <1>1 DEF IsChannel, Saves

CutRight(S, kind, cut, groups) ==
  /\ cut \in 0 .. Len(S) /\ (kind # "key" => cut = 0) /\ (cut > 0 /\ cut < Len(S) => S[cut + 1].kind = "key")
  /\ groups \in Seq(Nat) /\ Len(groups) \in Nat
  /\ \A g \in 2 .. Len(groups) : groups[g] \in 1 .. Len(S) - cut /\ S[groups[g] + cut].kind = "key"
  /\ \A h \in 2 .. Len(groups) : \A g \in 2 .. h : groups[g] <= groups[h]
(* Where the groups start when the oldest goes and a keyframe comes *)
LEMMA GroupsCut ==
  ASSUME NEW S, NEW starts, GroupsStart(S, starts), NEW limit \in Nat \ {0}, NEW cut, NEW groups, NEW kind,
         cut = Cut(S, starts, kind, limit), groups = Groups(S, starts, kind, limit)
  PROVE  CutRight(S, kind, cut, groups)
<1> DEFINE l == Len(S)
           m == Len(starts)
<1>1. /\ l \in Nat /\ m \in Nat /\ m >= 1 /\ starts \in Seq(Nat) /\ \A g \in 1 .. m : starts[g] \in Nat
      /\ \A g \in 2 .. m : starts[g] \in 1 .. l /\ S[starts[g]].kind = "key"
      /\ \A h \in 2 .. m : \A g \in 2 .. h : starts[g] <= starts[h]
  BY DEF GroupsStart
<1>2. CASE kind # "key" \/ m # limit
  <2>1. cut = 0 /\ groups = starts BY <1>2 DEF Cut, Groups
  <2>2. \A g \in 2 .. m : starts[g] \in 1 .. l - 0 /\ starts[g] + 0 = starts[g] BY <1>1
  <2> QED BY <1>1, <2>1, <2>2 DEF CutRight
<1>3. CASE kind = "key" /\ m = limit /\ m = 1
  <2>1. cut = l /\ groups = [g \in 1 .. m - 1 |-> starts[g + 1] - cut] BY <1>3 DEF Cut, Groups
  <2>2. groups = << >> BY <1>3, <2>1
  <2>3. groups \in Seq(Nat) /\ Len(groups) = 0 BY <2>2
  <2>4. cut \in 0 .. l /\ ~(cut < l) /\ kind = "key" BY <1>1, <1>3, <2>1
  <2>5. 2 .. Len(groups) = {} BY <2>3
  <2> QED BY <2>3, <2>4, <2>5 DEF CutRight
<1>4. CASE kind = "key" /\ m = limit /\ m # 1
  <2>1. cut = starts[2] - 1 BY <1>4 DEF Cut
  <2>2. groups = [g \in 1 .. m - 1 |-> starts[g + 1] - cut] BY <1>4 DEF Groups
  <2> HIDE DEF l, m
  <2>3. l \in Nat /\ m \in Nat /\ m >= 2 BY <1>1, <1>4
  <2>4. 2 \in 2 .. m /\ starts[2] \in 1 .. l /\ S[starts[2]].kind = "key"
    <3>1. 2 \in 2 .. m BY <2>3
    <3> QED BY <1>1, <3>1
  <2>5. cut \in 0 .. l /\ cut + 1 = starts[2] /\ cut \in Nat BY ONLY <2>1, <2>3, <2>4
  <2>6. \A g \in 1 .. m - 1 : starts[g + 1] \in 1 .. l /\ S[starts[g + 1]].kind = "key" /\ starts[2] <= starts[g + 1]
    <3> SUFFICES ASSUME NEW g \in 1 .. m - 1
                 PROVE  starts[g + 1] \in 1 .. l /\ S[starts[g + 1]].kind = "key" /\ starts[2] <= starts[g + 1]
      OBVIOUS
    <3>1. g + 1 \in 2 .. m /\ 2 \in 2 .. g + 1 BY ONLY <2>3, g \in 1 .. m - 1
    <3> QED BY <1>1, <3>1
  <2>7. \A g \in 1 .. m - 1 : starts[g + 1] - cut \in 1 .. l - cut /\ starts[g + 1] - cut \in Nat /\ (starts[g + 1] - cut) + cut = starts[g + 1]
    <3> SUFFICES ASSUME NEW g \in 1 .. m - 1
                 PROVE  starts[g + 1] - cut \in 1 .. l - cut /\ starts[g + 1] - cut \in Nat /\ (starts[g + 1] - cut) + cut = starts[g + 1]
      OBVIOUS
    <3>1. starts[g + 1] \in 1 .. l /\ starts[2] <= starts[g + 1] BY <2>6
    <3>2. starts[2] \in 1 .. l BY <2>4
    <3> QED BY ONLY <2>3, <2>5, <3>1, <3>2
  <2>8. groups \in Seq(Nat) /\ Len(groups) = m - 1 /\ \A g \in 1 .. m - 1 : groups[g] = starts[g + 1] - cut
    <3>1. m - 1 \in Nat BY <2>3
    <3>2. groups \in [1 .. m - 1 -> Nat] /\ \A g \in 1 .. m - 1 : groups[g] = starts[g + 1] - cut BY <2>2, <2>7
    <3>3. DOMAIN groups = 1 .. m - 1 BY <2>2
    <3>4. groups \in Seq(Nat) BY <3>1, <3>2
    <3>5. Len(groups) = m - 1 BY <3>1, <3>3, <3>4
    <3> QED BY <3>2, <3>4, <3>5
  <2>9. \A g \in 2 .. m - 1 : groups[g] \in 1 .. l - cut /\ S[groups[g] + cut].kind = "key"
    <3> SUFFICES ASSUME NEW g \in 2 .. m - 1 PROVE groups[g] \in 1 .. l - cut /\ S[groups[g] + cut].kind = "key" OBVIOUS
    <3>1. g \in 1 .. m - 1 BY ONLY <2>3, g \in 2 .. m - 1
    <3> QED BY <2>6, <2>7, <2>8, <3>1
  <2>10. \A h \in 2 .. m - 1 : \A g \in 2 .. h : groups[g] <= groups[h]
    <3> SUFFICES ASSUME NEW h \in 2 .. m - 1, NEW g \in 2 .. h PROVE groups[g] <= groups[h] OBVIOUS
    <3>1. g \in 1 .. m - 1 /\ h \in 1 .. m - 1 /\ h + 1 \in 2 .. m /\ g + 1 \in 2 .. h + 1
      BY ONLY <2>3, h \in 2 .. m - 1, g \in 2 .. h
    <3>2. starts[g + 1] <= starts[h + 1] BY <1>1, <3>1
    <3>3. groups[g] = starts[g + 1] - cut /\ groups[h] = starts[h + 1] - cut BY <2>8, <3>1
    <3>4. starts[g + 1] \in 1 .. l /\ starts[h + 1] \in 1 .. l BY <2>6, <3>1
    <3> QED BY ONLY <2>3, <2>5, <3>2, <3>3, <3>4
  <2>11. cut < l => S[cut + 1].kind = "key" BY <2>4, <2>5
  <2>12. kind # "key" => cut = 0 BY <1>4
  <2>13. Len(groups) \in Nat BY <2>3, <2>8
  <2> QED BY <2>5, <2>8, <2>9, <2>10, <2>11, <2>12, <2>13 DEF l, CutRight
<1> QED BY <1>2, <1>3, <1>4

(* The groups start with keyframes still when one more frame is saved. *)
LEMMA SaveGroups ==
  ASSUME NEW ch, IsChannel(ch), NEW f \in Packets, NEW limit \in Nat \ {0}, NEW new, new = save_frame_data(ch, f, limit)
  PROVE  IsChannel(new) /\ new.watchers = ch.watchers /\ new.meta = ch.meta /\ new.vhdr = ch.vhdr /\ new.ahdr = ch.ahdr
<1> DEFINE S == ch.saved
           l == Len(S)
           starts == ch.starts
           cut == Cut(S, starts, f.kind, limit)
           groups == Groups(S, starts, f.kind, limit)
           T == SubSeq(S, cut + 1, l)
           W == Append(T, f)
<1>1. /\ cut \in 0 .. l /\ (f.kind # "key" => cut = 0)
      /\ groups \in Seq(Nat) /\ Len(groups) \in Nat
      /\ \A g \in 2 .. Len(groups) : groups[g] \in 1 .. l - cut /\ S[groups[g] + cut].kind = "key"
      /\ \A h \in 2 .. Len(groups) : \A g \in 2 .. h : groups[g] <= groups[h]
  <2>1. GroupsStart(S, starts) BY DEF IsChannel
  <2>2. cut = Cut(S, starts, f.kind, limit) /\ groups = Groups(S, starts, f.kind, limit) OBVIOUS
  <2> HIDE DEF cut, groups, S, starts
  <2>3. CutRight(S, f.kind, cut, groups) BY <2>1, <2>2, GroupsCut
  <2> QED BY <2>3 DEF CutRight
<1>2. /\ DOMAIN new = DOMAIN ch /\ new.watchers = ch.watchers
      /\ new.meta = ch.meta /\ new.vhdr = ch.vhdr /\ new.ahdr = ch.ahdr
      /\ new.saved = W
      /\ new.starts = IF f.kind = "key" THEN Append(groups, l - cut + 1) ELSE starts
  <2>1. cut = Cut(ch.saved, ch.starts, f.kind, limit) /\ groups = Groups(ch.saved, ch.starts, f.kind, limit) OBVIOUS
  <2> HIDE DEF cut, groups
  <2>4. Saves(ch, f, cut, groups, new) BY <2>1, SaveFacts
  <2> QED BY <2>4 DEF Saves
<1>3. /\ S \in Seq(Packets) /\ starts \in Seq(Nat) /\ Len(starts) >= 1
      /\ \A g \in 2 .. Len(starts) : starts[g] \in 1 .. l /\ S[starts[g]].kind = "key"
      /\ \A h \in 2 .. Len(starts) : \A g \in 2 .. h : starts[g] <= starts[h]
  BY DEF IsChannel, GroupsStart
<1>4. T = SubSeq(S, cut + 1, l) /\ W = Append(T, f) /\ l = Len(S) OBVIOUS
<1>7. l \in Nat /\ DOMAIN S = 1 .. l BY <1>3
<1> HIDE DEF S, l, starts, cut, groups, T, W
<1>5. cut = 0 => T = S
  <2> SUFFICES ASSUME cut = 0 PROVE T = S OBVIOUS
  <2>1. T = SubSeq(S, 1, l) BY <1>4
  <2> QED BY <1>3, <1>4, <2>1
<1>6. T \in Seq(Packets) /\ Len(T) = l - cut /\ \A i \in 1 .. l - cut : T[i] = S[cut + i]
  BY <1>1, <1>3, <1>4, <1>7
<1>9. DOMAIN T = 1 .. l - cut /\ l - cut \in Nat BY <1>1, <1>6, <1>7
<1>8. Appended(T, f, W) BY <1>4, <1>6, AppendedView
<1>10. /\ W \in Seq(Packets) /\ Len(W) = (l - cut) + 1 /\ DOMAIN W = 1 .. (l - cut) + 1
       /\ \A i \in 1 .. l - cut : W[i] = T[i]
       /\ W[(l - cut) + 1] = f
  BY <1>6, <1>8 DEF Appended
<1>11. GroupsStart(W, new.starts)
  <2>1. CASE f.kind # "key"
    <3>1. new.starts = starts /\ T = S /\ cut = 0 BY <1>1, <1>2, <1>5, <2>1
    <3>2. Len(W) = l + 1 /\ \A i \in 1 .. l : W[i] = S[i] BY <1>7, <1>10, <3>1
    <3>3. \A g \in 2 .. Len(starts) : starts[g] \in 1 .. Len(W) /\ W[starts[g]].kind = "key"
      <4> SUFFICES ASSUME NEW g \in 2 .. Len(starts) PROVE starts[g] \in 1 .. Len(W) /\ W[starts[g]].kind = "key" OBVIOUS
      <4>1. starts[g] \in 1 .. l /\ S[starts[g]].kind = "key" BY <1>3
      <4> QED BY <1>7, <3>2, <4>1
    <3> QED BY <1>3, <1>10, <3>1, <3>3 DEF GroupsStart
  <2>2. CASE f.kind = "key"
    <3> DEFINE m == Len(groups)
               u == Append(groups, (l - cut) + 1)
    <3>1. new.starts = u
      <4>1. l - cut + 1 = (l - cut) + 1 OBVIOUS
      <4> QED BY <1>2, <2>2, <4>1
    <3>2. m \in Nat /\ u \in Seq(Nat) /\ Len(u) = m + 1 /\ (\A g \in 1 .. m : u[g] = groups[g]) /\ u[m + 1] = (l - cut) + 1
      BY <1>1, <1>9
    <3> HIDE DEF m, u
    <3>3. \A g \in 2 .. m + 1 : (g = m + 1 /\ u[g] = (l - cut) + 1) \/ (g \in 2 .. m /\ u[g] = groups[g])
      BY <3>2
    <3>4. \A g \in 2 .. m : groups[g] \in 1 .. l - cut /\ W[groups[g]].kind = "key"
      <4> SUFFICES ASSUME NEW g \in 2 .. m PROVE groups[g] \in 1 .. l - cut /\ W[groups[g]].kind = "key" OBVIOUS
      <4>1. groups[g] \in 1 .. l - cut /\ S[groups[g] + cut].kind = "key" BY <1>1 DEF m
      <4>2. groups[g] + cut = cut + groups[g] BY <1>1, <4>1
      <4> QED BY <1>6, <1>10, <4>1, <4>2
    <3>5. \A g \in 2 .. m + 1 : u[g] \in 1 .. (l - cut) + 1 /\ W[u[g]].kind = "key"
      <4> SUFFICES ASSUME NEW g \in 2 .. m + 1 PROVE u[g] \in 1 .. (l - cut) + 1 /\ W[u[g]].kind = "key" OBVIOUS
      <4>1. CASE g = m + 1 /\ u[g] = (l - cut) + 1 BY <1>9, <1>10, <2>2, <4>1
      <4>2. CASE g \in 2 .. m /\ u[g] = groups[g] BY <1>9, <3>4, <4>2
      <4> QED BY <3>3, <4>1, <4>2
    <3>6. \A h \in 2 .. m + 1 : \A g \in 2 .. h : u[g] <= u[h]
      <4> SUFFICES ASSUME NEW h \in 2 .. m + 1, NEW g \in 2 .. h PROVE u[g] <= u[h] OBVIOUS
      <4>0. g \in 2 .. m + 1 BY <3>2
      <4>1. CASE h = m + 1 BY <1>9, <3>2, <3>5, <4>0, <4>1
      <4>2. CASE h \in 2 .. m
        <5>1. g \in 1 .. m /\ h \in 1 .. m BY <3>2, <4>2
        <5> QED BY <1>1, <3>2, <4>2, <5>1 DEF m
      <4> QED BY <3>3, <4>1, <4>2
    <3> QED BY <1>10, <3>1, <3>2, <3>5, <3>6 DEF GroupsStart
  <2> QED BY <2>1, <2>2
<1> QED BY <1>2, <1>11 DEF IsChannel

LEMMA SaveSound ==
  ASSUME NEW ch, IsChannel(ch), SavedSound(ch), NEW limit \in Nat \ {0},
         NEW p, IsPublisher(p), p.at < Len(p.script), NEW f, f = NextFrame(p), NEW q, q = Advanced(p), f.kind # "meta",
         Follows(ch.saved, p), Below(ch.saved, p), \A i \in DOMAIN ch.saved : ch.saved[i].pub <= p.serial,
         NEW new, new = save_frame_data(ch, f, limit)
  PROVE  /\ DOMAIN new = DOMAIN ch /\ new.watchers = ch.watchers
         /\ new.meta = ch.meta /\ new.vhdr = ch.vhdr /\ new.ahdr = ch.ahdr
         /\ SavedSound(new) /\ Follows(new.saved, q) /\ Below(new.saved, q)
         /\ \A i \in DOMAIN new.saved : new.saved[i] = f \/ \E k \in DOMAIN ch.saved : new.saved[i] = ch.saved[k]
<1> DEFINE S == ch.saved
           l == Len(S)
           starts == ch.starts
           cut == Cut(S, starts, f.kind, limit)
           groups == Groups(S, starts, f.kind, limit)
           T == SubSeq(S, cut + 1, l)
           W == Append(T, f)
<1>1. /\ cut \in 0 .. l /\ (f.kind # "key" => cut = 0) /\ (cut > 0 /\ cut < l => S[cut + 1].kind = "key")
      /\ groups \in Seq(Nat) /\ Len(groups) \in Nat
      /\ \A g \in 2 .. Len(groups) : groups[g] \in 1 .. l - cut /\ S[groups[g] + cut].kind = "key"
      /\ \A h \in 2 .. Len(groups) : \A g \in 2 .. h : groups[g] <= groups[h]
  <2>1. GroupsStart(S, starts) BY DEF IsChannel
  <2>2. cut = Cut(S, starts, f.kind, limit) /\ groups = Groups(S, starts, f.kind, limit) OBVIOUS
  <2> HIDE DEF cut, groups, S, starts
  <2>3. CutRight(S, f.kind, cut, groups) BY <2>1, <2>2, GroupsCut
  <2> QED BY <2>3 DEF CutRight
<1>2. /\ DOMAIN new = DOMAIN ch /\ new.watchers = ch.watchers
      /\ new.meta = ch.meta /\ new.vhdr = ch.vhdr /\ new.ahdr = ch.ahdr
      /\ new.saved = W
      /\ new.starts = IF f.kind = "key" THEN Append(groups, l - cut + 1) ELSE starts
  <2>1. cut = Cut(ch.saved, ch.starts, f.kind, limit) /\ groups = Groups(ch.saved, ch.starts, f.kind, limit) OBVIOUS
  <2> HIDE DEF cut, groups
  <2>4. Saves(ch, f, cut, groups, new) BY <2>1, SaveFacts
  <2> QED BY <2>4 DEF Saves
<1>3. S \in Seq(Packets) /\ SoundView(S) /\ AllFrames(S) /\ PubsInOrder(S) BY DEF SavedSound, IsChannel, GroupsStart
<1>4. T = SubSeq(S, cut + 1, l) /\ W = Append(T, f) /\ l = Len(S) OBVIOUS
<1>7. l \in Nat /\ DOMAIN S = 1 .. l BY <1>3
<1> HIDE DEF S, l, starts, cut, groups, T, W
<1>8. /\ f \in Packets /\ f.kind \in SentKinds /\ f.pub = p.serial /\ ~f.early /\ f.n = q.n
      /\ q.n = p.n + 1 /\ q.serial = p.serial /\ q.n \in Nat /\ p.n \in Nat /\ p.serial \in Nat
      /\ f.kind = "inter" => KeyedNow(p)
      /\ KeyedNow(q) => KeyedNow(p) \/ f.kind = "key"
  BY NextFrameFacts
<1>9. cut = 0 => T = S
  <2> SUFFICES ASSUME cut = 0 PROVE T = S OBVIOUS
  <2>1. T = SubSeq(S, 1, l) BY <1>4
  <2> QED BY <1>3, <1>4, <2>1
<1>10. /\ T \in Seq(Packets) /\ Len(T) = l - cut /\ \A i \in 1 .. l - cut : T[i] = S[cut + i]
       /\ SoundView(T) /\ AllFrames(T) /\ PubsInOrder(T)
  <2>1. CASE cut = 0
    <3>1. l - 0 = l /\ \A i \in 1 .. l : 0 + i = i BY <1>7
    <3> QED BY <1>3, <1>4, <1>9, <2>1, <3>1
  <2>2. CASE cut # 0
    <3>1. cut < l => S[cut + 1].kind = "key" BY <1>1, <1>7, <2>2
    <3> QED BY <1>1, <1>3, <1>4, <3>1, TailSound
  <2> QED BY <2>1, <2>2
<1>11. DOMAIN T = 1 .. l - cut /\ l - cut \in Nat BY <1>1, <1>7, <1>10
<1>12. \A i \in 1 .. l - cut : cut + i \in 1 .. l BY <1>1, <1>7
<1>13. \A s : \A i \in 1 .. l - cut : FrameAt(T, i, s) = FrameAt(S, cut + i, s) BY <1>10 DEF FrameAt
<1>14. \A i \in 1 .. l : S[i].n \in Nat
  <2>1. \A g \in Packets : g.n \in Nat BY DEF Packets
  <2> QED BY <1>3, <1>7, <2>1
<1>15. Below(S, p) /\ Latest(S, p) /\ (KeyedNow(p) => KeyIn(S, p.serial)) BY DEF Follows, S
<1>16. Below(T, p)
  <2> SUFFICES ASSUME NEW i \in 1 .. l - cut, FrameAt(T, i, p.serial) PROVE T[i].n <= p.n BY <1>11 DEF Below
  <2> QED BY <1>7, <1>10, <1>12, <1>13, <1>15 DEF Below
<1>17. Latest(T, p)
  <2> SUFFICES ASSUME NEW j \in 1 .. l - cut, FrameAt(T, j, p.serial)
               PROVE  \E i \in 1 .. l - cut : FrameAt(T, i, p.serial) /\ T[i].n = p.n
    BY <1>11 DEF Latest
  <2>1. cut + j \in 1 .. l /\ FrameAt(S, cut + j, p.serial) BY <1>12, <1>13
  <2>2. PICK i \in 1 .. l : FrameAt(S, i, p.serial) /\ S[i].n = p.n BY <1>7, <1>15, <2>1 DEF Latest
  <2>3. i >= cut + j
    <3> SUFFICES ASSUME i \in 1 .. (cut + j) - 1 PROVE FALSE BY <1>1, <1>7, <2>1, <2>2
    <3>1. S[i].pub = p.serial /\ S[cut + j].pub = p.serial BY <2>1, <2>2 DEF FrameAt
    <3>2. S[i].n < S[cut + j].n BY <1>3, <1>7, <2>1, <2>2, <3>1 DEF SoundView, Rising
    <3>3. S[cut + j].n <= p.n BY <1>7, <1>15, <2>1 DEF Below
    <3>4. S[i].n \in Nat /\ S[cut + j].n \in Nat BY <1>14, <2>1
    <3> QED BY <1>8, <2>2, <3>2, <3>3, <3>4
  <2>4. i - cut \in 1 .. l - cut /\ cut + (i - cut) = i
    <3>1. i \in 1 .. l /\ j \in 1 .. l - cut /\ cut \in 0 .. l /\ l \in Nat BY <1>1, <1>7
    <3> QED BY ONLY <2>3, <3>1
  <2> QED BY <1>10, <1>13, <2>2, <2>4
<1>18. f.kind = "inter" => KeyIn(T, p.serial)
  <2> SUFFICES ASSUME f.kind = "inter" PROVE KeyIn(T, p.serial) OBVIOUS
  <2>1. T = S BY <1>1, <1>9
  <2> QED BY <1>8, <1>15, <2>1
<1>19. SoundView(W) /\ Below(W, q) /\ Latest(W, q)
  <2>1. W = Append(T, f) /\ IsPublisher(p) /\ p.at < Len(p.script) /\ f = NextFrame(p) /\ q = Advanced(p) /\ f.kind # "meta" BY <1>4
  <2>2. T \in Seq(Packets) /\ SoundView(T) BY <1>10
  <2>3. KeyIn(T, p.serial) => Latest(T, p) BY <1>17
  <2> QED BY ONLY <2>1, <2>2, <2>3, <1>16, <1>18, GoesOn
<1>20. KeyedNow(q) => KeyIn(W, p.serial)
  <2> SUFFICES ASSUME KeyedNow(q) PROVE KeyIn(W, p.serial) OBVIOUS
  <2>1. CASE f.kind = "key" BY <1>4, <1>8, <1>10, <2>1, KeyAppend
  <2>2. CASE f.kind # "key"
    <3>1. T = S /\ KeyIn(S, p.serial) BY <1>1, <1>8, <1>9, <1>15, <2>2
    <3> QED BY <1>4, <1>8, <1>10, <3>1, KeyAppend
  <2> QED BY <2>1, <2>2
<1>21. Follows(W, q) BY <1>8, <1>19, <1>20 DEF Follows
<1>22. Appended(T, f, W) BY <1>4, <1>8, <1>10, AppendedView
<1>23. /\ W \in Seq(Packets) /\ Len(W) = (l - cut) + 1 /\ DOMAIN W = 1 .. (l - cut) + 1
       /\ \A i \in 1 .. l - cut : W[i] = T[i]
       /\ W[(l - cut) + 1] = f
       /\ \A s : \A i \in 1 .. l - cut : FrameAt(W, i, s) = FrameAt(T, i, s)
  BY <1>10, <1>22 DEF Appended
<1>24. \A i \in 1 .. (l - cut) + 1 : i = (l - cut) + 1 \/ i \in 1 .. l - cut BY <1>11
<1>25. FrameAt(W, (l - cut) + 1, f.pub) BY <1>8, <1>23 DEF FrameAt, SentKinds
<1>26. AllFrames(W)
  <2> SUFFICES ASSUME NEW i \in 1 .. (l - cut) + 1 PROVE FrameAt(W, i, W[i].pub) BY <1>23 DEF AllFrames
  <2>1. CASE i = (l - cut) + 1 BY <1>23, <1>25, <2>1
  <2>2. CASE i \in 1 .. l - cut BY <1>10, <1>11, <1>23, <2>2 DEF AllFrames
  <2> QED BY <1>24, <2>1, <2>2
<1>27. \A i \in 1 .. l - cut : T[i].pub <= p.serial BY <1>7, <1>10, <1>12 DEF S
<1>28. PubsInOrder(W)
  <2> SUFFICES ASSUME NEW j \in 1 .. (l - cut) + 1, NEW i \in 1 .. j - 1 PROVE W[i].pub <= W[j].pub BY <1>23 DEF PubsInOrder
  <2>0. i \in 1 .. l - cut BY <1>11
  <2>1. CASE j = (l - cut) + 1 BY <1>8, <1>23, <1>27, <2>0, <2>1
  <2>2. CASE j \in 1 .. l - cut BY <1>10, <1>11, <1>23, <2>0, <2>2 DEF PubsInOrder
  <2> QED BY <1>24, <2>1, <2>2
<1>29. \A i \in DOMAIN W : W[i] = f \/ \E k \in DOMAIN S : W[i] = S[k]
  <2> SUFFICES ASSUME NEW i \in 1 .. (l - cut) + 1, W[i] # f PROVE \E k \in DOMAIN S : W[i] = S[k] BY <1>23
  <2>1. i \in 1 .. l - cut BY <1>23, <1>24
  <2> QED BY <1>7, <1>10, <1>12, <1>23, <2>1
<1> QED BY <1>2, <1>19, <1>21, <1>26, <1>28, <1>29 DEF SavedSound, S

-----------------------------------------------------------------------------
(* The state of the server: what its values are, how slabs and maps agree, *)
(* where the worker is.                                                    *)
IsConn(conn) ==
  /\ DOMAIN conn = {"open", "log", "sent", "lossy"} /\ conn.open \in BOOLEAN /\ conn.lossy \in BOOLEAN
  /\ conn.log \in Seq(Packets) /\ conn.sent \in Seq(Packets)
IsClient(client) ==
  /\ DOMAIN client = {"action", "key", "conn", "got_key"} /\ client.got_key \in BOOLEAN
  /\ client.action \in {"publishing", "waiting", "watching"}
  /\ client.action = "waiting" => ~client.got_key
LiveTypes ==
  /\ DOMAIN rtmp = {"of", "stage", "left", "conns", "pubs", "clients", "conn_map", "pub_map", "channels", "clear", "pclear",
                    "made", "sockets", "ended"}
  /\ rtmp.of \in RtmpCases /\ rtmp.made \in Nat
  /\ \A i \in DOMAIN rtmp.conns : IsConn(rtmp.conns[i])
  /\ \A p \in DOMAIN rtmp.pubs : IsPublisher(rtmp.pubs[p]) /\ rtmp.pubs[p].serial <= rtmp.made
  /\ \A p, q \in DOMAIN rtmp.pubs : rtmp.pubs[p].serial = rtmp.pubs[q].serial => p = q
  /\ \A c \in DOMAIN rtmp.clients : IsClient(rtmp.clients[c])
  /\ \A k \in DOMAIN rtmp.channels : IsChannel(rtmp.channels[k])

WatchersAgree ==
  \A k \in DOMAIN rtmp.channels :
    rtmp.channels[k].watchers = {c \in DOMAIN rtmp.clients : rtmp.clients[c].action = "watching" /\ rtmp.clients[c].key = k}
MapsAgree ==
  /\ DOMAIN rtmp.conn_map = {i \in DOMAIN rtmp.conns : rtmp.conns[i].open} /\ DOMAIN rtmp.pub_map = DOMAIN rtmp.pubs
  /\ \A i \in DOMAIN rtmp.conn_map :
       /\ rtmp.conn_map[i] \in DOMAIN rtmp.clients /\ rtmp.clients[rtmp.conn_map[i]].conn = i
       /\ rtmp.clients[rtmp.conn_map[i]].action \in {"waiting", "watching"}
  /\ \A i \in DOMAIN rtmp.pub_map :
       /\ rtmp.pub_map[i] \in DOMAIN rtmp.clients /\ rtmp.clients[rtmp.pub_map[i]].conn = i
       /\ rtmp.clients[rtmp.pub_map[i]].action = "publishing"
       /\ rtmp.clients[rtmp.pub_map[i]].key = rtmp.pubs[i].key /\ rtmp.pubs[i].key \in DOMAIN rtmp.channels
  /\ \A c \in DOMAIN rtmp.clients :
       (\E i \in DOMAIN rtmp.conn_map : rtmp.conn_map[i] = c) \/ (\E i \in DOMAIN rtmp.pub_map : rtmp.pub_map[i] = c)
  /\ \A c \in DOMAIN rtmp.clients : rtmp.clients[c].action = "watching" => rtmp.clients[c].key \in DOMAIN rtmp.channels
  /\ OnePlay => WatchersAgree

TurnRight ==
  /\ rtmp.stage \in {"select", "end"} => rtmp.clear = {} /\ rtmp.pclear = {}
  /\ rtmp.stage \in {"pubs", "conns", "free"} => rtmp.clear \subseteq DOMAIN rtmp.conns
  /\ rtmp.stage \in {"pubs", "conns"} => rtmp.pclear \subseteq DOMAIN rtmp.pubs
  /\ rtmp.stage = "pubs" => rtmp.left \subseteq DOMAIN rtmp.pubs
  /\ rtmp.stage = "conns" => rtmp.left \subseteq DOMAIN rtmp.conns
  /\ rtmp.stage = "free" => rtmp.left \subseteq DOMAIN rtmp.pubs
  /\ rtmp.stage = "close" => rtmp.left \subseteq DOMAIN rtmp.conns
  /\ rtmp.stage \in {"select", "close", "end"} => \A i \in DOMAIN rtmp.conns : rtmp.conns[i].sent = << >>
LiveShape == LiveTypes /\ MapsAgree /\ TurnRight

-----------------------------------------------------------------------------
(* What was written and is to be written to a player *)
View(conn) == conn.log \o conn.sent
EndLast(V) == \A i \in DOMAIN V : V[i].kind = "end" => i = Len(V)
KeysApart == \A p, q \in DOMAIN rtmp.pubs : rtmp.pubs[p].key = rtmp.pubs[q].key => p = q

Watches(i) == i \in DOMAIN rtmp.conn_map /\ rtmp.clients[rtmp.conn_map[i]].action = "watching"
WatchesFrom(i) == rtmp.clients[rtmp.conn_map[i]]
SeesAll(i, V) ==
  /\ SoundView(V) /\ \A j \in DOMAIN V : V[j].early \/ V[j].pub <= rtmp.made
  /\ \A p \in DOMAIN rtmp.pubs : Below(V, rtmp.pubs[p])
  /\ ~Watches(i) => V = << >>
  /\ Watches(i) /\ WatchesFrom(i).got_key =>
       \A p \in DOMAIN rtmp.pubs : rtmp.pubs[p].key = WatchesFrom(i).key => Follows(V, rtmp.pubs[p])
  /\ Watches(i) /\ ~WatchesFrom(i).got_key => \A s : ~KeyIn(V, s)
ViewsSound ==
  \A i \in DOMAIN rtmp.conns : ~rtmp.conns[i].lossy => Decodable(rtmp.conns[i].log) /\ SeesAll(i, View(rtmp.conns[i]))

ChannelSound(k) ==
  LET ch == rtmp.channels[k]
  IN  /\ SavedSound(ch) /\ (rtmp.of.limit = 0 => ch.saved = << >>)
      /\ \A i \in DOMAIN ch.saved : ch.saved[i].pub <= rtmp.made
      /\ \A p \in DOMAIN rtmp.pubs : Below(ch.saved, rtmp.pubs[p])
      /\ \A p \in DOMAIN rtmp.pubs : rtmp.pubs[p].key = k =>
           /\ \A i \in DOMAIN ch.saved : ch.saved[i].pub <= rtmp.pubs[p].serial
           /\ rtmp.of.limit # 0 => Follows(ch.saved, rtmp.pubs[p])
ChannelsSound == \A k \in DOMAIN rtmp.channels : ChannelSound(k)

EndsRight ==
  /\ \A i \in DOMAIN rtmp.conns :
       /\ HasEnd(rtmp.conns[i].log) => rtmp.stage = "close" /\ i \in rtmp.left
       /\ HasEnd(rtmp.conns[i].sent) =>
            /\ i \in rtmp.clear /\ rtmp.stage \in {"pubs", "conns", "free"} /\ Watches(i)
            /\ rtmp.stage = "pubs" => \A p \in rtmp.left : rtmp.pubs[p].key # WatchesFrom(i).key
       /\ ~rtmp.conns[i].lossy => EndLast(View(rtmp.conns[i]))
  /\ \A e \in rtmp.ended : ~e.lossy => Decodable(e.log) /\ EndLast(e.log)
LiveFlow == KeysApart /\ ViewsSound /\ ChannelsSound /\ EndsRight
RtmpInv == LiveShape /\ (UniqueKeys /\ OnePlay => LiveFlow)

-----------------------------------------------------------------------------
LEMMA AddingFacts ==
  ASSUME NEW f, NEW id, NEW entry, NEW g, g = Adding(f, id, entry)
  PROVE  /\ DOMAIN g = DOMAIN f \cup {id} /\ g[id] = entry
         /\ \A j \in DOMAIN f : j # id => g[j] = f[j]
  BY DEF Adding
LEMMA DroppingFacts ==
  ASSUME NEW f, NEW id, NEW g, g = Dropping(f, id)
  PROVE  /\ DOMAIN g = DOMAIN f \ {id} /\ \A j \in DOMAIN g : g[j] = f[j]
  BY DEF Dropping
LEMMA NothingIn == DOMAIN NoEntry = {} BY DEF NoEntry

(* Steps that leave the slabs, the maps and the channels alone *)
SameData ==
  /\ DOMAIN rtmp' = DOMAIN rtmp /\ rtmp'.of = rtmp.of /\ rtmp'.made = rtmp.made
  /\ rtmp'.conns = rtmp.conns /\ rtmp'.pubs = rtmp.pubs /\ rtmp'.clients = rtmp.clients
  /\ rtmp'.conn_map = rtmp.conn_map /\ rtmp'.pub_map = rtmp.pub_map /\ rtmp'.channels = rtmp.channels
Moves(stage, left, clear, pclear, ended) ==
  SameData /\ rtmp'.stage = stage /\ rtmp'.left = left /\ rtmp'.clear = clear /\ rtmp'.pclear = pclear /\ rtmp'.ended = ended

LEMMA MoveFacts ==
  ASSUME LiveTypes
  PROVE  /\ NothingNew => rtmp.stage = "select" /\ Moves("pubs", DOMAIN rtmp.pubs, rtmp.clear, rtmp.pclear, {})
         /\ \A id : PublisherEmpty(id) =>
              rtmp.stage = "pubs" /\ id \in rtmp.left /\ Moves("pubs", rtmp.left \ {id}, rtmp.clear, rtmp.pclear, rtmp.ended)
         /\ \A id : PublisherFails(id) =>
              rtmp.stage = "pubs" /\ id \in rtmp.left /\ Moves("pubs", rtmp.left \ {id}, rtmp.clear, rtmp.pclear \cup {id}, rtmp.ended)
         /\ PublishersDone => rtmp.stage = "pubs" /\ Moves("conns", DOMAIN rtmp.conns, rtmp.clear, rtmp.pclear, rtmp.ended)
         /\ \A id : ConnectionQuiet(id) =>
              rtmp.stage = "conns" /\ id \in rtmp.left /\ Moves("conns", rtmp.left \ {id}, rtmp.clear, rtmp.pclear, rtmp.ended)
         /\ \A id : ConnectionFails(id) =>
              rtmp.stage = "conns" /\ id \in rtmp.left /\ Moves("conns", rtmp.left \ {id}, rtmp.clear \cup {id}, rtmp.pclear, rtmp.ended)
         /\ ConnectionsDone => rtmp.stage = "conns" /\ Moves("free", rtmp.pclear, rtmp.clear, rtmp.pclear, rtmp.ended)
         /\ TurnEnds => rtmp.stage = "close" /\ rtmp.left = {} /\ Moves("select", {}, {}, {}, rtmp.ended)
<1>0. DOMAIN rtmp = {"of", "stage", "left", "conns", "pubs", "clients", "conn_map", "pub_map", "channels", "clear", "pclear",
                     "made", "sockets", "ended"} BY DEF LiveTypes
<1>1. ASSUME NothingNew PROVE rtmp.stage = "select" /\ Moves("pubs", DOMAIN rtmp.pubs, rtmp.clear, rtmp.pclear, {})
  BY <1>0, <1>1 DEF NothingNew, StartTurn, Moves, SameData
<1>2. ASSUME NEW id, PublisherEmpty(id)
      PROVE  rtmp.stage = "pubs" /\ id \in rtmp.left /\ Moves("pubs", rtmp.left \ {id}, rtmp.clear, rtmp.pclear, rtmp.ended)
  BY <1>0, <1>2 DEF PublisherEmpty, LooksAt, Past, Moves, SameData
<1>3. ASSUME NEW id, PublisherFails(id)
      PROVE  rtmp.stage = "pubs" /\ id \in rtmp.left /\ Moves("pubs", rtmp.left \ {id}, rtmp.clear, rtmp.pclear \cup {id}, rtmp.ended)
  BY <1>0, <1>3 DEF PublisherFails, LooksAt, Past, Moves, SameData
<1>4. ASSUME PublishersDone
      PROVE  rtmp.stage = "pubs" /\ Moves("conns", DOMAIN rtmp.conns, rtmp.clear, rtmp.pclear, rtmp.ended)
  BY <1>0, <1>4 DEF PublishersDone, Onward, Moves, SameData
<1>5. ASSUME NEW id, ConnectionQuiet(id)
      PROVE  rtmp.stage = "conns" /\ id \in rtmp.left /\ Moves("conns", rtmp.left \ {id}, rtmp.clear, rtmp.pclear, rtmp.ended)
  BY <1>0, <1>5 DEF ConnectionQuiet, LooksAt, Past, Moves, SameData
<1>6. ASSUME NEW id, ConnectionFails(id)
      PROVE  rtmp.stage = "conns" /\ id \in rtmp.left /\ Moves("conns", rtmp.left \ {id}, rtmp.clear \cup {id}, rtmp.pclear, rtmp.ended)
  BY <1>0, <1>6 DEF ConnectionFails, LooksAt, Past, Moves, SameData
<1>7. ASSUME ConnectionsDone PROVE rtmp.stage = "conns" /\ Moves("free", rtmp.pclear, rtmp.clear, rtmp.pclear, rtmp.ended)
  BY <1>0, <1>7 DEF ConnectionsDone, Onward, Moves, SameData
<1>8. ASSUME TurnEnds PROVE rtmp.stage = "close" /\ rtmp.left = {} /\ Moves("select", {}, {}, {}, rtmp.ended)
  <2>1. rtmp.stage = "close" /\ rtmp.left = {} /\ rtmp' = [rtmp EXCEPT !.stage = "select", !.clear = {}, !.pclear = {}]
    BY <1>8 DEF TurnEnds
  <2> QED BY <1>0, <2>1 DEF Moves, SameData
<1> QED BY <1>1, <1>2, <1>3, <1>4, <1>5, <1>6, <1>7, <1>8

LEMMA SameDataKeeps ==
  ASSUME SameData
  PROVE  /\ LiveTypes => LiveTypes'
         /\ MapsAgree => MapsAgree'
         /\ KeysApart => KeysApart'
         /\ ViewsSound => ViewsSound'
         /\ ChannelsSound => ChannelsSound'
         /\ \A i : Watches(i)' = Watches(i) /\ WatchesFrom(i)' = WatchesFrom(i)
<1>1. LiveTypes => LiveTypes' BY DEF SameData, LiveTypes
<1>2. MapsAgree => MapsAgree' BY DEF SameData, MapsAgree, WatchersAgree
<1>3. KeysApart => KeysApart' BY DEF SameData, KeysApart
<1>4. \A i : Watches(i)' = Watches(i) /\ WatchesFrom(i)' = WatchesFrom(i) BY DEF SameData, Watches, WatchesFrom
<1>5. ViewsSound => ViewsSound'
  <2> SUFFICES ASSUME ViewsSound, NEW i \in DOMAIN rtmp.conns, ~rtmp.conns[i].lossy
               PROVE  Decodable(rtmp.conns[i].log) /\ SeesAll(i, View(rtmp.conns[i]))'
    BY DEF ViewsSound, SameData
  <2>1. Decodable(rtmp.conns[i].log) /\ SeesAll(i, View(rtmp.conns[i])) BY DEF ViewsSound
  <2> QED BY <1>4, <2>1 DEF SeesAll, SameData
<1>6. ChannelsSound => ChannelsSound' BY DEF SameData, ChannelsSound, ChannelSound
<1> QED BY <1>1, <1>2, <1>3, <1>4, <1>5, <1>6

LEMMA MoveStep ==
  ASSUME RtmpInv, NothingNew \/ PublishersDone \/ ConnectionsDone \/ TurnEnds
                  \/ \E id : PublisherEmpty(id) \/ PublisherFails(id) \/ ConnectionQuiet(id) \/ ConnectionFails(id)
  PROVE  RtmpInv'
<1>0. LiveTypes /\ MapsAgree /\ TurnRight BY DEF RtmpInv, LiveShape
<1>1. PICK stage, left, clear, pclear, ended :
        /\ Moves(stage, left, clear, pclear, ended)
        /\ \/ /\ rtmp.stage = "select" /\ stage = "pubs" /\ left = DOMAIN rtmp.pubs /\ clear = rtmp.clear /\ pclear = rtmp.pclear
              /\ ended = {}
           \/ /\ rtmp.stage = "pubs" /\ stage = "pubs" /\ left \subseteq rtmp.left /\ clear = rtmp.clear
              /\ pclear \subseteq rtmp.pclear \cup rtmp.left /\ ended = rtmp.ended
           \/ /\ rtmp.stage = "pubs" /\ stage = "conns" /\ left = DOMAIN rtmp.conns /\ clear = rtmp.clear /\ pclear = rtmp.pclear
              /\ ended = rtmp.ended
           \/ /\ rtmp.stage = "conns" /\ stage = "conns" /\ left \subseteq rtmp.left
              /\ rtmp.clear \subseteq clear /\ clear \subseteq rtmp.clear \cup rtmp.left
              /\ pclear = rtmp.pclear /\ ended = rtmp.ended
           \/ /\ rtmp.stage = "conns" /\ stage = "free" /\ left = rtmp.pclear /\ clear = rtmp.clear /\ pclear = rtmp.pclear
              /\ ended = rtmp.ended
           \/ /\ rtmp.stage = "close" /\ rtmp.left = {} /\ stage = "select" /\ clear = {} /\ pclear = {} /\ ended = rtmp.ended
  <2> USE <1>0
  <2>1. CASE NothingNew BY <2>1, MoveFacts
  <2>2. CASE PublishersDone BY <2>2, MoveFacts
  <2>3. CASE ConnectionsDone BY <2>3, MoveFacts
  <2>4. CASE TurnEnds BY <2>4, MoveFacts
  <2>5. ASSUME NEW id, PublisherEmpty(id) PROVE Moves("pubs", rtmp.left \ {id}, rtmp.clear, rtmp.pclear, rtmp.ended) /\ rtmp.stage = "pubs"
    BY <2>5, MoveFacts
  <2>6. ASSUME NEW id, PublisherFails(id)
        PROVE  Moves("pubs", rtmp.left \ {id}, rtmp.clear, rtmp.pclear \cup {id}, rtmp.ended) /\ rtmp.stage = "pubs" /\ id \in rtmp.left
    BY <2>6, MoveFacts
  <2>7. ASSUME NEW id, ConnectionQuiet(id) PROVE Moves("conns", rtmp.left \ {id}, rtmp.clear, rtmp.pclear, rtmp.ended) /\ rtmp.stage = "conns"
    BY <2>7, MoveFacts
  <2>8. ASSUME NEW id, ConnectionFails(id)
        PROVE  Moves("conns", rtmp.left \ {id}, rtmp.clear \cup {id}, rtmp.pclear, rtmp.ended) /\ rtmp.stage = "conns" /\ id \in rtmp.left
    BY <2>8, MoveFacts
  <2>9. CASE \E id : PublisherEmpty(id)
    <3>1. PICK id : PublisherEmpty(id) BY <2>9
    <3>2. Moves("pubs", rtmp.left \ {id}, rtmp.clear, rtmp.pclear, rtmp.ended) /\ rtmp.stage = "pubs" BY <2>5, <3>1
    <3> WITNESS "pubs", rtmp.left \ {id}, rtmp.clear, rtmp.pclear, rtmp.ended
    <3> QED BY <3>2
  <2>10. CASE \E id : PublisherFails(id)
    <3>1. PICK id : PublisherFails(id) BY <2>10
    <3>2. Moves("pubs", rtmp.left \ {id}, rtmp.clear, rtmp.pclear \cup {id}, rtmp.ended) /\ rtmp.stage = "pubs" /\ id \in rtmp.left BY <2>6, <3>1
    <3> WITNESS "pubs", rtmp.left \ {id}, rtmp.clear, rtmp.pclear \cup {id}, rtmp.ended
    <3> QED BY <3>2
  <2>11. CASE \E id : ConnectionQuiet(id)
    <3>1. PICK id : ConnectionQuiet(id) BY <2>11
    <3>2. Moves("conns", rtmp.left \ {id}, rtmp.clear, rtmp.pclear, rtmp.ended) /\ rtmp.stage = "conns" BY <2>7, <3>1
    <3> WITNESS "conns", rtmp.left \ {id}, rtmp.clear, rtmp.pclear, rtmp.ended
    <3> QED BY <3>2
  <2>12. CASE \E id : ConnectionFails(id)
    <3>1. PICK id : ConnectionFails(id) BY <2>12
    <3>2. Moves("conns", rtmp.left \ {id}, rtmp.clear \cup {id}, rtmp.pclear, rtmp.ended) /\ rtmp.stage = "conns" /\ id \in rtmp.left BY <2>8, <3>1
    <3> WITNESS "conns", rtmp.left \ {id}, rtmp.clear \cup {id}, rtmp.pclear, rtmp.ended
    <3> QED BY <3>2
  <2> QED BY <2>1, <2>2, <2>3, <2>4, <2>9, <2>10, <2>11, <2>12
<1>2. /\ SameData /\ rtmp'.stage = stage /\ rtmp'.left = left /\ rtmp'.clear = clear /\ rtmp'.pclear = pclear /\ rtmp'.ended = ended
      /\ rtmp'.conns = rtmp.conns /\ rtmp'.pubs = rtmp.pubs
  BY <1>1 DEF Moves, SameData
<1>3. LiveTypes' /\ MapsAgree' BY <1>0, <1>2, SameDataKeeps
<1>4. TurnRight' BY <1>0, <1>1, <1>2 DEF TurnRight
<1>5. ASSUME UniqueKeys /\ OnePlay PROVE LiveFlow'
  <2>0. KeysApart /\ ViewsSound /\ ChannelsSound /\ EndsRight BY <1>5 DEF RtmpInv, LiveFlow
  <2>1. KeysApart' /\ ViewsSound' /\ ChannelsSound' BY <1>2, <2>0, SameDataKeeps
  <2>2. \A i : Watches(i)' = Watches(i) /\ WatchesFrom(i)' = WatchesFrom(i) BY <1>2, SameDataKeeps
  <2>3. \A i \in DOMAIN rtmp.conns : HasEnd(rtmp.conns[i].sent) => rtmp.conns[i].sent # << >> BY DEF HasEnd
  <2>4. EndsRight'
    <3>1. \A e \in rtmp'.ended : ~e.lossy => Decodable(e.log) /\ EndLast(e.log) BY <1>1, <1>2, <2>0 DEF EndsRight
    <3>2. ASSUME NEW i \in DOMAIN rtmp.conns
          PROVE  /\ HasEnd(rtmp.conns[i].log) => stage = "close" /\ i \in left
                 /\ HasEnd(rtmp.conns[i].sent) =>
                      /\ i \in clear /\ stage \in {"pubs", "conns", "free"} /\ Watches(i)
                      /\ stage = "pubs" => \A p \in left : rtmp.pubs[p].key # WatchesFrom(i).key
                 /\ ~rtmp.conns[i].lossy => EndLast(View(rtmp.conns[i]))
      <4>1. /\ HasEnd(rtmp.conns[i].log) => rtmp.stage = "close" /\ i \in rtmp.left
            /\ HasEnd(rtmp.conns[i].sent) =>
                 /\ i \in rtmp.clear /\ rtmp.stage \in {"pubs", "conns", "free"} /\ Watches(i)
                 /\ rtmp.stage = "pubs" => \A p \in rtmp.left : rtmp.pubs[p].key # WatchesFrom(i).key
            /\ ~rtmp.conns[i].lossy => EndLast(View(rtmp.conns[i]))
        BY <2>0 DEF EndsRight
      <4> QED BY <1>1, <4>1
    <3> QED BY <1>2, <2>2, <3>1, <3>2 DEF EndsRight
  <2> QED BY <2>1, <2>4 DEF LiveFlow
<1> QED BY <1>3, <1>4, <1>5 DEF RtmpInv, LiveShape

LEMMA RtmpInvInit == RtmpInit => RtmpInv
<1> SUFFICES ASSUME RtmpInit PROVE RtmpInv OBVIOUS
<1>1. PICK of \in RtmpCases :
        rtmp = [of |-> of, stage |-> "select", left |-> {}, conns |-> NoEntry, pubs |-> NoEntry, clients |-> NoEntry,
                conn_map |-> NoEntry, pub_map |-> NoEntry, channels |-> NoEntry, clear |-> {}, pclear |-> {},
                made |-> 0, sockets |-> 0, ended |-> {}]
  BY DEF RtmpInit, NewRtmps
<1>2. /\ DOMAIN rtmp = {"of", "stage", "left", "conns", "pubs", "clients", "conn_map", "pub_map", "channels", "clear", "pclear",
                        "made", "sockets", "ended"}
      /\ rtmp.of = of /\ rtmp.stage = "select" /\ rtmp.made = 0 /\ rtmp.ended = {} /\ rtmp.clear = {} /\ rtmp.pclear = {}
      /\ rtmp.conns = NoEntry /\ rtmp.pubs = NoEntry /\ rtmp.clients = NoEntry
      /\ rtmp.conn_map = NoEntry /\ rtmp.pub_map = NoEntry /\ rtmp.channels = NoEntry
  BY <1>1
<1>3. LiveTypes BY <1>2, NothingIn DEF LiveTypes
<1>4. MapsAgree BY <1>2, NothingIn DEF MapsAgree, WatchersAgree
<1>5. TurnRight BY <1>2, NothingIn DEF TurnRight
<1>6. LiveFlow BY <1>2, NothingIn DEF LiveFlow, KeysApart, ViewsSound, ChannelsSound, EndsRight
<1> QED BY <1>3, <1>4, <1>5, <1>6 DEF RtmpInv, LiveShape

LEMMA StopStep == ASSUME RtmpInv, StopServer PROVE RtmpInv'
<1>0. LiveTypes /\ TurnRight BY DEF RtmpInv, LiveShape
<1>1. rtmp.stage = "select" /\ rtmp' = [rtmp EXCEPT !.stage = "end", !.conns = NoEntry, !.pubs = NoEntry, !.clients = NoEntry,
                          !.conn_map = NoEntry, !.pub_map = NoEntry, !.channels = NoEntry, !.ended = {}]
  BY DEF StopServer
<1>2. /\ DOMAIN rtmp' = {"of", "stage", "left", "conns", "pubs", "clients", "conn_map", "pub_map", "channels", "clear", "pclear",
                        "made", "sockets", "ended"}
      /\ rtmp'.of = rtmp.of /\ rtmp'.stage = "end" /\ rtmp'.made = rtmp.made /\ rtmp'.ended = {}
      /\ rtmp'.clear = rtmp.clear /\ rtmp'.pclear = rtmp.pclear
      /\ rtmp'.conns = NoEntry /\ rtmp'.pubs = NoEntry /\ rtmp'.clients = NoEntry
      /\ rtmp'.conn_map = NoEntry /\ rtmp'.pub_map = NoEntry /\ rtmp'.channels = NoEntry
  BY <1>0, <1>1 DEF LiveTypes
<1>3. LiveTypes' BY <1>0, <1>2, NothingIn DEF LiveTypes
<1>4. MapsAgree' BY <1>2, NothingIn DEF MapsAgree, WatchersAgree
<1>5. TurnRight' BY <1>0, <1>1, <1>2, NothingIn DEF TurnRight
<1>6. LiveFlow' BY <1>2, NothingIn DEF LiveFlow, KeysApart, ViewsSound, ChannelsSound, EndsRight
<1> QED BY <1>3, <1>4, <1>5, <1>6 DEF RtmpInv, LiveShape

-----------------------------------------------------------------------------
(* The new ones: connections, publishers, players *)
LEMMA EmptyView ==
  /\ << >> \in Seq(Packets) /\ SoundView(<< >>) /\ Decodable(<< >>) /\ EndLast(<< >>) /\ ~HasEnd(<< >>)
  /\ \A p : Below(<< >>, p) /\ \A s : ~KeyIn(<< >>, s)
  /\ AllFrames(<< >>) /\ PubsInOrder(<< >>)
<1>1. DOMAIN << >> = {} /\ << >> \in Seq(Packets) OBVIOUS
<1>2. SoundView(<< >>) BY <1>1 DEF SoundView, InterKeyed, Rising, Linked, EndsMatch
<1>3. Decodable(<< >>) BY <1>1, <1>2, SoundDecodable
<1> QED BY <1>1, <1>2, <1>3 DEF EndLast, HasEnd, Below, KeyIn, AllFrames, PubsInOrder

LEMMA ConnectionFacts ==
  ASSUME LiveTypes, NEW id, NewConnection(id)
  PROVE  /\ rtmp.stage = "select" /\ id \notin DOMAIN rtmp.conns
         /\ DOMAIN rtmp' = DOMAIN rtmp /\ rtmp'.of = rtmp.of /\ rtmp'.made = rtmp.made
         /\ DOMAIN rtmp'.conns = DOMAIN rtmp.conns \cup {id} /\ \A i \in DOMAIN rtmp.conns : rtmp'.conns[i] = rtmp.conns[i]
         /\ rtmp'.conns[id] = [open |-> FALSE, log |-> << >>, sent |-> << >>, lossy |-> FALSE]
         /\ rtmp'.pubs = rtmp.pubs /\ rtmp'.clients = rtmp.clients /\ rtmp'.channels = rtmp.channels
         /\ rtmp'.conn_map = rtmp.conn_map /\ rtmp'.pub_map = rtmp.pub_map
         /\ rtmp'.stage = "pubs" /\ rtmp'.left = DOMAIN rtmp.pubs /\ rtmp'.clear = rtmp.clear /\ rtmp'.pclear = rtmp.pclear
         /\ rtmp'.ended = {}
<1> DEFINE conn == [open |-> FALSE, log |-> << >>, sent |-> << >>, lossy |-> FALSE]
           conns == Adding(rtmp.conns, id, conn)
<1>1. rtmp.stage = "select" /\ id \notin DOMAIN rtmp.conns BY DEF NewConnection, Vacant
<1>2. rtmp' = [[rtmp EXCEPT !.conns = conns, !.sockets = @ + 1] EXCEPT !.stage = "pubs", !.left = DOMAIN rtmp.pubs, !.ended = {}]
  <2>1. rtmp' = StartTurn([rtmp EXCEPT !.conns = conns, !.sockets = @ + 1]) BY DEF NewConnection
  <2>2. [rtmp EXCEPT !.conns = conns, !.sockets = @ + 1].pubs = rtmp.pubs BY DEF LiveTypes
  <2> HIDE DEF conns
  <2> QED BY <2>1, <2>2 DEF StartTurn
<1>3. /\ DOMAIN conns = DOMAIN rtmp.conns \cup {id} /\ conns[id] = conn
      /\ \A j \in DOMAIN rtmp.conns : j # id => conns[j] = rtmp.conns[j]
  BY DEF Adding
<1> HIDE DEF conns
<1>4. DOMAIN rtmp = {"of", "stage", "left", "conns", "pubs", "clients", "conn_map", "pub_map", "channels", "clear", "pclear",
                     "made", "sockets", "ended"} BY DEF LiveTypes
<1>5. rtmp'.conns = conns BY <1>2, <1>4
<1> QED BY <1>1, <1>2, <1>3, <1>4, <1>5

LEMMA ConnectionStep == ASSUME RtmpInv, NEW id, NewConnection(id) PROVE RtmpInv'
<1>0. LiveTypes /\ MapsAgree /\ TurnRight BY DEF RtmpInv, LiveShape
<1>1. /\ rtmp.stage = "select" /\ id \notin DOMAIN rtmp.conns
      /\ DOMAIN rtmp' = DOMAIN rtmp /\ rtmp'.of = rtmp.of /\ rtmp'.made = rtmp.made
      /\ DOMAIN rtmp'.conns = DOMAIN rtmp.conns \cup {id} /\ \A i \in DOMAIN rtmp.conns : rtmp'.conns[i] = rtmp.conns[i]
      /\ rtmp'.conns[id] = [open |-> FALSE, log |-> << >>, sent |-> << >>, lossy |-> FALSE]
      /\ rtmp'.pubs = rtmp.pubs /\ rtmp'.clients = rtmp.clients /\ rtmp'.channels = rtmp.channels
      /\ rtmp'.conn_map = rtmp.conn_map /\ rtmp'.pub_map = rtmp.pub_map
      /\ rtmp'.stage = "pubs" /\ rtmp'.left = DOMAIN rtmp.pubs /\ rtmp'.clear = rtmp.clear /\ rtmp'.pclear = rtmp.pclear
      /\ rtmp'.ended = {}
  BY <1>0, ConnectionFacts
<1>2. /\ IsConn(rtmp'.conns[id]) /\ rtmp'.conns[id].log = << >> /\ rtmp'.conns[id].sent = << >>
      /\ rtmp'.conns[id].open = FALSE /\ View(rtmp'.conns[id]) = << >>
  BY <1>1 DEF IsConn, View
<1>3. LiveTypes' BY <1>0, <1>1, <1>2 DEF LiveTypes
<1>4. MapsAgree'
  <2>1. DOMAIN rtmp.conn_map = {i \in DOMAIN rtmp'.conns : rtmp'.conns[i].open}
    BY <1>0, <1>1, <1>2 DEF MapsAgree
  <2> QED BY <1>0, <1>1, <2>1 DEF MapsAgree, WatchersAgree
<1>5. TurnRight' BY <1>0, <1>1, <1>2 DEF TurnRight
<1>6. ASSUME UniqueKeys /\ OnePlay PROVE LiveFlow'
  <2>0. KeysApart /\ ViewsSound /\ ChannelsSound /\ EndsRight BY <1>6 DEF RtmpInv, LiveFlow
  <2>1. KeysApart' BY <1>1, <2>0 DEF KeysApart
  <2>2. ChannelsSound' BY <1>1, <2>0 DEF ChannelsSound, ChannelSound
  <2>3. \A i : Watches(i)' = Watches(i) /\ WatchesFrom(i)' = WatchesFrom(i) BY <1>1 DEF Watches, WatchesFrom
  <2>4. ~Watches(id) BY <1>0, <1>1 DEF MapsAgree, Watches
  <2>5. ViewsSound'
    <3> SUFFICES ASSUME NEW i \in DOMAIN rtmp'.conns, ~rtmp'.conns[i].lossy
                 PROVE  (Decodable(rtmp.conns[i].log) /\ SeesAll(i, View(rtmp.conns[i])))'
      BY DEF ViewsSound
    <3>1. CASE i = id BY <1>1, <1>2, <2>3, <2>4, <3>1, EmptyView DEF SeesAll
    <3>2. CASE i \in DOMAIN rtmp.conns
      <4>1. Decodable(rtmp.conns[i].log) /\ SeesAll(i, View(rtmp.conns[i])) BY <1>1, <2>0, <3>2 DEF ViewsSound
      <4> QED BY <1>1, <2>3, <3>2, <4>1 DEF SeesAll
    <3> QED BY <1>1, <3>1, <3>2
  <2>6. \A i \in DOMAIN rtmp.conns : ~HasEnd(rtmp.conns[i].sent) /\ ~HasEnd(rtmp.conns[i].log)
    BY <1>0, <1>1, <2>0, EmptyView DEF TurnRight, EndsRight
  <2>7. EndsRight'
    <3>1. ASSUME NEW i \in DOMAIN rtmp'.conns
          PROVE  /\ ~HasEnd(rtmp'.conns[i].log) /\ ~HasEnd(rtmp'.conns[i].sent)
                 /\ ~rtmp'.conns[i].lossy => EndLast(View(rtmp'.conns[i]))
      <4>1. CASE i = id BY <1>2, <4>1, EmptyView
      <4>2. CASE i \in DOMAIN rtmp.conns BY <1>1, <2>0, <2>6, <4>2 DEF EndsRight
      <4> QED BY <1>1, <4>1, <4>2
    <3> QED BY <1>1, <3>1 DEF EndsRight
  <2> QED BY <2>1, <2>2, <2>5, <2>7 DEF LiveFlow
<1> QED BY <1>3, <1>4, <1>5, <1>6 DEF RtmpInv, LiveShape

LEMMA HandshakeFacts ==
  ASSUME LiveTypes, NEW id, NEW c, HandshakeDone(id, c), id \in DOMAIN rtmp.conns
  PROVE  /\ rtmp.stage = "conns" /\ ~rtmp.conns[id].open /\ c \notin DOMAIN rtmp.clients
         /\ DOMAIN rtmp' = DOMAIN rtmp /\ rtmp'.of = rtmp.of /\ rtmp'.made = rtmp.made
         /\ DOMAIN rtmp'.conns = DOMAIN rtmp.conns /\ \A i \in DOMAIN rtmp.conns : i # id => rtmp'.conns[i] = rtmp.conns[i]
         /\ rtmp'.conns[id] = [rtmp.conns[id] EXCEPT !.open = TRUE]
         /\ rtmp'.pubs = rtmp.pubs /\ rtmp'.channels = rtmp.channels /\ rtmp'.pub_map = rtmp.pub_map
         /\ DOMAIN rtmp'.clients = DOMAIN rtmp.clients \cup {c}
         /\ rtmp'.clients[c] = [action |-> "waiting", key |-> "", conn |-> id, got_key |-> FALSE]
         /\ \A d \in DOMAIN rtmp.clients : rtmp'.clients[d] = rtmp.clients[d]
         /\ DOMAIN rtmp'.conn_map = DOMAIN rtmp.conn_map \cup {id} /\ rtmp'.conn_map[id] = c
         /\ \A i \in DOMAIN rtmp.conn_map : i # id => rtmp'.conn_map[i] = rtmp.conn_map[i]
         /\ rtmp'.stage = "conns" /\ rtmp'.left = rtmp.left /\ rtmp'.clear = rtmp.clear /\ rtmp'.pclear = rtmp.pclear
         /\ rtmp'.ended = rtmp.ended
<1> DEFINE conns == [rtmp.conns EXCEPT ![id] = [@ EXCEPT !.open = TRUE]]
           clients == Adding(rtmp.clients, c, [action |-> "waiting", key |-> "", conn |-> id, got_key |-> FALSE])
           map == Adding(rtmp.conn_map, id, c)
<1>1. rtmp.stage = "conns" /\ ~rtmp.conns[id].open /\ c \notin DOMAIN rtmp.clients BY DEF HandshakeDone, LooksAt, Vacant
<1>2. rtmp' = [rtmp EXCEPT !.conns = conns, !.clients = clients, !.conn_map = map] BY DEF HandshakeDone
<1>3. /\ DOMAIN clients = DOMAIN rtmp.clients \cup {c}
      /\ clients[c] = [action |-> "waiting", key |-> "", conn |-> id, got_key |-> FALSE]
      /\ \A d \in DOMAIN rtmp.clients : d # c => clients[d] = rtmp.clients[d]
  BY DEF Adding
<1>4. /\ DOMAIN map = DOMAIN rtmp.conn_map \cup {id} /\ map[id] = c
      /\ \A i \in DOMAIN rtmp.conn_map : i # id => map[i] = rtmp.conn_map[i]
  BY DEF Adding
<1>5. /\ DOMAIN conns = DOMAIN rtmp.conns /\ conns[id] = [rtmp.conns[id] EXCEPT !.open = TRUE]
      /\ \A i \in DOMAIN rtmp.conns : i # id => conns[i] = rtmp.conns[i]
  OBVIOUS
<1> HIDE DEF conns, clients, map
<1>6. DOMAIN rtmp = {"of", "stage", "left", "conns", "pubs", "clients", "conn_map", "pub_map", "channels", "clear", "pclear",
                     "made", "sockets", "ended"} BY DEF LiveTypes
<1>7. rtmp'.conns = conns /\ rtmp'.clients = clients /\ rtmp'.conn_map = map BY <1>2, <1>6
<1> QED BY <1>1, <1>2, <1>3, <1>4, <1>5, <1>6, <1>7

LEMMA HandshakeStep == ASSUME RtmpInv, NEW id \in rtmp.left, NEW c, HandshakeDone(id, c) PROVE RtmpInv'
<1>0. LiveTypes /\ MapsAgree /\ TurnRight BY DEF RtmpInv, LiveShape
<1>a. id \in DOMAIN rtmp.conns BY <1>0 DEF TurnRight, HandshakeDone, LooksAt
<1>1. /\ rtmp.stage = "conns" /\ ~rtmp.conns[id].open /\ c \notin DOMAIN rtmp.clients
      /\ DOMAIN rtmp' = DOMAIN rtmp /\ rtmp'.of = rtmp.of /\ rtmp'.made = rtmp.made
      /\ DOMAIN rtmp'.conns = DOMAIN rtmp.conns /\ \A i \in DOMAIN rtmp.conns : i # id => rtmp'.conns[i] = rtmp.conns[i]
      /\ rtmp'.conns[id] = [rtmp.conns[id] EXCEPT !.open = TRUE]
      /\ rtmp'.pubs = rtmp.pubs /\ rtmp'.channels = rtmp.channels /\ rtmp'.pub_map = rtmp.pub_map
      /\ DOMAIN rtmp'.clients = DOMAIN rtmp.clients \cup {c}
      /\ rtmp'.clients[c] = [action |-> "waiting", key |-> "", conn |-> id, got_key |-> FALSE]
      /\ \A d \in DOMAIN rtmp.clients : rtmp'.clients[d] = rtmp.clients[d]
      /\ DOMAIN rtmp'.conn_map = DOMAIN rtmp.conn_map \cup {id} /\ rtmp'.conn_map[id] = c
      /\ \A i \in DOMAIN rtmp.conn_map : i # id => rtmp'.conn_map[i] = rtmp.conn_map[i]
      /\ rtmp'.stage = "conns" /\ rtmp'.left = rtmp.left /\ rtmp'.clear = rtmp.clear /\ rtmp'.pclear = rtmp.pclear
      /\ rtmp'.ended = rtmp.ended
  BY <1>0, <1>a, HandshakeFacts
<1>2. /\ IsConn(rtmp.conns[id]) /\ IsConn(rtmp'.conns[id]) /\ rtmp'.conns[id].open = TRUE
      /\ rtmp'.conns[id].log = rtmp.conns[id].log /\ rtmp'.conns[id].sent = rtmp.conns[id].sent
      /\ rtmp'.conns[id].lossy = rtmp.conns[id].lossy /\ View(rtmp'.conns[id]) = View(rtmp.conns[id])
  <2>1. IsConn(rtmp.conns[id]) BY <1>0, <1>a DEF LiveTypes
  <2> QED BY <1>1, <2>1 DEF IsConn, View
<1>3. IsClient(rtmp'.clients[c]) /\ rtmp'.clients[c].action = "waiting" /\ rtmp'.clients[c].conn = id
  <2>1. rtmp'.clients[c] = [action |-> "waiting", key |-> "", conn |-> id, got_key |-> FALSE] BY <1>1
  <2> DEFINE client == rtmp'.clients[c]
  <2>2. /\ DOMAIN client = {"action", "key", "conn", "got_key"} /\ client.got_key = FALSE
        /\ client.action = "waiting" /\ client.conn = id
    <3>1. client = [action |-> "waiting", key |-> "", conn |-> id, got_key |-> FALSE] BY <2>1
    <3> HIDE DEF client
    <3> QED BY ONLY <3>1
  <2> HIDE DEF client
  <2>3. IsClient(client) BY ONLY <2>2 DEF IsClient
  <2> QED BY <2>2, <2>3 DEF client
<1>b. /\ c \notin DOMAIN rtmp.clients /\ rtmp'.pubs = rtmp.pubs /\ rtmp'.pub_map = rtmp.pub_map
      /\ DOMAIN rtmp'.clients = DOMAIN rtmp.clients \cup {c} /\ \A d \in DOMAIN rtmp.clients : rtmp'.clients[d] = rtmp.clients[d]
      /\ DOMAIN rtmp'.conn_map = DOMAIN rtmp.conn_map \cup {id} /\ rtmp'.conn_map[id] = c
      /\ \A i \in DOMAIN rtmp.conn_map : i # id => rtmp'.conn_map[i] = rtmp.conn_map[i]
      /\ rtmp'.channels = rtmp.channels
  BY <1>1
<1>c. /\ \A i \in DOMAIN rtmp.conn_map :
           /\ rtmp.conn_map[i] \in DOMAIN rtmp.clients /\ rtmp.clients[rtmp.conn_map[i]].conn = i
           /\ rtmp.clients[rtmp.conn_map[i]].action \in {"waiting", "watching"}
      /\ \A i \in DOMAIN rtmp.pub_map :
           /\ rtmp.pub_map[i] \in DOMAIN rtmp.clients /\ rtmp.clients[rtmp.pub_map[i]].conn = i
           /\ rtmp.clients[rtmp.pub_map[i]].action = "publishing"
           /\ rtmp.clients[rtmp.pub_map[i]].key = rtmp.pubs[i].key /\ rtmp.pubs[i].key \in DOMAIN rtmp.channels
  BY <1>0 DEF MapsAgree
<1>4. LiveTypes'
  <2>1. \A d \in DOMAIN rtmp'.clients : IsClient(rtmp'.clients[d]) BY <1>0, <1>b, <1>3 DEF LiveTypes
  <2>2. \A i \in DOMAIN rtmp'.conns : IsConn(rtmp'.conns[i]) BY <1>0, <1>1, <1>2 DEF LiveTypes
  <2>3. DOMAIN rtmp' = DOMAIN rtmp /\ rtmp'.of = rtmp.of /\ rtmp'.made = rtmp.made BY <1>1
  <2> QED BY <1>0, <1>b, <2>1, <2>2, <2>3 DEF LiveTypes
<1>5. id \notin DOMAIN rtmp.conn_map BY <1>0, <1>1 DEF MapsAgree
<1>6. MapsAgree'
  <2>1. DOMAIN rtmp'.conn_map = {i \in DOMAIN rtmp'.conns : rtmp'.conns[i].open}
    <3>1. DOMAIN rtmp.conn_map = {i \in DOMAIN rtmp.conns : rtmp.conns[i].open} BY <1>0 DEF MapsAgree
    <3> QED BY <1>a, <1>1, <1>2, <3>1
  <2>2. \A i \in DOMAIN rtmp'.conn_map :
          /\ rtmp'.conn_map[i] \in DOMAIN rtmp'.clients /\ rtmp'.clients[rtmp'.conn_map[i]].conn = i
          /\ rtmp'.clients[rtmp'.conn_map[i]].action \in {"waiting", "watching"}
    BY <1>b, <1>c, <1>3, <1>5
  <2>3. \A i \in DOMAIN rtmp'.pub_map :
          /\ rtmp'.pub_map[i] \in DOMAIN rtmp'.clients /\ rtmp'.clients[rtmp'.pub_map[i]].conn = i
          /\ rtmp'.clients[rtmp'.pub_map[i]].action = "publishing"
          /\ rtmp'.clients[rtmp'.pub_map[i]].key = rtmp'.pubs[i].key /\ rtmp'.pubs[i].key \in DOMAIN rtmp'.channels
    BY <1>b, <1>c
  <2>4. ASSUME NEW d \in DOMAIN rtmp'.clients
        PROVE  (\E i \in DOMAIN rtmp'.conn_map : rtmp'.conn_map[i] = d) \/ (\E i \in DOMAIN rtmp'.pub_map : rtmp'.pub_map[i] = d)
    <3>1. CASE d = c BY <1>b, <3>1
    <3>2. CASE d \in DOMAIN rtmp.clients
      <4>1. (\E i \in DOMAIN rtmp.conn_map : rtmp.conn_map[i] = d) \/ (\E i \in DOMAIN rtmp.pub_map : rtmp.pub_map[i] = d)
        BY <1>0, <3>2 DEF MapsAgree
      <4> QED BY <1>b, <1>5, <4>1
    <3> QED BY <1>b, <3>1, <3>2
  <2>5. ASSUME OnePlay PROVE WatchersAgree'
    <3>1. WatchersAgree BY <1>0, <2>5 DEF MapsAgree
    <3>2. ASSUME NEW k \in DOMAIN rtmp.channels
          PROVE  rtmp.channels[k].watchers
                   = {d \in DOMAIN rtmp'.clients : rtmp'.clients[d].action = "watching" /\ rtmp'.clients[d].key = k}
      BY <1>b, <1>3, <3>1 DEF WatchersAgree
    <3> QED BY <1>b, <3>2 DEF WatchersAgree
  <2>6. DOMAIN rtmp'.pub_map = DOMAIN rtmp'.pubs BY <1>0, <1>1 DEF MapsAgree
  <2>7. \A d \in DOMAIN rtmp'.clients : rtmp'.clients[d].action = "watching" => rtmp'.clients[d].key \in DOMAIN rtmp'.channels
    BY <1>0, <1>b, <1>3 DEF MapsAgree
  <2> QED BY <2>1, <2>2, <2>3, <2>4, <2>5, <2>6, <2>7 DEF MapsAgree
<1>7. TurnRight' BY <1>0, <1>1 DEF TurnRight
<1>8. ASSUME UniqueKeys /\ OnePlay PROVE LiveFlow'
  <2>0. KeysApart /\ ViewsSound /\ ChannelsSound /\ EndsRight BY <1>8 DEF RtmpInv, LiveFlow
  <2>1. KeysApart' BY <1>1, <2>0 DEF KeysApart
  <2>2. ChannelsSound' BY <1>1, <2>0 DEF ChannelsSound, ChannelSound
  <2>3. \A i : i # id => Watches(i)' = Watches(i) /\ (Watches(i) => WatchesFrom(i)' = WatchesFrom(i))
    <3> SUFFICES ASSUME NEW i, i # id PROVE Watches(i)' = Watches(i) /\ (Watches(i) => WatchesFrom(i)' = WatchesFrom(i)) OBVIOUS
    <3>1. CASE i \in DOMAIN rtmp.conn_map
      <4>1. rtmp'.conn_map[i] = rtmp.conn_map[i] /\ rtmp'.clients[rtmp.conn_map[i]] = rtmp.clients[rtmp.conn_map[i]] /\ i \in DOMAIN rtmp'.conn_map
        BY <1>0, <1>1, <3>1 DEF MapsAgree
      <4> QED BY <3>1, <4>1 DEF Watches, WatchesFrom
    <3>2. CASE i \notin DOMAIN rtmp.conn_map BY <1>1, <3>2 DEF Watches
    <3> QED BY <3>1, <3>2
  <2>4. ~Watches(id) /\ ~Watches(id)' BY <1>1, <1>3, <1>5 DEF Watches
  <2>5. ViewsSound'
    <3> SUFFICES ASSUME NEW i \in DOMAIN rtmp'.conns, ~rtmp'.conns[i].lossy
                 PROVE  (Decodable(rtmp.conns[i].log) /\ SeesAll(i, View(rtmp.conns[i])))'
      BY DEF ViewsSound
    <3>0. i \in DOMAIN rtmp.conns BY <1>1
    <3>1. CASE i = id
      <4>1. Decodable(rtmp.conns[id].log) /\ SeesAll(id, View(rtmp.conns[id])) BY <1>2, <1>a, <2>0, <3>1 DEF ViewsSound
      <4> QED BY <1>1, <1>2, <2>4, <3>1, <4>1 DEF SeesAll
    <3>2. CASE i # id
      <4>1. Decodable(rtmp.conns[i].log) /\ SeesAll(i, View(rtmp.conns[i])) BY <1>1, <2>0, <3>0, <3>2 DEF ViewsSound
      <4> QED BY <1>1, <2>3, <3>0, <3>2, <4>1 DEF SeesAll
    <3> QED BY <3>1, <3>2
  <2>6. EndsRight'
    <3>1. ASSUME NEW i \in DOMAIN rtmp'.conns
          PROVE  /\ ~HasEnd(rtmp'.conns[i].log)
                 /\ HasEnd(rtmp'.conns[i].sent) => i \in rtmp'.clear /\ Watches(i)'
                 /\ ~rtmp'.conns[i].lossy => EndLast(View(rtmp'.conns[i]))
      <4>1. i \in DOMAIN rtmp.conns BY <1>1
      <4>2. /\ ~HasEnd(rtmp.conns[i].log)
            /\ HasEnd(rtmp.conns[i].sent) => i \in rtmp.clear /\ Watches(i)
            /\ ~rtmp.conns[i].lossy => EndLast(View(rtmp.conns[i]))
        BY <1>1, <2>0, <4>1 DEF EndsRight
      <4>3. CASE i = id BY <1>2, <2>4, <4>2, <4>3
      <4>4. CASE i # id BY <1>1, <2>3, <4>1, <4>2, <4>4
      <4> QED BY <4>3, <4>4
    <3> QED BY <1>1, <2>0, <3>1 DEF EndsRight
  <2> QED BY <2>1, <2>2, <2>5, <2>6 DEF LiveFlow
<1> QED BY <1>4, <1>6, <1>7, <1>8 DEF RtmpInv, LiveShape

(* A publisher that comes finds nothing of its own. *)
LEMMA FreshPublisher ==
  ASSUME NEW V \in Seq(Packets), NEW m \in Nat, \A i \in DOMAIN V : V[i].early \/ V[i].pub <= m, NEW p, p.serial = m + 1, p.at = 0
  PROVE  Below(V, p) /\ Follows(V, p)
<1>1. \A i \in DOMAIN V : V[i].pub \in Nat
  <2>1. \A f \in Packets : f.pub \in Nat BY DEF Packets
  <2>2. \A i \in DOMAIN V : V[i] \in Packets OBVIOUS
  <2> QED BY <2>1, <2>2
<1>2. \A i \in DOMAIN V : ~FrameAt(V, i, p.serial) BY <1>1 DEF FrameAt
<1>3. ~KeyedNow(p) BY DEF KeyedNow
<1> QED BY <1>2, <1>3 DEF Below, Follows, Latest

LEMMA NewChannelSound ==
  ASSUME NEW ch, ch = NewChannel
  PROVE  IsChannel(ch) /\ SavedSound(ch) /\ ch.saved = << >> /\ ch.watchers = {}
<1>1. /\ DOMAIN ch = {"watchers", "meta", "vhdr", "ahdr", "saved", "starts"} /\ ch.saved = << >> /\ ch.watchers = {}
      /\ ch.meta = << >> /\ ch.vhdr = << >> /\ ch.ahdr = << >> /\ ch.starts = <<1>>
  BY DEF NewChannel
<1>2. GroupsStart(ch.saved, ch.starts)
  <2>1. <<1>> \in Seq(Nat) /\ Len(<<1>>) = 1 /\ 2 .. 1 = {} OBVIOUS
  <2> QED BY <1>1, <2>1, EmptyView DEF GroupsStart
<1>3. IsChannel(ch) BY <1>1, <1>2, EmptyView DEF IsChannel, Early
<1> QED BY <1>1, <1>3, EmptyView DEF SavedSound

LEMMA PublisherFacts ==
  ASSUME LiveTypes, NEW id, NEW c, NEW key \in StreamKeys, NEW script \in rtmp.of.scripts, NewPublisher(id, c, key, script)
  PROVE  /\ rtmp.stage = "select" /\ id \notin DOMAIN rtmp.pubs /\ c \notin DOMAIN rtmp.clients
         /\ UniqueKeys => \A p \in DOMAIN rtmp.pubs : rtmp.pubs[p].key # key
         /\ DOMAIN rtmp' = DOMAIN rtmp /\ rtmp'.of = rtmp.of /\ rtmp'.made = rtmp.made + 1
         /\ rtmp'.conns = rtmp.conns /\ rtmp'.conn_map = rtmp.conn_map
         /\ DOMAIN rtmp'.pubs = DOMAIN rtmp.pubs \cup {id}
         /\ rtmp'.pubs[id] = [key |-> key, script |-> script, at |-> 0, n |-> 0, serial |-> rtmp.made + 1]
         /\ \A p \in DOMAIN rtmp.pubs : rtmp'.pubs[p] = rtmp.pubs[p]
         /\ DOMAIN rtmp'.clients = DOMAIN rtmp.clients \cup {c}
         /\ rtmp'.clients[c] = [action |-> "publishing", key |-> key, conn |-> id, got_key |-> FALSE]
         /\ \A d \in DOMAIN rtmp.clients : rtmp'.clients[d] = rtmp.clients[d]
         /\ DOMAIN rtmp'.pub_map = DOMAIN rtmp.pub_map \cup {id} /\ rtmp'.pub_map[id] = c
         /\ \A i \in DOMAIN rtmp.pub_map : i # id => rtmp'.pub_map[i] = rtmp.pub_map[i]
         /\ DOMAIN rtmp'.channels = DOMAIN rtmp.channels \cup {key}
         /\ \A k \in DOMAIN rtmp.channels : rtmp'.channels[k] = rtmp.channels[k]
         /\ key \notin DOMAIN rtmp.channels => rtmp'.channels[key] = NewChannel
         /\ rtmp'.stage = "pubs" /\ rtmp'.left = DOMAIN rtmp'.pubs /\ rtmp'.clear = rtmp.clear /\ rtmp'.pclear = rtmp.pclear
         /\ rtmp'.ended = {}
<1> DEFINE pub == [key |-> key, script |-> script, at |-> 0, n |-> 0, serial |-> rtmp.made + 1]
           pubs == Adding(rtmp.pubs, id, pub)
           clients == Adding(rtmp.clients, c, [action |-> "publishing", key |-> key, conn |-> id, got_key |-> FALSE])
           map == Adding(rtmp.pub_map, id, c)
           channels == IF key \in DOMAIN rtmp.channels THEN rtmp.channels ELSE Adding(rtmp.channels, key, NewChannel)
           s == [rtmp EXCEPT !.pubs = pubs, !.made = @ + 1, !.clients = clients, !.pub_map = map, !.channels = channels]
<1>1. /\ rtmp.stage = "select" /\ id \notin DOMAIN rtmp.pubs /\ c \notin DOMAIN rtmp.clients
      /\ UniqueKeys => \A p \in DOMAIN rtmp.pubs : rtmp.pubs[p].key # key
  BY DEF NewPublisher, Vacant
<1>2. rtmp' = StartTurn(s) BY DEF NewPublisher
<1>3. /\ DOMAIN clients = DOMAIN rtmp.clients \cup {c}
      /\ clients[c] = [action |-> "publishing", key |-> key, conn |-> id, got_key |-> FALSE]
      /\ \A d \in DOMAIN rtmp.clients : d # c => clients[d] = rtmp.clients[d]
  BY DEF Adding
<1>4. /\ DOMAIN map = DOMAIN rtmp.pub_map \cup {id} /\ map[id] = c
      /\ \A i \in DOMAIN rtmp.pub_map : i # id => map[i] = rtmp.pub_map[i]
  BY DEF Adding
<1>5. /\ DOMAIN pubs = DOMAIN rtmp.pubs \cup {id} /\ pubs[id] = pub
      /\ \A i \in DOMAIN rtmp.pubs : i # id => pubs[i] = rtmp.pubs[i]
  BY DEF Adding
<1>6. /\ DOMAIN channels = DOMAIN rtmp.channels \cup {key}
      /\ \A k \in DOMAIN rtmp.channels : channels[k] = rtmp.channels[k]
      /\ key \notin DOMAIN rtmp.channels => channels[key] = NewChannel
  <2>1. CASE key \in DOMAIN rtmp.channels BY <2>1
  <2>2. CASE key \notin DOMAIN rtmp.channels BY <2>2 DEF Adding
  <2> QED BY <2>1, <2>2
<1> HIDE DEF pubs, clients, map, channels
<1>7. DOMAIN rtmp = {"of", "stage", "left", "conns", "pubs", "clients", "conn_map", "pub_map", "channels", "clear", "pclear",
                     "made", "sockets", "ended"} BY DEF LiveTypes
<1>8. s.pubs = pubs /\ DOMAIN s = DOMAIN rtmp BY <1>7
<1>9. rtmp' = [s EXCEPT !.stage = "pubs", !.left = DOMAIN pubs, !.ended = {}] BY <1>2, <1>8 DEF StartTurn
<1> QED BY <1>1, <1>3, <1>4, <1>5, <1>6, <1>7, <1>9

LEMMA PublisherStep ==
  ASSUME RtmpInv, NEW id, NEW c, NEW key \in StreamKeys, NEW script \in rtmp.of.scripts, NewPublisher(id, c, key, script)
  PROVE  RtmpInv'
<1>0. LiveTypes /\ MapsAgree /\ TurnRight BY DEF RtmpInv, LiveShape
<1>1. /\ rtmp.stage = "select" /\ id \notin DOMAIN rtmp.pubs /\ c \notin DOMAIN rtmp.clients
      /\ UniqueKeys => \A p \in DOMAIN rtmp.pubs : rtmp.pubs[p].key # key
      /\ DOMAIN rtmp' = DOMAIN rtmp /\ rtmp'.of = rtmp.of /\ rtmp'.made = rtmp.made + 1
      /\ rtmp'.conns = rtmp.conns /\ rtmp'.conn_map = rtmp.conn_map
      /\ DOMAIN rtmp'.pubs = DOMAIN rtmp.pubs \cup {id}
      /\ rtmp'.pubs[id] = [key |-> key, script |-> script, at |-> 0, n |-> 0, serial |-> rtmp.made + 1]
      /\ \A p \in DOMAIN rtmp.pubs : rtmp'.pubs[p] = rtmp.pubs[p]
      /\ DOMAIN rtmp'.clients = DOMAIN rtmp.clients \cup {c}
      /\ rtmp'.clients[c] = [action |-> "publishing", key |-> key, conn |-> id, got_key |-> FALSE]
      /\ \A d \in DOMAIN rtmp.clients : rtmp'.clients[d] = rtmp.clients[d]
      /\ DOMAIN rtmp'.pub_map = DOMAIN rtmp.pub_map \cup {id} /\ rtmp'.pub_map[id] = c
      /\ \A i \in DOMAIN rtmp.pub_map : i # id => rtmp'.pub_map[i] = rtmp.pub_map[i]
      /\ DOMAIN rtmp'.channels = DOMAIN rtmp.channels \cup {key}
      /\ \A k \in DOMAIN rtmp.channels : rtmp'.channels[k] = rtmp.channels[k]
      /\ key \notin DOMAIN rtmp.channels => rtmp'.channels[key] = NewChannel
      /\ rtmp'.stage = "pubs" /\ rtmp'.left = DOMAIN rtmp'.pubs /\ rtmp'.clear = rtmp.clear /\ rtmp'.pclear = rtmp.pclear
      /\ rtmp'.ended = {}
  BY <1>0, PublisherFacts
<1>2. /\ IsClient(rtmp'.clients[c]) /\ rtmp'.clients[c].action = "publishing" /\ rtmp'.clients[c].conn = id
      /\ rtmp'.clients[c].key = key
  <2>1. rtmp'.clients[c] = [action |-> "publishing", key |-> key, conn |-> id, got_key |-> FALSE] BY <1>1
  <2> DEFINE client == rtmp'.clients[c]
  <2>2. /\ DOMAIN client = {"action", "key", "conn", "got_key"} /\ client.got_key = FALSE
        /\ client.action = "publishing" /\ client.conn = id /\ client.key = key
    <3>1. client = [action |-> "publishing", key |-> key, conn |-> id, got_key |-> FALSE] BY <2>1
    <3> HIDE DEF client
    <3> QED BY ONLY <3>1
  <2> HIDE DEF client
  <2>3. IsClient(client) BY ONLY <2>2 DEF IsClient
  <2> QED BY <2>2, <2>3 DEF client
<1>3. /\ IsPublisher(rtmp'.pubs[id]) /\ rtmp'.pubs[id].key = key /\ rtmp'.pubs[id].serial = rtmp.made + 1
      /\ rtmp'.pubs[id].at = 0 /\ rtmp.made \in Nat
  <2>1. rtmp.made \in Nat /\ rtmp.of \in RtmpCases BY <1>0 DEF LiveTypes
  <2>2. script \in Seq(SentKinds) /\ KeyFirst(script)
    <3>1. /\ script \in Seq(SentKinds)
          /\ \A i \in DOMAIN script : script[i] = "inter" => \E j \in 1 .. i - 1 : script[j] = "key"
      BY <2>1, RtmpAssumption
    <3> QED BY <3>1 DEF KeyFirst
  <2> DEFINE pub == rtmp'.pubs[id]
  <2>3. pub = [key |-> key, script |-> script, at |-> 0, n |-> 0, serial |-> rtmp.made + 1] BY <1>1
  <2> HIDE DEF pub
  <2>4. pub.key = key /\ pub.serial = rtmp.made + 1 /\ pub.at = 0 /\ pub.script = script BY <2>3
  <2>5. pub \in Publishers
    <3>1. rtmp.made + 1 \in Nat BY <2>1
    <3> QED BY <2>2, <2>3, <3>1 DEF Publishers
  <2>6. Len(script) \in Nat BY <2>2
  <2>7. IsPublisher(pub) BY <2>2, <2>4, <2>5, <2>6 DEF IsPublisher
  <2> QED BY <2>1, <2>4, <2>7 DEF pub
<1>4. /\ key \notin DOMAIN rtmp.channels =>
           IsChannel(rtmp'.channels[key]) /\ SavedSound(rtmp'.channels[key]) /\ rtmp'.channels[key].saved = << >>
           /\ rtmp'.channels[key].watchers = {}
  BY <1>1, NewChannelSound
<1>b. /\ c \notin DOMAIN rtmp.clients /\ rtmp'.conns = rtmp.conns /\ rtmp'.conn_map = rtmp.conn_map
      /\ DOMAIN rtmp'.clients = DOMAIN rtmp.clients \cup {c} /\ \A d \in DOMAIN rtmp.clients : rtmp'.clients[d] = rtmp.clients[d]
      /\ DOMAIN rtmp'.pub_map = DOMAIN rtmp.pub_map \cup {id} /\ rtmp'.pub_map[id] = c
      /\ \A i \in DOMAIN rtmp.pub_map : i # id => rtmp'.pub_map[i] = rtmp.pub_map[i]
      /\ DOMAIN rtmp'.channels = DOMAIN rtmp.channels \cup {key}
      /\ \A k \in DOMAIN rtmp.channels : rtmp'.channels[k] = rtmp.channels[k]
      /\ DOMAIN rtmp'.pubs = DOMAIN rtmp.pubs \cup {id} /\ id \notin DOMAIN rtmp.pubs
      /\ \A p \in DOMAIN rtmp.pubs : rtmp'.pubs[p] = rtmp.pubs[p]
  BY <1>1
<1>c. /\ \A i \in DOMAIN rtmp.conn_map :
           /\ rtmp.conn_map[i] \in DOMAIN rtmp.clients /\ rtmp.clients[rtmp.conn_map[i]].conn = i
           /\ rtmp.clients[rtmp.conn_map[i]].action \in {"waiting", "watching"}
      /\ DOMAIN rtmp.pub_map = DOMAIN rtmp.pubs
      /\ \A i \in DOMAIN rtmp.pub_map :
           /\ rtmp.pub_map[i] \in DOMAIN rtmp.clients /\ rtmp.clients[rtmp.pub_map[i]].conn = i
           /\ rtmp.clients[rtmp.pub_map[i]].action = "publishing"
           /\ rtmp.clients[rtmp.pub_map[i]].key = rtmp.pubs[i].key /\ rtmp.pubs[i].key \in DOMAIN rtmp.channels
  BY <1>0 DEF MapsAgree
<1>5. LiveTypes'
  <2>1. \A d \in DOMAIN rtmp'.clients : IsClient(rtmp'.clients[d]) BY <1>0, <1>b, <1>2 DEF LiveTypes
  <2>2. \A k \in DOMAIN rtmp'.channels : IsChannel(rtmp'.channels[k]) BY <1>0, <1>b, <1>4 DEF LiveTypes
  <2>3. DOMAIN rtmp' = DOMAIN rtmp /\ rtmp'.of = rtmp.of /\ rtmp'.made = rtmp.made + 1 BY <1>1
  <2>4. \A p \in DOMAIN rtmp.pubs : IsPublisher(rtmp.pubs[p]) /\ rtmp.pubs[p].serial <= rtmp.made /\ rtmp.pubs[p].serial \in Nat
    BY <1>0 DEF LiveTypes, IsPublisher, Publishers
  <2>5. \A p \in DOMAIN rtmp'.pubs : IsPublisher(rtmp'.pubs[p]) /\ rtmp'.pubs[p].serial <= rtmp'.made
    BY <1>b, <1>3, <2>3, <2>4
  <2>6. \A p, q \in DOMAIN rtmp'.pubs : rtmp'.pubs[p].serial = rtmp'.pubs[q].serial => p = q
    <3> SUFFICES ASSUME NEW p \in DOMAIN rtmp'.pubs, NEW q \in DOMAIN rtmp'.pubs, rtmp'.pubs[p].serial = rtmp'.pubs[q].serial
                 PROVE  p = q
      OBVIOUS
    <3>1. CASE p # id /\ q # id BY <1>0, <1>b, <3>1 DEF LiveTypes
    <3>2. CASE p = id /\ q # id
      <4>1. rtmp'.pubs[q].serial <= rtmp.made /\ rtmp'.pubs[q].serial \in Nat BY <1>b, <2>4, <3>2
      <4> QED BY <1>3, <3>2, <4>1
    <3>3. CASE p # id /\ q = id
      <4>1. rtmp'.pubs[p].serial <= rtmp.made /\ rtmp'.pubs[p].serial \in Nat BY <1>b, <2>4, <3>3
      <4> QED BY <1>3, <3>3, <4>1
    <3> QED BY <3>1, <3>2, <3>3
  <2>7. rtmp'.made \in Nat /\ rtmp'.of \in RtmpCases BY <1>0, <1>3, <2>3 DEF LiveTypes
  <2>8. \A i \in DOMAIN rtmp'.conns : IsConn(rtmp'.conns[i]) BY <1>0, <1>b DEF LiveTypes
  <2>9. DOMAIN rtmp' = {"of", "stage", "left", "conns", "pubs", "clients", "conn_map", "pub_map", "channels", "clear", "pclear",
                        "made", "sockets", "ended"} BY <1>0, <2>3 DEF LiveTypes
  <2> QED BY <2>1, <2>2, <2>5, <2>6, <2>7, <2>8, <2>9 DEF LiveTypes
<1>6. MapsAgree'
  <2>1. DOMAIN rtmp'.conn_map = {i \in DOMAIN rtmp'.conns : rtmp'.conns[i].open} BY <1>0, <1>b DEF MapsAgree
  <2>2. \A i \in DOMAIN rtmp'.conn_map :
          /\ rtmp'.conn_map[i] \in DOMAIN rtmp'.clients /\ rtmp'.clients[rtmp'.conn_map[i]].conn = i
          /\ rtmp'.clients[rtmp'.conn_map[i]].action \in {"waiting", "watching"}
    BY <1>b, <1>c
  <2>3. \A i \in DOMAIN rtmp'.pub_map :
          /\ rtmp'.pub_map[i] \in DOMAIN rtmp'.clients /\ rtmp'.clients[rtmp'.pub_map[i]].conn = i
          /\ rtmp'.clients[rtmp'.pub_map[i]].action = "publishing"
          /\ rtmp'.clients[rtmp'.pub_map[i]].key = rtmp'.pubs[i].key /\ rtmp'.pubs[i].key \in DOMAIN rtmp'.channels
    BY <1>b, <1>c, <1>2, <1>3
  <2>4. ASSUME NEW d \in DOMAIN rtmp'.clients
        PROVE  (\E i \in DOMAIN rtmp'.conn_map : rtmp'.conn_map[i] = d) \/ (\E i \in DOMAIN rtmp'.pub_map : rtmp'.pub_map[i] = d)
    <3>1. CASE d = c BY <1>b, <3>1
    <3>2. CASE d \in DOMAIN rtmp.clients
      <4>1. (\E i \in DOMAIN rtmp.conn_map : rtmp.conn_map[i] = d) \/ (\E i \in DOMAIN rtmp.pub_map : rtmp.pub_map[i] = d)
        BY <1>0, <3>2 DEF MapsAgree
      <4> QED BY <1>b, <1>c, <4>1
    <3> QED BY <1>b, <3>1, <3>2
  <2>5. ASSUME OnePlay PROVE WatchersAgree'
    <3>1. WatchersAgree BY <1>0, <2>5 DEF MapsAgree
    <3>2. ASSUME NEW k \in DOMAIN rtmp'.channels
          PROVE  rtmp'.channels[k].watchers
                   = {d \in DOMAIN rtmp'.clients : rtmp'.clients[d].action = "watching" /\ rtmp'.clients[d].key = k}
      <4>1. {d \in DOMAIN rtmp'.clients : rtmp'.clients[d].action = "watching" /\ rtmp'.clients[d].key = k}
              = {d \in DOMAIN rtmp.clients : rtmp.clients[d].action = "watching" /\ rtmp.clients[d].key = k}
        BY <1>b, <1>2
      <4>2. CASE k \in DOMAIN rtmp.channels BY <1>b, <3>1, <4>1, <4>2 DEF WatchersAgree
      <4>3. CASE k \notin DOMAIN rtmp.channels
        <5>1. k = key /\ rtmp'.channels[k].watchers = {} BY <1>b, <1>4, <4>3
        <5>2. \A d \in DOMAIN rtmp.clients : ~(rtmp.clients[d].action = "watching" /\ rtmp.clients[d].key = k)
          BY <1>0, <4>3 DEF MapsAgree
        <5> QED BY <4>1, <5>1, <5>2
      <4> QED BY <4>2, <4>3
    <3> QED BY <3>2 DEF WatchersAgree
  <2>6. DOMAIN rtmp'.pub_map = DOMAIN rtmp'.pubs BY <1>b, <1>c
  <2>7. \A d \in DOMAIN rtmp'.clients : rtmp'.clients[d].action = "watching" => rtmp'.clients[d].key \in DOMAIN rtmp'.channels
    BY <1>0, <1>b, <1>2 DEF MapsAgree
  <2> QED BY <2>1, <2>2, <2>3, <2>4, <2>5, <2>6, <2>7 DEF MapsAgree
<1>7. TurnRight' BY <1>0, <1>1 DEF TurnRight
<1>8. ASSUME UniqueKeys /\ OnePlay PROVE LiveFlow'
  <2>0. KeysApart /\ ViewsSound /\ ChannelsSound /\ EndsRight BY <1>8 DEF RtmpInv, LiveFlow
  <2> DEFINE p == rtmp'.pubs[id]
  <2>1. KeysApart'
    <3> SUFFICES ASSUME NEW q \in DOMAIN rtmp'.pubs, NEW r \in DOMAIN rtmp'.pubs, rtmp'.pubs[q].key = rtmp'.pubs[r].key
                 PROVE  q = r
      BY DEF KeysApart
    <3>1. \A t \in DOMAIN rtmp.pubs : rtmp.pubs[t].key # key BY <1>1, <1>8
    <3> QED BY <1>b, <1>3, <2>0, <3>1 DEF KeysApart
  <2>2. \A i \in DOMAIN rtmp.conn_map : rtmp'.clients[rtmp.conn_map[i]] = rtmp.clients[rtmp.conn_map[i]] BY <1>b, <1>c
  <2>3. \A i : Watches(i)' = Watches(i) /\ (Watches(i) => WatchesFrom(i)' = WatchesFrom(i))
    BY <1>b, <2>2 DEF Watches, WatchesFrom
  <2>4. \A V \in Seq(Packets) : (\A i \in DOMAIN V : V[i].early \/ V[i].pub <= rtmp.made) => Below(V, p) /\ Follows(V, p)
    BY <1>3, FreshPublisher
  <2>5. \A V \in Seq(Packets) : (\A i \in DOMAIN V : V[i].pub <= rtmp.made) => \A i \in DOMAIN V : V[i].pub <= rtmp.made + 1
    <3>1. \A f \in Packets : f.pub \in Nat BY DEF Packets
    <3> QED BY <1>3, <3>1
  <2> HIDE DEF p
  <2>6. ViewsSound'
    <3> SUFFICES ASSUME NEW i \in DOMAIN rtmp.conns, ~rtmp.conns[i].lossy
                 PROVE  Decodable(rtmp.conns[i].log) /\ SeesAll(i, View(rtmp.conns[i]))'
      BY <1>b DEF ViewsSound
    <3> DEFINE V == View(rtmp.conns[i])
    <3>1. Decodable(rtmp.conns[i].log) /\ SeesAll(i, V) BY <2>0 DEF ViewsSound
    <3>2. V \in Seq(Packets) BY <1>0 DEF LiveTypes, IsConn, View
    <3>3. View(rtmp.conns[i])' = V BY <1>b DEF View
    <3> HIDE DEF V
    <3>4. \A j \in DOMAIN V : V[j].early \/ V[j].pub <= rtmp.made BY <3>1 DEF SeesAll
    <3>5. Below(V, p) /\ Follows(V, p) BY <2>4, <3>2, <3>4
    <3>6. \A j \in DOMAIN V : V[j].early \/ V[j].pub <= rtmp'.made
      <4>1. \A f \in Packets : f.pub \in Nat BY DEF Packets
      <4>2. \A j \in DOMAIN V : V[j].pub \in Nat BY <3>2, <4>1
      <4> QED BY <1>1, <1>3, <3>4, <4>2
    <3>7. \A q \in DOMAIN rtmp'.pubs : Below(V, rtmp'.pubs[q])
      <4> SUFFICES ASSUME NEW q \in DOMAIN rtmp'.pubs PROVE Below(V, rtmp'.pubs[q]) OBVIOUS
      <4>1. CASE q = id BY <3>5, <4>1 DEF p
      <4>2. CASE q # id
        <5>1. q \in DOMAIN rtmp.pubs /\ rtmp'.pubs[q] = rtmp.pubs[q] BY <1>b, <4>2
        <5> QED BY <3>1, <5>1 DEF SeesAll
      <4> QED BY <4>1, <4>2
    <3>8. ASSUME Watches(i), WatchesFrom(i).got_key, NEW q \in DOMAIN rtmp'.pubs, rtmp'.pubs[q].key = WatchesFrom(i).key
          PROVE  Follows(V, rtmp'.pubs[q])
      <4>1. CASE q = id BY <3>5, <4>1 DEF p
      <4>2. CASE q # id
        <5>1. q \in DOMAIN rtmp.pubs /\ rtmp'.pubs[q] = rtmp.pubs[q] BY <1>b, <4>2
        <5> QED BY <3>1, <3>8, <5>1 DEF SeesAll
      <4> QED BY <4>1, <4>2
    <3>9. SeesAll(i, View(rtmp.conns[i]))'
      <4>1. SoundView(V) /\ (~Watches(i) => V = << >>) BY <3>1 DEF SeesAll
      <4>2. Watches(i) /\ ~WatchesFrom(i).got_key => \A s : ~KeyIn(V, s) BY <3>1 DEF SeesAll
      <4> QED BY <2>3, <3>3, <3>6, <3>7, <3>8, <4>1, <4>2 DEF SeesAll
    <3> QED BY <3>1, <3>9
  <2>7. ChannelsSound'
    <3> SUFFICES ASSUME NEW k \in DOMAIN rtmp'.channels PROVE ChannelSound(k)' BY DEF ChannelsSound
    <3> DEFINE S == rtmp'.channels[k].saved
    <3>1. SavedSound(rtmp'.channels[k]) /\ S \in Seq(Packets) /\ (rtmp'.of.limit = 0 => S = << >>)
          /\ (\A i \in DOMAIN S : S[i].pub <= rtmp.made)
          /\ (\A q \in DOMAIN rtmp.pubs : Below(S, rtmp.pubs[q]))
          /\ (\A q \in DOMAIN rtmp.pubs : rtmp.pubs[q].key = k =>
               (\A i \in DOMAIN S : S[i].pub <= rtmp.pubs[q].serial) /\ (rtmp'.of.limit # 0 => Follows(S, rtmp.pubs[q])))
      <4>1. CASE k \in DOMAIN rtmp.channels
        <5>1. rtmp'.channels[k] = rtmp.channels[k] BY <1>b, <4>1
        <5>2. ChannelSound(k) BY <2>0, <4>1 DEF ChannelsSound
        <5>3. S \in Seq(Packets) BY <1>0, <4>1, <5>1 DEF LiveTypes, IsChannel, GroupsStart
        <5> QED BY <1>1, <5>1, <5>2, <5>3 DEF ChannelSound
      <4>2. CASE k \notin DOMAIN rtmp.channels
        <5>1. k = key /\ S = << >> /\ SavedSound(rtmp'.channels[k]) BY <1>b, <1>4, <4>2
        <5>2. \A q \in DOMAIN rtmp.pubs : rtmp.pubs[q].key # k BY <1>c, <4>2
        <5>3. \A i \in DOMAIN << >> : FALSE OBVIOUS
        <5> HIDE DEF S
        <5> QED BY <5>1, <5>2, <5>3, EmptyView
      <4> QED BY <4>1, <4>2
    <3> HIDE DEF S
    <3>2. Below(S, p) /\ Follows(S, p) BY <2>4, <3>1
    <3>3. \A i \in DOMAIN S : S[i].pub <= rtmp'.made BY <1>1, <2>5, <3>1
    <3>4. \A i \in DOMAIN S : S[i].pub <= p.serial BY <1>3, <2>5, <3>1 DEF p
    <3>5. ASSUME NEW q \in DOMAIN rtmp'.pubs
          PROVE  /\ Below(S, rtmp'.pubs[q])
                 /\ rtmp'.pubs[q].key = k =>
                      (\A i \in DOMAIN S : S[i].pub <= rtmp'.pubs[q].serial) /\ (rtmp'.of.limit # 0 => Follows(S, rtmp'.pubs[q]))
      <4>1. CASE q = id BY <3>2, <3>4, <4>1 DEF p
      <4>2. CASE q # id
        <5>1. q \in DOMAIN rtmp.pubs /\ rtmp'.pubs[q] = rtmp.pubs[q] BY <1>b, <4>2
        <5> QED BY <3>1, <5>1
      <4> QED BY <4>1, <4>2
    <3> QED BY <3>1, <3>3, <3>5 DEF ChannelSound, S
  <2>8. EndsRight'
    <3>1. \A i \in DOMAIN rtmp.conns : ~HasEnd(rtmp.conns[i].sent) /\ ~HasEnd(rtmp.conns[i].log)
      BY <1>0, <1>1, <2>0, EmptyView DEF TurnRight, EndsRight
    <3>2. \A i \in DOMAIN rtmp.conns : ~rtmp.conns[i].lossy => EndLast(View(rtmp.conns[i])) BY <2>0 DEF EndsRight
    <3> QED BY <1>1, <3>1, <3>2 DEF EndsRight
  <2> QED BY <2>1, <2>6, <2>7, <2>8 DEF LiveFlow
<1> QED BY <1>5, <1>6, <1>7, <1>8 DEF RtmpInv, LiveShape

-----------------------------------------------------------------------------
(* The end of the turn: packets are written, publishers and connections go *)
LEMMA ViewFacts ==
  ASSUME NEW conn, IsConn(conn)
  PROVE  /\ View(conn) \in Seq(Packets) /\ conn.log \in Seq(Packets) /\ conn.sent \in Seq(Packets)
         /\ conn.sent = << >> => View(conn) = conn.log
         /\ HasEnd(View(conn)) => HasEnd(conn.log) \/ HasEnd(conn.sent)
<1>1. conn.log \in Seq(Packets) /\ conn.sent \in Seq(Packets) BY DEF IsConn
<1> DEFINE V == View(conn)
           L == conn.log
           M == conn.sent
<1>2. V = L \o M /\ L \in Seq(Packets) /\ M \in Seq(Packets) BY <1>1 DEF View
<1> HIDE DEF V, L, M
<1>3. /\ V \in Seq(Packets) /\ Len(L) \in Nat /\ Len(M) \in Nat /\ DOMAIN V = 1 .. Len(L) + Len(M)
      /\ DOMAIN L = 1 .. Len(L) /\ DOMAIN M = 1 .. Len(M)
      /\ \A i \in 1 .. Len(L) : V[i] = L[i]
      /\ \A i \in 1 .. Len(M) : V[Len(L) + i] = M[i]
  BY <1>2
<1>4. M = << >> => V = L BY <1>2
<1>5. \A i \in 1 .. Len(L) + Len(M) : i \in 1 .. Len(L) \/ (i - Len(L) \in 1 .. Len(M) /\ Len(L) + (i - Len(L)) = i)
  BY <1>3
<1>6. HasEnd(V) => HasEnd(L) \/ HasEnd(M)
  <2> SUFFICES ASSUME NEW i \in DOMAIN V, V[i].kind = "end" PROVE HasEnd(L) \/ HasEnd(M) BY DEF HasEnd
  <2>1. CASE i \in 1 .. Len(L) BY <1>3, <2>1 DEF HasEnd
  <2>2. CASE i - Len(L) \in 1 .. Len(M) /\ Len(L) + (i - Len(L)) = i BY <1>3, <2>2 DEF HasEnd
  <2> QED BY <1>3, <1>5, <2>1, <2>2
<1> QED BY <1>1, <1>3, <1>4, <1>6 DEF V, L, M

LEMMA WriteFacts ==
  ASSUME LiveTypes, NEW slow, WritePackets(slow)
  PROVE  /\ rtmp.stage = "free" /\ rtmp.left = {}
         /\ DOMAIN rtmp' = DOMAIN rtmp /\ rtmp'.of = rtmp.of /\ rtmp'.made = rtmp.made
         /\ rtmp'.pubs = rtmp.pubs /\ rtmp'.clients = rtmp.clients /\ rtmp'.channels = rtmp.channels
         /\ rtmp'.conn_map = rtmp.conn_map /\ rtmp'.pub_map = rtmp.pub_map
         /\ rtmp'.stage = "close" /\ rtmp'.left = rtmp.clear /\ rtmp'.clear = rtmp.clear /\ rtmp'.pclear = rtmp.pclear
         /\ rtmp'.ended = rtmp.ended
         /\ DOMAIN rtmp'.conns = DOMAIN rtmp.conns
         /\ \A i \in DOMAIN rtmp.conns :
              /\ IsConn(rtmp'.conns[i]) /\ rtmp'.conns[i].open = rtmp.conns[i].open /\ rtmp'.conns[i].sent = << >>
              /\ rtmp'.conns[i].log = rtmp.conns[i].log \/ rtmp'.conns[i].log = View(rtmp.conns[i])
              /\ ~rtmp'.conns[i].lossy => ~rtmp.conns[i].lossy /\ rtmp'.conns[i].log = View(rtmp.conns[i])
<1>1. rtmp.stage = "free" /\ rtmp.left = {} BY DEF WritePackets
<1> DEFINE conns == [i \in DOMAIN rtmp.conns |-> WrittenTo(rtmp.conns[i], i \in slow)]
<1>2. rtmp' = [rtmp EXCEPT !.conns = conns, !.stage = "close", !.left = rtmp.clear] BY DEF WritePackets
<1>3. DOMAIN conns = DOMAIN rtmp.conns OBVIOUS
<1>4. ASSUME NEW i \in DOMAIN rtmp.conns
      PROVE  /\ IsConn(conns[i]) /\ conns[i].open = rtmp.conns[i].open /\ conns[i].sent = << >>
             /\ conns[i].log = rtmp.conns[i].log \/ conns[i].log = View(rtmp.conns[i])
             /\ ~conns[i].lossy => ~rtmp.conns[i].lossy /\ conns[i].log = View(rtmp.conns[i])
  <2> DEFINE conn == rtmp.conns[i]
             late == i \in slow
             new == conns[i]
  <2>1. IsConn(conn) BY DEF LiveTypes
  <2>2. late \in BOOLEAN OBVIOUS
  <2>3. new = WrittenTo(conn, late) OBVIOUS
  <2> HIDE DEF conn, late, new, conns
  <2>4. new = [conn EXCEPT !.log = IF late THEN conn.log ELSE conn.log \o conn.sent, !.sent = << >>,
                           !.lossy = conn.lossy \/ (late /\ conn.sent # << >>)]
    BY <2>3 DEF WrittenTo
  <2>5. DOMAIN conn = {"open", "log", "sent", "lossy"} /\ conn.open \in BOOLEAN /\ conn.lossy \in BOOLEAN BY <2>1 DEF IsConn
  <2>6. /\ DOMAIN new = {"open", "log", "sent", "lossy"} /\ new.open = conn.open /\ new.sent = << >>
        /\ new.log = (IF late THEN conn.log ELSE conn.log \o conn.sent)
        /\ new.lossy = (conn.lossy \/ (late /\ conn.sent # << >>))
    BY <2>4, <2>5
  <2>7. View(conn) \in Seq(Packets) /\ conn.log \in Seq(Packets) /\ (conn.sent = << >> => View(conn) = conn.log)
    BY <2>1, ViewFacts
  <2>8. View(conn) = conn.log \o conn.sent BY DEF View
  <2>9. new.log = conn.log \/ new.log = View(conn) BY <2>6, <2>8
  <2>10. new.lossy \in BOOLEAN BY <2>2, <2>5, <2>6
  <2>11. IsConn(new)
    <3>1. new.log \in Seq(Packets) BY <2>7, <2>9
    <3>2. << >> \in Seq(Packets) OBVIOUS
    <3> QED BY <2>5, <2>6, <2>10, <3>1, <3>2 DEF IsConn
  <2>12. ~new.lossy => ~conn.lossy /\ new.log = View(conn) BY <2>5, <2>6, <2>7, <2>8
  <2> QED BY <2>6, <2>9, <2>11, <2>12 DEF conn, new
<1> HIDE DEF conns
<1>5. DOMAIN rtmp = {"of", "stage", "left", "conns", "pubs", "clients", "conn_map", "pub_map", "channels", "clear", "pclear",
                     "made", "sockets", "ended"} BY DEF LiveTypes
<1>6. rtmp'.conns = conns BY <1>2, <1>5
<1> QED BY <1>1, <1>2, <1>3, <1>4, <1>5, <1>6

LEMMA WriteStep == ASSUME RtmpInv, NEW slow, WritePackets(slow) PROVE RtmpInv'
<1>0. LiveTypes /\ MapsAgree /\ TurnRight BY DEF RtmpInv, LiveShape
<1>1. /\ rtmp.stage = "free" /\ rtmp.left = {}
      /\ DOMAIN rtmp' = DOMAIN rtmp /\ rtmp'.of = rtmp.of /\ rtmp'.made = rtmp.made
      /\ rtmp'.pubs = rtmp.pubs /\ rtmp'.clients = rtmp.clients /\ rtmp'.channels = rtmp.channels
      /\ rtmp'.conn_map = rtmp.conn_map /\ rtmp'.pub_map = rtmp.pub_map
      /\ rtmp'.stage = "close" /\ rtmp'.left = rtmp.clear /\ rtmp'.clear = rtmp.clear /\ rtmp'.pclear = rtmp.pclear
      /\ rtmp'.ended = rtmp.ended
      /\ DOMAIN rtmp'.conns = DOMAIN rtmp.conns
      /\ \A i \in DOMAIN rtmp.conns :
           /\ IsConn(rtmp'.conns[i]) /\ rtmp'.conns[i].open = rtmp.conns[i].open /\ rtmp'.conns[i].sent = << >>
           /\ rtmp'.conns[i].log = rtmp.conns[i].log \/ rtmp'.conns[i].log = View(rtmp.conns[i])
           /\ ~rtmp'.conns[i].lossy => ~rtmp.conns[i].lossy /\ rtmp'.conns[i].log = View(rtmp.conns[i])
  BY <1>0, WriteFacts
<1>2. LiveTypes' BY <1>0, <1>1 DEF LiveTypes
<1>3. MapsAgree'
  <2>1. {i \in DOMAIN rtmp'.conns : rtmp'.conns[i].open} = {i \in DOMAIN rtmp.conns : rtmp.conns[i].open} BY <1>1
  <2> QED BY <1>0, <1>1, <2>1 DEF MapsAgree, WatchersAgree
<1>4. TurnRight' BY <1>0, <1>1 DEF TurnRight
<1>5. ASSUME UniqueKeys /\ OnePlay PROVE LiveFlow'
  <2>0. KeysApart /\ ViewsSound /\ ChannelsSound /\ EndsRight BY <1>5 DEF RtmpInv, LiveFlow
  <2>1. KeysApart' BY <1>1, <2>0 DEF KeysApart
  <2>2. ChannelsSound' BY <1>1, <2>0 DEF ChannelsSound, ChannelSound
  <2>3. \A i : Watches(i)' = Watches(i) /\ WatchesFrom(i)' = WatchesFrom(i) BY <1>1 DEF Watches, WatchesFrom
  <2>4. \A i \in DOMAIN rtmp.conns : ~rtmp'.conns[i].lossy =>
          ~rtmp.conns[i].lossy /\ rtmp'.conns[i].log = View(rtmp.conns[i]) /\ View(rtmp'.conns[i]) = View(rtmp.conns[i])
    BY <1>1, ViewFacts
  <2>5. ViewsSound'
    <3> SUFFICES ASSUME NEW i \in DOMAIN rtmp'.conns, ~rtmp'.conns[i].lossy
                 PROVE  Decodable(rtmp'.conns[i].log) /\ SeesAll(i, View(rtmp.conns[i]))'
      BY DEF ViewsSound
    <3> DEFINE V == View(rtmp.conns[i])
    <3>1. i \in DOMAIN rtmp.conns BY <1>1
    <3>2. SeesAll(i, V) BY <2>0, <2>4, <3>1 DEF ViewsSound
    <3>3. V \in Seq(Packets) BY <1>0, <3>1, ViewFacts DEF LiveTypes
    <3>4. View(rtmp.conns[i])' = V /\ rtmp'.conns[i].log = V BY <2>4, <3>1
    <3> HIDE DEF V
    <3>5. Decodable(V) BY <3>2, <3>3, SoundDecodable DEF SeesAll
    <3>6. SeesAll(i, View(rtmp.conns[i]))' BY <1>1, <2>3, <3>2, <3>4 DEF SeesAll
    <3> QED BY <3>4, <3>5, <3>6
  <2>6. EndsRight'
    <3>1. ASSUME NEW i \in DOMAIN rtmp'.conns
          PROVE  /\ HasEnd(rtmp'.conns[i].log) => i \in rtmp'.left
                 /\ ~HasEnd(rtmp'.conns[i].sent)
                 /\ ~rtmp'.conns[i].lossy => EndLast(View(rtmp'.conns[i]))
      <4>1. i \in DOMAIN rtmp.conns /\ IsConn(rtmp.conns[i]) BY <1>0, <1>1 DEF LiveTypes
      <4>2. /\ ~HasEnd(rtmp.conns[i].log)
            /\ HasEnd(rtmp.conns[i].sent) => i \in rtmp.clear
            /\ ~rtmp.conns[i].lossy => EndLast(View(rtmp.conns[i]))
        BY <1>1, <2>0, <4>1 DEF EndsRight
      <4>3. HasEnd(View(rtmp.conns[i])) => i \in rtmp.clear BY <4>1, <4>2, ViewFacts
      <4> QED BY <1>1, <2>4, <4>1, <4>2, <4>3, EmptyView
    <3> QED BY <1>1, <2>0, <3>1 DEF EndsRight
  <2> QED BY <2>1, <2>2, <2>5, <2>6 DEF LiveFlow
<1> QED BY <1>2, <1>3, <1>4, <1>5 DEF RtmpInv, LiveShape

LEMMA FreeFacts ==
  ASSUME LiveTypes, MapsAgree, TurnRight, NEW id, FreePublisher(id), NEW c, c = rtmp.pub_map[id]
  PROVE  /\ rtmp.stage = "free" /\ id \in DOMAIN rtmp.pubs
         /\ DOMAIN rtmp' = DOMAIN rtmp /\ rtmp'.of = rtmp.of /\ rtmp'.made = rtmp.made
         /\ rtmp'.conns = rtmp.conns /\ rtmp'.conn_map = rtmp.conn_map
         /\ DOMAIN rtmp'.pubs = DOMAIN rtmp.pubs \ {id} /\ \A p \in DOMAIN rtmp'.pubs : rtmp'.pubs[p] = rtmp.pubs[p]
         /\ DOMAIN rtmp'.clients = DOMAIN rtmp.clients \ {c} /\ \A d \in DOMAIN rtmp'.clients : rtmp'.clients[d] = rtmp.clients[d]
         /\ DOMAIN rtmp'.pub_map = DOMAIN rtmp.pub_map \ {id} /\ \A i \in DOMAIN rtmp'.pub_map : rtmp'.pub_map[i] = rtmp.pub_map[i]
         /\ DOMAIN rtmp'.channels = DOMAIN rtmp.channels
         /\ \A k \in DOMAIN rtmp.channels :
              /\ IsChannel(rtmp'.channels[k]) /\ rtmp'.channels[k].watchers = rtmp.channels[k].watchers
              /\ rtmp'.channels[k].saved = rtmp.channels[k].saved /\ rtmp'.channels[k].starts = rtmp.channels[k].starts
         /\ rtmp'.stage = "free" /\ rtmp'.left = rtmp.left \ {id} /\ rtmp'.clear = rtmp.clear /\ rtmp'.pclear = rtmp.pclear
         /\ rtmp'.ended = rtmp.ended
<1>1. rtmp.stage = "free" /\ id \in rtmp.left /\ id \in DOMAIN rtmp.pubs BY DEF FreePublisher, LooksAt, TurnRight
<1> DEFINE key == rtmp.clients[c].key
           pubs == Dropping(rtmp.pubs, id)
           map == Dropping(rtmp.pub_map, id)
           clients == Dropping(rtmp.clients, c)
           ch == [rtmp.channels[key] EXCEPT !.meta = << >>]
           channels == [rtmp.channels EXCEPT ![key] = ch]
           s1 == [rtmp EXCEPT !.pubs = pubs]
           s2 == [s1 EXCEPT !.pub_map = map, !.clients = clients]
<1>2. key \in DOMAIN rtmp.channels BY <1>1 DEF MapsAgree
<1>3. DOMAIN pubs = DOMAIN rtmp.pubs \ {id} /\ \A p \in DOMAIN pubs : pubs[p] = rtmp.pubs[p] BY DEF Dropping
<1>4. DOMAIN map = DOMAIN rtmp.pub_map \ {id} /\ \A p \in DOMAIN map : map[p] = rtmp.pub_map[p] BY DEF Dropping
<1>5. DOMAIN clients = DOMAIN rtmp.clients \ {c} /\ \A p \in DOMAIN clients : clients[p] = rtmp.clients[p] BY DEF Dropping
<1>6. /\ IsChannel(ch) /\ ch.watchers = rtmp.channels[key].watchers
      /\ ch.saved = rtmp.channels[key].saved /\ ch.starts = rtmp.channels[key].starts
  <2>1. IsChannel(rtmp.channels[key]) BY <1>2 DEF LiveTypes
  <2>2. << >> \in Seq(Packets) /\ Early(<< >>)
    <3>1. \A i \in DOMAIN << >> : FALSE OBVIOUS
    <3> QED BY <3>1, EmptyView DEF Early
  <2> QED BY <2>1, <2>2 DEF IsChannel
<1>7. DOMAIN channels = DOMAIN rtmp.channels /\ channels[key] = ch /\ \A k \in DOMAIN rtmp.channels : k # key => channels[k] = rtmp.channels[k]
  BY <1>2
<1>8. DOMAIN rtmp = {"of", "stage", "left", "conns", "pubs", "clients", "conn_map", "pub_map", "channels", "clear", "pclear",
                     "made", "sockets", "ended"} BY DEF LiveTypes
<1>9. rtmp' = Past(notify_publisher_closed(s1, id), id) BY DEF FreePublisher
<1>10. s1.pub_map = rtmp.pub_map /\ s1.clients = rtmp.clients /\ s1.channels = rtmp.channels /\ DOMAIN s1 = DOMAIN rtmp
  <2> HIDE DEF pubs
  <2> QED BY <1>8
<1>11. notify_publisher_closed(s1, id) = publishing_ended(s2, key)
  <2> HIDE DEF s1
  <2> QED BY <1>10 DEF notify_publisher_closed
<1>12. s2.channels = rtmp.channels /\ DOMAIN s2 = DOMAIN rtmp
  <2> HIDE DEF s1, map, clients
  <2> QED BY <1>8, <1>10
<1>13. publishing_ended(s2, key) = [s2 EXCEPT !.channels = channels]
  <2>1. publishing_ended(s2, key) = [s2 EXCEPT !.channels[key].meta = << >>] BY DEF publishing_ended
  <2>2. [s2 EXCEPT !.channels[key].meta = << >>] = [s2 EXCEPT !.channels = [s2.channels EXCEPT ![key] = [s2.channels[key] EXCEPT !.meta = << >>]]]
    OBVIOUS
  <2> HIDE DEF s2
  <2> QED BY <1>12, <2>1, <2>2
<1> DEFINE s3 == [s2 EXCEPT !.channels = channels]
<1>14. rtmp' = Past(s3, id) BY <1>9, <1>11, <1>13
<1>15. \A k \in DOMAIN rtmp.channels :
         /\ IsChannel(channels[k]) /\ channels[k].watchers = rtmp.channels[k].watchers
         /\ channels[k].saved = rtmp.channels[k].saved /\ channels[k].starts = rtmp.channels[k].starts
  <2> HIDE DEF ch, channels, key
  <2> QED BY <1>6, <1>7 DEF LiveTypes
<1> HIDE DEF pubs, map, clients, channels, key, ch
<1>16. /\ DOMAIN s3 = DOMAIN rtmp /\ s3.of = rtmp.of /\ s3.made = rtmp.made /\ s3.conns = rtmp.conns /\ s3.conn_map = rtmp.conn_map
       /\ s3.pubs = pubs /\ s3.clients = clients /\ s3.pub_map = map /\ s3.channels = channels
       /\ s3.stage = rtmp.stage /\ s3.left = rtmp.left /\ s3.clear = rtmp.clear /\ s3.pclear = rtmp.pclear /\ s3.ended = rtmp.ended
  BY <1>8
<1> HIDE DEF s3
<1>17. rtmp' = [s3 EXCEPT !.left = s3.left \ {id}] BY <1>14 DEF Past
<1>18. /\ DOMAIN rtmp' = DOMAIN rtmp /\ rtmp'.of = rtmp.of /\ rtmp'.made = rtmp.made /\ rtmp'.conns = rtmp.conns /\ rtmp'.conn_map = rtmp.conn_map
       /\ rtmp'.pubs = pubs /\ rtmp'.clients = clients /\ rtmp'.pub_map = map /\ rtmp'.channels = channels
       /\ rtmp'.stage = rtmp.stage /\ rtmp'.left = rtmp.left \ {id} /\ rtmp'.clear = rtmp.clear /\ rtmp'.pclear = rtmp.pclear
       /\ rtmp'.ended = rtmp.ended
  BY <1>8, <1>16, <1>17
<1> QED BY <1>1, <1>3, <1>4, <1>5, <1>7, <1>15, <1>18

LEMMA FreeStep == ASSUME RtmpInv, NEW id, FreePublisher(id) PROVE RtmpInv'
<1>0. LiveTypes /\ MapsAgree /\ TurnRight BY DEF RtmpInv, LiveShape
<1> DEFINE c == rtmp.pub_map[id]
<1>1. /\ rtmp.stage = "free" /\ id \in DOMAIN rtmp.pubs
      /\ DOMAIN rtmp' = DOMAIN rtmp /\ rtmp'.of = rtmp.of /\ rtmp'.made = rtmp.made
      /\ rtmp'.conns = rtmp.conns /\ rtmp'.conn_map = rtmp.conn_map
      /\ DOMAIN rtmp'.pubs = DOMAIN rtmp.pubs \ {id} /\ \A p \in DOMAIN rtmp'.pubs : rtmp'.pubs[p] = rtmp.pubs[p]
      /\ DOMAIN rtmp'.clients = DOMAIN rtmp.clients \ {c} /\ \A d \in DOMAIN rtmp'.clients : rtmp'.clients[d] = rtmp.clients[d]
      /\ DOMAIN rtmp'.pub_map = DOMAIN rtmp.pub_map \ {id} /\ \A i \in DOMAIN rtmp'.pub_map : rtmp'.pub_map[i] = rtmp.pub_map[i]
      /\ DOMAIN rtmp'.channels = DOMAIN rtmp.channels
      /\ \A k \in DOMAIN rtmp.channels :
           /\ IsChannel(rtmp'.channels[k]) /\ rtmp'.channels[k].watchers = rtmp.channels[k].watchers
           /\ rtmp'.channels[k].saved = rtmp.channels[k].saved /\ rtmp'.channels[k].starts = rtmp.channels[k].starts
      /\ rtmp'.stage = "free" /\ rtmp'.left = rtmp.left \ {id} /\ rtmp'.clear = rtmp.clear /\ rtmp'.pclear = rtmp.pclear
      /\ rtmp'.ended = rtmp.ended
  BY <1>0, FreeFacts
<1>c. /\ DOMAIN rtmp.conn_map = {i \in DOMAIN rtmp.conns : rtmp.conns[i].open}
      /\ \A i \in DOMAIN rtmp.conn_map :
           /\ rtmp.conn_map[i] \in DOMAIN rtmp.clients /\ rtmp.clients[rtmp.conn_map[i]].conn = i
           /\ rtmp.clients[rtmp.conn_map[i]].action \in {"waiting", "watching"}
      /\ DOMAIN rtmp.pub_map = DOMAIN rtmp.pubs
      /\ \A i \in DOMAIN rtmp.pub_map :
           /\ rtmp.pub_map[i] \in DOMAIN rtmp.clients /\ rtmp.clients[rtmp.pub_map[i]].conn = i
           /\ rtmp.clients[rtmp.pub_map[i]].action = "publishing"
           /\ rtmp.clients[rtmp.pub_map[i]].key = rtmp.pubs[i].key /\ rtmp.pubs[i].key \in DOMAIN rtmp.channels
      /\ \A d \in DOMAIN rtmp.clients :
           (\E i \in DOMAIN rtmp.conn_map : rtmp.conn_map[i] = d) \/ (\E i \in DOMAIN rtmp.pub_map : rtmp.pub_map[i] = d)
      /\ \A d \in DOMAIN rtmp.clients : rtmp.clients[d].action = "watching" => rtmp.clients[d].key \in DOMAIN rtmp.channels
  BY <1>0 DEF MapsAgree
<1>2. c \in DOMAIN rtmp.clients /\ rtmp.clients[c].action = "publishing" /\ rtmp.clients[c].conn = id BY <1>1, <1>c
<1> HIDE DEF c
<1>3. LiveTypes' BY <1>0, <1>1 DEF LiveTypes
<1>4. \A i \in DOMAIN rtmp.conn_map : rtmp.conn_map[i] # c /\ rtmp.conn_map[i] \in DOMAIN rtmp'.clients
  BY <1>1, <1>2, <1>c
<1>5. MapsAgree'
  <2>1. \A i \in DOMAIN rtmp'.conn_map :
          /\ rtmp'.conn_map[i] \in DOMAIN rtmp'.clients /\ rtmp'.clients[rtmp'.conn_map[i]].conn = i
          /\ rtmp'.clients[rtmp'.conn_map[i]].action \in {"waiting", "watching"}
    BY <1>1, <1>c, <1>4
  <2>2. \A i \in DOMAIN rtmp'.pub_map :
          /\ rtmp'.pub_map[i] \in DOMAIN rtmp'.clients /\ rtmp'.clients[rtmp'.pub_map[i]].conn = i
          /\ rtmp'.clients[rtmp'.pub_map[i]].action = "publishing"
          /\ rtmp'.clients[rtmp'.pub_map[i]].key = rtmp'.pubs[i].key /\ rtmp'.pubs[i].key \in DOMAIN rtmp'.channels
    BY <1>1, <1>c, <1>2
  <2>3. ASSUME NEW d \in DOMAIN rtmp'.clients
        PROVE  (\E i \in DOMAIN rtmp'.conn_map : rtmp'.conn_map[i] = d) \/ (\E i \in DOMAIN rtmp'.pub_map : rtmp'.pub_map[i] = d)
    <3>1. d \in DOMAIN rtmp.clients /\ d # c BY <1>1
    <3>2. (\E i \in DOMAIN rtmp.conn_map : rtmp.conn_map[i] = d) \/ (\E i \in DOMAIN rtmp.pub_map : rtmp.pub_map[i] = d)
      BY <1>c, <3>1
    <3> QED BY <1>1, <3>1, <3>2 DEF c
  <2>4. ASSUME OnePlay PROVE WatchersAgree'
    <3>1. WatchersAgree BY <1>0, <2>4 DEF MapsAgree
    <3>2. ASSUME NEW k \in DOMAIN rtmp.channels
          PROVE  rtmp'.channels[k].watchers
                   = {d \in DOMAIN rtmp'.clients : rtmp'.clients[d].action = "watching" /\ rtmp'.clients[d].key = k}
      <4>1. rtmp'.channels[k].watchers = {d \in DOMAIN rtmp.clients : rtmp.clients[d].action = "watching" /\ rtmp.clients[d].key = k}
        BY <1>1, <3>1 DEF WatchersAgree
      <4>2. DOMAIN rtmp'.clients = DOMAIN rtmp.clients \ {c} /\ \A d \in DOMAIN rtmp'.clients : rtmp'.clients[d] = rtmp.clients[d]
        BY <1>1
      <4> QED BY <1>2, <4>1, <4>2
    <3> QED BY <1>1, <3>2 DEF WatchersAgree
  <2>5. \A d \in DOMAIN rtmp'.clients : rtmp'.clients[d].action = "watching" => rtmp'.clients[d].key \in DOMAIN rtmp'.channels
    BY <1>1, <1>c
  <2>6. DOMAIN rtmp'.conn_map = {i \in DOMAIN rtmp'.conns : rtmp'.conns[i].open} /\ DOMAIN rtmp'.pub_map = DOMAIN rtmp'.pubs
    BY <1>1, <1>c
  <2> QED BY <2>1, <2>2, <2>3, <2>4, <2>5, <2>6 DEF MapsAgree
<1>6. TurnRight' BY <1>0, <1>1 DEF TurnRight
<1>7. ASSUME UniqueKeys /\ OnePlay PROVE LiveFlow'
  <2>0. KeysApart /\ ViewsSound /\ ChannelsSound /\ EndsRight BY <1>7 DEF RtmpInv, LiveFlow
  <2>1. KeysApart' BY <1>1, <2>0 DEF KeysApart
  <2>2. ChannelsSound'
    <3> SUFFICES ASSUME NEW k \in DOMAIN rtmp.channels PROVE ChannelSound(k)' BY <1>1 DEF ChannelsSound
    <3>1. ChannelSound(k) BY <2>0 DEF ChannelsSound
    <3>2. SavedSound(rtmp'.channels[k]) BY <1>1, <3>1 DEF ChannelSound, SavedSound
    <3> QED BY <1>1, <3>1, <3>2 DEF ChannelSound
  <2>3. \A i : Watches(i)' = Watches(i) /\ (Watches(i) => WatchesFrom(i)' = WatchesFrom(i))
    BY <1>1, <1>4 DEF Watches, WatchesFrom
  <2>4. ViewsSound'
    <3> SUFFICES ASSUME NEW i \in DOMAIN rtmp.conns, ~rtmp.conns[i].lossy
                 PROVE  Decodable(rtmp.conns[i].log) /\ SeesAll(i, View(rtmp.conns[i]))'
      BY <1>1 DEF ViewsSound
    <3> DEFINE V == View(rtmp.conns[i])
    <3>1. Decodable(rtmp.conns[i].log) /\ SeesAll(i, V) BY <2>0 DEF ViewsSound
    <3>2. View(rtmp.conns[i])' = V BY <1>1 DEF View
    <3> HIDE DEF V
    <3>3. SeesAll(i, View(rtmp.conns[i]))' BY <1>1, <2>3, <3>1, <3>2 DEF SeesAll
    <3> QED BY <3>1, <3>3
  <2>5. EndsRight'
    <3>1. ASSUME NEW i \in DOMAIN rtmp.conns
          PROVE  /\ ~HasEnd(rtmp.conns[i].log)
                 /\ HasEnd(rtmp.conns[i].sent) => i \in rtmp.clear /\ Watches(i)'
                 /\ ~rtmp.conns[i].lossy => EndLast(View(rtmp.conns[i]))
      BY <1>1, <2>0, <2>3 DEF EndsRight
    <3> QED BY <1>1, <2>0, <3>1 DEF EndsRight
  <2> QED BY <2>1, <2>2, <2>4, <2>5 DEF LiveFlow
<1> QED BY <1>3, <1>5, <1>6, <1>7 DEF RtmpInv, LiveShape

LEMMA CloseFacts ==
  ASSUME LiveTypes, MapsAgree, TurnRight, NEW id, CloseConnection(id),
         NEW gone, gone = IF id \in DOMAIN rtmp.conn_map THEN {rtmp.conn_map[id]} ELSE {}
  PROVE  /\ rtmp.stage = "close" /\ id \in DOMAIN rtmp.conns
         /\ DOMAIN rtmp' = DOMAIN rtmp /\ rtmp'.of = rtmp.of /\ rtmp'.made = rtmp.made
         /\ rtmp'.pubs = rtmp.pubs /\ rtmp'.pub_map = rtmp.pub_map
         /\ DOMAIN rtmp'.conns = DOMAIN rtmp.conns \ {id} /\ \A i \in DOMAIN rtmp'.conns : rtmp'.conns[i] = rtmp.conns[i]
         /\ DOMAIN rtmp'.clients = DOMAIN rtmp.clients \ gone /\ \A d \in DOMAIN rtmp'.clients : rtmp'.clients[d] = rtmp.clients[d]
         /\ DOMAIN rtmp'.conn_map = DOMAIN rtmp.conn_map \ {id} /\ \A i \in DOMAIN rtmp'.conn_map : rtmp'.conn_map[i] = rtmp.conn_map[i]
         /\ DOMAIN rtmp'.channels = DOMAIN rtmp.channels
         /\ \A k \in DOMAIN rtmp.channels :
              /\ IsChannel(rtmp'.channels[k])
              /\ rtmp'.channels[k].saved = rtmp.channels[k].saved /\ rtmp'.channels[k].starts = rtmp.channels[k].starts
              /\ OnePlay => rtmp'.channels[k].watchers = rtmp.channels[k].watchers \ gone
         /\ rtmp'.stage = "close" /\ rtmp'.left = rtmp.left \ {id} /\ rtmp'.clear = rtmp.clear /\ rtmp'.pclear = rtmp.pclear
         /\ rtmp'.ended = rtmp.ended \cup {rtmp.conns[id]}
<1>1. rtmp.stage = "close" /\ id \in rtmp.left /\ id \in DOMAIN rtmp.conns BY DEF CloseConnection, LooksAt, TurnRight
<1> DEFINE c == rtmp.conn_map[id]
           client == rtmp.clients[c]
           key == client.key
           conns == Dropping(rtmp.conns, id)
           ended == rtmp.ended \cup {rtmp.conns[id]}
           map == Dropping(rtmp.conn_map, id)
           clients == Dropping(rtmp.clients, c)
           ch == [rtmp.channels[key] EXCEPT !.watchers = rtmp.channels[key].watchers \ {c}]
           channels == [rtmp.channels EXCEPT ![key] = ch]
           s1 == [rtmp EXCEPT !.conns = conns, !.ended = ended]
           s2 == [s1 EXCEPT !.conn_map = map, !.clients = clients]
           s3 == [s2 EXCEPT !.channels = channels]
<1>2. DOMAIN conns = DOMAIN rtmp.conns \ {id} /\ \A p \in DOMAIN conns : conns[p] = rtmp.conns[p] BY DEF Dropping
<1>3. DOMAIN map = DOMAIN rtmp.conn_map \ {id} /\ \A p \in DOMAIN map : map[p] = rtmp.conn_map[p] BY DEF Dropping
<1>4. DOMAIN clients = DOMAIN rtmp.clients \ {c} /\ \A p \in DOMAIN clients : clients[p] = rtmp.clients[p] BY DEF Dropping
<1>5. DOMAIN rtmp = {"of", "stage", "left", "conns", "pubs", "clients", "conn_map", "pub_map", "channels", "clear", "pclear",
                     "made", "sockets", "ended"} BY DEF LiveTypes
<1>6. rtmp' = Past(notify_connection_closed(s1, id), id) BY DEF CloseConnection
<1> HIDE DEF conns, ended
<1>7. /\ DOMAIN s1 = DOMAIN rtmp /\ s1.of = rtmp.of /\ s1.made = rtmp.made /\ s1.conns = conns /\ s1.conn_map = rtmp.conn_map
      /\ s1.pubs = rtmp.pubs /\ s1.clients = rtmp.clients /\ s1.pub_map = rtmp.pub_map /\ s1.channels = rtmp.channels
      /\ s1.stage = rtmp.stage /\ s1.left = rtmp.left /\ s1.clear = rtmp.clear /\ s1.pclear = rtmp.pclear /\ s1.ended = ended
  BY <1>5
<1> HIDE DEF s1
<1>8. \A k \in DOMAIN rtmp.channels : IsChannel(rtmp.channels[k]) BY DEF LiveTypes
<1>9. CASE id \notin DOMAIN rtmp.conn_map
  <2>1. notify_connection_closed(s1, id) = s1 BY <1>7, <1>9 DEF notify_connection_closed
  <2>2. rtmp' = [s1 EXCEPT !.left = s1.left \ {id}] BY <1>6, <2>1 DEF Past
  <2>3. /\ DOMAIN rtmp' = DOMAIN rtmp /\ rtmp'.of = rtmp.of /\ rtmp'.made = rtmp.made /\ rtmp'.conns = conns /\ rtmp'.conn_map = rtmp.conn_map
        /\ rtmp'.pubs = rtmp.pubs /\ rtmp'.clients = rtmp.clients /\ rtmp'.pub_map = rtmp.pub_map /\ rtmp'.channels = rtmp.channels
        /\ rtmp'.stage = rtmp.stage /\ rtmp'.left = rtmp.left \ {id} /\ rtmp'.clear = rtmp.clear /\ rtmp'.pclear = rtmp.pclear
        /\ rtmp'.ended = ended
    BY <1>5, <1>7, <2>2
  <2>4. gone = {} BY <1>9
  <2>5. \A k \in DOMAIN rtmp.channels : rtmp.channels[k].watchers = rtmp.channels[k].watchers \ {}
    <3>1. ASSUME NEW w PROVE w = w \ {} OBVIOUS
    <3> QED BY <3>1
  <2>6. DOMAIN rtmp.clients = DOMAIN rtmp.clients \ {} OBVIOUS
  <2>7. DOMAIN rtmp.conn_map = DOMAIN rtmp.conn_map \ {id} BY <1>9
  <2> HIDE DEF map, clients, channels, key, client, c, ch
  <2> QED BY <1>1, <1>2, <1>8, <2>3, <2>4, <2>5, <2>6, <2>7 DEF ended
<1>10. CASE id \in DOMAIN rtmp.conn_map
  <2>0. gone = {c} BY <1>10
  <2>1. notify_connection_closed(s1, id) = IF client.action = "watching" THEN play_ended(s2, key, c) ELSE s2
    <3>1. s1.conn_map[id] = c /\ s1.clients[c] = client BY <1>7
    <3> QED BY <1>7, <1>10, <3>1 DEF notify_connection_closed
  <2>a. client.action = "watching" => key \in DOMAIN rtmp.channels /\ c \in DOMAIN rtmp.clients BY <1>10 DEF MapsAgree
  <2>b. OnePlay => \A k \in DOMAIN rtmp.channels : c \in rtmp.channels[k].watchers => client.action = "watching" /\ k = key
    BY DEF MapsAgree, WatchersAgree
  <2>c. DOMAIN channels = DOMAIN rtmp.channels /\ (key \in DOMAIN rtmp.channels => channels[key] = ch)
        /\ \A k \in DOMAIN rtmp.channels : k # key => channels[k] = rtmp.channels[k]
    OBVIOUS
  <2>d. key \in DOMAIN rtmp.channels =>
          /\ IsChannel(ch) /\ ch.watchers = rtmp.channels[key].watchers \ {c}
          /\ ch.saved = rtmp.channels[key].saved /\ ch.starts = rtmp.channels[key].starts
    <3> SUFFICES ASSUME key \in DOMAIN rtmp.channels
                 PROVE  /\ IsChannel(ch) /\ ch.watchers = rtmp.channels[key].watchers \ {c}
                        /\ ch.saved = rtmp.channels[key].saved /\ ch.starts = rtmp.channels[key].starts
      OBVIOUS
    <3> DEFINE old == rtmp.channels[key]
    <3>1. IsChannel(old) BY <1>8
    <3>2. ch = [old EXCEPT !.watchers = old.watchers \ {c}] OBVIOUS
    <3> HIDE DEF old, ch, c, key
    <3> QED BY <3>1, <3>2 DEF IsChannel, old
  <2> HIDE DEF map, clients
  <2>e. /\ DOMAIN s2 = DOMAIN rtmp /\ s2.of = rtmp.of /\ s2.made = rtmp.made /\ s2.conns = conns /\ s2.conn_map = map
        /\ s2.pubs = rtmp.pubs /\ s2.clients = clients /\ s2.pub_map = rtmp.pub_map /\ s2.channels = rtmp.channels
        /\ s2.stage = rtmp.stage /\ s2.left = rtmp.left /\ s2.clear = rtmp.clear /\ s2.pclear = rtmp.pclear /\ s2.ended = ended
    BY <1>5, <1>7
  <2>f. play_ended(s2, key, c) = s3
    <3>1. play_ended(s2, key, c) = [s2 EXCEPT !.channels[key].watchers = @ \ {c}] BY DEF play_ended
    <3>2. [s2 EXCEPT !.channels[key].watchers = @ \ {c}]
            = [s2 EXCEPT !.channels = [s2.channels EXCEPT ![key] = [s2.channels[key] EXCEPT !.watchers = s2.channels[key].watchers \ {c}]]]
      OBVIOUS
    <3> HIDE DEF s2, c, key
    <3> QED BY <2>e, <3>1, <3>2
  <2> HIDE DEF s2, channels, ch
  <2>g. /\ DOMAIN s3 = DOMAIN rtmp /\ s3.of = rtmp.of /\ s3.made = rtmp.made /\ s3.conns = conns /\ s3.conn_map = map
        /\ s3.pubs = rtmp.pubs /\ s3.clients = clients /\ s3.pub_map = rtmp.pub_map /\ s3.channels = channels
        /\ s3.stage = rtmp.stage /\ s3.left = rtmp.left /\ s3.clear = rtmp.clear /\ s3.pclear = rtmp.pclear /\ s3.ended = ended
    BY <1>5, <2>e
  <2> HIDE DEF s3
  <2> DEFINE chans == IF client.action = "watching" THEN channels ELSE rtmp.channels
             s4 == IF client.action = "watching" THEN s3 ELSE s2
  <2>h. /\ DOMAIN s4 = DOMAIN rtmp /\ s4.of = rtmp.of /\ s4.made = rtmp.made /\ s4.conns = conns /\ s4.conn_map = map
        /\ s4.pubs = rtmp.pubs /\ s4.clients = clients /\ s4.pub_map = rtmp.pub_map /\ s4.channels = chans
        /\ s4.stage = rtmp.stage /\ s4.left = rtmp.left /\ s4.clear = rtmp.clear /\ s4.pclear = rtmp.pclear /\ s4.ended = ended
    <3>1. CASE client.action = "watching" BY <2>g, <3>1
    <3>2. CASE client.action # "watching" BY <2>e, <3>2
    <3> QED BY <3>1, <3>2
  <2>i. rtmp' = Past(s4, id) BY <1>6, <2>1, <2>f
  <2>j. DOMAIN chans = DOMAIN rtmp.channels BY <2>c
  <2>k. ASSUME NEW k \in DOMAIN rtmp.channels
        PROVE  /\ IsChannel(chans[k])
               /\ chans[k].saved = rtmp.channels[k].saved /\ chans[k].starts = rtmp.channels[k].starts
               /\ OnePlay => chans[k].watchers = rtmp.channels[k].watchers \ gone
    <3> HIDE DEF c, key, client
    <3>1. CASE client.action = "watching" /\ k = key BY <2>0, <2>c, <2>d, <3>1
    <3>2. CASE ~(client.action = "watching" /\ k = key)
      <4>1. chans[k] = rtmp.channels[k] BY <2>c, <3>2
      <4>2. OnePlay => c \notin rtmp.channels[k].watchers BY <2>b, <3>2
      <4>3. OnePlay => rtmp.channels[k].watchers = rtmp.channels[k].watchers \ {c}
        <5> SUFFICES ASSUME NEW w, c \notin w PROVE w = w \ {c} BY <4>2
        <5> QED OBVIOUS
      <4> QED BY <1>8, <2>0, <4>1, <4>3
    <3> QED BY <3>1, <3>2
  <2> HIDE DEF s4, chans
  <2>l. rtmp' = [s4 EXCEPT !.left = s4.left \ {id}] BY <2>i DEF Past
  <2>m. /\ DOMAIN rtmp' = DOMAIN rtmp /\ rtmp'.of = rtmp.of /\ rtmp'.made = rtmp.made /\ rtmp'.conns = conns /\ rtmp'.conn_map = map
        /\ rtmp'.pubs = rtmp.pubs /\ rtmp'.clients = clients /\ rtmp'.pub_map = rtmp.pub_map /\ rtmp'.channels = chans
        /\ rtmp'.stage = rtmp.stage /\ rtmp'.left = rtmp.left \ {id} /\ rtmp'.clear = rtmp.clear /\ rtmp'.pclear = rtmp.pclear
        /\ rtmp'.ended = ended
    BY <1>5, <2>h, <2>l
  <2> HIDE DEF key, client, c
  <2> QED BY <1>1, <1>2, <1>3, <1>4, <2>0, <2>j, <2>k, <2>m DEF ended
<1> QED BY <1>9, <1>10

LEMMA CloseStep == ASSUME RtmpInv, NEW id, CloseConnection(id) PROVE RtmpInv'
<1>0. LiveTypes /\ MapsAgree /\ TurnRight BY DEF RtmpInv, LiveShape
<1> DEFINE gone == IF id \in DOMAIN rtmp.conn_map THEN {rtmp.conn_map[id]} ELSE {}
<1>1. /\ rtmp.stage = "close" /\ id \in DOMAIN rtmp.conns
      /\ DOMAIN rtmp' = DOMAIN rtmp /\ rtmp'.of = rtmp.of /\ rtmp'.made = rtmp.made
      /\ rtmp'.pubs = rtmp.pubs /\ rtmp'.pub_map = rtmp.pub_map
      /\ DOMAIN rtmp'.conns = DOMAIN rtmp.conns \ {id} /\ \A i \in DOMAIN rtmp'.conns : rtmp'.conns[i] = rtmp.conns[i]
      /\ DOMAIN rtmp'.clients = DOMAIN rtmp.clients \ gone /\ \A d \in DOMAIN rtmp'.clients : rtmp'.clients[d] = rtmp.clients[d]
      /\ DOMAIN rtmp'.conn_map = DOMAIN rtmp.conn_map \ {id} /\ \A i \in DOMAIN rtmp'.conn_map : rtmp'.conn_map[i] = rtmp.conn_map[i]
      /\ DOMAIN rtmp'.channels = DOMAIN rtmp.channels
      /\ \A k \in DOMAIN rtmp.channels :
           /\ IsChannel(rtmp'.channels[k])
           /\ rtmp'.channels[k].saved = rtmp.channels[k].saved /\ rtmp'.channels[k].starts = rtmp.channels[k].starts
           /\ OnePlay => rtmp'.channels[k].watchers = rtmp.channels[k].watchers \ gone
      /\ rtmp'.stage = "close" /\ rtmp'.left = rtmp.left \ {id} /\ rtmp'.clear = rtmp.clear /\ rtmp'.pclear = rtmp.pclear
      /\ rtmp'.ended = rtmp.ended \cup {rtmp.conns[id]}
  <2>1. gone = IF id \in DOMAIN rtmp.conn_map THEN {rtmp.conn_map[id]} ELSE {} OBVIOUS
  <2> HIDE DEF gone
  <2> QED BY <1>0, <2>1, CloseFacts
<1>c. /\ DOMAIN rtmp.conn_map = {i \in DOMAIN rtmp.conns : rtmp.conns[i].open}
      /\ \A i \in DOMAIN rtmp.conn_map :
           /\ rtmp.conn_map[i] \in DOMAIN rtmp.clients /\ rtmp.clients[rtmp.conn_map[i]].conn = i
           /\ rtmp.clients[rtmp.conn_map[i]].action \in {"waiting", "watching"}
      /\ DOMAIN rtmp.pub_map = DOMAIN rtmp.pubs
      /\ \A i \in DOMAIN rtmp.pub_map :
           /\ rtmp.pub_map[i] \in DOMAIN rtmp.clients /\ rtmp.clients[rtmp.pub_map[i]].conn = i
           /\ rtmp.clients[rtmp.pub_map[i]].action = "publishing"
           /\ rtmp.clients[rtmp.pub_map[i]].key = rtmp.pubs[i].key /\ rtmp.pubs[i].key \in DOMAIN rtmp.channels
      /\ \A d \in DOMAIN rtmp.clients :
           (\E i \in DOMAIN rtmp.conn_map : rtmp.conn_map[i] = d) \/ (\E i \in DOMAIN rtmp.pub_map : rtmp.pub_map[i] = d)
      /\ \A d \in DOMAIN rtmp.clients : rtmp.clients[d].action = "watching" => rtmp.clients[d].key \in DOMAIN rtmp.channels
  BY <1>0 DEF MapsAgree
<1>2. \A d \in gone : id \in DOMAIN rtmp.conn_map /\ d = rtmp.conn_map[id] /\ rtmp.clients[d].conn = id
                      /\ rtmp.clients[d].action \in {"waiting", "watching"}
  BY <1>c
<1>g. id \in DOMAIN rtmp.conn_map => rtmp.conn_map[id] \in gone OBVIOUS
<1> HIDE DEF gone
<1>3. LiveTypes' BY <1>0, <1>1 DEF LiveTypes
<1>4. \A i \in DOMAIN rtmp.conn_map : i # id => rtmp.conn_map[i] \notin gone /\ rtmp.conn_map[i] \in DOMAIN rtmp'.clients
  BY <1>1, <1>2, <1>c
<1>5. MapsAgree'
  <2>1. \A i \in DOMAIN rtmp'.conn_map :
          /\ rtmp'.conn_map[i] \in DOMAIN rtmp'.clients /\ rtmp'.clients[rtmp'.conn_map[i]].conn = i
          /\ rtmp'.clients[rtmp'.conn_map[i]].action \in {"waiting", "watching"}
    BY <1>1, <1>c, <1>4
  <2>2. \A i \in DOMAIN rtmp'.pub_map :
          /\ rtmp'.pub_map[i] \in DOMAIN rtmp'.clients /\ rtmp'.clients[rtmp'.pub_map[i]].conn = i
          /\ rtmp'.clients[rtmp'.pub_map[i]].action = "publishing"
          /\ rtmp'.clients[rtmp'.pub_map[i]].key = rtmp'.pubs[i].key /\ rtmp'.pubs[i].key \in DOMAIN rtmp'.channels
    BY <1>1, <1>c, <1>2
  <2>3. ASSUME NEW d \in DOMAIN rtmp'.clients
        PROVE  (\E i \in DOMAIN rtmp'.conn_map : rtmp'.conn_map[i] = d) \/ (\E i \in DOMAIN rtmp'.pub_map : rtmp'.pub_map[i] = d)
    <3>1. d \in DOMAIN rtmp.clients /\ d \notin gone BY <1>1
    <3>2. (\E i \in DOMAIN rtmp.conn_map : rtmp.conn_map[i] = d) \/ (\E i \in DOMAIN rtmp.pub_map : rtmp.pub_map[i] = d)
      BY <1>c, <3>1
    <3> QED BY <1>1, <1>g, <3>1, <3>2
  <2>4. ASSUME OnePlay PROVE WatchersAgree'
    <3>1. WatchersAgree BY <1>0, <2>4 DEF MapsAgree
    <3>2. ASSUME NEW k \in DOMAIN rtmp.channels
          PROVE  rtmp'.channels[k].watchers
                   = {d \in DOMAIN rtmp'.clients : rtmp'.clients[d].action = "watching" /\ rtmp'.clients[d].key = k}
      <4>1. rtmp'.channels[k].watchers = {d \in DOMAIN rtmp.clients : rtmp.clients[d].action = "watching" /\ rtmp.clients[d].key = k} \ gone
        BY <1>1, <2>4, <3>1 DEF WatchersAgree
      <4>2. DOMAIN rtmp'.clients = DOMAIN rtmp.clients \ gone /\ \A d \in DOMAIN rtmp'.clients : rtmp'.clients[d] = rtmp.clients[d]
        BY <1>1
      <4> QED BY <4>1, <4>2
    <3> QED BY <1>1, <3>2 DEF WatchersAgree
  <2>5. \A d \in DOMAIN rtmp'.clients : rtmp'.clients[d].action = "watching" => rtmp'.clients[d].key \in DOMAIN rtmp'.channels
    BY <1>1, <1>c
  <2>6. DOMAIN rtmp'.conn_map = {i \in DOMAIN rtmp'.conns : rtmp'.conns[i].open} /\ DOMAIN rtmp'.pub_map = DOMAIN rtmp'.pubs
    BY <1>1, <1>c
  <2> QED BY <2>1, <2>2, <2>3, <2>4, <2>5, <2>6 DEF MapsAgree
<1>6. TurnRight' BY <1>0, <1>1 DEF TurnRight
<1>7. ASSUME UniqueKeys /\ OnePlay PROVE LiveFlow'
  <2>0. KeysApart /\ ViewsSound /\ ChannelsSound /\ EndsRight BY <1>7 DEF RtmpInv, LiveFlow
  <2>1. KeysApart' BY <1>1, <2>0 DEF KeysApart
  <2>2. ChannelsSound'
    <3> SUFFICES ASSUME NEW k \in DOMAIN rtmp.channels PROVE ChannelSound(k)' BY <1>1 DEF ChannelsSound
    <3>1. ChannelSound(k) BY <2>0 DEF ChannelsSound
    <3>2. SavedSound(rtmp'.channels[k]) BY <1>1, <3>1 DEF ChannelSound, SavedSound
    <3> QED BY <1>1, <3>1, <3>2 DEF ChannelSound
  <2>3. \A i : i # id => Watches(i)' = Watches(i) /\ (Watches(i) => WatchesFrom(i)' = WatchesFrom(i))
    BY <1>1, <1>4 DEF Watches, WatchesFrom
  <2>4. ViewsSound'
    <3> SUFFICES ASSUME NEW i \in DOMAIN rtmp'.conns, ~rtmp.conns[i].lossy
                 PROVE  Decodable(rtmp.conns[i].log) /\ SeesAll(i, View(rtmp.conns[i]))'
      BY <1>1 DEF ViewsSound
    <3> DEFINE V == View(rtmp.conns[i])
    <3>0. i \in DOMAIN rtmp.conns /\ i # id BY <1>1
    <3>1. Decodable(rtmp.conns[i].log) /\ SeesAll(i, V) BY <2>0, <3>0 DEF ViewsSound
    <3>2. View(rtmp.conns[i])' = V BY <1>1 DEF View
    <3> HIDE DEF V
    <3>3. SeesAll(i, View(rtmp.conns[i]))' BY <1>1, <2>3, <3>0, <3>1, <3>2 DEF SeesAll
    <3> QED BY <3>1, <3>3
  <2>5. EndsRight'
    <3>1. \A i \in DOMAIN rtmp.conns :
            /\ HasEnd(rtmp.conns[i].log) => i \in rtmp.left
            /\ ~HasEnd(rtmp.conns[i].sent)
            /\ ~rtmp.conns[i].lossy => EndLast(View(rtmp.conns[i]))
      BY <1>1, <2>0 DEF EndsRight
    <3>2. ~rtmp.conns[id].lossy => Decodable(rtmp.conns[id].log) /\ EndLast(rtmp.conns[id].log)
      <4>1. IsConn(rtmp.conns[id]) /\ rtmp.conns[id].sent = << >> BY <1>0, <1>1 DEF LiveTypes, TurnRight
      <4>2. View(rtmp.conns[id]) = rtmp.conns[id].log BY <4>1, ViewFacts
      <4> QED BY <1>1, <2>0, <3>1, <4>2 DEF ViewsSound
    <3>3. \A e \in rtmp'.ended : ~e.lossy => Decodable(e.log) /\ EndLast(e.log) BY <1>1, <2>0, <3>2 DEF EndsRight
    <3> QED BY <1>1, <3>1, <3>3 DEF EndsRight
  <2> QED BY <2>1, <2>2, <2>4, <2>5 DEF LiveFlow
<1> QED BY <1>3, <1>5, <1>6, <1>7 DEF RtmpInv, LiveShape

-----------------------------------------------------------------------------
(* A publisher's frames and its end, told to the players of its stream *)
LEMMA EndAppend ==
  ASSUME NEW V \in Seq(Packets), NEW f \in Packets, NEW W, W = Append(V, f)
  PROVE  /\ HasEnd(W) => HasEnd(V) \/ f.kind = "end"
         /\ ~HasEnd(V) => EndLast(W)
<1> DEFINE l == Len(V)
<1>1. Appended(V, f, W) BY AppendedView
<1>2. /\ l \in Nat /\ DOMAIN V = 1 .. l /\ DOMAIN W = 1 .. l + 1 /\ W[l + 1] = f /\ Len(W) = l + 1
      /\ \A i \in 1 .. l : W[i] = V[i]
  BY <1>1 DEF Appended
<1> HIDE DEF l
<1>3. \A i \in 1 .. l + 1 : i = l + 1 \/ i \in 1 .. l BY <1>2
<1>4. HasEnd(W) => HasEnd(V) \/ f.kind = "end" BY <1>2, <1>3 DEF HasEnd
<1>5. ~HasEnd(V) => EndLast(W) BY <1>2, <1>3 DEF HasEnd, EndLast
<1> QED BY <1>4, <1>5

LEMMA ViewAppend ==
  ASSUME NEW conn, IsConn(conn), NEW f \in Packets, NEW new, new.log = conn.log, new.sent = Append(conn.sent, f)
  PROVE  View(new) = Append(View(conn), f)
<1> DEFINE L == conn.log
           M == conn.sent
<1>1. L \in Seq(Packets) /\ M \in Seq(Packets) BY DEF IsConn
<1>2. View(new) = L \o Append(M, f) /\ View(conn) = L \o M BY DEF View
<1> HIDE DEF L, M
<1>3. L \o Append(M, f) = Append(L \o M, f) BY <1>1
<1> QED BY <1>2, <1>3

LEMMA OutFacts ==
  ASSUME LiveTypes, NEW s, s.conns = rtmp.conns, s.clients = rtmp.clients, NEW to, NEW f \in Packets,
         NEW conns, conns = Out(s, to, f)
  PROVE  /\ DOMAIN conns = DOMAIN rtmp.conns
         /\ \A i \in DOMAIN rtmp.conns :
              /\ IsConn(conns[i]) /\ conns[i].open = rtmp.conns[i].open /\ conns[i].log = rtmp.conns[i].log
              /\ conns[i].lossy = rtmp.conns[i].lossy
              /\ i \in {rtmp.clients[c].conn : c \in to} => conns[i].sent = Append(rtmp.conns[i].sent, f)
              /\ i \notin {rtmp.clients[c].conn : c \in to} => conns[i].sent = rtmp.conns[i].sent
<1> DEFINE told == {rtmp.clients[c].conn : c \in to}
<1>1. conns = [i \in DOMAIN rtmp.conns |-> IF i \in told THEN [rtmp.conns[i] EXCEPT !.sent = Append(rtmp.conns[i].sent, f)] ELSE rtmp.conns[i]]
  BY DEF Out
<1> HIDE DEF told
<1>2. ASSUME NEW i \in DOMAIN rtmp.conns
      PROVE  /\ IsConn(conns[i]) /\ conns[i].open = rtmp.conns[i].open /\ conns[i].log = rtmp.conns[i].log
             /\ conns[i].lossy = rtmp.conns[i].lossy
             /\ i \in told => conns[i].sent = Append(rtmp.conns[i].sent, f)
             /\ i \notin told => conns[i].sent = rtmp.conns[i].sent
  <2> DEFINE conn == rtmp.conns[i]
             new == conns[i]
  <2>1. IsConn(conn) BY DEF LiveTypes
  <2>2. new = IF i \in told THEN [conn EXCEPT !.sent = Append(conn.sent, f)] ELSE conn BY <1>1
  <2> HIDE DEF conn, new
  <2>3. CASE i \in told
    <3>1. new = [conn EXCEPT !.sent = Append(conn.sent, f)] BY <2>2, <2>3
    <3>2. Append(conn.sent, f) \in Seq(Packets) BY <2>1 DEF IsConn
    <3> QED BY <2>1, <2>3, <3>1, <3>2 DEF IsConn, conn, new
  <2>4. CASE i \notin told BY <2>1, <2>2, <2>4 DEF conn, new
  <2> QED BY <2>3, <2>4
<1>3. DOMAIN conns = DOMAIN rtmp.conns BY <1>1
<1> QED BY <1>2, <1>3 DEF told

(* What a player sees that is told the next frame *)
LEMMA ToldSees ==
  ASSUME NEW V \in Seq(Packets), NEW p, IsPublisher(p), p.at < Len(p.script), NEW f, f = NextFrame(p), NEW q, q = Advanced(p),
         NEW W, W = Append(V, f), SoundView(V), Below(V, p), NEW got, got \in BOOLEAN,
         got => Follows(V, p), ~got => \A s : ~KeyIn(V, s), got \/ f.kind \in {"meta", "vhdr", "ahdr", "key"}
  PROVE  /\ W \in Seq(Packets) /\ SoundView(W) /\ Below(W, q)
         /\ got \/ f.kind = "key" => Follows(W, q)
         /\ ~(got \/ f.kind = "key") => \A s : ~KeyIn(W, s)
<1>1. /\ f \in Packets /\ f.pub = p.serial /\ ~f.early /\ q.serial = p.serial
      /\ f.kind = "inter" => KeyedNow(p)
      /\ KeyedNow(q) => KeyedNow(p) \/ f.kind = "key"
  BY NextFrameFacts
<1>2. KeyIn(V, p.serial) => Latest(V, p) BY DEF Follows
<1>3. f.kind = "inter" => KeyIn(V, p.serial) BY <1>1 DEF Follows
<1>4. /\ SoundView(W) /\ Below(W, q)
      /\ f.kind # "meta" => Latest(W, q)
      /\ Latest(V, p) => Latest(W, q)
  BY <1>2, <1>3, GoesOn
<1>5. /\ KeyIn(V, p.serial) => KeyIn(W, p.serial)
      /\ \A s : KeyIn(W, s) => KeyIn(V, s) \/ f.kind = "key"
      /\ f.kind = "key" => KeyIn(W, p.serial)
  BY <1>1, KeyAppend
<1>6. W \in Seq(Packets) BY <1>1
<1>7. ASSUME got \/ f.kind = "key" PROVE Follows(W, q)
  <2>1. Latest(W, q) BY <1>4, <1>7 DEF Follows
  <2>2. KeyedNow(q) => KeyIn(W, q.serial) BY <1>1, <1>5, <1>7 DEF Follows
  <2> QED BY <2>1, <2>2 DEF Follows
<1>8. ASSUME ~(got \/ f.kind = "key") PROVE \A s : ~KeyIn(W, s) BY <1>5, <1>8
<1> QED BY <1>4, <1>6, <1>7, <1>8

(* What is kept for those who come late, with the next frame *)
LEMMA KeepingFacts ==
  ASSUME NEW ch, IsChannel(ch), NEW limit \in Nat, NEW p, IsPublisher(p), p.at < Len(p.script), NEW f, f = NextFrame(p),
         NEW new, new = Keeping(ch, f, limit)
  PROVE  /\ IsChannel(new) /\ new.watchers = ch.watchers
         /\ f.kind = "meta" \/ limit = 0 => new.saved = ch.saved
         /\ f.kind # "meta" /\ limit # 0 => new.saved = save_frame_data(ch, f, limit).saved
<1>1. f \in Packets /\ f.kind # "end" /\ f.kind \in SentKinds /\ f = [kind |-> f.kind, pub |-> f.pub, n |-> f.n, early |-> f.early]
  <2>1. f \in Packets /\ f.kind \in SentKinds
    <3> DEFINE q == Advanced(p)
    <3>1. q = Advanced(p) OBVIOUS
    <3> HIDE DEF q
    <3> QED BY <3>1, NextFrameFacts
  <2>2. f = [kind |-> f.kind, pub |-> f.pub, n |-> f.n, early |-> f.early] BY <2>1 DEF Packets
  <2> QED BY <2>1, <2>2 DEF SentKinds
<1> DEFINE late == [f EXCEPT !.early = TRUE]
           head == <<late>>
<1>2. head \in Seq(Packets) /\ Early(head)
  <2>1. late \in Packets /\ late.early = TRUE /\ late.kind # "end" BY <1>1 DEF Packets
  <2> HIDE DEF late
  <2>2. head \in Seq(Packets) /\ DOMAIN head = 1 .. 1 /\ head[1] = late BY <2>1
  <2>3. \A i \in 1 .. 1 : i = 1 OBVIOUS
  <2> HIDE DEF head
  <2> QED BY <2>1, <2>2, <2>3 DEF Early
<1>3. CASE f.kind = "meta"
  <2>1. new = [ch EXCEPT !.meta = head] BY <1>3 DEF Keeping
  <2> HIDE DEF late, head
  <2> QED BY <1>2, <1>3, <2>1 DEF IsChannel
<1>4. CASE f.kind # "meta"
  <2> DEFINE kept == save_frame_data(ch, f, limit)
             v == IF f.kind = "vhdr" THEN head ELSE kept.vhdr
             a == IF f.kind = "ahdr" THEN head ELSE kept.ahdr
  <2>1. new = [kept EXCEPT !.vhdr = v, !.ahdr = a] BY <1>4 DEF Keeping
  <2>2. limit = 0 => kept = ch BY DEF save_frame_data
  <2>3. IsChannel(kept) /\ kept.watchers = ch.watchers
    <3>1. CASE limit = 0 BY <2>2, <3>1
    <3>2. CASE limit # 0
      <4>1. limit \in Nat \ {0} /\ kept = save_frame_data(ch, f, limit) BY <3>2
      <4> HIDE DEF kept
      <4> QED BY <1>1, <4>1, SaveGroups
    <3> QED BY <3>1, <3>2
  <2> HIDE DEF late, head, kept
  <2>4. v \in Seq(Packets) /\ a \in Seq(Packets) /\ Early(v) /\ Early(a) BY <1>2, <2>3 DEF IsChannel
  <2> HIDE DEF v, a
  <2>5. IsChannel(new) /\ new.watchers = kept.watchers /\ new.saved = kept.saved BY <2>1, <2>3, <2>4 DEF IsChannel
  <2> QED BY <1>4, <2>2, <2>3, <2>5 DEF kept
<1> QED BY <1>3, <1>4

LEMMA KeepSound ==
  ASSUME NEW ch, IsChannel(ch), SavedSound(ch), NEW limit \in Nat, limit = 0 => ch.saved = << >>,
         NEW p, IsPublisher(p), p.at < Len(p.script), NEW f, f = NextFrame(p), NEW q, q = Advanced(p),
         limit # 0 => Follows(ch.saved, p), Below(ch.saved, p), \A i \in DOMAIN ch.saved : ch.saved[i].pub <= p.serial,
         NEW new, new = Keeping(ch, f, limit)
  PROVE  /\ SavedSound(new) /\ (limit = 0 => new.saved = << >>) /\ Below(new.saved, q)
         /\ limit # 0 => Follows(new.saved, q)
         /\ \A i \in DOMAIN new.saved : new.saved[i] = f \/ \E k \in DOMAIN ch.saved : new.saved[i] = ch.saved[k]
<1>1. /\ f.kind = "meta" \/ limit = 0 => new.saved = ch.saved
      /\ f.kind # "meta" /\ limit # 0 => new.saved = save_frame_data(ch, f, limit).saved
  BY ONLY IsChannel(ch), limit \in Nat, IsPublisher(p), p.at < Len(p.script), f = NextFrame(p), new = Keeping(ch, f, limit), KeepingFacts
<1>2. /\ (f.kind = "meta" => q.n = p.n) /\ q.serial = p.serial
      /\ KeyedNow(q) => KeyedNow(p) \/ f.kind = "key"
  BY NextFrameFacts
<1>3. CASE limit = 0
  <2>1. new.saved = << >> /\ DOMAIN << >> = {} BY <1>1, <1>3
  <2> QED BY <1>3, <2>1, EmptyView DEF SavedSound
<1>4. CASE limit # 0 /\ f.kind = "meta"
  <2>1. new.saved = ch.saved BY <1>1, <1>4
  <2>2. Below(ch.saved, q) BY <1>2, <1>4 DEF Below
  <2>3. Follows(ch.saved, q) BY <1>2, <1>4 DEF Follows, Latest
  <2> QED BY <1>4, <2>1, <2>2, <2>3 DEF SavedSound
<1>5. CASE limit # 0 /\ f.kind # "meta"
  <2> DEFINE kept == save_frame_data(ch, f, limit)
  <2>1. kept = save_frame_data(ch, f, limit) /\ limit \in Nat \ {0} /\ new.saved = kept.saved BY <1>1, <1>5
  <2> HIDE DEF kept
  <2>2. /\ SavedSound(kept) /\ Follows(kept.saved, q) /\ Below(kept.saved, q)
        /\ \A i \in DOMAIN kept.saved : kept.saved[i] = f \/ \E k \in DOMAIN ch.saved : kept.saved[i] = ch.saved[k]
    BY <1>5, <2>1, SaveSound
  <2> QED BY <1>5, <2>1, <2>2 DEF SavedSound
<1> QED BY <1>3, <1>4, <1>5

(* The players that are told a frame *)
Listening(key, frame) ==
  {c \in Watching(rtmp, key) : rtmp.clients[c].got_key \/ frame.kind \in {"meta", "vhdr", "ahdr", "key"}}

LEMMA BytesFacts ==
  ASSUME LiveTypes, MapsAgree, TurnRight, NEW id, PublisherBytes(id), NEW p, p = rtmp.pubs[id], NEW f, f = NextFrame(p),
         NEW to, to = Listening(p.key, f)
  PROVE  /\ rtmp.stage = "pubs" /\ id \in rtmp.left /\ id \in DOMAIN rtmp.pubs /\ p.at < Len(p.script) /\ IsPublisher(p)
         /\ DOMAIN rtmp' = DOMAIN rtmp /\ rtmp'.of = rtmp.of /\ rtmp'.made = rtmp.made
         /\ rtmp'.conn_map = rtmp.conn_map /\ rtmp'.pub_map = rtmp.pub_map
         /\ rtmp'.stage = "pubs" /\ rtmp'.left = rtmp.left /\ rtmp'.clear = rtmp.clear /\ rtmp'.pclear = rtmp.pclear
         /\ rtmp'.ended = rtmp.ended
         /\ DOMAIN rtmp'.pubs = DOMAIN rtmp.pubs /\ rtmp'.pubs[id] = Advanced(p)
         /\ \A r \in DOMAIN rtmp.pubs : r # id => rtmp'.pubs[r] = rtmp.pubs[r]
         /\ DOMAIN rtmp'.clients = DOMAIN rtmp.clients
         /\ \A c \in DOMAIN rtmp.clients :
              /\ IsClient(rtmp'.clients[c]) /\ rtmp'.clients[c].action = rtmp.clients[c].action
              /\ rtmp'.clients[c].key = rtmp.clients[c].key /\ rtmp'.clients[c].conn = rtmp.clients[c].conn
              /\ rtmp'.clients[c].got_key = (rtmp.clients[c].got_key \/ (c \in to /\ f.kind = "key"))
         /\ DOMAIN rtmp'.conns = DOMAIN rtmp.conns
         /\ \A i \in DOMAIN rtmp.conns :
              /\ IsConn(rtmp'.conns[i]) /\ rtmp'.conns[i].open = rtmp.conns[i].open /\ rtmp'.conns[i].log = rtmp.conns[i].log
              /\ rtmp'.conns[i].lossy = rtmp.conns[i].lossy
              /\ i \in {rtmp.clients[c].conn : c \in to} => rtmp'.conns[i].sent = Append(rtmp.conns[i].sent, f)
              /\ i \notin {rtmp.clients[c].conn : c \in to} => rtmp'.conns[i].sent = rtmp.conns[i].sent
         /\ p.key \in DOMAIN rtmp.channels /\ DOMAIN rtmp'.channels = DOMAIN rtmp.channels
         /\ rtmp'.channels[p.key] = Keeping(rtmp.channels[p.key], f, rtmp.of.limit)
         /\ \A k \in DOMAIN rtmp.channels : k # p.key => rtmp'.channels[k] = rtmp.channels[k]
<1>1. rtmp.stage = "pubs" /\ id \in rtmp.left /\ id \in DOMAIN rtmp.pubs /\ p.at < Len(p.script) /\ IsPublisher(p)
  BY DEF PublisherBytes, LooksAt, TurnRight, LiveTypes
<1>2. p.key \in DOMAIN rtmp.channels BY <1>1 DEF MapsAgree
<1>3. f \in Packets
  <2> DEFINE q == Advanced(p)
  <2>1. q = Advanced(p) OBVIOUS
  <2> HIDE DEF q
  <2> QED BY <1>1, <2>1, NextFrameFacts
<1> DEFINE key == p.key
           pubs == [rtmp.pubs EXCEPT ![id] = Advanced(p)]
           s == [rtmp EXCEPT !.pubs = pubs]
           conns == Out(s, to, f)
           clients == [c \in DOMAIN rtmp.clients |->
                         [rtmp.clients[c] EXCEPT !.got_key = rtmp.clients[c].got_key \/ (c \in to /\ f.kind = "key")]]
           channels == [rtmp.channels EXCEPT ![key] = Keeping(rtmp.channels[key], f, rtmp.of.limit)]
<1>4. DOMAIN rtmp = {"of", "stage", "left", "conns", "pubs", "clients", "conn_map", "pub_map", "channels", "clear", "pclear",
                     "made", "sockets", "ended"} BY DEF LiveTypes
<1>5. rtmp' = handle_data(s, key, f)
  <2> DEFINE kind == p.script[p.at + 1]
             frame == [kind |-> kind, pub |-> p.serial, n |-> IF kind = "meta" THEN p.n ELSE p.n + 1, early |-> FALSE]
             onward == [p EXCEPT !.at = @ + 1, !.n = frame.n]
             s0 == [rtmp EXCEPT !.pubs[id] = onward]
  <2>1. frame = f BY DEF NextFrame
  <2>2. rtmp' = handle_data(s0, p.key, frame) BY DEF PublisherBytes
  <2> HIDE DEF frame
  <2>3. onward = Advanced(p) BY <2>1 DEF Advanced
  <2> HIDE DEF onward
  <2>4. s0 = s BY <2>3
  <2> QED BY <2>1, <2>2, <2>4
<1>6. DOMAIN pubs = DOMAIN rtmp.pubs /\ pubs[id] = Advanced(p) /\ \A r \in DOMAIN rtmp.pubs : r # id => pubs[r] = rtmp.pubs[r] BY <1>1
<1>7. /\ DOMAIN channels = DOMAIN rtmp.channels /\ channels[key] = Keeping(rtmp.channels[key], f, rtmp.of.limit)
      /\ \A k \in DOMAIN rtmp.channels : k # key => channels[k] = rtmp.channels[k]
  BY <1>2
<1>8. /\ DOMAIN clients = DOMAIN rtmp.clients
      /\ \A c \in DOMAIN rtmp.clients :
              /\ IsClient(clients[c]) /\ clients[c].action = rtmp.clients[c].action
              /\ clients[c].key = rtmp.clients[c].key /\ clients[c].conn = rtmp.clients[c].conn
              /\ clients[c].got_key = (rtmp.clients[c].got_key \/ (c \in to /\ f.kind = "key"))
  <2> SUFFICES ASSUME NEW c \in DOMAIN rtmp.clients
               PROVE  /\ IsClient(clients[c]) /\ clients[c].action = rtmp.clients[c].action
                      /\ clients[c].key = rtmp.clients[c].key /\ clients[c].conn = rtmp.clients[c].conn
                      /\ clients[c].got_key = (rtmp.clients[c].got_key \/ (c \in to /\ f.kind = "key"))
    OBVIOUS
  <2> DEFINE client == rtmp.clients[c]
             told == c \in to /\ f.kind = "key"
             new == clients[c]
  <2>1. IsClient(client) BY DEF LiveTypes
  <2>2. new = [client EXCEPT !.got_key = client.got_key \/ told] OBVIOUS
  <2>3. told => client.action = "watching" BY DEF Listening, Watching
  <2>4. told \in BOOLEAN OBVIOUS
  <2> HIDE DEF client, told, new
  <2>5. /\ DOMAIN new = DOMAIN client /\ new.action = client.action /\ new.key = client.key /\ new.conn = client.conn
        /\ new.got_key = (client.got_key \/ told)
    BY <2>1, <2>2 DEF IsClient
  <2>6. new.got_key \in BOOLEAN BY <2>1, <2>4, <2>5 DEF IsClient
  <2>7. new.action = "waiting" => ~new.got_key BY <2>1, <2>3, <2>5 DEF IsClient
  <2>8. IsClient(new) BY <2>1, <2>5, <2>6, <2>7 DEF IsClient
  <2> QED BY <2>5, <2>8 DEF new, client, told
<1>9. s.conns = rtmp.conns /\ s.clients = rtmp.clients /\ s.channels = rtmp.channels /\ s.of = rtmp.of /\ DOMAIN s = DOMAIN rtmp
  <2> HIDE DEF pubs
  <2> QED BY <1>4
<1>10. to = {c \in Watching(s, key) : s.clients[c].got_key \/ f.kind \in {"meta", "vhdr", "ahdr", "key"}}
  <2> HIDE DEF s
  <2>1. Watching(s, key) = Watching(rtmp, key) BY <1>9 DEF Watching
  <2> QED BY <1>9, <2>1 DEF Listening
<1>11. rtmp' = [s EXCEPT !.channels = channels, !.conns = conns, !.clients = clients]
  <2>1. handle_data(s, key, f)
          = [s EXCEPT !.channels = [s.channels EXCEPT ![key] = Keeping(s.channels[key], f, s.of.limit)], !.conns = Out(s, to, f),
                      !.clients = [c \in DOMAIN s.clients |-> [s.clients[c] EXCEPT !.got_key = s.clients[c].got_key \/ (c \in to /\ f.kind = "key")]]]
    <3> DEFINE to2 == {c \in Watching(s, key) : s.clients[c].got_key \/ f.kind \in {"meta", "vhdr", "ahdr", "key"}}
    <3> HIDE DEF s, key
    <3>1. key \in DOMAIN s.channels BY <1>2, <1>9 DEF key
    <3>2. handle_data(s, key, f)
            = [s EXCEPT !.channels[key] = Keeping(@, f, s.of.limit), !.conns = Out(s, to2, f),
                        !.clients = [c \in DOMAIN s.clients |-> [s.clients[c] EXCEPT !.got_key = @ \/ (c \in to2 /\ f.kind = "key")]]]
      BY <3>1 DEF handle_data
    <3>3. to2 = to BY <1>10
    <3> HIDE DEF to2
    <3> QED BY <3>2, <3>3
  <2> HIDE DEF s
  <2> QED BY <1>5, <1>9, <2>1
<1>12. /\ DOMAIN conns = DOMAIN rtmp.conns
       /\ \A i \in DOMAIN rtmp.conns :
              /\ IsConn(conns[i]) /\ conns[i].open = rtmp.conns[i].open /\ conns[i].log = rtmp.conns[i].log
              /\ conns[i].lossy = rtmp.conns[i].lossy
              /\ i \in {rtmp.clients[c].conn : c \in to} => conns[i].sent = Append(rtmp.conns[i].sent, f)
              /\ i \notin {rtmp.clients[c].conn : c \in to} => conns[i].sent = rtmp.conns[i].sent
  <2>1. conns = Out(s, to, f) OBVIOUS
  <2> HIDE DEF s, conns
  <2> QED BY <1>3, <1>9, <2>1, OutFacts
<1> HIDE DEF conns, clients, channels, pubs
<1>13. /\ DOMAIN rtmp' = DOMAIN rtmp /\ rtmp'.of = rtmp.of /\ rtmp'.made = rtmp.made /\ rtmp'.conns = conns /\ rtmp'.conn_map = rtmp.conn_map
       /\ rtmp'.pubs = pubs /\ rtmp'.clients = clients /\ rtmp'.pub_map = rtmp.pub_map /\ rtmp'.channels = channels
       /\ rtmp'.stage = rtmp.stage /\ rtmp'.left = rtmp.left /\ rtmp'.clear = rtmp.clear /\ rtmp'.pclear = rtmp.pclear
       /\ rtmp'.ended = rtmp.ended
  BY <1>4, <1>11
<1> QED BY <1>1, <1>2, <1>6, <1>7, <1>8, <1>12, <1>13

LEMMA WatcherConns ==
  ASSUME MapsAgree, OnePlay, NEW key \in DOMAIN rtmp.channels
  PROVE  /\ \A c \in Watching(rtmp, key) :
              /\ c \in DOMAIN rtmp.clients /\ rtmp.clients[c].action = "watching" /\ rtmp.clients[c].key = key
              /\ rtmp.clients[c].conn \in DOMAIN rtmp.conn_map /\ rtmp.conn_map[rtmp.clients[c].conn] = c
         /\ \A i : Watches(i) /\ WatchesFrom(i).key = key => rtmp.conn_map[i] \in Watching(rtmp, key) /\ WatchesFrom(i).conn = i
<1>1. rtmp.channels[key].watchers = {c \in DOMAIN rtmp.clients : rtmp.clients[c].action = "watching" /\ rtmp.clients[c].key = key}
  BY DEF MapsAgree, WatchersAgree
<1>2. ASSUME NEW c \in Watching(rtmp, key)
      PROVE  /\ c \in DOMAIN rtmp.clients /\ rtmp.clients[c].action = "watching" /\ rtmp.clients[c].key = key
             /\ rtmp.clients[c].conn \in DOMAIN rtmp.conn_map /\ rtmp.conn_map[rtmp.clients[c].conn] = c
  <2>1. c \in DOMAIN rtmp.clients /\ rtmp.clients[c].action = "watching" /\ rtmp.clients[c].key = key BY <1>1 DEF Watching
  <2>2. \A j \in DOMAIN rtmp.pub_map : rtmp.clients[rtmp.pub_map[j]].action = "publishing" BY DEF MapsAgree
  <2>3. (\E j \in DOMAIN rtmp.conn_map : rtmp.conn_map[j] = c) \/ (\E j \in DOMAIN rtmp.pub_map : rtmp.pub_map[j] = c)
    BY <2>1 DEF MapsAgree
  <2>4. \E j \in DOMAIN rtmp.conn_map : rtmp.conn_map[j] = c BY <2>1, <2>2, <2>3
  <2>5. \A j \in DOMAIN rtmp.conn_map : rtmp.clients[rtmp.conn_map[j]].conn = j BY DEF MapsAgree
  <2> QED BY <2>1, <2>4, <2>5
<1>3. ASSUME NEW i, Watches(i), WatchesFrom(i).key = key
      PROVE  rtmp.conn_map[i] \in Watching(rtmp, key) /\ WatchesFrom(i).conn = i
  <2>1. /\ i \in DOMAIN rtmp.conn_map /\ rtmp.clients[rtmp.conn_map[i]].action = "watching"
        /\ rtmp.clients[rtmp.conn_map[i]].key = key
    BY <1>3 DEF Watches, WatchesFrom
  <2>2. rtmp.conn_map[i] \in DOMAIN rtmp.clients /\ rtmp.clients[rtmp.conn_map[i]].conn = i BY <2>1 DEF MapsAgree
  <2> QED BY <1>1, <2>1, <2>2 DEF Watching, WatchesFrom
<1> QED BY <1>2, <1>3

LEMMA BytesStep == ASSUME RtmpInv, NEW id, PublisherBytes(id) PROVE RtmpInv'
<1>0. LiveTypes /\ MapsAgree /\ TurnRight BY DEF RtmpInv, LiveShape
<1> DEFINE p == rtmp.pubs[id]
           f == NextFrame(p)
           q == Advanced(p)
           key == p.key
           to == Listening(p.key, f)
           told == {rtmp.clients[c].conn : c \in to}
<1>1. /\ rtmp.stage = "pubs" /\ id \in rtmp.left /\ id \in DOMAIN rtmp.pubs /\ p.at < Len(p.script) /\ IsPublisher(p)
      /\ DOMAIN rtmp' = DOMAIN rtmp /\ rtmp'.of = rtmp.of /\ rtmp'.made = rtmp.made
      /\ rtmp'.conn_map = rtmp.conn_map /\ rtmp'.pub_map = rtmp.pub_map
      /\ rtmp'.stage = "pubs" /\ rtmp'.left = rtmp.left /\ rtmp'.clear = rtmp.clear /\ rtmp'.pclear = rtmp.pclear
      /\ rtmp'.ended = rtmp.ended
      /\ DOMAIN rtmp'.pubs = DOMAIN rtmp.pubs /\ rtmp'.pubs[id] = q
      /\ \A r \in DOMAIN rtmp.pubs : r # id => rtmp'.pubs[r] = rtmp.pubs[r]
      /\ DOMAIN rtmp'.clients = DOMAIN rtmp.clients
      /\ \A c \in DOMAIN rtmp.clients :
           /\ IsClient(rtmp'.clients[c]) /\ rtmp'.clients[c].action = rtmp.clients[c].action
           /\ rtmp'.clients[c].key = rtmp.clients[c].key /\ rtmp'.clients[c].conn = rtmp.clients[c].conn
           /\ rtmp'.clients[c].got_key = (rtmp.clients[c].got_key \/ (c \in to /\ f.kind = "key"))
      /\ DOMAIN rtmp'.conns = DOMAIN rtmp.conns
      /\ \A i \in DOMAIN rtmp.conns :
           /\ IsConn(rtmp'.conns[i]) /\ rtmp'.conns[i].open = rtmp.conns[i].open /\ rtmp'.conns[i].log = rtmp.conns[i].log
           /\ rtmp'.conns[i].lossy = rtmp.conns[i].lossy
           /\ i \in told => rtmp'.conns[i].sent = Append(rtmp.conns[i].sent, f)
           /\ i \notin told => rtmp'.conns[i].sent = rtmp.conns[i].sent
      /\ key \in DOMAIN rtmp.channels /\ DOMAIN rtmp'.channels = DOMAIN rtmp.channels
      /\ rtmp'.channels[key] = Keeping(rtmp.channels[key], f, rtmp.of.limit)
      /\ \A k \in DOMAIN rtmp.channels : k # key => rtmp'.channels[k] = rtmp.channels[k]
  <2>1. p = rtmp.pubs[id] /\ f = NextFrame(p) /\ to = Listening(p.key, f) OBVIOUS
  <2> HIDE DEF p, f, to
  <2> QED BY <1>0, <2>1, BytesFacts
<1>2. p = rtmp.pubs[id] /\ f = NextFrame(p) /\ q = Advanced(p) /\ to = Listening(key, f) OBVIOUS
<1> HIDE DEF p, f, q, to, key
<1>3. /\ f \in Packets /\ f.kind \in SentKinds /\ f.kind # "end" /\ f.pub = p.serial /\ ~f.early /\ f.n = q.n
      /\ (f.kind = "meta" => q.n = p.n) /\ (f.kind # "meta" => q.n = p.n + 1)
      /\ IsPublisher(q) /\ q.serial = p.serial /\ q.key = key /\ q.n \in Nat /\ p.n \in Nat /\ p.serial \in Nat
  <2>1. /\ f \in Packets /\ f.kind \in SentKinds /\ f.pub = p.serial /\ ~f.early /\ f.n = q.n
        /\ (f.kind = "meta" => q.n = p.n) /\ (f.kind # "meta" => q.n = p.n + 1)
        /\ IsPublisher(q) /\ q.serial = p.serial /\ q.key = p.key /\ q.n \in Nat /\ p.n \in Nat /\ p.serial \in Nat
    BY <1>1, <1>2, NextFrameFacts
  <2> QED BY <2>1 DEF SentKinds, key
<1>4. rtmp.of.limit \in Nat BY <1>0, RtmpAssumption DEF LiveTypes
<1>5. IsChannel(rtmp'.channels[key]) /\ rtmp'.channels[key].watchers = rtmp.channels[key].watchers
  <2> DEFINE ch == rtmp.channels[key]
             limit == rtmp.of.limit
             new == rtmp'.channels[key]
  <2>1. IsChannel(ch) /\ limit \in Nat /\ new = Keeping(ch, f, limit) BY <1>0, <1>1, <1>4 DEF LiveTypes
  <2> HIDE DEF ch, limit, new
  <2>2. IsPublisher(p) /\ p.at < Len(p.script) /\ f = NextFrame(p) BY <1>1, <1>2
  <2>3. IsChannel(new) /\ new.watchers = ch.watchers BY ONLY <2>1, <2>2, KeepingFacts
  <2> QED BY <2>3 DEF ch, new
<1>6. LiveTypes'
  <2>1. \A k \in DOMAIN rtmp'.channels : IsChannel(rtmp'.channels[k]) BY <1>0, <1>1, <1>5 DEF LiveTypes
  <2>2. \A r \in DOMAIN rtmp'.pubs : IsPublisher(rtmp'.pubs[r]) /\ rtmp'.pubs[r].serial = rtmp.pubs[r].serial
    BY <1>0, <1>1, <1>2, <1>3 DEF LiveTypes
  <2>3. \A r \in DOMAIN rtmp'.pubs : IsPublisher(rtmp'.pubs[r]) /\ rtmp'.pubs[r].serial <= rtmp'.made
    BY <1>0, <1>1, <2>2 DEF LiveTypes
  <2>4. \A r, t \in DOMAIN rtmp'.pubs : rtmp'.pubs[r].serial = rtmp'.pubs[t].serial => r = t
    BY <1>0, <1>1, <2>2 DEF LiveTypes
  <2>5. \A c \in DOMAIN rtmp'.clients : IsClient(rtmp'.clients[c]) BY <1>1
  <2>6. \A i \in DOMAIN rtmp'.conns : IsConn(rtmp'.conns[i]) BY <1>1
  <2>7. DOMAIN rtmp' = DOMAIN rtmp /\ rtmp'.of = rtmp.of /\ rtmp'.made = rtmp.made BY <1>1
  <2> QED BY <1>0, <2>1, <2>3, <2>4, <2>5, <2>6, <2>7 DEF LiveTypes
<1>b. /\ rtmp'.conn_map = rtmp.conn_map /\ rtmp'.pub_map = rtmp.pub_map /\ DOMAIN rtmp'.conns = DOMAIN rtmp.conns
      /\ DOMAIN rtmp'.clients = DOMAIN rtmp.clients /\ DOMAIN rtmp'.channels = DOMAIN rtmp.channels /\ DOMAIN rtmp'.pubs = DOMAIN rtmp.pubs
      /\ \A i \in DOMAIN rtmp.conns : rtmp'.conns[i].open = rtmp.conns[i].open
      /\ \A c \in DOMAIN rtmp.clients :
           /\ rtmp'.clients[c].action = rtmp.clients[c].action
           /\ rtmp'.clients[c].key = rtmp.clients[c].key /\ rtmp'.clients[c].conn = rtmp.clients[c].conn
      /\ \A k \in DOMAIN rtmp.channels : rtmp'.channels[k].watchers = rtmp.channels[k].watchers
      /\ \A r \in DOMAIN rtmp.pubs : rtmp'.pubs[r].key = rtmp.pubs[r].key
  <2>1. \A k \in DOMAIN rtmp.channels : rtmp'.channels[k].watchers = rtmp.channels[k].watchers BY <1>1, <1>5
  <2>2. \A r \in DOMAIN rtmp.pubs : rtmp'.pubs[r].key = rtmp.pubs[r].key BY <1>1, <1>2, <1>3 DEF key
  <2> QED BY <1>1, <2>1, <2>2
<1>7. MapsAgree'
  <2>1. DOMAIN rtmp'.conn_map = {i \in DOMAIN rtmp'.conns : rtmp'.conns[i].open} BY <1>0, <1>b DEF MapsAgree
  <2>2. OnePlay => WatchersAgree'
    <3> SUFFICES ASSUME WatchersAgree, NEW k \in DOMAIN rtmp.channels
                 PROVE  rtmp'.channels[k].watchers
                          = {d \in DOMAIN rtmp'.clients : rtmp'.clients[d].action = "watching" /\ rtmp'.clients[d].key = k}
      BY <1>0, <1>b DEF MapsAgree, WatchersAgree
    <3> QED BY <1>b DEF WatchersAgree
  <2> QED BY <1>0, <1>b, <2>1, <2>2 DEF MapsAgree
<1>8. TurnRight' BY <1>0, <1>1 DEF TurnRight
<1>9. ASSUME UniqueKeys /\ OnePlay PROVE LiveFlow'
  <2>0. KeysApart /\ ViewsSound /\ ChannelsSound /\ EndsRight BY <1>9 DEF RtmpInv, LiveFlow
  <2>1. KeysApart' BY <1>b, <2>0 DEF KeysApart
  <2>2. \A r \in DOMAIN rtmp.pubs : r # id => rtmp.pubs[r].key # key /\ rtmp.pubs[r].serial # p.serial /\ rtmp'.pubs[r] = rtmp.pubs[r]
    BY <1>0, <1>1, <1>2, <2>0 DEF KeysApart, LiveTypes, key
  <2>3. /\ \A c \in Watching(rtmp, key) :
              /\ c \in DOMAIN rtmp.clients /\ rtmp.clients[c].action = "watching" /\ rtmp.clients[c].key = key
              /\ rtmp.clients[c].conn \in DOMAIN rtmp.conn_map /\ rtmp.conn_map[rtmp.clients[c].conn] = c
        /\ \A i : Watches(i) /\ WatchesFrom(i).key = key => rtmp.conn_map[i] \in Watching(rtmp, key) /\ WatchesFrom(i).conn = i
    BY <1>0, <1>1, <1>9, WatcherConns
  <2>4. \A i : Watches(i) => rtmp.conn_map[i] \in DOMAIN rtmp.clients BY <1>0 DEF MapsAgree, Watches
  <2>5. \A i : i \in told => /\ Watches(i) /\ WatchesFrom(i).key = key /\ rtmp.conn_map[i] \in to
                             /\ WatchesFrom(i).got_key \/ f.kind \in {"meta", "vhdr", "ahdr", "key"}
    <3> SUFFICES ASSUME NEW c \in to, NEW i, i = rtmp.clients[c].conn
                 PROVE  /\ Watches(i) /\ WatchesFrom(i).key = key /\ rtmp.conn_map[i] \in to
                        /\ WatchesFrom(i).got_key \/ f.kind \in {"meta", "vhdr", "ahdr", "key"}
      OBVIOUS
    <3>1. c \in Watching(rtmp, key) /\ (rtmp.clients[c].got_key \/ f.kind \in {"meta", "vhdr", "ahdr", "key"})
      BY <1>2 DEF Listening
    <3>2. i \in DOMAIN rtmp.conn_map /\ rtmp.conn_map[i] = c /\ rtmp.clients[c].action = "watching" /\ rtmp.clients[c].key = key
      BY <2>3, <3>1
    <3> QED BY <3>1, <3>2 DEF Watches, WatchesFrom
  <2>6. \A i : Watches(i) /\ WatchesFrom(i).key = key /\ (WatchesFrom(i).got_key \/ f.kind \in {"meta", "vhdr", "ahdr", "key"})
               => i \in told /\ rtmp.conn_map[i] \in to
    <3> SUFFICES ASSUME NEW i, Watches(i), WatchesFrom(i).key = key,
                        WatchesFrom(i).got_key \/ f.kind \in {"meta", "vhdr", "ahdr", "key"}
                 PROVE  i \in told /\ rtmp.conn_map[i] \in to
      OBVIOUS
    <3>1. rtmp.conn_map[i] \in Watching(rtmp, key) /\ WatchesFrom(i).conn = i BY <2>3
    <3>2. rtmp.conn_map[i] \in to BY <1>2, <3>1 DEF Listening, WatchesFrom
    <3> QED BY <3>1, <3>2 DEF WatchesFrom
  <2>7. \A i : rtmp.conn_map[i] \in to /\ Watches(i) => i \in told
    <3> SUFFICES ASSUME NEW i, rtmp.conn_map[i] \in to, Watches(i) PROVE i \in told OBVIOUS
    <3>1. rtmp.clients[rtmp.conn_map[i]].conn = i BY <1>0 DEF Watches, MapsAgree
    <3> QED BY <3>1
  <2> HIDE DEF told
  <2>8. \A i : /\ Watches(i)' = Watches(i)
               /\ Watches(i) => WatchesFrom(i)'.key = WatchesFrom(i).key /\ WatchesFrom(i)'.got_key = (WatchesFrom(i).got_key \/ (i \in told /\ f.kind = "key"))
    <3> SUFFICES ASSUME NEW i
                 PROVE  /\ Watches(i)' = Watches(i)
                        /\ Watches(i) => WatchesFrom(i)'.key = WatchesFrom(i).key
                                         /\ WatchesFrom(i)'.got_key = (WatchesFrom(i).got_key \/ (i \in told /\ f.kind = "key"))
      OBVIOUS
    <3>1. CASE i \in DOMAIN rtmp.conn_map
      <4> DEFINE c == rtmp.conn_map[i]
      <4>1. c \in DOMAIN rtmp.clients BY <1>0, <3>1 DEF MapsAgree
      <4>2. rtmp'.conn_map[i] = c /\ i \in DOMAIN rtmp'.conn_map BY <1>b, <3>1
      <4>3. /\ rtmp'.clients[c].action = rtmp.clients[c].action /\ rtmp'.clients[c].key = rtmp.clients[c].key
            /\ rtmp'.clients[c].got_key = (rtmp.clients[c].got_key \/ (c \in to /\ f.kind = "key"))
        BY <1>1, <4>1
      <4>4. Watches(i) => (c \in to <=> i \in told) BY <2>5, <2>7
      <4> QED BY <3>1, <4>2, <4>3, <4>4 DEF Watches, WatchesFrom
    <3>2. CASE i \notin DOMAIN rtmp.conn_map BY <1>b, <3>2 DEF Watches
    <3> QED BY <3>1, <3>2
  <2>9. \A V : Below(V, p) /\ V \in Seq(Packets) => Below(V, q)
    <3> SUFFICES ASSUME NEW V \in Seq(Packets), Below(V, p), NEW i \in DOMAIN V, FrameAt(V, i, p.serial) PROVE V[i].n <= q.n
      BY <1>3 DEF Below
    <3>1. V[i].n <= p.n BY DEF Below
    <3>2. V[i].n \in Nat
      <4>1. \A g \in Packets : g.n \in Nat BY DEF Packets
      <4>2. V[i] \in Packets OBVIOUS
      <4> QED BY <4>1, <4>2
    <3>3. p.n \in Nat /\ q.n \in Nat /\ (q.n = p.n \/ q.n = p.n + 1) BY <1>3
    <3> QED BY ONLY <3>1, <3>2, <3>3
  <2>10. p.serial <= rtmp.made BY <1>0, <1>1, <1>2 DEF LiveTypes
  <2>11. \A i \in DOMAIN rtmp.conns : IsConn(rtmp.conns[i]) /\ View(rtmp.conns[i]) \in Seq(Packets) BY <1>0, ViewFacts DEF LiveTypes
  <2>12. \A i \in DOMAIN rtmp.conns : i \in told => View(rtmp'.conns[i]) = Append(View(rtmp.conns[i]), f)
    <3> SUFFICES ASSUME NEW i \in DOMAIN rtmp.conns, i \in told PROVE View(rtmp'.conns[i]) = Append(View(rtmp.conns[i]), f) OBVIOUS
    <3> DEFINE conn == rtmp.conns[i]
               new == rtmp'.conns[i]
    <3>1. IsConn(conn) /\ new.log = conn.log /\ new.sent = Append(conn.sent, f) BY <1>1, <2>11
    <3> HIDE DEF conn, new
    <3>2. View(new) = Append(View(conn), f) BY <1>3, <3>1, ViewAppend
    <3> QED BY <3>2 DEF conn, new
  <2>13. \A i \in DOMAIN rtmp.conns : i \notin told => View(rtmp'.conns[i]) = View(rtmp.conns[i]) BY <1>1 DEF View
  <2>14. ViewsSound'
    <3> SUFFICES ASSUME NEW i \in DOMAIN rtmp.conns, ~rtmp.conns[i].lossy
                 PROVE  Decodable(rtmp.conns[i].log) /\ SeesAll(i, View(rtmp.conns[i]))'
      BY <1>1 DEF ViewsSound
    <3> DEFINE V == View(rtmp.conns[i])
               W == View(rtmp'.conns[i])
    <3>1. Decodable(rtmp.conns[i].log) /\ SeesAll(i, V) BY <2>0 DEF ViewsSound
    <3>2. V \in Seq(Packets) BY <2>11
    <3>3. (i \in told => W = Append(V, f)) /\ (i \notin told => W = V) BY <2>12, <2>13
    <3> HIDE DEF V, W
    <3>4. /\ SoundView(V) /\ \A j \in DOMAIN V : V[j].early \/ V[j].pub <= rtmp.made
          /\ \A r \in DOMAIN rtmp.pubs : Below(V, rtmp.pubs[r])
          /\ ~Watches(i) => V = << >>
          /\ Watches(i) /\ WatchesFrom(i).got_key =>
               \A r \in DOMAIN rtmp.pubs : rtmp.pubs[r].key = WatchesFrom(i).key => Follows(V, rtmp.pubs[r])
          /\ Watches(i) /\ ~WatchesFrom(i).got_key => \A s : ~KeyIn(V, s)
      BY <3>1 DEF SeesAll
    <3>5. CASE i \in told
      <4> DEFINE got == WatchesFrom(i).got_key
      <4>1. Watches(i) /\ WatchesFrom(i).key = key /\ (got \/ f.kind \in {"meta", "vhdr", "ahdr", "key"}) BY <2>5, <3>5
      <4>2. got \in BOOLEAN BY <1>0, <2>4, <4>1 DEF LiveTypes, IsClient, WatchesFrom
      <4>3. Watches(i)' /\ WatchesFrom(i)'.key = key /\ (WatchesFrom(i)'.got_key = (got \/ f.kind = "key")) BY <2>8, <3>5, <4>1
      <4>4. Below(V, p) /\ (got => Follows(V, p)) /\ (~got => \A s : ~KeyIn(V, s)) BY <1>1, <1>2, <3>4, <4>1 DEF key
      <4>5. W = Append(V, f) BY <3>3, <3>5
      <4> HIDE DEF got
      <4>6. /\ W \in Seq(Packets) /\ SoundView(W) /\ Below(W, q)
            /\ got \/ f.kind = "key" => Follows(W, q)
            /\ ~(got \/ f.kind = "key") => \A s : ~KeyIn(W, s)
        <5>1. IsPublisher(p) /\ p.at < Len(p.script) /\ f = NextFrame(p) /\ q = Advanced(p) BY <1>1, <1>2
        <5>2. SoundView(V) /\ (got \/ f.kind \in {"meta", "vhdr", "ahdr", "key"}) BY <3>4, <4>1
        <5> QED BY ONLY <3>2, <4>2, <4>4, <4>5, <5>1, <5>2, ToldSees
      <4>7. \A r \in DOMAIN rtmp'.pubs : Below(W, rtmp'.pubs[r])
        <5> SUFFICES ASSUME NEW r \in DOMAIN rtmp.pubs PROVE Below(W, rtmp'.pubs[r]) BY <1>b
        <5>1. CASE r = id BY <1>1, <4>6, <5>1
        <5>2. CASE r # id
          <6> DEFINE t == rtmp.pubs[r]
          <6>1. t.serial # f.pub /\ rtmp'.pubs[r] = t /\ Below(V, t) BY <1>3, <2>2, <3>4, <5>2
          <6> HIDE DEF t
          <6> QED BY <1>3, <3>2, <4>5, <6>1, OtherAppend
        <5> QED BY <5>1, <5>2
      <4>8. \A j \in DOMAIN W : W[j].early \/ W[j].pub <= rtmp'.made
        <5>1. Appended(V, f, W) BY <1>3, <3>2, <4>5, AppendedView
        <5>2. /\ Len(V) \in Nat /\ DOMAIN V = 1 .. Len(V) /\ DOMAIN W = 1 .. Len(V) + 1 /\ W[Len(V) + 1] = f
              /\ \A j \in 1 .. Len(V) : W[j] = V[j]
          BY <5>1 DEF Appended
        <5>3. \A j \in 1 .. Len(V) + 1 : j = Len(V) + 1 \/ j \in 1 .. Len(V) BY <5>2
        <5> QED BY <1>1, <1>3, <2>10, <3>4, <5>2, <5>3
      <4>9. \A r \in DOMAIN rtmp'.pubs : rtmp'.pubs[r].key = key => r = id BY <1>b, <2>2
      <4>10. W = View(rtmp.conns[i])' BY DEF W
      <4>11. SeesAll(i, View(rtmp.conns[i]))' BY <1>1, <4>3, <4>6, <4>7, <4>8, <4>9, <4>10 DEF SeesAll
      <4> QED BY <3>1, <4>11
    <3>6. CASE i \notin told
      <4>1. W = V BY <3>3, <3>6
      <4>2. Watches(i)' = Watches(i) BY <2>8
      <4>3. Watches(i) => WatchesFrom(i)'.key = WatchesFrom(i).key /\ WatchesFrom(i)'.got_key = WatchesFrom(i).got_key
        <5> SUFFICES ASSUME Watches(i) PROVE WatchesFrom(i)'.key = WatchesFrom(i).key /\ WatchesFrom(i)'.got_key = WatchesFrom(i).got_key OBVIOUS
        <5>1. WatchesFrom(i)'.got_key = (WatchesFrom(i).got_key \/ (i \in told /\ f.kind = "key")) BY <2>8
        <5>2. WatchesFrom(i).got_key \in BOOLEAN BY <1>0, <2>4 DEF LiveTypes, IsClient, WatchesFrom
        <5> QED BY <2>8, <3>6, <5>1, <5>2
      <4>4. \A r \in DOMAIN rtmp'.pubs : Below(V, rtmp'.pubs[r])
        <5> SUFFICES ASSUME NEW r \in DOMAIN rtmp.pubs PROVE Below(V, rtmp'.pubs[r]) BY <1>b
        <5>1. CASE r = id BY <1>1, <1>2, <2>9, <3>2, <3>4, <5>1
        <5>2. CASE r # id BY <2>2, <3>4, <5>2
        <5> QED BY <5>1, <5>2
      <4>5. Watches(i) /\ WatchesFrom(i).got_key => WatchesFrom(i).key # key BY <2>6, <3>6
      <4>6. ASSUME Watches(i), WatchesFrom(i).got_key, NEW r \in DOMAIN rtmp'.pubs, rtmp'.pubs[r].key = WatchesFrom(i).key
            PROVE  Follows(V, rtmp'.pubs[r])
        <5>1. r # id BY <1>1, <1>3, <4>5, <4>6
        <5> QED BY <1>b, <2>2, <3>4, <4>6, <5>1
      <4>7. V = View(rtmp.conns[i])' BY <4>1 DEF W
      <4>8. SeesAll(i, View(rtmp.conns[i]))' BY <1>1, <3>4, <4>2, <4>3, <4>4, <4>6, <4>7 DEF SeesAll
      <4> QED BY <3>1, <4>8
    <3> QED BY <3>5, <3>6
  <2>15. ChannelsSound'
    <3> SUFFICES ASSUME NEW k \in DOMAIN rtmp.channels PROVE ChannelSound(k)' BY <1>b DEF ChannelsSound
    <3> DEFINE ch == rtmp.channels[k]
               new == rtmp'.channels[k]
               limit == rtmp.of.limit
    <3>1. ChannelSound(k) BY <2>0 DEF ChannelsSound
    <3>2. IsChannel(ch) /\ ch.saved \in Seq(Packets) BY <1>0 DEF LiveTypes, IsChannel, GroupsStart
    <3>3. /\ SavedSound(ch) /\ (limit = 0 => ch.saved = << >>)
          /\ \A i \in DOMAIN ch.saved : ch.saved[i].pub <= rtmp.made
          /\ \A r \in DOMAIN rtmp.pubs : Below(ch.saved, rtmp.pubs[r])
          /\ \A r \in DOMAIN rtmp.pubs : rtmp.pubs[r].key = k =>
               /\ \A i \in DOMAIN ch.saved : ch.saved[i].pub <= rtmp.pubs[r].serial
               /\ limit # 0 => Follows(ch.saved, rtmp.pubs[r])
      BY <3>1 DEF ChannelSound
    <3>4. CASE k # key
      <4>1. new = ch BY <1>1, <3>4
      <4> HIDE DEF ch, new, limit
      <4>2. \A r \in DOMAIN rtmp'.pubs : Below(ch.saved, rtmp'.pubs[r])
        <5> SUFFICES ASSUME NEW r \in DOMAIN rtmp.pubs PROVE Below(ch.saved, rtmp'.pubs[r]) BY <1>b
        <5>1. CASE r = id BY <1>1, <1>2, <2>9, <3>2, <3>3, <5>1
        <5>2. CASE r # id BY <2>2, <3>3, <5>2
        <5> QED BY <5>1, <5>2
      <4>3. \A r \in DOMAIN rtmp'.pubs : rtmp'.pubs[r].key = k => r # id /\ r \in DOMAIN rtmp.pubs /\ rtmp'.pubs[r] = rtmp.pubs[r]
        BY <1>b, <1>1, <1>3, <2>2, <3>4
      <4> QED BY <1>1, <3>3, <4>1, <4>2, <4>3 DEF ChannelSound, new, limit
    <3>5. CASE k = key
      <4>1. new = Keeping(ch, f, limit) BY <1>1, <3>5
      <4>2. /\ (limit # 0 => Follows(ch.saved, p)) /\ Below(ch.saved, p)
            /\ \A i \in DOMAIN ch.saved : ch.saved[i].pub <= p.serial
        BY <1>1, <1>2, <3>3, <3>5 DEF key
      <4>3. limit \in Nat BY <1>4
      <4>0. k = key BY <3>5
      <4> HIDE DEF ch, new, limit
      <4>4. /\ SavedSound(new) /\ (limit = 0 => new.saved = << >>) /\ Below(new.saved, q)
            /\ limit # 0 => Follows(new.saved, q)
            /\ \A i \in DOMAIN new.saved : new.saved[i] = f \/ \E j \in DOMAIN ch.saved : new.saved[i] = ch.saved[j]
        BY <1>1, <1>2, <3>2, <3>3, <4>1, <4>2, <4>3, KeepSound
      <4>5. \A i \in DOMAIN new.saved : new.saved[i].pub <= rtmp'.made BY <1>1, <1>3, <2>10, <3>3, <4>4
      <4>6. \A i \in DOMAIN new.saved : new.saved[i].pub <= q.serial
        <5>1. f.pub <= q.serial BY <1>3
        <5> QED BY <1>3, <4>2, <4>4, <5>1
      <4>7. \A r \in DOMAIN rtmp'.pubs : Below(new.saved, rtmp'.pubs[r])
        <5> SUFFICES ASSUME NEW r \in DOMAIN rtmp.pubs PROVE Below(new.saved, rtmp'.pubs[r]) BY <1>b
        <5>1. CASE r = id BY <1>1, <4>4, <5>1
        <5>2. CASE r # id
          <6> DEFINE t == rtmp.pubs[r]
          <6>1. t.serial # f.pub /\ rtmp'.pubs[r] = t /\ Below(ch.saved, t) BY <1>3, <2>2, <3>3, <5>2
          <6> HIDE DEF t
          <6>2. ASSUME NEW i \in DOMAIN new.saved, FrameAt(new.saved, i, t.serial) PROVE new.saved[i].n <= t.n
            <7>1. new.saved[i] # f BY <6>1, <6>2 DEF FrameAt
            <7>2. PICK j \in DOMAIN ch.saved : new.saved[i] = ch.saved[j] BY <4>4, <6>2, <7>1
            <7>3. FrameAt(ch.saved, j, t.serial) BY <6>2, <7>2 DEF FrameAt
            <7> QED BY <6>1, <7>2, <7>3 DEF Below
          <6> QED BY <6>1, <6>2 DEF Below
        <5> QED BY <5>1, <5>2
      <4>8. \A r \in DOMAIN rtmp'.pubs : rtmp'.pubs[r].key = k => rtmp'.pubs[r] = q BY <1>b, <1>1, <2>2, <4>0
      <4> QED BY <1>1, <4>4, <4>5, <4>6, <4>7, <4>8 DEF ChannelSound, new, limit
    <3> QED BY <3>4, <3>5
  <2>16. EndsRight'
    <3>1. ASSUME NEW i \in DOMAIN rtmp'.conns
          PROVE  /\ ~HasEnd(rtmp'.conns[i].log)
                 /\ HasEnd(rtmp'.conns[i].sent) =>
                      i \in rtmp'.clear /\ Watches(i)' /\ \A r \in rtmp'.left : rtmp'.pubs[r].key # WatchesFrom(i)'.key
                 /\ ~rtmp'.conns[i].lossy => EndLast(View(rtmp'.conns[i]))
      <4>0. i \in DOMAIN rtmp.conns BY <1>b
      <4>1. /\ ~HasEnd(rtmp.conns[i].log)
            /\ HasEnd(rtmp.conns[i].sent) =>
                 i \in rtmp.clear /\ Watches(i) /\ \A r \in rtmp.left : rtmp.pubs[r].key # WatchesFrom(i).key
            /\ ~rtmp.conns[i].lossy => EndLast(View(rtmp.conns[i]))
        BY <1>1, <2>0, <4>0 DEF EndsRight
      <4>2. CASE i \in told
        <5>1. WatchesFrom(i).key = key /\ id \in rtmp.left /\ rtmp.pubs[id].key = key BY <1>1, <1>2, <2>5, <4>2 DEF key
        <5>2. ~HasEnd(rtmp.conns[i].sent) BY <4>1, <5>1
        <5>3. ~HasEnd(View(rtmp.conns[i])) BY <2>11, <4>0, <4>1, <5>2, ViewFacts
        <5>4. EndLast(View(rtmp'.conns[i])) BY <1>3, <2>11, <2>12, <4>0, <4>2, <5>3, EndAppend
        <5>5. rtmp.conns[i].sent \in Seq(Packets) BY <2>11, <4>0 DEF IsConn
        <5>6. rtmp'.conns[i].sent = Append(rtmp.conns[i].sent, f) BY <1>1, <4>0, <4>2
        <5>7. ~HasEnd(rtmp'.conns[i].sent) BY <1>3, <5>2, <5>5, <5>6, EndAppend
        <5> QED BY <1>1, <4>0, <4>1, <5>4, <5>7
      <4>3. CASE i \notin told
        <5>1. rtmp'.conns[i].sent = rtmp.conns[i].sent /\ rtmp'.conns[i].log = rtmp.conns[i].log /\ rtmp'.conns[i].lossy = rtmp.conns[i].lossy
          BY <1>1, <4>0, <4>3
        <5>2. View(rtmp'.conns[i]) = View(rtmp.conns[i]) BY <2>13, <4>0, <4>3
        <5>3. \A r \in rtmp.left : rtmp'.pubs[r].key = rtmp.pubs[r].key BY <1>0, <1>1, <1>b DEF TurnRight
        <5> QED BY <1>1, <2>8, <4>1, <5>1, <5>2, <5>3
      <4> QED BY <4>2, <4>3
    <3> QED BY <1>1, <2>0, <3>1 DEF EndsRight
  <2> QED BY <2>1, <2>14, <2>15, <2>16 DEF LiveFlow
<1> QED BY <1>6, <1>7, <1>8, <1>9 DEF RtmpInv, LiveShape

LEMMA EndingFacts ==
  ASSUME LiveTypes, TurnRight, NEW id, PublisherClosed(id), NEW p, p = rtmp.pubs[id],
         NEW f, f = [kind |-> "end", pub |-> p.serial, n |-> p.n, early |-> FALSE], NEW to, to = Watching(rtmp, p.key)
  PROVE  /\ rtmp.stage = "pubs" /\ id \in rtmp.left /\ id \in DOMAIN rtmp.pubs /\ IsPublisher(p) /\ f \in Packets
         /\ DOMAIN rtmp' = DOMAIN rtmp /\ rtmp'.of = rtmp.of /\ rtmp'.made = rtmp.made
         /\ rtmp'.conn_map = rtmp.conn_map /\ rtmp'.pub_map = rtmp.pub_map
         /\ rtmp'.pubs = rtmp.pubs /\ rtmp'.clients = rtmp.clients /\ rtmp'.channels = rtmp.channels
         /\ rtmp'.stage = "pubs" /\ rtmp'.left = rtmp.left \ {id} /\ rtmp'.pclear = rtmp.pclear \cup {id}
         /\ rtmp'.clear = rtmp.clear \cup {rtmp.clients[c].conn : c \in to} /\ rtmp'.ended = rtmp.ended
         /\ DOMAIN rtmp'.conns = DOMAIN rtmp.conns
         /\ \A i \in DOMAIN rtmp.conns :
              /\ IsConn(rtmp'.conns[i]) /\ rtmp'.conns[i].open = rtmp.conns[i].open /\ rtmp'.conns[i].log = rtmp.conns[i].log
              /\ rtmp'.conns[i].lossy = rtmp.conns[i].lossy
              /\ i \in {rtmp.clients[c].conn : c \in to} => rtmp'.conns[i].sent = Append(rtmp.conns[i].sent, f)
              /\ i \notin {rtmp.clients[c].conn : c \in to} => rtmp'.conns[i].sent = rtmp.conns[i].sent
<1>1. rtmp.stage = "pubs" /\ id \in rtmp.left /\ id \in DOMAIN rtmp.pubs /\ IsPublisher(p)
  BY DEF PublisherClosed, LooksAt, TurnRight, LiveTypes
<1>2. f \in Packets BY <1>1 DEF IsPublisher, Publishers, Packets
<1> DEFINE pclear == rtmp.pclear \cup {id}
           s == [rtmp EXCEPT !.pclear = pclear]
           conns == Out(s, to, f)
           clear == rtmp.clear \cup {rtmp.clients[c].conn : c \in to}
           t == [s EXCEPT !.conns = conns, !.clear = clear]
<1>3. DOMAIN rtmp = {"of", "stage", "left", "conns", "pubs", "clients", "conn_map", "pub_map", "channels", "clear", "pclear",
                     "made", "sockets", "ended"} BY DEF LiveTypes
<1>4. rtmp' = Past(handle_publish_finished(s, p.key, f), id) BY DEF PublisherClosed
<1> HIDE DEF pclear
<1>5. /\ DOMAIN s = DOMAIN rtmp /\ s.of = rtmp.of /\ s.made = rtmp.made /\ s.conns = rtmp.conns /\ s.conn_map = rtmp.conn_map
      /\ s.pubs = rtmp.pubs /\ s.clients = rtmp.clients /\ s.pub_map = rtmp.pub_map /\ s.channels = rtmp.channels
      /\ s.stage = rtmp.stage /\ s.left = rtmp.left /\ s.clear = rtmp.clear /\ s.pclear = pclear /\ s.ended = rtmp.ended
  BY <1>3
<1> HIDE DEF s
<1>6. Watching(s, p.key) = to BY <1>5 DEF Watching
<1>7. handle_publish_finished(s, p.key, f) = t
  <2>1. handle_publish_finished(s, p.key, f) = [s EXCEPT !.conns = Out(s, to, f), !.clear = @ \cup {s.clients[c].conn : c \in to}]
    BY <1>6 DEF handle_publish_finished
  <2> QED BY <1>5, <2>1
<1>8. /\ DOMAIN conns = DOMAIN rtmp.conns
      /\ \A i \in DOMAIN rtmp.conns :
              /\ IsConn(conns[i]) /\ conns[i].open = rtmp.conns[i].open /\ conns[i].log = rtmp.conns[i].log
              /\ conns[i].lossy = rtmp.conns[i].lossy
              /\ i \in {rtmp.clients[c].conn : c \in to} => conns[i].sent = Append(rtmp.conns[i].sent, f)
              /\ i \notin {rtmp.clients[c].conn : c \in to} => conns[i].sent = rtmp.conns[i].sent
  <2>1. conns = Out(s, to, f) OBVIOUS
  <2>2. s.conns = rtmp.conns /\ s.clients = rtmp.clients BY <1>5
  <2> HIDE DEF conns
  <2> QED BY ONLY LiveTypes, <1>2, <2>1, <2>2, OutFacts
<1> HIDE DEF conns, clear
<1>9. /\ DOMAIN t = DOMAIN rtmp /\ t.of = rtmp.of /\ t.made = rtmp.made /\ t.conns = conns /\ t.conn_map = rtmp.conn_map
      /\ t.pubs = rtmp.pubs /\ t.clients = rtmp.clients /\ t.pub_map = rtmp.pub_map /\ t.channels = rtmp.channels
      /\ t.stage = rtmp.stage /\ t.left = rtmp.left /\ t.clear = clear /\ t.pclear = pclear /\ t.ended = rtmp.ended
  BY <1>3, <1>5
<1> HIDE DEF t
<1>10. rtmp' = [t EXCEPT !.left = t.left \ {id}] BY <1>4, <1>7 DEF Past
<1>11. /\ DOMAIN rtmp' = DOMAIN rtmp /\ rtmp'.of = rtmp.of /\ rtmp'.made = rtmp.made /\ rtmp'.conns = conns /\ rtmp'.conn_map = rtmp.conn_map
       /\ rtmp'.pubs = rtmp.pubs /\ rtmp'.clients = rtmp.clients /\ rtmp'.pub_map = rtmp.pub_map /\ rtmp'.channels = rtmp.channels
       /\ rtmp'.stage = rtmp.stage /\ rtmp'.left = rtmp.left \ {id} /\ rtmp'.clear = clear /\ rtmp'.pclear = pclear
       /\ rtmp'.ended = rtmp.ended
  BY <1>3, <1>9, <1>10
<1> QED BY <1>1, <1>2, <1>8, <1>11 DEF clear, pclear

LEMMA EndingStep == ASSUME RtmpInv, NEW id, PublisherClosed(id) PROVE RtmpInv'
<1>0. LiveTypes /\ MapsAgree /\ TurnRight BY DEF RtmpInv, LiveShape
<1> DEFINE p == rtmp.pubs[id]
           f == [kind |-> "end", pub |-> p.serial, n |-> p.n, early |-> FALSE]
           key == p.key
           to == Watching(rtmp, p.key)
           told == {rtmp.clients[c].conn : c \in to}
<1>1. /\ rtmp.stage = "pubs" /\ id \in rtmp.left /\ id \in DOMAIN rtmp.pubs /\ IsPublisher(p) /\ f \in Packets
      /\ DOMAIN rtmp' = DOMAIN rtmp /\ rtmp'.of = rtmp.of /\ rtmp'.made = rtmp.made
      /\ rtmp'.conn_map = rtmp.conn_map /\ rtmp'.pub_map = rtmp.pub_map
      /\ rtmp'.pubs = rtmp.pubs /\ rtmp'.clients = rtmp.clients /\ rtmp'.channels = rtmp.channels
      /\ rtmp'.stage = "pubs" /\ rtmp'.left = rtmp.left \ {id} /\ rtmp'.pclear = rtmp.pclear \cup {id}
      /\ rtmp'.clear = rtmp.clear \cup told /\ rtmp'.ended = rtmp.ended
      /\ DOMAIN rtmp'.conns = DOMAIN rtmp.conns
      /\ \A i \in DOMAIN rtmp.conns :
           /\ IsConn(rtmp'.conns[i]) /\ rtmp'.conns[i].open = rtmp.conns[i].open /\ rtmp'.conns[i].log = rtmp.conns[i].log
           /\ rtmp'.conns[i].lossy = rtmp.conns[i].lossy
           /\ i \in told => rtmp'.conns[i].sent = Append(rtmp.conns[i].sent, f)
           /\ i \notin told => rtmp'.conns[i].sent = rtmp.conns[i].sent
  <2>1. p = rtmp.pubs[id] /\ f = [kind |-> "end", pub |-> p.serial, n |-> p.n, early |-> FALSE] /\ to = Watching(rtmp, p.key) OBVIOUS
  <2> HIDE DEF p, f, to
  <2> QED BY <1>0, <2>1, EndingFacts
<1>2. p = rtmp.pubs[id] /\ f.kind = "end" /\ to = Watching(rtmp, key) /\ key = p.key OBVIOUS
<1>3. f = [kind |-> "end", pub |-> p.serial, n |-> p.n, early |-> FALSE] OBVIOUS
<1> HIDE DEF p, f, to, key
<1>4. LiveTypes' BY <1>0, <1>1 DEF LiveTypes
<1>5. {i \in DOMAIN rtmp'.conns : rtmp'.conns[i].open} = {i \in DOMAIN rtmp.conns : rtmp.conns[i].open} BY <1>1
<1>6. MapsAgree' BY <1>0, <1>1, <1>5 DEF MapsAgree, WatchersAgree
<1>7. told \subseteq DOMAIN rtmp.conns
  <2> SUFFICES ASSUME NEW c \in to PROVE rtmp.clients[c].conn \in DOMAIN rtmp.conns OBVIOUS
  <2>1. c \in DOMAIN rtmp.clients /\ rtmp.clients[c].action = "watching" BY <1>2 DEF Watching
  <2>2. \A j \in DOMAIN rtmp.pub_map : rtmp.clients[rtmp.pub_map[j]].action = "publishing" BY <1>0 DEF MapsAgree
  <2>3. \E j \in DOMAIN rtmp.conn_map : rtmp.conn_map[j] = c BY <1>0, <2>1, <2>2 DEF MapsAgree
  <2>4. \A j \in DOMAIN rtmp.conn_map : rtmp.clients[rtmp.conn_map[j]].conn = j /\ j \in DOMAIN rtmp.conns BY <1>0 DEF MapsAgree
  <2> QED BY <2>3, <2>4
<1>8. TurnRight' BY <1>0, <1>1, <1>7 DEF TurnRight
<1>9. ASSUME UniqueKeys /\ OnePlay PROVE LiveFlow'
  <2>0. KeysApart /\ ViewsSound /\ ChannelsSound /\ EndsRight BY <1>9 DEF RtmpInv, LiveFlow
  <2>1. KeysApart' BY <1>1, <2>0 DEF KeysApart
  <2>2. ChannelsSound' BY <1>1, <2>0 DEF ChannelsSound, ChannelSound
  <2>3. key \in DOMAIN rtmp.channels BY <1>0, <1>1, <1>2 DEF MapsAgree
  <2>4. /\ \A c \in Watching(rtmp, key) :
              /\ c \in DOMAIN rtmp.clients /\ rtmp.clients[c].action = "watching" /\ rtmp.clients[c].key = key
              /\ rtmp.clients[c].conn \in DOMAIN rtmp.conn_map /\ rtmp.conn_map[rtmp.clients[c].conn] = c
        /\ \A i : Watches(i) /\ WatchesFrom(i).key = key => rtmp.conn_map[i] \in Watching(rtmp, key) /\ WatchesFrom(i).conn = i
    BY <1>0, <1>9, <2>3, WatcherConns
  <2>5. \A i : i \in told => Watches(i) /\ WatchesFrom(i).key = key
    <3> SUFFICES ASSUME NEW c \in to, NEW i, i = rtmp.clients[c].conn PROVE Watches(i) /\ WatchesFrom(i).key = key OBVIOUS
    <3>1. c \in Watching(rtmp, key) BY <1>2
    <3>2. i \in DOMAIN rtmp.conn_map /\ rtmp.conn_map[i] = c /\ rtmp.clients[c].action = "watching" /\ rtmp.clients[c].key = key
      BY <2>4, <3>1
    <3> QED BY <3>2 DEF Watches, WatchesFrom
  <2> HIDE DEF told
  <2>6. \A i : Watches(i)' = Watches(i) /\ WatchesFrom(i)' = WatchesFrom(i) BY <1>1 DEF Watches, WatchesFrom
  <2>7. p.serial <= rtmp.made /\ p.serial \in Nat BY <1>0, <1>1, <1>2 DEF LiveTypes, IsPublisher, Publishers
  <2>8. \A i \in DOMAIN rtmp.conns : IsConn(rtmp.conns[i]) /\ View(rtmp.conns[i]) \in Seq(Packets) BY <1>0, ViewFacts DEF LiveTypes
  <2>9. \A i \in DOMAIN rtmp.conns : i \in told => View(rtmp'.conns[i]) = Append(View(rtmp.conns[i]), f)
    <3> SUFFICES ASSUME NEW i \in DOMAIN rtmp.conns, i \in told PROVE View(rtmp'.conns[i]) = Append(View(rtmp.conns[i]), f) OBVIOUS
    <3> DEFINE conn == rtmp.conns[i]
               new == rtmp'.conns[i]
    <3>1. IsConn(conn) /\ new.log = conn.log /\ new.sent = Append(conn.sent, f) BY <1>1, <2>8
    <3> HIDE DEF conn, new
    <3>2. View(new) = Append(View(conn), f) BY <1>1, <3>1, ViewAppend
    <3> QED BY <3>2 DEF conn, new
  <2>10. \A i \in DOMAIN rtmp.conns : i \notin told => View(rtmp'.conns[i]) = View(rtmp.conns[i]) BY <1>1 DEF View
  <2>11. ViewsSound'
    <3> SUFFICES ASSUME NEW i \in DOMAIN rtmp.conns, ~rtmp.conns[i].lossy
                 PROVE  Decodable(rtmp.conns[i].log) /\ SeesAll(i, View(rtmp.conns[i]))'
      BY <1>1 DEF ViewsSound
    <3> DEFINE V == View(rtmp.conns[i])
               W == View(rtmp'.conns[i])
    <3>1. Decodable(rtmp.conns[i].log) /\ SeesAll(i, V) BY <2>0 DEF ViewsSound
    <3>2. V \in Seq(Packets) BY <2>8
    <3>3. (i \in told => W = Append(V, f)) /\ (i \notin told => W = V) BY <2>9, <2>10
    <3> HIDE DEF V, W
    <3>4. /\ SoundView(V) /\ \A j \in DOMAIN V : V[j].early \/ V[j].pub <= rtmp.made
          /\ \A r \in DOMAIN rtmp.pubs : Below(V, rtmp.pubs[r])
          /\ ~Watches(i) => V = << >>
          /\ Watches(i) /\ WatchesFrom(i).got_key =>
               \A r \in DOMAIN rtmp.pubs : rtmp.pubs[r].key = WatchesFrom(i).key => Follows(V, rtmp.pubs[r])
          /\ Watches(i) /\ ~WatchesFrom(i).got_key => \A s : ~KeyIn(V, s)
      BY <3>1 DEF SeesAll
    <3>5. CASE i \in told
      <4>1. Watches(i) /\ WatchesFrom(i).key = key BY <2>5, <3>5
      <4>2. Below(V, p) /\ (KeyIn(V, p.serial) => Latest(V, p)) BY <1>1, <1>2, <3>4, <4>1 DEF Follows
      <4>3. W = Append(V, f) BY <3>3, <3>5
      <4>4. SoundView(W)
        <5>1. IsPublisher(p) BY <1>1
        <5>2. SoundView(Append(V, f)) BY ONLY <1>3, <3>2, <3>4, <4>2, <5>1, EndsOn
        <5> QED BY <4>3, <5>2
      <4>5. \A r : (Below(V, r) => Below(W, r)) /\ (Follows(V, r) => Follows(W, r))
        <5> SUFFICES ASSUME NEW r PROVE (Below(V, r) => Below(W, r)) /\ (Follows(V, r) => Follows(W, r)) OBVIOUS
        <5>1. f \in Packets BY <1>1
        <5>2. f.pub # r.serial \/ f.early \/ f.kind \in {"meta", "end"} BY <1>2
        <5> QED BY ONLY <3>2, <4>3, <5>1, <5>2, OtherAppend
      <4>6. \A s : KeyIn(W, s) => KeyIn(V, s) BY <1>1, <1>2, <3>2, <4>3, KeyAppend
      <4>7. \A j \in DOMAIN W : W[j].early \/ W[j].pub <= rtmp'.made
        <5>1. Appended(V, f, W) BY <1>1, <3>2, <4>3, AppendedView
        <5>2. /\ Len(V) \in Nat /\ DOMAIN V = 1 .. Len(V) /\ DOMAIN W = 1 .. Len(V) + 1 /\ W[Len(V) + 1] = f
              /\ \A j \in 1 .. Len(V) : W[j] = V[j]
          BY <5>1 DEF Appended
        <5>3. \A j \in 1 .. Len(V) + 1 : j = Len(V) + 1 \/ j \in 1 .. Len(V) BY <5>2
        <5>4. f.pub = p.serial BY <1>3
        <5> QED BY <1>1, <2>7, <3>4, <5>2, <5>3, <5>4
      <4>8. W = View(rtmp.conns[i])' BY DEF W
      <4>9. SeesAll(i, View(rtmp.conns[i]))' BY <1>1, <2>6, <3>4, <4>1, <4>4, <4>5, <4>6, <4>7, <4>8 DEF SeesAll
      <4> QED BY <3>1, <4>9
    <3>6. CASE i \notin told
      <4>1. V = View(rtmp.conns[i])' BY <3>3, <3>6 DEF W
      <4>2. SeesAll(i, View(rtmp.conns[i]))' BY <1>1, <2>6, <3>4, <4>1 DEF SeesAll
      <4> QED BY <3>1, <4>2
    <3> QED BY <3>5, <3>6
  <2>12. EndsRight'
    <3>1. ASSUME NEW i \in DOMAIN rtmp'.conns
          PROVE  /\ ~HasEnd(rtmp'.conns[i].log)
                 /\ HasEnd(rtmp'.conns[i].sent) =>
                      i \in rtmp'.clear /\ Watches(i)' /\ \A r \in rtmp'.left : rtmp'.pubs[r].key # WatchesFrom(i)'.key
                 /\ ~rtmp'.conns[i].lossy => EndLast(View(rtmp'.conns[i]))
      <4>0. i \in DOMAIN rtmp.conns BY <1>1
      <4>1. /\ ~HasEnd(rtmp.conns[i].log)
            /\ HasEnd(rtmp.conns[i].sent) =>
                 i \in rtmp.clear /\ Watches(i) /\ \A r \in rtmp.left : rtmp.pubs[r].key # WatchesFrom(i).key
            /\ ~rtmp.conns[i].lossy => EndLast(View(rtmp.conns[i]))
        BY <1>1, <2>0, <4>0 DEF EndsRight
      <4>2. CASE i \in told
        <5>1. Watches(i) /\ WatchesFrom(i).key = key /\ id \in rtmp.left /\ rtmp.pubs[id].key = key BY <1>1, <1>2, <2>5, <4>2
        <5>2. ~HasEnd(rtmp.conns[i].sent) BY <4>1, <5>1
        <5>3. ~HasEnd(View(rtmp.conns[i])) BY <2>8, <4>0, <4>1, <5>2, ViewFacts
        <5>4. EndLast(View(rtmp'.conns[i])) BY <1>1, <2>8, <2>9, <4>0, <4>2, <5>3, EndAppend
        <5>5. i \in rtmp'.clear /\ Watches(i)' BY <1>1, <2>6, <4>2, <5>1
        <5>6. \A r \in rtmp.left \ {id} : rtmp.pubs[r].key # key BY <1>0, <1>1, <2>0, <5>1 DEF TurnRight, KeysApart
        <5>7. \A r \in rtmp'.left : rtmp'.pubs[r].key # WatchesFrom(i)'.key BY <1>1, <2>6, <5>1, <5>6
        <5>8. ~HasEnd(rtmp'.conns[i].log) BY <1>1, <4>0, <4>1
        <5> QED BY <5>4, <5>5, <5>7, <5>8
      <4>3. CASE i \notin told
        <5>1. rtmp'.conns[i].sent = rtmp.conns[i].sent /\ rtmp'.conns[i].log = rtmp.conns[i].log /\ rtmp'.conns[i].lossy = rtmp.conns[i].lossy
          BY <1>1, <4>0, <4>3
        <5>2. View(rtmp'.conns[i]) = View(rtmp.conns[i]) BY <2>10, <4>0, <4>3
        <5> QED BY <1>1, <2>6, <4>1, <5>1, <5>2
      <4> QED BY <4>2, <4>3
    <3> QED BY <1>1, <2>0, <3>1 DEF EndsRight
  <2> QED BY <2>1, <2>2, <2>11, <2>12 DEF LiveFlow
<1> QED BY <1>4, <1>6, <1>8, <1>9 DEF RtmpInv, LiveShape

(* The channel a player comes to *)
ChannelOf(key) == IF key \in DOMAIN rtmp.channels THEN rtmp.channels[key] ELSE NewChannel
Heads(ch) == ch.meta \o ch.vhdr \o ch.ahdr

(* What a player's request to play changes *)
Played(id, key, c, ch) ==
  /\ rtmp.stage = "conns" /\ id \in DOMAIN rtmp.conns /\ id \in DOMAIN rtmp.conn_map /\ c \in DOMAIN rtmp.clients
  /\ IsChannel(ch) /\ (OnePlay => rtmp.clients[c].action = "waiting")
  /\ DOMAIN rtmp' = DOMAIN rtmp /\ rtmp'.of = rtmp.of /\ rtmp'.made = rtmp.made /\ rtmp'.pubs = rtmp.pubs
  /\ rtmp'.conn_map = rtmp.conn_map /\ rtmp'.pub_map = rtmp.pub_map
  /\ rtmp'.stage = "conns" /\ rtmp'.left = rtmp.left /\ rtmp'.clear = rtmp.clear /\ rtmp'.pclear = rtmp.pclear
  /\ rtmp'.ended = rtmp.ended
  /\ DOMAIN rtmp'.clients = DOMAIN rtmp.clients
  /\ \A d \in DOMAIN rtmp.clients : d # c => rtmp'.clients[d] = rtmp.clients[d]
  /\ IsClient(rtmp'.clients[c]) /\ rtmp'.clients[c].action = "watching" /\ rtmp'.clients[c].key = key
  /\ rtmp'.clients[c].conn = rtmp.clients[c].conn
  /\ rtmp'.clients[c].got_key = (rtmp.clients[c].got_key \/ ch.saved # << >>)
  /\ DOMAIN rtmp'.conns = DOMAIN rtmp.conns
  /\ \A i \in DOMAIN rtmp.conns : i # id => rtmp'.conns[i] = rtmp.conns[i]
  /\ IsConn(rtmp'.conns[id]) /\ rtmp'.conns[id].open = rtmp.conns[id].open /\ rtmp'.conns[id].log = rtmp.conns[id].log
  /\ rtmp'.conns[id].lossy = rtmp.conns[id].lossy
  /\ rtmp'.conns[id].sent = rtmp.conns[id].sent \o Heads(ch) \o ch.saved
  /\ DOMAIN rtmp'.channels = DOMAIN rtmp.channels \cup {key}
  /\ \A k \in DOMAIN rtmp.channels : k # key => rtmp'.channels[k] = rtmp.channels[k]
  /\ IsChannel(rtmp'.channels[key]) /\ rtmp'.channels[key].watchers = ch.watchers \cup {c}
  /\ rtmp'.channels[key].saved = ch.saved

LEMMA PlayFacts ==
  ASSUME LiveTypes, MapsAgree, TurnRight, NEW id, NEW key, Play(id, key), NEW c, c = rtmp.conn_map[id],
         NEW ch, ch = ChannelOf(key)
  PROVE  Played(id, key, c, ch)
<1>1. rtmp.stage = "conns" /\ id \in DOMAIN rtmp.conns /\ id \in DOMAIN rtmp.conn_map /\ c \in DOMAIN rtmp.clients
  <2>1. rtmp.stage = "conns" /\ id \in DOMAIN rtmp.conns /\ rtmp.conns[id].open BY DEF Play, LooksAt, TurnRight
  <2>2. id \in DOMAIN rtmp.conn_map BY <2>1 DEF MapsAgree
  <2> QED BY <2>1, <2>2 DEF MapsAgree
<1>2. OnePlay => rtmp.clients[c].action = "waiting" BY DEF Play
<1>3. IsChannel(ch)
  <2>1. CASE key \in DOMAIN rtmp.channels BY <2>1 DEF ChannelOf, LiveTypes
  <2>2. CASE key \notin DOMAIN rtmp.channels
    <3>1. ch = NewChannel BY <2>2 DEF ChannelOf
    <3> QED BY ONLY <3>1, NewChannelSound
  <2> QED BY <2>1, <2>2
<1> DEFINE listing == [ch EXCEPT !.watchers = ch.watchers \cup {c}]
           player == [rtmp.clients[c] EXCEPT !.action = "watching", !.key = key, !.got_key = rtmp.clients[c].got_key \/ ch.saved # << >>]
           conn == [rtmp.conns[id] EXCEPT !.sent = rtmp.conns[id].sent \o Heads(ch) \o ch.saved]
           channels == Adding(rtmp.channels, key, listing)
           clients == [rtmp.clients EXCEPT ![c] = player]
           conns == [rtmp.conns EXCEPT ![id] = conn]
<1>4. DOMAIN rtmp = {"of", "stage", "left", "conns", "pubs", "clients", "conn_map", "pub_map", "channels", "clear", "pclear",
                     "made", "sockets", "ended"} BY DEF LiveTypes
<1>5. rtmp' = [rtmp EXCEPT !.channels = channels, !.clients = clients, !.conns = conns]
  <2>1. rtmp' = handle_play_requested(rtmp, id, key) BY DEF Play
  <2> DEFINE ch2 == IF key \in DOMAIN rtmp.channels THEN rtmp.channels[key] ELSE NewChannel
             listing2 == [ch2 EXCEPT !.watchers = @ \cup {c}]
             player2 == [rtmp.clients[c] EXCEPT !.action = "watching", !.key = key, !.got_key = @ \/ ch2.saved # << >>]
  <2>2. handle_play_requested(rtmp, id, key)
          = [rtmp EXCEPT !.channels = Adding(@, key, listing2), !.clients[c] = player2,
                !.conns[id].sent = @ \o (ch2.meta \o ch2.vhdr \o ch2.ahdr) \o ch2.saved]
    BY DEF handle_play_requested
  <2>3. ch2 = ch BY DEF ChannelOf
  <2>4. listing2 = listing BY <2>3
  <2>5. player2 = player BY <2>3
  <2> HIDE DEF ch2, listing2, player2, listing, player
  <2>6. handle_play_requested(rtmp, id, key)
          = [rtmp EXCEPT !.channels = Adding(rtmp.channels, key, listing), !.clients = [rtmp.clients EXCEPT ![c] = player],
                !.conns = [rtmp.conns EXCEPT ![id] = [rtmp.conns[id] EXCEPT !.sent = rtmp.conns[id].sent \o Heads(ch) \o ch.saved]]]
    BY <2>2, <2>3, <2>4, <2>5, <1>4 DEF Heads
  <2> QED BY <2>1, <2>6
<1>6. DOMAIN channels = DOMAIN rtmp.channels \cup {key} /\ channels[key] = listing
      /\ \A k \in DOMAIN rtmp.channels : k # key => channels[k] = rtmp.channels[k]
  <2> HIDE DEF listing
  <2> QED BY DEF Adding
<1>7. IsChannel(listing) /\ listing.watchers = ch.watchers \cup {c} /\ listing.saved = ch.saved
  <2>1. DOMAIN ch = {"watchers", "meta", "vhdr", "ahdr", "saved", "starts"} BY <1>3 DEF IsChannel
  <2>2. /\ DOMAIN listing = DOMAIN ch /\ listing.watchers = ch.watchers \cup {c} /\ listing.saved = ch.saved
        /\ listing.meta = ch.meta /\ listing.vhdr = ch.vhdr /\ listing.ahdr = ch.ahdr /\ listing.starts = ch.starts
    BY <2>1
  <2> HIDE DEF listing
  <2>3. IsChannel(listing) BY <1>3, <2>2 DEF IsChannel
  <2> QED BY <2>2, <2>3
<1>8. /\ IsClient(player) /\ player.action = "watching" /\ player.key = key /\ player.conn = rtmp.clients[c].conn
      /\ player.got_key = (rtmp.clients[c].got_key \/ ch.saved # << >>)
  <2> DEFINE client == rtmp.clients[c]
             got == client.got_key \/ ch.saved # << >>
  <2>1. IsClient(client) BY <1>1 DEF LiveTypes
  <2>2. got \in BOOLEAN OBVIOUS
  <2>3. player = [client EXCEPT !.action = "watching", !.key = key, !.got_key = got] OBVIOUS
  <2> HIDE DEF client, got, player
  <2>4. /\ DOMAIN player = DOMAIN client /\ player.action = "watching" /\ player.key = key /\ player.conn = client.conn
        /\ player.got_key = got
    BY <2>1, <2>3 DEF IsClient
  <2>5. player.action # "waiting" /\ player.action \in {"publishing", "waiting", "watching"} BY <2>4
  <2>6. IsClient(player) BY <2>1, <2>2, <2>4, <2>5 DEF IsClient
  <2> QED BY <2>4, <2>6 DEF client, got
<1>9. /\ IsConn(conn) /\ conn.open = rtmp.conns[id].open /\ conn.log = rtmp.conns[id].log /\ conn.lossy = rtmp.conns[id].lossy
      /\ conn.sent = rtmp.conns[id].sent \o Heads(ch) \o ch.saved
  <2> DEFINE old == rtmp.conns[id]
             sent == old.sent \o Heads(ch) \o ch.saved
  <2>1. IsConn(old) BY <1>1 DEF LiveTypes
  <2>2. ch.meta \in Seq(Packets) /\ ch.vhdr \in Seq(Packets) /\ ch.ahdr \in Seq(Packets) /\ ch.saved \in Seq(Packets)
    BY <1>3 DEF IsChannel, GroupsStart
  <2>3. Heads(ch) \in Seq(Packets) BY <2>2 DEF Heads
  <2>4. old.sent \in Seq(Packets) BY <2>1 DEF IsConn
  <2>5. sent \in Seq(Packets) BY <2>2, <2>3, <2>4
  <2>6. conn = [old EXCEPT !.sent = sent] OBVIOUS
  <2> HIDE DEF old, sent, conn
  <2>7. DOMAIN conn = DOMAIN old /\ conn.open = old.open /\ conn.log = old.log /\ conn.lossy = old.lossy /\ conn.sent = sent
    BY <2>1, <2>6 DEF IsConn
  <2>8. IsConn(conn) BY <2>1, <2>5, <2>7 DEF IsConn
  <2> QED BY <2>7, <2>8 DEF old, sent
<1> HIDE DEF listing, player, conn
<1>10. DOMAIN clients = DOMAIN rtmp.clients /\ clients[c] = player /\ \A d \in DOMAIN rtmp.clients : d # c => clients[d] = rtmp.clients[d]
  BY <1>1
<1>11. DOMAIN conns = DOMAIN rtmp.conns /\ conns[id] = conn /\ \A i \in DOMAIN rtmp.conns : i # id => conns[i] = rtmp.conns[i]
  BY <1>1
<1> HIDE DEF conns, clients, channels
<1>12. /\ DOMAIN rtmp' = DOMAIN rtmp /\ rtmp'.of = rtmp.of /\ rtmp'.made = rtmp.made /\ rtmp'.conns = conns /\ rtmp'.conn_map = rtmp.conn_map
       /\ rtmp'.pubs = rtmp.pubs /\ rtmp'.clients = clients /\ rtmp'.pub_map = rtmp.pub_map /\ rtmp'.channels = channels
       /\ rtmp'.stage = rtmp.stage /\ rtmp'.left = rtmp.left /\ rtmp'.clear = rtmp.clear /\ rtmp'.pclear = rtmp.pclear
       /\ rtmp'.ended = rtmp.ended
  BY <1>4, <1>5
<1> QED BY <1>1, <1>2, <1>3, <1>6, <1>7, <1>8, <1>9, <1>10, <1>11, <1>12 DEF Played

(* Two sequences of packets, one after the other *)
LEMMA JoinedPackets ==
  ASSUME NEW A \in Seq(Packets), NEW B \in Seq(Packets), NEW V, V = A \o B
  PROVE  /\ V \in Seq(Packets) /\ (Early(A) /\ Early(B) => Early(V))
         /\ HasEnd(V) => HasEnd(A) \/ HasEnd(B)
<1>1. /\ V \in Seq(Packets) /\ Len(A) \in Nat /\ Len(B) \in Nat
      /\ DOMAIN A = 1 .. Len(A) /\ DOMAIN B = 1 .. Len(B) /\ DOMAIN V = 1 .. Len(A) + Len(B)
      /\ \A i \in 1 .. Len(A) : V[i] = A[i]
      /\ \A i \in 1 .. Len(B) : V[Len(A) + i] = B[i]
  OBVIOUS
<1>2. ASSUME NEW i \in DOMAIN V PROVE (\E k \in DOMAIN A : V[i] = A[k]) \/ (\E k \in DOMAIN B : V[i] = B[k])
  <2>1. CASE i <= Len(A)
    <3>1. i \in 1 .. Len(A) BY <1>1, <2>1
    <3> QED BY <1>1, <3>1
  <2>2. CASE i > Len(A)
    <3>1. i - Len(A) \in 1 .. Len(B) /\ Len(A) + (i - Len(A)) = i BY <1>1, <2>2
    <3> QED BY <1>1, <3>1
  <2> QED BY <1>1, <2>1, <2>2
<1>3. ASSUME Early(A), Early(B) PROVE Early(V)
  <2>1. /\ \A k \in DOMAIN A : A[k].early /\ A[k].kind # "end"
        /\ \A k \in DOMAIN B : B[k].early /\ B[k].kind # "end"
    BY <1>3 DEF Early
  <2>2. \A i \in DOMAIN V : V[i].early /\ V[i].kind # "end" BY ONLY <1>2, <2>1
  <2> QED BY <2>2 DEF Early
<1>4. ASSUME HasEnd(V) PROVE HasEnd(A) \/ HasEnd(B)
  <2>1. PICK i \in DOMAIN V : V[i].kind = "end" BY <1>4 DEF HasEnd
  <2>2. (\E k \in DOMAIN A : A[k].kind = "end") \/ (\E k \in DOMAIN B : B[k].kind = "end") BY ONLY <1>2, <2>1
  <2> QED BY <2>2 DEF HasEnd
<1> QED BY <1>1, <1>3, <1>4

LEMMA HeadsEarly ==
  ASSUME NEW ch, IsChannel(ch)
  PROVE  Heads(ch) \in Seq(Packets) /\ Early(Heads(ch)) /\ ~HasEnd(Heads(ch))
<1> DEFINE A == ch.meta
           B == ch.vhdr
           C == ch.ahdr
           D == A \o B
           H == D \o C
<1>1. A \in Seq(Packets) /\ B \in Seq(Packets) /\ C \in Seq(Packets) /\ Early(A) /\ Early(B) /\ Early(C) BY DEF IsChannel
<1>2. H = Heads(ch) BY DEF Heads
<1>3. D = A \o B /\ H = D \o C OBVIOUS
<1> HIDE DEF A, B, C, D, H
<1>4. D \in Seq(Packets) /\ Early(D) BY ONLY <1>1, <1>3, JoinedPackets
<1>5. H \in Seq(Packets) /\ Early(H) BY ONLY <1>1, <1>3, <1>4, JoinedPackets
<1>6. ~HasEnd(H) BY <1>5 DEF Early, HasEnd
<1> QED BY <1>2, <1>5, <1>6

(* What a player is sent that comes to a stream *)
LEMMA LateSees ==
  ASSUME NEW conn, IsConn(conn), View(conn) = << >>, NEW ch, IsChannel(ch), SavedSound(ch),
         NEW new, new.log = conn.log, new.sent = conn.sent \o Heads(ch) \o ch.saved, NEW V, V = View(new)
  PROVE  /\ V \in Seq(Packets) /\ SoundView(V) /\ ~HasEnd(V) /\ ~HasEnd(new.sent)
         /\ \A p : KeyIn(V, p) => KeyIn(ch.saved, p)
         /\ FromSaved(V, ch.saved)
         /\ \A p : Below(ch.saved, p) => Below(V, p)
         /\ \A p : Follows(ch.saved, p) => Follows(V, p)
<1> DEFINE H == Heads(ch)
           S == ch.saved
           L == conn.log
           M == conn.sent
<1>1. S \in Seq(Packets) BY DEF IsChannel, GroupsStart
<1>2. L \in Seq(Packets) /\ M \in Seq(Packets) /\ L \o M = << >> BY DEF IsConn, View
<1>4. SoundView(S) /\ AllFrames(S) BY DEF SavedSound
<1>5. V = L \o ((M \o H) \o S) /\ new.sent = (M \o H) \o S BY DEF View
<1> HIDE DEF H, S, L, M
<1>6. L = << >> /\ M = << >>
  <2>1. Len(L \o M) = Len(L) + Len(M) /\ Len(L) \in Nat /\ Len(M) \in Nat BY <1>2
  <2>2. Len(L \o M) = 0 BY <1>2
  <2>3. Len(L) = 0 /\ Len(M) = 0 BY <2>1, <2>2
  <2> QED BY <1>2, <2>3
<1>7. H \in Seq(Packets) /\ Early(H) BY HeadsEarly DEF H
<1>8. V = H \o S /\ new.sent = H \o S
  <2>1. M \o H = H BY <1>6, <1>7
  <2>2. L \o (H \o S) = H \o S BY <1>1, <1>6, <1>7
  <2> QED BY <1>5, <2>1, <2>2
<1>9. /\ V \in Seq(Packets) /\ SoundView(V) /\ ~HasEnd(V) /\ FromSaved(V, S)
      /\ \A p : KeyIn(V, p) => KeyIn(S, p)
      /\ \A p : Below(S, p) => Below(V, p)
      /\ \A p : Follows(S, p) => Follows(V, p)
  <2>0. V = H \o S /\ H \in Seq(Packets) /\ Early(H) /\ S \in Seq(Packets) /\ SoundView(S) /\ AllFrames(S) BY <1>1, <1>4, <1>7, <1>8
  <2> QED BY ONLY <2>0, CatchUp
<1>10. ~HasEnd(new.sent) BY <1>8, <1>9
<1> QED BY <1>9, <1>10 DEF S

LEMMA LateEnd ==
  ASSUME NEW conn, IsConn(conn), NEW ch, IsChannel(ch), AllFrames(ch.saved), NEW sent, sent = conn.sent \o Heads(ch) \o ch.saved
  PROVE  HasEnd(sent) => HasEnd(conn.sent)
<1> DEFINE M == conn.sent
           H == Heads(ch)
           S == ch.saved
           D == M \o H
<1>1. M \in Seq(Packets) /\ S \in Seq(Packets) BY DEF IsConn, IsChannel, GroupsStart
<1>2. H \in Seq(Packets) /\ ~HasEnd(H) BY HeadsEarly
<1>3. ~HasEnd(S) BY DEF HasEnd, AllFrames, FrameAt
<1>4. D = M \o H /\ sent = D \o S OBVIOUS
<1> HIDE DEF M, H, S, D
<1>5. D \in Seq(Packets) /\ (HasEnd(D) => HasEnd(M)) BY ONLY <1>1, <1>2, <1>4, JoinedPackets
<1>6. HasEnd(sent) => HasEnd(D) BY ONLY <1>1, <1>3, <1>4, <1>5, JoinedPackets
<1> QED BY <1>5, <1>6 DEF M

LEMMA PlayStep == ASSUME RtmpInv, NEW id, NEW key \in StreamKeys, Play(id, key) PROVE RtmpInv'
<1>0. LiveTypes /\ MapsAgree /\ TurnRight BY DEF RtmpInv, LiveShape
<1> DEFINE c == rtmp.conn_map[id]
           ch == ChannelOf(key)
<1>1. /\ rtmp.stage = "conns" /\ id \in DOMAIN rtmp.conns /\ id \in DOMAIN rtmp.conn_map /\ c \in DOMAIN rtmp.clients
      /\ IsChannel(ch) /\ (OnePlay => rtmp.clients[c].action = "waiting")
      /\ DOMAIN rtmp' = DOMAIN rtmp /\ rtmp'.of = rtmp.of /\ rtmp'.made = rtmp.made /\ rtmp'.pubs = rtmp.pubs
      /\ rtmp'.conn_map = rtmp.conn_map /\ rtmp'.pub_map = rtmp.pub_map
      /\ rtmp'.stage = "conns" /\ rtmp'.left = rtmp.left /\ rtmp'.clear = rtmp.clear /\ rtmp'.pclear = rtmp.pclear
      /\ rtmp'.ended = rtmp.ended
      /\ DOMAIN rtmp'.clients = DOMAIN rtmp.clients
      /\ \A d \in DOMAIN rtmp.clients : d # c => rtmp'.clients[d] = rtmp.clients[d]
      /\ IsClient(rtmp'.clients[c]) /\ rtmp'.clients[c].action = "watching" /\ rtmp'.clients[c].key = key
      /\ rtmp'.clients[c].conn = rtmp.clients[c].conn
      /\ rtmp'.clients[c].got_key = (rtmp.clients[c].got_key \/ ch.saved # << >>)
      /\ DOMAIN rtmp'.conns = DOMAIN rtmp.conns
      /\ \A i \in DOMAIN rtmp.conns : i # id => rtmp'.conns[i] = rtmp.conns[i]
      /\ IsConn(rtmp'.conns[id]) /\ rtmp'.conns[id].open = rtmp.conns[id].open /\ rtmp'.conns[id].log = rtmp.conns[id].log
      /\ rtmp'.conns[id].lossy = rtmp.conns[id].lossy
      /\ rtmp'.conns[id].sent = rtmp.conns[id].sent \o Heads(ch) \o ch.saved
      /\ DOMAIN rtmp'.channels = DOMAIN rtmp.channels \cup {key}
      /\ \A k \in DOMAIN rtmp.channels : k # key => rtmp'.channels[k] = rtmp.channels[k]
      /\ IsChannel(rtmp'.channels[key]) /\ rtmp'.channels[key].watchers = ch.watchers \cup {c}
      /\ rtmp'.channels[key].saved = ch.saved
  <2>1. c = rtmp.conn_map[id] /\ ch = ChannelOf(key) OBVIOUS
  <2>2. Play(id, key) OBVIOUS
  <2> HIDE DEF c, ch
  <2>3. Played(id, key, c, ch) BY ONLY <1>0, <2>1, <2>2, PlayFacts
  <2> QED BY <2>3 DEF Played
<1>2. c = rtmp.conn_map[id] /\ ch = ChannelOf(key) OBVIOUS
<1> HIDE DEF c, ch
<1>b. /\ DOMAIN rtmp'.clients = DOMAIN rtmp.clients /\ c \in DOMAIN rtmp.clients /\ id \in DOMAIN rtmp.conn_map
      /\ \A d \in DOMAIN rtmp.clients : d # c => rtmp'.clients[d] = rtmp.clients[d]
      /\ rtmp'.clients[c].action = "watching" /\ rtmp'.clients[c].key = key /\ rtmp'.clients[c].conn = rtmp.clients[c].conn
      /\ rtmp'.conn_map = rtmp.conn_map /\ rtmp'.pub_map = rtmp.pub_map /\ rtmp'.pubs = rtmp.pubs
      /\ DOMAIN rtmp'.channels = DOMAIN rtmp.channels \cup {key}
      /\ \A k \in DOMAIN rtmp.channels : k # key => rtmp'.channels[k] = rtmp.channels[k]
      /\ rtmp'.channels[key].watchers = ch.watchers \cup {c}
      /\ DOMAIN rtmp'.conns = DOMAIN rtmp.conns
      /\ \A i \in DOMAIN rtmp.conns : i # id => rtmp'.conns[i] = rtmp.conns[i]
      /\ rtmp'.conns[id].open = rtmp.conns[id].open /\ id \in DOMAIN rtmp.conns
  BY <1>1
<1>c. /\ \A i \in DOMAIN rtmp.conn_map :
           /\ rtmp.conn_map[i] \in DOMAIN rtmp.clients /\ rtmp.clients[rtmp.conn_map[i]].conn = i
           /\ rtmp.clients[rtmp.conn_map[i]].action \in {"waiting", "watching"}
      /\ \A i \in DOMAIN rtmp.pub_map :
           /\ rtmp.pub_map[i] \in DOMAIN rtmp.clients /\ rtmp.clients[rtmp.pub_map[i]].conn = i
           /\ rtmp.clients[rtmp.pub_map[i]].action = "publishing"
           /\ rtmp.clients[rtmp.pub_map[i]].key = rtmp.pubs[i].key /\ rtmp.pubs[i].key \in DOMAIN rtmp.channels
  BY <1>0 DEF MapsAgree
<1>d. /\ \A i \in DOMAIN rtmp.conn_map : i # id => rtmp.conn_map[i] # c
      /\ \A i \in DOMAIN rtmp.pub_map : rtmp.pub_map[i] # c
  BY <1>b, <1>c, <1>2
<1>3. LiveTypes'
  <2>1. \A d \in DOMAIN rtmp'.clients : IsClient(rtmp'.clients[d]) BY <1>0, <1>1 DEF LiveTypes
  <2>2. \A i \in DOMAIN rtmp'.conns : IsConn(rtmp'.conns[i]) BY <1>0, <1>1 DEF LiveTypes
  <2>3. \A k \in DOMAIN rtmp'.channels : IsChannel(rtmp'.channels[k]) BY <1>0, <1>1 DEF LiveTypes
  <2>4. DOMAIN rtmp' = DOMAIN rtmp /\ rtmp'.of = rtmp.of /\ rtmp'.made = rtmp.made /\ rtmp'.pubs = rtmp.pubs BY <1>1
  <2> QED BY <1>0, <2>1, <2>2, <2>3, <2>4 DEF LiveTypes
<1>4. MapsAgree'
  <2>1. DOMAIN rtmp'.conn_map = {i \in DOMAIN rtmp'.conns : rtmp'.conns[i].open}
    <3>1. DOMAIN rtmp.conn_map = {i \in DOMAIN rtmp.conns : rtmp.conns[i].open} BY <1>0 DEF MapsAgree
    <3> QED BY <1>b, <3>1
  <2>2. \A i \in DOMAIN rtmp'.conn_map :
          /\ rtmp'.conn_map[i] \in DOMAIN rtmp'.clients /\ rtmp'.clients[rtmp'.conn_map[i]].conn = i
          /\ rtmp'.clients[rtmp'.conn_map[i]].action \in {"waiting", "watching"}
    BY <1>2, <1>b, <1>c, <1>d
  <2>3. \A i \in DOMAIN rtmp'.pub_map :
          /\ rtmp'.pub_map[i] \in DOMAIN rtmp'.clients /\ rtmp'.clients[rtmp'.pub_map[i]].conn = i
          /\ rtmp'.clients[rtmp'.pub_map[i]].action = "publishing"
          /\ rtmp'.clients[rtmp'.pub_map[i]].key = rtmp'.pubs[i].key /\ rtmp'.pubs[i].key \in DOMAIN rtmp'.channels
    BY <1>b, <1>c, <1>d
  <2>4. \A d \in DOMAIN rtmp'.clients :
          (\E i \in DOMAIN rtmp'.conn_map : rtmp'.conn_map[i] = d) \/ (\E i \in DOMAIN rtmp'.pub_map : rtmp'.pub_map[i] = d)
    BY <1>0, <1>b DEF MapsAgree
  <2>5. ASSUME OnePlay PROVE WatchersAgree'
    <3>1. WatchersAgree /\ rtmp.clients[c].action = "waiting" BY <1>0, <1>1, <2>5 DEF MapsAgree
    <3>2. ASSUME NEW k \in DOMAIN rtmp'.channels
          PROVE  rtmp'.channels[k].watchers
                   = {d \in DOMAIN rtmp'.clients : rtmp'.clients[d].action = "watching" /\ rtmp'.clients[d].key = k}
      <4> DEFINE old == {d \in DOMAIN rtmp.clients : rtmp.clients[d].action = "watching" /\ rtmp.clients[d].key = k}
                 now == {d \in DOMAIN rtmp'.clients : rtmp'.clients[d].action = "watching" /\ rtmp'.clients[d].key = k}
      <4>1. CASE k # key
        <5>1. now = old BY <1>b, <3>1, <4>1
        <5>2. k \in DOMAIN rtmp.channels /\ rtmp'.channels[k] = rtmp.channels[k] BY <1>b, <4>1
        <5>3. rtmp.channels[k].watchers = old BY <3>1, <5>2 DEF WatchersAgree
        <5> QED BY <5>1, <5>2, <5>3
      <4>2. CASE k = key
        <5>1. now = old \cup {c} BY <1>b, <3>1, <4>2
        <5>2. ch.watchers = old
          <6>1. CASE key \in DOMAIN rtmp.channels BY <1>2, <3>1, <4>2, <6>1 DEF WatchersAgree, ChannelOf
          <6>2. CASE key \notin DOMAIN rtmp.channels
            <7>1. ch.watchers = {}
              <8>1. ch = NewChannel BY <1>2, <6>2 DEF ChannelOf
              <8> QED BY ONLY <8>1, NewChannelSound
            <7>2. \A d \in DOMAIN rtmp.clients : ~(rtmp.clients[d].action = "watching" /\ rtmp.clients[d].key = k)
              BY <1>0, <4>2, <6>2 DEF MapsAgree
            <7> QED BY <7>1, <7>2
          <6> QED BY <6>1, <6>2
        <5> HIDE DEF old, now
        <5>3. rtmp'.channels[k].watchers = now BY <1>b, <4>2, <5>1, <5>2
        <5> QED BY <5>3 DEF now
      <4> QED BY <4>1, <4>2
    <3> QED BY <3>2 DEF WatchersAgree
  <2>6. DOMAIN rtmp'.pub_map = DOMAIN rtmp'.pubs BY <1>0, <1>b DEF MapsAgree
  <2>7. \A d \in DOMAIN rtmp'.clients : rtmp'.clients[d].action = "watching" => rtmp'.clients[d].key \in DOMAIN rtmp'.channels
    BY <1>0, <1>b DEF MapsAgree
  <2> QED BY <2>1, <2>2, <2>3, <2>4, <2>5, <2>6, <2>7 DEF MapsAgree
<1>5. TurnRight' BY <1>0, <1>1 DEF TurnRight
<1>6. ASSUME UniqueKeys /\ OnePlay PROVE LiveFlow'
  <2>0. KeysApart /\ ViewsSound /\ ChannelsSound /\ EndsRight /\ OnePlay BY <1>6 DEF RtmpInv, LiveFlow
  <2> DEFINE S == ch.saved
  <2>1. KeysApart' BY <1>1, <2>0 DEF KeysApart
  <2>2. rtmp.clients[c].action = "waiting" /\ ~rtmp.clients[c].got_key /\ rtmp'.clients[c].got_key = (S # << >>)
    <3>1. rtmp.clients[c].action = "waiting" /\ IsClient(rtmp.clients[c]) BY <1>0, <1>1, <2>0 DEF LiveTypes
    <3>2. ~rtmp.clients[c].got_key BY <3>1 DEF IsClient
    <3> QED BY <1>1, <3>1, <3>2
  <2>3. ~Watches(id) /\ Watches(id)' /\ WatchesFrom(id)' = rtmp'.clients[c] BY <1>2, <1>b, <2>2 DEF Watches, WatchesFrom
  <2>4. \A i : i # id => Watches(i)' = Watches(i) /\ (Watches(i) => WatchesFrom(i)' = WatchesFrom(i))
    <3> SUFFICES ASSUME NEW i, i # id PROVE Watches(i)' = Watches(i) /\ (Watches(i) => WatchesFrom(i)' = WatchesFrom(i)) OBVIOUS
    <3>1. CASE i \in DOMAIN rtmp.conn_map
      <4>1. rtmp'.clients[rtmp.conn_map[i]] = rtmp.clients[rtmp.conn_map[i]] BY <1>b, <1>c, <1>d, <3>1
      <4> QED BY <1>b, <3>1, <4>1 DEF Watches, WatchesFrom
    <3>2. CASE i \notin DOMAIN rtmp.conn_map BY <1>b, <3>2 DEF Watches
    <3> QED BY <3>1, <3>2
  <2>5. /\ SavedSound(ch) /\ (rtmp.of.limit = 0 => S = << >>)
        /\ \A i \in DOMAIN S : S[i].pub <= rtmp.made
        /\ \A p \in DOMAIN rtmp.pubs : Below(S, rtmp.pubs[p])
        /\ \A p \in DOMAIN rtmp.pubs : rtmp.pubs[p].key = key =>
             /\ \A i \in DOMAIN S : S[i].pub <= rtmp.pubs[p].serial
             /\ rtmp.of.limit # 0 => Follows(S, rtmp.pubs[p])
    <3>1. CASE key \in DOMAIN rtmp.channels
      <4>1. ChannelSound(key) /\ ch = rtmp.channels[key] BY <1>2, <2>0, <3>1 DEF ChannelsSound, ChannelOf
      <4> QED BY <4>1 DEF ChannelSound
    <3>2. CASE key \notin DOMAIN rtmp.channels
      <4>1. ch = NewChannel BY <1>2, <3>2 DEF ChannelOf
      <4>2. SavedSound(ch) /\ S = << >>
        <5>1. SavedSound(ch) /\ ch.saved = << >> BY ONLY <4>1, NewChannelSound
        <5> QED BY <5>1
      <4>3. \A p \in DOMAIN rtmp.pubs : rtmp.pubs[p].key # key BY <1>0, <3>2 DEF MapsAgree
      <4>4. DOMAIN << >> = {} OBVIOUS
      <4> HIDE DEF S
      <4>5. \A p \in DOMAIN rtmp.pubs : Below(S, rtmp.pubs[p]) BY <4>2, EmptyView
      <4>6. DOMAIN S = {} BY <4>2, <4>4
      <4> QED BY <4>2, <4>3, <4>5, <4>6
    <3> QED BY <3>1, <3>2
  <2>6. ChannelsSound'
    <3> SUFFICES ASSUME NEW k \in DOMAIN rtmp'.channels PROVE ChannelSound(k)' BY DEF ChannelsSound
    <3>1. CASE k = key
      <4>1. SavedSound(rtmp'.channels[key]) BY <1>1, <2>5 DEF SavedSound
      <4>2. rtmp'.channels[key].saved = S /\ rtmp'.of = rtmp.of /\ rtmp'.pubs = rtmp.pubs /\ rtmp'.made = rtmp.made BY <1>1
      <4> HIDE DEF S
      <4> QED BY <2>5, <3>1, <4>1, <4>2 DEF ChannelSound
    <3>2. CASE k # key
      <4>1. k \in DOMAIN rtmp.channels /\ rtmp'.channels[k] = rtmp.channels[k] BY <1>b, <3>2
      <4>2. ChannelSound(k) BY <2>0, <4>1 DEF ChannelsSound
      <4>3. rtmp'.of = rtmp.of /\ rtmp'.pubs = rtmp.pubs /\ rtmp'.made = rtmp.made BY <1>1
      <4> QED BY <4>1, <4>2, <4>3 DEF ChannelSound
    <3> QED BY <3>1, <3>2
  <2>7. ASSUME ~rtmp.conns[id].lossy
        PROVE  Decodable(rtmp'.conns[id].log) /\ ~HasEnd(View(rtmp'.conns[id])) /\ SeesAll(id, View(rtmp.conns[id]))'
    <3> DEFINE conn == rtmp.conns[id]
               new == rtmp'.conns[id]
               V == View(new)
    <3>1. Decodable(conn.log) /\ View(conn) = << >> BY <1>b, <2>0, <2>3, <2>7 DEF ViewsSound, SeesAll
    <3>2. IsConn(conn) /\ IsChannel(ch) /\ SavedSound(ch) /\ new.log = conn.log /\ new.sent = conn.sent \o Heads(ch) \o ch.saved
      BY <1>0, <1>1, <2>5 DEF LiveTypes
    <3>3. V = View(new) /\ S = ch.saved OBVIOUS
    <3>4. V = View(rtmp.conns[id])' OBVIOUS
    <3> HIDE DEF conn, new, V, S
    <3>5. /\ V \in Seq(Packets) /\ SoundView(V) /\ ~HasEnd(V) /\ FromSaved(V, S)
          /\ \A p : KeyIn(V, p) => KeyIn(S, p)
          /\ \A p : Below(S, p) => Below(V, p)
          /\ \A p : Follows(S, p) => Follows(V, p)
      BY ONLY <3>1, <3>2, <3>3, LateSees
    <3>6. \A j \in DOMAIN V : V[j].early \/ V[j].pub <= rtmp'.made
      <4>1. rtmp'.made = rtmp.made BY <1>1
      <4> QED BY <2>5, <3>5, <4>1 DEF FromSaved
    <3>7. \A p \in DOMAIN rtmp'.pubs : Below(V, rtmp'.pubs[p]) BY <1>b, <2>5, <3>5
    <3>8. ASSUME rtmp'.clients[c].got_key, NEW p \in DOMAIN rtmp'.pubs, rtmp'.pubs[p].key = key PROVE Follows(V, rtmp'.pubs[p])
      <4>1. rtmp.of.limit # 0 BY <2>2, <2>5, <3>8
      <4>2. Follows(S, rtmp.pubs[p]) BY <1>b, <2>5, <3>8, <4>1
      <4> QED BY <1>b, <3>5, <4>2
    <3>9. ASSUME ~rtmp'.clients[c].got_key, NEW s PROVE ~KeyIn(V, s)
      <4>1. S = << >> BY <2>2, <3>9
      <4>2. ~KeyIn(S, s) BY <4>1, EmptyView
      <4> QED BY <3>5, <4>2
    <3>10. SeesAll(id, View(rtmp.conns[id]))'
      <4>1. rtmp'.clients[c].key = key BY <1>b
      <4> QED BY <2>3, <3>4, <3>5, <3>6, <3>7, <3>8, <3>9, <4>1 DEF SeesAll
    <3>11. Decodable(rtmp'.conns[id].log) BY <3>1, <3>2 DEF new
    <3>12. ~HasEnd(View(rtmp'.conns[id])) BY <3>3, <3>5 DEF new
    <3> QED BY <3>10, <3>11, <3>12
  <2> HIDE DEF S
  <2>8. ViewsSound'
    <3> SUFFICES ASSUME NEW i \in DOMAIN rtmp'.conns, ~rtmp'.conns[i].lossy
                 PROVE  (Decodable(rtmp.conns[i].log) /\ SeesAll(i, View(rtmp.conns[i])))'
      BY DEF ViewsSound
    <3>1. CASE i = id BY <1>1, <2>7, <3>1
    <3>2. CASE i # id
      <4>1. i \in DOMAIN rtmp.conns /\ rtmp'.conns[i] = rtmp.conns[i] BY <1>b, <3>2
      <4>2. Decodable(rtmp.conns[i].log) /\ SeesAll(i, View(rtmp.conns[i])) BY <2>0, <4>1 DEF ViewsSound
      <4>3. rtmp'.made = rtmp.made /\ rtmp'.pubs = rtmp.pubs BY <1>1
      <4> QED BY <2>4, <3>2, <4>1, <4>2, <4>3 DEF SeesAll
    <3> QED BY <3>1, <3>2
  <2>9. EndsRight'
    <3>1. ASSUME NEW i \in DOMAIN rtmp'.conns
          PROVE  /\ ~HasEnd(rtmp'.conns[i].log)
                 /\ HasEnd(rtmp'.conns[i].sent) => i \in rtmp'.clear /\ Watches(i)'
                 /\ ~rtmp'.conns[i].lossy => EndLast(View(rtmp'.conns[i]))
      <4>1. i \in DOMAIN rtmp.conns BY <1>1
      <4>2. /\ ~HasEnd(rtmp.conns[i].log)
            /\ HasEnd(rtmp.conns[i].sent) => i \in rtmp.clear /\ Watches(i)
            /\ ~rtmp.conns[i].lossy => EndLast(View(rtmp.conns[i]))
        BY <1>1, <2>0, <4>1 DEF EndsRight
      <4>3. CASE i = id
        <5> DEFINE conn == rtmp.conns[id]
                   sent == rtmp'.conns[id].sent
        <5>1. IsConn(conn) /\ IsChannel(ch) /\ AllFrames(ch.saved) /\ sent = conn.sent \o Heads(ch) \o ch.saved
          BY <1>0, <1>1, <2>5 DEF LiveTypes, SavedSound
        <5>2. ~HasEnd(conn.sent) BY <2>3, <4>2, <4>3
        <5> HIDE DEF conn, sent
        <5>3. ~HasEnd(sent) BY ONLY <5>1, <5>2, LateEnd
        <5>4. ~HasEnd(View(rtmp'.conns[id])) => EndLast(View(rtmp'.conns[id])) BY DEF HasEnd, EndLast
        <5> QED BY <1>1, <2>7, <4>2, <4>3, <5>3, <5>4 DEF sent
      <4>4. CASE i # id BY <1>1, <2>4, <4>1, <4>2, <4>4
      <4> QED BY <4>3, <4>4
    <3> QED BY <1>1, <2>0, <3>1 DEF EndsRight
  <2> QED BY <2>1, <2>6, <2>8, <2>9 DEF LiveFlow
<1> QED BY <1>3, <1>4, <1>5, <1>6 DEF RtmpInv, LiveShape

LEMMA RtmpInvSound == ASSUME RtmpInv PROVE LiveSound
<1>0. LiveTypes /\ MapsAgree BY DEF RtmpInv, LiveShape
<1>1. ASSUME UniqueKeys /\ OnePlay PROVE ViewsSound /\ EndsRight BY <1>1 DEF RtmpInv, LiveFlow
<1>2. PlaysWhole BY <1>1 DEF PlaysWhole, ViewsSound, EndsRight
<1>3. EndCloses BY <1>1 DEF EndCloses, EndsRight, HasEnd, EndLast
<1>4. ListsAgree
  <2> DEFINE owned == {rtmp.conn_map[i] : i \in DOMAIN rtmp.conn_map}
             publishing == {rtmp.pub_map[i] : i \in DOMAIN rtmp.pub_map}
  <2>1. /\ \A c \in owned : c \in DOMAIN rtmp.clients /\ rtmp.clients[c].action \in {"waiting", "watching"}
        /\ \A c \in publishing : c \in DOMAIN rtmp.clients /\ rtmp.clients[c].action = "publishing"
        /\ \A c \in DOMAIN rtmp.clients : c \in owned \/ c \in publishing
    BY <1>0 DEF MapsAgree
  <2>2. DOMAIN rtmp.clients = owned \cup publishing /\ owned \cap publishing = {}
    <3> HIDE DEF owned, publishing
    <3> QED BY <2>1
  <2>3. ASSUME OnePlay, NEW key \in DOMAIN rtmp.channels
        PROVE  rtmp.channels[key].watchers = {c \in owned : rtmp.clients[c].action = "watching" /\ rtmp.clients[c].key = key}
    <3>1. rtmp.channels[key].watchers = {c \in DOMAIN rtmp.clients : rtmp.clients[c].action = "watching" /\ rtmp.clients[c].key = key}
      BY <1>0, <2>3 DEF MapsAgree, WatchersAgree
    <3> HIDE DEF owned, publishing
    <3>2. \A c \in DOMAIN rtmp.clients : rtmp.clients[c].action = "watching" => c \in owned BY <2>1
    <3> QED BY <2>1, <3>1, <3>2
  <2>4. /\ DOMAIN rtmp.conn_map = {i \in DOMAIN rtmp.conns : rtmp.conns[i].open} /\ DOMAIN rtmp.pub_map = DOMAIN rtmp.pubs
        /\ \A i \in DOMAIN rtmp.conn_map : rtmp.clients[rtmp.conn_map[i]].conn = i
        /\ \A i \in DOMAIN rtmp.pub_map :
             rtmp.clients[rtmp.pub_map[i]].key = rtmp.pubs[i].key /\ rtmp.pubs[i].key \in DOMAIN rtmp.channels
    BY <1>0 DEF MapsAgree
  <2> QED BY <2>2, <2>3, <2>4 DEF ListsAgree
<1> QED BY <1>2, <1>3, <1>4 DEF LiveSound

LEMMA RtmpInvNext == ASSUME RtmpInv, [RtmpNext]_rtmp PROVE RtmpInv'
<1>1. ASSUME NEW id, NewConnection(id) PROVE RtmpInv' BY <1>1, ConnectionStep
<1>2. ASSUME NEW id, NEW c, NEW key \in StreamKeys, NEW script \in rtmp.of.scripts, NewPublisher(id, c, key, script) PROVE RtmpInv'
  BY <1>2, PublisherStep
<1>3. ASSUME NothingNew \/ PublishersDone \/ ConnectionsDone \/ TurnEnds PROVE RtmpInv' BY <1>3, MoveStep
<1>4. ASSUME StopServer PROVE RtmpInv' BY <1>4, StopStep
<1>5. ASSUME NEW id \in rtmp.left, PublisherEmpty(id) \/ PublisherFails(id) \/ ConnectionQuiet(id) \/ ConnectionFails(id)
      PROVE  RtmpInv'
  BY <1>5, MoveStep
<1>6. ASSUME NEW id \in rtmp.left, PublisherBytes(id) PROVE RtmpInv' BY <1>6, BytesStep
<1>7. ASSUME NEW id \in rtmp.left, PublisherClosed(id) PROVE RtmpInv' BY <1>7, EndingStep
<1>8. ASSUME NEW id \in rtmp.left, FreePublisher(id) PROVE RtmpInv' BY <1>8, FreeStep
<1>9. ASSUME NEW id \in rtmp.left, CloseConnection(id) PROVE RtmpInv' BY <1>9, CloseStep
<1>10. ASSUME NEW id \in rtmp.left, NEW c, HandshakeDone(id, c) PROVE RtmpInv' BY <1>10, HandshakeStep
<1>11. ASSUME NEW id \in rtmp.left, NEW key \in StreamKeys, Play(id, key) PROVE RtmpInv' BY <1>11, PlayStep
<1>12. ASSUME NEW slow, WritePackets(slow) PROVE RtmpInv' BY <1>12, WriteStep
<1>13. CASE UNCHANGED rtmp
  <2>1. LiveTypes' = LiveTypes /\ MapsAgree' = MapsAgree /\ TurnRight' = TurnRight
    BY <1>13 DEF LiveTypes, MapsAgree, WatchersAgree, TurnRight
  <2>2. SameData BY <1>13 DEF SameData
  <2>3. ASSUME UniqueKeys /\ OnePlay PROVE LiveFlow'
    <3>1. KeysApart /\ ViewsSound /\ ChannelsSound /\ EndsRight BY <2>3 DEF RtmpInv, LiveFlow
    <3>2. KeysApart' /\ ViewsSound' /\ ChannelsSound' BY <2>2, <3>1, SameDataKeeps
    <3>3. EndsRight' BY <1>13, <2>2, <3>1, SameDataKeeps DEF EndsRight
    <3> QED BY <3>2, <3>3 DEF LiveFlow
  <2> QED BY <2>1, <2>3 DEF RtmpInv, LiveShape
<1> QED BY <1>1, <1>2, <1>3, <1>4, <1>5, <1>6, <1>7, <1>8, <1>9, <1>10, <1>11, <1>12, <1>13 DEF RtmpNext

(* Whatever comes and goes in the turns of the worker, and whatever ids    *)
(* the slabs give again: a player that reads fast enough is sent nothing   *)
(* before its keyframe and from its first keyframe on every frame once, in *)
(* order, to the last; the end is the last it hears and it is closed in    *)
(* the same turn; the maps lead to the clients of their connections and    *)
(* publishers, and the lists of a stream hold those that watch it.         *)
THEOREM LiveSoundAlways == RtmpSpec => []LiveSound
<1>1. RtmpInit => RtmpInv BY RtmpInvInit
<1>2. RtmpInv /\ [RtmpNext]_rtmp => RtmpInv' BY RtmpInvNext
<1>3. RtmpInv => LiveSound BY RtmpInvSound
<1> QED BY <1>1, <1>2, <1>3, PTL DEF RtmpSpec
=============================================================================
