------------------------- MODULE MediaOutputProofs -------------------------
(***************************************************************************)
(* A job that is reported as done has written all of its packets.          *)
(*                                                                         *)
(* As long as nothing has gone wrong, every packet a demuxer has read is   *)
(* somewhere between it and the file, on the way of its stream (Kept), and *)
(* every thread ends only after the thread before it has ended and it has  *)
(* handed on all it got (FromInput, Decodes, Encodes, IntoMuxer).  So a    *)
(* muxer that stops taking packets has written all of them (Finished), and *)
(* the job does not end before every muxer has stopped (EndsLast).         *)
(***************************************************************************)
EXTENDS MediaPipelineProofs

-----------------------------------------------------------------------------
(* Nothing is lost.  A run is smooth as long as nothing has gone wrong and *)
(* the client has not ended it, and a muxer is alive until it writes its   *)
(* trailer or is given up.                                                 *)

Smooth == faults = 0 /\ ~raced /\ result = None /\ ret = None /\ client \notin {"new", "failed"}
Alive(m) == mpc[m] = "run" \/ (mpc[m] = "none" /\ rpc[m] \in {"wait", "open"})

In(q, x) == \E i \in DOMAIN q : q[i] = x
Packets(q) == \A i \in DOMAIN q : q[i] > 0
EndIsLast(q) == \A i \in DOMAIN q : q[i] = 0 => i = Len(q)
OnlyEnds(q) == \A i \in DOMAIN q : q[i] <= 0
EndsTrail(q) == \A i, j \in DOMAIN q : i < j /\ q[i] <= 0 => q[j] <= 0
Ended(q) == q # <<>> /\ q[Len(q)] = 0

(* The demuxer of s: it has read all before it ends *)
FromInput(s) ==
  /\ ~fin[s]
  /\ dpc[top.src[s]] \in {"ends", "done"} => read[s] = top.last[s]

(* The decoder and the filter graph of s end after what feeds them, and    *)
(* nothing is left behind.                                                 *)
Decodes(s) ==
  /\ decpc[s] \in {"fin", "done"} => dpc[top.src[s]] = "done" /\ decq[s] = <<>>
  /\ fgpc[s] \in {"fin", "done"} => decpc[s] \in {"fin", "done"} /\ OnlyEnds(fgq[s])
  /\ decpc[s] \notin {"fin", "done"} => Packets(fgq[s])
  /\ EndsTrail(fgq[s])

(* The encoder of s: it ends with the null frame of the filter graph, and  *)
(* then has only the end of the stream to send.                            *)
Encodes(s) ==
  /\ encpc[s] # "none" /\ EndIsLast(encq[s]) /\ (fgpc[s] # "done" => Packets(encq[s]))
  /\ fgpc[s] = "done" /\ encpc[s] \in {"closed", "run"} => Ended(encq[s])
  /\ encpc[s] \in {"eof", "fin", "done"} => fgpc[s] = "done" /\ encq[s] = <<>> /\ held[s] = <<>>
  /\ encpc[s] = "closed" => held[s] = <<>> /\ encout[s] = <<>>
  /\ encpc[s] \in {"run", "eof"} => encout[s] \in Holds
  /\ encpc[s] = "fin" => encout[s] = <<End>>
  /\ encpc[s] = "done" => encout[s] = <<>>
  /\ EndIsLast(pre[s]) /\ (encpc[s] # "done" => Packets(pre[s]))

(* All of s has been handed to its muxer *)
Over(s) ==
  IF Encoded(s) THEN encpc[s] = "done" /\ pre[s] = <<>>
                ELSE dpc[top.src[s]] \in {"ends", "done"} /\ <<s, End>> \notin todo[top.src[s]]

NoneOf(q, s) == \A i \in DOMAIN q : q[i][1] # s
NoneAfter(q, s) == \A i, j \in DOMAIN q : q[i] = <<s, End>> /\ i < j => q[j][1] # s
IntoMuxer(s) ==
  LET q == muxq[top.mux[s]]
  IN  /\ NoneAfter(q, s) /\ (In(q, <<s, End>>) => Over(s))
      /\ srcFin[s] => Over(s) /\ NoneOf(q, s)

Somewhere(s, x) ==
  \/ In(written[s], x) \/ In(muxq[top.mux[s]], <<s, x>>) \/ In(pre[s], x) \/ In(encout[s], x) \/ In(held[s], x)
  \/ In(encq[s], x) \/ In(fgq[s], x) \/ In(decq[s], x) \/ <<s, x>> \in todo[top.src[s]]
Kept(s) == \A x \in 1 .. read[s] : Somewhere(s, x)

Flow(s) == FromInput(s) /\ (Encoded(s) => Decodes(s) /\ Encodes(s)) /\ IntoMuxer(s) /\ Kept(s)

(* What a demuxer has to send, how a muxer was opened, and what the client *)
(* was told.                                                               *)
TodoShape ==
  \A d \in Demuxers :
    /\ dpc[d] \in {"none", "read", "done"} => todo[d] = {}
    /\ dpc[d] \in {"asleep", "send"} => \A x, y \in todo[d] : x = y /\ x[2] # End
    /\ dpc[d] = "ends" => \A x \in todo[d] : x[2] = End
Opened == \A m \in Muxers : /\ rpc[m] = "leave" => mpc[m] = "none"
                            /\ rpc[m] = "done" /\ mpc[m] # "none" => started[m]
Told == /\ faults \in Nat /\ result # "ok"
        /\ ret = None <=> client \notin {"stopping", "drop", "dropping", "returned", "failed"}
        /\ client = "failed" => ret = "failed"
Fresh == client = "new" =>
  /\ \A s \in Streams : /\ read[s] = 0 /\ ~fin[s] /\ ~srcFin[s] /\ held[s] = <<>> /\ encout[s] = <<>> /\ pre[s] = <<>>
                        /\ decq[s] = <<>> /\ fgq[s] = <<>> /\ encq[s] = <<>>
                        /\ decpc[s] = None /\ fgpc[s] = None /\ encpc[s] = None
  /\ \A d \in Demuxers : dpc[d] = None /\ todo[d] = {}
  /\ \A m \in Muxers : muxq[m] = <<>> /\ nbdone[m] = 0
ReadUpTo == \A s \in Streams : read[s] <= top.last[s]
Flags == srcFin \in [Streams -> BOOLEAN] /\ fin \in [Streams -> BOOLEAN] /\ nbdone \in [Muxers -> Nat]
Shape == Flags /\ TodoShape /\ Opened /\ Told /\ Fresh /\ ReadUpTo

(* A job that nothing went wrong in, up to and after the client is told *)
Fine == /\ faults = 0 /\ ~raced /\ client \notin {"new", "failed"}
        /\ ret = "ok" \/ (ret = None /\ result = None)
EndsLast == Fine /\ (ret = "ok" \/ Stopping \/ client = "take") => Left = {}

Flows == \A s \in Used : Alive(top.mux[s]) => Flow(s)
AllFlow == Smooth => Flows
DoneOf(m) == {s \in StreamsOf(m) : srcFin[s]}
EndsCounted == Smooth => \A m \in Muxers : Alive(m) => nbdone[m] = Cardinality(DoneOf(m))

AllWritten(s) == \A x \in 1 .. top.last[s] : In(written[s], x)
Finished == Fine => \A s \in Used : mpc[top.mux[s]] \in {"trail", "count", "leave", "done"} => AllWritten(s)

CInv == Shape /\ EndsLast /\ AllFlow /\ EndsCounted /\ Finished

LEMMA InFacts ==
  ASSUME NEW S, NEW q \in Seq(S)
  PROVE  /\ \A x \in S : \A y : In(Append(q, x), y) <=> (In(q, y) \/ y = x)
         /\ q # <<>> => Head(q) \in S /\ Tail(q) \in Seq(S) /\ \A y : In(q, y) <=> (y = Head(q) \/ In(Tail(q), y))
<1>1. ASSUME NEW x \in S, NEW y PROVE In(Append(q, x), y) <=> (In(q, y) \/ y = x)
  <2> DEFINE r == Append(q, x)
  <2>1. /\ Len(q) \in Nat /\ DOMAIN r = 1 .. Len(q) + 1 /\ DOMAIN q = 1 .. Len(q) /\ r[Len(q) + 1] = x
        /\ \A i \in 1 .. Len(q) : r[i] = q[i]
    OBVIOUS
  <2> HIDE DEF r
  <2>2. \A i \in 1 .. Len(q) + 1 : i = Len(q) + 1 \/ i \in 1 .. Len(q)
    BY <2>1
  <2>3. Len(q) + 1 \in 1 .. Len(q) + 1 /\ \A i \in 1 .. Len(q) : i \in 1 .. Len(q) + 1
    BY <2>1
  <2>4. In(r, y) <=> (In(q, y) \/ y = x)
    BY <2>1, <2>2, <2>3 DEF In
  <2> QED BY <2>4 DEF r
<1>2. ASSUME q # <<>>, NEW y PROVE In(q, y) <=> (y = Head(q) \/ In(Tail(q), y))
  <2> DEFINE r == Tail(q)
  <2>1. /\ Len(q) \in Nat /\ Len(q) >= 1 /\ DOMAIN r = 1 .. Len(q) - 1 /\ DOMAIN q = 1 .. Len(q) /\ q[1] = Head(q)
        /\ \A i \in 1 .. Len(q) - 1 : r[i] = q[i + 1]
    BY <1>2
  <2> HIDE DEF r
  <2>2. ASSUME In(q, y), y # Head(q) PROVE In(r, y)
    <3>1. PICK i \in 1 .. Len(q) : q[i] = y
      BY <2>1, <2>2 DEF In
    <3>2. i # 1
      BY <2>1, <2>2, <3>1
    <3>3. i - 1 \in 1 .. Len(q) - 1 /\ (i - 1) + 1 = i
      BY <2>1, <3>2
    <3>4. r[i - 1] = y
      BY <2>1, <3>1, <3>3
    <3> QED BY <2>1, <3>3, <3>4 DEF In
  <2>3. ASSUME In(r, y) PROVE In(q, y)
    <3>1. PICK i \in 1 .. Len(q) - 1 : r[i] = y
      BY <2>1, <2>3 DEF In
    <3>2. i + 1 \in 1 .. Len(q) /\ q[i + 1] = y
      BY <2>1, <3>1
    <3> QED BY <2>1, <3>2 DEF In
  <2>4. ASSUME y = Head(q) PROVE In(q, y)
    <3>1. 1 \in 1 .. Len(q)
      BY <2>1
    <3> QED BY <2>1, <2>4, <3>1 DEF In
  <2> QED BY <2>2, <2>3, <2>4 DEF r
<1>3. q # <<>> => Head(q) \in S /\ Tail(q) \in Seq(S)
  OBVIOUS
<1> QED BY <1>1, <1>2, <1>3

LEMMA NothingIn == \A x : ~In(<<>>, x)
BY DEF In

LEMMA InOne == \A x, y : In(<<x>>, y) <=> y = x
<1>1. ASSUME NEW x, NEW y PROVE In(<<x>>, y) <=> y = x
  <2>1. DOMAIN <<x>> = {1} /\ <<x>>[1] = x
    OBVIOUS
  <2> QED BY <2>1 DEF In
<1> QED BY <1>1

LEMMA QueueEnds ==
  ASSUME NEW q \in Seq(Nat)
  PROVE  /\ Packets(q) => EndIsLast(q) /\ EndIsLast(Append(q, 0))
         /\ Packets(q) => \A x \in Nat \ {0} : Packets(Append(q, x)) /\ EndIsLast(Append(q, x))
         /\ Ended(Append(q, 0))
         /\ q # <<>> /\ Packets(q) => Packets(Tail(q)) /\ Head(q) # 0
         /\ q # <<>> /\ EndIsLast(q) => EndIsLast(Tail(q)) /\ (Head(q) = 0 => Tail(q) = <<>>)
         /\ Ended(q) /\ Head(q) # 0 => Ended(Tail(q))
<1>1. Len(q) \in Nat /\ DOMAIN q = 1 .. Len(q) /\ \A i \in 1 .. Len(q) : q[i] \in Nat
  OBVIOUS
<1>2. ASSUME NEW x \in Nat
      PROVE  /\ DOMAIN Append(q, x) = 1 .. Len(q) + 1 /\ Len(Append(q, x)) = Len(q) + 1 /\ Append(q, x)[Len(q) + 1] = x
             /\ \A i \in 1 .. Len(q) : Append(q, x)[i] = q[i]
             /\ Append(q, x) # <<>>
  <2>1. Append(q, x) \in Seq(Nat) /\ Len(Append(q, x)) = Len(q) + 1
    OBVIOUS
  <2>2. Append(q, x)[Len(q) + 1] = x /\ \A i \in 1 .. Len(q) : Append(q, x)[i] = q[i]
    OBVIOUS
  <2> DEFINE r == Append(q, x)
  <2> HIDE DEF r
  <2>3. r \in Seq(Nat) /\ Len(r) = Len(q) + 1 => DOMAIN r = 1 .. Len(q) + 1 /\ r # <<>>
    BY <1>1
  <2> QED BY <2>1, <2>2, <2>3 DEF r
<1>3. Packets(q) => EndIsLast(q)
  BY <1>1 DEF Packets, EndIsLast
<1>4. ASSUME Packets(q), NEW x \in Nat PROVE EndIsLast(Append(q, x)) /\ (x # 0 => Packets(Append(q, x)))
  <2> DEFINE r == Append(q, x)
  <2>1. /\ DOMAIN r = 1 .. Len(q) + 1 /\ Len(r) = Len(q) + 1 /\ r[Len(q) + 1] = x /\ \A i \in 1 .. Len(q) : r[i] = q[i]
    BY <1>2
  <2> HIDE DEF r
  <2>2. \A i \in DOMAIN r : i = Len(r) \/ (i \in 1 .. Len(q) /\ r[i] > 0)
    BY <1>1, <1>4, <2>1 DEF Packets
  <2>3. EndIsLast(r)
    BY <2>2 DEF EndIsLast
  <2>4. x # 0 => Packets(r)
    BY <2>1, <2>2 DEF Packets
  <2> QED BY <2>3, <2>4 DEF r
<1>5. Ended(Append(q, 0))
  BY <1>1, <1>2 DEF Ended
<1>6. ASSUME q # <<>>
      PROVE  /\ Packets(q) => Packets(Tail(q)) /\ Head(q) # 0
             /\ EndIsLast(q) => EndIsLast(Tail(q)) /\ (Head(q) = 0 => Tail(q) = <<>>)
             /\ Ended(q) /\ Head(q) # 0 => Ended(Tail(q))
  <2> DEFINE r == Tail(q)
  <2>1. /\ Len(q) >= 1 /\ DOMAIN r = 1 .. Len(q) - 1 /\ Len(r) = Len(q) - 1 /\ q[1] = Head(q)
        /\ (\A i \in 1 .. Len(q) - 1 : r[i] = q[i + 1] /\ i + 1 \in 1 .. Len(q)) /\ (Len(r) = 0 => r = <<>>) /\ 1 \in 1 .. Len(q)
    BY <1>1, <1>6
  <2> HIDE DEF r
  <2>2. Packets(q) => Packets(r) /\ Head(q) # 0
    <3>1. Packets(q) => Head(q) # 0
      BY <1>1, <2>1 DEF Packets
    <3>2. ASSUME Packets(q), NEW i \in 1 .. Len(q) - 1 PROVE r[i] > 0
      BY <1>1, <2>1, <3>2 DEF Packets
    <3> QED BY <2>1, <3>1, <3>2 DEF Packets
  <2>3. EndIsLast(q) => EndIsLast(r)
    <3> SUFFICES ASSUME EndIsLast(q), NEW i \in 1 .. Len(q) - 1, r[i] = 0 PROVE i = Len(q) - 1
      BY <2>1 DEF EndIsLast
    <3>1. i + 1 \in 1 .. Len(q) /\ q[i + 1] = 0
      BY <2>1
    <3>2. \A k \in 1 .. Len(q) : q[k] = 0 => k = Len(q)
      BY <1>1 DEF EndIsLast
    <3> QED BY <3>1, <3>2
  <2>4. EndIsLast(q) /\ Head(q) = 0 => r = <<>>
    BY <1>1, <2>1 DEF EndIsLast
  <2>5. Ended(q) /\ Head(q) # 0 => Ended(r)
    <3> SUFFICES ASSUME Ended(q), Head(q) # 0 PROVE r # <<>> /\ r[Len(r)] = 0
      BY DEF Ended
    <3>1. Len(q) # 1
      BY <2>1 DEF Ended
    <3>2. Len(r) \in 1 .. Len(q) - 1 /\ Len(r) + 1 = Len(q)
      BY <1>1, <2>1, <3>1
    <3>3. r[Len(r)] = 0
      BY <2>1, <3>2 DEF Ended
    <3>4. r # <<>>
      BY <2>1, <3>2
    <3> QED BY <3>3, <3>4
  <2> QED BY <2>2, <2>3, <2>4, <2>5 DEF r
<1> QED BY <1>3, <1>4, <1>5, <1>6 DEF Ended

(* The queue of a muxer, as one of its streams sees it *)
LEMMA QueueKeeps ==
  ASSUME NEW q \in Seq(Streams \X Nat), NEW t \in Streams
  PROVE  /\ \A s \in Streams, p \in Nat : s # t =>
              /\ NoneAfter(q, t) => NoneAfter(Append(q, <<s, p>>), t)
              /\ NoneOf(q, t) => NoneOf(Append(q, <<s, p>>), t)
         /\ \A p \in Nat : ~In(q, <<t, End>>) => NoneAfter(Append(q, <<t, p>>), t)
         /\ q # <<>> =>
              /\ NoneAfter(q, t) => NoneAfter(Tail(q), t)
              /\ NoneOf(q, t) => NoneOf(Tail(q), t) /\ Head(q)[1] # t
              /\ NoneAfter(q, t) /\ Head(q) = <<t, End>> => NoneOf(Tail(q), t)
<1> DEFINE n == Len(q)
<1>1. n \in Nat /\ DOMAIN q = 1 .. n
  OBVIOUS
<1>2. ASSUME NEW s \in Streams, NEW p \in Nat
      PROVE  /\ s # t => (NoneAfter(q, t) => NoneAfter(Append(q, <<s, p>>), t))
             /\ s # t => (NoneOf(q, t) => NoneOf(Append(q, <<s, p>>), t))
             /\ s = t /\ ~In(q, <<t, End>>) => NoneAfter(Append(q, <<s, p>>), t)
  <2> DEFINE r == Append(q, <<s, p>>)
  <2>1. DOMAIN r = 1 .. n + 1 /\ r[n + 1] = <<s, p>> /\ \A i \in 1 .. n : r[i] = q[i]
    OBVIOUS
  <2> HIDE DEF r, n
  <2>2. \A i \in 1 .. n + 1 : i = n + 1 \/ i \in 1 .. n
    BY <1>1
  <2>3. <<s, p>>[1] = s
    OBVIOUS
  <2>4. s # t /\ NoneOf(q, t) => NoneOf(r, t)
    BY <1>1, <2>1, <2>2, <2>3 DEF NoneOf
  <2>5. ASSUME s # t, NoneAfter(q, t), NEW i \in 1 .. n + 1, NEW j \in 1 .. n + 1, r[i] = <<t, End>>, i < j PROVE r[j][1] # t
    <3>1. i # n + 1
      BY <1>1, <2>5
    <3>2. i \in 1 .. n /\ q[i] = <<t, End>>
      BY <2>1, <2>2, <2>5, <3>1
    <3>3. CASE j = n + 1
      BY <2>1, <2>3, <2>5, <3>3
    <3>4. CASE j \in 1 .. n
      BY <1>1, <2>1, <2>5, <3>2, <3>4 DEF NoneAfter
    <3> QED BY <2>2, <3>3, <3>4
  <2>6. ASSUME ~In(q, <<t, End>>), NEW i \in 1 .. n + 1, NEW j \in 1 .. n + 1, r[i] = <<t, End>>, i < j PROVE FALSE
    <3>1. i \in 1 .. n
      BY <1>1, <2>6
    <3> QED BY <1>1, <2>1, <2>6, <3>1 DEF In
  <2>7. (s # t /\ NoneAfter(q, t) => NoneAfter(r, t)) /\ (~In(q, <<t, End>>) => NoneAfter(r, t))
    BY <2>1, <2>5, <2>6 DEF NoneAfter
  <2> QED BY <2>4, <2>7 DEF r
<1>3. ASSUME q # <<>>
      PROVE  /\ NoneAfter(q, t) => NoneAfter(Tail(q), t)
             /\ NoneOf(q, t) => NoneOf(Tail(q), t) /\ Head(q)[1] # t
             /\ NoneAfter(q, t) /\ Head(q) = <<t, End>> => NoneOf(Tail(q), t)
  <2> DEFINE r == Tail(q)
  <2>1. n >= 1 /\ DOMAIN r = 1 .. n - 1 /\ q[1] = Head(q) /\ \A i \in 1 .. n - 1 : r[i] = q[i + 1]
    BY <1>3
  <2> HIDE DEF r, n
  <2>2. 1 \in 1 .. n /\ \A i \in 1 .. n - 1 : i + 1 \in 1 .. n /\ 1 < i + 1
    BY <1>1, <2>1
  <2>3. NoneOf(q, t) => NoneOf(r, t) /\ Head(q)[1] # t
    BY <1>1, <2>1, <2>2 DEF NoneOf
  <2>4. ASSUME NoneAfter(q, t), Head(q) = <<t, End>> PROVE NoneOf(r, t)
    <3>1. \A j \in 1 .. n : 1 < j => q[j][1] # t
      BY <1>1, <2>1, <2>2, <2>4 DEF NoneAfter
    <3>2. \A i \in 1 .. n - 1 : r[i][1] # t
      BY <2>1, <2>2, <3>1
    <3> QED BY <2>1, <3>2 DEF NoneOf
  <2>5. ASSUME NoneAfter(q, t), NEW i \in 1 .. n - 1, NEW j \in 1 .. n - 1, r[i] = <<t, End>>, i < j PROVE r[j][1] # t
    <3>1. i + 1 \in 1 .. n /\ j + 1 \in 1 .. n /\ i + 1 < j + 1
      BY <1>1, <2>2, <2>5
    <3>2. r[i] = q[i + 1] /\ r[j] = q[j + 1]
      BY <2>1
    <3> QED BY <1>1, <2>5, <3>1, <3>2 DEF NoneAfter
  <2>6. NoneAfter(q, t) => NoneAfter(r, t)
    BY <2>1, <2>5 DEF NoneAfter
  <2> QED BY <2>3, <2>4, <2>6 DEF r
<1> QED BY <1>2, <1>3

(* What may happen to the queue of its muxer without touching a stream *)
Passes(q, r, t) ==
  \/ r = q
  \/ \E s \in Streams, p \in Nat : s # t /\ r = Append(q, <<s, p>>)
  \/ q # <<>> /\ Head(q)[1] # t /\ r = Tail(q)

LEMMA PassesIn ==
  ASSUME NEW q \in Seq(Streams \X Nat), NEW r, NEW t \in Streams, Passes(q, r, t)
  PROVE  /\ \A x : In(q, <<t, x>>) <=> In(r, <<t, x>>)
         /\ NoneAfter(q, t) => NoneAfter(r, t)
         /\ NoneOf(q, t) => NoneOf(r, t)
<1>1. ASSUME NEW s \in Streams, NEW p \in Nat, s # t, r = Append(q, <<s, p>>)
      PROVE  /\ \A x : In(q, <<t, x>>) <=> In(r, <<t, x>>)
             /\ NoneAfter(q, t) => NoneAfter(r, t)
             /\ NoneOf(q, t) => NoneOf(r, t)
  <2>1. (\A x : <<t, x>> # <<s, p>>) /\ <<s, p>> \in Streams \X Nat
    BY <1>1
  <2>2. \A x : In(q, <<t, x>>) <=> In(r, <<t, x>>)
    BY <1>1, <2>1, InFacts
  <2> QED BY <1>1, <2>2, QueueKeeps
<1>2. ASSUME q # <<>>, Head(q)[1] # t, r = Tail(q)
      PROVE  /\ \A x : In(q, <<t, x>>) <=> In(r, <<t, x>>)
             /\ NoneAfter(q, t) => NoneAfter(r, t)
             /\ NoneOf(q, t) => NoneOf(r, t)
  <2>1. \A x : <<t, x>> # Head(q)
    BY <1>2
  <2> QED BY <1>2, <2>1, InFacts, QueueKeeps
<1> QED BY <1>1, <1>2 DEF Passes

LEMMA MuxqIs ==
  ASSUME QueueTypes, NEW t \in Used
  PROVE  /\ t \in Streams /\ top.mux[t] \in Muxers /\ top.src[t] \in Demuxers
         /\ muxq[top.mux[t]] \in Seq(Streams \X Nat)
BY UsedIs DEF QueueTypes, Used

(* A step that leaves a stream alone, but for what else its muxer gets *)
IntoMuxerSame(t) == (Over(t) => Over(t)') /\ srcFin'[t] = srcFin[t]

LEMMA IntoMuxerPassed ==
  ASSUME QueueTypes, top' = top, NEW t \in Used, IntoMuxer(t), IntoMuxerSame(t),
         Passes(muxq[top.mux[t]], muxq'[top.mux[t]], t)
  PROVE  IntoMuxer(t)'
<1>1. t \in Streams /\ muxq[top.mux[t]] \in Seq(Streams \X Nat)
  BY MuxqIs
<1>2. /\ In(muxq[top.mux[t]], <<t, End>>) <=> In(muxq'[top.mux[t]], <<t, End>>)
      /\ NoneAfter(muxq[top.mux[t]], t) => NoneAfter(muxq'[top.mux[t]], t)
      /\ NoneOf(muxq[top.mux[t]], t) => NoneOf(muxq'[top.mux[t]], t)
  BY <1>1, PassesIn
<1> QED BY <1>2 DEF IntoMuxer, IntoMuxerSame

Beside(t) ==
  /\ top' = top /\ fin'[t] = fin[t] /\ read'[t] = read[t]
  /\ dpc'[top.src[t]] = dpc[top.src[t]] /\ todo'[top.src[t]] = todo[top.src[t]]
  /\ decq'[t] = decq[t] /\ decpc'[t] = decpc[t] /\ fgq'[t] = fgq[t] /\ fgpc'[t] = fgpc[t]
  /\ encq'[t] = encq[t] /\ encpc'[t] = encpc[t] /\ encout'[t] = encout[t] /\ held'[t] = held[t]
  /\ pre'[t] = pre[t] /\ written'[t] = written[t] /\ srcFin'[t] = srcFin[t]

LEMMA BesideFlow ==
  ASSUME QueueTypes, NEW t \in Used, Flow(t), Beside(t), Passes(muxq[top.mux[t]], muxq'[top.mux[t]], t)
  PROVE  Flow(t)'
<1>0. Encoded(t)' <=> Encoded(t)
  BY DEF Beside, Encoded
<1>1. FromInput(t)'
  BY DEF Flow, FromInput, Beside
<1>2. Encoded(t) => Decodes(t)'
  BY DEF Flow, Decodes, Beside
<1>3. Encoded(t) => Encodes(t)'
  BY DEF Flow, Encodes, Beside
<1>4. Over(t)' <=> Over(t)
  BY DEF Over, Encoded, Beside
<1>5. IntoMuxer(t)'
  BY <1>4, IntoMuxerPassed DEF Flow, IntoMuxerSame, Beside
<1>6. Kept(t)'
  <2>1. \A x : In(muxq[top.mux[t]], <<t, x>>) <=> In(muxq'[top.mux[t]], <<t, x>>)
    BY MuxqIs, PassesIn
  <2> QED BY <2>1 DEF Flow, Kept, Somewhere, Beside
<1> QED BY <1>0, <1>1, <1>2, <1>3, <1>5, <1>6 DEF Flow

-----------------------------------------------------------------------------
(* A run that is smooth was smooth before, and a muxer that is alive was   *)
(* alive.                                                                  *)

Steady ==
  /\ top' = top /\ (faults' = 0 => faults = 0) /\ (raced => raced')
  /\ ret' = None => ret = None /\ (result' = None => result = None)
  /\ client' \notin {"new", "failed"} => client \notin {"new", "failed"}
  /\ client' # "failed" => \A m \in Muxers : Alive(m)' => Alive(m)

Toll == /\ top' = top /\ (faults' = 0 => faults = 0) /\ (raced => raced') /\ (result' = None => result = None)

LEMMA TollOf ==
  ASSUME Told
  PROVE  /\ \A e \in {"demux", "dec", "fg", "enc", "mux", "trailer"} :
              SetError(e) => (result' = None => result = None)
         /\ Fault => (faults' = 0 => faults = 0)
BY DEF SetError, Fault, Told, None

LEMMA FeederToll ==
  ASSUME Told,
         \/ \E d \in Demuxers : Demux(d) \/ DemuxFail(d)
         \/ \E s \in Streams : Dec(s) \/ Fg(s) \/ Enc(s)
  PROVE  Toll
<1> USE TollOf DEF Toll, pre_vars
<1>1. ASSUME NEW d \in Demuxers, Demux(d) PROVE Toll
  <2>1. UNCHANGED <<top, faults, result, raced>>
    BY <1>1 DEF Demux, DemuxRead, DemuxStop, DemuxEof, DemuxWake, DemuxSend
  <2> QED BY <2>1
<1>2. ASSUME NEW d \in Demuxers, DemuxFail(d) PROVE Toll
  BY <1>2 DEF DemuxFail
<1>3. ASSUME NEW s \in Streams, Dec(s) PROVE Toll
  BY <1>3 DEF Dec, DecRecv, DecLeave, DecEnd
<1>4. ASSUME NEW s \in Streams, Fg(s) PROVE Toll
  BY <1>4 DEF Fg, FgRecv, FgLeave, FgEnd
<1>5. ASSUME NEW s \in Streams, EncOpen(s) \/ EncRecv(s) \/ EncLeave(s) PROVE Toll
  <2>1. UNCHANGED <<top, raced>>
    BY <1>5 DEF EncOpen, EncRecv, EncLeave
  <2>2. UNCHANGED <<faults, result>> \/ (Fault /\ SetError("enc"))
    BY <1>5 DEF EncOpen, EncRecv, EncLeave
  <2> QED BY <2>1, <2>2
<1>6. ASSUME NEW s \in Streams, EncSend(s) PROVE Toll
  BY <1>6 DEF EncSend, EncSent, EncSendFails
<1> QED BY <1>1, <1>2, <1>3, <1>4, <1>5, <1>6 DEF Enc

LEMMA FeederSteady ==
  ASSUME Told,
         \/ \E d \in Demuxers : Demux(d) \/ DemuxFail(d)
         \/ \E s \in Streams : Dec(s) \/ Fg(s) \/ Enc(s)
  PROVE  Steady
<1>1. Toll /\ Quiet
  BY FeederToll, FeederStep
<1> QED BY <1>1 DEF Toll, Quiet, Steady, Alive

LEMMA ReadySteady ==
  ASSUME MInv, Told, NEW m \in Muxers, ReadyThread(m) \/ ReadyOpenFails(m)
  PROVE  Steady
<1> USE TollOf DEF Steady, Alive, client_vars, pre_vars, mux_vars, ready_vars
<1>0. /\ mpc \in [Muxers -> {"none", "run", "trail", "count", "leave", "done"}]
      /\ rpc \in [Muxers -> {"none", "wait", "open", "leave", "drain", "drop", "done"}]
      /\ rpc[m] \in {"wait", "open"} => mpc[m] = "none"
  BY DEF MInv, MuxTypes, MuxStages
<1>1. CASE ReadyRecv(m)
  BY <1>0, <1>1 DEF ReadyRecv
<1>2. CASE ReadyStop(m) \/ ReadyGone(m)
  BY <1>0, <1>2 DEF ReadyStop, ReadyGone
<1>3. CASE ReadyOpen(m)
  BY <1>0, <1>3 DEF ReadyOpen
<1>4. CASE ReadyOpenFails(m)
  BY <1>0, <1>4 DEF ReadyOpenFails
<1>5. CASE ReadyEnd(m)
  BY <1>0, <1>5 DEF ReadyEnd
<1>6. CASE DrainMove(m)
  BY <1>0, <1>6 DEF DrainMove
<1>7. CASE DrainDone(m)
  BY <1>0, <1>7 DEF DrainDone
<1>8. CASE DrainDrop(m)
  <2>1. raced => raced'
    BY <1>8, Zenon DEF DrainDrop
  <2>2. UNCHANGED <<top, faults, result, ret, client, mpc>> /\ rpc[m] = "drop" /\ rpc' = [rpc EXCEPT ![m] = "drain"]
    BY <1>8 DEF DrainDrop
  <2> QED BY <1>0, <2>1, <2>2
<1> QED BY <1>1, <1>2, <1>3, <1>4, <1>5, <1>6, <1>7, <1>8 DEF ReadyThread

LEMMA MuxSteady ==
  ASSUME MInv, Told, NEW m \in Muxers, Mux(m)
  PROVE  Steady
<1> USE TollOf DEF Steady, Alive, client_vars, pre_vars, mux_vars, ready_vars
<1>0. mpc \in [Muxers -> {"none", "run", "trail", "count", "leave", "done"}]
  BY DEF MInv, MuxTypes
<1>1. CASE MuxPacket(m)
  BY <1>0, <1>1 DEF MuxPacket
<1>2. CASE MuxStreamEnd(m)
  BY <1>0, <1>2 DEF MuxStreamEnd
<1>3. CASE MuxLeave(m)
  BY <1>0, <1>3 DEF MuxLeave
<1>4. CASE MuxTrailer(m)
  BY <1>0, <1>4 DEF MuxTrailer
<1>5. CASE MuxCount(m) \/ MuxEnd(m)
  BY <1>0, <1>5 DEF MuxCount, MuxEnd
<1> QED BY <1>1, <1>2, <1>3, <1>4, <1>5 DEF Mux

LEMMA ClientSteady ==
  ASSUME MInv, Told, ClientCalls \/ ClientGoesOn, ~Start
  PROVE  Steady
<1> USE DEF Steady, Alive, client_vars, pre_vars, mux_vars, ready_vars, None
<1>1. CASE StartFails
  <2>1. client' = "failed" /\ ret' = "failed" /\ top' = top /\ (faults' = 0 => faults = 0) /\ raced' = raced
    BY <1>1, TollOf DEF StartFails, Spawn
  <2> QED BY <2>1
<1>2. ASSUME ClientOnly, ret' = ret, result' = result, client \notin {"new", "failed"} PROVE Steady
  BY <1>2 DEF ClientOnly, thread_vars
<1>3. ASSUME ClientOnly, ret' # None, client \notin {"new", "failed"} PROVE Steady
  BY <1>3 DEF ClientOnly, thread_vars
<1>5. CASE Pause \/ PauseStore \/ Resume \/ ResumeStore \/ Wait \/ Joined \/ Poll \/ PollArm \/ PollWoken \/ Stopped \/ Dropped
  BY <1>2, <1>5 DEF Pause, PauseStore, Resume, ResumeStore, Wait, Joined, Poll, PollArm, PollWoken, Stopped, Dropped
<1>6. CASE TakeResult \/ Stop \/ Abort
  BY <1>3, <1>6 DEF TakeResult, Stop, Abort
<1>7. CASE Drop
  BY <1>2, <1>3, <1>7 DEF Drop
<1> QED BY <1>1, <1>5, <1>6, <1>7 DEF ClientCalls, ClientGoesOn

LEMMA NextSteady ==
  ASSUME MInv, Shape, Next, ~Start
  PROVE  Steady
<1>1. Told
  BY DEF Shape
<1> QED BY <1>1, FeederSteady, ReadySteady, MuxSteady, ClientSteady DEF Next, Threads

LEMMA AliveGoes ==
  ASSUME Smooth, EndsLast, NEW m \in Muxers, Alive(m)
  PROVE  ~Stopping /\ client # "take" /\ m \in Left
BY DEF Smooth, EndsLast, Alive, Fine, Left

LEMMA StillSmooth ==
  ASSUME MInv, Shape, EndsLast, Next, ~Start, Smooth'
  PROVE  /\ Smooth /\ top' = top
         /\ \A m \in Muxers : Alive(m)' => Alive(m) /\ ~Stopping
<1>1. Steady
  BY NextSteady
<1>2. Smooth
  BY <1>1 DEF Steady, Smooth
<1>3. client' # "failed"
  BY DEF Smooth
<1> QED BY <1>1, <1>2, <1>3, AliveGoes DEF Steady

LEMMA FrameQueue ==
  ASSUME NEW q \in Seq(Int)
  PROVE  /\ \A x \in Int : x > 0 /\ Packets(q) => Packets(Append(q, x)) /\ EndsTrail(Append(q, x))
         /\ \A x \in Int : x <= 0 /\ EndsTrail(q) => EndsTrail(Append(q, x))
         /\ \A x \in Int : x <= 0 /\ OnlyEnds(q) => OnlyEnds(Append(q, x))
         /\ Packets(q) => EndsTrail(q)
         /\ q # <<>> =>
              /\ EndsTrail(q) => EndsTrail(Tail(q))
              /\ EndsTrail(q) /\ Head(q) <= 0 => OnlyEnds(Tail(q))
              /\ OnlyEnds(q) => OnlyEnds(Tail(q)) /\ Head(q) <= 0
              /\ Packets(q) => Packets(Tail(q)) /\ Head(q) > 0
<1> DEFINE n == Len(q)
<1>1. n \in Nat /\ DOMAIN q = 1 .. n /\ \A i \in 1 .. n : q[i] \in Int
  OBVIOUS
<1>2. Packets(q) => EndsTrail(q)
  BY <1>1 DEF Packets, EndsTrail
<1>3. ASSUME NEW x \in Int
      PROVE  /\ x > 0 /\ Packets(q) => Packets(Append(q, x)) /\ EndsTrail(Append(q, x))
             /\ x <= 0 /\ EndsTrail(q) => EndsTrail(Append(q, x))
             /\ x <= 0 /\ OnlyEnds(q) => OnlyEnds(Append(q, x))
  <2> DEFINE r == Append(q, x)
  <2>1. DOMAIN r = 1 .. n + 1 /\ r[n + 1] = x /\ \A i \in 1 .. n : r[i] = q[i]
    OBVIOUS
  <2> HIDE DEF r, n
  <2>2. \A i \in 1 .. n + 1 : i = n + 1 \/ i \in 1 .. n
    BY <1>1
  <2>3. \A i \in 1 .. n + 1 : r[i] \in Int
    BY <1>1, <2>1, <2>2
  <2>4. x > 0 /\ Packets(q) => Packets(r)
    BY <1>1, <2>1, <2>2 DEF Packets
  <2>5. Packets(r) => EndsTrail(r)
    BY <2>1, <2>3 DEF Packets, EndsTrail
  <2>6. x <= 0 /\ OnlyEnds(q) => OnlyEnds(r)
    BY <1>1, <2>1, <2>2 DEF OnlyEnds
  <2>7. ASSUME x <= 0, EndsTrail(q), NEW i \in 1 .. n + 1, NEW j \in 1 .. n + 1, i < j, r[i] <= 0 PROVE r[j] <= 0
    <3>1. CASE j = n + 1
      BY <2>1, <2>7, <3>1
    <3>2. CASE j \in 1 .. n
      <4>1. i \in 1 .. n
        BY <1>1, <2>7, <3>2
      <4> QED BY <1>1, <2>1, <2>7, <3>2, <4>1 DEF EndsTrail
    <3> QED BY <2>2, <3>1, <3>2
  <2>8. x <= 0 /\ EndsTrail(q) => EndsTrail(r)
    BY <2>1, <2>7 DEF EndsTrail
  <2> QED BY <2>4, <2>5, <2>6, <2>8 DEF r
<1>4. ASSUME q # <<>>
      PROVE  /\ EndsTrail(q) => EndsTrail(Tail(q))
             /\ EndsTrail(q) /\ Head(q) <= 0 => OnlyEnds(Tail(q))
             /\ OnlyEnds(q) => OnlyEnds(Tail(q)) /\ Head(q) <= 0
             /\ Packets(q) => Packets(Tail(q)) /\ Head(q) > 0
  <2> DEFINE r == Tail(q)
  <2>1. n >= 1 /\ DOMAIN r = 1 .. n - 1 /\ q[1] = Head(q) /\ \A i \in 1 .. n - 1 : r[i] = q[i + 1]
    BY <1>4
  <2> HIDE DEF r, n
  <2>2. 1 \in 1 .. n /\ \A i \in 1 .. n - 1 : i + 1 \in 1 .. n /\ 1 < i + 1
    BY <1>1, <2>1
  <2>3. /\ OnlyEnds(q) => OnlyEnds(r) /\ Head(q) <= 0
        /\ Packets(q) => Packets(r) /\ Head(q) > 0
    BY <1>1, <2>1, <2>2 DEF OnlyEnds, Packets
  <2>4. ASSUME EndsTrail(q), Head(q) <= 0 PROVE OnlyEnds(r)
    <3>1. \A j \in 1 .. n : 1 < j => q[j] <= 0
      BY <1>1, <2>1, <2>2, <2>4 DEF EndsTrail
    <3>2. \A i \in 1 .. n - 1 : r[i] <= 0
      BY <2>1, <2>2, <3>1
    <3> QED BY <2>1, <3>2 DEF OnlyEnds
  <2>5. ASSUME EndsTrail(q), NEW i \in 1 .. n - 1, NEW j \in 1 .. n - 1, i < j, r[i] <= 0 PROVE r[j] <= 0
    <3>1. i + 1 \in 1 .. n /\ j + 1 \in 1 .. n /\ i + 1 < j + 1
      BY <1>1, <2>2, <2>5
    <3>2. r[i] = q[i + 1] /\ r[j] = q[j + 1]
      BY <2>1
    <3> QED BY <1>1, <2>5, <3>1, <3>2 DEF EndsTrail
  <2>6. EndsTrail(q) => EndsTrail(r)
    BY <2>1, <2>5 DEF EndsTrail
  <2> QED BY <2>3, <2>4, <2>6 DEF r
<1> QED BY <1>2, <1>3, <1>4

-----------------------------------------------------------------------------
(* The decoder of a stream hands on all it gets *)

Going == /\ Smooth /\ Smooth' /\ top' = top
         /\ \A m \in Muxers : Alive(m)' => Alive(m) /\ ~Stopping

LEMMA NoFault == Going => ~Fault /\ UNCHANGED <<faults, result, ret>> /\ ~raced /\ ~raced' /\ \A e \in {"dec", "fg", "enc", "mux", "demux"} : ~SetError(e)
BY DEF Going, Smooth, Fault, SetError, None

(* A step of one stream leaves the others alone *)
LEMMA OthersFlow ==
  ASSUME QueueTypes, Going, Flows, NEW s \in Streams,
         \A t \in Used : t # s => Beside(t) /\ Passes(muxq[top.mux[t]], muxq'[top.mux[t]], t),
         s \in Used /\ Alive(top.mux[s]) /\ Alive(top.mux[s])' /\ ~Stopping /\ Flow(s) => Flow(s)'
  PROVE  Flows'
<1>1. Used' = Used /\ \A t \in Used : top.mux[t] \in Muxers
  BY UsedIs DEF Going, Used, QueueTypes
<1>2. ASSUME NEW t \in Used, Alive(top.mux[t])' PROVE Flow(t)'
  <2>1. Alive(top.mux[t]) /\ ~Stopping /\ Flow(t)
    BY <1>1, <1>2 DEF Going, Flows, Alive
  <2>2. CASE t # s
    BY <2>1, <2>2, BesideFlow
  <2>3. CASE t = s
    BY <1>2, <2>1, <2>3
  <2> QED BY <2>2, <2>3
<1> QED BY <1>1, <1>2 DEF Flows

LEMMA DecFlow ==
  ASSUME MInv, PInv, Flows, Going, NEW s \in Streams, Dec(s)
  PROVE  Flows'
<1> USE DEF PInv
<1> DEFINE Goes(dq, dc, fq) == /\ decq' = [decq EXCEPT ![s] = dq] /\ decpc' = [decpc EXCEPT ![s] = dc]
                               /\ fgq' = [fgq EXCEPT ![s] = fq]
<1>0. UNCHANGED <<top, read, dpc, todo, fin, fgpc, encq, encpc, encout, held, pre, muxq, srcFin, written>>
  BY DEF Dec, DecRecv, DecLeave, DecEnd, demux_vars, enc_vars, pre_vars, mux_vars, fg_vars
<1>1. /\ decq \in [Streams -> Seq(Nat)] /\ fgq \in [Streams -> Seq(Frames)] /\ decq[s] \in Seq(Nat) /\ fgq[s] \in Seq(Frames)
      /\ decpc \in [Streams -> {"none", "run", "fin", "done"}] /\ fgq[s] \in Seq(Int)
      /\ decq = [decq EXCEPT ![s] = decq[s]] /\ fgq = [fgq EXCEPT ![s] = fgq[s]] /\ decpc = [decpc EXCEPT ![s] = decpc[s]]
  BY SeqInt DEF QueueTypes, ThreadTypes
<1>2. decpc[s] \in {"run", "fin"}
  BY DEF Dec, DecRecv, DecLeave, DecEnd
<1>3. Encoded(s) /\ s \in Used
  <2>1. Encoded(s)
    BY <1>2 DEF CopiedDirectly
  <2> QED BY <2>1, UsedIs DEF QueueTypes
<1>4. ASSUME NEW dq, NEW dc, NEW fq, Goes(dq, dc, fq),
             ~Stopping /\ Flow(s) =>
               /\ dc \in {"fin", "done"} => dpc[top.src[s]] = "done" /\ dq = <<>>
               /\ fgpc[s] \in {"fin", "done"} => dc \in {"fin", "done"} /\ OnlyEnds(fq)
               /\ (dc \notin {"fin", "done"} => Packets(fq)) /\ EndsTrail(fq)
               /\ \A x \in 1 .. read[s] : In(decq[s], x) \/ In(fgq[s], x) => In(dq, x) \/ In(fq, x)
      PROVE  Flows'
  <2>1. decq'[s] = dq /\ decpc'[s] = dc /\ fgq'[s] = fq
        /\ \A t \in Streams : t # s => decq'[t] = decq[t] /\ decpc'[t] = decpc[t] /\ fgq'[t] = fgq[t]
    BY <1>1, <1>4
  <2>2. \A t \in Used : t # s => Beside(t) /\ Passes(muxq[top.mux[t]], muxq'[top.mux[t]], t)
    BY <1>0, <2>1 DEF Beside, Passes, Used
  <2>3. ASSUME ~Stopping, Flow(s) PROVE Flow(s)'
    <3>0. Encoded(s)'
      BY <1>0, <1>3 DEF Encoded
    <3>1. Decodes(s)'
      BY <1>0, <1>4, <2>1, <2>3 DEF Decodes
    <3>2. FromInput(s)' /\ Encodes(s)'
      BY <1>0, <1>3, <2>3 DEF Flow, FromInput, Encodes
    <3>3. Over(s) => Over(s)'
      BY <1>0, <1>3, <3>0 DEF Over
    <3>4. IntoMuxer(s)'
      BY <1>0, <1>3, <2>3, <3>3, IntoMuxerPassed DEF Flow, IntoMuxerSame, Passes
    <3>5. Kept(s)'
      BY <1>0, <1>4, <2>1, <2>3 DEF Flow, Kept, Somewhere
    <3> QED BY <3>0, <3>1, <3>2, <3>4, <3>5 DEF Flow
  <2> QED BY <2>2, <2>3, OthersFlow
<1>f. Flow(s) => Decodes(s) /\ Encodes(s)
  BY <1>3 DEF Flow
<1>5. CASE DecRecv(s)
  <2> DEFINE x == Head(decq[s])
             dq == Tail(decq[s])
  <2>0. /\ decpc[s] = "run" /\ decq[s] # <<>> /\ decq' = [decq EXCEPT ![s] = dq]
        /\ \/ fgpc[s] = "done" /\ decpc' = [decpc EXCEPT ![s] = "fin"] /\ fgq' = fgq
           \/ x = End /\ decpc' = decpc /\ fgq' = fgq
           \/ x # End /\ decpc' = decpc /\ fgq' = [fgq EXCEPT ![s] = Append(fgq[s], x)]
    BY <1>5, NoFault DEF DecRecv, DecFinish
  <2>1. x \in Nat /\ dq \in Seq(Nat) /\ \A y : In(decq[s], y) <=> (y = x \/ In(dq, y))
    BY <1>1, <2>0, InFacts
  <2> HIDE DEF x, dq
  <2>2. Flow(s) => Packets(fgq[s]) /\ EndsTrail(fgq[s]) /\ fgpc[s] \notin {"fin", "done"}
    BY <1>f, <2>0 DEF Decodes
  <2>3. CASE fgpc[s] = "done" /\ decpc' = [decpc EXCEPT ![s] = "fin"] /\ fgq' = fgq
    <3>1. Goes(dq, "fin", fgq[s])
      BY <1>1, <2>0, <2>3
    <3> QED BY <1>4, <2>2, <2>3, <3>1
  <2>4. CASE x = End /\ decpc' = decpc /\ fgq' = fgq
    <3>1. Goes(dq, "run", fgq[s])
      BY <1>1, <2>0, <2>4
    <3>2. \A y \in 1 .. read[s] : In(decq[s], y) => In(dq, y)
      BY <2>1, <2>4 DEF End
    <3> QED BY <1>4, <2>2, <3>1, <3>2
  <2>5. CASE x # End /\ decpc' = decpc /\ fgq' = [fgq EXCEPT ![s] = Append(fgq[s], x)]
    <3>1. Goes(dq, "run", Append(fgq[s], x))
      BY <1>1, <2>0, <2>5
    <3>2. x > 0 /\ x \in Int /\ x \in Frames
      BY <2>1, <2>5 DEF End, Frames
    <3>3. Flow(s) => Packets(Append(fgq[s], x)) /\ EndsTrail(Append(fgq[s], x))
      BY <1>1, <2>2, <3>2, FrameQueue
    <3>4. \A y : In(Append(fgq[s], x), y) <=> (In(fgq[s], y) \/ y = x)
      BY <1>1, <3>2, InFacts
    <3> QED BY <1>4, <2>1, <2>2, <3>1, <3>3, <3>4
  <2> QED BY <2>0, <2>3, <2>4, <2>5
<1>6. CASE DecLeave(s)
  <2>1. Goes(decq[s], "fin", fgq[s]) /\ decpc[s] = "run" /\ (Stopping \/ (decq[s] = <<>> /\ dpc[top.src[s]] = "done"))
    BY <1>1, <1>6 DEF DecLeave, DecFinish, fg_vars
  <2> QED BY <1>4, <1>f, <2>1 DEF Decodes
<1>7. CASE DecEnd(s)
  <2> DEFINE e == Head(decout[s])
             dc == IF Tail(decout[s]) = <<>> THEN "done" ELSE decpc[s]
             fq == IF fgpc[s] = "done" THEN fgq[s] ELSE Append(fgq[s], e)
  <2>1. Goes(decq[s], dc, fq) /\ decpc[s] = "fin"
    BY <1>1, <1>7 DEF DecEnd
  <2>2. e \in Int /\ e <= 0
    <3>1. decout[s] \in Seq({End, EofTs}) /\ decout[s] # <<>>
      BY <2>1 DEF QueueTypes, ThreadTypes
    <3>2. e \in {End, EofTs}
      BY <3>1
    <3> QED BY <3>2 DEF End, EofTs
  <2>3. dc \in {"fin", "done"}
    BY <2>1
  <2> HIDE DEF e, dc
  <2>4. ASSUME Flow(s)
        PROVE  /\ EndsTrail(fq) /\ (fgpc[s] \in {"fin", "done"} => OnlyEnds(fq))
               /\ \A x : In(fgq[s], x) => In(fq, x)
    <3>1. EndsTrail(fgq[s]) /\ (fgpc[s] \in {"fin", "done"} => OnlyEnds(fgq[s]))
      BY <1>f, <2>4 DEF Decodes
    <3>2. EndsTrail(Append(fgq[s], e)) /\ (OnlyEnds(fgq[s]) => OnlyEnds(Append(fgq[s], e)))
      BY <1>1, <2>2, <3>1, FrameQueue
    <3>3. \A x : In(fgq[s], x) => In(Append(fgq[s], e), x)
      BY <1>1, <2>2, InFacts
    <3> QED BY <3>1, <3>2, <3>3
  <2> HIDE DEF fq
  <2>5. Flow(s) => dpc[top.src[s]] = "done" /\ decq[s] = <<>>
    BY <1>f, <2>1 DEF Decodes
  <2> QED BY <1>4, <2>1, <2>3, <2>4, <2>5
<1> QED BY <1>5, <1>6, <1>7 DEF Dec

LEMMA FgFlow ==
  ASSUME MInv, PInv, Flows, Going, NEW s \in Streams, Fg(s)
  PROVE  Flows'
<1> USE DEF PInv
<1> DEFINE Goes(fq, fp, eq) == /\ fgq' = [fgq EXCEPT ![s] = fq] /\ fgpc' = [fgpc EXCEPT ![s] = fp]
                               /\ encq' = [encq EXCEPT ![s] = eq]
<1>0. UNCHANGED <<top, read, dpc, todo, fin, decq, decpc, encpc, encout, held, pre, muxq, srcFin, written>>
  BY DEF Fg, FgRecv, FgLeave, FgEnd, demux_vars, dec_vars, enc_vars, pre_vars, mux_vars
<1>1. /\ encq \in [Streams -> Seq(Nat)] /\ fgq \in [Streams -> Seq(Frames)] /\ encq[s] \in Seq(Nat) /\ fgq[s] \in Seq(Frames)
      /\ fgpc \in [Streams -> {"none", "run", "fin", "done"}] /\ fgq[s] \in Seq(Int)
      /\ encq = [encq EXCEPT ![s] = encq[s]] /\ fgq = [fgq EXCEPT ![s] = fgq[s]] /\ fgpc = [fgpc EXCEPT ![s] = fgpc[s]]
  BY SeqInt DEF QueueTypes, ThreadTypes
<1>2. fgpc[s] \in {"run", "fin"}
  BY DEF Fg, FgRecv, FgLeave, FgEnd
<1>3. Encoded(s) /\ s \in Used
  <2>1. Encoded(s)
    BY <1>2 DEF CopiedDirectly
  <2> QED BY <2>1, UsedIs DEF QueueTypes
<1>f. Flow(s) => Decodes(s) /\ Encodes(s)
  BY <1>3 DEF Flow
<1>g. Flow(s) => encpc[s] \notin {"eof", "fin", "done"} /\ Packets(encq[s]) /\ EndIsLast(encq[s])
  BY <1>2, <1>f DEF Encodes
<1>4. ASSUME NEW fq, NEW fp, NEW eq, Goes(fq, fp, eq),
             ~Stopping /\ Flow(s) =>
               /\ fp \in {"fin", "done"} => decpc[s] \in {"fin", "done"} /\ OnlyEnds(fq)
               /\ (decpc[s] \notin {"fin", "done"} => Packets(fq)) /\ EndsTrail(fq)
               /\ EndIsLast(eq) /\ (fp # "done" => Packets(eq)) /\ (fp = "done" => Ended(eq))
               /\ \A x \in 1 .. read[s] : In(fgq[s], x) \/ In(encq[s], x) => In(fq, x) \/ In(eq, x)
      PROVE  Flows'
  <2>1. fgq'[s] = fq /\ fgpc'[s] = fp /\ encq'[s] = eq
        /\ \A t \in Streams : t # s => fgq'[t] = fgq[t] /\ fgpc'[t] = fgpc[t] /\ encq'[t] = encq[t]
    BY <1>1, <1>4
  <2>2. \A t \in Used : t # s => Beside(t) /\ Passes(muxq[top.mux[t]], muxq'[top.mux[t]], t)
    BY <1>0, <2>1 DEF Beside, Passes, Used
  <2>3. ASSUME ~Stopping, Flow(s) PROVE Flow(s)'
    <3>0. Encoded(s)'
      BY <1>0, <1>3 DEF Encoded
    <3>1. Decodes(s)'
      BY <1>0, <1>4, <1>f, <2>1, <2>3 DEF Decodes
    <3>2. FromInput(s)'
      BY <1>0, <1>3, <2>3 DEF Flow, FromInput
    <3>6. Encodes(s)'
      BY <1>0, <1>4, <1>f, <1>g, <2>1, <2>3 DEF Encodes
    <3>3. Over(s) => Over(s)'
      BY <1>0, <1>3, <3>0 DEF Over
    <3>4. IntoMuxer(s)'
      BY <1>0, <1>3, <2>3, <3>3, IntoMuxerPassed DEF Flow, IntoMuxerSame, Passes
    <3>5. Kept(s)'
      BY <1>0, <1>4, <2>1, <2>3 DEF Flow, Kept, Somewhere
    <3> QED BY <3>0, <3>1, <3>2, <3>4, <3>5, <3>6 DEF Flow
  <2> QED BY <2>2, <2>3, OthersFlow
<1>5. CASE FgRecv(s)
  <2> DEFINE x == Head(fgq[s])
             fq == Tail(fgq[s])
  <2>0. /\ fgpc[s] = "run" /\ fgq[s] # <<>> /\ fgq' = [fgq EXCEPT ![s] = fq]
        /\ \/ (x \in {End, EofTs} \/ encpc[s] = "done") /\ fgpc' = [fgpc EXCEPT ![s] = "fin"] /\ encq' = encq
           \/ x \notin {End, EofTs} /\ fgpc' = fgpc /\ encq' = [encq EXCEPT ![s] = Append(encq[s], x)]
    BY <1>5, NoFault DEF FgRecv
  <2>1. x \in Frames /\ \A y : In(fgq[s], y) <=> (y = x \/ In(fq, y))
    BY <1>1, <2>0, InFacts
  <2>2. /\ EndsTrail(fgq[s]) => EndsTrail(fq)
        /\ EndsTrail(fgq[s]) /\ x <= 0 => OnlyEnds(fq)
        /\ Packets(fgq[s]) => Packets(fq) /\ x > 0
    BY <1>1, <2>0, FrameQueue
  <2> HIDE DEF x, fq
  <2>3. Flow(s) => EndsTrail(fgq[s]) /\ (decpc[s] \notin {"fin", "done"} => Packets(fgq[s]))
    BY <1>f DEF Decodes
  <2>4. CASE (x \in {End, EofTs} \/ encpc[s] = "done") /\ fgpc' = [fgpc EXCEPT ![s] = "fin"] /\ encq' = encq
    <3>1. Goes(fq, "fin", encq[s])
      BY <1>1, <2>0, <2>4
    <3>2. Flow(s) => x <= 0 /\ ~(x > 0)
      BY <1>g, <2>4 DEF End, EofTs
    <3>3. Flow(s) => decpc[s] \in {"fin", "done"} /\ OnlyEnds(fq) /\ EndsTrail(fq)
      BY <2>2, <2>3, <3>2
    <3>4. Flow(s) => \A y \in 1 .. read[s] : In(fgq[s], y) => In(fq, y)
      BY <2>1, <3>2
    <3> QED BY <1>4, <1>g, <3>1, <3>3, <3>4
  <2>5. CASE x \notin {End, EofTs} /\ fgpc' = fgpc /\ encq' = [encq EXCEPT ![s] = Append(encq[s], x)]
    <3>1. Goes(fq, "run", Append(encq[s], x))
      BY <1>1, <2>0, <2>5
    <3>2. x \in Nat \ {0}
      BY <2>1, <2>5 DEF End, EofTs, Frames
    <3>3. Flow(s) => Packets(Append(encq[s], x)) /\ EndIsLast(Append(encq[s], x))
      BY <1>1, <1>g, <3>2, QueueEnds
    <3>4. \A y : In(Append(encq[s], x), y) <=> (In(encq[s], y) \/ y = x)
      BY <1>1, <3>2, InFacts
    <3> QED BY <1>4, <2>1, <2>2, <2>3, <3>1, <3>3, <3>4
  <2> QED BY <2>0, <2>4, <2>5
<1>6. CASE FgLeave(s)
  <2>1. Goes(fgq[s], "fin", encq[s]) /\ (Stopping \/ (fgq[s] = <<>> /\ decpc[s] = "done"))
    BY <1>1, <1>6 DEF FgLeave, enc_vars
  <2>2. fgq[s] = <<>> => OnlyEnds(fgq[s])
    BY DEF OnlyEnds
  <2>3. Flow(s) => EndsTrail(fgq[s])
    BY <1>f DEF Decodes
  <2> QED BY <1>4, <1>g, <2>1, <2>2, <2>3
<1>7. CASE FgEnd(s)
  <2> DEFINE eq == IF encpc[s] = "done" THEN encq[s] ELSE Append(encq[s], End)
  <2>1. Goes(fgq[s], "done", eq) /\ fgpc[s] = "fin"
    BY <1>1, <1>7 DEF FgEnd
  <2>2. Flow(s) => /\ decpc[s] \in {"fin", "done"} /\ OnlyEnds(fgq[s])
                   /\ (decpc[s] \notin {"fin", "done"} => Packets(fgq[s])) /\ EndsTrail(fgq[s])
    BY <1>f, <2>1 DEF Decodes
  <2>3. Flow(s) => EndIsLast(eq) /\ Ended(eq) /\ \A y : In(encq[s], y) => In(eq, y)
    <3>1. Flow(s) => eq = Append(encq[s], 0)
      BY <1>g DEF End
    <3>2. \A y : In(encq[s], y) => In(Append(encq[s], 0), y)
      BY <1>1, InFacts
    <3> QED BY <1>1, <1>g, <3>1, <3>2, QueueEnds
  <2> HIDE DEF eq
  <2> QED BY <1>4, <2>1, <2>2, <2>3
<1> QED BY <1>5, <1>6, <1>7 DEF Fg

(* The encoder of a stream keeps a frame back, and gives it out *)
LEMMA EncFlow ==
  ASSUME MInv, PInv, Flows, Going, NEW s \in Streams, EncOpen(s) \/ EncRecv(s) \/ EncLeave(s)
  PROVE  Flows'
<1> USE DEF PInv
<1> DEFINE Goes(eq, ep, eo, h) == /\ encq' = [encq EXCEPT ![s] = eq] /\ encpc' = [encpc EXCEPT ![s] = ep]
                                  /\ encout' = [encout EXCEPT ![s] = eo] /\ held' = [held EXCEPT ![s] = h]
<1>0. UNCHANGED <<top, read, dpc, todo, fin, decq, decpc, fgq, fgpc, pre, muxq, srcFin, written>>
  BY DEF EncOpen, EncRecv, EncLeave, demux_vars, dec_vars, fg_vars, pre_vars, mux_vars
<1>1. /\ encq \in [Streams -> Seq(Nat)] /\ encout \in [Streams -> Seq(Nat)] /\ held \in [Streams -> Holds]
      /\ encq[s] \in Seq(Nat) /\ held[s] \in Holds
      /\ encpc \in [Streams -> {"none", "closed", "run", "eof", "fin", "done"}]
      /\ encq = [encq EXCEPT ![s] = encq[s]] /\ encout = [encout EXCEPT ![s] = encout[s]]
      /\ held = [held EXCEPT ![s] = held[s]] /\ encpc = [encpc EXCEPT ![s] = encpc[s]]
  BY DEF QueueTypes, ThreadTypes
<1>2. encpc[s] \in {"closed", "run"}
  BY DEF EncOpen, EncRecv, EncLeave
<1>3. Encoded(s) /\ s \in Used
  <2>1. Encoded(s)
    BY <1>2 DEF CopiedDirectly
  <2> QED BY <2>1, UsedIs DEF QueueTypes
<1>f. Flow(s) => Decodes(s) /\ Encodes(s)
  BY <1>3 DEF Flow
<1>g. Flow(s) => /\ EndIsLast(encq[s]) /\ (fgpc[s] # "done" => Packets(encq[s]))
                 /\ (fgpc[s] = "done" => Ended(encq[s]))
                 /\ Packets(pre[s]) /\ EndIsLast(pre[s])
  BY <1>2, <1>f DEF Encodes
<1>4. ASSUME NEW eq, NEW ep, NEW eo, NEW h, Goes(eq, ep, eo, h),
             ~Stopping /\ Flow(s) =>
               /\ EndIsLast(eq) /\ (fgpc[s] # "done" => Packets(eq)) /\ ep \in {"run", "eof", "fin"}
               /\ ep = "run" => (fgpc[s] = "done" => Ended(eq)) /\ eo \in Holds
               /\ ep \in {"eof", "fin"} => fgpc[s] = "done" /\ eq = <<>> /\ h = <<>>
               /\ (ep = "eof" => eo \in Holds) /\ (ep = "fin" => eo = <<End>>)
               /\ \A x \in 1 .. read[s] : In(encq[s], x) \/ In(encout[s], x) \/ In(held[s], x) =>
                                          In(eq, x) \/ In(eo, x) \/ In(h, x)
      PROVE  Flows'
  <2>1. encq'[s] = eq /\ encpc'[s] = ep /\ encout'[s] = eo /\ held'[s] = h
        /\ \A t \in Streams : t # s => encq'[t] = encq[t] /\ encpc'[t] = encpc[t] /\ encout'[t] = encout[t] /\ held'[t] = held[t]
    BY <1>1, <1>4
  <2>2. \A t \in Used : t # s => Beside(t) /\ Passes(muxq[top.mux[t]], muxq'[top.mux[t]], t)
    BY <1>0, <2>1 DEF Beside, Passes, Used
  <2>3. ASSUME ~Stopping, Flow(s) PROVE Flow(s)'
    <3>0. Encoded(s)'
      BY <1>0, <1>3 DEF Encoded
    <3>1. Decodes(s)'
      BY <1>0, <1>f, <2>3 DEF Decodes
    <3>2. FromInput(s)'
      BY <1>0, <1>3, <2>3 DEF Flow, FromInput
    <3>6. Encodes(s)'
      BY <1>0, <1>4, <1>g, <2>1, <2>3 DEF Encodes
    <3>3. Over(s) => Over(s)'
      BY <1>2, <1>3 DEF Over
    <3>4. IntoMuxer(s)'
      BY <1>0, <1>3, <2>3, <3>3, IntoMuxerPassed DEF Flow, IntoMuxerSame, Passes
    <3>5. Kept(s)'
      BY <1>0, <1>4, <2>1, <2>3 DEF Flow, Kept, Somewhere
    <3> QED BY <3>0, <3>1, <3>2, <3>4, <3>5, <3>6 DEF Flow
  <2> QED BY <2>2, <2>3, OthersFlow
<1> DEFINE f == Head(encq[s])
           eq == Tail(encq[s])
<1>5. encq[s] # <<>> =>
      /\ f \in Nat /\ \A y : In(encq[s], y) <=> (y = f \/ In(eq, y))
      /\ Flow(s) => /\ EndIsLast(eq) /\ (fgpc[s] # "done" => Packets(eq) /\ f # 0)
                    /\ (f # 0 /\ fgpc[s] = "done" => Ended(eq)) /\ (f = 0 => eq = <<>>)
  <2>1. encq[s] # <<>> => f \in Nat /\ \A y : In(encq[s], y) <=> (y = f \/ In(eq, y))
    BY <1>1, InFacts
  <2> QED BY <1>1, <1>g, <2>1, QueueEnds
<1>6. \A y \in 1 .. read[s] : y # 0
  OBVIOUS
<1>7. CASE EncOpen(s)
  <2>0. encpc[s] = "closed" /\ encq[s] # <<>> /\ encq' = [encq EXCEPT ![s] = eq]
        /\ \/ f = End /\ EncFinish(s, FALSE)
           \/ f # End /\ encpc' = [encpc EXCEPT ![s] = "run"] /\ held' = [held EXCEPT ![s] = <<f>>] /\ encout' = encout
    BY <1>7, NoFault DEF EncOpen
  <2>1. Flow(s) => held[s] = <<>> /\ encout[s] = <<>>
    BY <1>f, <2>0 DEF Encodes
  <2> HIDE DEF f, eq
  <2>2. CASE f = End /\ EncFinish(s, FALSE)
    <3>1. <<>> \o <<End>> = <<End>>
      OBVIOUS
    <3>2. Goes(eq, "fin", <<End>>, <<>>)
      BY <2>0, <2>2, <3>1 DEF EncFinish
    <3>3. Flow(s) => \A x \in 1 .. read[s] : ~In(encq[s], x) /\ ~In(encout[s], x) /\ ~In(held[s], x)
      BY <1>5, <1>6, <2>0, <2>1, <2>2, NothingIn DEF End
    <3> QED BY <1>4, <1>5, <2>0, <2>2, <3>2, <3>3 DEF End
  <2>3. CASE f # End /\ encpc' = [encpc EXCEPT ![s] = "run"] /\ held' = [held EXCEPT ![s] = <<f>>] /\ encout' = encout
    <3>1. Goes(eq, "run", encout[s], <<f>>)
      BY <1>1, <2>0, <2>3
    <3>2. <<>> \in Holds
      BY DEF Holds
    <3>3. In(<<f>>, f)
      BY InOne
    <3>4. f # 0
      BY <2>3 DEF End
    <3>5. Flow(s) => \A x \in 1 .. read[s] : In(encq[s], x) \/ In(encout[s], x) \/ In(held[s], x) => In(eq, x) \/ In(<<f>>, x)
      BY <1>5, <2>0, <2>1, <3>3, NothingIn
    <3>6. Flow(s) => EndIsLast(eq) /\ (fgpc[s] # "done" => Packets(eq)) /\ (fgpc[s] = "done" => Ended(eq)) /\ encout[s] \in Holds
      BY <1>5, <2>0, <2>1, <3>2, <3>4
    <3> QED BY <1>4, <3>1, <3>5, <3>6
  <2> QED BY <2>0, <2>2, <2>3
<1>8. CASE EncRecv(s)
  <2> DEFINE h == IF f = End THEN <<>> ELSE <<f>>
             ep == IF f = End THEN "eof" ELSE "run"
  <2>0. encpc[s] = "run" /\ encout[s] = <<>> /\ encq[s] # <<>> /\ Goes(eq, ep, held[s], h)
    BY <1>8, NoFault DEF EncRecv
  <2> HIDE DEF f, eq
  <2>1. \A x \in 1 .. read[s] : In(encq[s], x) => In(eq, x) \/ In(h, x)
    BY <1>5, <1>6, <2>0, InOne DEF End
  <2>2. /\ f # 0 => ep = "run"
        /\ f = 0 => ep = "eof" /\ h = <<>>
    BY DEF End
  <2> HIDE DEF h, ep
  <2>3. \A x \in 1 .. read[s] : In(encq[s], x) \/ In(encout[s], x) \/ In(held[s], x) => In(eq, x) \/ In(held[s], x) \/ In(h, x)
    BY <2>0, <2>1, NothingIn
  <2>4. CASE f = 0
    <3>1. Goes(eq, "eof", held[s], <<>>) /\ h = <<>>
      BY <2>0, <2>2, <2>4
    <3>2. Flow(s) => EndIsLast(eq) /\ fgpc[s] = "done" /\ eq = <<>>
      BY <1>5, <2>0, <2>4
    <3> QED BY <1>1, <1>4, <2>3, <3>1, <3>2
  <2>5. CASE f # 0
    <3>1. Goes(eq, "run", held[s], h)
      BY <2>0, <2>2, <2>5
    <3>2. Flow(s) => EndIsLast(eq) /\ (fgpc[s] # "done" => Packets(eq)) /\ (fgpc[s] = "done" => Ended(eq))
      BY <1>5, <2>0, <2>5
    <3> QED BY <1>1, <1>4, <2>3, <3>1, <3>2
  <2> QED BY <2>4, <2>5
<1>9. CASE EncLeave(s)
  <2>0. /\ encq' = [encq EXCEPT ![s] = IF encq[s] = <<>> THEN encq[s] ELSE Tail(encq[s])]
        /\ EncFinish(s, encpc[s] = "run" /\ status # "abort")
        /\ ~Stopping => encq[s] = <<>> /\ fgpc[s] = "done"
    BY <1>9 DEF EncLeave
  <2>1. \E o : encout' = [encout EXCEPT ![s] = o] /\ held' = [held EXCEPT ![s] = <<>>] /\ encpc' = [encpc EXCEPT ![s] = "fin"]
    BY <2>0 DEF EncFinish
  <2>2. ~(~Stopping /\ Flow(s))
    BY <1>g, <2>0 DEF Ended
  <2>3. PICK o : encout' = [encout EXCEPT ![s] = o]
    BY <2>1
  <2> DEFINE q == IF encq[s] = <<>> THEN encq[s] ELSE Tail(encq[s])
  <2>4. Goes(q, "fin", o, <<>>)
    BY <2>0, <2>1, <2>3
  <2> HIDE DEF q
  <2> QED BY <1>4, <2>2, <2>4
<1> QED BY <1>7, <1>8, <1>9

LEMMA OneSent ==
  ASSUME NEW q \in Seq(Nat), q \in Holds \/ q = <<End>>, q # <<>>
  PROVE  /\ Head(q) \in Nat /\ Tail(q) = <<>> /\ (\A x : In(q, x) <=> x = Head(q))
         /\ q \in Holds => Head(q) # End
         /\ q = <<End>> => Head(q) = End
<1>1. ASSUME NEW y \in Nat, q = <<y>> PROVE Head(q) = y /\ Tail(q) = <<>> /\ \A x : In(q, x) <=> x = y
  BY <1>1, InOne
<1>2. q \in Holds => \E y \in Nat \ {0} : q = <<y>>
  BY DEF Holds
<1>3. End \in Nat
  BY DEF End
<1>4. q \in Holds => q # <<End>>
  BY <1>2 DEF End
<1> QED BY <1>1, <1>2, <1>3, <1>4 DEF End

(* A packet of an encoder goes to the muxer, or to the stream's own queue *)
LEMMA EncSendFlow ==
  ASSUME MInv, PInv, Flows, Going, NEW s \in Streams, EncSend(s)
  PROVE  Flows'
<1> USE DEF PInv
<1> DEFINE m == top.mux[s]
           p == Head(encout[s])
           Sent == muxq' = [muxq EXCEPT ![m] = Append(muxq[m], <<s, p>>)]
<1>0. UNCHANGED <<top, read, dpc, todo, fin, decq, decpc, fgq, fgpc, encq, srcFin, written>> /\ encout[s] # <<>>
  BY DEF EncSend, demux_vars, dec_vars, fg_vars
<1>1. /\ encout \in [Streams -> Seq(Nat)] /\ held \in [Streams -> Holds] /\ pre \in [Streams -> Seq(Nat)]
      /\ encout[s] \in Seq(Nat) /\ held[s] \in Holds /\ pre[s] \in Seq(Nat) /\ p \in Nat
      /\ encpc \in [Streams -> {"none", "closed", "run", "eof", "fin", "done"}]
      /\ muxq \in [Muxers -> Seq(Streams \X Nat)]
  BY <1>0 DEF QueueTypes, ThreadTypes
<1>3. Encoded(s) /\ s \in Used /\ m \in Muxers /\ muxq[m] \in Seq(Streams \X Nat)
  <2>1. Encoded(s)
    BY <1>0 DEF CopiedDirectly
  <2> QED BY <2>1, UsedIs DEF QueueTypes
<1>4. ASSUME NEW ep, NEW eo, NEW h, NEW pr,
             encpc' = [encpc EXCEPT ![s] = ep] /\ encout' = [encout EXCEPT ![s] = eo] /\ held' = [held EXCEPT ![s] = h],
             pre' = [pre EXCEPT ![s] = pr], muxq' = muxq \/ Sent,
             ~Stopping /\ Alive(m) /\ Flow(s) => Encodes(s)' /\ IntoMuxer(s)' /\ Kept(s)'
      PROVE  Flows'
  <2>1. \A t \in Streams : t # s => encpc'[t] = encpc[t] /\ encout'[t] = encout[t] /\ held'[t] = held[t] /\ pre'[t] = pre[t]
    BY <1>1, <1>4
  <2>2. ASSUME NEW t \in Used, t # s PROVE Passes(muxq[top.mux[t]], muxq'[top.mux[t]], t)
    <3>1. top.mux[t] \in Muxers
      BY MuxqIs
    <3>2. muxq'[top.mux[t]] = muxq[top.mux[t]] \/ muxq'[top.mux[t]] = Append(muxq[top.mux[t]], <<s, p>>)
      BY <1>1, <1>3, <1>4, <3>1
    <3> HIDE DEF p
    <3> QED BY <1>1, <2>2, <3>2 DEF Passes
  <2>3. \A t \in Used : t # s => Beside(t)
    BY <1>0, <2>1 DEF Beside, Used
  <2>4. ASSUME ~Stopping, Alive(m), Flow(s) PROVE Flow(s)'
    <3>0. Encoded(s)'
      BY <1>0, <1>3 DEF Encoded
    <3>1. Decodes(s)' /\ FromInput(s)'
      BY <1>0, <1>3, <2>4 DEF Flow, Decodes, FromInput
    <3> QED BY <1>4, <2>4, <3>0, <3>1 DEF Flow
  <2> QED BY <2>2, <2>3, <2>4, OthersFlow
<1>f. Flow(s) => Encodes(s) /\ IntoMuxer(s) /\ Kept(s)
  BY <1>3 DEF Flow
<1>g. Flow(s) => /\ encpc[s] \in {"run", "eof", "fin"} /\ (encpc[s] = "fin" <=> p = End) /\ Tail(encout[s]) = <<>>
                 /\ \A x : In(encout[s], x) <=> x = p
                 /\ Packets(pre[s]) /\ EndIsLast(pre[s])
                 /\ encpc[s] \in {"eof", "fin"} => held[s] = <<>> /\ fgpc[s] = "done" /\ encq[s] = <<>>
                 /\ EndIsLast(encq[s]) /\ (fgpc[s] # "done" => Packets(encq[s]))
                 /\ fgpc[s] = "done" /\ encpc[s] = "run" => Ended(encq[s])
  <2>1. Flow(s) => /\ encpc[s] \in {"run", "eof", "fin"} /\ (encpc[s] = "fin" => encout[s] = <<End>>)
                   /\ encpc[s] # "fin" => encout[s] \in Holds
    BY <1>0, <1>1, <1>f DEF Encodes
  <2>2. Flow(s) => /\ (encpc[s] = "fin" <=> p = End) /\ Tail(encout[s]) = <<>>
                   /\ \A x : In(encout[s], x) <=> x = p
    BY <1>0, <1>1, <2>1, OneSent
  <2> HIDE DEF p
  <2> QED BY <1>f, <2>1, <2>2 DEF Encodes
<1>h. Flow(s) => ~Over(s) /\ ~srcFin[s] /\ ~In(muxq[m], <<s, End>>)
  <2>1. Flow(s) => ~Over(s)
    BY <1>3, <1>g DEF Over
  <2> QED BY <1>f, <2>1 DEF IntoMuxer
<1>i. /\ \A y : In(Append(muxq[m], <<s, p>>), y) <=> (In(muxq[m], y) \/ y = <<s, p>>)
      /\ \A y : In(Append(pre[s], p), y) <=> (In(pre[s], y) \/ y = p)
  <2> DEFINE mq == muxq[m]
             pq == pre[s]
  <2>1. mq \in Seq(Streams \X Nat) /\ pq \in Seq(Nat) /\ p \in Nat
    BY <1>1, <1>3
  <2> HIDE DEF mq, pq, p
  <2> DEFINE e == <<s, p>>
  <2>2. e \in Streams \X Nat
    BY <2>1
  <2> HIDE DEF e
  <2>3. \A y : In(Append(mq, e), y) <=> (In(mq, y) \/ y = e)
    BY <2>1, <2>2, InFacts
  <2>4. \A y : In(Append(pq, p), y) <=> (In(pq, y) \/ y = p)
    BY <2>1, InFacts
  <2> QED BY <2>3, <2>4 DEF mq, pq, e
(* What is left to send *)
<1> DEFINE After(ep, eo, h) ==
      /\ encpc' = [encpc EXCEPT ![s] = ep] /\ encout' = [encout EXCEPT ![s] = eo] /\ held' = [held EXCEPT ![s] = h]
      /\ Flow(s) =>
           /\ \/ encpc[s] = "run" /\ ep = "run" /\ eo = <<>> /\ h = held[s]
              \/ encpc[s] = "eof" /\ ep = "fin" /\ eo = <<End>> /\ h = <<>>
              \/ encpc[s] = "fin" /\ ep = "done" /\ eo = <<>> /\ h = <<>>
<1>5. EncSent(s) => \E ep, eo, h : After(ep, eo, h)
  <2> SUFFICES ASSUME EncSent(s) PROVE \E ep, eo, h : After(ep, eo, h)
    OBVIOUS
  <2>1. held = [held EXCEPT ![s] = held[s]]
    BY <1>1
  <2>2. CASE encpc[s] = "eof"
    <3>1. <<>> \o <<End>> = <<End>>
      OBVIOUS
    <3>2. After("fin", <<End>>, <<>>)
      BY <2>2, <3>1 DEF EncSent, EncFinish
    <3> QED BY <3>2
  <2>3. CASE encpc[s] # "eof"
    <3> DEFINE ep == IF encpc[s] = "fin" /\ Tail(encout[s]) = <<>> THEN "done" ELSE encpc[s]
    <3>1. encout' = [encout EXCEPT ![s] = Tail(encout[s])] /\ held' = held /\ encpc' = [encpc EXCEPT ![s] = ep]
      BY <2>3 DEF EncSent
    <3>2. Flow(s) => \/ encpc[s] = "run" /\ ep = "run"
                     \/ encpc[s] = "fin" /\ ep = "done" /\ held[s] = <<>>
      BY <1>g, <2>3
    <3> HIDE DEF ep
    <3>3. After(ep, Tail(encout[s]), held[s])
      BY <1>g, <2>1, <3>1, <3>2
    <3> QED BY <3>3
  <2> QED BY <2>2, <2>3
<1>6. ASSUME NEW ep, NEW eo, NEW h, After(ep, eo, h), NEW pr, pre' = [pre EXCEPT ![s] = pr], Flow(s),
             \/ muxq' = muxq /\ pr = Append(pre[s], p)
             \/ Sent /\ pr = pre[s] /\ pre[s] = <<>>
      PROVE  Encodes(s)' /\ IntoMuxer(s)' /\ Kept(s)'
  <2>1. encpc'[s] = ep /\ encout'[s] = eo /\ held'[s] = h /\ pre'[s] = pr
    BY <1>1, <1>6
  <2>2. /\ \/ encpc[s] = "run" /\ ep = "run" /\ eo = <<>> /\ h = held[s]
           \/ encpc[s] = "eof" /\ ep = "fin" /\ eo = <<End>> /\ h = <<>>
           \/ encpc[s] = "fin" /\ ep = "done" /\ eo = <<>> /\ h = <<>>
    BY <1>6
  <2>3. /\ EndIsLast(pr) /\ (ep # "done" => Packets(pr))
    <3>1. CASE pr = pre[s]
      BY <1>6, <1>g, <3>1
    <3>2. CASE pr = Append(pre[s], p)
      <4>1. p # 0 => Packets(pr) /\ EndIsLast(pr)
        BY <1>1, <1>6, <1>g, <3>2, QueueEnds
      <4>2. p = 0 => EndIsLast(pr)
        BY <1>1, <1>6, <1>g, <3>2, QueueEnds
      <4>3. ep # "done" => p # 0
        BY <1>6, <1>g, <2>2 DEF End
      <4> HIDE DEF p
      <4> QED BY <4>1, <4>2, <4>3
    <3> QED BY <1>6, <3>1, <3>2
  <2> HIDE DEF p
  <2>4. Encodes(s)'
    <3>1. <<>> \in Holds
      BY DEF Holds
    <3> QED BY <1>0, <1>6, <1>g, <2>1, <2>2, <2>3, <3>1 DEF Encodes
  <2>5. p = End /\ pr = <<>> => Over(s)'
    <3>1. Encoded(s)'
      BY <1>0, <1>3 DEF Encoded
    <3> QED BY <1>6, <1>g, <2>1, <2>2, <3>1 DEF Over
  <2>6. IntoMuxer(s)'
    <3>1. CASE muxq' = muxq
      BY <1>0, <1>3, <1>6, <1>f, <1>h, <3>1, IntoMuxerPassed DEF IntoMuxerSame, Passes
    <3>2. CASE Sent /\ pr = pre[s] /\ pre[s] = <<>>
      <4>1. muxq'[m] = Append(muxq[m], <<s, p>>)
        BY <1>1, <1>3, <3>2
      <4>2. NoneAfter(Append(muxq[m], <<s, p>>), s)
        BY <1>1, <1>3, <1>6, <1>h, QueueKeeps
      <4>3. In(Append(muxq[m], <<s, p>>), <<s, End>>) => p = End
        <5>1. <<s, p>> \in Streams \X Nat
          BY <1>1
        <5>2. In(Append(muxq[m], <<s, p>>), <<s, End>>) <=> (In(muxq[m], <<s, End>>) \/ <<s, End>> = <<s, p>>)
          BY <1>i
        <5> QED BY <1>6, <1>h, <5>2
      <4>4. muxq'[top'.mux[s]] = Append(muxq[m], <<s, p>>) /\ ~srcFin'[s]
        BY <1>0, <1>6, <1>h, <4>1
      <4> QED BY <2>5, <3>2, <4>2, <4>3, <4>4 DEF IntoMuxer
    <3> QED BY <1>6, <3>1, <3>2
  <2>7. Kept(s)'
    <3>1. \A x : In(muxq[m], <<s, x>>) => In(muxq'[m], <<s, x>>)
      <4>1. CASE Sent
        <5>1. <<s, p>> \in Streams \X Nat /\ muxq'[m] = Append(muxq[m], <<s, p>>)
          BY <1>1, <1>3, <4>1
        <5> QED BY <1>i, <5>1
      <4> QED BY <1>6, <4>1
    <3>2. \A x : In(pre[s], x) => In(pr, x)
      <4>1. pr = pre[s] \/ pr = Append(pre[s], p)
        BY <1>6
      <4> QED BY <1>i, <4>1
    <3>3. In(pr, p) \/ In(muxq'[m], <<s, p>>)
      <4>1. CASE Sent
        <5>1. <<s, p>> \in Streams \X Nat /\ muxq'[m] = Append(muxq[m], <<s, p>>)
          BY <1>1, <1>3, <4>1
        <5> QED BY <1>i, <5>1
      <4>2. CASE pr = Append(pre[s], p)
        BY <1>i, <4>2
      <4> QED BY <1>6, <4>1, <4>2
    <3>4. \A x : In(held[s], x) => In(h, x)
      BY <1>6, <1>g, <2>2
    <3> DEFINE mq == muxq[m]
               mr == muxq'[m]
    <3>5. ASSUME NEW x \in 1 .. read[s] PROVE Somewhere(s, x)'
      <4>1. Somewhere(s, x)
        BY <1>6, <1>f DEF Kept
      <4>2. \/ In(written[s], x) \/ In(mr, <<s, x>>) \/ In(pr, x) \/ In(h, x) \/ In(encq[s], x) \/ In(fgq[s], x) \/ In(decq[s], x)
            \/ <<s, x>> \in todo[top.src[s]]
        BY <1>6, <1>g, <3>1, <3>2, <3>3, <3>4, <4>1 DEF Somewhere
      <4> QED BY <1>0, <2>1, <4>2 DEF Somewhere
    <3> QED BY <1>0, <3>5 DEF Kept
  <2> QED BY <2>4, <2>6, <2>7
<1>7. CASE /\ started[m] /\ Sent /\ EncSent(s) /\ pre' = pre
  <2>1. pre[s] = <<>> /\ pre' = [pre EXCEPT ![s] = pre[s]]
    BY <1>1, <1>3, <1>7 DEF HandedOver, StreamsOf
  <2>2. PICK ep, eo, h : After(ep, eo, h)
    BY <1>5, <1>7
  <2>3. Flow(s) => Encodes(s)' /\ IntoMuxer(s)' /\ Kept(s)'
    BY <1>6, <1>7, <2>1, <2>2
  <2> QED BY <1>4, <1>7, <2>1, <2>2, <2>3
<1>8. CASE /\ pre' = [pre EXCEPT ![s] = Append(pre[s], p)] /\ EncSent(s) /\ muxq' = muxq
  <2>2. PICK ep, eo, h : After(ep, eo, h)
    BY <1>5, <1>8
  <2>3. Flow(s) => Encodes(s)' /\ IntoMuxer(s)' /\ Kept(s)'
    BY <1>6, <1>8, <2>2
  <2> HIDE DEF p
  <2> QED BY <1>4, <1>8, <2>2, <2>3
<1>9. CASE EncSendFails(s) /\ UNCHANGED <<muxq, pre>>
  <2>1. \E o, h : EncLeft(s, o, h)
    BY <1>0, <1>9, EncSendFailsIs
  <2>2. PICK o, h : EncLeft(s, o, h)
    BY <2>1
  <2>3. PICK pc : encpc' = [encpc EXCEPT ![s] = pc]
    BY <2>2 DEF EncLeft
  <2>4. pre' = [pre EXCEPT ![s] = pre[s]]
    BY <1>1, <1>9
  <2>5. ~Flow(s)
    BY <1>9, <1>g, NoFault DEF EncSendFails
  <2> QED BY <1>4, <1>9, <2>2, <2>3, <2>4, <2>5 DEF EncLeft
<1> QED
  <2>1. \/ started[m] /\ Sent /\ EncSent(s) /\ pre' = pre
        \/ pre' = [pre EXCEPT ![s] = Append(pre[s], p)] /\ EncSent(s) /\ muxq' = muxq
        \/ EncSendFails(s) /\ UNCHANGED <<muxq, pre>>
    BY DEF EncSend
  <2> QED BY <1>7, <1>8, <1>9, <2>1

LEMMA InAppend ==
  ASSUME NEW S, NEW q \in Seq(S), NEW x \in S
  PROVE  \A y : In(Append(q, x), y) <=> (In(q, y) \/ y = x)
BY InFacts

(* A packet that enters the queue of its muxer *)
LEMMA IntoMuxerSent ==
  ASSUME QueueTypes, NEW s \in Used, NEW p \in Nat, top' = top, srcFin'[s] = srcFin[s], IntoMuxer(s), ~Over(s),
         muxq'[top.mux[s]] = Append(muxq[top.mux[s]], <<s, p>>), p = End => Over(s)'
  PROVE  /\ IntoMuxer(s)' /\ In(muxq'[top.mux[s]], <<s, p>>)
         /\ \A x : In(muxq[top.mux[s]], x) => In(muxq'[top.mux[s]], x)
<1> DEFINE q == muxq[top.mux[s]]
           r == muxq'[top.mux[s]]
           e == <<s, p>>
<1>1. s \in Streams /\ q \in Seq(Streams \X Nat) /\ e \in Streams \X Nat
  BY MuxqIs
<1>2. r = Append(q, e) /\ ~srcFin[s] /\ ~In(q, <<s, End>>)
  BY DEF IntoMuxer
<1>3. <<s, End>> = e => p = End
  OBVIOUS
<1>4. NoneAfter(Append(q, <<s, p>>), s)
  BY <1>1, <1>2, QueueKeeps
<1>5. NoneAfter(r, s)
  BY <1>2, <1>4
<1>6. q = muxq[top.mux[s]] /\ r = muxq'[top.mux[s]] /\ e = <<s, p>>
  OBVIOUS
<1> HIDE DEF q, r, e
<1>7. \A y : In(r, y) <=> (In(q, y) \/ y = e)
  <2>1. \A y : In(Append(q, e), y) <=> (In(q, y) \/ y = e)
    BY ONLY <1>1, InAppend
  <2> QED BY <1>2, <2>1
<1>8. In(r, <<s, End>>) => p = End
  BY <1>2, <1>3, <1>7
<1>9. IntoMuxer(s)'
  BY <1>2, <1>5, <1>6, <1>8 DEF IntoMuxer
<1> QED BY <1>6, <1>7, <1>9

LEMMA BesideFlows ==
  ASSUME QueueTypes, Going, Flows,
         \A t \in Used : Beside(t) /\ Passes(muxq[top.mux[t]], muxq'[top.mux[t]], t)
  PROVE  Flows'
<1>1. Used' = Used /\ \A t \in Used : top.mux[t] \in Muxers
  BY UsedIs DEF Going, Used, QueueTypes
<1>2. ASSUME NEW t \in Used, Alive(top.mux[t])' PROVE Flow(t)'
  <2>1. Flow(t)
    BY <1>1, <1>2 DEF Going, Flows, Alive
  <2> QED BY <2>1, BesideFlow
<1> QED BY <1>1, <1>2 DEF Flows

(* Nothing of any stream moves *)
AllStill == UNCHANGED <<top, read, dpc, todo, fin, decq, decpc, fgq, fgpc, encq, encpc, encout, held, pre, muxq, srcFin, written>>

LEMMA StillFlows ==
  ASSUME QueueTypes, Going, Flows, AllStill
  PROVE  Flows'
<1>1. \A t : Beside(t)
  BY DEF AllStill, Beside
<1>2. \A t : Passes(muxq[top.mux[t]], muxq'[top.mux[t]], t)
  BY DEF AllStill, Passes
<1> QED BY <1>1, <1>2, BesideFlows

LEMMA DrainFlow ==
  ASSUME MInv, PInv, Flows, Going, NEW m \in Muxers, DrainMove(m)
  PROVE  Flows'
<1> USE DEF PInv
<1>0. UNCHANGED <<top, read, dpc, todo, fin, decq, decpc, fgq, fgpc, encq, encpc, encout, held, mpc, srcFin, written>>
      /\ drain[m] # {} /\ rpc[m] = "drain"
  BY DEF DrainMove, demux_vars, dec_vars, fg_vars, enc_vars
<1>1. PICK s : s = Min(drain[m]) /\ s \in drain[m] /\ s \in StreamsOf(m) /\ Encoded(s)
  <2>1. drain[m] \subseteq Streams /\ drain[m] \subseteq {t \in StreamsOf(m) : Encoded(t)}
    BY DEF HandedOver, ThreadTypes
  <2> QED BY <1>0, <2>1, MinIn
<1>2. s \in Streams /\ s \in Used /\ top.mux[s] = m /\ pre[s] \in Seq(Nat) /\ pre \in [Streams -> Seq(Nat)]
      /\ muxq \in [Muxers -> Seq(Streams \X Nat)]
  BY <1>1, UsedIs DEF StreamsOf, QueueTypes
<1> DEFINE p == Head(pre[s])
<1>3. \/ pre[s] = <<>> /\ UNCHANGED <<muxq, pre>>
      \/ /\ pre[s] # <<>> /\ pre' = [pre EXCEPT ![s] = Tail(pre[s])]
         /\ muxq' = IF mpc[m] = "done" THEN muxq ELSE [muxq EXCEPT ![m] = Append(muxq[m], <<s, p>>)]
  BY <1>1 DEF DrainMove
<1>4. CASE pre[s] = <<>> /\ UNCHANGED <<muxq, pre>>
  BY <1>0, <1>4, StillFlows DEF AllStill
<1>5. CASE /\ pre[s] # <<>> /\ pre' = [pre EXCEPT ![s] = Tail(pre[s])]
           /\ muxq' = IF mpc[m] = "done" THEN muxq ELSE [muxq EXCEPT ![m] = Append(muxq[m], <<s, p>>)]
  <2>1. p \in Nat /\ Tail(pre[s]) \in Seq(Nat) /\ \A y : In(pre[s], y) <=> (y = p \/ In(Tail(pre[s]), y))
    BY <1>2, <1>5, InFacts
  <2>2. pre'[s] = Tail(pre[s]) /\ \A t \in Streams : t # s => pre'[t] = pre[t]
    BY <1>2, <1>5
  <2>3. Flow(s) =>
          /\ EndIsLast(pre'[s]) /\ (encpc[s] # "done" => Packets(pre'[s]))
          /\ p = End => pre'[s] = <<>> /\ encpc[s] = "done"
    <3>1. Flow(s) => EndIsLast(pre[s]) /\ (encpc[s] # "done" => Packets(pre[s]))
      BY <1>1 DEF Flow, Encodes
    <3>2. /\ EndIsLast(pre[s]) => EndIsLast(Tail(pre[s])) /\ (p = 0 => Tail(pre[s]) = <<>>)
          /\ Packets(pre[s]) => Packets(Tail(pre[s])) /\ p # 0
      BY <1>2, <1>5, QueueEnds
    <3> QED BY <2>2, <3>1, <3>2 DEF End
  <2> HIDE DEF p
  <2>4. \A t \in Used : t # s => Beside(t)
    BY <1>0, <2>2 DEF Beside, Used
  <2>5. ASSUME NEW t \in Used, t # s PROVE Passes(muxq[top.mux[t]], muxq'[top.mux[t]], t)
    <3>1. top.mux[t] \in Muxers
      BY MuxqIs
    <3>2. muxq'[top.mux[t]] = muxq[top.mux[t]] \/ muxq'[top.mux[t]] = Append(muxq[top.mux[t]], <<s, p>>)
      BY <1>2, <1>5, <3>1
    <3> QED BY <1>2, <2>1, <2>5, <3>2 DEF Passes
  <2>6. ASSUME Alive(top.mux[s]), Flow(s) PROVE Flow(s)'
    <3>0. Encoded(s)' /\ Encoded(s)
      BY <1>0, <1>1 DEF Encoded
    <3>1. muxq'[top.mux[s]] = Append(muxq[top.mux[s]], <<s, p>>)
      BY <1>2, <1>5, <2>6 DEF Alive
    <3>2. FromInput(s)' /\ Decodes(s)'
      BY <1>0, <2>6, <3>0 DEF Flow, FromInput, Decodes
    <3>3. Encodes(s)'
      BY <1>0, <2>3, <2>6, <3>0 DEF Flow, Encodes
    <3>4. ~Over(s)
      BY <1>5, <3>0 DEF Over
    <3>5. p = End => Over(s)'
      BY <1>0, <2>3, <2>6, <3>0 DEF Over
    <3>6. /\ IntoMuxer(s)' /\ In(muxq'[top.mux[s]], <<s, p>>)
          /\ \A x : In(muxq[top.mux[s]], x) => In(muxq'[top.mux[s]], x)
      BY <1>0, <1>2, <2>1, <2>6, <3>1, <3>4, <3>5, IntoMuxerSent DEF Flow
    <3>7. Kept(s)'
      BY <1>0, <2>1, <2>2, <2>6, <3>6 DEF Flow, Kept, Somewhere
    <3> QED BY <3>0, <3>2, <3>3, <3>6, <3>7 DEF Flow
  <2> QED BY <1>2, <2>4, <2>5, <2>6, OthersFlow
<1> QED BY <1>3, <1>4, <1>5

LEMMA ReadyFlow ==
  ASSUME MInv, PInv, Flows, Going, NEW m \in Muxers, ReadyThread(m) \/ ReadyOpenFails(m)
  PROVE  Flows'
<1> USE DEF AllStill, demux_vars, dec_vars, fg_vars, enc_vars, pre_vars, mux_vars
<1>0. QueueTypes
  BY DEF PInv
<1>1. CASE ReadyRecv(m) \/ ReadyStop(m) \/ ReadyGone(m)
  <2>1. AllStill
    BY <1>1 DEF ReadyRecv, ReadyStop, ReadyGone
  <2> QED BY <1>0, <2>1, StillFlows
<1>2. CASE ReadyOpen(m) \/ ReadyOpenFails(m) \/ ReadyEnd(m) \/ DrainDone(m)
  <2>1. AllStill
    BY <1>2 DEF ReadyOpen, ReadyOpenFails, ReadyEnd, DrainDone
  <2> QED BY <1>0, <2>1, StillFlows
<1>3. CASE DrainDrop(m)
  <2> DEFINE s == Min(drain[m])
  <2>1. raced' = (raced \/ pre[s] # <<>>) /\ pre' = [pre EXCEPT ![s] = <<>>]
    BY <1>3 DEF DrainDrop
  <2>r. ~raced'
    BY NoFault
  <2>2. pre[s] = <<>>
    BY <2>1, <2>r, Zenon
  <2>3. pre' = pre
    BY <1>0, <2>1, <2>2 DEF QueueTypes
  <2>4. AllStill
    BY <1>3, <2>3 DEF DrainDrop
  <2> QED BY <1>0, <2>4, StillFlows
<1>4. CASE DrainMove(m)
  BY <1>4, DrainFlow
<1> QED BY <1>1, <1>2, <1>3, <1>4 DEF ReadyThread

(* What a muxer takes from its queue is in the file, or ends a stream *)
LEMMA MuxTakesFlow ==
  ASSUME MInv, PInv, Flags, Flows, Going, NEW m \in Muxers, MuxPacket(m) \/ MuxStreamEnd(m)
  PROVE  Flows'
<1> USE DEF PInv
<1>0. /\ UNCHANGED <<top, read, dpc, todo, fin, decq, decpc, fgq, fgpc, encq, encpc, encout, held, pre>>
      /\ muxq[m] # <<>> /\ muxq' = [muxq EXCEPT ![m] = Tail(muxq[m])]
  BY DEF MuxPacket, MuxStreamEnd, demux_vars, dec_vars, fg_vars, enc_vars, pre_vars
<1>1. Head(muxq[m]) \in Streams \X Nat /\ top.mux[Head(muxq[m])[1]] = m
  BY <1>0, OwnTaken
<1>2. PICK s \in Streams, p \in Nat : Head(muxq[m]) = <<s, p>>
  BY <1>1
<1>3. s \in Used /\ top.mux[s] = m /\ muxq[m] \in Seq(Streams \X Nat) /\ muxq \in [Muxers -> Seq(Streams \X Nat)]
      /\ written \in [Streams -> Seq(Nat \ {0})] /\ written[s] \in Seq(Nat \ {0})
  <2>1. Head(muxq[m])[1] = s
    BY <1>2
  <2>2. top.mux[s] = m
    BY <1>1, <2>1
  <2> QED BY <2>2, UsedIs DEF QueueTypes
<1>4. \/ /\ p # End /\ written' = [written EXCEPT ![s] = Append(written[s], p)] /\ srcFin' = srcFin
      \/ p = End /\ written' = written /\ srcFin' = [srcFin EXCEPT ![s] = TRUE]
  <2>1. Head(muxq[m])[1] = s /\ Head(muxq[m])[2] = p
    BY <1>2
  <2>2. CASE MuxPacket(m)
    BY <2>1, <2>2, NoFault DEF MuxPacket
  <2>3. CASE MuxStreamEnd(m)
    BY <2>1, <2>3 DEF MuxStreamEnd
  <2> QED BY <2>2, <2>3
<1> DEFINE q == muxq[m]
           r == Tail(muxq[m])
<1>5. /\ muxq'[m] = r /\ \A n \in Muxers : n # m => muxq'[n] = muxq[n]
      /\ (\A y : In(q, y) <=> (y = <<s, p>> \/ In(r, y)))
  <2>1. muxq'[m] = r /\ \A n \in Muxers : n # m => muxq'[n] = muxq[n]
    BY <1>0, <1>3
  <2>2. q \in Seq(Streams \X Nat) /\ q # <<>>
    BY <1>0, <1>3
  <2>3. \A y : In(q, y) <=> (y = Head(q) \/ In(Tail(q), y))
    BY ONLY <2>2, InFacts
  <2> QED BY <1>2, <2>1, <2>3
<1>6. /\ NoneAfter(q, s) => NoneAfter(r, s)
      /\ NoneOf(q, s) => Head(q)[1] # s
      /\ NoneAfter(q, s) /\ Head(q) = <<s, End>> => NoneOf(r, s)
  BY <1>0, <1>3, QueueKeeps
<1>7. \A t \in Streams : t # s => written'[t] = written[t] /\ srcFin'[t] = srcFin[t]
  <2>1. \A t \in Streams : t # s => written'[t] = written[t]
    BY <1>3, <1>4
  <2>2. \A t \in Streams : t # s => srcFin'[t] = srcFin[t]
    BY <1>4 DEF Flags
  <2> QED BY <2>1, <2>2
<1>w. p \in Nat \ {0} => \A y : In(Append(written[s], p), y) <=> (In(written[s], y) \/ y = p)
  <2> DEFINE w == written[s]
  <2>1. w \in Seq(Nat \ {0})
    BY <1>3
  <2> HIDE DEF w
  <2>2. p \in Nat \ {0} => \A y : In(Append(w, p), y) <=> (In(w, y) \/ y = p)
    BY ONLY <2>1, InAppend
  <2> QED BY <2>2 DEF w
<1>8. \A t \in Used : t # s => Beside(t)
  BY <1>0, <1>7 DEF Beside, Used
<1>9. ASSUME NEW t \in Used, t # s PROVE Passes(muxq[top.mux[t]], muxq'[top.mux[t]], t)
  <2>1. top.mux[t] \in Muxers
    BY MuxqIs
  <2>2. CASE top.mux[t] # m
    BY <1>5, <2>1, <2>2 DEF Passes
  <2>3. CASE top.mux[t] = m
    BY <1>0, <1>2, <1>5, <1>9, <2>3 DEF Passes
  <2> QED BY <2>2, <2>3
<1>10. ASSUME Flow(s) PROVE Flow(s)'
  <2>0. (Encoded(s)' <=> Encoded(s)) /\ (Over(s)' <=> Over(s))
    BY <1>0 DEF Encoded, Over
  <2>1. FromInput(s)' /\ (Encoded(s) => Decodes(s)' /\ Encodes(s)')
    BY <1>0, <1>10 DEF Flow, FromInput, Decodes, Encodes
  <2>2. /\ NoneAfter(q, s) /\ (In(q, <<s, End>>) => Over(s)) /\ (srcFin[s] => Over(s) /\ NoneOf(q, s))
    BY <1>3, <1>10 DEF Flow, IntoMuxer
  <2>3. muxq'[top'.mux[s]] = r
    BY <1>0, <1>3, <1>5
  <2>4. IntoMuxer(s)'
    <3>1. NoneAfter(r, s) /\ (In(r, <<s, End>>) => Over(s)')
      BY <1>5, <1>6, <2>0, <2>2
    <3>2. CASE p # End /\ srcFin' = srcFin
      <4>1. ~srcFin'[s]
        BY <1>2, <1>6, <2>2, <3>2
      <4> QED BY <2>3, <3>1, <4>1 DEF IntoMuxer
    <3>3. CASE p = End
      <4>1. NoneOf(r, s) /\ Over(s)'
        BY <1>2, <1>5, <1>6, <2>0, <2>2, <3>3
      <4> QED BY <2>3, <3>1, <4>1 DEF IntoMuxer
    <3> QED BY <1>4, <3>2, <3>3
  <2>5. Kept(s)'
    <3>1. ASSUME NEW x \in 1 .. read[s], In(q, <<s, x>>) PROVE In(r, <<s, x>>) \/ In(written'[s], x)
      <4>1. CASE p = End
        BY <1>5, <3>1, <4>1 DEF End
      <4>2. CASE p # End /\ written' = [written EXCEPT ![s] = Append(written[s], p)]
        <5>1. p \in Nat \ {0} /\ written'[s] = Append(written[s], p)
          BY <1>3, <4>2 DEF End
        <5>2. In(Append(written[s], p), p)
          BY <1>w, <5>1
        <5>3. <<s, x>> = <<s, p>> => x = p
          OBVIOUS
        <5> QED BY <1>5, <3>1, <5>1, <5>2, <5>3
      <4> QED BY <1>4, <4>1, <4>2
    <3>2. \A x : In(written[s], x) => In(written'[s], x)
      <4>1. CASE p # End /\ written' = [written EXCEPT ![s] = Append(written[s], p)]
        <5>1. p \in Nat \ {0} /\ written'[s] = Append(written[s], p)
          BY <1>3, <4>1 DEF End
        <5> QED BY <1>w, <5>1
      <4> QED BY <1>4, <4>1
    <3> HIDE DEF q, r
    <3>3. q = muxq[top.mux[s]]
      BY <1>3 DEF q
    <3> QED BY <1>0, <1>10, <2>3, <3>1, <3>2, <3>3 DEF Flow, Kept, Somewhere
  <2> QED BY <2>0, <2>1, <2>4, <2>5 DEF Flow
<1> QED BY <1>8, <1>9, <1>10, OthersFlow

LEMMA MuxFlow ==
  ASSUME MInv, PInv, Flags, Flows, Going, NEW m \in Muxers, Mux(m)
  PROVE  Flows'
<1>1. CASE MuxLeave(m) \/ MuxTrailer(m) \/ MuxCount(m) \/ MuxEnd(m)
  <2>1. AllStill
    BY <1>1 DEF MuxLeave, MuxTrailer, MuxCount, MuxEnd, AllStill, demux_vars, dec_vars, fg_vars, enc_vars, pre_vars
  <2> QED BY <2>1, StillFlows DEF PInv
<1> QED BY <1>1, MuxTakesFlow DEF Mux

LEMMA ClientFlow ==
  ASSUME PInv, Flows, Going, ClientOnly
  PROVE  Flows'
<1>1. AllStill
  BY DEF ClientOnly, thread_vars, AllStill, demux_vars, dec_vars, fg_vars, enc_vars, pre_vars, mux_vars
<1> QED BY <1>1, StillFlows DEF PInv

-----------------------------------------------------------------------------
(* Demuxers *)
LEMMA DemuxOwn ==
  ASSUME QueueTypes, Going, Flows, NEW d \in Demuxers,
         UNCHANGED <<top, fin, decq, decpc, fgq, fgpc, encq, encpc, encout, held, pre, muxq, srcFin, written>>,
         \A e \in Demuxers : e # d => dpc'[e] = dpc[e] /\ todo'[e] = todo[e],
         \A t \in Streams : top.src[t] # d => read'[t] = read[t],
         dpc[d] # "done",
         \A t \in Used : top.src[t] = d /\ ~Stopping /\ Flow(t) =>
           FromInput(t)' /\ (~Encoded(t) => ~Over(t)) /\ Kept(t)'
  PROVE  Flows'
<1>1. Used' = Used /\ \A t \in Used : t \in Streams /\ top.mux[t] \in Muxers /\ top.src[t] \in Demuxers
  BY UsedIs DEF Used, QueueTypes
<1>2. ASSUME NEW t \in Used, Alive(top.mux[t])' PROVE Flow(t)'
  <2>1. Flow(t) /\ ~Stopping
    BY <1>1, <1>2 DEF Going, Flows, Alive
  <2>2. CASE top.src[t] # d
    <3>1. Beside(t)
      BY <1>1, <2>2 DEF Beside
    <3>2. Passes(muxq[top.mux[t]], muxq'[top.mux[t]], t)
      BY DEF Passes
    <3> QED BY <2>1, <3>1, <3>2, BesideFlow
  <2>3. CASE top.src[t] = d
    <3>0. Encoded(t)' <=> Encoded(t)
      BY DEF Encoded
    <3>1. FromInput(t)' /\ (~Encoded(t) => ~Over(t)) /\ Kept(t)'
      BY <2>1, <2>3
    <3>2. Encoded(t) => Decodes(t)'
      BY <2>1, <2>3 DEF Flow, Decodes
    <3>3. Encoded(t) => Encodes(t)'
      BY <2>1 DEF Flow, Encodes
    <3>4. Over(t) => Over(t)'
      BY <3>0, <3>1 DEF Over
    <3>5. IntoMuxer(t)'
      BY <2>1, <3>4, IntoMuxerPassed DEF Flow, IntoMuxerSame, Passes
    <3> QED BY <3>0, <3>1, <3>2, <3>3, <3>5 DEF Flow
  <2> QED BY <2>2, <2>3
<1> QED BY <1>1, <1>2 DEF Flows

LEMMA DemuxLeaveFlow ==
  ASSUME MInv, PInv, TodoShape, Flows, Going, NEW d \in Demuxers, DemuxStop(d) \/ DemuxEof(d) \/ DemuxWake(d)
  PROVE  Flows'
<1> USE DEF PInv
<1>0. UNCHANGED <<top, fin, read, decq, decpc, fgq, fgpc, encq, encpc, encout, held, pre, muxq, srcFin, written>>
      /\ dpc[d] \in {"read", "asleep"}
  BY DEF DemuxStop, DemuxEof, DemuxWake, dec_vars, fg_vars, enc_vars, pre_vars, mux_vars
<1>1. dpc \in [Demuxers -> {"none", "read", "asleep", "send", "ends", "done"}] /\ todo \in [Demuxers -> SUBSET (Streams \X Nat)]
  BY DEF QueueTypes, ThreadTypes
<1>2. /\ \A e \in Demuxers : e # d => dpc'[e] = dpc[e] /\ todo'[e] = todo[e]
      /\ ~Stopping =>
           \/ dpc[d] = "read" /\ (\A s \in Fed(d) : read[s] = top.last[s])
           \/ dpc[d] = "asleep" /\ dpc'[d] = "send" /\ todo' = todo
  BY <1>1 DEF DemuxStop, DemuxEof, DemuxWake, DemuxLeave
<1>3. ASSUME NEW t \in Used, top.src[t] = d, ~Stopping, Flow(t)
      PROVE  FromInput(t)' /\ (~Encoded(t) => ~Over(t)) /\ Kept(t)'
  <2>0. t \in Streams /\ t \in Fed(d)
    BY <1>3 DEF Used, Fed
  <2>1. ~Encoded(t) => ~Over(t)
    BY <1>0, <1>3 DEF Over
  <2>2. FromInput(t)'
    BY <1>0, <1>2, <1>3, <2>0 DEF Flow, FromInput
  <2>3. Kept(t)'
    <3>1. todo[d] = {} \/ todo' = todo
      BY <1>2, <1>3 DEF TodoShape
    <3> QED BY <1>0, <1>3, <3>1 DEF Flow, Kept, Somewhere
  <2> QED BY <2>1, <2>2, <2>3
<1> QED BY <1>0, <1>2, <1>3, DemuxOwn

LEMMA DemuxReadFlow ==
  ASSUME MInv, PInv, TodoShape, Flows, Going, NEW d \in Demuxers, DemuxRead(d)
  PROVE  Flows'
<1> USE DEF PInv
<1>0. UNCHANGED <<top, fin, decq, decpc, fgq, fgpc, encq, encpc, encout, held, pre, muxq, srcFin, written>>
      /\ dpc[d] = "read" /\ todo[d] = {}
  BY DEF DemuxRead, dec_vars, fg_vars, enc_vars, pre_vars, mux_vars, TodoShape
<1>1. dpc \in [Demuxers -> {"none", "read", "asleep", "send", "ends", "done"}] /\ todo \in [Demuxers -> SUBSET (Streams \X Nat)]
      /\ read \in [Streams -> Nat]
  BY DEF QueueTypes, ThreadTypes
<1>2. PICK s \in Streams : /\ top.src[s] = d /\ read' = [read EXCEPT ![s] = read[s] + 1]
                           /\ todo' = [todo EXCEPT ![d] = {<<s, read[s] + 1>>}]
  BY DEF DemuxRead, Fed
<1>3. /\ \A e \in Demuxers : e # d => dpc'[e] = dpc[e] /\ todo'[e] = todo[e]
      /\ dpc'[d] \in {"asleep", "send"}
      /\ todo'[d] = {<<s, read[s] + 1>>} /\ read'[s] = read[s] + 1 /\ \A t \in Streams : t # s => read'[t] = read[t]
  BY <1>1, <1>2 DEF DemuxRead
<1>4. ASSUME NEW t \in Used, top.src[t] = d, ~Stopping, Flow(t)
      PROVE  FromInput(t)' /\ (~Encoded(t) => ~Over(t)) /\ Kept(t)'
  <2>0. t \in Streams /\ read[t] \in Nat
    BY <1>1 DEF Used
  <2>1. ~Encoded(t) => ~Over(t)
    BY <1>0, <1>4 DEF Over
  <2>2. FromInput(t)'
    BY <1>0, <1>3, <1>4 DEF Flow, FromInput
  <2>3. ASSUME NEW x \in 1 .. read'[t] PROVE Somewhere(t, x)'
    <3>1. CASE x \in 1 .. read[t]
      <4>1. Somewhere(t, x)
        BY <1>4, <3>1 DEF Flow, Kept
      <4> QED BY <1>0, <1>4, <4>1 DEF Somewhere
    <3>2. CASE x \notin 1 .. read[t]
      <4>1. t = s
        BY <1>3, <2>0, <2>3, <3>2
      <4>2. x = read[s] + 1
        BY <1>3, <2>0, <2>3, <3>2, <4>1
      <4>3. <<t, x>> \in todo'[top'.src[t]]
        BY <1>0, <1>2, <1>3, <4>1, <4>2
      <4> QED BY <4>3 DEF Somewhere
    <3> QED BY <3>1, <3>2
  <2>4. Kept(t)'
    BY <2>3 DEF Kept
  <2> QED BY <2>1, <2>2, <2>4
<1>5. \A t \in Streams : top.src[t] # d => read'[t] = read[t]
  BY <1>2, <1>3
<1> QED BY <1>0, <1>3, <1>4, <1>5, DemuxOwn

LEMMA DemuxSendFlow ==
  ASSUME MInv, PInv, TodoShape, Flags, Flows, Going, NEW d \in Demuxers, DemuxSend(d)
  PROVE  Flows'
<1> USE DEF PInv
<1>0. UNCHANGED <<top, read, decpc, fgq, fgpc, encq, encpc, encout, held, pre, srcFin, written>>
      /\ dpc[d] \in {"send", "ends"} /\ todo[d] # {}
  BY DEF DemuxSend, fg_vars, enc_vars, pre_vars
<1>1. /\ dpc \in [Demuxers -> {"none", "read", "asleep", "send", "ends", "done"}]
      /\ todo \in [Demuxers -> SUBSET (Streams \X Nat)] /\ todo[d] \subseteq Streams \X Nat
      /\ decq \in [Streams -> Seq(Nat)] /\ muxq \in [Muxers -> Seq(Streams \X Nat)]
  BY DEF QueueTypes, ThreadTypes
<1>2. PICK s \in Streams, p \in Nat : Soonest(todo[d]) = <<s, p>>
  <2>1. Soonest(todo[d]) \in todo[d]
    BY <1>0, <1>1, SoonestIn
  <2>2. Soonest(todo[d]) \in Streams \X Nat
    BY <1>1, <2>1
  <2> QED BY <2>2
<1>3. <<s, p>> \in todo[d] /\ top.src[s] = d /\ s \in Used
  <2>1. <<s, p>> \in todo[d]
    BY <1>0, <1>1, <1>2, SoonestIn
  <2>2. top.src[<<s, p>>[1]] = d
    BY <2>1 DEF OwnPackets
  <2>3. top.src[s] = d
    BY <2>2
  <2> QED BY <2>1, <2>3, UsedIs DEF QueueTypes
<1>4. top.mux[s] \in Muxers /\ decq[s] \in Seq(Nat)
  BY <1>1, <1>3, MuxqIs
<1> DEFINE gone == fin[s] \/ DstGone(s)
           m == top.mux[s]
<1>5. /\ fin' = [fin EXCEPT ![s] = gone]
      /\ decq' = IF gone \/ ~Encoded(s) THEN decq ELSE [decq EXCEPT ![s] = Append(decq[s], p)]
      /\ muxq' = IF gone \/ Encoded(s) THEN muxq ELSE [muxq EXCEPT ![m] = Append(muxq[m], <<s, p>>)]
  BY <1>2 DEF DemuxSend
<1>6. PICK dp, td : /\ dpc' = [dpc EXCEPT ![d] = dp] /\ todo' = [todo EXCEPT ![d] = td]
                    /\ dpc[d] = "ends" => dp \in {"ends", "done"} /\ td = todo[d] \ {<<s, p>>}
                    /\ dpc[d] = "send" => td = {} /\ (dp = "read" \/ (dp = "done" /\ gone /\ Fed(d) = {s}))
  <2> HIDE DEF gone
  <2>1. \/ /\ dpc[d] = "ends" /\ todo' = [todo EXCEPT ![d] = todo[d] \ {<<s, p>>}]
           /\ dpc' = [dpc EXCEPT ![d] = IF todo[d] \ {<<s, p>>} = {} THEN "done" ELSE "ends"]
        \/ dpc[d] = "send" /\ gone /\ Fed(d) = {s} /\ todo' = [todo EXCEPT ![d] = {}] /\ dpc' = [dpc EXCEPT ![d] = "done"]
        \/ dpc[d] = "send" /\ todo' = [todo EXCEPT ![d] = {}] /\ dpc' = [dpc EXCEPT ![d] = "read"]
    BY <1>0, <1>2 DEF DemuxSend, gone
  <2> QED BY <2>1
<1> HIDE DEF gone
<1>7. /\ dpc'[d] = dp /\ todo'[d] = td /\ \A e \in Demuxers : e # d => dpc'[e] = dpc[e] /\ todo'[e] = todo[e]
      /\ td \subseteq todo[d]
      /\ \A t \in Streams : t # s => fin'[t] = fin[t] /\ decq'[t] = decq[t]
  <2>1. \A t \in Streams : t # s => fin'[t] = fin[t]
    BY <1>5 DEF Flags
  <2> QED BY <1>0, <1>1, <1>5, <1>6, <2>1
<1>8. ASSUME NEW t \in Used, t # s PROVE Passes(muxq[top.mux[t]], muxq'[top.mux[t]], t)
  <2>1. top.mux[t] \in Muxers
    BY MuxqIs
  <2>2. muxq'[top.mux[t]] = muxq[top.mux[t]] \/ muxq'[top.mux[t]] = Append(muxq[top.mux[t]], <<s, p>>)
    BY <1>1, <1>4, <1>5, <2>1
  <2> QED BY <1>8, <2>2 DEF Passes
<1>9. \A x \in todo[d] : x # <<s, p>> => dpc[d] = "ends" /\ x[2] = End
  BY <1>0, <1>3 DEF TodoShape
<1>10. /\ dpc[d] = "send" => p # End
       /\ dpc[d] = "ends" => p = End
  <2>1. <<s, p>>[2] = p
    OBVIOUS
  <2> QED BY <1>3, <2>1 DEF TodoShape
<1>11. ASSUME NEW t \in Used, top.src[t] = d, Flow(t)
       PROVE  Encoded(t) => decpc[t] \notin {"fin", "done"}
  BY <1>0, <1>11 DEF Flow, Decodes
<1>12. ASSUME NEW t \in Used, t # s, Flow(t) PROVE Flow(t)'
  <2>0. t \in Streams /\ top.src[t] \in Demuxers
    BY <1>12, MuxqIs
  <2>1. CASE top.src[t] # d
    <3>1. Beside(t)
      BY <1>0, <1>7, <1>12, <2>0, <2>1 DEF Beside
    <3> QED BY <1>8, <1>12, <3>1, BesideFlow
  <2>2. CASE top.src[t] = d
    <3>0. (Encoded(t)' <=> Encoded(t)) /\ Fed(d) # {s}
      BY <1>0, <1>12, <2>0, <2>2 DEF Encoded, Fed
    <3>d. dpc[d] = "send" => dp = "read"
      BY <1>6, <3>0
    <3>1. FromInput(t)'
      BY <1>0, <1>6, <1>7, <1>12, <2>0, <2>2, <3>d DEF Flow, FromInput
    <3>2. Encoded(t) => Decodes(t)'
      BY <1>0, <1>7, <1>11, <1>12, <2>0, <2>2 DEF Flow, Decodes
    <3>3. Encoded(t) => Encodes(t)'
      BY <1>0, <1>12 DEF Flow, Encodes
    <3>4. Over(t) => Over(t)'
      BY <1>0, <1>6, <1>7, <2>2, <3>0 DEF Over
    <3>5. IntoMuxer(t)'
      BY <1>0, <1>8, <1>12, <3>4, IntoMuxerPassed DEF Flow, IntoMuxerSame
    <3>6. Kept(t)'
      <4>1. ASSUME NEW x \in 1 .. read[t] PROVE <<t, x>> \notin todo[d]
        <5>1. <<t, x>> # <<s, p>> /\ <<t, x>>[2] = x /\ x # End
          BY <1>12 DEF End
        <5> QED BY <1>9, <5>1
      <4>2. \A x : In(muxq[top.mux[t]], <<t, x>>) <=> In(muxq'[top.mux[t]], <<t, x>>)
        BY <1>8, <1>12, MuxqIs, PassesIn
      <4> QED BY <1>0, <1>7, <1>12, <2>0, <2>2, <4>1, <4>2 DEF Flow, Kept, Somewhere
    <3> QED BY <3>0, <3>1, <3>2, <3>3, <3>5, <3>6 DEF Flow
  <2> QED BY <2>1, <2>2
<1>13. ASSUME Alive(m), Flow(s) PROVE Flow(s)'
  <2>0. (Encoded(s)' <=> Encoded(s)) /\ ~fin[s] /\ (Encoded(s) => decpc[s] \notin {"fin", "done"})
    BY <1>0, <1>3, <1>11, <1>13 DEF Encoded, Flow, FromInput
  <2>1. ~gone
    BY <1>13, <2>0 DEF gone, DstGone, MuxGone, Alive
  <2>2. /\ ~fin'[s] /\ (dpc[d] = "send" => dp = "read")
        /\ Encoded(s) => decq'[s] = Append(decq[s], p) /\ muxq'[m] = muxq[m]
        /\ ~Encoded(s) => decq'[s] = decq[s] /\ muxq'[m] = Append(muxq[m], <<s, p>>)
    <3>1. ~fin'[s]
      BY <1>5, <2>1 DEF Flags
    <3> QED BY <1>1, <1>4, <1>5, <1>6, <2>1, <3>1
  <2>3. FromInput(s)'
    BY <1>0, <1>3, <1>6, <1>7, <1>13, <2>2 DEF Flow, FromInput
  <2>4. Encoded(s) => Decodes(s)'
    BY <1>0, <1>13, <2>0 DEF Flow, Decodes
  <2>5. Encoded(s) => Encodes(s)'
    BY <1>0, <1>13 DEF Flow, Encodes
  <2>6. /\ IntoMuxer(s)'
        /\ \A x : In(muxq[m], <<s, x>>) => In(muxq'[m], <<s, x>>)
        /\ ~Encoded(s) => In(muxq'[m], <<s, p>>)
    <3>1. CASE Encoded(s)
      <4>1. Over(s) => Over(s)'
        BY <1>0, <2>0, <3>1 DEF Over
      <4> QED BY <1>0, <1>3, <1>13, <2>2, <3>1, <4>1, IntoMuxerPassed DEF Flow, IntoMuxerSame, Passes
    <3>2. CASE ~Encoded(s)
      <4>1. ~Over(s)
        BY <1>0, <1>3, <1>10, <3>2 DEF Over
      <4>2. ASSUME p = End PROVE Over(s)'
        <5>1. dpc[d] = "ends"
          BY <1>0, <1>10, <4>2
        <5>2. dp \in {"ends", "done"} /\ <<s, End>> \notin td
          BY <1>6, <4>2, <5>1
        <5> QED BY <1>0, <1>3, <1>7, <2>0, <3>2, <5>2 DEF Over
      <4>3. IntoMuxer(s)
        BY <1>13 DEF Flow
      <4> QED BY <1>0, <1>3, <2>2, <3>2, <4>1, <4>2, <4>3, IntoMuxerSent
    <3> QED BY <3>1, <3>2
  <2>7. Kept(s)'
    <3>1. Encoded(s) => \A y : In(decq'[s], y) <=> (In(decq[s], y) \/ y = p)
      <4> DEFINE w == decq[s]
      <4>1. w \in Seq(Nat)
        BY <1>4
      <4> HIDE DEF w
      <4>2. \A y : In(Append(w, p), y) <=> (In(w, y) \/ y = p)
        BY ONLY <4>1, p \in Nat, InAppend
      <4> QED BY <2>2, <4>2 DEF w
    <3>2. ASSUME NEW x \in 1 .. read[s], <<s, x>> \in todo[d] PROVE x = p
      <4>1. <<s, x>>[2] = x /\ x # End /\ (<<s, x>> = <<s, p>> => x = p)
        BY DEF End
      <4> QED BY <1>9, <3>2, <4>1
    <3>3. ASSUME NEW x \in 1 .. read[s] PROVE Somewhere(s, x)'
      <4>1. Somewhere(s, x)
        BY <1>13 DEF Flow, Kept
      <4>2. <<s, x>> \in todo[d] => In(decq'[s], x) \/ In(muxq'[m], <<s, x>>)
        BY <2>6, <3>1, <3>2
      <4>3. In(decq[s], x) => In(decq'[s], x)
        BY <2>2, <3>1
      <4> QED BY <1>0, <1>3, <2>6, <4>1, <4>2, <4>3 DEF Somewhere
    <3> QED BY <1>0, <3>3 DEF Kept
  <2> QED BY <2>0, <2>3, <2>4, <2>5, <2>6, <2>7 DEF Flow
<1>14. Used' = Used /\ \A t \in Used : top.mux[t] \in Muxers
  BY <1>0, MuxqIs DEF Used
<1>15. ASSUME NEW t \in Used, Alive(top.mux[t])' PROVE Flow(t)'
  <2>1. Alive(top.mux[t]) /\ Flow(t)
    BY <1>14, <1>15 DEF Going, Flows, Alive
  <2> QED BY <1>12, <1>13, <2>1
<1> QED BY <1>14, <1>15 DEF Flows

LEMMA DemuxFlow ==
  ASSUME MInv, PInv, TodoShape, Flags, Flows, Going, NEW d \in Demuxers, Demux(d) \/ DemuxFail(d)
  PROVE  Flows'
<1>1. ~DemuxFail(d)
  BY NoFault DEF DemuxFail
<1> QED BY <1>1, DemuxLeaveFlow, DemuxReadFlow, DemuxSendFlow DEF Demux

-----------------------------------------------------------------------------
(* The start: every thread of a stream that is used runs, and nothing has  *)
(* been read.                                                              *)
LEMMA Started ==
  ASSUME Start
  PROVE  /\ client = "new" /\ client' = "running" /\ status' = "run" /\ counter' = Cardinality(Outputs)
         /\ UNCHANGED <<top, result, ret, faults, raced, read, todo, fin, decq, fgq, encq, encout, held, pre, muxq, nbdone, srcFin, written>>
         /\ decpc' = [s \in Streams |-> IF Encoded(s) THEN "run" ELSE "done"]
         /\ fgpc' = [s \in Streams |-> IF Encoded(s) THEN "run" ELSE "done"]
         /\ encpc' = [s \in Streams |-> IF Encoded(s) THEN "closed" ELSE "done"]
         /\ dpc' = [d \in Demuxers |-> IF Fed(d) # {} THEN "read" ELSE "done"]
         /\ \A m \in Muxers : /\ mpc'[m] \in {"run", "none"} /\ rpc'[m] \in {"wait", "done"}
                              /\ mpc'[m] = "run" => started'[m]
<1>1. Spawn(Outputs, "demux") /\ PhaseNo["demux"] = 5 /\ PhaseNo["enc"] = 2 /\ PhaseNo["fg"] = 3 /\ PhaseNo["dec"] = 4
  BY DEF Start, PhaseNo
<1>2. 2 <= 5 /\ 3 <= 5 /\ 4 <= 5 /\ 5 <= 5
  OBVIOUS
<1>3. /\ decpc' = [s \in Streams |-> IF Encoded(s) THEN "run" ELSE "done"]
      /\ fgpc' = [s \in Streams |-> IF Encoded(s) THEN "run" ELSE "done"]
      /\ encpc' = [s \in Streams |-> IF Encoded(s) THEN "closed" ELSE "done"]
  BY <1>1, <1>2 DEF Spawn
<1>4. dpc' = [d \in Demuxers |-> IF Fed(d) # {} THEN "read" ELSE "done"]
  BY <1>1, <1>2 DEF Spawn
<1>5. \A m \in Muxers : /\ mpc'[m] \in {"run", "none"} /\ rpc'[m] \in {"wait", "done"}
                        /\ mpc'[m] = "run" => started'[m]
  BY <1>1 DEF Spawn
<1>6. UNCHANGED <<raced, read, todo, fin, decq, fgq, encq, encout, held, pre, muxq, nbdone, srcFin, written>>
  BY <1>1 DEF Spawn
<1> QED BY <1>3, <1>4, <1>5, <1>6 DEF Start

LEMMA StartFlow ==
  ASSUME PInv, Fresh, Start
  PROVE  Flows'
<1>1. Used' = Used
  BY Started DEF Used
<1>2. ASSUME NEW s \in Used PROVE Flow(s)'
  <2>1. s \in Streams /\ top.mux[s] \in Muxers /\ top.src[s] \in Demuxers
    BY MuxqIs DEF PInv
  <2>2. /\ read'[s] = 0 /\ ~fin'[s] /\ ~srcFin'[s] /\ held'[s] = <<>> /\ encout'[s] = <<>> /\ pre'[s] = <<>>
        /\ decq'[s] = <<>> /\ fgq'[s] = <<>> /\ encq'[s] = <<>> /\ muxq'[top'.mux[s]] = <<>>
    BY <2>1, Started DEF Fresh
  <2>3. /\ top' = top /\ dpc'[top'.src[s]] = "read"
        /\ Encoded(s) => decpc'[s] = "run" /\ fgpc'[s] = "run" /\ encpc'[s] = "closed"
    <3>1. s \in Fed(top.src[s])
      BY <2>1 DEF Fed
    <3> QED BY <2>1, <3>1, Started
  <2>4. Encoded(s)' <=> Encoded(s)
    BY <2>3 DEF Encoded
  <2>5. DOMAIN <<>> = {}
    OBVIOUS
  <2>6. FromInput(s)'
    BY <2>2, <2>3 DEF FromInput
  <2>7. Encoded(s) => Decodes(s)'
    BY <2>2, <2>3, <2>5 DEF Decodes, Packets, EndsTrail
  <2>8. Encoded(s) => Encodes(s)'
    BY <2>2, <2>3, <2>5 DEF Encodes, Packets, EndIsLast
  <2>9. IntoMuxer(s)'
    BY <2>2, <2>5 DEF IntoMuxer, NoneAfter, In
  <2>10. Kept(s)'
    BY <2>2 DEF Kept
  <2> QED BY <2>4, <2>6, <2>7, <2>8, <2>9, <2>10 DEF Flow
<1> QED BY <1>1, <1>2 DEF Flows

(* What a client does but to start the job *)
LEMMA ClientCases ==
  ASSUME ClientCalls \/ ClientGoesOn
  PROVE  Start \/ StartFails \/ ClientOnly
BY DEF ClientCalls, ClientGoesOn, Pause, PauseStore, Resume, ResumeStore, Wait, Joined, TakeResult, Poll, PollArm, PollWoken,
   Stop, Stopped, Abort, Drop, Dropped

LEMMA AllFlowStep ==
  ASSUME MInv, PInv, CInv, Next
  PROVE  AllFlow'
<1> SUFFICES ASSUME Smooth' PROVE Flows'
  BY DEF AllFlow
<1>0. TodoShape /\ Flags /\ Fresh /\ Shape /\ EndsLast
  BY DEF CInv, Shape
<1>1. CASE Start
  BY <1>0, <1>1, StartFlow
<1>2. CASE ~Start
  <2>1. Going
    BY <1>0, <1>2, StillSmooth DEF Going
  <2>2. Flows
    BY <2>1 DEF CInv, AllFlow, Going
  <2>3. ~StartFails
    BY DEF StartFails, Smooth
  <2>4. CASE ClientCalls \/ ClientGoesOn
    BY <1>2, <2>1, <2>2, <2>3, <2>4, ClientCases, ClientFlow
  <2>5. CASE \E d \in Demuxers : Demux(d) \/ DemuxFail(d)
    BY <1>0, <2>1, <2>2, <2>5, DemuxFlow
  <2>6. ASSUME NEW s \in Streams, Dec(s) \/ Fg(s) \/ Enc(s) PROVE Flows'
    BY <2>1, <2>2, <2>6, DecFlow, FgFlow, EncFlow, EncSendFlow DEF Enc
  <2>7. ASSUME NEW m \in Muxers, ReadyThread(m) \/ ReadyOpenFails(m) \/ Mux(m) PROVE Flows'
    BY <1>0, <2>1, <2>2, <2>7, ReadyFlow, MuxFlow
  <2> QED BY <2>4, <2>5, <2>6, <2>7 DEF Next, Threads
<1> QED BY <1>1, <1>2

-----------------------------------------------------------------------------
(* Before the start no thread takes a step *)
LEMMA NewIsStill ==
  ASSUME MInv, Fresh, client = "new", Next
  PROVE  Start \/ StartFails
<1>1. ASSUME NEW d \in Demuxers, Demux(d) \/ DemuxFail(d) PROVE FALSE
  <2>1. dpc[d] \in {"read", "asleep", "send", "ends"}
    BY <1>1 DEF Demux, DemuxRead, DemuxStop, DemuxEof, DemuxFail, DemuxWake, DemuxSend
  <2> QED BY <2>1 DEF Fresh, None
<1>2. ASSUME NEW s \in Streams, Dec(s) \/ Fg(s) \/ Enc(s) PROVE FALSE
  <2>1. \/ decpc[s] \in {"run", "fin"} \/ fgpc[s] \in {"run", "fin"} \/ encpc[s] \in {"closed", "run"} \/ encout[s] # <<>>
    BY <1>2 DEF Dec, Fg, Enc, DecRecv, DecLeave, DecEnd, FgRecv, FgLeave, FgEnd, EncOpen, EncRecv, EncLeave, EncSend
  <2> QED BY <2>1 DEF Fresh, None
<1>3. ASSUME NEW m \in Muxers, ReadyThread(m) \/ ReadyOpenFails(m) PROVE FALSE
  <2>1. rpc[m] \in {"wait", "open", "leave", "drain", "drop"}
    BY <1>3 DEF ReadyThread, ReadyOpenFails, ReadyRecv, ReadyStop, ReadyGone, ReadyOpen, ReadyEnd, DrainMove, DrainDrop, DrainDone
  <2> QED BY <2>1 DEF MInv, MuxStages
<1>4. ASSUME NEW m \in Muxers, Mux(m) PROVE FALSE
  <2>1. mpc[m] \in {"run", "trail", "count", "leave"}
    BY <1>4 DEF Mux, MuxPacket, MuxStreamEnd, MuxLeave, MuxTrailer, MuxCount, MuxEnd
  <2> QED BY <2>1 DEF MInv, MuxStages
<1>5. CASE ClientCalls \/ ClientGoesOn
  BY <1>5 DEF ClientCalls, ClientGoesOn, Pause, PauseStore, Resume, ResumeStore, Wait, Joined, TakeResult, Poll, PollArm, PollWoken,
     Stop, Stopped, Abort, Drop, Dropped
<1> QED BY <1>1, <1>2, <1>3, <1>4, <1>5 DEF Next, Threads

(* A step of a thread does not touch the client *)
LEMMA ThreadTold ==
  ASSUME Threads \/ (\E d \in Demuxers : DemuxFail(d)) \/ (\E m \in Muxers : ReadyOpenFails(m))
  PROVE  /\ UNCHANGED <<top, client, ret>> /\ (faults' = faults \/ faults' = faults + 1)
         /\ (result # "ok" => result' # "ok") /\ (status' = status \/ result' # None \/ counter = 0)
<1> DEFINE Apart == /\ UNCHANGED <<top, client, ret>> /\ (faults' = faults \/ faults' = faults + 1)
                    /\ (result # "ok" => result' # "ok") /\ (status' = status \/ result' # None \/ counter = 0)
<1> USE DEF client_vars
<1>0. \A e \in {"demux", "dec", "fg", "enc", "mux", "trailer"} : SetError(e) => (result # "ok" => result' # "ok") /\ result' # None
  BY DEF SetError, None
<1> USE <1>0
<1>1. ASSUME NEW d \in Demuxers, Demux(d) \/ DemuxFail(d) PROVE Apart
  BY <1>1 DEF Demux, DemuxRead, DemuxStop, DemuxEof, DemuxFail, DemuxWake, DemuxSend, Fault
<1>2. ASSUME NEW s \in Streams, Dec(s) \/ Fg(s) PROVE Apart
  BY <1>2 DEF Dec, Fg, DecRecv, DecLeave, DecEnd, FgRecv, FgLeave, FgEnd, Fault
<1>3. ASSUME NEW s \in Streams, Enc(s) PROVE Apart
  BY <1>3 DEF Enc, EncOpen, EncRecv, EncLeave, EncSend, EncSent, EncSendFails, Fault
<1>4. ASSUME NEW m \in Muxers, ReadyThread(m) \/ ReadyOpenFails(m) PROVE Apart
  BY <1>4 DEF ReadyThread, ReadyOpenFails, ReadyRecv, ReadyStop, ReadyGone, ReadyOpen, ReadyEnd, DrainMove, DrainDrop, DrainDone, Fault
<1>5. ASSUME NEW m \in Muxers, Mux(m) PROVE Apart
  BY <1>5 DEF Mux, MuxPacket, MuxStreamEnd, MuxLeave, MuxTrailer, MuxCount, MuxEnd, Fault
<1> QED BY <1>1, <1>2, <1>3, <1>4, <1>5 DEF Threads

LEMMA ToldStep ==
  ASSUME Told, Fresh, MInv, Next
  PROVE  Told' /\ Fresh'
<1>1. CASE Threads \/ (\E d \in Demuxers : DemuxFail(d)) \/ (\E m \in Muxers : ReadyOpenFails(m))
  <2>1. UNCHANGED <<client, ret>> /\ (faults' = faults \/ faults' = faults + 1) /\ (result # "ok" => result' # "ok")
    BY <1>1, ThreadTold
  <2>2. Told'
    BY <2>1 DEF Told
  <2>3. client # "new"
    <3>1. client = "new" => Start \/ StartFails
      BY NewIsStill
    <3> QED BY <2>1, <3>1 DEF Start, StartFails
  <2> QED BY <2>1, <2>2, <2>3 DEF Fresh
<1>2. CASE ClientCalls \/ ClientGoesOn
  <2>1. CASE Start \/ StartFails
    BY <2>1 DEF Start, StartFails, Fault, Told, Fresh, None
  <2>2. CASE Pause \/ PauseStore \/ Resume \/ ResumeStore \/ Wait \/ Joined \/ Poll \/ PollArm \/ PollWoken
    BY <2>2 DEF Pause, PauseStore, Resume, ResumeStore, Wait, Joined, Poll, PollArm, PollWoken, ClientOnly, Told, Fresh
  <2>3. CASE TakeResult
    BY <2>3 DEF TakeResult, ClientOnly, Told, Fresh, None
  <2>4. CASE Stop \/ Stopped \/ Abort
    BY <2>4 DEF Stop, Stopped, Abort, ClientOnly, Told, Fresh, None
  <2>5. CASE Drop \/ Dropped
    BY <2>5 DEF Drop, Dropped, ClientOnly, Told, Fresh, None
  <2> QED BY <1>2, <2>1, <2>2, <2>3, <2>4, <2>5 DEF ClientCalls, ClientGoesOn
<1> QED BY <1>1, <1>2 DEF Next

(* Demuxers keep the shape of what they have to send *)
LEMMA DemuxShape ==
  ASSUME PInv, Flags, TodoShape, ReadUpTo, NEW d \in Demuxers, Demux(d) \/ DemuxFail(d)
  PROVE  TodoShape' /\ ReadUpTo' /\ Flags'
<1>0. /\ dpc \in [Demuxers -> {"none", "read", "asleep", "send", "ends", "done"}]
      /\ todo \in [Demuxers -> SUBSET (Streams \X Nat)] /\ read \in [Streams -> Nat] /\ \A s \in Streams : top.last[s] \in Nat
  BY UsedIs DEF PInv, QueueTypes, ThreadTypes
<1> DEFINE Goes(dp, td) == dpc' = [dpc EXCEPT ![d] = dp] /\ todo' = [todo EXCEPT ![d] = td]
           Fits(dp, td) == /\ dp \in {"none", "read", "done"} => td = {}
                           /\ dp \in {"asleep", "send"} => \A x, y \in td : x = y /\ x[2] # End
                           /\ dp = "ends" => \A x \in td : x[2] = End
<1>1. ASSUME NEW dp, NEW td, Goes(dp, td), Fits(dp, td) PROVE TodoShape'
  <2>1. dpc'[d] = dp /\ todo'[d] = td /\ \A e \in Demuxers : e # d => dpc'[e] = dpc[e] /\ todo'[e] = todo[e]
    BY <1>0, <1>1
  <2>2. ASSUME NEW e \in Demuxers
        PROVE /\ dpc'[e] \in {"none", "read", "done"} => todo'[e] = {}
              /\ dpc'[e] \in {"asleep", "send"} => \A x, y \in todo'[e] : x = y /\ x[2] # End
              /\ dpc'[e] = "ends" => \A x \in todo'[e] : x[2] = End
    <3>1. CASE e = d
      BY <1>1, <2>1, <3>1
    <3>2. CASE e # d
      BY <2>1, <3>2 DEF TodoShape
    <3> QED BY <3>1, <3>2
  <2> QED BY <2>2 DEF TodoShape
<1>2. ASSUME DemuxLeave(d) PROVE \E dp, td : Goes(dp, td) /\ Fits(dp, td)
  <2> DEFINE out == IF \E s \in Fed(d) : read[s] > 0 THEN Ends(d) ELSE {}
  <2>1. Goes(IF out = {} THEN "done" ELSE "ends", out)
    BY <1>2 DEF DemuxLeave
  <2>2. \A x \in out : x[2] = End
    BY DEF Ends
  <2> HIDE DEF out
  <2>3. Fits(IF out = {} THEN "done" ELSE "ends", out)
    BY <2>2
  <2> QED BY <2>1, <2>3
<1>3. CASE DemuxStop(d) \/ DemuxEof(d) \/ DemuxFail(d)
  <2>1. UNCHANGED <<top, read, fin, srcFin, nbdone>> /\ DemuxLeave(d)
    BY <1>3 DEF DemuxStop, DemuxEof, DemuxFail, mux_vars
  <2>2. ReadUpTo' /\ Flags'
    BY <2>1 DEF ReadUpTo, Flags
  <2> HIDE DEF Goes, Fits
  <2> QED BY <1>1, <1>2, <2>1, <2>2
<1>4. CASE DemuxWake(d)
  <2>1. UNCHANGED <<top, read, fin, srcFin, nbdone>> /\ (DemuxLeave(d) \/ (dpc[d] = "asleep" /\ Goes("send", todo[d])))
    BY <1>0, <1>4 DEF DemuxWake, mux_vars
  <2>2. ReadUpTo' /\ Flags'
    BY <2>1 DEF ReadUpTo, Flags
  <2>3. dpc[d] = "asleep" => Fits("send", todo[d])
    BY DEF TodoShape
  <2> HIDE DEF Goes, Fits
  <2> QED BY <1>1, <1>2, <2>1, <2>2, <2>3
<1>5. CASE DemuxRead(d)
  <2>1. UNCHANGED <<top, fin, srcFin, nbdone>>
    BY <1>5 DEF DemuxRead, mux_vars
  <2>2. PICK s \in Streams : /\ read[s] < top.last[s] /\ read' = [read EXCEPT ![s] = read[s] + 1]
                             /\ todo' = [todo EXCEPT ![d] = {<<s, read[s] + 1>>}]
    BY <1>5 DEF DemuxRead, Fed
  <2>3. PICK dp \in {"asleep", "send"} : dpc' = [dpc EXCEPT ![d] = dp]
    BY <1>5 DEF DemuxRead
  <2>4. Goes(dp, {<<s, read[s] + 1>>})
    BY <2>2, <2>3
  <2>5. Fits(dp, {<<s, read[s] + 1>>})
    <3>1. <<s, read[s] + 1>>[2] # End
      BY <1>0 DEF End
    <3> QED BY <2>3, <3>1
  <2>6. ReadUpTo'
    BY <1>0, <2>1, <2>2 DEF ReadUpTo
  <2>7. Flags'
    BY <2>1 DEF Flags
  <2> HIDE DEF Goes, Fits
  <2> QED BY <1>1, <2>4, <2>5, <2>6, <2>7
<1>6. CASE DemuxSend(d)
  <2>1. UNCHANGED <<top, read, srcFin, nbdone>> /\ \E s, b : b \in BOOLEAN /\ fin' = [fin EXCEPT ![s] = b]
    BY <1>6 DEF DemuxSend
  <2>2. ReadUpTo' /\ Flags'
    BY <2>1 DEF ReadUpTo, Flags
  <2>3. \/ Goes("read", {}) \/ Goes("done", {})
        \/ \E rest : rest \subseteq todo[d] /\ Goes(IF rest = {} THEN "done" ELSE "ends", rest) /\ dpc[d] = "ends"
    <3> DEFINE rest == todo[d] \ {Soonest(todo[d])}
    <3>1. rest \subseteq todo[d]
      OBVIOUS
    <3>2. \/ Goes("read", {}) \/ Goes("done", {})
          \/ Goes(IF rest = {} THEN "done" ELSE "ends", rest) /\ dpc[d] = "ends"
      BY <1>6 DEF DemuxSend
    <3> HIDE DEF rest, Goes
    <3> QED BY <3>1, <3>2
  <2>4. Fits("read", {}) /\ Fits("done", {})
    OBVIOUS
  <2>5. ASSUME dpc[d] = "ends", NEW rest \in SUBSET todo[d] PROVE Fits(IF rest = {} THEN "done" ELSE "ends", rest)
    BY <2>5 DEF TodoShape
  <2> HIDE DEF Goes, Fits
  <2> QED BY <1>1, <2>2, <2>3, <2>4, <2>5
<1> QED BY <1>3, <1>4, <1>5, <1>6 DEF Demux

(* The muxers and the threads that open them *)
LEMMA MuxOpened ==
  ASSUME MInv, PInv, Flags, Opened, NEW m \in Muxers, ReadyThread(m) \/ ReadyOpenFails(m) \/ Mux(m)
  PROVE  Opened' /\ Flags' /\ UNCHANGED <<dpc, todo, read>>
<1> USE DEF demux_vars, mux_vars
<1>0. /\ mpc \in [Muxers -> {"none", "run", "trail", "count", "leave", "done"}]
      /\ rpc \in [Muxers -> {"none", "wait", "open", "leave", "drain", "drop", "done"}]
      /\ started \in [Muxers -> BOOLEAN]
      /\ rpc[m] \in {"wait", "open"} => mpc[m] = "none"
  BY DEF MInv, MuxTypes, MuxStages, PInv, ThreadTypes
<1>1. CASE ReadyThread(m) \/ ReadyOpenFails(m)
  <2>1. UNCHANGED <<dpc, todo, read, fin, srcFin, nbdone>>
    BY <1>1 DEF ReadyThread, ReadyOpenFails, ReadyRecv, ReadyStop, ReadyGone, ReadyOpen, ReadyEnd, DrainMove, DrainDrop, DrainDone
  <2>2. Flags'
    BY <2>1 DEF Flags
  <2>3. CASE ReadyRecv(m) \/ DrainMove(m) \/ DrainDrop(m)
    BY <1>0, <2>1, <2>2, <2>3 DEF ReadyRecv, DrainMove, DrainDrop, Opened
  <2>4. CASE ReadyStop(m) \/ ReadyGone(m) \/ ReadyOpenFails(m) \/ ReadyEnd(m)
    BY <1>0, <2>1, <2>2, <2>4 DEF ReadyStop, ReadyGone, ReadyOpenFails, ReadyEnd, Opened
  <2>5. CASE ReadyOpen(m)
    BY <1>0, <2>1, <2>2, <2>5 DEF ReadyOpen, Opened
  <2>6. CASE DrainDone(m)
    BY <1>0, <2>1, <2>2, <2>6 DEF DrainDone, Opened
  <2> QED BY <1>1, <2>3, <2>4, <2>5, <2>6 DEF ReadyThread
<1>2. CASE Mux(m)
  <2>1. /\ UNCHANGED <<dpc, todo, read, fin, rpc, started>> /\ mpc[m] # "none"
        /\ \E x : x # "none" /\ mpc' = [mpc EXCEPT ![m] = x]
    <3>1. CASE MuxPacket(m)
      BY <1>0, <3>1 DEF MuxPacket, ready_vars
    <3>2. CASE MuxStreamEnd(m)
      BY <1>0, <3>2 DEF MuxStreamEnd, ready_vars
    <3>3. CASE MuxLeave(m) \/ MuxTrailer(m) \/ MuxCount(m) \/ MuxEnd(m)
      BY <1>0, <3>3 DEF MuxLeave, MuxTrailer, MuxCount, MuxEnd, ready_vars
    <3> QED BY <1>2, <3>1, <3>2, <3>3 DEF Mux
  <2>2. Opened'
    BY <1>0, <2>1 DEF Opened
  <2>3. UNCHANGED <<srcFin, nbdone>> \/ MuxStreamEnd(m)
    BY <1>2 DEF Mux, MuxPacket, MuxLeave, MuxTrailer, MuxCount, MuxEnd
  <2>4. MuxStreamEnd(m) => (\E s : srcFin' = [srcFin EXCEPT ![s] = TRUE]) /\ nbdone' = [nbdone EXCEPT ![m] = @ + 1]
    BY DEF MuxStreamEnd
  <2>5. Flags'
    <3>1. CASE UNCHANGED <<srcFin, nbdone>>
      BY <2>1, <3>1 DEF Flags
    <3>2. CASE MuxStreamEnd(m)
      <4>1. srcFin' \in [Streams -> BOOLEAN]
        BY <2>4, <3>2 DEF Flags
      <4>2. nbdone[m] + 1 \in Nat
        BY DEF Flags
      <4>3. nbdone' \in [Muxers -> Nat]
        BY <2>4, <3>2, <4>2 DEF Flags
      <4> QED BY <2>1, <4>1, <4>3 DEF Flags
    <3> QED BY <2>3, <3>1, <3>2
  <2> QED BY <2>1, <2>2, <2>5
<1> QED BY <1>1, <1>2

LEMMA ShapeStep ==
  ASSUME MInv, PInv, Shape, Next
  PROVE  Shape'
<1> USE DEF demux_vars, mux_vars, ready_vars
<1>0. Told' /\ Fresh'
  BY ToldStep DEF Shape
<1>1. CASE \E d \in Demuxers : Demux(d) \/ DemuxFail(d)
  <2>1. TodoShape' /\ ReadUpTo' /\ Flags'
    BY <1>1, DemuxShape DEF Shape
  <2>2. UNCHANGED <<rpc, mpc, started>>
    BY <1>1 DEF Demux, DemuxRead, DemuxStop, DemuxEof, DemuxFail, DemuxWake, DemuxSend
  <2>3. Opened'
    BY <2>2 DEF Shape, Opened
  <2> QED BY <1>0, <2>1, <2>3 DEF Shape
<1>2. ASSUME UNCHANGED <<top, dpc, todo, read, fin, srcFin, nbdone, rpc, mpc, started>> PROVE Shape'
  <2>1. TodoShape' /\ ReadUpTo' /\ Flags'
    BY <1>2 DEF Shape, TodoShape, ReadUpTo, Flags
  <2>2. Opened'
    BY <1>2 DEF Shape, Opened
  <2> QED BY <1>0, <2>1, <2>2 DEF Shape
<1>3. ASSUME NEW s \in Streams, Dec(s) \/ Fg(s) \/ Enc(s) PROVE Shape'
  <2>1. CASE Dec(s) \/ Fg(s)
    BY <1>2, <2>1 DEF Dec, Fg, DecRecv, DecLeave, DecEnd, FgRecv, FgLeave, FgEnd
  <2>2. CASE Enc(s)
    BY <1>2, <2>2 DEF Enc, EncOpen, EncRecv, EncLeave, EncSend
  <2> QED BY <1>3, <2>1, <2>2
<1>4. ASSUME NEW m \in Muxers, ReadyThread(m) \/ ReadyOpenFails(m) \/ Mux(m) PROVE Shape'
  <2>1. Opened' /\ Flags' /\ UNCHANGED <<dpc, todo, read>>
    BY <1>4, MuxOpened DEF Shape
  <2>2. top' = top
    BY <1>4, ThreadTold DEF Threads
  <2>3. TodoShape' /\ ReadUpTo'
    BY <2>1, <2>2 DEF Shape, TodoShape, ReadUpTo
  <2> QED BY <1>0, <2>1, <2>3 DEF Shape
<1>5. CASE Start \/ StartFails
  <2>1. client = "new" /\ top' = top /\ \E ms, phase : Spawn(ms, phase)
    BY <1>5 DEF Start, StartFails
  <2>2. /\ UNCHANGED <<todo, read, fin, srcFin, nbdone>>
        /\ \A d \in Demuxers : dpc'[d] \in {"read", "done"}
        /\ \A m \in Muxers : rpc'[m] \in {"wait", "done"} /\ (mpc'[m] # "none" => started'[m])
    <3> SUFFICES ASSUME NEW ms, NEW phase, Spawn(ms, phase)
                 PROVE  /\ UNCHANGED <<todo, read, fin, srcFin, nbdone>>
                        /\ \A d \in Demuxers : dpc'[d] \in {"read", "done"}
                        /\ \A m \in Muxers : rpc'[m] \in {"wait", "done"} /\ (mpc'[m] # "none" => started'[m])
      BY <2>1
    <3> QED BY DEF Spawn
  <2>3. TodoShape'
    BY <2>1, <2>2 DEF Shape, Fresh, TodoShape
  <2>4. Opened'
    BY <2>2 DEF Opened
  <2>5. ReadUpTo' /\ Flags'
    BY <2>1, <2>2 DEF Shape, ReadUpTo, Flags
  <2> QED BY <1>0, <2>3, <2>4, <2>5 DEF Shape
<1>6. CASE ClientOnly
  BY <1>2, <1>6 DEF ClientOnly, thread_vars
<1> QED BY <1>1, <1>3, <1>4, <1>5, <1>6, ClientCases DEF Next, Threads

-----------------------------------------------------------------------------
(* A job in which nothing goes wrong is ended only when every muxer is     *)
(* done.                                                                   *)
LEMMA LeftShrinks ==
  ASSUME MInv, Next, ~Start, ~StartFails
  PROVE  Left' \subseteq Left
<1> USE DEF MInv, client_vars, ready_vars, mux_vars
<1>1. CASE \/ \E d \in Demuxers : Demux(d) \/ DemuxFail(d)
           \/ \E s \in Streams : Dec(s) \/ Fg(s) \/ Enc(s)
  BY <1>1, FeederStep DEF Quiet, Left
<1>2. ASSUME NEW m \in Muxers, ReadyThread(m) \/ ReadyOpenFails(m) PROVE Left' \subseteq Left
  <2>1. CASE ReadyRecv(m) \/ DrainMove(m) \/ DrainDrop(m) \/ DrainDone(m) \/ ReadyEnd(m)
    <3>1. /\ mpc' = mpc /\ \E x : rpc' = [rpc EXCEPT ![m] = x] /\ (x \in {"wait", "open"} => rpc[m] = "wait")
      BY <2>1 DEF MuxTypes, ReadyRecv, DrainMove, DrainDrop, DrainDone, ReadyEnd
    <3> QED BY <3>1 DEF MuxTypes, Left
  <2>2. CASE ReadyStop(m) \/ ReadyGone(m) \/ ReadyOpenFails(m)
    BY <2>2 DEF ReadyStop, ReadyGone, ReadyOpenFails, MuxTypes, Left
  <2>3. CASE ReadyOpen(m)
    BY <2>3 DEF ReadyOpen, MuxTypes, MuxStages, Left
  <2> QED BY <1>2, <2>1, <2>2, <2>3 DEF ReadyThread
<1>3. ASSUME NEW m \in Muxers, Mux(m) PROVE Left' \subseteq Left
  <2>1. /\ rpc' = rpc /\ \E x : mpc' = [mpc EXCEPT ![m] = x] /\ x # "none" /\ (x \in {"run", "trail", "count"} => mpc[m] \in {"run", "trail"})
    <3>1. CASE MuxPacket(m)
      BY <3>1 DEF MuxPacket, MuxTypes
    <3>2. CASE MuxStreamEnd(m) \/ MuxLeave(m)
      BY <3>2 DEF MuxStreamEnd, MuxLeave, MuxTypes
    <3>3. CASE MuxTrailer(m) \/ MuxCount(m) \/ MuxEnd(m)
      BY <3>3 DEF MuxTrailer, MuxCount, MuxEnd, MuxTypes
    <3> QED BY <1>3, <3>1, <3>2, <3>3 DEF Mux
  <2> QED BY <2>1 DEF MuxTypes, Left
<1>4. CASE ClientOnly
  BY <1>4 DEF ClientOnly, thread_vars, Left
<1> QED BY <1>1, <1>2, <1>3, <1>4, ClientCases DEF Next, Threads

Ending == ret = "ok" \/ Stopping \/ client = "take"

LEMMA FineBefore ==
  ASSUME MInv, Shape, Next, ~Start, ~StartFails, Fine'
  PROVE  /\ Fine /\ top' = top
         /\ Ending' => Ending \/ counter = 0
<1>0. Steady /\ Told
  BY NextSteady DEF Shape
<1> USE <1>0 DEF Steady, Fine, Ending, Told, Stopping, None
<1>1. CASE Threads \/ (\E d \in Demuxers : DemuxFail(d)) \/ (\E m \in Muxers : ReadyOpenFails(m))
  <2>1. UNCHANGED <<client, ret>> /\ (status' = status \/ result' # None \/ counter = 0)
    BY <1>1, ThreadTold
  <2> QED BY <2>1
<1>2. CASE Pause \/ PauseStore \/ Resume \/ ResumeStore
  BY <1>2 DEF Pause, PauseStore, Resume, ResumeStore
<1>3. CASE Wait \/ Joined \/ Poll \/ PollArm \/ PollWoken
  BY <1>3 DEF Wait, Joined, Poll, PollArm, PollWoken
<1>4. CASE TakeResult
  BY <1>4 DEF TakeResult
<1>5. CASE Stop \/ Stopped \/ Abort
  BY <1>5 DEF Stop, Stopped, Abort
<1>6. CASE Drop \/ Dropped
  BY <1>6 DEF Drop, Dropped
<1> QED BY <1>1, <1>2, <1>3, <1>4, <1>5, <1>6 DEF Next, ClientCalls, ClientGoesOn

LEMMA EndsLastStep ==
  ASSUME MInv, Shape, EndsLast, Next
  PROVE  EndsLast'
<1> SUFFICES ASSUME Fine', Ending' PROVE Left' = {}
  BY DEF EndsLast, Ending, Stopping
<1>1. ~StartFails
  BY DEF StartFails, Fine
<1>2. ~Start
  <2>1. ASSUME Start PROVE ~Ending'
    BY <2>1 DEF Start, Ending, Stopping, Shape, Told, None
  <2> QED BY <2>1
<1>3. Fine /\ (Ending \/ counter = 0)
  BY <1>1, <1>2, FineBefore
<1>4. Left' \subseteq Left
  BY <1>1, <1>2, LeftShrinks
<1>5. Ending => Left = {}
  BY <1>3 DEF EndsLast, Ending
<1>6. counter = 0 => Left = {}
  BY <1>3, LeftFinite, FS_EmptySet DEF MInv, Counts, Fine
<1> QED BY <1>3, <1>4, <1>5, <1>6

-----------------------------------------------------------------------------
(* A muxer counts the end of each of its streams once *)
LEMMA DoneFinite ==
  ASSUME NEW m
  PROVE  /\ IsFiniteSet(StreamsOf(m)) /\ IsFiniteSet(DoneOf(m)) /\ DoneOf(m) \subseteq StreamsOf(m)
         /\ Cardinality(StreamsOf(m)) \in Nat /\ Cardinality(DoneOf(m)) \in Nat
<1>1. StreamsOf(m) \subseteq Streams /\ DoneOf(m) \subseteq StreamsOf(m)
  BY DEF StreamsOf, DoneOf
<1>2. IsFiniteSet(StreamsOf(m))
  BY <1>1, MuxersFinite, FS_Subset
<1>3. IsFiniteSet(DoneOf(m))
  BY <1>1, <1>2, FS_Subset
<1> QED BY <1>1, <1>2, <1>3, FS_CardinalityType

LEMMA EndTaken ==
  ASSUME PInv, Flags, Flows, NEW m \in Muxers, MuxStreamEnd(m)
  PROVE  \E s \in StreamsOf(m) :
           /\ s \in Used /\ ~srcFin[s] /\ srcFin' = [srcFin EXCEPT ![s] = TRUE]
           /\ Flow(s) /\ Over(s) /\ muxq[m] # <<>> /\ Head(muxq[m]) = <<s, End>>
<1>0. muxq[m] # <<>> /\ muxq' = [muxq EXCEPT ![m] = Tail(muxq[m])] /\ mpc[m] = "run" /\ top' = top
  BY DEF MuxStreamEnd
<1>1. Head(muxq[m]) \in Streams \X Nat /\ top.mux[Head(muxq[m])[1]] = m
  BY <1>0, OwnTaken DEF PInv
<1>2. PICK s \in Streams, p \in Nat : Head(muxq[m]) = <<s, p>>
  BY <1>1
<1>3. Head(muxq[m])[1] = s /\ Head(muxq[m])[2] = p
  BY <1>2
<1>4. p = End /\ srcFin' = [srcFin EXCEPT ![s] = TRUE]
  BY <1>3 DEF MuxStreamEnd
<1>5. s \in StreamsOf(m) /\ top.mux[s] = m /\ s \in Used
  BY <1>1, <1>3, UsedIs DEF StreamsOf, PInv, QueueTypes
<1>6. Flow(s)
  BY <1>0, <1>5 DEF Flows, Alive
<1>7. muxq[m] \in Seq(Streams \X Nat)
  BY DEF PInv, QueueTypes
<1>8. In(muxq[m], <<s, End>>)
  <2> DEFINE q == muxq[m]
  <2>1. q \in Seq(Streams \X Nat) /\ q # <<>> /\ Head(q) = <<s, End>>
    BY <1>0, <1>2, <1>4, <1>7
  <2> HIDE DEF q
  <2>2. In(q, <<s, End>>)
    BY ONLY <2>1, InFacts
  <2> QED BY <2>2 DEF q
<1>9. ~srcFin[s] /\ Over(s)
  <2>1. (In(muxq[m], <<s, End>>) => Over(s)) /\ (srcFin[s] => NoneOf(muxq[m], s))
    BY <1>5, <1>6 DEF Flow, IntoMuxer
  <2>2. NoneOf(muxq[m], s) => Head(muxq[m])[1] # s
    BY <1>0, <1>7, QueueKeeps
  <2> QED BY <1>3, <1>8, <2>1, <2>2
<1> QED BY <1>0, <1>2, <1>4, <1>5, <1>6, <1>9

LEMMA CountedElsewhere ==
  ASSUME Next, ~\E m \in Muxers : MuxStreamEnd(m)
  PROVE  UNCHANGED <<srcFin, nbdone>>
<1> USE DEF mux_vars
<1>1. ASSUME NEW d \in Demuxers, Demux(d) \/ DemuxFail(d) PROVE UNCHANGED <<srcFin, nbdone>>
  BY <1>1 DEF Demux, DemuxRead, DemuxStop, DemuxEof, DemuxFail, DemuxWake, DemuxSend
<1>2. ASSUME NEW s \in Streams, Dec(s) \/ Fg(s) \/ Enc(s) PROVE UNCHANGED <<srcFin, nbdone>>
  BY <1>2 DEF Dec, Fg, Enc, DecRecv, DecLeave, DecEnd, FgRecv, FgLeave, FgEnd, EncOpen, EncRecv, EncLeave, EncSend
<1>3. ASSUME NEW m \in Muxers, ReadyThread(m) \/ ReadyOpenFails(m) PROVE UNCHANGED <<srcFin, nbdone>>
  BY <1>3 DEF ReadyThread, ReadyOpenFails, ReadyRecv, ReadyStop, ReadyGone, ReadyOpen, ReadyEnd, DrainMove, DrainDrop, DrainDone
<1>4. ASSUME NEW m \in Muxers, Mux(m) PROVE UNCHANGED <<srcFin, nbdone>>
  BY <1>4 DEF Mux, MuxPacket, MuxLeave, MuxTrailer, MuxCount, MuxEnd
<1>5. CASE Start \/ StartFails
  BY <1>5 DEF Start, StartFails, Spawn
<1>6. CASE ClientOnly
  BY <1>6 DEF ClientOnly, thread_vars
<1> QED BY <1>1, <1>2, <1>3, <1>4, <1>5, <1>6, ClientCases DEF Next, Threads

LEMMA EndsCountedStep ==
  ASSUME MInv, PInv, CInv, Next
  PROVE  EndsCounted'
<1> SUFFICES ASSUME Smooth', NEW m \in Muxers, Alive(m)' PROVE nbdone'[m] = Cardinality(DoneOf(m)')
  BY DEF EndsCounted
<1>0. Flags /\ Fresh /\ Shape /\ EndsLast
  BY DEF CInv, Shape
<1>1. CASE Start
  <2>1. nbdone'[m] = 0 /\ \A s \in Streams : ~srcFin'[s]
    BY <1>0, <1>1, Started DEF Fresh
  <2>2. DoneOf(m)' = {}
    BY <2>1 DEF DoneOf, StreamsOf
  <2> QED BY <2>1, <2>2, FS_EmptySet
<1>2. CASE ~Start
  <2>1. Smooth /\ top' = top /\ Alive(m)
    BY <1>0, <1>2, StillSmooth
  <2>2. nbdone[m] = Cardinality(DoneOf(m)) /\ Flows
    BY <2>1 DEF CInv, EndsCounted, AllFlow
  <2>3. \A n : StreamsOf(n)' = StreamsOf(n)
    BY <2>1 DEF StreamsOf
  <2>4. CASE UNCHANGED <<srcFin, nbdone>>
    <3>1. DoneOf(m)' = DoneOf(m)
      BY <2>3, <2>4 DEF DoneOf
    <3> QED BY <2>2, <2>4, <3>1
  <2>5. ASSUME NEW n \in Muxers, MuxStreamEnd(n) PROVE nbdone'[m] = Cardinality(DoneOf(m)')
    <3>1. PICK s \in StreamsOf(n) : ~srcFin[s] /\ srcFin' = [srcFin EXCEPT ![s] = TRUE]
      BY <1>0, <2>2, <2>5, EndTaken
    <3>2. s \in Streams /\ top.mux[s] = n
      BY <3>1 DEF StreamsOf
    <3>3. srcFin'[s] /\ \A t \in Streams : t # s => srcFin'[t] = srcFin[t]
      BY <1>0, <3>1, <3>2 DEF Flags
    <3>4. nbdone' = [nbdone EXCEPT ![n] = nbdone[n] + 1]
      BY <2>5 DEF MuxStreamEnd
    <3>5. CASE m # n
      <4>1. s \notin StreamsOf(m)
        BY <3>2, <3>5 DEF StreamsOf
      <4>2. DoneOf(m)' = DoneOf(m)
        BY <2>3, <3>3, <4>1 DEF DoneOf, StreamsOf
      <4> QED BY <1>0, <2>2, <3>4, <3>5, <4>2 DEF Flags
    <3>6. CASE m = n
      <4>1. DoneOf(m)' = DoneOf(m) \cup {s} /\ s \notin DoneOf(m)
        <5>1. \A t : t \in DoneOf(m)' <=> t \in StreamsOf(m) /\ srcFin'[t]
          BY <2>3 DEF DoneOf
        <5>2. \A t : t \in DoneOf(m) <=> t \in StreamsOf(m) /\ srcFin[t]
          BY DEF DoneOf
        <5>3. \A t \in StreamsOf(m) : t \in Streams
          BY DEF StreamsOf
        <5> QED BY <3>1, <3>3, <3>6, <5>1, <5>2, <5>3
      <4>2. Cardinality(DoneOf(m) \cup {s}) = Cardinality(DoneOf(m)) + 1
        BY <4>1, DoneFinite, FS_AddElement
      <4>3. nbdone'[m] = nbdone[m] + 1
        BY <1>0, <3>4, <3>6 DEF Flags
      <4> QED BY <2>2, <4>1, <4>2, <4>3
    <3> QED BY <3>5, <3>6
  <2> QED BY <2>4, <2>5, CountedElsewhere
<1> QED BY <1>1, <1>2

-----------------------------------------------------------------------------
(* A muxer that stops taking packets has written all of them *)
Past == {"trail", "count", "leave", "done"}

LEMMA WrittenGrows ==
  ASSUME PInv, Next, NEW t \in Streams, NEW x, In(written[t], x)
  PROVE  In(written'[t], x)
<1> USE DEF mux_vars
<1>0. ASSUME written' = written PROVE In(written'[t], x)
  BY <1>0
<1>1. ASSUME NEW d \in Demuxers, Demux(d) \/ DemuxFail(d) PROVE written' = written
  BY <1>1 DEF Demux, DemuxRead, DemuxStop, DemuxEof, DemuxFail, DemuxWake, DemuxSend
<1>2. ASSUME NEW s \in Streams, Dec(s) \/ Fg(s) \/ Enc(s) PROVE written' = written
  BY <1>2 DEF Dec, Fg, Enc, DecRecv, DecLeave, DecEnd, FgRecv, FgLeave, FgEnd, EncOpen, EncRecv, EncLeave, EncSend
<1>3. ASSUME NEW m \in Muxers, ReadyThread(m) \/ ReadyOpenFails(m) PROVE written' = written
  BY <1>3 DEF ReadyThread, ReadyOpenFails, ReadyRecv, ReadyStop, ReadyGone, ReadyOpen, ReadyEnd, DrainMove, DrainDrop, DrainDone
<1>4. ASSUME NEW m \in Muxers, Mux(m) PROVE In(written'[t], x)
  <2>1. CASE MuxStreamEnd(m) \/ MuxLeave(m) \/ MuxTrailer(m) \/ MuxCount(m) \/ MuxEnd(m)
    BY <2>1 DEF MuxStreamEnd, MuxLeave, MuxTrailer, MuxCount, MuxEnd
  <2>2. CASE MuxPacket(m)
    <3>0. muxq[m] # <<>> /\ muxq' = [muxq EXCEPT ![m] = Tail(muxq[m])] /\ top' = top
      BY <2>2 DEF MuxPacket
    <3>1. Head(muxq[m]) \in Streams \X Nat
      BY <3>0, OwnTaken DEF PInv
    <3>2. PICK s \in Streams, p \in Nat : Head(muxq[m]) = <<s, p>>
      BY <3>1
    <3>3. Head(muxq[m])[1] = s /\ Head(muxq[m])[2] = p
      BY <3>2
    <3>4. p # End /\ (written' = written \/ written' = [written EXCEPT ![s] = Append(written[s], p)])
      BY <2>2, <3>3 DEF MuxPacket
    <3>5. written[s] \in Seq(Nat \ {0}) /\ p \in Nat \ {0} /\ written \in [Streams -> Seq(Nat \ {0})]
      BY <3>4 DEF PInv, QueueTypes, End
    <3>6. \A y : In(written[s], y) => In(Append(written[s], p), y)
      <4> DEFINE w == written[s]
      <4>1. w \in Seq(Nat \ {0})
        BY <3>5
      <4>3. p \in Nat \ {0}
        BY <3>5
      <4> HIDE DEF w
      <4>2. \A y : In(Append(w, p), y) <=> (In(w, y) \/ y = p)
        BY ONLY <4>1, <4>3, InAppend
      <4> QED BY <4>2 DEF w
    <3>7. written'[t] = written[t] \/ (t = s /\ written'[t] = Append(written[s], p))
      BY <3>4, <3>5
    <3> QED BY <3>6, <3>7
  <2> QED BY <1>4, <2>1, <2>2 DEF Mux
<1>5. CASE Start \/ StartFails
  BY <1>5 DEF Start, StartFails, Spawn
<1>6. CASE ClientOnly
  BY <1>6 DEF ClientOnly, thread_vars
<1> QED BY <1>0, <1>1, <1>2, <1>3, <1>4, <1>5, <1>6, ClientCases DEF Next, Threads

LEMMA IntoPast ==
  ASSUME MInv, Next, ~Start, ~StartFails, NEW m \in Muxers, mpc'[m] \in Past, mpc[m] \notin Past
  PROVE  mpc[m] = "run" /\ (MuxPacket(m) \/ MuxStreamEnd(m) \/ MuxLeave(m))
<1> USE DEF ready_vars, mux_vars
<1>0. mpc \in [Muxers -> {"none", "run", "trail", "count", "leave", "done"}]
  BY DEF MInv, MuxTypes
<1>1. CASE \/ \E d \in Demuxers : Demux(d) \/ DemuxFail(d)
           \/ \E s \in Streams : Dec(s) \/ Fg(s) \/ Enc(s)
  BY <1>1, FeederStep DEF Quiet
<1>2. ASSUME NEW n \in Muxers, ReadyThread(n) \/ ReadyOpenFails(n) PROVE FALSE
  <2>1. mpc' = mpc \/ mpc' = [mpc EXCEPT ![n] = "run"]
    BY <1>2 DEF ReadyThread, ReadyOpenFails, ReadyRecv, ReadyStop, ReadyGone, ReadyOpen, ReadyEnd, DrainMove, DrainDrop, DrainDone
  <2> QED BY <1>0, <2>1 DEF Past
<1>3. ASSUME NEW n \in Muxers, Mux(n) PROVE mpc[m] = "run" /\ (MuxPacket(m) \/ MuxStreamEnd(m) \/ MuxLeave(m))
  <2>1. \E x : mpc' = [mpc EXCEPT ![n] = x]
    <3>1. CASE MuxPacket(n)
      BY <1>0, <3>1 DEF MuxPacket
    <3>2. CASE MuxStreamEnd(n) \/ MuxLeave(n) \/ MuxTrailer(n) \/ MuxCount(n) \/ MuxEnd(n)
      BY <3>2 DEF MuxStreamEnd, MuxLeave, MuxTrailer, MuxCount, MuxEnd
    <3> QED BY <1>3, <3>1, <3>2 DEF Mux
  <2>2. m = n
    BY <1>0, <2>1
  <2>3. CASE MuxTrailer(n) \/ MuxCount(n) \/ MuxEnd(n)
    BY <2>2, <2>3 DEF MuxTrailer, MuxCount, MuxEnd, Past
  <2>4. CASE MuxPacket(n) \/ MuxStreamEnd(n) \/ MuxLeave(n)
    BY <2>2, <2>4 DEF MuxPacket, MuxStreamEnd, MuxLeave
  <2> QED BY <1>3, <2>3, <2>4 DEF Mux
<1>4. CASE ClientOnly
  BY <1>4 DEF ClientOnly, thread_vars
<1> QED BY <1>1, <1>2, <1>3, <1>4, ClientCases DEF Next, Threads

(* All of a stream has been handed to its muxer, and none of it waits: the *)
(* file has it.                                                            *)
LEMMA OverWritten ==
  ASSUME PInv, TodoShape, NEW t \in Used, Flow(t), Over(t),
         \A x \in 1 .. read[t] : ~In(muxq[top.mux[t]], <<t, x>>)
  PROVE  AllWritten(t)
<1>0. t \in Streams /\ top.src[t] \in Demuxers /\ top.last[t] \in Nat
  BY MuxqIs, UsedIs DEF PInv, QueueTypes
<1> DEFINE d == top.src[t]
<1>1. /\ pre[t] = <<>> /\ encout[t] = <<>> /\ held[t] = <<>> /\ encq[t] = <<>> /\ decq[t] = <<>>
      /\ \A i \in DOMAIN fgq[t] : fgq[t][i] <= 0
      /\ dpc[d] \in {"ends", "done"}
  <2>1. CASE Encoded(t)
    <3>1. encpc[t] = "done" /\ pre[t] = <<>>
      BY <2>1 DEF Over
    <3>2. fgpc[t] = "done" /\ encq[t] = <<>> /\ held[t] = <<>> /\ encout[t] = <<>>
      BY <2>1, <3>1 DEF Flow, Encodes
    <3>3. decpc[t] \in {"fin", "done"} /\ OnlyEnds(fgq[t])
      BY <2>1, <3>2 DEF Flow, Decodes
    <3>4. dpc[d] = "done" /\ decq[t] = <<>>
      BY <2>1, <3>3 DEF Flow, Decodes
    <3> QED BY <3>1, <3>2, <3>3, <3>4 DEF OnlyEnds
  <2>2. CASE ~Encoded(t)
    <3>1. dpc[d] \in {"ends", "done"}
      BY <2>2 DEF Over
    <3>2. /\ pre[t] = <<>> /\ encout[t] = <<>> /\ held[t] = <<>> /\ encq[t] = <<>> /\ decq[t] = <<>> /\ fgq[t] = <<>>
      BY <1>0, <2>2 DEF PInv, CopiedDirectly
    <3> QED BY <3>1, <3>2
  <2> QED BY <2>1, <2>2
<1>2. read[t] = top.last[t]
  BY <1>1 DEF Flow, FromInput
<1>3. ASSUME NEW x \in 1 .. read[t] PROVE In(written[t], x)
  <2>1. Somewhere(t, x)
    BY <1>3 DEF Flow, Kept
  <2>2. x \in Int /\ x > 0
    BY <1>0, <1>2
  <2>3. <<t, x>> \notin todo[d]
    <3>1. \A y \in todo[d] : y[2] = 0
      BY <1>0, <1>1 DEF TodoShape, End
    <3>2. <<t, x>>[2] = x
      OBVIOUS
    <3> QED BY <2>2, <3>1, <3>2
  <2>4. ~In(fgq[t], x)
    BY <1>1, <2>2 DEF In
  <2> QED BY <1>1, <2>1, <2>3, <2>4, NothingIn DEF Somewhere
<1> QED BY <1>2, <1>3 DEF AllWritten

LEMMA FineAlive ==
  ASSUME Fine, EndsLast, NEW m \in Muxers, Alive(m)
  PROVE  Smooth /\ ~Stopping
<1>1. m \in Left
  BY DEF Alive, Left
<1> QED BY <1>1 DEF Fine, EndsLast, Smooth, None

(* The end of the last stream of a muxer *)
LEMMA LastEnd ==
  ASSUME MInv, PInv, CInv, Smooth, NEW m \in Muxers, MuxStreamEnd(m), mpc'[m] \in Past, NEW t \in StreamsOf(m), t \in Used
  PROVE  AllWritten(t)
<1>0. Flags /\ TodoShape /\ Flows
  BY DEF CInv, Shape, AllFlow
<1>1. PICK s \in StreamsOf(m) : /\ s \in Used /\ ~srcFin[s] /\ Flow(s) /\ Over(s) /\ muxq[m] # <<>> /\ Head(muxq[m]) = <<s, End>>
  BY <1>0, EndTaken
<1>2. mpc[m] = "run" /\ nbdone[m] + 1 = Cardinality(StreamsOf(m))
  BY DEF MuxStreamEnd, Past, MInv, MuxTypes
<1>3. Alive(m) /\ nbdone[m] = Cardinality(DoneOf(m))
  BY <1>2 DEF Alive, CInv, EndsCounted
<1>4. DoneOf(m) \cup {s} = StreamsOf(m)
  <2>1. s \notin DoneOf(m) /\ DoneOf(m) \cup {s} \subseteq StreamsOf(m)
    BY <1>1 DEF DoneOf
  <2>2. Cardinality(DoneOf(m) \cup {s}) = Cardinality(DoneOf(m)) + 1
    BY <2>1, DoneFinite, FS_AddElement
  <2> QED BY <1>2, <1>3, <2>1, <2>2, DoneFinite, FS_Subset
<1>5. top.mux[t] = m /\ Flow(t) /\ muxq[m] \in Seq(Streams \X Nat) /\ top.mux[s] = m /\ s \in Streams /\ t \in Streams
  BY <1>0, <1>3 DEF StreamsOf, Flows, PInv, QueueTypes
<1>6. Over(t) /\ \A x \in 1 .. read[t] : ~In(muxq[top.mux[t]], <<t, x>>)
  <2>1. CASE t = s
    <3>1. NoneAfter(muxq[m], s)
      BY <1>1, <1>5 DEF Flow, IntoMuxer
    <3>2. NoneOf(Tail(muxq[m]), s)
      BY <1>1, <1>5, <3>1, QueueKeeps
    <3> DEFINE q == muxq[m]
    <3>3. \A y : In(q, y) <=> (y = Head(q) \/ In(Tail(q), y))
      <4>1. q \in Seq(Streams \X Nat) /\ q # <<>>
        BY <1>1, <1>5
      <4> HIDE DEF q
      <4> QED BY ONLY <4>1, InFacts
    <3>4. ASSUME NEW x \in 1 .. read[t], In(q, <<s, x>>) PROVE FALSE
      <4>1. <<s, x>> # <<s, End>> /\ <<s, x>>[1] = s
        BY DEF End
      <4>2. In(Tail(q), <<s, x>>)
        BY <1>1, <3>3, <3>4, <4>1
      <4> QED BY <3>2, <4>1, <4>2 DEF In, NoneOf
    <3> QED BY <1>1, <1>5, <2>1, <3>4
  <2>2. CASE t # s
    <3>1. srcFin[t]
      BY <1>4, <2>2 DEF DoneOf
    <3>2. Over(t) /\ NoneOf(muxq[m], t)
      BY <1>5, <3>1 DEF Flow, IntoMuxer
    <3>3. \A x : <<t, x>>[1] = t
      OBVIOUS
    <3> QED BY <1>5, <3>2, <3>3 DEF NoneOf, In
  <2> QED BY <2>1, <2>2
<1> QED BY <1>0, <1>5, <1>6, OverWritten

(* Every sender of a muxer is gone and its queue is empty *)
LEMMA SendersGone ==
  ASSUME MInv, PInv, CInv, Smooth, NEW m \in Muxers, mpc[m] = "run", muxq[m] = <<>>, MuxSendersGone(m), NEW t \in StreamsOf(m), t \in Used
  PROVE  AllWritten(t)
<1>0. Flags /\ TodoShape /\ Flows /\ Opened
  BY DEF CInv, Shape, AllFlow
<1>1. top.mux[t] = m /\ Flow(t) /\ t \in Streams /\ top.src[t] \in Demuxers
  BY <1>0, MuxqIs DEF StreamsOf, Flows, Alive, PInv
<1>2. started[m]
  BY <1>0 DEF MuxSendersGone, Opened
<1>3. Over(t)
  <2>1. CASE Encoded(t)
    BY <1>2, <2>1 DEF MuxSendersGone, Over, PInv, HandedOver
  <2>2. CASE ~Encoded(t)
    BY <1>0, <1>1, <2>2 DEF MuxSendersGone, Over, TodoShape
  <2> QED BY <2>1, <2>2
<1>4. \A x : ~In(muxq[top.mux[t]], <<t, x>>)
  BY <1>1, NothingIn
<1> QED BY <1>0, <1>1, <1>3, <1>4, OverWritten

LEMMA FinishedStep ==
  ASSUME MInv, PInv, CInv, Next
  PROVE  Finished'
<1> SUFFICES ASSUME Fine', NEW s \in Used', mpc'[top'.mux[s]] \in Past PROVE AllWritten(s)'
  BY DEF Finished, Past
<1>0. Shape /\ EndsLast
  BY DEF CInv
<1>1. ~StartFails
  BY DEF StartFails, Fine
<1>2. top' = top /\ s \in Used /\ s \in Streams /\ top.mux[s] \in Muxers
  <2>1. top' = top
    <3>1. CASE Start
      BY <3>1, Started
    <3>2. CASE ~Start
      BY <1>0, <1>1, <3>2, FineBefore
    <3> QED BY <3>1, <3>2
  <2>2. s \in Used
    BY <2>1 DEF Used
  <2> QED BY <2>1, <2>2, MuxqIs DEF PInv
<1> DEFINE m == top.mux[s]
<1>3. ~Start
  BY <1>2, Started DEF Past
<1>4. Fine
  BY <1>0, <1>1, <1>3, FineBefore
<1>5. AllWritten(s)
  <2>1. CASE mpc[m] \in Past
    BY <1>2, <1>4, <2>1 DEF CInv, Finished, Past
  <2>2. CASE mpc[m] \notin Past
    <3>1. mpc[m] = "run" /\ (MuxPacket(m) \/ MuxStreamEnd(m) \/ MuxLeave(m))
      BY <1>1, <1>2, <1>3, <2>2, IntoPast
    <3>2. Smooth /\ ~Stopping
      BY <1>0, <1>2, <1>4, <3>1, FineAlive DEF Alive
    <3>3. s \in StreamsOf(m)
      BY <1>2 DEF StreamsOf
    <3>4. ~MuxPacket(m)
      <4>1. ASSUME MuxPacket(m) PROVE faults' = faults + 1
        BY <1>2, <2>2, <4>1 DEF MuxPacket, Fault
      <4> QED BY <1>0, <4>1 DEF Fine, Shape, Told
    <3>5. CASE MuxStreamEnd(m)
      BY <1>2, <3>2, <3>3, <3>5, LastEnd
    <3>6. CASE MuxLeave(m)
      BY <1>2, <3>1, <3>2, <3>3, <3>6, SendersGone DEF MuxLeave
    <3> QED BY <3>1, <3>4, <3>5, <3>6
  <2> QED BY <2>1, <2>2
<1>6. \A x : In(written[s], x) => In(written'[s], x)
  BY <1>2, WrittenGrows
<1> QED BY <1>2, <1>5, <1>6 DEF AllWritten

-----------------------------------------------------------------------------
(* The completeness of what was written is an invariant *)
LEMMA CInvInit == Init => CInv
<1> SUFFICES ASSUME Init PROVE CInv
  OBVIOUS
<1> USE DEF Init, None
<1>1. top \in Jobs /\ client = "new" /\ ret = None /\ result = None /\ faults = 0
  OBVIOUS
<1>2. Flags /\ TodoShape
  BY DEF Flags, TodoShape
<1>3. Opened /\ Told
  BY DEF Opened, Told
<1>4. Fresh
  BY DEF Fresh
<1>5. ReadUpTo
  BY UsedIs DEF ReadUpTo
<1>6. ~Fine /\ ~Smooth
  BY <1>1 DEF Fine, Smooth
<1> QED BY <1>2, <1>3, <1>4, <1>5, <1>6 DEF CInv, Shape, EndsLast, AllFlow, EndsCounted, Finished

LEMMA CInvStutters ==
  ASSUME PInv, CInv, UNCHANGED vars
  PROVE  CInv'
<1> USE DEF vars, client_vars, demux_vars, dec_vars, fg_vars, enc_vars, pre_vars, ready_vars, mux_vars
<1>1. UNCHANGED <<top, status, result, counter, client, ret, faults, raced, rpc, mpc, started, nbdone>> /\ AllStill
  BY DEF AllStill
<1>2. (Smooth' <=> Smooth) /\ (Fine' <=> Fine) /\ (Stopping' <=> Stopping) /\ \A m : Alive(m)' <=> Alive(m)
  BY <1>1 DEF Smooth, Fine, Stopping, Alive
<1>3. Used' = Used /\ Left' = Left /\ \A m : DoneOf(m)' = DoneOf(m)
  BY <1>1 DEF Used, Left, DoneOf, StreamsOf, AllStill
<1>4. EndsLast' /\ EndsCounted'
  BY <1>1, <1>2, <1>3 DEF CInv, EndsLast, EndsCounted
<1>5. Finished'
  BY <1>1, <1>2, <1>3 DEF CInv, Finished, AllWritten, AllStill
<1>6. AllFlow'
  <2> SUFFICES ASSUME Smooth' PROVE Flows'
    BY DEF AllFlow
  <2>1. Going
    BY <1>1, <1>2, AliveGoes DEF Going, CInv
  <2> QED BY <1>1, <1>2, <2>1, StillFlows DEF CInv, AllFlow, PInv
<1>7. Shape'
  <2>1. Flags' /\ TodoShape' /\ ReadUpTo'
    BY <1>1 DEF AllStill, CInv, Shape, Flags, TodoShape, ReadUpTo
  <2>2. Opened' /\ Told'
    BY <1>1 DEF CInv, Shape, Opened, Told
  <2>3. Fresh'
    BY <1>1 DEF AllStill, CInv, Shape, Fresh
  <2> QED BY <2>1, <2>2, <2>3 DEF Shape
<1> QED BY <1>4, <1>5, <1>6, <1>7 DEF CInv

LEMMA CInvStep == MInv /\ PInv /\ CInv /\ [Next]_vars => CInv'
<1> SUFFICES ASSUME MInv, PInv, CInv, [Next]_vars PROVE CInv'
  OBVIOUS
<1>1. CASE UNCHANGED vars
  BY <1>1, CInvStutters
<1>2. CASE Next
  <2>1. Shape' /\ EndsLast'
    BY <1>2, ShapeStep, EndsLastStep DEF CInv
  <2> QED BY <1>2, <2>1, AllFlowStep, EndsCountedStep, FinishedStep DEF CInv
<1> QED BY <1>1, <1>2

(* A queue that rises to n and holds every number up to it has n elements *)
LEMMA RisesToLen ==
  ASSUME NEW n \in Nat, NEW q \in Seq(Nat \ {0}),
         \A i, j \in DOMAIN q : i < j => q[i] < q[j],
         \A i \in DOMAIN q : q[i] <= n,
         \A x \in 1 .. n : In(q, x)
  PROVE  Len(q) = n
<1> DEFINE k == Len(q)
<1>1. k \in Nat /\ DOMAIN q = 1 .. k /\ q \in [1 .. k -> Nat \ {0}]
  OBVIOUS
<1> HIDE DEF k
<1>2. q \in [1 .. k -> 1 .. n]
  BY <1>1
<1>3. \A i, j \in 1 .. k : q[i] = q[j] => i = j
  <2>1. \A i, j \in 1 .. k : i < j \/ j < i \/ i = j
    BY <1>1
  <2>2. \A i \in 1 .. k : q[i] \in Nat
    BY <1>2
  <2> QED BY <1>1, <2>1, <2>2
<1>4. q \in Injection(1 .. k, 1 .. n)
  BY <1>1, <1>2, <1>3 DEF Injection, IsInjective
<1>5. q \in Surjection(1 .. k, 1 .. n)
  BY <1>1, <1>2 DEF Surjection, In
<1>6. /\ IsFiniteSet(1 .. n) /\ Cardinality(1 .. n) = n /\ Cardinality(1 .. k) = k
  BY <1>1, FS_Interval
<1>7. Cardinality(1 .. k) = Cardinality(1 .. n)
  BY <1>4, <1>5, <1>6, FS_Injection
<1> QED BY <1>6, <1>7 DEF k

LEMMA CompleteIs == MInv /\ PInv /\ CInv => OkIsComplete
<1> SUFFICES ASSUME MInv, PInv, CInv, ret = "ok", faults = 0, ~raced, NEW s \in Used, header[top.mux[s]]
             PROVE  Len(written[s]) = top.last[s]
  BY DEF OkIsComplete
<1> DEFINE w == written[s]
<1>1. s \in Streams /\ top.mux[s] \in Muxers /\ top.last[s] \in Nat /\ w \in Seq(Nat \ {0}) /\ read[s] \in Nat
  BY MuxqIs, UsedIs DEF PInv, QueueTypes
<1>2. Fine
  BY DEF Fine, CInv, Shape, Told, None
<1>3. Left = {}
  BY <1>2 DEF CInv, EndsLast
<1>4. mpc[top.mux[s]] \in {"leave", "done"}
  BY <1>1, <1>3 DEF MInv, MuxTypes, MuxStages, Left
<1>5. \A x \in 1 .. top.last[s] : In(w, x)
  BY <1>2, <1>4 DEF CInv, Finished, AllWritten
<1>6. Rises(w) /\ Under(w, Coming(s))
  <2>1. Sorted(Line(s)) /\ 1 \in Places /\ 10 \in Places /\ 1 < 10
    BY DEF PInv, InOrder, Places
  <2>2. Rises(Line(s)[1]) /\ Under(Line(s)[1], Line(s)[10])
    BY <2>1 DEF Sorted
  <2> QED BY <2>2, LineAt
<1> HIDE DEF w
<1>7. \A i \in DOMAIN w : w[i] \in Nat /\ w[i] > 0
  BY <1>1
<1>8. \A i, j \in DOMAIN w : i < j => w[i] < w[j]
  BY <1>6, <1>7 DEF Rises
<1>9. \A i \in DOMAIN w : w[i] < read[s] + 1
  <2>1. 1 \in DOMAIN Coming(s) /\ Coming(s)[1] = read[s] + 1 /\ read[s] + 1 > 0
    BY <1>1 DEF Coming
  <2> QED BY <1>6, <1>7, <2>1 DEF Under
<1>10. read[s] <= top.last[s]
  BY <1>1 DEF CInv, Shape, ReadUpTo
<1>11. \A i \in DOMAIN w : w[i] <= top.last[s]
  BY <1>1, <1>7, <1>9, <1>10
<1>12. Len(w) = top.last[s]
  BY <1>1, <1>5, <1>8, <1>11, RisesToLen
<1> QED BY <1>12 DEF w

(* What a job wrote is right, for every job, every number of streams and   *)
(* muxers and every size of the queues: in order and without repetition,   *)
(* and, when wait reports success and nothing went wrong, complete.  No    *)
(* packet is lost in a queue that its thread leaves, none is overtaken by  *)
(* the end of its stream, and no muxer stops before it has all of them.    *)
THEOREM OutputCorrect == Spec => []OutputRight
<1>1. Init => Unused
  BY DEF Init, Unused
<1>2. MInv /\ PInv /\ CInv /\ Unused => OutputRight
  BY LineWritten, CompleteIs DEF OutputRight
<1> QED BY <1>1, <1>2, MInvInit, MInvStep, PInvInit, PInvStep, CInvInit, CInvStep, UnusedStep, PTL DEF Spec
=============================================================================
