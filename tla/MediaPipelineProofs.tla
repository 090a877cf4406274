------------------------ MODULE MediaPipelineProofs ------------------------
(***************************************************************************)
(* Proofs about MediaPipeline: the counter that the calls which end a job  *)
(* wait for, what they may rely on when they return, and the order of the  *)
(* packets in the files.                                                   *)
(***************************************************************************)
EXTENDS MediaPipeline, FiniteSetTheorems, NaturalsInduction, WellFoundedInduction, TLAPS

(* The muxers that still have something to do *)
Left == {m \in Muxers : \/ mpc[m] \in {"run", "trail", "count"}
                        \/ mpc[m] = "none" /\ rpc[m] \in {"wait", "open"}}

(* What the proofs below read of the state *)
MuxTypes ==
  /\ mpc \in [Muxers -> {"none", "run", "trail", "count", "leave", "done"}]
  /\ rpc \in [Muxers -> {"none", "wait", "open", "leave", "drain", "drop", "done"}]
  /\ header \in [Muxers -> BOOLEAN] /\ trailer \in [Muxers -> BOOLEAN]

(* A muxer is opened by one thread only, has a header as soon as it runs,  *)
(* and leaves with a trailer unless the client aborted.                    *)
MuxStages ==
  \A m \in Muxers :
    /\ client = "new" => mpc[m] = "none" /\ rpc[m] = "none"
    /\ rpc[m] \in {"wait", "open"} => mpc[m] = "none"
    /\ header[m] <=> mpc[m] # "none"
    /\ mpc[m] \in {"count", "leave", "done"} => trailer[m] \/ ret = "aborted"

Aborts == /\ status = "abort" => ret = "aborted"
          /\ ret = "aborted" => client \in {"drop", "dropping", "returned"}

Counts == /\ client \notin {"new", "failed"} => counter = Cardinality(Left)
          /\ client = "returned" => Left = {}

MInv == MuxTypes /\ MuxStages /\ Aborts /\ Counts

LEMMA LeftFinite == IsFiniteSet(Left) /\ Cardinality(Left) \in Nat
BY MuxersFinite, FS_Subset, FS_CardinalityType DEF Left

LEMMA MInvInit == Init => MInv
BY DEF Init, MInv, MuxTypes, MuxStages, Aborts, Counts, None

(* A step that touches neither the muxers and their opening threads nor    *)
(* the client.                                                             *)
Quiet == /\ UNCHANGED <<mpc, rpc, header, trailer, counter, client, ret>>
         /\ status' \in {status, "end"}

LEMMA QuietStep ==
  ASSUME MInv, Quiet
  PROVE  MInv'
BY DEF MInv, MuxTypes, MuxStages, Aborts, Counts, Left, Quiet

LEMMA SetErrorStatus ==
  ASSUME NEW e, SetError(e)
  PROVE  status' \in {status, "end"}
BY DEF SetError

(* Demuxers, decoders, filter graphs and encoders are quiet *)
LEMMA FeederStep ==
  ASSUME \/ \E d \in Demuxers : Demux(d) \/ DemuxFail(d)
         \/ \E s \in Streams : Dec(s) \/ Fg(s) \/ Enc(s)
  PROVE  Quiet
<1>1. ASSUME NEW d \in Demuxers, Demux(d) \/ DemuxFail(d) PROVE Quiet
  BY <1>1, SetErrorStatus DEF Quiet, Demux, DemuxRead, DemuxStop, DemuxEof, DemuxFail, DemuxWake, DemuxSend,
     client_vars, ready_vars, mux_vars
<1>2. ASSUME NEW s \in Streams, Dec(s) PROVE Quiet
  BY <1>2, SetErrorStatus DEF Quiet, Dec, DecRecv, DecLeave, DecEnd, client_vars, ready_vars, mux_vars
<1>3. ASSUME NEW s \in Streams, Fg(s) PROVE Quiet
  BY <1>3, SetErrorStatus DEF Quiet, Fg, FgRecv, FgLeave, FgEnd, client_vars, ready_vars, mux_vars
<1>4. ASSUME NEW s \in Streams, Enc(s) PROVE Quiet
  BY <1>4, SetErrorStatus DEF Quiet, Enc, EncOpen, EncRecv, EncLeave, EncSend, EncSent, EncSendFails,
     client_vars, ready_vars, mux_vars
<1> QED BY <1>1, <1>2, <1>3, <1>4

(* A muxer that is done is counted down once *)
LEMMA CountDown ==
  ASSUME MInv, counter' = counter - 1, client' = client,
         NEW m \in Left, Left' = Left \ {m}
  PROVE  Counts'
<1>1. Cardinality(Left \ {m}) = Cardinality(Left) - 1 BY LeftFinite, FS_RemoveElement
<1> QED BY <1>1 DEF MInv, Counts

(* The threads that open muxers *)
LEMMA ReadyStep ==
  ASSUME MInv, NEW m \in Muxers, ReadyThread(m) \/ ReadyOpenFails(m)
  PROVE  MInv'
<1> USE DEF MInv, client_vars, ready_vars, mux_vars
<1>1. ASSUME ReadyRecv(m) \/ DrainMove(m) \/ DrainDrop(m) \/ DrainDone(m) \/ ReadyEnd(m)
      PROVE  MInv'
  <2>1. /\ rpc[m] \in {"wait", "drain", "drop", "leave"}
        /\ \E x \in {"wait", "open", "drain", "drop", "done"} :
             /\ rpc' = [rpc EXCEPT ![m] = x]
             /\ rpc[m] = "wait" <=> x \in {"wait", "open"}
        /\ UNCHANGED <<mpc, header, trailer, counter, client, ret>>
        /\ status' \in {status, "end"}
    BY <1>1 DEF MuxTypes, ReadyRecv, DrainMove, DrainDrop, DrainDone, ReadyEnd
  <2>2. Left' = Left
    BY <2>1 DEF MuxTypes, Left
  <2>3. MuxTypes' /\ MuxStages' /\ Aborts'
    BY <2>1 DEF MuxTypes, MuxStages, Aborts
  <2> QED BY <2>1, <2>2, <2>3 DEF Counts
<1>2. ASSUME ReadyStop(m) \/ ReadyGone(m) \/ ReadyOpenFails(m)
      PROVE  MInv'
  <2>1. /\ rpc[m] \in {"wait", "open"}
        /\ \E x \in {"leave", "done"} : rpc' = [rpc EXCEPT ![m] = x]
        /\ counter' = counter - 1
        /\ UNCHANGED <<mpc, header, trailer, client, ret, status>>
    BY <1>2 DEF ReadyStop, ReadyGone, ReadyOpenFails, thread_done
  <2>2. m \in Left /\ Left' = Left \ {m}
    BY <2>1 DEF MuxTypes, MuxStages, Left
  <2>3. MuxTypes' /\ MuxStages' /\ Aborts'
    BY <2>1 DEF MuxTypes, MuxStages, Aborts
  <2> QED BY <2>1, <2>2, <2>3, CountDown
<1>3. ASSUME ReadyOpen(m)
      PROVE  MInv'
  <2>1. /\ rpc[m] = "open" /\ rpc' = [rpc EXCEPT ![m] = "drain"]
        /\ mpc' = [mpc EXCEPT ![m] = "run"] /\ header' = [header EXCEPT ![m] = TRUE]
        /\ UNCHANGED <<trailer, counter, client, ret, status>>
    BY <1>3 DEF ReadyOpen
  <2>2. Left' = Left
    BY <2>1 DEF MuxTypes, MuxStages, Left
  <2>3. MuxTypes' /\ MuxStages' /\ Aborts'
    BY <2>1 DEF MuxTypes, MuxStages, Aborts
  <2> QED BY <2>1, <2>2, <2>3 DEF Counts
<1> QED BY <1>1, <1>2, <1>3 DEF ReadyThread

(* The muxers *)
LEMMA MuxStep ==
  ASSUME MInv, NEW m \in Muxers, Mux(m)
  PROVE  MInv'
<1> USE DEF MInv, client_vars, ready_vars, mux_vars
<1>1. ASSUME MuxPacket(m) \/ MuxStreamEnd(m) \/ MuxLeave(m)
      PROVE  MInv'
  <2>1. /\ mpc[m] = "run"
        /\ \E x \in {"run", "trail"} : mpc' = [mpc EXCEPT ![m] = x]
        /\ UNCHANGED <<rpc, header, trailer, counter, client, ret>>
        /\ status' \in {status, "end"}
    BY <1>1, SetErrorStatus DEF MuxTypes, MuxPacket, MuxStreamEnd, MuxLeave
  <2>2. Left' = Left
    BY <2>1 DEF MuxTypes, Left
  <2>3. MuxTypes' /\ MuxStages' /\ Aborts'
    BY <2>1 DEF MuxTypes, MuxStages, Aborts
  <2> QED BY <2>1, <2>2, <2>3 DEF Counts
<1>2. ASSUME MuxTrailer(m)
      PROVE  MInv'
  <2>1. /\ mpc[m] = "trail" /\ mpc' = [mpc EXCEPT ![m] = "count"]
        /\ UNCHANGED <<rpc, header, counter, client, ret>>
        /\ status' \in {status, "end"}
        /\ \/ status = "abort" /\ trailer' = trailer
           \/ trailer' = [trailer EXCEPT ![m] = TRUE]
    BY <1>2, SetErrorStatus DEF MuxTrailer
  <2>2. Left' = Left
    BY <2>1 DEF MuxTypes, Left
  <2>3. MuxTypes' /\ Aborts'
    BY <2>1 DEF MuxTypes, Aborts
  <2>4. MuxStages'
    BY <2>1 DEF MuxTypes, MuxStages, Aborts
  <2> QED BY <2>1, <2>2, <2>3, <2>4 DEF Counts
<1>3. ASSUME MuxCount(m)
      PROVE  MInv'
  <2>1. /\ mpc[m] = "count" /\ mpc' = [mpc EXCEPT ![m] = "leave"]
        /\ counter' = counter - 1
        /\ UNCHANGED <<rpc, header, trailer, client, ret, status>>
    BY <1>3 DEF MuxCount, thread_done
  <2>2. m \in Left /\ Left' = Left \ {m}
    BY <2>1 DEF MuxTypes, MuxStages, Left
  <2>3. MuxTypes' /\ MuxStages' /\ Aborts'
    BY <2>1 DEF MuxTypes, MuxStages, Aborts
  <2> QED BY <2>1, <2>2, <2>3, CountDown
<1>4. ASSUME MuxEnd(m)
      PROVE  MInv'
  <2>1. /\ mpc[m] = "leave" /\ mpc' = [mpc EXCEPT ![m] = "done"]
        /\ UNCHANGED <<rpc, header, trailer, counter, client, ret>>
        /\ status' \in {status, "end"}
    BY <1>4 DEF MuxEnd
  <2>2. Left' = Left
    BY <2>1 DEF MuxTypes, Left
  <2>3. MuxTypes' /\ MuxStages' /\ Aborts'
    BY <2>1 DEF MuxTypes, MuxStages, Aborts
  <2> QED BY <2>1, <2>2, <2>3 DEF Counts
<1> QED BY <1>1, <1>2, <1>3, <1>4 DEF Mux

(* Starting the job: the counter is the number of outputs *)
LEMMA StartStep ==
  ASSUME MInv, Start \/ StartFails
  PROVE  MInv'
<1> USE DEF MInv
<1>1. ASSUME NEW ms \in SUBSET Muxers, NEW ph, Spawn(ms, ph), client = "new",
             client' \in {"running", "failed"}, status' # "abort", ret' # "aborted"
      PROVE  MuxTypes' /\ MuxStages' /\ Aborts'
  <2>1. /\ mpc' = [m \in Muxers |-> IF m \in {x \in ms : Ready(x)} THEN "run" ELSE "none"]
        /\ header' = [m \in Muxers |-> m \in {x \in ms : Ready(x)}]
        /\ rpc' = [m \in Muxers |-> IF /\ PhaseNo["enc"] <= PhaseNo[ph]
                                       /\ m \in ms /\ ~Ready(m) THEN "wait" ELSE "done"]
        /\ trailer' = trailer
    BY <1>1 DEF Spawn
  <2>2. MuxTypes' BY <2>1 DEF MuxTypes
  <2>3. MuxStages' BY <1>1, <2>1 DEF MuxStages
  <2>4. Aborts' BY <1>1 DEF Aborts
  <2> QED BY <2>2, <2>3, <2>4
<1>2. ret # "aborted" \/ client # "new"
  BY DEF Aborts
<1>3. CASE Start
  <2>1. Outputs \in SUBSET Muxers BY DEF Outputs
  <2>2. MuxTypes' /\ MuxStages' /\ Aborts'
    BY <1>1, <1>2, <1>3, <2>1 DEF Start
  <2>3. Left' = Outputs
    BY <1>3, <2>1 DEF Start, Spawn, Left, Ready, PhaseNo
  <2> QED BY <1>3, <2>2, <2>3 DEF Start, Counts
<1>4. CASE StartFails
  <2>1. Outputs \in SUBSET Muxers BY DEF Outputs
  <2>2. \E ms \in SUBSET Muxers, ph \in {"mux", "enc", "fg", "dec"} : Spawn(ms, ph)
    BY <1>4, <2>1 DEF StartFails
  <2>3. MuxTypes' /\ MuxStages' /\ Aborts'
    BY <1>1, <1>4, <2>2 DEF StartFails
  <2> QED BY <1>4, <2>3 DEF StartFails, Counts
<1> QED BY <1>3, <1>4

(* The other steps of the client; only the drop of the guard returns *)
LEMMA ClientStep ==
  ASSUME MInv, ClientCalls \/ ClientGoesOn
  PROVE  MInv'
<1> USE DEF MInv
<1>1. CASE Start \/ StartFails BY <1>1, StartStep
<1>2. CASE ~(Start \/ StartFails)
  <2>1. /\ UNCHANGED <<counter, mpc, rpc, header, trailer>>
        /\ client \notin {"new", "failed"} /\ client' \notin {"new", "failed"}
        /\ client' = "returned" => counter = 0
        /\ status' = "abort" => ret' = "aborted"
        /\ ret' = "aborted" => client' \in {"drop", "dropping", "returned"}
        /\ ret = "aborted" => ret' = "aborted"
    <3> USE <1>2 DEF ClientOnly, thread_vars, ready_vars, mux_vars, Aborts
    <3>1. CASE Pause \/ PauseStore \/ Resume \/ ResumeStore BY <3>1 DEF Pause, PauseStore, Resume, ResumeStore
    <3>2. CASE Wait \/ Joined \/ Poll \/ PollArm \/ PollWoken BY <3>2 DEF Wait, Joined, Poll, PollArm, PollWoken
    <3>3. CASE Stop \/ Stopped \/ Abort BY <3>3 DEF Stop, Stopped, Abort
    <3>4. CASE Drop \/ Dropped BY <3>4 DEF Drop, Dropped
    <3>5. CASE TakeResult BY <3>5 DEF TakeResult
    <3> QED BY <3>1, <3>2, <3>3, <3>4, <3>5 DEF ClientCalls, ClientGoesOn
  <2>2. Left' = Left
    BY <2>1 DEF Left
  <2>3. MuxTypes' /\ MuxStages' /\ Aborts'
    BY <2>1 DEF MuxTypes, MuxStages, Aborts
  <2>4. counter = 0 => Left = {}
    BY <2>1, LeftFinite, FS_EmptySet DEF Counts
  <2> QED BY <2>1, <2>2, <2>3, <2>4 DEF Counts
<1> QED BY <1>1, <1>2

LEMMA MInvStep == MInv /\ [Next]_vars => MInv'
<1> SUFFICES ASSUME MInv, [Next]_vars PROVE MInv' OBVIOUS
<1>1. CASE UNCHANGED vars
  BY <1>1, QuietStep DEF Quiet, vars, client_vars, ready_vars, mux_vars
<1>2. CASE Next
  BY <1>2, QuietStep, FeederStep, ReadyStep, MuxStep, ClientStep DEF Next, Threads
<1> QED BY <1>1, <1>2

LEMMA MInvAlways == Spec => []MInv
BY MInvInit, MInvStep, PTL DEF Spec

(* wait, stop and drop wait for exactly the muxers that are not done: no   *)
(* interleaving of the opening threads, the muxers and the client counts   *)
(* a muxer twice or forgets one, for any job and any number of outputs.    *)
THEOREM CounterCorrect == Spec => []CounterIsMuxersLeft
<1>1. MInv => CounterIsMuxersLeft BY DEF MInv, Counts, CounterIsMuxersLeft, Left
<1> QED BY <1>1, MInvAlways, PTL

(* When the guard of a job is dropped no thread works on an output any     *)
(* more and every file that was begun is closed, unless the client aborted.*)
THEOREM FinalizedCorrect == Spec => []FinalizedOnReturn
<1>1. MInv => FinalizedOnReturn
  BY DEF MInv, MuxTypes, MuxStages, Counts, FinalizedOnReturn, Left
<1> QED BY <1>1, MInvAlways, PTL
-----------------------------------------------------------------------------
(* Queues that packets pass through one after the other.  Only the numbers *)
(* above 0 in them are packets.                                            *)

Rises(q) == \A i, j \in DOMAIN q : i < j /\ q[i] > 0 /\ q[j] > 0 => q[i] < q[j]
Under(p, q) == \A i \in DOMAIN p, j \in DOMAIN q : p[i] > 0 /\ q[j] > 0 => p[i] < q[j]

Places == 1 .. 10
IsLine(l) == \A k \in Places : l[k] \in Seq(Int)
Sorted(l) == /\ \A k \in Places : Rises(l[k])
             /\ \A j, k \in Places : j < k => Under(l[j], l[k])
Ok(l) == IsLine(l) /\ Sorted(l)
On(l, x) == \E k \in Places : \E i \in DOMAIN l[k] : l[k][i] = x

LEMMA TailFacts ==
  ASSUME NEW q \in Seq(Int), q # <<>>
  PROVE  /\ Tail(q) \in Seq(Int) /\ Head(q) \in Int /\ 1 \in DOMAIN q /\ q[1] = Head(q)
         /\ \A i \in DOMAIN Tail(q) : i + 1 \in DOMAIN q /\ Tail(q)[i] = q[i + 1] /\ i \in Nat \ {0}
         /\ \A i \in DOMAIN q : i \in Nat \ {0} /\ (i # 1 => i - 1 \in DOMAIN Tail(q) /\ Tail(q)[i - 1] = q[i])
OBVIOUS

LEMMA AppendFacts ==
  ASSUME NEW q \in Seq(Int), NEW x \in Int
  PROVE  /\ Append(q, x) \in Seq(Int) /\ Len(q) + 1 \in DOMAIN Append(q, x) /\ Append(q, x)[Len(q) + 1] = x
         /\ \A i \in DOMAIN q : i \in Nat \ {0} /\ i < Len(q) + 1 /\ i \in DOMAIN Append(q, x) /\ Append(q, x)[i] = q[i]
         /\ \A i \in DOMAIN Append(q, x) : i = Len(q) + 1 \/ i \in DOMAIN q
         /\ Len(q) \in Nat
OBVIOUS

\* Less in a queue, or something in it that is no packet
Less(q2, q) == \/ q2 = q \/ q2 = <<>>
               \/ q # <<>> /\ q2 = Tail(q)
               \/ \E x \in Int : x <= 0 /\ q2 \in {Append(q, x), <<x>>}

LEMMA LessFacts ==
  ASSUME NEW q \in Seq(Int), NEW q2, Less(q2, q)
  PROVE  /\ q2 \in Seq(Int)
         /\ \A i \in DOMAIN q2 : i \in Nat /\ q2[i] \in Int
         /\ \E off \in {0, 1} : \A i \in DOMAIN q2 : q2[i] > 0 => i + off \in DOMAIN q /\ q2[i] = q[i + off]
<1>1. CASE q2 = q
  <2>1. \A i \in DOMAIN q2 : q2[i] > 0 => i + 0 \in DOMAIN q /\ q2[i] = q[i + 0]
    BY <1>1
  <2> QED BY <1>1, <2>1
<1>2. CASE q2 = <<>>
  BY <1>2
<1>3. CASE q # <<>> /\ q2 = Tail(q)
  <2>1. \A i \in DOMAIN q2 : q2[i] > 0 => i + 1 \in DOMAIN q /\ q2[i] = q[i + 1]
    BY <1>3, TailFacts
  <2> QED BY <1>3, <2>1, TailFacts
<1>5. ASSUME NEW x \in Int, x <= 0, q2 = <<x>>
      PROVE  /\ q2 \in Seq(Int)
             /\ \A i \in DOMAIN q2 : i \in Nat /\ q2[i] \in Int
             /\ \E off \in {0, 1} : \A i \in DOMAIN q2 : q2[i] > 0 => i + off \in DOMAIN q /\ q2[i] = q[i + off]
  BY <1>5
<1>4. ASSUME NEW x \in Int, x <= 0, q2 = Append(q, x)
      PROVE  /\ q2 \in Seq(Int)
             /\ \A i \in DOMAIN q2 : i \in Nat /\ q2[i] \in Int
             /\ \E off \in {0, 1} : \A i \in DOMAIN q2 : q2[i] > 0 => i + off \in DOMAIN q /\ q2[i] = q[i + off]
  <2>1. \A i \in DOMAIN q2 : q2[i] > 0 => i + 0 \in DOMAIN q /\ q2[i] = q[i + 0]
    BY <1>4, AppendFacts
  <2> QED BY <1>4, <2>1, AppendFacts
<1> QED BY <1>1, <1>2, <1>3, <1>4, <1>5 DEF Less

LEMMA LineLess ==
  ASSUME NEW l, NEW l2, IsLine(l), Sorted(l), \A k \in Places : Less(l2[k], l[k])
  PROVE  IsLine(l2) /\ Sorted(l2)
<1>1. IsLine(l2)
  BY LessFacts DEF IsLine
<1>2. ASSUME NEW k \in Places PROVE Rises(l2[k])
  <2>1. l[k] \in Seq(Int) /\ Less(l2[k], l[k]) /\ Rises(l[k])
    BY DEF IsLine, Sorted
  <2>2. PICK off \in {0, 1} : \A i \in DOMAIN l2[k] : l2[k][i] > 0 => i + off \in DOMAIN l[k] /\ l2[k][i] = l[k][i + off]
    BY <2>1, LessFacts
  <2>3. \A i \in DOMAIN l2[k] : i \in Nat
    BY <2>1, LessFacts
  <2> QED BY <2>1, <2>2, <2>3 DEF Rises
<1>3. ASSUME NEW j \in Places, NEW k \in Places, j < k PROVE Under(l2[j], l2[k])
  <2>1. l[k] \in Seq(Int) /\ Less(l2[k], l[k]) /\ l[j] \in Seq(Int) /\ Less(l2[j], l[j]) /\ Under(l[j], l[k])
    BY <1>3 DEF IsLine, Sorted
  <2>2. PICK off \in {0, 1} : \A i \in DOMAIN l2[k] : l2[k][i] > 0 => i + off \in DOMAIN l[k] /\ l2[k][i] = l[k][i + off]
    BY <2>1, LessFacts
  <2>3. PICK of2 \in {0, 1} : \A i \in DOMAIN l2[j] : l2[j][i] > 0 => i + of2 \in DOMAIN l[j] /\ l2[j][i] = l[j][i + of2]
    BY <2>1, LessFacts
  <2> QED BY <2>1, <2>2, <2>3 DEF Under
<1> QED BY <1>1, <1>2, <1>3 DEF Sorted

(* The first of place b goes to the end of place a, with nothing between *)
Moved(l, l2, b, a) ==
  /\ a < b /\ l[b] # <<>>
  /\ l2[b] = Tail(l[b]) /\ l2[a] = Append(l[a], Head(l[b]))
  /\ \A k \in Places \ {a, b} : l2[k] = l[k]
  /\ \A k \in Places : a < k /\ k < b => l[k] = <<>>

PairOk(p, q, p2, q2) ==
  /\ p2 \in Seq(Int) /\ q2 \in Seq(Int) /\ Rises(p2) /\ Rises(q2) /\ Under(p2, q2)
  /\ \A r \in Seq(Int) : Under(r, p) /\ Under(r, q) => Under(r, p2) /\ Under(r, q2)
  /\ \A r \in Seq(Int) : Under(p, r) /\ Under(q, r) => Under(p2, r) /\ Under(q2, r)
  /\ \A i \in DOMAIN p : i \in DOMAIN p2 /\ p2[i] = p[i]
  /\ \A i \in DOMAIN q : (i - 1 \in DOMAIN q2 /\ q2[i - 1] = q[i]) \/ (Len(p) + 1 \in DOMAIN p2 /\ p2[Len(p) + 1] = q[i])

LEMMA PairMoved ==
  ASSUME NEW p \in Seq(Int), NEW q \in Seq(Int), q # <<>>, Rises(p), Rises(q), Under(p, q)
  PROVE  PairOk(p, q, Append(p, Head(q)), Tail(q))
<1> DEFINE p2 == Append(p, Head(q))
           q2 == Tail(q)
<1> DEFINE x == Head(q)
           n == Len(p) + 1
<1>1. /\ p2 \in Seq(Int) /\ n \in DOMAIN p2 /\ p2[n] = x /\ x \in Int /\ n \in Nat
      /\ \A i \in DOMAIN p : i \in Nat /\ i < n /\ i \in DOMAIN p2 /\ p2[i] = p[i]
      /\ \A i \in DOMAIN p2 : i = n \/ i \in DOMAIN p
  BY AppendFacts, TailFacts
<1>2. /\ q2 \in Seq(Int) /\ 1 \in DOMAIN q /\ q[1] = x
      /\ \A i \in DOMAIN q2 : i + 1 \in DOMAIN q /\ q2[i] = q[i + 1] /\ i \in Nat \ {0}
      /\ \A i \in DOMAIN q : i \in Nat \ {0} /\ (i # 1 => i - 1 \in DOMAIN q2 /\ q2[i - 1] = q[i])
  BY TailFacts
<1>3. /\ \A i \in DOMAIN p : p[i] \in Int
      /\ \A i \in DOMAIN q : q[i] \in Int
  OBVIOUS
<1> HIDE DEF x, n, p2, q2
<1>4. \A i \in DOMAIN p : p[i] > 0 /\ x > 0 => p[i] < x
  BY <1>2 DEF Under
<1>5. \A i \in DOMAIN q2 : q2[i] > 0 /\ x > 0 => x < q2[i]
  BY <1>2 DEF Rises
<1>6. Rises(p2)
  <2> SUFFICES ASSUME NEW i \in DOMAIN p2, NEW j \in DOMAIN p2, i < j, p2[i] > 0, p2[j] > 0 PROVE p2[i] < p2[j]
    BY DEF Rises
  <2>0. j \in Nat /\ j <= n
    BY <1>1
  <2>1. i \in DOMAIN p /\ p2[i] = p[i]
    <3>1. i # n
      BY <1>1, <2>0
    <3> QED BY <1>1, <3>1
  <2>2. CASE j = n
    BY <1>1, <1>4, <2>1, <2>2
  <2>3. CASE j \in DOMAIN p
    BY <1>1, <2>1, <2>3 DEF Rises
  <2> QED BY <1>1, <2>2, <2>3
<1>7. Rises(q2)
  BY <1>2 DEF Rises
<1>8. Under(p2, q2)
  <2> SUFFICES ASSUME NEW i \in DOMAIN p2, NEW j \in DOMAIN q2, p2[i] > 0, q2[j] > 0 PROVE p2[i] < q2[j]
    BY DEF Under
  <2>1. CASE i = n
    BY <1>1, <1>5, <2>1
  <2>2. CASE i \in DOMAIN p
    BY <1>1, <1>2, <2>2 DEF Under
  <2> QED BY <1>1, <2>1, <2>2
<1>9. ASSUME NEW r \in Seq(Int), Under(r, p), Under(r, q) PROVE Under(r, p2) /\ Under(r, q2)
  <2>1. ASSUME NEW i \in DOMAIN r, NEW j \in DOMAIN p2, r[i] > 0, p2[j] > 0 PROVE r[i] < p2[j]
    <3>1. CASE j = n
      BY <1>1, <1>2, <1>9, <2>1, <3>1 DEF Under
    <3>2. CASE j \in DOMAIN p
      BY <1>1, <1>9, <2>1, <3>2 DEF Under
    <3> QED BY <1>1, <3>1, <3>2
  <2>2. \A i \in DOMAIN r, j \in DOMAIN q2 : r[i] > 0 /\ q2[j] > 0 => r[i] < q2[j]
    BY <1>2, <1>9 DEF Under
  <2> QED BY <2>1, <2>2 DEF Under
<1>10. ASSUME NEW r \in Seq(Int), Under(p, r), Under(q, r) PROVE Under(p2, r) /\ Under(q2, r)
  <2>1. ASSUME NEW i \in DOMAIN r, NEW j \in DOMAIN p2, r[i] > 0, p2[j] > 0 PROVE p2[j] < r[i]
    <3>1. CASE j = n
      BY <1>1, <1>2, <1>10, <2>1, <3>1 DEF Under
    <3>2. CASE j \in DOMAIN p
      BY <1>1, <1>10, <2>1, <3>2 DEF Under
    <3> QED BY <1>1, <3>1, <3>2
  <2>2. \A i \in DOMAIN r, j \in DOMAIN q2 : r[i] > 0 /\ q2[j] > 0 => q2[j] < r[i]
    BY <1>2, <1>10 DEF Under
  <2> QED BY <2>1, <2>2 DEF Under
<1>11. \A i \in DOMAIN q : (i - 1 \in DOMAIN q2 /\ q2[i - 1] = q[i]) \/ (n \in DOMAIN p2 /\ p2[n] = q[i])
  BY <1>1, <1>2
<1> QED BY <1>1, <1>2, <1>6, <1>7, <1>8, <1>9, <1>10, <1>11 DEF n, PairOk, p2, q2

LEMMA LineMoved ==
  ASSUME NEW l, NEW l2, IsLine(l), Sorted(l), NEW a \in Places, NEW b \in Places, Moved(l, l2, b, a)
  PROVE  IsLine(l2) /\ Sorted(l2) /\ \A x : On(l, x) => On(l2, x)
<1>1. \A k \in Places : l[k] \in Seq(Int) /\ (k \notin {a, b} => l2[k] = l[k]) /\ (a < k /\ k < b => l[k] = <<>>)
  BY DEF Moved, IsLine
<1>2. /\ l[a] \in Seq(Int) /\ l[b] \in Seq(Int) /\ l[b] # <<>> /\ a < b /\ l2[a] = Append(l[a], Head(l[b]))
      /\ l2[b] = Tail(l[b]) /\ Rises(l[a]) /\ Rises(l[b]) /\ Under(l[a], l[b])
  BY DEF Moved, IsLine, Sorted
<1>3. /\ l2[a] \in Seq(Int) /\ l2[b] \in Seq(Int) /\ Rises(l2[a]) /\ Rises(l2[b]) /\ Under(l2[a], l2[b])
      /\ \A r \in Seq(Int) : Under(r, l[a]) /\ Under(r, l[b]) => Under(r, l2[a]) /\ Under(r, l2[b])
      /\ \A r \in Seq(Int) : Under(l[a], r) /\ Under(l[b], r) => Under(l2[a], r) /\ Under(l2[b], r)
      /\ \A i \in DOMAIN l[a] : i \in DOMAIN l2[a] /\ l2[a][i] = l[a][i]
      /\ \A i \in DOMAIN l[b] : (i - 1 \in DOMAIN l2[b] /\ l2[b][i - 1] = l[b][i]) \/ (Len(l[a]) + 1 \in DOMAIN l2[a] /\ l2[a][Len(l[a]) + 1] = l[b][i])
  <2>1. PairOk(l[a], l[b], l2[a], l2[b])
    BY <1>2, PairMoved
  <2> QED BY <2>1 DEF PairOk
<1>4. IsLine(l2)
  BY <1>1, <1>3 DEF IsLine
<1>8. ASSUME NEW k \in Places PROVE Rises(l2[k])
  BY <1>1, <1>3 DEF Sorted
<1>9. ASSUME NEW j \in Places, NEW k \in Places, j < k PROVE Under(l2[j], l2[k])
  <2>1. CASE {j, k} \cap {a, b} = {}
    BY <1>1, <1>9, <2>1 DEF Sorted
  <2>2. CASE j = a /\ k = b
    BY <1>3, <2>2
  <2>3. CASE (l[j] = <<>> /\ j \notin {a, b}) \/ (l[k] = <<>> /\ k \notin {a, b})
    <3>1. l2[j] = <<>> \/ l2[k] = <<>>
      BY <1>1, <2>3
    <3> QED BY <3>1 DEF Under
  <2>4. CASE k \in {a, b} /\ j < a
    <3>0. j < b /\ j \notin {a, b}
      BY <1>2, <2>4 DEF Places
    <3>1. l2[j] = l[j] /\ Under(l[j], l[a]) /\ Under(l[j], l[b])
      BY <1>1, <2>4, <3>0 DEF Sorted
    <3> QED BY <1>1, <1>3, <2>4, <3>1
  <2>5. CASE j \in {a, b} /\ k > b
    <3>0. a < k /\ b < k /\ k \notin {a, b}
      BY <1>2, <2>5 DEF Places
    <3>1. l2[k] = l[k] /\ Under(l[a], l[k]) /\ Under(l[b], l[k])
      BY <1>1, <2>5, <3>0 DEF Sorted
    <3> QED BY <1>1, <1>3, <2>5, <3>1
  <2>6. \/ {j, k} \cap {a, b} = {} \/ (j = a /\ k = b) \/ (k \in {a, b} /\ j < a) \/ (j \in {a, b} /\ k > b)
        \/ (j \notin {a, b} /\ a < j /\ j < b) \/ (k \notin {a, b} /\ a < k /\ k < b)
    BY <1>2, <1>9 DEF Places
  <2> QED BY <1>1, <2>1, <2>2, <2>3, <2>4, <2>5, <2>6
<1>10. ASSUME NEW y, On(l, y) PROVE On(l2, y)
  <2>0. PICK k \in Places : \E i \in DOMAIN l[k] : l[k][i] = y
    BY <1>10 DEF On
  <2>1. PICK i \in DOMAIN l[k] : l[k][i] = y
    BY <2>0
  <2>2. CASE k \notin {a, b}
    <3>1. l2[k] = l[k]
      BY <1>1, <2>2
    <3> QED BY <2>1, <3>1 DEF On
  <2>3. CASE k = a
    <3>1. i \in DOMAIN l2[a] /\ l2[a][i] = y
      BY <1>3, <2>1, <2>3
    <3> QED BY <3>1 DEF On
  <2>4. CASE k = b
    <3>1. (i - 1 \in DOMAIN l2[b] /\ l2[b][i - 1] = y) \/ (Len(l[a]) + 1 \in DOMAIN l2[a] /\ l2[a][Len(l[a]) + 1] = y)
      BY <1>3, <2>1, <2>4
    <3> QED BY <3>1 DEF On
  <2> QED BY <2>2, <2>3, <2>4
<1> QED BY <1>4, <1>8, <1>9, <1>10 DEF Sorted

\* The next packet is read: it was the one to come.
LEMMA LineRead ==
  ASSUME NEW l, NEW l2, IsLine(l), Sorted(l), NEW x \in Nat, l[10] = <<x + 1>>,
         l2[10] = <<x + 2>>, l2[9] = <<x + 1>>, \A k \in 1 .. 8 : l2[k] = l[k]
  PROVE  IsLine(l2) /\ Sorted(l2)
<1>0. 9 \in Places /\ 10 \in Places /\ \A k \in Places : k \in 1 .. 8 \/ k = 9 \/ k = 10
  BY DEF Places
<1>1. \A k \in 1 .. 8 : l2[k] = l[k] /\ k \in Places /\ k < 10
  BY DEF Places
<1>2. IsLine(l2)
  <2>1. <<x + 1>> \in Seq(Int) /\ <<x + 2>> \in Seq(Int)
    OBVIOUS
  <2> QED BY <1>0, <1>1, <2>1 DEF IsLine
<1>3. \A k \in 1 .. 8 : \A i \in DOMAIN l[k] : l[k][i] > 0 => l[k][i] < x + 1 /\ l[k][i] \in Int
  <2> SUFFICES ASSUME NEW k \in 1 .. 8, NEW i \in DOMAIN l[k], l[k][i] > 0 PROVE l[k][i] < x + 1 /\ l[k][i] \in Int
    OBVIOUS
  <2>1. Under(l[k], l[10]) /\ l[k] \in Seq(Int)
    BY <1>0, <1>1 DEF Sorted, IsLine
  <2>2. 1 \in DOMAIN l[10] /\ l[10][1] = x + 1 /\ x + 1 > 0
    OBVIOUS
  <2>3. l[k][i] < l[10][1]
    BY <2>1, <2>2 DEF Under
  <2> QED BY <2>1, <2>2, <2>3
<1>4. ASSUME NEW k \in Places PROVE Rises(l2[k])
  <2>1. CASE k \in 1 .. 8
    BY <1>1, <2>1 DEF Sorted
  <2>2. CASE k = 9 \/ k = 10
    BY <2>2 DEF Rises
  <2> QED BY <1>0, <2>1, <2>2
<1>5. ASSUME NEW j \in Places, NEW k \in Places, j < k PROVE Under(l2[j], l2[k])
  <2>1. CASE k \in 1 .. 8
    <3>1. j \in 1 .. 8
      BY <1>5, <2>1 DEF Places
    <3> QED BY <1>1, <1>5, <2>1, <3>1 DEF Sorted
  <2>2. CASE k \in {9, 10} /\ j \in 1 .. 8
    BY <1>1, <1>3, <2>2 DEF Under
  <2>3. CASE k = 10 /\ j = 9
    BY <2>3 DEF Under
  <2> QED BY <1>5, <2>1, <2>2, <2>3 DEF Places
<1> QED BY <1>2, <1>4, <1>5 DEF Sorted

-----------------------------------------------------------------------------
(* The packets of a stream, from the file back to its demuxer, and then    *)
(* the packet that is read next.                                           *)

Muxing(s) == [i \in DOMAIN muxq[top.mux[s]] |->
                IF muxq[top.mux[s]][i][1] = s THEN muxq[top.mux[s]][i][2] ELSE 0]
Sending(s) == IF <<s, read[s]>> \in todo[top.src[s]] THEN <<read[s]>> ELSE <<>>
Coming(s) == <<read[s] + 1>>
Line(s) == <<written[s], Muxing(s), pre[s], encout[s], held[s], encq[s], fgq[s], decq[s], Sending(s), Coming(s)>>

LEMMA PlaceCases == \A k \in Places : \/ k = 1 \/ k = 2 \/ k = 3 \/ k = 4 \/ k = 5
                                      \/ k = 6 \/ k = 7 \/ k = 8 \/ k = 9 \/ k = 10
BY DEF Places

LEMMA LineAt ==
  ASSUME NEW s
  PROVE  /\ Line(s)[1] = written[s] /\ Line(s)[2] = Muxing(s) /\ Line(s)[3] = pre[s] /\ Line(s)[4] = encout[s]
         /\ Line(s)[5] = held[s] /\ Line(s)[6] = encq[s] /\ Line(s)[7] = fgq[s] /\ Line(s)[8] = decq[s]
         /\ Line(s)[9] = Sending(s) /\ Line(s)[10] = Coming(s)
BY DEF Line

LEMMA LineAtNext ==
  ASSUME NEW s
  PROVE  /\ Line(s)'[1] = written'[s] /\ Line(s)'[2] = Muxing(s)' /\ Line(s)'[3] = pre'[s] /\ Line(s)'[4] = encout'[s]
         /\ Line(s)'[5] = held'[s] /\ Line(s)'[6] = encq'[s] /\ Line(s)'[7] = fgq'[s] /\ Line(s)'[8] = decq'[s]
         /\ Line(s)'[9] = Sending(s)' /\ Line(s)'[10] = Coming(s)'
BY DEF Line

(* What the queues hold *)
Frames == Nat \cup {EofTs}
Holds == {<<>>} \cup {<<x>> : x \in Nat \ {0}}
QueueTypes ==
  /\ top \in Jobs
  /\ written \in [Streams -> Seq(Nat \ {0})] /\ held \in [Streams -> Holds]
  /\ pre \in [Streams -> Seq(Nat)] /\ encout \in [Streams -> Seq(Nat)]
  /\ encq \in [Streams -> Seq(Nat)] /\ decq \in [Streams -> Seq(Nat)]
  /\ fgq \in [Streams -> Seq(Frames)] /\ decout \in [Streams -> Seq({End, EofTs})]
  /\ muxq \in [Muxers -> Seq(Streams \X Nat)]
  /\ todo \in [Demuxers -> SUBSET (Streams \X Nat)] /\ read \in [Streams -> Nat]

(* The state of the threads that feed the muxers *)
ThreadTypes ==
  /\ decpc \in [Streams -> {"none", "run", "fin", "done"}] /\ fgpc \in [Streams -> {"none", "run", "fin", "done"}]
  /\ encpc \in [Streams -> {"none", "closed", "run", "eof", "fin", "done"}]
  /\ dpc \in [Demuxers -> {"none", "read", "asleep", "send", "ends", "done"}]
  /\ preOpen \in [Streams -> BOOLEAN] /\ started \in [Muxers -> BOOLEAN]
  /\ drain \in [Muxers -> SUBSET Streams]
  /\ \A s \in Streams : decpc[s] = "fin" => decout[s] # <<>>

(* A queue holds packets of its own streams *)
OwnPackets ==
  /\ \A d \in Demuxers : \A x \in todo[d] : top.src[x[1]] = d /\ x[2] \in {0, read[x[1]]}
  /\ \A m \in Muxers : \A i \in DOMAIN muxq[m] : top.mux[muxq[m][i][1]] = m

(* Nothing but the muxer's queue is on the way of a stream that is copied *)
CopiedDirectly ==
  \A s \in Streams : ~Encoded(s) =>
    /\ pre[s] = <<>> /\ encout[s] = <<>> /\ held[s] = <<>> /\ encq[s] = <<>> /\ fgq[s] = <<>> /\ decq[s] = <<>>
    /\ decpc[s] \in {"none", "done"} /\ fgpc[s] \in {"none", "done"} /\ encpc[s] \in {"none", "done"}

(* A stream's own queue is empty, and stays so, once it is moved over, and *)
(* the muxer's queue takes over only after that.                           *)
HandedOver ==
  \A m \in Muxers :
    /\ drain[m] \subseteq {s \in StreamsOf(m) : Encoded(s)} /\ (rpc[m] = "drop" => drain[m] # {})
    /\ \A s \in StreamsOf(m) : Encoded(s) =>
         /\ started[m] => pre[s] = <<>>
         /\ rpc[m] \in {"drain", "drop"} /\ s \notin drain[m] => pre[s] = <<>> /\ ~preOpen[s]

InOrder == \A s \in Used : Sorted(Line(s))

(* The order of the packets, and what it rests on *)
PInv == QueueTypes /\ ThreadTypes /\ OwnPackets /\ CopiedDirectly /\ HandedOver /\ InOrder

LEMMA UsedIs ==
  ASSUME top \in Jobs, NEW s \in Streams
  PROVE  /\ s \in Used => top.src[s] \in Demuxers /\ top.mux[s] \in Muxers
         /\ top.src[s] \in Demuxers => s \in Used
         /\ top.mux[s] \in Muxers => s \in Used
         /\ Encoded(s) => s \in Used
         /\ top.last[s] \in Nat
BY JobsAssumption DEF Used, Encoded

LEMMA LineSame ==
  ASSUME NEW t, written'[t] = written[t], Muxing(t)' = Muxing(t), pre'[t] = pre[t], encout'[t] = encout[t],
         held'[t] = held[t], encq'[t] = encq[t], fgq'[t] = fgq[t], decq'[t] = decq[t], Sending(t)' = Sending(t),
         read'[t] = read[t]
  PROVE  Line(t)' = Line(t)
BY DEF Line, Coming

LEMMA SeqInt ==
  /\ \A q : q \in Seq(Nat) => q \in Seq(Int) /\ q \in Seq(Frames)
  /\ \A q : q \in Seq(Frames) => q \in Seq(Int)
  /\ \A q : q \in Seq(Nat \ {0}) => q \in Seq(Int) /\ q \in Seq(Nat)
<1>0. Nat \subseteq Int /\ Nat \ {0} \subseteq Int /\ Nat \ {0} \subseteq Nat /\ Nat \subseteq Frames /\ Frames \subseteq Int
  BY DEF Frames, EofTs
<1>1. ASSUME NEW S, NEW T, S \subseteq T, NEW q \in Seq(S) PROVE q \in Seq(T)
  <2>1. Len(q) \in Nat /\ q \in [1 .. Len(q) -> S]
    OBVIOUS
  <2>2. q \in [1 .. Len(q) -> T]
    BY <1>1, <2>1
  <2> QED BY <2>1, <2>2
<1> QED BY <1>0, <1>1

LEMMA MuxingIs ==
  ASSUME QueueTypes, NEW s \in Used
  PROVE  /\ Muxing(s) \in Seq(Nat) /\ Len(Muxing(s)) = Len(muxq[top.mux[s]])
         /\ \A i \in 1 .. Len(muxq[top.mux[s]]) :
              Muxing(s)[i] = IF muxq[top.mux[s]][i][1] = s THEN muxq[top.mux[s]][i][2] ELSE 0
<1> DEFINE q == muxq[top.mux[s]]
<1>1. q \in Seq(Streams \X Nat)
  BY UsedIs DEF QueueTypes, Used
<1> HIDE DEF q
<1>2. Len(q) \in Nat /\ DOMAIN q = 1 .. Len(q) /\ \A i \in 1 .. Len(q) : q[i][2] \in Nat
  BY <1>1
<1>3. Muxing(s) = [i \in 1 .. Len(q) |-> IF q[i][1] = s THEN q[i][2] ELSE 0]
  BY <1>2 DEF Muxing, q
<1>4. Muxing(s) \in [1 .. Len(q) -> Nat]
  BY <1>2, <1>3
<1> QED BY <1>2, <1>3, <1>4 DEF q

LEMMA LineIs ==
  ASSUME QueueTypes, NEW s \in Used
  PROVE  IsLine(Line(s))
<1>1. Muxing(s) \in Seq(Int)
  BY MuxingIs, SeqInt
<1>2. /\ written[s] \in Seq(Int) /\ pre[s] \in Seq(Int) /\ encout[s] \in Seq(Int) /\ held[s] \in Seq(Int)
      /\ encq[s] \in Seq(Int) /\ fgq[s] \in Seq(Int) /\ decq[s] \in Seq(Int) /\ read[s] \in Int
  <2>1. s \in Streams /\ held[s] \in Holds
    BY DEF QueueTypes, Used
  <2>2. held[s] \in Seq(Int)
    <3>1. CASE held[s] = <<>>
      BY <3>1
    <3>2. ASSUME NEW x \in Nat, held[s] = <<x>> PROVE held[s] \in Seq(Int)
      BY <3>2
    <3>3. held[s] = <<>> \/ \E x \in Nat : held[s] = <<x>>
      BY <2>1 DEF Holds
    <3> QED BY <3>1, <3>2, <3>3
  <2> QED BY <2>1, <2>2, SeqInt DEF QueueTypes
<1>3. Sending(s) \in Seq(Int) /\ Coming(s) \in Seq(Int)
  BY <1>2 DEF Sending, Coming
<1> DEFINE l == Line(s)
<1>4. /\ l[1] \in Seq(Int) /\ l[2] \in Seq(Int) /\ l[3] \in Seq(Int) /\ l[4] \in Seq(Int) /\ l[5] \in Seq(Int)
      /\ l[6] \in Seq(Int) /\ l[7] \in Seq(Int) /\ l[8] \in Seq(Int) /\ l[9] \in Seq(Int) /\ l[10] \in Seq(Int)
  BY <1>1, <1>2, <1>3, LineAt
<1> HIDE DEF l
<1>5. ASSUME NEW k \in Places PROVE l[k] \in Seq(Int)
  BY <1>4, PlaceCases
<1> QED BY <1>5 DEF l, IsLine

LEMMA LineOk ==
  ASSUME QueueTypes, InOrder, NEW s \in Used
  PROVE  Ok(Line(s))
BY LineIs DEF InOrder, Ok

(* What happens to a muxer's queue, as its streams see it *)
LEMMA MuxAppended ==
  ASSUME QueueTypes, top' = top, NEW m \in Muxers, NEW s \in Streams, NEW p \in Nat,
         muxq' = [muxq EXCEPT ![m] = Append(@, <<s, p>>)], NEW t \in Used
  PROVE  /\ top.mux[t] # m => Muxing(t)' = Muxing(t)
         /\ top.mux[t] = m /\ t # s => Muxing(t)' = Append(Muxing(t), 0)
         /\ top.mux[t] = m /\ t = s => Muxing(t)' = Append(Muxing(t), p)
<1> DEFINE q == muxq[m]
           v == IF t = s THEN p ELSE 0
<1>1. q \in Seq(Streams \X Nat) /\ muxq'[m] = Append(q, <<s, p>>) /\ \A n \in Muxers : n # m => muxq'[n] = muxq[n]
  BY DEF QueueTypes
<1>2. CASE top.mux[t] # m
  BY <1>1, <1>2, UsedIs DEF Muxing, Used, QueueTypes
<1>3. CASE top.mux[t] = m
  <2>1. /\ Muxing(t) = [i \in DOMAIN q |-> IF q[i][1] = t THEN q[i][2] ELSE 0]
        /\ Muxing(t)' = [i \in DOMAIN (muxq'[m]) |-> IF muxq'[m][i][1] = t THEN muxq'[m][i][2] ELSE 0]
    BY <1>3 DEF Muxing
  <2> HIDE DEF q
  <2>2. Muxing(t) \in Seq(Nat) /\ Len(Muxing(t)) = Len(q)
    BY <1>3, MuxingIs DEF q
  <2> DEFINE r == Append(q, <<s, p>>)
             a == [i \in DOMAIN r |-> IF r[i][1] = t THEN r[i][2] ELSE 0]
             b == [i \in DOMAIN q |-> IF q[i][1] = t THEN q[i][2] ELSE 0]
  <2>3. /\ DOMAIN r = 1 .. Len(q) + 1 /\ DOMAIN q = 1 .. Len(q) /\ Len(q) \in Nat
        /\ \A i \in 1 .. Len(q) : r[i] = q[i]
        /\ r[Len(q) + 1] = <<s, p>>
    BY <1>1
  <2> HIDE DEF r
  <2>4. a = [i \in 1 .. Len(q) + 1 |-> IF i = Len(q) + 1 THEN v ELSE b[i]]
    BY <2>3
  <2>5. Append(b, v) = [i \in 1 .. Len(q) + 1 |-> IF i = Len(q) + 1 THEN v ELSE b[i]]
    <3> HIDE DEF b
    <3>1. b \in Seq(Nat) /\ Len(b) = Len(q) /\ v \in Nat
      BY <2>1, <2>2 DEF b
    <3> HIDE DEF v
    <3> DEFINE c == Append(b, v)
               n == Len(q) + 1
    <3>2. c \in Seq(Nat) /\ Len(c) = n /\ c[n] = v /\ \A i \in 1 .. Len(q) : c[i] = b[i]
      BY <2>3, <3>1
    <3>3. n \in Nat
      BY <2>3
    <3> HIDE DEF c
    <3>4. c \in [1 .. n -> Nat]
      BY <3>2
    <3>0. \A i \in 1 .. n : i = n \/ i \in 1 .. Len(q)
      BY <2>3
    <3> HIDE DEF n
    <3>5. \A i \in 1 .. n : c[i] = IF i = n THEN v ELSE b[i]
      BY <3>0, <3>2
    <3>6. c = [i \in 1 .. n |-> IF i = n THEN v ELSE b[i]]
      BY <3>4, <3>5
    <3> QED BY <3>6 DEF c, n
  <2>6. Muxing(t)' = a /\ Muxing(t) = b
    BY <1>1, <2>1 DEF r
  <2>7. Muxing(t)' = Append(Muxing(t), v)
    BY <2>4, <2>5, <2>6
  <2> QED BY <1>3, <2>7
<1> QED BY <1>2, <1>3

LEMMA MuxTaken ==
  ASSUME QueueTypes, top' = top, NEW m \in Muxers, muxq[m] # <<>>,
         muxq' = [muxq EXCEPT ![m] = Tail(@)], NEW t \in Used
  PROVE  /\ top.mux[t] # m => Muxing(t)' = Muxing(t)
         /\ top.mux[t] = m => /\ Muxing(t) # <<>> /\ Muxing(t)' = Tail(Muxing(t))
                              /\ Head(Muxing(t)) = IF Head(muxq[m])[1] = t THEN Head(muxq[m])[2] ELSE 0
<1> DEFINE q == muxq[m]
<1>1. q \in Seq(Streams \X Nat) /\ q # <<>> /\ muxq'[m] = Tail(q) /\ \A n \in Muxers : n # m => muxq'[n] = muxq[n]
  BY DEF QueueTypes
<1>2. CASE top.mux[t] # m
  BY <1>1, <1>2, UsedIs DEF Muxing, Used, QueueTypes
<1>3. CASE top.mux[t] = m
  <2>1. /\ Muxing(t) = [i \in DOMAIN q |-> IF q[i][1] = t THEN q[i][2] ELSE 0]
        /\ Muxing(t)' = [i \in DOMAIN (muxq'[m]) |-> IF muxq'[m][i][1] = t THEN muxq'[m][i][2] ELSE 0]
    BY <1>3 DEF Muxing
  <2> HIDE DEF q
  <2>2. Muxing(t) \in Seq(Nat) /\ Len(Muxing(t)) = Len(q)
    BY <1>3, MuxingIs DEF q
  <2> DEFINE r == Tail(q)
             a == [i \in DOMAIN r |-> IF r[i][1] = t THEN r[i][2] ELSE 0]
             b == [i \in DOMAIN q |-> IF q[i][1] = t THEN q[i][2] ELSE 0]
  <2>3. /\ DOMAIN r = 1 .. Len(q) - 1 /\ DOMAIN q = 1 .. Len(q) /\ Len(q) \in Nat /\ Len(q) >= 1
        /\ \A i \in 1 .. Len(q) - 1 : r[i] = q[i + 1]
        /\ q[1] = Head(q)
    BY <1>1
  <2> HIDE DEF r
  <2>4. a = [i \in 1 .. Len(q) - 1 |-> b[i + 1]] /\ b[1] = IF Head(q)[1] = t THEN Head(q)[2] ELSE 0
    BY <2>3
  <2>5. b # <<>> /\ Tail(b) = [i \in 1 .. Len(q) - 1 |-> b[i + 1]] /\ Head(b) = b[1]
    <3> HIDE DEF b
    <3>1. b \in Seq(Nat) /\ Len(b) = Len(q)
      BY <2>1, <2>2 DEF b
    <3> DEFINE c == Tail(b)
               n == Len(q) - 1
    <3>2. b # <<>> /\ Head(b) = b[1]
      BY <2>3, <3>1
    <3>3. c \in Seq(Nat) /\ Len(c) = n /\ \A i \in 1 .. n : c[i] = b[i + 1]
      BY <2>3, <3>1
    <3> HIDE DEF c, n
    <3>4. c \in [1 .. n -> Nat]
      BY <3>3
    <3>5. c = [i \in 1 .. n |-> b[i + 1]]
      BY <3>3, <3>4
    <3> QED BY <3>2, <3>5 DEF c, n
  <2>6. Muxing(t)' = a /\ Muxing(t) = b
    BY <1>1, <2>1 DEF r
  <2> HIDE DEF a, b
  <2> QED BY <1>3, <2>4, <2>5, <2>6 DEF q
<1> QED BY <1>2, <1>3

(* An encoder at work: the frame that was held back comes out, the next is *)
(* held back.                                                              *)
LEMMA LineEncoded ==
  ASSUME NEW l, NEW l2, Ok(l), l[4] = <<>>, l[6] # <<>>,
         l[5] = <<>> \/ \E x \in Int : l[5] = <<x>>,
         l2[4] = l[5], l2[6] = Tail(l[6]), l2[5] = IF Head(l[6]) = 0 THEN <<>> ELSE <<Head(l[6])>>,
         \A k \in Places \ {4, 5, 6} : l2[k] = l[k]
  PROVE  Ok(l2) /\ \A x : x # 0 /\ On(l, x) => On(l2, x)
<1> DEFINE l1 == [k \in Places |-> IF k = 4 THEN l[5] ELSE IF k = 5 THEN <<>> ELSE l[k]]
<1>0. 4 \in Places /\ 5 \in Places /\ 6 \in Places /\ l[6] \in Seq(Int) /\ l[5] \in Seq(Int) /\ l[4] \in Seq(Int)
  BY DEF Places, Ok, IsLine
<1>1. l1[4] = l[5] /\ l1[5] = <<>> /\ l1[6] = l[6] /\ \A k \in Places \ {4, 5} : l1[k] = l[k]
  BY <1>0
<1> HIDE DEF l1
<1>2. Ok(l1) /\ \A x : On(l, x) => On(l1, x)
  <2>1. CASE l[5] = <<>>
    <3>1. \A k \in Places : l1[k] = l[k]
      BY <1>1, <2>1
    <3>2. \A k \in Places : Less(l1[k], l[k])
      BY <3>1 DEF Less
    <3> QED BY <3>1, <3>2, LineLess DEF Ok, On
  <2>2. ASSUME NEW x \in Int, l[5] = <<x>> PROVE Ok(l1) /\ \A y : On(l, y) => On(l1, y)
    <3>1. l[5] # <<>> /\ l1[5] = Tail(l[5]) /\ l1[4] = Append(l[4], Head(l[5]))
      BY <1>1, <2>2
    <3>2. Moved(l, l1, 5, 4)
      BY <1>1, <3>1 DEF Moved, Places
    <3> QED BY <1>0, <3>2, LineMoved DEF Ok
  <2> QED BY <2>1, <2>2
<1>3. CASE Head(l[6]) = 0
  <2>1. \A k \in Places \ {6} : l2[k] = l1[k]
    BY <1>1, <1>3
  <2>2. l1[6] # <<>> /\ l2[6] = Tail(l1[6])
    BY <1>1
  <2>3. \A k \in Places : Less(l2[k], l1[k])
    BY <2>1, <2>2 DEF Less
  <2>4. Ok(l2)
    BY <1>2, <2>3, LineLess DEF Ok
  <2>5. ASSUME NEW x, x # 0, On(l, x) PROVE On(l2, x)
    <3>1. PICK k \in Places : \E i \in DOMAIN l1[k] : l1[k][i] = x
      BY <1>2, <2>5 DEF On
    <3>2. PICK i \in DOMAIN l1[k] : l1[k][i] = x
      BY <3>1
    <3>3. CASE k # 6
      BY <2>1, <3>2, <3>3 DEF On
    <3>4. CASE k = 6
      <4>1. l1[6] \in Seq(Int)
        BY <1>0, <1>1
      <4>2. i # 1
        BY <1>1, <1>3, <2>2, <2>5, <3>2, <3>4, <4>1, TailFacts
      <4>3. i - 1 \in DOMAIN l2[6] /\ l2[6][i - 1] = x
        <5>1. i \in DOMAIN l1[6] /\ l1[6][i] = x
          BY <3>2, <3>4
        <5>2. i - 1 \in DOMAIN Tail(l1[6]) /\ Tail(l1[6])[i - 1] = l1[6][i]
          BY <2>2, <4>1, <4>2, <5>1, TailFacts
        <5> QED BY <2>2, <5>1, <5>2
      <4>4. \E j \in DOMAIN l2[6] : l2[6][j] = x
        BY <4>3
      <4> QED BY <1>0, <4>4 DEF On
    <3> QED BY <3>3, <3>4
  <2> QED BY <2>4, <2>5
<1>4. CASE Head(l[6]) # 0
  <2> DEFINE f == Head(l[6])
  <2>1. f \in Int /\ l2[5] = Append(<<>>, f) /\ l2[5] = <<f>>
    BY <1>0, <1>4, TailFacts
  <2>2. l1[6] # <<>> /\ l2[6] = Tail(l1[6]) /\ l2[5] = Append(l1[5], Head(l1[6]))
    BY <1>1, <2>1
  <2>3. \A k \in Places \ {5, 6} : l2[k] = l1[k]
    BY <1>1
  <2>4. Moved(l1, l2, 6, 5)
    BY <2>2, <2>3 DEF Moved, Places
  <2> QED BY <1>0, <1>2, <2>4, LineMoved DEF Ok
<1> QED BY <1>3, <1>4

(* An encoder that leaves its loop: what was held back comes out, and the  *)
(* end.                                                                    *)
LEMMA LineFlushed ==
  ASSUME NEW l, NEW l2, Ok(l), l[5] = <<>> \/ \E x \in Int : l[5] = <<x>>,
         l2[4] = Append(l[5], 0) \/ l2[4] = << 0 >>, l2[5] = <<>>, Less(l2[6], l[6]),
         \A k \in Places \ {4, 5, 6} : l2[k] = l[k]
  PROVE  Ok(l2)
<1> DEFINE l1 == [k \in Places |-> IF k = 4 THEN <<>> ELSE l[k]]
           l3 == [k \in Places |-> IF k = 4 THEN l[5] ELSE IF k = 5 THEN <<>> ELSE l[k]]
<1>0. 4 \in Places /\ 5 \in Places /\ 6 \in Places /\ l[5] \in Seq(Int) /\ l[4] \in Seq(Int)
  BY DEF Places, Ok, IsLine
<1>1. l1[4] = <<>> /\ \A k \in Places \ {4} : l1[k] = l[k]
  BY <1>0
<1>2. l3[4] = l[5] /\ l3[5] = <<>> /\ l3[6] = l[6] /\ \A k \in Places \ {4, 5} : l3[k] = l[k]
  BY <1>0
<1> HIDE DEF l1, l3
<1>3. Ok(l1)
  <2>1. \A k \in Places : Less(l1[k], l[k])
    BY <1>1 DEF Less
  <2> QED BY <2>1, LineLess DEF Ok
<1>4. CASE l[5] = <<>> \/ l2[4] = <<0>>
  <2>1. l2[4] = <<0>>
    <3>1. Append(<<>>, 0) = <<0>>
      OBVIOUS
    <3> QED BY <1>4, <3>1
  <2>2. Less(l2[4], l[4]) /\ Less(l2[5], l[5]) /\ Less(l2[6], l[6])
    BY <2>1 DEF Less
  <2>3. \A k \in Places : Less(l2[k], l[k])
    BY <2>2 DEF Less
  <2> QED BY <2>3, LineLess DEF Ok
<1>5. ASSUME NEW x \in Int, l[5] = <<x>>, l2[4] = Append(l[5], 0) PROVE Ok(l2)
  <2>1. l1[5] # <<>> /\ l3[5] = Tail(l1[5]) /\ l3[4] = Append(l1[4], Head(l1[5]))
    <3>1. l1[5] = <<x>> /\ l1[4] = <<>> /\ l3[5] = <<>> /\ l3[4] = <<x>>
      BY <1>0, <1>1, <1>2, <1>5
    <3>2. <<x>> # <<>> /\ Tail(<<x>>) = <<>> /\ Append(<<>>, Head(<<x>>)) = <<x>>
      OBVIOUS
    <3> QED BY <3>1, <3>2
  <2>2. \A k \in Places \ {4, 5} : l3[k] = l1[k]
    BY <1>1, <1>2
  <2>3. Moved(l1, l3, 5, 4)
    BY <2>1, <2>2 DEF Moved, Places
  <2>4. Ok(l3)
    BY <1>0, <1>3, <2>3, LineMoved DEF Ok
  <2>5. \A k \in Places \ {4, 5, 6} : l2[k] = l3[k]
    BY <1>2
  <2>6. Less(l2[4], l3[4]) /\ Less(l2[5], l3[5]) /\ Less(l2[6], l3[6])
    BY <1>2, <1>5 DEF Less
  <2>7. \A k \in Places : Less(l2[k], l3[k])
    BY <2>5, <2>6 DEF Less
  <2> QED BY <2>4, <2>7, LineLess DEF Ok
<1> QED BY <1>4, <1>5
LEMMA StillSame ==
  ASSUME top' = top
  PROVE  /\ Used' = Used
         /\ \A s : Encoded(s)' = Encoded(s)
         /\ \A m : StreamsOf(m)' = StreamsOf(m)
         /\ muxq' = muxq => \A t : Muxing(t)' = Muxing(t)
         /\ todo' = todo /\ read' = read => \A t : Sending(t)' = Sending(t)
BY DEF Used, Encoded, StreamsOf, Muxing, Sending

LEMMA LessSelf == \A p : Less(p, p)
BY DEF Less

LEMMA StepLess ==
  ASSUME QueueTypes, InOrder, NEW t \in Used, Coming(t)' = Coming(t),
         Less(written'[t], written[t]), Less(Muxing(t)', Muxing(t)), Less(pre'[t], pre[t]),
         Less(encout'[t], encout[t]), Less(held'[t], held[t]), Less(encq'[t], encq[t]),
         Less(fgq'[t], fgq[t]), Less(decq'[t], decq[t]), Less(Sending(t)', Sending(t))
  PROVE  Sorted(Line(t)')
<1> DEFINE l == Line(t)
           l2 == Line(t)'
<1>1. /\ Less(l2[1], l[1]) /\ Less(l2[2], l[2]) /\ Less(l2[3], l[3]) /\ Less(l2[4], l[4]) /\ Less(l2[5], l[5])
      /\ Less(l2[6], l[6]) /\ Less(l2[7], l[7]) /\ Less(l2[8], l[8]) /\ Less(l2[9], l[9])
  BY LineAt, LineAtNext
<1>2. Less(l2[10], l[10])
  <2>1. l2[10] = l[10]
    BY LineAt, LineAtNext
  <2> QED BY <2>1, LessSelf
<1>3. IsLine(l) /\ Sorted(l)
  BY LineOk DEF Ok
<1> HIDE DEF l, l2
<1>4. \A k \in Places : Less(l2[k], l[k])
  BY <1>1, <1>2, PlaceCases
<1>5. Sorted(l2)
  BY <1>3, <1>4, LineLess
<1> QED BY <1>5 DEF l2

LEMMA MovedAt ==
  ASSUME NEW l, NEW l2, NEW a \in Places, NEW b \in Places, a < b, l[b] # <<>>,
         l2[b] = Tail(l[b]), l2[a] = Append(l[a], Head(l[b])),
         1 \in {a, b} \/ l2[1] = l[1], 2 \in {a, b} \/ l2[2] = l[2], 3 \in {a, b} \/ l2[3] = l[3],
         4 \in {a, b} \/ l2[4] = l[4], 5 \in {a, b} \/ l2[5] = l[5], 6 \in {a, b} \/ l2[6] = l[6],
         7 \in {a, b} \/ l2[7] = l[7], 8 \in {a, b} \/ l2[8] = l[8], 9 \in {a, b} \/ l2[9] = l[9],
         10 \in {a, b} \/ l2[10] = l[10],
         \A k \in Places : a < k /\ k < b => l[k] = <<>>
  PROVE  Moved(l, l2, b, a)
<1>1. ASSUME NEW k \in Places \ {a, b} PROVE l2[k] = l[k]
  BY PlaceCases
<1> QED BY <1>1 DEF Moved

LEMMA StepMoved ==
  ASSUME QueueTypes, InOrder, NEW t \in Used, NEW a \in Places, NEW b \in Places, Moved(Line(t), Line(t)', b, a)
  PROVE  Sorted(Line(t)')
BY LineOk, LineMoved DEF Ok

(* A step on the way of one stream from its demuxer to its muxer *)
Alone(s) ==
  /\ UNCHANGED <<top, written, muxq, todo, read>>
  /\ \A t \in Streams \ {s} :
       /\ pre'[t] = pre[t] /\ encout'[t] = encout[t] /\ held'[t] = held[t] /\ encq'[t] = encq[t]
       /\ fgq'[t] = fgq[t] /\ decq'[t] = decq[t]

LEMMA AloneInOrder ==
  ASSUME InOrder, NEW s \in Streams, Alone(s), s \in Used => Sorted(Line(s)')
  PROVE  InOrder'
<1>1. ASSUME NEW t \in Used, t # s PROVE Sorted(Line(t)')
  <2>1. t \in Streams \ {s}
    BY <1>1 DEF Used
  <2>2. Muxing(t)' = Muxing(t) /\ Sending(t)' = Sending(t)
    BY StillSame DEF Alone
  <2>3. Line(t)' = Line(t)
    BY <2>1, <2>2, LineSame DEF Alone
  <2> QED BY <2>3 DEF InOrder
<1>2. Used' = Used
  BY StillSame DEF Alone
<1> QED BY <1>1, <1>2 DEF InOrder

-----------------------------------------------------------------------------
(* Decoders and filter graphs *)
LEMMA DecInOrder ==
  ASSUME MInv, PInv, NEW s \in Streams, Dec(s)
  PROVE  PInv'
<1> USE DEF PInv, demux_vars, dec_vars, fg_vars, enc_vars, pre_vars, ready_vars, mux_vars
<1>0. /\ decpc[s] \in {"run", "fin"}
      /\ UNCHANGED <<top, todo, read, dpc, fgpc, encq, encpc, encout, held, pre, preOpen, rpc, drain, muxq, started, written>>
  BY DEF Dec, DecRecv, DecLeave, DecEnd
<1>1. s \in Used /\ Encoded(s)
  BY <1>0, UsedIs DEF CopiedDirectly, QueueTypes
<1>2. /\ decq[s] \in Seq(Nat) /\ fgq[s] \in Seq(Frames) /\ decout[s] \in Seq({End, EofTs})
      /\ decq = [decq EXCEPT ![s] = decq[s]] /\ fgq = [fgq EXCEPT ![s] = fgq[s]]
      /\ decout = [decout EXCEPT ![s] = decout[s]] /\ decpc = [decpc EXCEPT ![s] = decpc[s]]
  BY DEF QueueTypes, ThreadTypes
<1> DEFINE Goes(q, r, o, pc) ==
             /\ q \in Seq(Nat) /\ r \in Seq(Frames) /\ o \in Seq({End, EofTs}) /\ pc \in {"run", "fin", "done"}
             /\ pc = "fin" => o # <<>>
             /\ decq' = [decq EXCEPT ![s] = q] /\ fgq' = [fgq EXCEPT ![s] = r]
             /\ decout' = [decout EXCEPT ![s] = o] /\ decpc' = [decpc EXCEPT ![s] = pc]
             /\ \/ Less(q, decq[s]) /\ Less(r, fgq[s])
                \/ decq[s] # <<>> /\ q = Tail(decq[s]) /\ r = Append(fgq[s], Head(decq[s]))
<1>3. \E q, r, o, pc : Goes(q, r, o, pc)
  <2>1. CASE DecRecv(s)
    <3>1. decq' = [decq EXCEPT ![s] = Tail(decq[s])] /\ Tail(decq[s]) \in Seq(Nat) /\ decq[s] # <<>> /\ Head(decq[s]) \in Nat
      BY <1>2, <2>1 DEF DecRecv
    <3>2. CASE decpc' = decpc /\ decout' = decout /\ fgq' = fgq
      <4>1. Goes(Tail(decq[s]), fgq[s], decout[s], decpc[s])
        BY <1>0, <1>2, <3>1, <3>2 DEF Less, ThreadTypes
      <4> QED BY <4>1
    <3>3. CASE decpc' = decpc /\ decout' = decout /\ fgq' = [fgq EXCEPT ![s] = Append(@, Head(decq[s]))]
      <4>1. Append(fgq[s], Head(decq[s])) \in Seq(Frames)
        BY <1>2, <3>1 DEF Frames
      <4>2. Goes(Tail(decq[s]), Append(fgq[s], Head(decq[s])), decout[s], decpc[s])
        BY <1>0, <1>2, <3>1, <3>3, <4>1 DEF ThreadTypes
      <4> QED BY <4>2
    <3>4. ASSUME NEW o \in {<<EofTs, End>>, <<End>>}, DecFinish(s, o), fgq' = fgq PROVE \E q, r, o2, pc : Goes(q, r, o2, pc)
      <4>1. o \in Seq({End, EofTs}) /\ o # <<>>
        <5>1. <<EofTs, End>> \in Seq({End, EofTs}) /\ <<End>> \in Seq({End, EofTs}) /\ <<EofTs, End>> # <<>> /\ <<End>> # <<>>
          OBVIOUS
        <5> QED BY <5>1
      <4>2. Goes(Tail(decq[s]), fgq[s], o, "fin")
        BY <1>0, <1>2, <3>1, <3>4, <4>1 DEF Less, DecFinish
      <4> QED BY <4>2
    <3> QED BY <2>1, <3>2, <3>3, <3>4 DEF DecRecv
  <2>2. CASE DecLeave(s)
    <3>1. <<EofTs, End>> \in Seq({End, EofTs})
      OBVIOUS
    <3>2. Goes(decq[s], fgq[s], <<EofTs, End>>, "fin")
      BY <1>2, <2>2, <3>1 DEF DecLeave, DecFinish, Less
    <3> QED BY <3>2
  <2>3. CASE DecEnd(s)
    <3> DEFINE x == Head(decout[s])
               rest == Tail(decout[s])
               pc == IF rest = <<>> THEN "done" ELSE "fin"
    <3>1. decpc[s] = "fin" /\ decout[s] # <<>>
      BY <2>3 DEF DecEnd, ThreadTypes
    <3>2. rest \in Seq({End, EofTs}) /\ x \in Int /\ x \in Frames /\ x <= 0
      <4>1. x \in {End, EofTs} /\ rest \in Seq({End, EofTs})
        BY <1>2, <3>1
      <4> QED BY <4>1 DEF End, EofTs, Frames
    <3>3. decout' = [decout EXCEPT ![s] = rest] /\ decpc' = [decpc EXCEPT ![s] = pc]
      BY <2>3, <3>1 DEF DecEnd
    <3>4. CASE fgq' = fgq
      <4>1. Goes(decq[s], fgq[s], rest, pc)
        BY <1>2, <2>3, <3>2, <3>3, <3>4 DEF DecEnd, Less
      <4> QED BY <4>1
    <3>5. CASE fgq' = [fgq EXCEPT ![s] = Append(@, x)]
      <4>1. Append(fgq[s], x) \in Seq(Frames) /\ Less(Append(fgq[s], x), fgq[s]) /\ Less(decq[s], decq[s])
        <5> HIDE DEF x
        <5> QED BY <1>2, <3>2 DEF Less
      <4>2. Goes(decq[s], Append(fgq[s], x), rest, pc)
        BY <1>2, <2>3, <3>2, <3>3, <3>5, <4>1 DEF DecEnd
      <4> QED BY <4>2
    <3> QED BY <2>3, <3>4, <3>5 DEF DecEnd
  <2> QED BY <2>1, <2>2, <2>3 DEF Dec
<1>4. PICK q, r, o, pc : Goes(q, r, o, pc)
  BY <1>3
<1>5. QueueTypes'
  BY <1>0, <1>4 DEF QueueTypes
<1>6. ThreadTypes' /\ OwnPackets' /\ HandedOver'
  <2>1. decpc' \in [Streams -> {"none", "run", "fin", "done"}]
    BY <1>4 DEF ThreadTypes
  <2>4. \A t \in Streams : decpc'[t] = "fin" => decout'[t] # <<>>
    BY <1>4 DEF ThreadTypes, QueueTypes
  <2>2. OwnPackets'
    BY <1>0 DEF OwnPackets
  <2>3. HandedOver'
    BY <1>0, StillSame DEF HandedOver
  <2>5. ThreadTypes'
    BY <1>0, <2>1, <2>4 DEF ThreadTypes
  <2> QED BY <2>2, <2>3, <2>5
<1>7. CopiedDirectly'
  BY <1>0, <1>1, <1>4, StillSame DEF CopiedDirectly, QueueTypes, ThreadTypes
<1>8. Alone(s)
  BY <1>0, <1>4 DEF Alone, QueueTypes
<1>9. /\ decq'[s] = q /\ fgq'[s] = r
      /\ Muxing(s)' = Muxing(s) /\ Sending(s)' = Sending(s) /\ Coming(s)' = Coming(s)
  BY <1>0, <1>4, StillSame DEF QueueTypes, Coming
<1>10. Sorted(Line(s)')
  <2>1. CASE Less(q, decq[s]) /\ Less(r, fgq[s])
    <3>1. Less(written'[s], written[s]) /\ Less(Muxing(s)', Muxing(s)) /\ Less(pre'[s], pre[s]) /\ Less(encout'[s], encout[s])
          /\ Less(held'[s], held[s]) /\ Less(encq'[s], encq[s]) /\ Less(Sending(s)', Sending(s))
      BY <1>0, <1>9, LessSelf
    <3> QED BY <1>1, <1>9, <2>1, <3>1, StepLess
  <2>2. CASE decq[s] # <<>> /\ q = Tail(decq[s]) /\ r = Append(fgq[s], Head(decq[s]))
    <3> DEFINE l == Line(s)
               l2 == Line(s)'
    <3>1. /\ l[8] # <<>> /\ l2[8] = Tail(l[8]) /\ l2[7] = Append(l[7], Head(l[8]))
          /\ l2[1] = l[1] /\ l2[2] = l[2] /\ l2[3] = l[3] /\ l2[4] = l[4] /\ l2[5] = l[5] /\ l2[6] = l[6]
          /\ l2[9] = l[9] /\ l2[10] = l[10]
      <4>1. l[8] # <<>> /\ l2[8] = Tail(l[8]) /\ l2[7] = Append(l[7], Head(l[8]))
        BY <1>9, <2>2, LineAt, LineAtNext
      <4>2. l2[2] = l[2] /\ l2[9] = l[9] /\ l2[10] = l[10]
        BY <1>9, LineAt, LineAtNext
      <4>3. l2[1] = l[1] /\ l2[3] = l[3] /\ l2[4] = l[4] /\ l2[5] = l[5] /\ l2[6] = l[6]
        BY <1>0, LineAt, LineAtNext
      <4> QED BY <4>1, <4>2, <4>3
    <3> HIDE DEF l, l2
    <3>2. Moved(l, l2, 8, 7)
      BY <3>1, MovedAt DEF Places
    <3> QED BY <1>1, <3>2, StepMoved DEF l, l2, Places
  <2> QED BY <1>4, <2>1, <2>2
<1> QED BY <1>5, <1>6, <1>7, <1>8, <1>10, AloneInOrder

LEMMA FgInOrder ==
  ASSUME MInv, PInv, NEW s \in Streams, Fg(s)
  PROVE  PInv'
<1> USE DEF PInv, demux_vars, dec_vars, fg_vars, enc_vars, pre_vars, ready_vars, mux_vars
<1>0. /\ fgpc[s] \in {"run", "fin"}
      /\ UNCHANGED <<top, todo, read, dpc, decq, decpc, decout, encpc, encout, held, pre, preOpen, rpc, drain, muxq, started, written>>
  BY DEF Fg, FgRecv, FgLeave, FgEnd
<1>1. s \in Used /\ Encoded(s)
  BY <1>0, UsedIs DEF CopiedDirectly, QueueTypes
<1>2. /\ fgq[s] \in Seq(Frames) /\ encq[s] \in Seq(Nat)
      /\ fgq = [fgq EXCEPT ![s] = fgq[s]] /\ encq = [encq EXCEPT ![s] = encq[s]] /\ fgpc = [fgpc EXCEPT ![s] = fgpc[s]]
  BY DEF QueueTypes, ThreadTypes
<1> DEFINE Goes(q, r, pc) ==
             /\ q \in Seq(Frames) /\ r \in Seq(Nat) /\ pc \in {"run", "fin", "done"}
             /\ fgq' = [fgq EXCEPT ![s] = q] /\ encq' = [encq EXCEPT ![s] = r] /\ fgpc' = [fgpc EXCEPT ![s] = pc]
             /\ \/ Less(q, fgq[s]) /\ Less(r, encq[s])
                \/ fgq[s] # <<>> /\ q = Tail(fgq[s]) /\ r = Append(encq[s], Head(fgq[s]))
<1>3. \E q, r, pc : Goes(q, r, pc)
  <2>1. CASE FgRecv(s)
    <3>1. fgq' = [fgq EXCEPT ![s] = Tail(fgq[s])] /\ Tail(fgq[s]) \in Seq(Frames) /\ fgq[s] # <<>> /\ Head(fgq[s]) \in Frames
      BY <1>2, <2>1 DEF FgRecv
    <3>2. CASE encq' = encq
      <4>1. \E pc \in {"run", "fin"} : fgpc' = [fgpc EXCEPT ![s] = pc]
        BY <1>0, <1>2, <2>1 DEF FgRecv
      <4>2. Less(Tail(fgq[s]), fgq[s]) /\ Less(encq[s], encq[s])
        BY <3>1 DEF Less
      <4>3. \E pc : Goes(Tail(fgq[s]), encq[s], pc)
        BY <1>2, <3>1, <3>2, <4>1, <4>2
      <4> QED BY <4>3
    <3>3. CASE Head(fgq[s]) \notin {End, EofTs} /\ fgpc' = fgpc /\ encq' = [encq EXCEPT ![s] = Append(@, Head(fgq[s]))]
      <4>0. Head(fgq[s]) \in Nat
        BY <3>1, <3>3 DEF Frames
      <4>1. Append(encq[s], Head(fgq[s])) \in Seq(Nat)
        BY <1>2, <4>0
      <4>2. Goes(Tail(fgq[s]), Append(encq[s], Head(fgq[s])), fgpc[s])
        BY <1>0, <1>2, <3>1, <3>3, <4>1
      <4> QED BY <4>2
    <3> QED BY <2>1, <3>2, <3>3 DEF FgRecv
  <2>2. CASE FgLeave(s)
    <3>1. Goes(fgq[s], encq[s], "fin")
      BY <1>2, <2>2, LessSelf DEF FgLeave
    <3> QED BY <3>1
  <2>3. CASE FgEnd(s)
    <3>1. CASE encq' = encq
      <4>1. Goes(fgq[s], encq[s], "done")
        BY <1>2, <2>3, <3>1, LessSelf DEF FgEnd
      <4> QED BY <4>1
    <3>2. CASE encq' = [encq EXCEPT ![s] = Append(@, End)]
      <4>1. Append(encq[s], End) \in Seq(Nat) /\ Less(Append(encq[s], End), encq[s])
        <5>1. Append(encq[s], 0) \in Seq(Nat)
          BY <1>2
        <5>2. Less(Append(encq[s], 0), encq[s])
          BY DEF Less
        <5> QED BY <5>1, <5>2 DEF End
      <4>2. Goes(fgq[s], Append(encq[s], End), "done")
        BY <1>2, <2>3, <3>2, <4>1, LessSelf DEF FgEnd
      <4> QED BY <4>2
    <3> QED BY <2>3, <3>1, <3>2 DEF FgEnd
  <2> QED BY <2>1, <2>2, <2>3 DEF Fg
<1>4. PICK q, r, pc : Goes(q, r, pc)
  BY <1>3
<1>5. QueueTypes' /\ ThreadTypes'
  BY <1>0, <1>4 DEF QueueTypes, ThreadTypes
<1>6. OwnPackets' /\ HandedOver'
  BY <1>0, StillSame DEF OwnPackets, HandedOver
<1>7. CopiedDirectly'
  BY <1>0, <1>1, <1>4, StillSame DEF CopiedDirectly, QueueTypes, ThreadTypes
<1>8. Alone(s)
  BY <1>0, <1>4 DEF Alone, QueueTypes
<1>9. /\ fgq'[s] = q /\ encq'[s] = r
      /\ Muxing(s)' = Muxing(s) /\ Sending(s)' = Sending(s) /\ Coming(s)' = Coming(s)
  BY <1>0, <1>4, StillSame DEF QueueTypes, Coming
<1>10. Sorted(Line(s)')
  <2>1. CASE Less(q, fgq[s]) /\ Less(r, encq[s])
    <3>1. Less(written'[s], written[s]) /\ Less(Muxing(s)', Muxing(s)) /\ Less(pre'[s], pre[s]) /\ Less(encout'[s], encout[s])
          /\ Less(held'[s], held[s]) /\ Less(decq'[s], decq[s]) /\ Less(Sending(s)', Sending(s))
      BY <1>0, <1>9, LessSelf
    <3> QED BY <1>1, <1>9, <2>1, <3>1, StepLess
  <2>2. CASE fgq[s] # <<>> /\ q = Tail(fgq[s]) /\ r = Append(encq[s], Head(fgq[s]))
    <3> DEFINE l == Line(s)
               l2 == Line(s)'
    <3>1. l[7] # <<>> /\ l2[7] = Tail(l[7]) /\ l2[6] = Append(l[6], Head(l[7]))
      BY <1>9, <2>2, LineAt, LineAtNext
    <3>4. l2[2] = l[2] /\ l2[9] = l[9] /\ l2[10] = l[10]
      BY <1>9, LineAt, LineAtNext
    <3>3. l2[1] = l[1] /\ l2[3] = l[3] /\ l2[4] = l[4] /\ l2[5] = l[5] /\ l2[8] = l[8]
      BY <1>0, LineAt, LineAtNext
    <3> HIDE DEF l, l2
    <3>2. Moved(l, l2, 7, 6)
      BY <3>1, <3>3, <3>4, MovedAt DEF Places
    <3> QED BY <1>1, <3>2, StepMoved DEF l, l2, Places
  <2> QED BY <1>4, <2>1, <2>2
<1> QED BY <1>5, <1>6, <1>7, <1>8, <1>10, AloneInOrder

-----------------------------------------------------------------------------
(* Encoders: a frame is encoded; the loop is left; the codec is opened     *)
EncMoves(q, o, h, q2, o2, h2) ==
  \/ o = <<>> /\ q # <<>> /\ q2 = Tail(q) /\ o2 = h /\ h2 = IF Head(q) = 0 THEN <<>> ELSE <<Head(q)>>
  \/ h2 = <<>> /\ (o2 = Append(h, 0) \/ o2 = <<0>>) /\ Less(q2, q)
  \/ o2 = o /\ q # <<>> /\ q2 = Tail(q) /\ h2 = <<Head(q)>>

LEMMA LineEnc ==
  ASSUME NEW l, NEW l2, Ok(l), l[5] = <<>> \/ \E x \in Int : l[5] = <<x>>,
         EncMoves(l[6], l[4], l[5], l2[6], l2[4], l2[5]),
         \A k \in Places \ {4, 5, 6} : l2[k] = l[k]
  PROVE  Ok(l2)
<1>1. CASE /\ l[4] = <<>> /\ l[6] # <<>> /\ l2[6] = Tail(l[6]) /\ l2[4] = l[5]
           /\ l2[5] = IF Head(l[6]) = 0 THEN <<>> ELSE <<Head(l[6])>>
  BY <1>1, LineEncoded
<1>2. CASE l2[5] = <<>> /\ (l2[4] = Append(l[5], 0) \/ l2[4] = <<0>>) /\ Less(l2[6], l[6])
  BY <1>2, LineFlushed
<1>3. CASE l2[4] = l[4] /\ l[6] # <<>> /\ l2[6] = Tail(l[6]) /\ l2[5] = <<Head(l[6])>>
  <2> DEFINE l1 == [k \in Places |-> IF k = 5 THEN <<>> ELSE l[k]]
  <2>0. 4 \in Places /\ 5 \in Places /\ 6 \in Places
    BY DEF Places
  <2>1. l1[5] = <<>> /\ \A k \in Places \ {5} : l1[k] = l[k]
    BY <2>0
  <2> HIDE DEF l1
  <2>2. Ok(l1)
    <3>1. \A k \in Places : Less(l1[k], l[k])
      BY <2>1 DEF Less
    <3> QED BY <3>1, LineLess DEF Ok
  <2>3. l1[6] = l[6] /\ l1[4] = l[4]
    BY <2>0, <2>1
  <2>4. <<Head(l[6])>> = Append(<<>>, Head(l[6]))
    OBVIOUS
  <2>5. l1[6] # <<>> /\ l2[6] = Tail(l1[6]) /\ l2[5] = Append(l1[5], Head(l1[6]))
    BY <1>3, <2>1, <2>3, <2>4
  <2>6. \A k \in Places \ {5, 6} : l2[k] = l1[k]
    BY <1>3, <2>1
  <2>7. Moved(l1, l2, 6, 5)
    BY <2>5, <2>6 DEF Moved, Places
  <2> QED BY <2>0, <2>2, <2>7, LineMoved DEF Ok
<1> QED BY <1>1, <1>2, <1>3 DEF EncMoves

LEMMA HeldIs ==
  ASSUME NEW h \in Holds
  PROVE  /\ h = <<>> \/ \E x \in Int : h = <<x>>
         /\ h \in Seq(Nat) /\ Append(h, 0) \in Seq(Nat)
         /\ <<0>> \in Seq(Nat) /\ h \o <<0>> = Append(h, 0) /\ <<>> \o <<0>> = <<0>>
         /\ Append(h, 0) # <<>>
<1>1. CASE h = <<>>
  BY <1>1
<1>2. ASSUME NEW x \in Nat, h = <<x>> PROVE h \in Seq(Nat) /\ Append(h, 0) \in Seq(Nat) /\ h \o <<0>> = Append(h, 0) /\ Append(h, 0) # <<>>
  BY <1>2
<1>3. h = <<>> \/ \E x \in Nat : h = <<x>>
  BY DEF Holds
<1> QED BY <1>1, <1>2, <1>3

LEMMA EncFinishIs ==
  ASSUME QueueTypes, NEW s \in Streams, NEW flush \in BOOLEAN, EncFinish(s, flush)
  PROVE  /\ encpc' = [encpc EXCEPT ![s] = "fin"] /\ held' = [held EXCEPT ![s] = <<>>]
         /\ \E o \in Seq(Nat) : (o = Append(held[s], 0) \/ o = <<0>>) /\ encout' = [encout EXCEPT ![s] = o]
<1>1. held[s] \in Holds
  BY DEF QueueTypes
<1>2. (IF flush THEN held[s] ELSE <<>>) \o <<End>> \in {Append(held[s], 0), <<0>>}
  BY <1>1, HeldIs DEF End
<1> QED BY <1>1, <1>2, HeldIs DEF EncFinish

LEMMA EncInOrder ==
  ASSUME MInv, PInv, NEW s \in Streams, EncOpen(s) \/ EncRecv(s) \/ EncLeave(s)
  PROVE  PInv'
<1> USE DEF PInv, demux_vars, dec_vars, fg_vars, enc_vars, pre_vars, ready_vars, mux_vars
<1>0. /\ encpc[s] \in {"closed", "run"}
      /\ UNCHANGED <<top, todo, read, dpc, decq, decpc, decout, fgq, fgpc, pre, preOpen, rpc, drain, muxq, started, written>>
  BY DEF EncOpen, EncRecv, EncLeave
<1>1. s \in Used /\ Encoded(s)
  BY <1>0, UsedIs DEF CopiedDirectly, QueueTypes
<1>2. /\ held[s] \in Holds /\ encq[s] \in Seq(Nat) /\ encout[s] \in Seq(Nat)
      /\ encq = [encq EXCEPT ![s] = encq[s]] /\ encout = [encout EXCEPT ![s] = encout[s]] /\ encpc = [encpc EXCEPT ![s] = encpc[s]]
  BY DEF QueueTypes, ThreadTypes
<1> DEFINE Goes(q, o, h, pc) ==
             /\ q \in Seq(Nat) /\ o \in Seq(Nat) /\ h \in Holds /\ pc \in {"closed", "run", "eof", "fin"}
             /\ encq' = [encq EXCEPT ![s] = q] /\ encout' = [encout EXCEPT ![s] = o]
             /\ held' = [held EXCEPT ![s] = h] /\ encpc' = [encpc EXCEPT ![s] = pc]
             /\ EncMoves(encq[s], encout[s], held[s], q, o, h)
<1>3. ASSUME NEW flush \in BOOLEAN, EncFinish(s, flush), NEW q \in Seq(Nat), Less(q, encq[s]), encq' = [encq EXCEPT ![s] = q]
      PROVE  \E q2, o, h, pc : Goes(q2, o, h, pc)
  <2>1. PICK o \in Seq(Nat) : (o = Append(held[s], 0) \/ o = <<0>>) /\ encout' = [encout EXCEPT ![s] = o]
    BY <1>3, EncFinishIs
  <2>2. encpc' = [encpc EXCEPT ![s] = "fin"] /\ held' = [held EXCEPT ![s] = <<>>] /\ <<>> \in Holds
    BY <1>3, EncFinishIs DEF Holds
  <2>3. EncMoves(encq[s], encout[s], held[s], q, o, <<>>)
    BY <1>3, <2>1 DEF EncMoves
  <2>4. Goes(q, o, <<>>, "fin")
    BY <1>3, <2>1, <2>2, <2>3
  <2> QED BY <2>4
<1>4. ASSUME encq[s] # <<>>, encq' = [encq EXCEPT ![s] = Tail(@)], EncOpen(s) \/ EncRecv(s)
      PROVE  \E q2, o, h, pc : Goes(q2, o, h, pc)
  <2>1. Tail(encq[s]) \in Seq(Nat) /\ Head(encq[s]) \in Nat /\ Less(Tail(encq[s]), encq[s])
    <3>1. Tail(encq[s]) \in Seq(Nat) /\ Head(encq[s]) \in Nat
      BY <1>2, <1>4
    <3> QED BY <1>4, <3>1 DEF Less
  <2>2. CASE \E flush \in BOOLEAN : EncFinish(s, flush)
    BY <1>3, <1>4, <2>1, <2>2
  <2> DEFINE f == Head(encq[s])
  <2>3. CASE f # End /\ encpc' = [encpc EXCEPT ![s] = "run"] /\ held' = [held EXCEPT ![s] = <<f>>] /\ encout' = encout
    <3>1. <<f>> \in Holds
      BY <2>1, <2>3 DEF Holds, End
    <3>2. EncMoves(encq[s], encout[s], held[s], Tail(encq[s]), encout[s], <<f>>)
      BY <1>4 DEF EncMoves
    <3>3. Goes(Tail(encq[s]), encout[s], <<f>>, "run")
      BY <1>2, <1>4, <2>1, <2>3, <3>1, <3>2
    <3> QED BY <3>3
  <2>4. CASE /\ encout[s] = <<>> /\ encout' = [encout EXCEPT ![s] = held[s]]
             /\ held' = [held EXCEPT ![s] = IF f = End THEN <<>> ELSE <<f>>]
             /\ encpc' = [encpc EXCEPT ![s] = IF f = End THEN "eof" ELSE @]
    <3> DEFINE h == IF f = End THEN <<>> ELSE <<f>>
               pc == IF f = End THEN "eof" ELSE encpc[s]
    <3>1. h \in Holds /\ pc \in {"closed", "run", "eof"} /\ held[s] \in Seq(Nat)
      BY <1>0, <1>2, <2>1, HeldIs DEF Holds, End
    <3>2. EncMoves(encq[s], encout[s], held[s], Tail(encq[s]), held[s], h)
      BY <1>4, <2>4 DEF EncMoves, End
    <3>3. Goes(Tail(encq[s]), held[s], h, pc)
      <4>1. encpc' = [encpc EXCEPT ![s] = pc] /\ held' = [held EXCEPT ![s] = h]
        BY <2>4
      <4> HIDE DEF h, pc
      <4> QED BY <1>2, <1>4, <2>1, <2>4, <3>1, <3>2, <4>1
    <3> QED BY <3>3
  <2>5. CASE EncOpen(s)
    BY <2>2, <2>3, <2>5 DEF EncOpen
  <2>6. CASE EncRecv(s)
    BY <2>2, <2>4, <2>6 DEF EncRecv
  <2> QED BY <1>4, <2>5, <2>6
<1>5. ASSUME EncLeave(s)
      PROVE  \E q2, o, h, pc : Goes(q2, o, h, pc)
  <2> DEFINE q == IF encq[s] = <<>> THEN encq[s] ELSE Tail(encq[s])
  <2>1. encq' = [encq EXCEPT ![s] = q]
    BY <1>5 DEF EncLeave
  <2>2. q \in Seq(Nat) /\ Less(q, encq[s])
    <3>1. encq[s] # <<>> => Tail(encq[s]) \in Seq(Nat)
      BY <1>2
    <3> QED BY <1>2, <3>1 DEF Less
  <2>3. \E flush \in BOOLEAN : EncFinish(s, flush)
    BY <1>5 DEF EncLeave
  <2> HIDE DEF q
  <2> QED BY <1>3, <2>1, <2>2, <2>3
<1>6. PICK q, o, h, pc : Goes(q, o, h, pc)
  <2>1. EncOpen(s) \/ EncRecv(s) => encq[s] # <<>> /\ encq' = [encq EXCEPT ![s] = Tail(@)]
    BY DEF EncOpen, EncRecv
  <2> QED BY <1>4, <1>5, <2>1
<1>7. QueueTypes' /\ ThreadTypes'
  BY <1>0, <1>6 DEF QueueTypes, ThreadTypes
<1>8. OwnPackets' /\ HandedOver'
  BY <1>0, StillSame DEF OwnPackets, HandedOver
<1>9. CopiedDirectly'
  BY <1>0, <1>1, <1>6, StillSame DEF CopiedDirectly, QueueTypes, ThreadTypes
<1>10. Alone(s)
  BY <1>0, <1>6 DEF Alone, QueueTypes
<1>11. /\ encq'[s] = q /\ encout'[s] = o /\ held'[s] = h
       /\ Muxing(s)' = Muxing(s) /\ Sending(s)' = Sending(s) /\ Coming(s)' = Coming(s)
  BY <1>0, <1>6, StillSame DEF QueueTypes, Coming
<1>12. Sorted(Line(s)')
  <2> DEFINE l == Line(s)
             l2 == Line(s)'
  <2>1. EncMoves(l[6], l[4], l[5], l2[6], l2[4], l2[5])
    BY <1>6, <1>11, LineAt, LineAtNext
  <2>2. l2[2] = l[2] /\ l2[9] = l[9] /\ l2[10] = l[10]
    BY <1>11, LineAt, LineAtNext
  <2>3. l2[1] = l[1] /\ l2[3] = l[3] /\ l2[7] = l[7] /\ l2[8] = l[8]
    BY <1>0, LineAt, LineAtNext
  <2>4. l[5] = <<>> \/ \E x \in Int : l[5] = <<x>>
    BY <1>2, HeldIs, LineAt
  <2>5. Ok(l)
    BY <1>1, LineOk
  <2> HIDE DEF l, l2
  <2>6. \A k \in Places \ {4, 5, 6} : l2[k] = l[k]
    BY <2>2, <2>3, PlaceCases
  <2>7. Ok(l2)
    BY <2>1, <2>4, <2>5, <2>6, LineEnc
  <2> QED BY <2>7 DEF l2, Ok
<1> QED BY <1>7, <1>8, <1>9, <1>10, <1>12, AloneInOrder

(* An encoder that has sent a packet, or could not *)
EncLeft(s, o, h) ==
  /\ encout' = [encout EXCEPT ![s] = o] /\ held' = [held EXCEPT ![s] = h]
  /\ o \in Seq(Nat) /\ h \in Holds
  /\ \E pc \in {"none", "closed", "run", "eof", "fin", "done"} : encpc' = [encpc EXCEPT ![s] = pc]

LEMMA EncSentIs ==
  ASSUME QueueTypes, ThreadTypes, NEW s \in Streams, encout[s] # <<>>, EncSent(s)
  PROVE  \E o, h : EncLeft(s, o, h) /\ ((o = Tail(encout[s]) /\ h = held[s]) \/ (o = <<0>> /\ h = <<>>))
<1>1. encout[s] \in Seq(Nat) /\ held[s] \in Holds /\ held = [held EXCEPT ![s] = held[s]] /\ encpc[s] \in {"none", "closed", "run", "eof", "fin", "done"}
  BY DEF QueueTypes, ThreadTypes
<1>2. CASE encpc[s] = "eof"
  <2>1. EncFinish(s, FALSE)
    BY <1>2 DEF EncSent
  <2>2. encout' = [encout EXCEPT ![s] = <<0>>] /\ held' = [held EXCEPT ![s] = <<>>] /\ encpc' = [encpc EXCEPT ![s] = "fin"]
    <3>1. <<>> \o <<0>> = <<0>>
      OBVIOUS
    <3> QED BY <2>1, <3>1 DEF EncFinish, End
  <2>3. <<0>> \in Seq(Nat) /\ <<>> \in Holds
    BY DEF Holds
  <2>4. EncLeft(s, <<0>>, <<>>)
    BY <2>2, <2>3 DEF EncLeft
  <2> QED BY <2>4
<1>3. CASE encpc[s] # "eof"
  <2> DEFINE pc == IF encpc[s] = "fin" /\ Tail(encout[s]) = <<>> THEN "done" ELSE encpc[s]
  <2>1. encout' = [encout EXCEPT ![s] = Tail(encout[s])] /\ held' = held /\ encpc' = [encpc EXCEPT ![s] = pc]
    BY <1>3 DEF EncSent
  <2>2. Tail(encout[s]) \in Seq(Nat) /\ pc \in {"none", "closed", "run", "eof", "fin", "done"}
    BY <1>1
  <2> HIDE DEF pc
  <2>3. EncLeft(s, Tail(encout[s]), held[s])
    BY <1>1, <2>1, <2>2 DEF EncLeft
  <2> QED BY <2>3
<1> QED BY <1>2, <1>3

LEMMA EncSendFailsIs ==
  ASSUME QueueTypes, ThreadTypes, NEW s \in Streams, encout[s] # <<>>, EncSendFails(s)
  PROVE  \E o, h : EncLeft(s, o, h) /\ (EncMoves(encq[s], encout[s], held[s], encq[s], o, h) \/ (Less(o, encout[s]) /\ h = held[s]))
<1>1. encout[s] \in Seq(Nat) /\ held[s] \in Holds /\ held = [held EXCEPT ![s] = held[s]]
      /\ encpc = [encpc EXCEPT ![s] = encpc[s]] /\ encpc[s] \in {"none", "closed", "run", "eof", "fin", "done"}
  BY DEF QueueTypes, ThreadTypes
<1>2. CASE encpc[s] # "fin"
  <2>1. EncFinish(s, TRUE)
    BY <1>2 DEF EncSendFails
  <2>2. PICK o \in Seq(Nat) : (o = Append(held[s], 0) \/ o = <<0>>) /\ encout' = [encout EXCEPT ![s] = o]
    BY <2>1, EncFinishIs
  <2>3. encpc' = [encpc EXCEPT ![s] = "fin"] /\ held' = [held EXCEPT ![s] = <<>>] /\ <<>> \in Holds
    BY <2>1, EncFinishIs DEF Holds
  <2>4. EncMoves(encq[s], encout[s], held[s], encq[s], o, <<>>)
    BY <2>2, LessSelf DEF EncMoves
  <2>5. EncLeft(s, o, <<>>)
    BY <2>2, <2>3 DEF EncLeft
  <2> QED BY <2>4, <2>5
<1>3. CASE encpc[s] = "fin"
  <2>1. /\ encout' \in {[encout EXCEPT ![s] = <<0>>], [encout EXCEPT ![s] = <<>>]} /\ held' = held
        /\ \E pc \in {"fin", "done"} : encpc' = [encpc EXCEPT ![s] = pc]
    BY <1>1, <1>3 DEF EncSendFails, End
  <2>2. Less(<<0>>, encout[s]) /\ Less(<<>>, encout[s]) /\ <<0>> \in Seq(Nat) /\ <<>> \in Seq(Nat)
    BY DEF Less
  <2>3. \E o \in {<<0>>, <<>>} : EncLeft(s, o, held[s])
    BY <1>1, <2>1, <2>2 DEF EncLeft
  <2> QED BY <2>2, <2>3
<1> QED BY <1>2, <1>3

LEMMA LineSent ==
  ASSUME NEW l, NEW l2, Ok(l), NEW a \in {2, 3}, l[4] # <<>>, a = 2 => l[3] = <<>>,
         l2[a] = Append(l[a], Head(l[4])), Less(l2[4], Tail(l[4])), Less(l2[5], l[5]),
         \A k \in Places \ {a, 4, 5} : l2[k] = l[k]
  PROVE  Ok(l2)
<1> DEFINE l1 == [k \in Places |-> IF k = a THEN Append(l[a], Head(l[4])) ELSE IF k = 4 THEN Tail(l[4]) ELSE l[k]]
<1>0. 2 \in Places /\ 3 \in Places /\ 4 \in Places /\ 5 \in Places /\ a \in Places /\ a < 4
  BY DEF Places
<1>1. l1[a] = Append(l[a], Head(l[4])) /\ l1[4] = Tail(l[4]) /\ \A k \in Places \ {a, 4} : l1[k] = l[k]
  BY <1>0
<1> HIDE DEF l1
<1>2. Moved(l, l1, 4, a)
  BY <1>0, <1>1 DEF Moved, Places
<1>3. Ok(l1)
  BY <1>0, <1>2, LineMoved DEF Ok
<1>4. Less(l2[4], l1[4]) /\ Less(l2[5], l1[5])
  BY <1>0, <1>1
<1>5. \A k \in Places \ {4, 5} : l2[k] = l1[k]
  BY <1>1
<1>6. \A k \in Places : Less(l2[k], l1[k])
  BY <1>4, <1>5, LessSelf
<1> QED BY <1>3, <1>6, LineLess DEF Ok

LEMMA OwnAppended ==
  ASSUME QueueTypes, OwnPackets, top' = top, NEW m \in Muxers, NEW s \in Streams, NEW p \in Nat, top.mux[s] = m,
         muxq' = [muxq EXCEPT ![m] = Append(@, <<s, p>>)]
  PROVE  /\ \A n \in Muxers : \A i \in DOMAIN muxq'[n] : top.mux[muxq'[n][i][1]] = n
         /\ muxq' \in [Muxers -> Seq(Streams \X Nat)]
<1>0. muxq[m] \in Seq(Streams \X Nat) /\ Append(muxq[m], <<s, p>>) \in Seq(Streams \X Nat) /\ muxq'[m] = Append(muxq[m], <<s, p>>)
      /\ \A n \in Muxers \ {m} : muxq'[n] = muxq[n]
  BY DEF QueueTypes
<1>1. ASSUME NEW n \in Muxers, NEW i \in DOMAIN muxq'[n] PROVE top.mux[muxq'[n][i][1]] = n
  <2>1. CASE n # m
    BY <1>0, <1>1, <2>1 DEF OwnPackets
  <2>2. CASE n = m
    <3>1. i = Len(muxq[m]) + 1 \/ i \in DOMAIN muxq[m]
      BY <1>0, <2>2
    <3>2. CASE i \in DOMAIN muxq[m]
      <4>1. muxq'[n][i] = muxq[m][i]
        BY <1>0, <2>2, <3>2
      <4> QED BY <2>2, <3>2, <4>1 DEF OwnPackets
    <3>3. CASE i = Len(muxq[m]) + 1
      <4>1. muxq'[n][i] = <<s, p>>
        BY <1>0, <2>2, <3>3
      <4> QED BY <2>2, <4>1
    <3> QED BY <3>1, <3>2, <3>3
  <2> QED BY <2>1, <2>2
<1>2. muxq' \in [Muxers -> Seq(Streams \X Nat)]
  BY <1>0 DEF QueueTypes
<1> QED BY <1>1, <1>2

LEMMA EncSendInOrder ==
  ASSUME MInv, PInv, NEW s \in Streams, EncSend(s)
  PROVE  PInv'
<1> USE DEF PInv, demux_vars, dec_vars, fg_vars, enc_vars, pre_vars, ready_vars, mux_vars
<1> DEFINE m == top.mux[s]
           p == Head(encout[s])
<1>0. /\ encout[s] # <<>>
      /\ UNCHANGED <<top, todo, read, dpc, decq, decpc, decout, fgq, fgpc, encq, preOpen, rpc, drain, started, written>>
  BY DEF EncSend
<1>1. s \in Used /\ Encoded(s) /\ m \in Muxers /\ s \in StreamsOf(m)
  BY <1>0, UsedIs DEF CopiedDirectly, QueueTypes, StreamsOf
<1>2. encout[s] \in Seq(Nat) /\ p \in Nat /\ pre[s] \in Seq(Nat) /\ Append(pre[s], p) \in Seq(Nat)
      /\ muxq[m] \in Seq(Streams \X Nat) /\ Append(muxq[m], <<s, p>>) \in Seq(Streams \X Nat)
  <2>1. encout[s] \in Seq(Nat) /\ pre[s] \in Seq(Nat) /\ muxq[m] \in Seq(Streams \X Nat)
    BY <1>1 DEF QueueTypes
  <2>2. p \in Nat
    BY <1>0, <2>1
  <2> QED BY <2>1, <2>2
<1> HIDE DEF m, p
<1>3. PICK o, h : /\ EncLeft(s, o, h)
                  /\ \/ /\ (o = Tail(encout[s]) /\ h = held[s]) \/ (o = <<0>> /\ h = <<>>)
                        /\ \/ started[m] /\ muxq' = [muxq EXCEPT ![m] = Append(@, <<s, p>>)] /\ pre' = pre
                           \/ ~started[m] /\ preOpen[s] /\ pre' = [pre EXCEPT ![s] = Append(@, p)] /\ muxq' = muxq
                     \/ /\ EncMoves(encq[s], encout[s], held[s], encq[s], o, h) \/ (Less(o, encout[s]) /\ h = held[s])
                        /\ UNCHANGED <<muxq, pre>>
  <2>1. CASE EncSent(s)
    <3>1. \/ started[m] /\ muxq' = [muxq EXCEPT ![m] = Append(@, <<s, p>>)] /\ pre' = pre
          \/ ~started[m] /\ preOpen[s] /\ pre' = [pre EXCEPT ![s] = Append(@, p)] /\ muxq' = muxq
          \/ EncSendFails(s) /\ UNCHANGED <<muxq, pre>>
      BY DEF EncSend, m, p
    <3> QED BY <1>0, <2>1, <3>1, EncSentIs, EncSendFailsIs
  <2>2. CASE EncSendFails(s) /\ UNCHANGED <<muxq, pre>>
    BY <1>0, <2>2, EncSendFailsIs
  <2> QED BY <2>1, <2>2 DEF EncSend
<1>4. ThreadTypes' /\ CopiedDirectly'
  <2>1. /\ \A t \in Streams : t # s => encpc'[t] = encpc[t] /\ encout'[t] = encout[t] /\ held'[t] = held[t] /\ pre'[t] = pre[t]
    BY <1>3 DEF EncLeft, QueueTypes, ThreadTypes
  <2>2. ThreadTypes'
    BY <1>0, <1>3 DEF EncLeft, ThreadTypes
  <2> QED BY <1>0, <1>1, <2>1, <2>2, StillSame DEF CopiedDirectly
<1>5. QueueTypes'
  BY <1>0, <1>1, <1>2, <1>3 DEF EncLeft, QueueTypes
<1>6. HandedOver'
  <2>1. CASE pre' = pre
    BY <1>0, <2>1, StillSame DEF HandedOver
  <2>2. CASE ~started[m] /\ preOpen[s] /\ pre' = [pre EXCEPT ![s] = Append(@, p)]
    <3>1. \A t \in Streams : t # s => pre'[t] = pre[t]
      BY <2>2 DEF QueueTypes
    <3>2. \A n \in Muxers : s \in StreamsOf(n) => n = m
      BY DEF StreamsOf, m
    <3>3. \A n \in Muxers : \A t \in StreamsOf(n) : t \in Streams
      BY DEF StreamsOf
    <3> QED BY <1>0, <1>1, <2>2, <3>1, <3>2, <3>3, StillSame DEF HandedOver
  <2> QED BY <1>3, <2>1, <2>2
<1>7. OwnPackets'
  <2>1. CASE muxq' = muxq
    BY <1>0, <2>1 DEF OwnPackets
  <2>2. CASE muxq' = [muxq EXCEPT ![m] = Append(@, <<s, p>>)]
    <3>1. \A n \in Muxers : \A i \in DOMAIN muxq'[n] : top.mux[muxq'[n][i][1]] = n
      BY <1>0, <1>1, <1>2, <2>2, OwnAppended DEF StreamsOf
    <3> QED BY <1>0, <3>1 DEF OwnPackets
  <2> QED BY <1>3, <2>1, <2>2
<1>8. /\ encout'[s] = o /\ held'[s] = h /\ Sending(s)' = Sending(s) /\ Coming(s)' = Coming(s)
  BY <1>0, <1>3, StillSame DEF EncLeft, QueueTypes, Coming
<1> DEFINE l == Line(s)
           l2 == Line(s)'
<1>9. l2[9] = l[9] /\ l2[10] = l[10] /\ l2[4] = o /\ l2[5] = h /\ l[4] = encout[s] /\ l[5] = held[s]
  BY <1>8, LineAt, LineAtNext
<1>10. l2[1] = l[1] /\ l2[6] = l[6] /\ l2[7] = l[7] /\ l2[8] = l[8] /\ l[6] = encq[s]
  BY <1>0, LineAt, LineAtNext
<1>11. Ok(l) /\ (l[5] = <<>> \/ \E x \in Int : l[5] = <<x>>)
  <2>1. held[s] \in Holds
    BY DEF QueueTypes
  <2> QED BY <1>1, <1>9, <2>1, HeldIs, LineOk
<1>12. CASE /\ (o = Tail(encout[s]) /\ h = held[s]) \/ (o = <<0>> /\ h = <<>>)
            /\ \/ started[m] /\ muxq' = [muxq EXCEPT ![m] = Append(@, <<s, p>>)] /\ pre' = pre
               \/ ~started[m] /\ preOpen[s] /\ pre' = [pre EXCEPT ![s] = Append(@, p)] /\ muxq' = muxq
  <2>0. Less(o, Tail(encout[s])) /\ Less(h, held[s])
    BY <1>12 DEF Less
  <2>1. CASE started[m] /\ muxq' = [muxq EXCEPT ![m] = Append(@, <<s, p>>)] /\ pre' = pre
    <3>1. Muxing(s)' = Append(Muxing(s), p)
      BY <1>0, <1>1, <1>2, <2>1, MuxAppended DEF m
    <3>2. pre[s] = <<>>
      BY <1>1, <2>1 DEF HandedOver
    <3>3. l2[2] = Append(l[2], Head(l[4])) /\ l[3] = <<>> /\ l2[3] = l[3]
      BY <1>9, <2>1, <3>1, <3>2, LineAt, LineAtNext DEF p
    <3> HIDE DEF l, l2
    <3>4. \A k \in Places \ {2, 4, 5} : l2[k] = l[k]
      BY <1>9, <1>10, <3>3, PlaceCases
    <3>5. Ok(l2)
      BY <1>0, <1>9, <1>11, <2>0, <3>3, <3>4, LineSent
    <3>6. ASSUME NEW t \in Used, t # s PROVE Sorted(Line(t)')
      <4>1. Less(Muxing(t)', Muxing(t))
        <5>1. Muxing(t)' = Muxing(t) \/ Muxing(t)' = Append(Muxing(t), 0)
          BY <1>0, <1>1, <1>2, <2>1, <3>6, MuxAppended
        <5> QED BY <5>1 DEF Less
      <4>2. t \in Streams /\ Sending(t)' = Sending(t) /\ Coming(t)' = Coming(t)
        BY <1>0, StillSame DEF Used, Coming
      <4>3. encout'[t] = encout[t] /\ held'[t] = held[t] /\ pre'[t] = pre[t]
        BY <1>3, <2>1, <3>6, <4>2 DEF EncLeft, QueueTypes
      <4>4. written'[t] = written[t] /\ encq'[t] = encq[t] /\ fgq'[t] = fgq[t] /\ decq'[t] = decq[t]
        BY <1>0
      <4> QED BY <4>1, <4>2, <4>3, <4>4, LessSelf, StepLess
    <3>7. Sorted(Line(s)')
      BY <3>5 DEF l2, Ok
    <3>8. InOrder'
      BY <1>0, <3>6, <3>7, StillSame DEF InOrder
    <3> QED BY <1>4, <1>5, <1>6, <1>7, <3>8
  <2>2. CASE pre' = [pre EXCEPT ![s] = Append(@, p)] /\ muxq' = muxq
    <3>1. pre'[s] = Append(pre[s], p) /\ Muxing(s)' = Muxing(s)
      BY <1>0, <2>2, StillSame DEF QueueTypes
    <3>3. l2[3] = Append(l[3], Head(l[4])) /\ l2[2] = l[2]
      <4>1. l2[3] = pre'[s] /\ l[3] = pre[s] /\ l2[2] = Muxing(s)' /\ l[2] = Muxing(s)
        BY LineAt, LineAtNext
      <4> HIDE DEF l, l2
      <4> QED BY <1>9, <3>1, <4>1 DEF p
    <3> HIDE DEF l, l2
    <3>4. \A k \in Places \ {3, 4, 5} : l2[k] = l[k]
      BY <1>9, <1>10, <3>3, PlaceCases
    <3>5. Ok(l2)
      BY <1>0, <1>9, <1>11, <2>0, <3>3, <3>4, LineSent
    <3>6. Alone(s)
      BY <1>0, <1>3, <2>2 DEF Alone, EncLeft, QueueTypes
    <3>7. Sorted(Line(s)')
      BY <3>5 DEF l2, Ok
    <3> QED BY <1>4, <1>5, <1>6, <1>7, <3>6, <3>7, AloneInOrder
  <2> QED BY <1>12, <2>1, <2>2
<1>13. CASE EncMoves(encq[s], encout[s], held[s], encq[s], o, h) /\ UNCHANGED <<muxq, pre>>
  <2>1. Muxing(s)' = Muxing(s)
    BY <1>0, <1>13, StillSame
  <2>2. l2[2] = l[2] /\ l2[3] = l[3]
    BY <1>13, <2>1, LineAt, LineAtNext
  <2> HIDE DEF l, l2
  <2>3. \A k \in Places \ {4, 5, 6} : l2[k] = l[k]
    BY <1>9, <1>10, <2>2, PlaceCases
  <2>4. EncMoves(l[6], l[4], l[5], l2[6], l2[4], l2[5])
    BY <1>9, <1>10, <1>13
  <2>5. Ok(l2)
    BY <1>11, <2>3, <2>4, LineEnc
  <2>6. Alone(s)
    BY <1>0, <1>3, <1>13 DEF Alone, EncLeft, QueueTypes
  <2>7. Sorted(Line(s)')
    BY <2>5 DEF l2, Ok
  <2> QED BY <1>4, <1>5, <1>6, <1>7, <2>6, <2>7, AloneInOrder
<1>14. CASE Less(o, encout[s]) /\ h = held[s] /\ UNCHANGED <<muxq, pre>>
  <2>1. Muxing(s)' = Muxing(s)
    BY <1>0, <1>14, StillSame
  <2>2. /\ Less(encout'[s], encout[s]) /\ held'[s] = held[s] /\ pre'[s] = pre[s] /\ written'[s] = written[s]
        /\ encq'[s] = encq[s] /\ fgq'[s] = fgq[s] /\ decq'[s] = decq[s]
    BY <1>0, <1>8, <1>14
  <2>3. Sorted(Line(s)')
    BY <1>1, <1>8, <2>1, <2>2, LessSelf, StepLess
  <2>4. Alone(s)
    BY <1>0, <1>3, <1>14 DEF Alone, EncLeft, QueueTypes
  <2> QED BY <1>4, <1>5, <1>6, <1>7, <2>3, <2>4, AloneInOrder
<1> QED BY <1>3, <1>12, <1>13, <1>14
-----------------------------------------------------------------------------
(* The least of some streams *)
LEMMA LeastIn ==
  ASSUME NEW T, T \subseteq Nat, T # {}
  PROVE  \E x \in T : \A y \in T : x <= y
<1>1. PICK x \in T : \A y \in T : ~(<<y, x>> \in OpToRel(<, Nat))
  BY NatLessThanWellFounded, WFMin, Zenon
<1>2. \A y \in T : ~(y < x)
  BY <1>1 DEF OpToRel
<1> QED BY <1>2

LEMMA MinIn ==
  ASSUME NEW T, T \subseteq Streams, T # {}
  PROVE  Min(T) \in T
<1>1. \E x \in T : \A y \in T : x <= y
  BY LeastIn, JobsAssumption
<1> QED BY <1>1 DEF Min

LEMMA SoonestIn ==
  ASSUME NEW T, T \subseteq Streams \X Nat, T # {}
  PROVE  Soonest(T) \in T
<1> DEFINE F == {x[1] : x \in T}
<1>1. F \subseteq Nat /\ F # {}
  BY JobsAssumption
<1>2. PICK f \in F : \A y \in F : f <= y
  BY <1>1, LeastIn
<1>3. PICK x \in T : x[1] = f
  BY <1>2
<1>4. \A y \in T : x[1] <= y[1]
  BY <1>2, <1>3
<1> QED BY <1>4 DEF Soonest

(* Steps that move nothing *)
Still == UNCHANGED <<top, todo, read, decq, decout, fgq, encq, encout, held, muxq, written>>

LEMMA StillInOrder ==
  ASSUME QueueTypes, InOrder, Still, pre' \in [Streams -> Seq(Nat)],
         \A s \in Streams : pre'[s] = pre[s] \/ pre'[s] = <<>>
  PROVE  InOrder'
<1>1. ASSUME NEW t \in Used PROVE Sorted(Line(t)')
  <2>1. t \in Streams /\ Muxing(t)' = Muxing(t) /\ Sending(t)' = Sending(t) /\ Coming(t)' = Coming(t)
    BY StillSame DEF Still, Used, Coming
  <2>2. /\ encout'[t] = encout[t] /\ held'[t] = held[t] /\ written'[t] = written[t]
        /\ encq'[t] = encq[t] /\ fgq'[t] = fgq[t] /\ decq'[t] = decq[t]
    BY DEF Still
  <2>3. Less(pre'[t], pre[t])
    BY <2>1 DEF Less
  <2> QED BY <2>1, <2>2, <2>3, LessSelf, StepLess
<1> QED BY <1>1, StillSame DEF InOrder, Still

(* The threads that open muxers *)
LEMMA ReadyInOrder ==
  ASSUME MInv, PInv, NEW m \in Muxers,
         \/ ReadyRecv(m) \/ ReadyStop(m) \/ ReadyGone(m) \/ ReadyOpen(m) \/ ReadyOpenFails(m) \/ ReadyEnd(m)
         \/ DrainDrop(m) \/ DrainDone(m)
  PROVE  PInv'
<1> USE DEF PInv, demux_vars, dec_vars, fg_vars, enc_vars, pre_vars, ready_vars, mux_vars
<1>0. Still /\ UNCHANGED <<dpc, decpc, fgpc, encpc>>
  BY DEF Still, ReadyRecv, ReadyStop, ReadyGone, ReadyOpen, ReadyOpenFails, ReadyEnd, DrainDrop, DrainDone
<1>1. rpc \in [Muxers -> {"none", "wait", "open", "leave", "drain", "drop", "done"}]
  BY DEF MInv, MuxTypes
<1>2. \A n \in Muxers : \A t \in StreamsOf(n) : t \in Streams /\ (t \in StreamsOf(m) => n = m)
  BY DEF StreamsOf
<1>3. \A n \in Muxers : StreamsOf(n)' = StreamsOf(n) /\ \A s : Encoded(s)' = Encoded(s)
  BY <1>0, StillSame DEF Still
<1> DEFINE Handed == /\ drain' \in [Muxers -> SUBSET Streams] /\ preOpen' \in [Streams -> BOOLEAN] /\ started' \in [Muxers -> BOOLEAN]
                     /\ pre' \in [Streams -> Seq(Nat)] /\ \A s \in Streams : pre'[s] = pre[s] \/ pre'[s] = <<>>
                     /\ HandedOver'
<1>4. Handed => PInv'
  <2>1. Handed => QueueTypes' /\ ThreadTypes' /\ OwnPackets' /\ CopiedDirectly'
    BY <1>0, <1>3 DEF Still, QueueTypes, ThreadTypes, OwnPackets, CopiedDirectly
  <2> QED BY <1>0, <2>1, StillInOrder
<1>5. CASE ReadyRecv(m) \/ ReadyEnd(m)
  <2>1. /\ UNCHANGED <<drain, preOpen, started, pre>>
        /\ \E x \in {"wait", "open", "done"} : rpc' = [rpc EXCEPT ![m] = x]
    BY <1>1, <1>5 DEF ReadyRecv, ReadyEnd
  <2>2. HandedOver'
    BY <1>1, <1>3, <2>1 DEF HandedOver
  <2> QED BY <1>4, <2>1, <2>2 DEF QueueTypes, ThreadTypes
<1>6. CASE ReadyStop(m) \/ ReadyGone(m) \/ ReadyOpenFails(m)
  <2>1. /\ UNCHANGED <<drain, started, pre>>
        /\ preOpen' = [s \in Streams |-> preOpen[s] /\ top.mux[s] # m]
        /\ \E x \in {"leave", "done"} : rpc' = [rpc EXCEPT ![m] = x]
    BY <1>6 DEF ReadyStop, ReadyGone, ReadyOpenFails, ClosePre
  <2>2. preOpen' \in [Streams -> BOOLEAN] /\ \A s \in Streams : preOpen'[s] => preOpen[s]
    BY <2>1 DEF ThreadTypes
  <2>3. HandedOver'
    BY <1>1, <1>2, <1>3, <2>1, <2>2 DEF HandedOver
  <2> QED BY <1>4, <2>1, <2>2, <2>3 DEF QueueTypes, ThreadTypes
<1>7. CASE ReadyOpen(m)
  <2>1. /\ UNCHANGED <<preOpen, started, pre>> /\ rpc' = [rpc EXCEPT ![m] = "drain"]
        /\ drain' = [drain EXCEPT ![m] = {s \in StreamsOf(m) : Encoded(s)}]
    BY <1>7 DEF ReadyOpen
  <2>2. drain' \in [Muxers -> SUBSET Streams]
    BY <1>2, <2>1 DEF ThreadTypes
  <2>3. HandedOver'
    <3>1. /\ drain'[m] = {s \in StreamsOf(m) : Encoded(s)} /\ \A n \in Muxers \ {m} : drain'[n] = drain[n]
          /\ rpc'[m] = "drain" /\ \A n \in Muxers \ {m} : rpc'[n] = rpc[n]
      BY <1>1, <2>1 DEF ThreadTypes
    <3> QED BY <1>3, <2>1, <3>1 DEF HandedOver
  <2> QED BY <1>4, <2>1, <2>2, <2>3 DEF QueueTypes, ThreadTypes
<1>8. CASE DrainDrop(m)
  <2> DEFINE s == Min(drain[m])
  <2>1. s \in drain[m] /\ s \in Streams /\ s \in StreamsOf(m)
    <3>1. drain[m] # {} /\ drain[m] \subseteq Streams /\ drain[m] \subseteq StreamsOf(m)
      BY <1>8 DEF DrainDrop, HandedOver, ThreadTypes
    <3> QED BY <3>1, MinIn
  <2>2. /\ started' = started /\ pre' = [pre EXCEPT ![s] = <<>>] /\ preOpen' = [preOpen EXCEPT ![s] = FALSE]
        /\ rpc' = [rpc EXCEPT ![m] = "drain"] /\ drain' = [drain EXCEPT ![m] = drain[m] \ {s}]
    BY <1>8 DEF DrainDrop
  <2> HIDE DEF s
  <2>3. /\ drain' \in [Muxers -> SUBSET Streams] /\ preOpen' \in [Streams -> BOOLEAN] /\ pre' \in [Streams -> Seq(Nat)]
        /\ \A t \in Streams : pre'[t] = pre[t] \/ pre'[t] = <<>>
    BY <2>1, <2>2 DEF ThreadTypes, QueueTypes
  <2>4. /\ drain'[m] = drain[m] \ {s} /\ \A n \in Muxers \ {m} : drain'[n] = drain[n] /\ rpc'[n] = rpc[n]
        /\ rpc'[m] = "drain" /\ rpc[m] = "drop"
        /\ pre'[s] = <<>> /\ ~preOpen'[s] /\ \A t \in Streams \ {s} : pre'[t] = pre[t] /\ preOpen'[t] = preOpen[t]
    BY <1>1, <1>8, <2>1, <2>2 DEF ThreadTypes, QueueTypes, DrainDrop
  <2>5. HandedOver'
    BY <1>2, <1>3, <2>1, <2>2, <2>4 DEF HandedOver
  <2> QED BY <1>4, <2>2, <2>3, <2>5 DEF ThreadTypes
<1>9. CASE DrainDone(m)
  <2>1. /\ UNCHANGED <<preOpen, drain, pre>> /\ rpc' = [rpc EXCEPT ![m] = "done"] /\ rpc[m] = "drain" /\ drain[m] = {}
        /\ started' = [started EXCEPT ![m] = TRUE]
    BY <1>9 DEF DrainDone
  <2>2. HandedOver'
    BY <1>1, <1>2, <1>3, <2>1 DEF HandedOver, ThreadTypes
  <2> QED BY <1>4, <2>1, <2>2 DEF ThreadTypes, QueueTypes
<1> QED BY <1>5, <1>6, <1>7, <1>8, <1>9

-----------------------------------------------------------------------------
(* Packets that enter and leave the queue of a muxer *)
LEMMA OwnTaken ==
  ASSUME QueueTypes, OwnPackets, top' = top, NEW m \in Muxers, muxq[m] # <<>>,
         muxq' = [muxq EXCEPT ![m] = Tail(@)]
  PROVE  /\ \A n \in Muxers : \A i \in DOMAIN muxq'[n] : top.mux[muxq'[n][i][1]] = n
         /\ muxq' \in [Muxers -> Seq(Streams \X Nat)]
         /\ Head(muxq[m]) \in Streams \X Nat /\ top.mux[Head(muxq[m])[1]] = m
<1>0. muxq[m] \in Seq(Streams \X Nat) /\ Tail(muxq[m]) \in Seq(Streams \X Nat) /\ muxq'[m] = Tail(muxq[m])
      /\ \A n \in Muxers \ {m} : muxq'[n] = muxq[n]
  BY DEF QueueTypes
<1>1. ASSUME NEW n \in Muxers, NEW i \in DOMAIN muxq'[n] PROVE top.mux[muxq'[n][i][1]] = n
  <2>1. CASE n # m
    BY <1>0, <1>1, <2>1 DEF OwnPackets
  <2>2. CASE n = m
    <3> DEFINE q == muxq[m]
    <3>0. q \in Seq(Streams \X Nat) /\ q # <<>> /\ muxq'[n] = Tail(q)
      BY <1>0, <2>2
    <3> HIDE DEF q
    <3>2. DOMAIN Tail(q) = 1 .. Len(q) - 1 /\ DOMAIN q = 1 .. Len(q) /\ Len(q) \in Nat /\ \A j \in 1 .. Len(q) - 1 : Tail(q)[j] = q[j + 1]
      BY <3>0
    <3>3. i \in 1 .. Len(q) - 1
      BY <3>0, <3>2
    <3>4. i + 1 \in 1 .. Len(q)
      BY <3>2, <3>3
    <3>1. i + 1 \in DOMAIN q /\ muxq'[n][i] = q[i + 1]
      BY <3>0, <3>2, <3>3, <3>4
    <3> QED BY <2>2, <3>1 DEF OwnPackets, q
  <2> QED BY <2>1, <2>2
<1>2. muxq' \in [Muxers -> Seq(Streams \X Nat)]
  BY <1>0 DEF QueueTypes
<1>3. Head(muxq[m]) \in Streams \X Nat /\ 1 \in DOMAIN muxq[m] /\ muxq[m][1] = Head(muxq[m])
  BY <1>0
<1> QED BY <1>1, <1>2, <1>3 DEF OwnPackets

(* A stream of which nothing moves but, perhaps, in the muxer's queue *)
Untouched(t) ==
  /\ written'[t] = written[t] /\ pre'[t] = pre[t] /\ encout'[t] = encout[t] /\ held'[t] = held[t]
  /\ encq'[t] = encq[t] /\ fgq'[t] = fgq[t] /\ decq'[t] = decq[t]
  /\ Sending(t)' = Sending(t) /\ Coming(t)' = Coming(t)

LEMMA OthersAppended ==
  ASSUME QueueTypes, InOrder, top' = top, NEW m \in Muxers, NEW s \in Streams, NEW p \in Nat,
         muxq' = [muxq EXCEPT ![m] = Append(@, <<s, p>>)], NEW t \in Used, t # s, Untouched(t)
  PROVE  Sorted(Line(t)')
<1>1. Muxing(t)' = Muxing(t) \/ Muxing(t)' = Append(Muxing(t), 0)
  BY MuxAppended
<1>2. Less(Muxing(t)', Muxing(t))
  BY <1>1 DEF Less
<1> QED BY <1>2, LessSelf, StepLess DEF Untouched

LEMMA OthersTaken ==
  ASSUME QueueTypes, InOrder, top' = top, NEW m \in Muxers, muxq[m] # <<>>,
         muxq' = [muxq EXCEPT ![m] = Tail(@)], NEW t \in Used, Untouched(t)
  PROVE  Sorted(Line(t)')
<1>1. Muxing(t)' = Muxing(t) \/ (Muxing(t) # <<>> /\ Muxing(t)' = Tail(Muxing(t)))
  BY MuxTaken
<1>2. Less(Muxing(t)', Muxing(t))
  BY <1>1 DEF Less
<1> QED BY <1>2, LessSelf, StepLess DEF Untouched

LEMMA DrainMoveInOrder ==
  ASSUME MInv, PInv, NEW m \in Muxers, DrainMove(m)
  PROVE  PInv'
<1> USE DEF PInv, demux_vars, dec_vars, fg_vars, enc_vars, pre_vars, ready_vars, mux_vars
<1>s. PICK s : s = Min(drain[m])
  OBVIOUS
<1> DEFINE p == Head(pre[s])
<1>0. /\ rpc[m] = "drain" /\ drain[m] # {}
      /\ UNCHANGED <<top, todo, read, dpc, decq, decpc, decout, fgq, fgpc, encq, encpc, encout, held, preOpen, drain, started, written>>
  BY DEF DrainMove
<1>1. s \in drain[m] /\ s \in Streams /\ s \in StreamsOf(m) /\ Encoded(s) /\ top.mux[s] = m /\ s \in Used
  <2>1. drain[m] \subseteq Streams /\ drain[m] \subseteq {t \in StreamsOf(m) : Encoded(t)}
    BY DEF HandedOver, ThreadTypes
  <2>2. s \in drain[m]
    BY <1>0, <1>s, <2>1, MinIn
  <2> QED BY <2>1, <2>2, UsedIs DEF StreamsOf, QueueTypes
<1>2. rpc \in [Muxers -> {"none", "wait", "open", "leave", "drain", "drop", "done"}]
  BY DEF MInv, MuxTypes
<1>3. CASE pre[s] = <<>>
  <2>1. rpc' = [rpc EXCEPT ![m] = "drop"] /\ muxq' = muxq /\ pre' = pre
    BY <1>s, <1>3 DEF DrainMove
  <2>2. HandedOver'
    BY <1>0, <1>2, <2>1, StillSame DEF HandedOver
  <2>3. QueueTypes' /\ ThreadTypes' /\ OwnPackets' /\ CopiedDirectly'
    BY <1>0, <2>1, StillSame DEF QueueTypes, ThreadTypes, OwnPackets, CopiedDirectly
  <2>4. InOrder'
    BY <1>0, <2>1, StillInOrder DEF Still, QueueTypes
  <2> QED BY <2>2, <2>3, <2>4
<1>4. CASE pre[s] # <<>>
  <2>1. /\ rpc' = rpc /\ pre' = [pre EXCEPT ![s] = Tail(pre[s])]
        /\ muxq' = muxq \/ muxq' = [muxq EXCEPT ![m] = Append(@, <<s, p>>)]
    BY <1>s, <1>4 DEF DrainMove
  <2>2. pre[s] \in Seq(Nat) /\ p \in Nat /\ Tail(pre[s]) \in Seq(Nat)
    <3>1. pre[s] \in Seq(Nat)
      BY <1>1 DEF QueueTypes
    <3> QED BY <1>4, <3>1
  <2> HIDE DEF p
  <2>3. pre'[s] = Tail(pre[s]) /\ \A t \in Streams \ {s} : pre'[t] = pre[t]
    BY <1>1, <2>1 DEF QueueTypes
  <2>4. HandedOver'
    <3>1. ~started[m]
      BY <1>1, <1>4 DEF HandedOver
    <3>2. \A n \in Muxers : \A t \in StreamsOf(n) : t \in Streams /\ (t = s => n = m)
      BY <1>1 DEF StreamsOf
    <3> QED BY <1>0, <1>1, <2>1, <2>3, <3>1, <3>2, StillSame DEF HandedOver
  <2>5. ThreadTypes' /\ CopiedDirectly'
    BY <1>0, <1>1, <2>3, StillSame DEF ThreadTypes, CopiedDirectly
  <2>6. /\ \A t \in Used : Sending(t)' = Sending(t) /\ Coming(t)' = Coming(t) /\ t \in Streams
        /\ Used' = Used
    BY <1>0, StillSame DEF Coming, Used
  <2>7. CASE muxq' = muxq
    <3>1. QueueTypes' /\ OwnPackets'
      BY <1>0, <2>1, <2>2, <2>7 DEF QueueTypes, OwnPackets
    <3>2. Muxing(s)' = Muxing(s) /\ Less(pre'[s], pre[s])
      BY <1>0, <1>4, <2>3, <2>7, StillSame DEF Less
    <3>3. written'[s] = written[s] /\ encout'[s] = encout[s] /\ held'[s] = held[s] /\ encq'[s] = encq[s]
          /\ fgq'[s] = fgq[s] /\ decq'[s] = decq[s]
      BY <1>0
    <3>4. Sorted(Line(s)')
      BY <1>1, <2>6, <3>2, <3>3, LessSelf, StepLess
    <3>5. Alone(s)
      BY <1>0, <2>3, <2>7 DEF Alone
    <3> QED BY <1>1, <2>4, <2>5, <3>1, <3>4, <3>5, AloneInOrder
  <2>8. CASE muxq' = [muxq EXCEPT ![m] = Append(@, <<s, p>>)]
    <3>1. QueueTypes' /\ OwnPackets'
      <4>1. muxq' \in [Muxers -> Seq(Streams \X Nat)]
        BY <1>0, <1>1, <2>2, <2>8, OwnAppended
      <4>2. \A n \in Muxers : \A i \in DOMAIN muxq'[n] : top.mux[muxq'[n][i][1]] = n
        BY <1>0, <1>1, <2>2, <2>8, OwnAppended
      <4>3. QueueTypes'
        BY <1>0, <2>1, <2>2, <4>1 DEF QueueTypes
      <4> QED BY <1>0, <4>2, <4>3 DEF OwnPackets
    <3>2. ASSUME NEW t \in Used, t # s PROVE Sorted(Line(t)')
      <4>1. Untouched(t)
        BY <1>0, <2>3, <2>6, <3>2 DEF Untouched
      <4> QED BY <1>0, <1>1, <2>2, <2>8, <3>2, <4>1, OthersAppended
    <3>3. Muxing(s)' = Append(Muxing(s), p)
      BY <1>0, <1>1, <2>2, <2>8, MuxAppended
    <3> DEFINE l == Line(s)
               l2 == Line(s)'
    <3>4. l2[2] = Append(l[2], p) /\ l[3] = pre[s] /\ l2[3] = Tail(pre[s])
      BY <2>3, <3>3, LineAt, LineAtNext
    <3>5. l2[9] = l[9] /\ l2[10] = l[10]
      BY <1>1, <2>6, LineAt, LineAtNext
    <3>6. l2[1] = l[1] /\ l2[4] = l[4] /\ l2[5] = l[5] /\ l2[6] = l[6] /\ l2[7] = l[7] /\ l2[8] = l[8]
      BY <1>0, LineAt, LineAtNext
    <3> HIDE DEF l, l2
    <3>7. Moved(l, l2, 3, 2)
      <4>1. l[3] # <<>> /\ l2[3] = Tail(l[3]) /\ l2[2] = Append(l[2], Head(l[3]))
        BY <1>4, <3>4 DEF p
      <4> QED BY <3>5, <3>6, <4>1, MovedAt DEF Places
    <3>8. Sorted(Line(s)')
      BY <1>1, <3>7, StepMoved DEF l, l2, Places
    <3>9. InOrder'
      BY <2>6, <3>2, <3>8 DEF InOrder
    <3> QED BY <2>4, <2>5, <3>1, <3>9
  <2> QED BY <2>1, <2>7, <2>8
<1> QED BY <1>3, <1>4

(* Steps that the packets have no part in *)
LEMMA NothingMoves ==
  ASSUME PInv, Still, UNCHANGED <<pre, decpc, fgpc, encpc, preOpen, started, drain, rpc>>,
         dpc' \in [Demuxers -> {"none", "read", "asleep", "send", "ends", "done"}]
  PROVE  PInv'
<1>1. QueueTypes' /\ ThreadTypes' /\ OwnPackets'
  BY DEF Still, PInv, QueueTypes, ThreadTypes, OwnPackets
<1>2. CopiedDirectly' /\ HandedOver'
  BY StillSame DEF Still, PInv, CopiedDirectly, HandedOver
<1>3. InOrder'
  BY StillInOrder DEF PInv, QueueTypes
<1> QED BY <1>1, <1>2, <1>3 DEF PInv

LEMMA MuxInOrder ==
  ASSUME MInv, PInv, NEW m \in Muxers, Mux(m)
  PROVE  PInv'
<1> USE DEF demux_vars, dec_vars, fg_vars, enc_vars, pre_vars, ready_vars, mux_vars
<1>1. CASE MuxLeave(m) \/ MuxTrailer(m) \/ MuxCount(m) \/ MuxEnd(m)
  <2>1. Still /\ UNCHANGED <<pre, decpc, fgpc, encpc, preOpen, started, drain, rpc, dpc>>
    BY <1>1 DEF Still, MuxLeave, MuxTrailer, MuxCount, MuxEnd
  <2> QED BY <2>1, NothingMoves DEF PInv, ThreadTypes
<1>2. CASE MuxPacket(m) \/ MuxStreamEnd(m)
  <2> USE DEF PInv
  <2>0. /\ muxq[m] # <<>> /\ muxq' = [muxq EXCEPT ![m] = Tail(@)]
        /\ UNCHANGED <<top, todo, read, dpc, decq, decpc, decout, fgq, fgpc, encq, encpc, encout, held, pre, preOpen, drain, rpc, started>>
    BY <1>2 DEF MuxPacket, MuxStreamEnd
  <2>1. PICK s, p : /\ Head(muxq[m])[1] = s /\ Head(muxq[m])[2] = p
                    /\ s \in Streams /\ p \in Nat /\ top.mux[s] = m
    <3>1. Head(muxq[m]) \in Streams \X Nat /\ top.mux[Head(muxq[m])[1]] = m
      BY <2>0, OwnTaken
    <3> DEFINE x == Head(muxq[m])
    <3>2. x[1] \in Streams /\ x[2] \in Nat
      BY <3>1
    <3> QED BY <3>1, <3>2
  <2>2. /\ muxq' \in [Muxers -> Seq(Streams \X Nat)]
        /\ \A n \in Muxers : \A i \in DOMAIN muxq'[n] : top.mux[muxq'[n][i][1]] = n
    BY <2>0, OwnTaken
  <2>3. ThreadTypes' /\ CopiedDirectly' /\ HandedOver' /\ OwnPackets'
    <3>1. ThreadTypes' /\ OwnPackets'
      BY <2>0, <2>2 DEF ThreadTypes, OwnPackets
    <3> QED BY <2>0, <3>1, StillSame DEF CopiedDirectly, HandedOver
  <2>4. /\ \A t \in Used : Sending(t)' = Sending(t) /\ Coming(t)' = Coming(t) /\ t \in Streams
        /\ Used' = Used
    BY <2>0, StillSame DEF Coming, Used
  <2>5. ASSUME NEW t \in Used, written'[t] = written[t] PROVE Sorted(Line(t)')
    <3>1. Untouched(t)
      BY <2>0, <2>4, <2>5 DEF Untouched
    <3> QED BY <2>0, <3>1, OthersTaken
  <2>6. CASE written' = written
    <3>1. QueueTypes'
      BY <2>0, <2>2, <2>6 DEF QueueTypes
    <3>2. InOrder'
      BY <2>4, <2>5, <2>6 DEF InOrder
    <3> QED BY <2>3, <3>1, <3>2
  <2>7. CASE p # 0 /\ written' = [written EXCEPT ![s] = Append(@, p)]
    <3>1. written[s] \in Seq(Nat \ {0}) /\ Append(written[s], p) \in Seq(Nat \ {0}) /\ written'[s] = Append(written[s], p)
          /\ \A t \in Streams \ {s} : written'[t] = written[t]
      BY <2>1, <2>7 DEF QueueTypes
    <3>2. QueueTypes'
      BY <2>0, <2>1, <2>2, <2>7, <3>1 DEF QueueTypes
    <3>3. s \in Used
      BY <2>1, UsedIs DEF QueueTypes
    <3>4. Muxing(s) # <<>> /\ Muxing(s)' = Tail(Muxing(s)) /\ Head(Muxing(s)) = p
      BY <2>0, <2>1, <3>3, MuxTaken
    <3> DEFINE l == Line(s)
               l2 == Line(s)'
    <3>5. l[2] = Muxing(s) /\ l2[2] = Muxing(s)' /\ l[1] = written[s] /\ l2[1] = written'[s]
      BY LineAt, LineAtNext
    <3>6. l2[9] = l[9] /\ l2[10] = l[10]
      BY <2>4, <3>3, LineAt, LineAtNext
    <3>7. l2[3] = l[3] /\ l2[4] = l[4] /\ l2[5] = l[5] /\ l2[6] = l[6] /\ l2[7] = l[7] /\ l2[8] = l[8]
      BY <2>0, LineAt, LineAtNext
    <3> HIDE DEF l, l2
    <3>8. l[2] # <<>> /\ l2[2] = Tail(l[2]) /\ l2[1] = Append(l[1], Head(l[2]))
      BY <3>1, <3>4, <3>5
    <3>9. Moved(l, l2, 2, 1)
      BY <3>6, <3>7, <3>8, MovedAt DEF Places
    <3>10. Sorted(Line(s)')
      BY <3>3, <3>9, StepMoved DEF l, l2, Places
    <3>11. InOrder'
      BY <2>4, <2>5, <3>1, <3>10 DEF InOrder
    <3> QED BY <2>3, <3>2, <3>11
  <2>8. written' = written \/ (p # 0 /\ written' = [written EXCEPT ![s] = Append(@, p)])
    BY <1>2, <2>1 DEF MuxPacket, MuxStreamEnd, End
  <2> QED BY <2>6, <2>7, <2>8
<1> QED BY <1>1, <1>2 DEF Mux

-----------------------------------------------------------------------------
(* The client: a start spawns the threads *)
LEMMA SpawnInOrder ==
  ASSUME MInv, PInv, NEW ms, NEW phase, Spawn(ms, phase), top' = top, client = "new"
  PROVE  PInv'
<1>1. Still /\ UNCHANGED <<pre, drain>>
  BY DEF Spawn, Still
<1>2. /\ decpc' \in [Streams -> {"run", "done"}] /\ fgpc' \in [Streams -> {"run", "done"}] /\ encpc' \in [Streams -> {"closed", "done"}]
      /\ dpc' \in [Demuxers -> {"read", "done"}] /\ preOpen' \in [Streams -> BOOLEAN] /\ started' \in [Muxers -> BOOLEAN]
      /\ \A s \in Streams : ~Encoded(s) => decpc'[s] = "done" /\ fgpc'[s] = "done" /\ encpc'[s] = "done"
      /\ \A m \in Muxers : rpc'[m] \in {"wait", "done"}
      /\ \A m \in Muxers : started'[m] => Ready(m)
  <2>1. /\ \E b \in BOOLEAN : decpc' = [s \in Streams |-> IF Encoded(s) /\ b THEN "run" ELSE "done"]
        /\ \E b \in BOOLEAN : fgpc' = [s \in Streams |-> IF Encoded(s) /\ b THEN "run" ELSE "done"]
        /\ \E b \in BOOLEAN : encpc' = [s \in Streams |-> IF Encoded(s) /\ b THEN "closed" ELSE "done"]
        /\ \E b \in BOOLEAN : preOpen' = [s \in Streams |-> Encoded(s) /\ b]
        /\ \E b \in BOOLEAN : rpc' = [m \in Muxers |-> IF b /\ m \in ms /\ ~Ready(m) THEN "wait" ELSE "done"]
        /\ \E b \in BOOLEAN : dpc' = [d \in Demuxers |-> IF b /\ Fed(d) # {} THEN "read" ELSE "done"]
        /\ started' = [m \in Muxers |-> m \in {n \in ms : Ready(n)}]
    BY DEF Spawn
  <2>2. \A s \in Streams : Encoded(s) \in BOOLEAN
    BY DEF Encoded
  <2>3. decpc' \in [Streams -> {"run", "done"}] /\ fgpc' \in [Streams -> {"run", "done"}] /\ encpc' \in [Streams -> {"closed", "done"}]
    BY <2>1
  <2>4. dpc' \in [Demuxers -> {"read", "done"}] /\ preOpen' \in [Streams -> BOOLEAN] /\ started' \in [Muxers -> BOOLEAN]
    BY <2>1, <2>2
  <2>5. \A s \in Streams : ~Encoded(s) => decpc'[s] = "done" /\ fgpc'[s] = "done" /\ encpc'[s] = "done"
    BY <2>1
  <2>6. \A m \in Muxers : rpc'[m] \in {"wait", "done"} /\ (started'[m] => Ready(m))
    BY <2>1
  <2> QED BY <2>3, <2>4, <2>5, <2>6
<1>3. QueueTypes' /\ OwnPackets'
  BY <1>1 DEF PInv, Still, QueueTypes, OwnPackets
<1>4. ThreadTypes'
  BY <1>1, <1>2 DEF PInv, ThreadTypes
<1>5. CopiedDirectly'
  BY <1>1, <1>2, StillSame DEF PInv, Still, CopiedDirectly
<1>6. HandedOver'
  BY <1>1, <1>2, StillSame DEF PInv, HandedOver, Ready
<1>7. InOrder'
  BY <1>1, StillInOrder DEF PInv, QueueTypes
<1> QED BY <1>3, <1>4, <1>5, <1>6, <1>7 DEF PInv

LEMMA ClientInOrder ==
  ASSUME MInv, PInv, ClientCalls \/ ClientGoesOn
  PROVE  PInv'
<1>1. CASE Start \/ StartFails
  <2>1. client = "new" /\ top' = top /\ \E ms, phase : Spawn(ms, phase)
    BY <1>1 DEF Start, StartFails
  <2> QED BY <2>1, SpawnInOrder
<1>2. CASE ClientOnly
  <2>1. Still /\ UNCHANGED <<pre, decpc, fgpc, encpc, preOpen, started, drain, rpc, dpc>>
    BY <1>2 DEF Still, ClientOnly, thread_vars, demux_vars, dec_vars, fg_vars, enc_vars, pre_vars, ready_vars, mux_vars
  <2> QED BY <2>1, NothingMoves DEF PInv, ThreadTypes
<1>3. (Start \/ StartFails) \/ ClientOnly
  BY DEF ClientCalls, ClientGoesOn, Pause, PauseStore, Resume, ResumeStore, Wait, Joined, TakeResult, Poll, PollArm, PollWoken,
     Stop, Stopped, Abort, Drop, Dropped
<1> QED BY <1>1, <1>2, <1>3
-----------------------------------------------------------------------------
(* Demuxers *)
LEMMA DemuxReadInOrder ==
  ASSUME MInv, PInv, NEW d \in Demuxers, DemuxRead(d)
  PROVE  PInv'
<1> USE DEF PInv, demux_vars, dec_vars, fg_vars, enc_vars, pre_vars, ready_vars, mux_vars
<1>0. /\ dpc' \in [Demuxers -> {"none", "read", "asleep", "send", "ends", "done"}]
      /\ UNCHANGED <<top, decq, decpc, decout, fgq, fgpc, encq, encpc, encout, held, pre, preOpen, drain, rpc, started, muxq, written>>
  BY DEF DemuxRead, ThreadTypes
<1>1. PICK s \in Fed(d) : read' = [read EXCEPT ![s] = @ + 1] /\ todo' = [todo EXCEPT ![d] = {<<s, read[s] + 1>>}]
  BY DEF DemuxRead
<1>2. s \in Streams /\ top.src[s] = d /\ s \in Used
  BY UsedIs DEF Fed, QueueTypes
<1>3. PICK x \in Nat : x = read[s]
  BY <1>2 DEF QueueTypes
<1>4. /\ read'[s] = x + 1 /\ \A t \in Streams \ {s} : read'[t] = read[t]
      /\ todo'[d] = {<<s, x + 1>>} /\ \A e \in Demuxers \ {d} : todo'[e] = todo[e]
      /\ read' \in [Streams -> Nat]
  BY <1>1, <1>2, <1>3 DEF QueueTypes
<1>5. QueueTypes'
  <2>1. {<<s, x + 1>>} \subseteq Streams \X Nat
    BY <1>2
  <2>2. todo' \in [Demuxers -> SUBSET (Streams \X Nat)]
    BY <1>1, <1>3, <2>1 DEF QueueTypes
  <2> QED BY <1>0, <1>4, <2>2 DEF QueueTypes
<1>6. ThreadTypes' /\ CopiedDirectly' /\ HandedOver'
  <2>1. ThreadTypes'
    BY <1>0 DEF ThreadTypes
  <2> QED BY <1>0, <2>1, StillSame DEF CopiedDirectly, HandedOver
<1>7. OwnPackets'
  <2>1. ASSUME NEW e \in Demuxers, NEW y \in todo'[e] PROVE top.src[y[1]] = e /\ y[2] \in {0, read'[y[1]]}
    <3>1. CASE e = d
      BY <1>2, <1>4, <2>1, <3>1
    <3>2. CASE e # d
      <4>1. y \in todo[e] /\ top.src[y[1]] = e /\ y[2] \in {0, read[y[1]]} /\ y[1] \in Streams
        <5>1. y \in todo[e] /\ todo[e] \subseteq Streams \X Nat
          BY <1>4, <2>1, <3>2 DEF QueueTypes
        <5> QED BY <5>1 DEF OwnPackets
      <4> QED BY <1>2, <1>4, <3>2, <4>1
    <3> QED BY <3>1, <3>2
  <2> QED BY <1>0, <2>1 DEF OwnPackets
<1>8. ASSUME NEW t \in Used, t # s PROVE Sorted(Line(t)')
  <2>1. t \in Streams /\ top.src[t] \in Demuxers /\ Muxing(t)' = Muxing(t)
    BY <1>0, UsedIs, StillSame DEF Used, QueueTypes
  <2>2. Coming(t)' = Coming(t)
    BY <1>4, <1>8, <2>1 DEF Coming
  <2>3. Sending(t)' = Sending(t) \/ Sending(t)' = <<>>
    BY <1>0, <1>4, <1>8, <2>1 DEF Sending
  <2>4. Less(Sending(t)', Sending(t))
    BY <2>3 DEF Less
  <2>5. /\ written'[t] = written[t] /\ pre'[t] = pre[t] /\ encout'[t] = encout[t] /\ held'[t] = held[t]
        /\ encq'[t] = encq[t] /\ fgq'[t] = fgq[t] /\ decq'[t] = decq[t]
    BY <1>0
  <2> QED BY <2>1, <2>2, <2>4, <2>5, LessSelf, StepLess
<1>9. Sorted(Line(s)')
  <2> DEFINE l == Line(s)
             l2 == Line(s)'
  <2>1. l[10] = <<x + 1>> /\ l2[10] = <<x + 2>> /\ l2[9] = <<x + 1>>
    <3>1. Coming(s) = <<x + 1>>
      BY <1>3 DEF Coming
    <3>2. Coming(s)' = <<x + 2>>
      <4>1. Coming(s)' = <<read'[s] + 1>>
        BY DEF Coming
      <4>2. read'[s] + 1 = x + 2
        BY <1>4
      <4> QED BY <4>1, <4>2
    <3>3. Sending(s)' = <<x + 1>>
      BY <1>0, <1>2, <1>4 DEF Sending
    <3> QED BY <3>1, <3>2, <3>3, LineAt, LineAtNext
  <2>2. Muxing(s)' = Muxing(s)
    BY <1>0, StillSame
  <2>3. l2[2] = l[2]
    BY <2>2, LineAt, LineAtNext
  <2>4. l2[1] = l[1] /\ l2[3] = l[3] /\ l2[4] = l[4] /\ l2[5] = l[5] /\ l2[6] = l[6] /\ l2[7] = l[7] /\ l2[8] = l[8]
    BY <1>0, LineAt, LineAtNext
  <2>5. Ok(l)
    BY <1>2, LineOk
  <2> HIDE DEF l, l2
  <2>6. \A k \in 1 .. 8 : l2[k] = l[k]
    <3>1. \A k \in 1 .. 8 : k = 1 \/ k = 2 \/ k = 3 \/ k = 4 \/ k = 5 \/ k = 6 \/ k = 7 \/ k = 8
      OBVIOUS
    <3> QED BY <2>3, <2>4, <3>1
  <2>7. Sorted(l2)
    BY <2>1, <2>5, <2>6, LineRead DEF Ok
  <2> QED BY <2>7 DEF l2
<1>10. InOrder'
  BY <1>0, <1>8, <1>9, StillSame DEF InOrder
<1> QED BY <1>5, <1>6, <1>7, <1>10

(* What is left to send changes, nothing else *)
LEMMA TodoInOrder ==
  ASSUME PInv, UNCHANGED <<top, read, decq, decout, fgq, encq, encout, held, muxq, written>>,
         UNCHANGED <<pre, decpc, fgpc, encpc, preOpen, started, drain, rpc>>,
         dpc' \in [Demuxers -> {"none", "read", "asleep", "send", "ends", "done"}],
         NEW d \in Demuxers, NEW T, todo' = [todo EXCEPT ![d] = T],
         T \subseteq todo[d] \cup {<<s, 0>> : s \in Fed(d)}
  PROVE  PInv'
<1> USE DEF PInv
<1>0. T \subseteq Streams \X Nat /\ \A y \in T : top.src[y[1]] = d /\ y[2] \in {0, read[y[1]]}
  BY DEF QueueTypes, OwnPackets, Fed
<1>1. todo'[d] = T /\ \A e \in Demuxers \ {d} : todo'[e] = todo[e]
  BY DEF QueueTypes
<1>2. QueueTypes'
  BY <1>0 DEF QueueTypes
<1>3. ThreadTypes'
  BY DEF ThreadTypes
<1>4. CopiedDirectly' /\ HandedOver'
  BY StillSame DEF CopiedDirectly, HandedOver
<1>5. OwnPackets'
  BY <1>0, <1>1 DEF OwnPackets
<1>6. ASSUME NEW t \in Used PROVE Sorted(Line(t)')
  <2>1. t \in Streams /\ top.src[t] \in Demuxers /\ Muxing(t)' = Muxing(t) /\ Coming(t)' = Coming(t)
    BY UsedIs, StillSame DEF Used, QueueTypes, Coming
  <2>2. Sending(t)' = Sending(t) \/ Sending(t)' = <<>> \/ Sending(t)' = <<0>>
    <3>1. CASE top.src[t] # d
      BY <1>1, <2>1, <3>1 DEF Sending
    <3>2. CASE top.src[t] = d
      BY <1>1, <2>1, <3>2 DEF Sending
    <3> QED BY <3>1, <3>2
  <2>3. Less(Sending(t)', Sending(t))
    BY <2>2 DEF Less
  <2> QED BY <2>1, <2>3, LessSelf, StepLess
<1>7. InOrder'
  BY <1>6, StillSame DEF InOrder
<1> QED BY <1>2, <1>3, <1>4, <1>5, <1>7

LEMMA DemuxLeaveInOrder ==
  ASSUME MInv, PInv, NEW d \in Demuxers, DemuxStop(d) \/ DemuxEof(d) \/ DemuxFail(d) \/ DemuxWake(d)
  PROVE  PInv'
<1> USE DEF demux_vars, dec_vars, fg_vars, enc_vars, pre_vars, ready_vars, mux_vars
<1>0. /\ UNCHANGED <<top, read, decq, decout, fgq, encq, encout, held, muxq, written>>
      /\ UNCHANGED <<pre, decpc, fgpc, encpc, preOpen, started, drain, rpc>>
  BY DEF DemuxStop, DemuxEof, DemuxFail, DemuxWake
<1>1. dpc \in [Demuxers -> {"none", "read", "asleep", "send", "ends", "done"}] /\ todo = [todo EXCEPT ![d] = todo[d]]
  BY DEF PInv, ThreadTypes, QueueTypes
<1>2. CASE DemuxLeave(d)
  <2>1. dpc' \in [Demuxers -> {"none", "read", "asleep", "send", "ends", "done"}]
    BY <1>1, <1>2 DEF DemuxLeave
  <2>2. PICK T : todo' = [todo EXCEPT ![d] = T] /\ T \subseteq Ends(d)
    <3> DEFINE T == IF \E s \in Fed(d) : read[s] > 0 THEN Ends(d) ELSE {}
    <3>1. todo' = [todo EXCEPT ![d] = T]
      BY <1>2 DEF DemuxLeave
    <3>2. T \subseteq Ends(d)
      OBVIOUS
    <3> HIDE DEF T
    <3> QED BY <3>1, <3>2
  <2>3. T \subseteq todo[d] \cup {<<s, 0>> : s \in Fed(d)}
    BY <2>2 DEF Ends, End
  <2> QED BY <1>0, <2>1, <2>2, <2>3, TodoInOrder
<1>3. CASE dpc' = [dpc EXCEPT ![d] = "send"] /\ todo' = todo
  <2>1. dpc' \in [Demuxers -> {"none", "read", "asleep", "send", "ends", "done"}]
    BY <1>1, <1>3
  <2> QED BY <1>0, <1>1, <1>3, <2>1, TodoInOrder
<1> QED BY <1>2, <1>3 DEF DemuxStop, DemuxEof, DemuxFail, DemuxWake

LEMMA DemuxSendInOrder ==
  ASSUME MInv, PInv, NEW d \in Demuxers, DemuxSend(d)
  PROVE  PInv'
<1> USE DEF PInv, demux_vars, dec_vars, fg_vars, enc_vars, pre_vars, ready_vars, mux_vars
<1>0. /\ todo[d] # {}
      /\ UNCHANGED <<top, read, decpc, decout, fgq, fgpc, encq, encpc, encout, held, pre, preOpen, drain, rpc, started, written>>
  BY DEF DemuxSend
<1>1. todo[d] \subseteq Streams \X Nat /\ Soonest(todo[d]) \in todo[d]
  <2>1. todo[d] \subseteq Streams \X Nat
    BY DEF QueueTypes
  <2> QED BY <1>0, <2>1, SoonestIn
<1>2. PICK s, p : Soonest(todo[d]) = <<s, p>> /\ s \in Streams /\ p \in Nat /\ <<s, p>> \in todo[d] /\ top.src[s] = d /\ p \in {0, read[s]}
  <2>1. PICK s \in Streams, p \in Nat : Soonest(todo[d]) = <<s, p>>
    BY <1>1
  <2>2. \A x \in todo[d] : top.src[x[1]] = d /\ x[2] \in {0, read[x[1]]}
    BY DEF OwnPackets
  <2>3. top.src[s] = d /\ p \in {0, read[s]}
    BY <1>1, <2>1, <2>2
  <2> QED BY <1>1, <2>1, <2>3
<1>3. s \in Used /\ top.mux[s] \in Muxers
  BY <1>2, UsedIs DEF QueueTypes
<1>4. PICK T : T \subseteq todo[d] \ {<<s, p>>} /\ todo' = [todo EXCEPT ![d] = T]
  <2>1. todo' = [todo EXCEPT ![d] = todo[d] \ {<<s, p>>}] \/ todo' = [todo EXCEPT ![d] = {}]
    BY <1>2 DEF DemuxSend
  <2> QED BY <2>1
<1>5. dpc' \in [Demuxers -> {"none", "read", "asleep", "send", "ends", "done"}]
  BY DEF DemuxSend, ThreadTypes
<1>6. /\ todo'[d] = T /\ \A e \in Demuxers \ {d} : todo'[e] = todo[e]
      /\ todo' \in [Demuxers -> SUBSET (Streams \X Nat)]
  <2>1. T \subseteq Streams \X Nat
    BY <1>1, <1>4
  <2> QED BY <1>4, <2>1 DEF QueueTypes
<1>7. \/ decq' = decq /\ muxq' = muxq
      \/ decq' = [decq EXCEPT ![s] = Append(@, p)] /\ muxq' = muxq /\ Encoded(s)
      \/ decq' = decq /\ muxq' = [muxq EXCEPT ![top.mux[s]] = Append(@, <<s, p>>)] /\ ~Encoded(s)
  <2>1. Soonest(todo[d])[1] = s /\ Soonest(todo[d])[2] = p
    BY <1>2
  <2> QED BY <2>1 DEF DemuxSend
<1>8. CASE decq' = decq /\ muxq' = muxq
  <2>1. T \subseteq todo[d] \cup {<<t, 0>> : t \in Fed(d)}
    BY <1>4
  <2> QED BY <1>0, <1>4, <1>5, <1>8, <2>1, TodoInOrder
<1>9. ThreadTypes' /\ HandedOver'
  <2>1. ThreadTypes'
    BY <1>0, <1>5 DEF ThreadTypes
  <2> QED BY <1>0, <2>1, StillSame DEF HandedOver
<1>10. \A e \in Demuxers : \A x \in todo'[e] : top.src[x[1]] = e /\ x[2] \in {0, read[x[1]]}
  BY <1>4, <1>6 DEF OwnPackets
<1>11. ASSUME NEW t \in Used
       PROVE  /\ t \in Streams /\ Coming(t)' = Coming(t)
              /\ Sending(t)' = Sending(t) \/ Sending(t)' = <<>>
              /\ Less(Sending(t)', Sending(t))
  <2>1. t \in Streams /\ top.src[t] \in Demuxers /\ Coming(t)' = Coming(t)
    BY <1>0, UsedIs DEF Used, QueueTypes, Coming
  <2>2. Sending(t)' = Sending(t) \/ Sending(t)' = <<>>
    <3>1. CASE top.src[t] # d
      BY <1>0, <1>6, <2>1, <3>1 DEF Sending
    <3>2. CASE top.src[t] = d
      BY <1>0, <1>4, <1>6, <2>1, <3>2 DEF Sending
    <3> QED BY <3>1, <3>2
  <2> QED BY <2>1, <2>2 DEF Less
<1>12. p # 0 => Sending(s) = <<p>> /\ Sending(s)' = <<>>
  <2>1. ASSUME p # 0 PROVE p = read[s]
    BY <1>2, <2>1
  <2> QED BY <1>0, <1>2, <1>4, <1>6, <2>1 DEF Sending
<1> DEFINE l == Line(s)
           l2 == Line(s)'
<1>13. l[9] = Sending(s) /\ l2[9] = Sending(s)' /\ l2[10] = l[10] /\ l[2] = Muxing(s) /\ l2[2] = Muxing(s)' /\ l[8] = decq[s] /\ l2[8] = decq'[s]
  BY <1>3, <1>11, LineAt, LineAtNext
<1>14. l2[1] = l[1] /\ l2[3] = l[3] /\ l2[4] = l[4] /\ l2[5] = l[5] /\ l2[6] = l[6] /\ l2[7] = l[7]
  BY <1>0, LineAt, LineAtNext
<1>15. p # 0 => l[9] # <<>> /\ l2[9] = Tail(l[9]) /\ Head(l[9]) = p
  <2> HIDE DEF l, l2
  <2>1. <<p>> # <<>> /\ Tail(<<p>>) = <<>> /\ Head(<<p>>) = p
    OBVIOUS
  <2> QED BY <1>12, <1>13, <2>1
<1> HIDE DEF l, l2
<1>16. CASE decq' = [decq EXCEPT ![s] = Append(@, p)] /\ muxq' = muxq /\ Encoded(s)
  <2>1. decq[s] \in Seq(Nat) /\ Append(decq[s], p) \in Seq(Nat) /\ decq'[s] = Append(decq[s], p) /\ \A t \in Streams \ {s} : decq'[t] = decq[t]
    BY <1>2, <1>16 DEF QueueTypes
  <2>2. QueueTypes'
    BY <1>0, <1>6, <1>16, <2>1 DEF QueueTypes
  <2>3. OwnPackets'
    BY <1>0, <1>10, <1>16 DEF OwnPackets
  <2>4. CopiedDirectly'
    BY <1>0, <1>16, <2>1, StillSame DEF CopiedDirectly
  <2>5. \A t : Muxing(t)' = Muxing(t)
    BY <1>0, <1>16, StillSame
  <2>6. ASSUME NEW t \in Used, Less(decq'[t], decq[t]) PROVE Sorted(Line(t)')
    BY <1>0, <1>11, <2>5, <2>6, LessSelf, StepLess
  <2>7. ASSUME NEW t \in Used, t # s PROVE Sorted(Line(t)')
    BY <1>11, <2>1, <2>6, <2>7, LessSelf
  <2>8. Sorted(Line(s)')
    <3>1. CASE p = 0
      <4>1. Less(decq'[s], decq[s])
        BY <2>1, <3>1 DEF Less
      <4> QED BY <1>3, <2>6, <4>1
    <3>2. CASE p # 0
      <4>1. l2[8] = Append(l[8], Head(l[9])) /\ l2[2] = l[2]
        BY <1>13, <1>15, <2>1, <2>5, <3>2
      <4>2. Moved(l, l2, 9, 8)
        <5>1. l[9] # <<>> /\ l2[9] = Tail(l[9])
          BY <1>15, <3>2
        <5>2. l2[10] = l[10]
          BY <1>13
        <5> QED BY <1>14, <4>1, <5>1, <5>2, MovedAt DEF Places
      <4> QED BY <1>3, <4>2, StepMoved DEF l, l2, Places
    <3> QED BY <3>1, <3>2
  <2>9. InOrder'
    BY <1>0, <2>7, <2>8, StillSame DEF InOrder
  <2> QED BY <1>9, <2>2, <2>3, <2>4, <2>9
<1>17. CASE decq' = decq /\ muxq' = [muxq EXCEPT ![top.mux[s]] = Append(@, <<s, p>>)] /\ ~Encoded(s)
  <2>1. muxq' \in [Muxers -> Seq(Streams \X Nat)] /\ \A n \in Muxers : \A i \in DOMAIN muxq'[n] : top.mux[muxq'[n][i][1]] = n
    BY <1>0, <1>2, <1>3, <1>17, OwnAppended
  <2>2. QueueTypes'
    BY <1>0, <1>6, <1>17, <2>1 DEF QueueTypes
  <2>3. OwnPackets'
    BY <1>0, <1>10, <2>1 DEF OwnPackets
  <2>4. CopiedDirectly'
    BY <1>0, <1>17, StillSame DEF CopiedDirectly
  <2>5. ASSUME NEW t \in Used, Less(Muxing(t)', Muxing(t)) PROVE Sorted(Line(t)')
    BY <1>0, <1>11, <1>17, <2>5, LessSelf, StepLess
  <2>6. ASSUME NEW t \in Used, t # s PROVE Sorted(Line(t)')
    <3>1. Muxing(t)' = Muxing(t) \/ Muxing(t)' = Append(Muxing(t), 0)
      BY <1>0, <1>2, <1>3, <1>17, <2>6, MuxAppended
    <3>2. Less(Muxing(t)', Muxing(t))
      BY <3>1 DEF Less
    <3> QED BY <2>5, <3>2
  <2>7. Muxing(s)' = Append(Muxing(s), p)
    BY <1>0, <1>2, <1>3, <1>17, MuxAppended
  <2>8. Sorted(Line(s)')
    <3>1. CASE p = 0
      <4>1. Less(Muxing(s)', Muxing(s))
        BY <2>7, <3>1 DEF Less
      <4> QED BY <1>3, <2>5, <4>1
    <3>2. CASE p # 0
      <4>1. l2[2] = Append(l[2], Head(l[9])) /\ l2[8] = l[8]
        BY <1>13, <1>15, <1>17, <2>7, <3>2
      <4>2. l[3] = <<>> /\ l[4] = <<>> /\ l[5] = <<>> /\ l[6] = <<>> /\ l[7] = <<>> /\ l[8] = <<>>
        BY <1>2, <1>17, LineAt DEF CopiedDirectly, l
      <4>3. \A k \in Places : 2 < k /\ k < 9 => l[k] = <<>>
        BY <4>2 DEF Places
      <4>4. Moved(l, l2, 9, 2)
        <5>1. l[9] # <<>> /\ l2[9] = Tail(l[9])
          BY <1>15, <3>2
        <5>2. l2[10] = l[10]
          BY <1>13
        <5> QED BY <1>14, <4>1, <4>3, <5>1, <5>2, MovedAt DEF Places
      <4> QED BY <1>3, <4>4, StepMoved DEF l, l2, Places
    <3> QED BY <3>1, <3>2
  <2>9. InOrder'
    BY <1>0, <2>6, <2>8, StillSame DEF InOrder
  <2> QED BY <1>9, <2>2, <2>3, <2>4, <2>9
<1> QED BY <1>7, <1>8, <1>16, <1>17

-----------------------------------------------------------------------------
LEMMA PInvInit == Init => PInv
<1> SUFFICES ASSUME Init PROVE PInv
  OBVIOUS
<1>1. QueueTypes
  BY DEF Init, QueueTypes, Holds
<1>2. ThreadTypes /\ OwnPackets /\ CopiedDirectly
  BY DEF Init, ThreadTypes, OwnPackets, CopiedDirectly, None
<1>3. HandedOver
  BY DEF Init, HandedOver, None, StreamsOf
<1>4. ASSUME NEW s \in Used PROVE Sorted(Line(s))
  <2> DEFINE l == Line(s)
  <2>0. s \in Streams /\ top.src[s] \in Demuxers /\ top.mux[s] \in Muxers
    BY UsedIs DEF Used, Init
  <2>1. Muxing(s) = <<>>
    <3>1. muxq[top.mux[s]] = <<>>
      BY <2>0 DEF Init
    <3>2. DOMAIN Muxing(s) = {} /\ Len(Muxing(s)) = 0 /\ Muxing(s) \in Seq(Nat)
      BY <1>1, <3>1, MuxingIs
    <3> QED BY <3>2
  <2>2. Sending(s) = <<>>
    BY <2>0 DEF Init, Sending
  <2>3. /\ l[1] = <<>> /\ l[2] = <<>> /\ l[3] = <<>> /\ l[4] = <<>> /\ l[5] = <<>> /\ l[6] = <<>>
        /\ l[7] = <<>> /\ l[8] = <<>> /\ l[9] = <<>>
    BY <2>0, <2>1, <2>2, LineAt DEF Init
  <2>4. l[10] = Coming(s) /\ \A i, j \in DOMAIN Coming(s) : i = j /\ i = 1
    BY LineAt DEF Coming
  <2> HIDE DEF l
  <2>5. \A k \in Places : k = 10 \/ l[k] = <<>>
    BY <2>3, PlaceCases
  <2>6. \A k \in Places : Rises(l[k])
    BY <2>4, <2>5 DEF Rises
  <2>7. \A j, k \in Places : j < k => Under(l[j], l[k])
    <3>1. ASSUME NEW j \in Places, NEW k \in Places, j < k PROVE Under(l[j], l[k])
      <4>1. l[j] = <<>>
        BY <2>5, <3>1 DEF Places
      <4> QED BY <4>1 DEF Under
    <3> QED BY <3>1
  <2>8. Sorted(l)
    BY <2>6, <2>7 DEF Sorted
  <2> QED BY <2>8 DEF l
<1> QED BY <1>1, <1>2, <1>3, <1>4 DEF PInv, InOrder

LEMMA PInvStep == MInv /\ PInv /\ [Next]_vars => PInv'
<1> SUFFICES ASSUME MInv, PInv, [Next]_vars PROVE PInv'
  OBVIOUS
<1>1. CASE UNCHANGED vars
  <2>1. Still /\ UNCHANGED <<pre, decpc, fgpc, encpc, preOpen, started, drain, rpc, dpc>>
    BY <1>1 DEF Still, vars, demux_vars, dec_vars, fg_vars, enc_vars, pre_vars, ready_vars, mux_vars
  <2> QED BY <2>1, NothingMoves DEF PInv, ThreadTypes
<1>2. ASSUME NEW d \in Demuxers, Demux(d) \/ DemuxFail(d) PROVE PInv'
  BY <1>2, DemuxReadInOrder, DemuxLeaveInOrder, DemuxSendInOrder DEF Demux
<1>3. ASSUME NEW s \in Streams, Dec(s) \/ Fg(s) \/ Enc(s) PROVE PInv'
  BY <1>3, DecInOrder, FgInOrder, EncInOrder, EncSendInOrder DEF Enc
<1>4. ASSUME NEW m \in Muxers, ReadyThread(m) \/ Mux(m) \/ ReadyOpenFails(m) PROVE PInv'
  BY <1>4, ReadyInOrder, DrainMoveInOrder, MuxInOrder DEF ReadyThread
<1>5. CASE ClientCalls \/ ClientGoesOn
  BY <1>5, ClientInOrder
<1> QED BY <1>1, <1>2, <1>3, <1>4, <1>5 DEF Next, Threads

(* Nothing is written for a stream that the job does not use *)
Unused == \A s \in Streams : s \notin Used => written[s] = <<>>

LEMMA UnusedStep == MInv /\ PInv /\ Unused /\ [Next]_vars => Unused'
<1> SUFFICES ASSUME MInv, PInv, Unused, [Next]_vars PROVE Unused'
  OBVIOUS
<1> USE DEF demux_vars, dec_vars, fg_vars, enc_vars, pre_vars, ready_vars, mux_vars
<1>0. ASSUME top' = top, written' = written PROVE Unused'
  BY <1>0, StillSame DEF Unused
<1>1. CASE UNCHANGED vars
  BY <1>0, <1>1 DEF vars
<1>2. ASSUME NEW d \in Demuxers, Demux(d) \/ DemuxFail(d) PROVE Unused'
  BY <1>0, <1>2 DEF Demux, DemuxRead, DemuxStop, DemuxEof, DemuxFail, DemuxWake, DemuxSend
<1>3. ASSUME NEW s \in Streams, Dec(s) \/ Fg(s) \/ Enc(s) PROVE Unused'
  BY <1>0, <1>3 DEF Dec, Fg, Enc, DecRecv, DecLeave, DecEnd, FgRecv, FgLeave, FgEnd, EncOpen, EncRecv, EncLeave, EncSend
<1>4. ASSUME NEW m \in Muxers, ReadyThread(m) \/ ReadyOpenFails(m) PROVE Unused'
  BY <1>0, <1>4 DEF ReadyThread, ReadyOpenFails, ReadyRecv, ReadyStop, ReadyGone, ReadyOpen, ReadyEnd, DrainMove, DrainDrop, DrainDone
<1>5. ASSUME NEW m \in Muxers, Mux(m) PROVE Unused'
  <2>1. CASE MuxPacket(m)
    <3>0. muxq[m] # <<>> /\ muxq' = [muxq EXCEPT ![m] = Tail(@)] /\ top' = top
      BY <2>1 DEF MuxPacket
    <3>1. PICK s \in Streams : s = Head(muxq[m])[1] /\ top.mux[s] = m
      <4>1. Head(muxq[m]) \in Streams \X Nat /\ top.mux[Head(muxq[m])[1]] = m
        BY <3>0, OwnTaken DEF PInv
      <4> DEFINE x == Head(muxq[m])
      <4>2. x[1] \in Streams
        BY <4>1
      <4> QED BY <4>1, <4>2
    <3>2. s \in Used
      BY <3>1, UsedIs DEF PInv, QueueTypes
    <3>3. \A t \in Streams \ {s} : written'[t] = written[t]
      BY <2>1, <3>1 DEF MuxPacket, PInv, QueueTypes
    <3> QED BY <3>0, <3>2, <3>3, StillSame DEF Unused
  <2>2. CASE MuxStreamEnd(m) \/ MuxLeave(m) \/ MuxTrailer(m) \/ MuxCount(m) \/ MuxEnd(m)
    BY <1>0, <2>2 DEF MuxStreamEnd, MuxLeave, MuxTrailer, MuxCount, MuxEnd
  <2> QED BY <1>5, <2>1, <2>2 DEF Mux
<1>6. CASE Start \/ StartFails
  BY <1>0, <1>6 DEF Start, StartFails, Spawn
<1>7. CASE ClientOnly
  BY <1>0, <1>7 DEF ClientOnly, thread_vars
<1>8. ClientCalls \/ ClientGoesOn => (Start \/ StartFails) \/ ClientOnly
  BY DEF ClientCalls, ClientGoesOn, Pause, PauseStore, Resume, ResumeStore, Wait, Joined, TakeResult, Poll, PollArm, PollWoken,
     Stop, Stopped, Abort, Drop, Dropped
<1> QED BY <1>1, <1>2, <1>3, <1>4, <1>5, <1>6, <1>7, <1>8 DEF Next, Threads

LEMMA LineWritten == PInv /\ Unused => WrittenInOrder
<1> SUFFICES ASSUME PInv, Unused, NEW s \in Streams, NEW i \in DOMAIN written[s], NEW j \in DOMAIN written[s], i < j
             PROVE  written[s][i] < written[s][j]
  BY DEF WrittenInOrder
<1>1. written[s][i] \in Nat \ {0} /\ written[s][j] \in Nat \ {0} /\ written[s] # <<>>
  <2>1. written[s] \in Seq(Nat \ {0})
    BY DEF PInv, QueueTypes
  <2> QED BY <2>1
<1>2. Rises(written[s])
  <2>1. s \in Used
    BY <1>1 DEF Unused
  <2>2. Rises(Line(s)[1])
    BY <2>1 DEF PInv, InOrder, Sorted, Places
  <2> QED BY <2>2, LineAt
<1> QED BY <1>1, <1>2 DEF Rises

(* Each file holds the packets of its stream in their order and none of    *)
(* them twice, in every job and for every number of streams and muxers:    *)
(* no interleaving of demuxers, decoders, filter graphs, encoders, the     *)
(* threads that move the queues of a muxer over and the muxers lets one    *)
(* packet overtake another.                                                *)
THEOREM PacketsInOrder == Spec => []WrittenInOrder
<1>1. Init => Unused
  BY DEF Init, Unused
<1> QED BY <1>1, MInvInit, MInvStep, PInvInit, PInvStep, UnusedStep, LineWritten, PTL DEF Spec
=============================================================================
