---------------------------- MODULE RtmpServer -----------------------------
(* The embedded RTMP server of crates/ez-ffmpeg/src/rtmp: publishers in    *)
(* the process and players on sockets meet in one worker thread. A turn of *)
(* the worker takes one new connection or publisher, polls every publisher *)
(* and then every connection until it has nothing more to say, and at last *)
(* writes the packets and closes what is to be closed. A queue between a   *)
(* thread and the worker is modelled by when the worker finds its next     *)
(* element there; the RTMP session (handshake, chunks, commands) by the    *)
(* events it raises.                                                       *)
EXTENDS Naturals, Sequences, FiniteSets

CONSTANTS
  StreamKeys,
  UniqueKeys,      \* the application gives no key to two publishers at a time
  OnePlay,         \* a player plays one stream in its connection
  RtmpCases        \* gop_limit and the bounds of a run: [limit, scripts, publishers, sockets, playing]
\* scripts: what a publisher may send, sequences of SentKinds;
\* playing: connections at a time; publishers, sockets: how many come in all

(* What an encoder sends starts with a keyframe: no other picture can be   *)
(* the first.                                                              *)
SentKinds == {"meta", "vhdr", "ahdr", "key", "inter", "audio"}
ASSUME RtmpAssumption ==
  \A of \in RtmpCases : /\ of.limit \in Nat
                       /\ \A s \in of.scripts : /\ s \in Seq(SentKinds)
                                                /\ \A i \in DOMAIN s : s[i] = "inter" => \E j \in 1 .. i - 1 : s[j] = "key"

VARIABLE rtmp
\* conns, pubs, clients: slabs, functions on the ids in use; conn_map, pub_map: to client ids
\* stage, left: where the worker is in its turn, and the ids it has still to look at there
\* clear, pclear: the connections and publishers that go at the end of the turn
\* log, sent: what was written to a connection, and what is to be written in this turn
\* ended: the connections closed in this turn

NoEntry == [i \in {} |-> 0]
NewChannel == [watchers |-> {}, meta |-> <<>>, vhdr |-> <<>>, ahdr |-> <<>>, saved |-> <<>>, starts |-> <<1>>]
NewRtmps ==
  {[of |-> of, stage |-> "select", left |-> {}, conns |-> NoEntry, pubs |-> NoEntry, clients |-> NoEntry,
    conn_map |-> NoEntry, pub_map |-> NoEntry, channels |-> NoEntry, clear |-> {}, pclear |-> {},
    made |-> 0, sockets |-> 0, ended |-> {}] : of \in RtmpCases}
RtmpInit == rtmp \in NewRtmps

(* The keys a slab may give to a new entry *)
Vacant(slab) == (0 .. Cardinality(DOMAIN slab)) \ DOMAIN slab
Adding(f, id, entry) == [i \in DOMAIN f \cup {id} |-> IF i = id THEN entry ELSE f[i]]
Dropping(f, id) == [i \in DOMAIN f \ {id} |-> f[i]]

-----------------------------------------------------------------------------

(* Gops::save_frame_data: the frames saved, and where in them each group   *)
(* starts. A keyframe opens a group, the oldest goes.                      *)
save_frame_data(ch, frame, limit) ==
  LET cut == IF frame.kind # "key" \/ Len(ch.starts) # limit THEN 0
             ELSE IF Len(ch.starts) = 1 THEN Len(ch.saved) ELSE ch.starts[2] - 1
      groups == IF frame.kind # "key" \/ Len(ch.starts) # limit THEN ch.starts
                ELSE [g \in 1 .. Len(ch.starts) - 1 |-> ch.starts[g + 1] - cut]
  IN  IF limit = 0 THEN ch
      ELSE [ch EXCEPT !.saved = Append(SubSeq(@, cut + 1, Len(@)), frame),
                      !.starts = IF frame.kind = "key" THEN Append(groups, Len(ch.saved) - cut + 1) ELSE @]

Watching(s, key) == {c \in s.channels[key].watchers : c \in DOMAIN s.clients /\ s.clients[c].action = "watching"}
(* The packets for the connections of clients *)
Out(s, clients, packet) ==
  [i \in DOMAIN s.conns |-> IF i \in {s.clients[c].conn : c \in clients} THEN [s.conns[i] EXCEPT !.sent = Append(@, packet)]
                            ELSE s.conns[i]]

(* handle_metadata_received and handle_audio_video_data_received: the      *)
(* headers are kept for those who come late, the frames in the groups, and *)
(* a player gets frames from its first keyframe on                         *)
Keeping(ch, frame, limit) ==
  LET head == <<[frame EXCEPT !.early = TRUE]>>
  IN  IF frame.kind = "meta" THEN [ch EXCEPT !.meta = head]
      ELSE [save_frame_data(ch, frame, limit) EXCEPT !.vhdr = IF frame.kind = "vhdr" THEN head ELSE @,
                                                      !.ahdr = IF frame.kind = "ahdr" THEN head ELSE @]
handle_data(s, key, frame) ==
  LET to == {c \in Watching(s, key) : s.clients[c].got_key \/ frame.kind \in {"meta", "vhdr", "ahdr", "key"}}
      clients == [c \in DOMAIN s.clients |-> [s.clients[c] EXCEPT !.got_key = @ \/ (c \in to /\ frame.kind = "key")]]
  IN  IF key \notin DOMAIN s.channels THEN s
      ELSE [s EXCEPT !.channels[key] = Keeping(@, frame, s.of.limit), !.conns = Out(s, to, frame), !.clients = clients]

(* handle_publish_finished: every player of the stream is told and closed  *)
handle_publish_finished(s, key, end) ==
  [s EXCEPT !.conns = Out(s, Watching(s, key), end), !.clear = @ \cup {s.clients[c].conn : c \in Watching(s, key)}]

(* handle_play_requested: the player is listed, and catches up with the    *)
(* headers and the saved groups                                            *)
handle_play_requested(s, id, key) ==
  LET c == s.conn_map[id]
      ch == IF key \in DOMAIN s.channels THEN s.channels[key] ELSE NewChannel
      listing == [ch EXCEPT !.watchers = @ \cup {c}]
      player == [s.clients[c] EXCEPT !.action = "watching", !.key = key, !.got_key = @ \/ ch.saved # <<>>]
  IN  [s EXCEPT !.channels = Adding(@, key, listing), !.clients[c] = player,
                !.conns[id].sent = @ \o (ch.meta \o ch.vhdr \o ch.ahdr) \o ch.saved]

\* A mutant: the list of a stream keeps the players that left.
ClosedStaysListed(s, id) ==
  IF id \notin DOMAIN s.conn_map THEN s
  ELSE [s EXCEPT !.conn_map = Dropping(@, id), !.clients = Dropping(@, s.conn_map[id])]

play_ended(s, key, c) == [s EXCEPT !.channels[key].watchers = @ \ {c}]
(* The groups and the sequence headers stay *)
publishing_ended(s, key) == [s EXCEPT !.channels[key].meta = <<>>]

notify_connection_closed(s, id) ==
  LET c == s.conn_map[id]
      client == s.clients[c]
      gone == [s EXCEPT !.conn_map = Dropping(@, id), !.clients = Dropping(@, c)]
  IN  IF id \notin DOMAIN s.conn_map THEN s
      ELSE IF client.action = "watching" THEN play_ended(gone, client.key, c) ELSE gone

notify_publisher_closed(s, id) ==
  LET c == s.pub_map[id]
  IN  publishing_ended([s EXCEPT !.pub_map = Dropping(@, id), !.clients = Dropping(@, c)], s.clients[c].key)

-----------------------------------------------------------------------------
(* The worker's turn: handle_connections. In between the keys of the       *)
(* streams are compared with a set nothing is ever added to, and with a    *)
(* publishing_client_id nothing ever sets: no key is refused.              *)
StartTurn(s) == [s EXCEPT !.stage = "pubs", !.left = DOMAIN s.pubs, !.ended = {}]

NewConnection(id) ==
  /\ rtmp.stage = "select" /\ rtmp.sockets < rtmp.of.sockets /\ Cardinality(DOMAIN rtmp.conns) < rtmp.of.playing
  /\ id \in Vacant(rtmp.conns)
  /\ rtmp' = StartTurn([rtmp EXCEPT !.conns = Adding(@, id, [open |-> FALSE, log |-> <<>>, sent |-> <<>>, lossy |-> FALSE]),
                                    !.sockets = @ + 1])

(* create_stream_sender and new_channel *)
NewPublisher(id, c, key, script) ==
  /\ rtmp.stage = "select" /\ rtmp.made < rtmp.of.publishers
  /\ id \in Vacant(rtmp.pubs) /\ c \in Vacant(rtmp.clients)
  /\ UniqueKeys => \A p \in DOMAIN rtmp.pubs : rtmp.pubs[p].key # key
  /\ rtmp' = StartTurn([rtmp EXCEPT
       !.pubs = Adding(@, id, [key |-> key, script |-> script, at |-> 0, n |-> 0, serial |-> rtmp.made + 1]),
       !.made = @ + 1,
       !.clients = Adding(@, c, [action |-> "publishing", key |-> key, conn |-> id, got_key |-> FALSE]),
       !.pub_map = Adding(@, id, c),
       !.channels = IF key \in DOMAIN @ THEN @ ELSE Adding(@, key, NewChannel)])

NothingNew == rtmp.stage = "select" /\ DOMAIN rtmp.conns \cup DOMAIN rtmp.pubs # {} /\ rtmp' = StartTurn(rtmp)

(* stop, seen by the worker after its select; all it owns is dropped       *)
StopServer ==
  /\ rtmp.stage = "select"
  /\ rtmp' = [rtmp EXCEPT !.stage = "end", !.conns = NoEntry, !.pubs = NoEntry, !.clients = NoEntry,
                          !.conn_map = NoEntry, !.pub_map = NoEntry, !.channels = NoEntry, !.ended = {}]

(* Slabs are gone through from the lowest id to the highest.               *)
LooksAt(stage, id) == rtmp.stage = stage /\ id \in rtmp.left /\ \A j \in rtmp.left : id <= j
Past(s, id) == [s EXCEPT !.left = @ \ {id}]
Onward(stage, next, ids) == rtmp.stage = stage /\ rtmp.left = {} /\ rtmp' = [rtmp EXCEPT !.stage = next, !.left = ids]

PublisherEmpty(id) == LooksAt("pubs", id) /\ rtmp' = Past(rtmp, id)
PublisherBytes(id) ==
  LET p == rtmp.pubs[id]
      kind == p.script[p.at + 1]
      frame == [kind |-> kind, pub |-> p.serial, n |-> IF kind = "meta" THEN p.n ELSE p.n + 1, early |-> FALSE]
      onward == [p EXCEPT !.at = @ + 1, !.n = frame.n]
  IN  /\ LooksAt("pubs", id) /\ p.at < Len(p.script)
      /\ rtmp' = handle_data([rtmp EXCEPT !.pubs[id] = onward], p.key, frame)
PublisherClosed(id) ==
  LET p == rtmp.pubs[id]
  IN  /\ LooksAt("pubs", id)
      /\ rtmp' = Past(handle_publish_finished([rtmp EXCEPT !.pclear = @ \cup {id}], p.key,
                        [kind |-> "end", pub |-> p.serial, n |-> p.n, early |-> FALSE]), id)
(* Bytes that are no chunks: the publisher goes, and its players stay      *)
PublisherFails(id) == LooksAt("pubs", id) /\ rtmp' = Past([rtmp EXCEPT !.pclear = @ \cup {id}], id)
PublishersDone == Onward("pubs", "conns", DOMAIN rtmp.conns)

ConnectionQuiet(id) == LooksAt("conns", id) /\ rtmp' = Past(rtmp, id)
(* The end of the handshake is followed by the first bytes_received        *)
HandshakeDone(id, c) ==
  /\ LooksAt("conns", id) /\ ~rtmp.conns[id].open /\ c \in Vacant(rtmp.clients)
  /\ rtmp' = [rtmp EXCEPT !.conns[id].open = TRUE,
       !.clients = Adding(@, c, [action |-> "waiting", key |-> "", conn |-> id, got_key |-> FALSE]),
       !.conn_map = Adding(@, id, c)]
Play(id, key) ==
  /\ LooksAt("conns", id) /\ rtmp.conns[id].open
  /\ LET client == rtmp.clients[rtmp.conn_map[id]]
     IN  client.action = "waiting" \/ (~OnePlay /\ client.key # key)
  /\ rtmp' = handle_play_requested(rtmp, id, key)
(* The socket was closed, its bytes are no chunks, or it asks to publish   *)
ConnectionFails(id) == LooksAt("conns", id) /\ rtmp' = Past([rtmp EXCEPT !.clear = @ \cup {id}], id)
ConnectionsDone == Onward("conns", "free", rtmp.pclear)

FreePublisher(id) == LooksAt("free", id) /\ rtmp' = Past(notify_publisher_closed([rtmp EXCEPT !.pubs = Dropping(@, id)], id), id)

(* A player that reads slowly has a full queue, and what does not fit is   *)
(* dropped, whatever it is.                                                *)
WrittenTo(conn, slow) ==
  [conn EXCEPT !.log = IF slow THEN @ ELSE @ \o conn.sent, !.sent = <<>>, !.lossy = @ \/ (slow /\ conn.sent # <<>>)]
WritePackets(slow) ==
  /\ rtmp.stage = "free" /\ rtmp.left = {}
  /\ rtmp' = [rtmp EXCEPT !.conns = [i \in DOMAIN @ |-> WrittenTo(@[i], i \in slow)], !.stage = "close", !.left = rtmp.clear]

(* In whatever order: to close a connection changes nothing for others.    *)
CloseConnection(id) ==
  /\ LooksAt("close", id)
  /\ rtmp' = Past(notify_connection_closed([rtmp EXCEPT !.conns = Dropping(@, id), !.ended = @ \cup {rtmp.conns[id]}], id), id)
TurnEnds == /\ rtmp.stage = "close" /\ rtmp.left = {}
            /\ rtmp' = [rtmp EXCEPT !.stage = "select", !.clear = {}, !.pclear = {}]

RtmpNext ==
  \/ \E id \in Vacant(rtmp.conns) : NewConnection(id)
  \/ \E id \in Vacant(rtmp.pubs), c \in Vacant(rtmp.clients), key \in StreamKeys, script \in rtmp.of.scripts : NewPublisher(id, c, key, script)
  \/ NothingNew \/ StopServer \/ PublishersDone \/ ConnectionsDone \/ TurnEnds
  \/ \E id \in rtmp.left : \/ PublisherEmpty(id) \/ PublisherBytes(id) \/ PublisherClosed(id) \/ PublisherFails(id)
                           \/ ConnectionQuiet(id) \/ ConnectionFails(id) \/ FreePublisher(id) \/ CloseConnection(id)
                           \/ (\E c \in Vacant(rtmp.clients) : HandshakeDone(id, c)) \/ (\E key \in StreamKeys : Play(id, key))
  \/ \E slow \in SUBSET DOMAIN rtmp.conns : WritePackets(slow)
RtmpSpec == RtmpInit /\ [][RtmpNext]_rtmp

-----------------------------------------------------------------------------
(* Frames of a publisher, sent as they come or from the saved groups *)
FrameAt(log, i, pub) == log[i].pub = pub /\ ~log[i].early /\ log[i].kind \notin {"meta", "end"}
KeyBy(log, i, pub) == \E k \in 1 .. i : k \in DOMAIN log /\ FrameAt(log, k, pub) /\ log[k].kind = "key"
NoneBetween(log, i, j, pub) == \A k \in i + 1 .. j - 1 : ~FrameAt(log, k, pub)

(* No frame that needs a keyframe comes before one. From the first on all  *)
(* frames follow each other, and are there to the last when the end comes. *)
Decodable(log) ==
  /\ \A i \in DOMAIN log : log[i].kind = "inter" /\ FrameAt(log, i, log[i].pub) => KeyBy(log, i, log[i].pub)
  /\ \A j \in DOMAIN log : \A i \in 1 .. j - 1 :
       LET pub == log[j].pub
       IN  FrameAt(log, i, pub) /\ KeyBy(log, i, pub) /\ NoneBetween(log, i, j, pub) =>
             /\ FrameAt(log, j, pub) => log[j].n = log[i].n + 1
             /\ log[j].kind = "end" => log[j].n = log[i].n

(* A player that reads fast enough, wherever in the stream it came, is     *)
(* sent no frame that needs a keyframe before one, and from its first      *)
(* keyframe on every frame once and in order, from the saved groups and    *)
(* live; if the publisher ends while it watches, all of them to the last.  *)
PlaysWhole ==
  UniqueKeys /\ OnePlay =>
    \A conn \in {rtmp.conns[id] : id \in DOMAIN rtmp.conns} \cup rtmp.ended : ~conn.lossy => Decodable(conn.log)

(* The end of a stream is the last a player hears, and whoever is told of  *)
(* an end is closed in the same turn.                                      *)
EndCloses ==
  UniqueKeys /\ OnePlay =>
    /\ \A id \in DOMAIN rtmp.conns : \A i \in DOMAIN rtmp.conns[id].log :
         rtmp.conns[id].log[i].kind = "end" => rtmp.stage = "close" /\ id \in rtmp.left
    /\ \A e \in rtmp.ended : ~e.lossy => \A i \in DOMAIN e.log : e.log[i].kind = "end" => i = Len(e.log)

(* The slabs and the maps agree, whatever ids are used again: the worker   *)
(* finds the client of every connection and publisher (it unwraps), no     *)
(* client is left when both are gone, and the players listed for a stream  *)
(* are those that watch it.                                                *)
ListsAgree ==
  LET s == rtmp
      owned == {s.conn_map[i] : i \in DOMAIN s.conn_map}
      publishing == {s.pub_map[i] : i \in DOMAIN s.pub_map}
  IN  /\ DOMAIN s.conn_map = {i \in DOMAIN s.conns : s.conns[i].open} /\ DOMAIN s.pub_map = DOMAIN s.pubs
      /\ DOMAIN s.clients = owned \cup publishing /\ owned \cap publishing = {}
      /\ \A i \in DOMAIN s.conn_map : s.clients[s.conn_map[i]].conn = i
      /\ \A i \in DOMAIN s.pub_map : s.clients[s.pub_map[i]].key = s.pubs[i].key /\ s.pubs[i].key \in DOMAIN s.channels
      /\ OnePlay => \A key \in DOMAIN s.channels :
           s.channels[key].watchers = {c \in owned : s.clients[c].action = "watching" /\ s.clients[c].key = key}

(* Players see streams whole and are told their end, and no id that is     *)
(* used again leads to another client, whatever comes and goes in the      *)
(* turns of the worker.                                                    *)
LiveSound == PlaysWhole /\ EndCloses /\ ListsAgree
=============================================================================
