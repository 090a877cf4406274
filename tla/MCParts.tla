------------------------------- MODULE MCParts -------------------------------
(***************************************************************************)
(* The parts that are sequential programs of their own, model-checked in   *)
(* one run.  Of the media binding: the clocks of demuxer, muxer, decoder   *)
(* and encoder, the set-up of streams, graphs, metadata and devices, the   *)
(* live server and its ring of FLV bytes.  Of the service: claim tokens,   *)
(* the filter that holds a token's set of assets, the serving of files.    *)
(***************************************************************************)
EXTENDS DemuxClock, MuxClock, DecClock, AudioQueue, VideoSync, FilterGraph,
        StreamBinding, StreamSpecifier, Metadata, HwDevices, FlvBuffer, RtmpServer,
        ClaimTokens, FuseFilter, Serving

VARIABLE part  \* the one of them that is running

vars == <<part, demuxer, muxer, decoder, audio, video, graph, setup, query, tags,
          hw_devices, dec, flv, rtmp, claim, fuse, serve>>

(* The parts share no state: each is explored from all its initial states  *)
(* while the others rest in one of theirs.                                 *)
Starts(p, S) == IF part = p THEN S ELSE {CHOOSE s \in S : TRUE}
Init ==
  /\ part \in {"demuxer", "muxer", "decoder", "audio", "video", "graph",
               "setup", "query", "tags", "devices", "flv", "rtmp", "claim",
               "fuse", "serve"}
  /\ demuxer \in Starts("demuxer", NewDemuxers)
  /\ muxer \in Starts("muxer", NewMuxers)
  /\ decoder \in Starts("decoder", NewDecoders)
  /\ audio \in Starts("audio", NewAudios)
  /\ video \in Starts("video", NewVideos)
  /\ graph \in Starts("graph", NewGraphs)
  /\ setup \in Starts("setup", NewSetups)
  /\ query \in Starts("query", NewQueries)
  /\ tags \in Starts("tags", NewTags)
  /\ hw_devices \in Starts("devices", NewDevices) /\ dec \in Starts("devices", NewHwDecoders)
  /\ flv \in Starts("flv", NewFlvs)
  /\ rtmp \in Starts("rtmp", NewRtmps)
  /\ claim \in Starts("claim", NewClaims)
  /\ fuse \in Starts("fuse", NewFuses)
  /\ serve \in Starts("serve", NewServes)
Next ==
  \/ /\ part = "demuxer" /\ DemuxNext
     /\ UNCHANGED <<part, muxer, decoder, audio, video, graph, setup, query, tags,
                     hw_devices, dec, flv, rtmp, claim, fuse, serve>>
  \/ /\ part = "muxer" /\ MuxNext
     /\ UNCHANGED <<part, demuxer, decoder, audio, video, graph, setup, query,
                     tags, hw_devices, dec, flv, rtmp, claim, fuse, serve>>
  \/ /\ part = "decoder" /\ DecNext
     /\ UNCHANGED <<part, demuxer, muxer, audio, video, graph, setup, query, tags,
                     hw_devices, dec, flv, rtmp, claim, fuse, serve>>
  \/ /\ part = "audio" /\ AudioNext
     /\ UNCHANGED <<part, demuxer, muxer, decoder, video, graph, setup, query,
                     tags, hw_devices, dec, flv, rtmp, claim, fuse, serve>>
  \/ /\ part = "video" /\ VideoNext
     /\ UNCHANGED <<part, demuxer, muxer, decoder, audio, graph, setup, query,
                     tags, hw_devices, dec, flv, rtmp, claim, fuse, serve>>
  \/ /\ part = "graph" /\ GraphNext
     /\ UNCHANGED <<part, demuxer, muxer, decoder, audio, video, setup, query,
                     tags, hw_devices, dec, flv, rtmp, claim, fuse, serve>>
  \/ /\ part = "setup" /\ SetupNext
     /\ UNCHANGED <<part, demuxer, muxer, decoder, audio, video, graph, query,
                     tags, hw_devices, dec, flv, rtmp, claim, fuse, serve>>
  \/ /\ part = "query" /\ QueryNext
     /\ UNCHANGED <<part, demuxer, muxer, decoder, audio, video, graph, setup,
                     tags, hw_devices, dec, flv, rtmp, claim, fuse, serve>>
  \/ /\ part = "tags" /\ TagsNext
     /\ UNCHANGED <<part, demuxer, muxer, decoder, audio, video, graph, setup,
                     query, hw_devices, dec, flv, rtmp, claim, fuse, serve>>
  \/ /\ part = "devices" /\ HwNext
     /\ UNCHANGED <<part, demuxer, muxer, decoder, audio, video, graph, setup,
                     query, tags, flv, rtmp, claim, fuse, serve>>
  \/ /\ part = "flv" /\ FlvNext
     /\ UNCHANGED <<part, demuxer, muxer, decoder, audio, video, graph, setup,
                     query, tags, hw_devices, dec, rtmp, claim, fuse, serve>>
  \/ /\ part = "rtmp" /\ RtmpNext
     /\ UNCHANGED <<part, demuxer, muxer, decoder, audio, video, graph, setup,
                     query, tags, hw_devices, dec, flv, claim, fuse, serve>>
  \/ /\ part = "claim" /\ TokenNext
     /\ UNCHANGED <<part, demuxer, muxer, decoder, audio, video, graph, setup,
                     query, tags, hw_devices, dec, flv, rtmp, fuse, serve>>
  \/ /\ part = "fuse" /\ FuseNext
     /\ UNCHANGED <<part, demuxer, muxer, decoder, audio, video, graph, setup,
                     query, tags, hw_devices, dec, flv, rtmp, claim, serve>>
  \/ /\ part = "serve" /\ ServeNext
     /\ UNCHANGED <<part, demuxer, muxer, decoder, audio, video, graph, setup,
                     query, tags, hw_devices, dec, flv, rtmp, claim, fuse>>
Spec == Init /\ [][Next]_vars

-----------------------------------------------------------------------------
(* Demuxer: with and without timestamp discontinuities, -copyts, decoded   *)
(* audio and a known start time.                                           *)
Format(discont, copy_ts, audio_dec, start) ==
  [discont |-> discont, copy_ts |-> copy_ts, have_audio_dec |-> audio_dec, start_time |-> start]
MCFormats ==
  {Format(TRUE, FALSE, FALSE, NOPTS), Format(TRUE, FALSE, TRUE, 0), Format(TRUE, TRUE, FALSE, 0),
   Format(FALSE, FALSE, FALSE, NOPTS), Format(FALSE, FALSE, TRUE, 0)}

MuxFormat(nonstrict, start, recording) == [nonstrict |-> nonstrict, start |-> start, recording |-> recording]
MCMuxFormats == {MuxFormat(FALSE, NOPTS, NOPTS), MuxFormat(TRUE, 4, NOPTS), MuxFormat(FALSE, 4, 6)}

MCGaps == {-9, -2, 0, 3, 10}

Kind(par, matrix, hw) == [par |-> par, matrix |-> matrix, hw |-> hw]
MCKinds == {Kind(1, NoMatrix, FALSE), Kind(1, <<0, 1, -1, 0>>, FALSE), Kind(2, <<-1, 0, 0, 1>>, FALSE),
            Kind(3, NoMatrix, TRUE)}

-----------------------------------------------------------------------------
(* Streams, filter pads and what outputs ask for.                          *)
Label(name, file, type) == [name |-> name, file |-> file, type |-> type]
Pad(type, label) == [type |-> type, label |-> label]
NoLabel == Label("", 0, "any")
LabelX == Label("x", 0, "any")
Video1 == Label("0:v", 1, "v")
File2 == Label("1", 2, "any")
Chain(in, out) == [in |-> in, out |-> out]
MCFiles == {<<<<"v", "a">>>>, <<<<"a", "v", "s", "v">>, <<"v", "a", "a">>>>, <<<<"v", "d">>, <<"a">>>>}
MCGraphs == {<<>>,
  <<Chain(<<Pad("v", NoLabel), Pad("v", NoLabel)>>, <<Pad("v", NoLabel)>>)>>,
  <<Chain(<<Pad("v", Video1)>>, <<Pad("v", LabelX), Pad("v", LabelX)>>)>>,
  <<Chain(<<Pad("v", Video1)>>, <<Pad("v", LabelX)>>)>>,
  <<Chain(<<Pad("v", Video1)>>, <<Pad("v", NoLabel), Pad("a", LabelX)>>), Chain(<<Pad("a", NoLabel)>>, <<Pad("a", NoLabel)>>)>>,
  <<Chain(<<Pad("v", Video1)>>, <<Pad("v", LabelX)>>), Chain(<<Pad("v", LabelX)>>, <<Pad("v", NoLabel)>>)>>,
  <<Chain(<<Pad("v", File2)>>, <<Pad("v", NoLabel)>>), Chain(<<Pad("v", NoLabel)>>, <<Pad("v", File2)>>)>>,
  <<Chain(<<Pad("a", LabelX)>>, <<Pad("a", NoLabel)>>), Chain(<<Pad("v", NoLabel)>>, <<Pad("v", LabelX)>>)>>}
MapSpec(label, neg, opt, copy) == [label |-> label, neg |-> neg, opt |-> opt, copy |-> copy]
MCMapSpecs ==
  {MapSpec(Label("0", 1, "any"), FALSE, FALSE, FALSE), MapSpec(Video1, FALSE, FALSE, TRUE),
   MapSpec(Label("1:a", 2, "a"), FALSE, TRUE, FALSE), MapSpec(Video1, TRUE, FALSE, FALSE),
   MapSpec(Label("0:s", 1, "s"), FALSE, FALSE, FALSE), MapSpec(File2, TRUE, TRUE, FALSE),
   MapSpec(LabelX, FALSE, FALSE, FALSE)}
Codecs(v, a, s) == [v |-> v, a |-> a, s |-> s]
OutputOf(specs, codec, formats) == [specs |-> specs, codec |-> codec, formats |-> formats, text |-> TRUE]
AllTypes == {"v", "a", "s", "d"}
AutoOutputs ==
  {OutputOf(<<>>, Codecs("guess", "guess", "guess"), {"v", "a"}), OutputOf(<<>>, Codecs("copy", "named", "copy"), {"v", "a", "s"}),
   [OutputOf(<<>>, Codecs("copy", "copy", "named"), AllTypes) EXCEPT !.text = FALSE],
   OutputOf(<<>>, Codecs("named", "guess", "named"), AllTypes), OutputOf(<<>>, Codecs("bad", "guess", "guess"), {"v"})}
MCOutputs ==
  {<<o>> : o \in AutoOutputs} \union {<<o, p>> : o, p \in AutoOutputs}
  \union {<<OutputOf(s, Codecs("named", "copy", "guess"), {"v", "a"})>> : s \in SeqOf(MCMapSpecs, 3)}
  \union {<<OutputOf(<<MapSpec(LabelX, FALSE, FALSE, FALSE)>>, Codecs("named", "copy", "guess"), {"v", "a"}),
            OutputOf(<<MapSpec(LabelX, FALSE, FALSE, FALSE)>>, Codecs("named", "guess", "guess"), {"v", "a"})>>}

Stream(media, id, apic, usable, flags, lang) ==
  [media |-> media, id |-> id, apic |-> apic, usable |-> usable, flags |-> flags, tags |-> lang]
MCTables == {
  [streams |-> <<Stream("video", 1, TRUE, TRUE, {}, <<>>), Stream("audio", 0, FALSE, FALSE, {"default"}, "lang" :> "en"),
                 Stream("video", 0, FALSE, TRUE, {"default", "forced"}, "lang" :> "de"),
                 Stream("audio", 2, FALSE, TRUE, {}, "lang" :> "en")>>,
   programs |-> <<[id |-> 1, streams |-> <<4, 2, 3>>], [id |-> 0, streams |-> <<1>>]>>,
   groups |-> <<[id |-> 1, streams |-> <<3, 1>>]>>],
  [streams |-> <<Stream("subtitle", 1, FALSE, TRUE, {}, <<>>)>>, programs |-> <<>>, groups |-> <<>>]}
MCNumbers == ("0" :> 0) @@ ("1" :> 1)
MCSpecifiers ==
  {ss \in [media : {"any", "video", "audio", "data"}, no_apic : BOOLEAN, idx : {-1, 0, 1},
           list : {"all", "program", "group", "group id", "stream id"}, id : {0, 1}, meta : {"", "lang"}, val : {"", "en"},
           usable : BOOLEAN, disposition : {"", "default", "other"}] :
     /\ ss.no_apic => ss.media = "video"
     /\ ss.list = "all" => ss.id = 0
     /\ ss.meta = "" => ss.val = ""}

-----------------------------------------------------------------------------
(* Metadata and chapters.                                                  *)
MCDicts == {("title" :> "a") @@ ("encoder" :> "x") @@ ("duration" :> "9"), ("title" :> "b") @@ ("creation_time" :> "now")}
Chapter(start, end) == [start |-> start, end |-> end]
MCChapterSets == {<<>>, <<Chapter(0, 3), Chapter(3, 6), Chapter(6, 9)>>, <<Chapter(2, 5), Chapter(5, 5)>>}
Place(kind, at) == [kind |-> kind, at |-> at]
Global == Place("global", 0)
Mapping(src, dst, input) == [src |-> src, dst |-> dst, input |-> input]
MCMappings ==
  {<<>>, <<Mapping(Place("stream", 0), Global, 1)>>, <<Mapping(Global, Place("stream", 2), 1)>>,
   <<Mapping(Global, Place("chapter", 1), 1)>>, <<Mapping(Global, Global, 2)>>,
   <<Mapping(Place("stream", 0), Global, 1), Mapping(Global, Global, 1)>>,
   <<Mapping(Place("chapter", 3), Place("stream", 0), 1), Mapping(Global, Place("program", 0), 1)>>}
UserTag(dst, key, value) == [dst |-> dst, key |-> key, value |-> value]
MCUserTags ==
  {<<>>, <<UserTag(Place("stream", 1), "encoder", "mine"), UserTag(Global, "title", "")>>,
   <<UserTag(Place("bad", 0), "title", "z"), UserTag(Place("stream", 0), "title", "z"), UserTag(Global, "note", "n")>>}
Window(offset, start, recording) == [offset |-> offset, start |-> start, recording |-> recording]
MCWindows == {Window(0, 0, -1), Window(-2, 0, 3), Window(0, 4, 2), Window(-1, 2, -1), Window(0, 0, 6)}

(* Hardware devices: two jobs that set up a decoder each.                  *)
Accel(accel, device) == [accel |-> accel, device |-> device]
MCAccels ==
  {Accel("none", NoName), Accel("auto", NoName), Accel("auto", <<"cuda", 0>>), Accel("nvdec", NoName),
   Accel("vaapi", <<"cuda", 0>>), Accel("vaapi", <<"/dev/x", 0>>), Accel("qsv", NoName)}
HwConfig(type, fmt, ctx) == [type |-> type, fmt |-> fmt, ctx |-> ctx]
MCConfigs == {<<>>, <<HwConfig("qsv", "hq", FALSE), HwConfig("vaapi", "hv", TRUE), HwConfig("cuda", "hc", TRUE)>>}
MCFormatLists == {<<"hq", "hc", "hv", "sw">>, <<"hv", "sw">>, <<"hc">>}
Device(type, n) == [name |-> <<type, n>>, type |-> type]
MCDevices == {<<>>, <<Device("cuda", 0)>>, <<Device("cuda", 0), Device("cuda", 1), Device("vaapi", 0)>>}

(* The live server: one publisher of two groups of pictures with limits on *)
(* what is kept, two publishers one after the other, two players at once.  *)
Long == <<"meta", "vhdr", "audio", "key", "inter", "key">>
Short == <<"vhdr", "key", "inter">>
Brief == <<"key", "inter">>
RtmpCase(limit, script, publishers, playing) ==
  [limit |-> limit, scripts |-> {script}, publishers |-> publishers, sockets |-> 2, playing |-> playing]
MCRtmpCases == {RtmpCase(2, Long, 1, 1), RtmpCase(0, Short, 1, 1), RtmpCase(1, Short, 2, 1), RtmpCase(2, Brief, 1, 2)}

-----------------------------------------------------------------------------
(* Claims of both versions: without and with a start, a window and widths, *)
(* over long or empty asset ids, with too many widths or assets.           *)
ClaimAsk(v, assets, nbf, exp, window, widths) ==
  [v |-> v, assets |-> assets, nbf |-> nbf, exp |-> exp, window |-> window, kbps |-> 5, conc |-> 2, widths |-> widths]
MCClaimAsks ==
  {ClaimAsk(1, <<<<1, 2>>>>, 0, 3, 0, <<>>), ClaimAsk(1, <<<<2>>>>, 2, 4, 8, <<7, 4>>),
   ClaimAsk(1, <<<<1, 1, 1, 1>>>>, 0, 3, 0, <<>>), ClaimAsk(1, <<<<>>>>, 0, 3, 0, <<>>),
   ClaimAsk(2, <<<<1, 2>>, <<2>>>>, 0, 4, 5, <<4>>), ClaimAsk(2, <<<<>>, <<2>>>>, 2, 2, 5, <<4>>),
   ClaimAsk(2, <<<<2>>, <<>>>>, 0, 9, 3, <<1, 2, 3, 4>>), ClaimAsk(2, [i \in 1 .. 17 |-> <<2>>], 0, 4, 0, <<>>)}
MCXxHash(asset) == FoldLeft(LAMBDA n, i : n + i * asset[i], 0, [i \in DOMAIN asset |-> i])
MCKeyConfigs == {{}, {1}, {1, 2}}
FileAsk(asset, segment, width) == [asset |-> asset, segment |-> segment, width |-> width]
MCFileAsks == {FileAsk(<<1, 2>>, Unset, Unset), FileAsk(<<3, 1>>, 1, 4), FileAsk(<<2>>, 2, 7),
               FileAsk(<<2>>, 3, Unset), FileAsk(<<2>>, 0, 5)}

MCKeyLists == {<<1>>, <<1, 1>>, <<1, 2>>, <<1, 2, 3>>, <<1, 2, 1>>}

(* A job reconverted with a shorter file, one without a default bucket,    *)
(* one on local storage whose second conversion makes empty files.         *)
ServeCase(s3, home, widths, codecs, sizes) ==
  [s3 |-> s3, home |-> home, widths |-> widths, codecs |-> codecs, sizes |-> sizes]
MCServeCases == {ServeCase(TRUE, "mine", {5}, {"h264"}, <<3, 2>>), ServeCase(TRUE, "", {5}, {""}, <<3>>),
                 ServeCase(FALSE, "", {5, 20}, {"", "h264"}, <<3, 0>>)}
ByteRange(first, last) == [first |-> first, last |-> last]
MCByteRanges == {NoRange, ByteRange(0, NotGiven), ByteRange(1, 2), ByteRange(1, 7), ByteRange(2, 1), ByteRange(4, NotGiven)}
=============================================================================
