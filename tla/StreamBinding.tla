--------------------------- MODULE StreamBinding ---------------------------
(* How FfmpegContext connects inputs, filter graphs and outputs before a   *)
(* job starts: fg_bind_inputs, expand_stream_maps and outputs_bind of      *)
(* ez-ffmpeg's core/context/ffmpeg_context.rs. A stream is known by file   *)
(* and index; a label is its name and, if it starts with a number, the     *)
(* file and the type of stream it asks for (file 0: it does not).          *)
EXTENDS Naturals, SequencesExt, FiniteSetsExt

CONSTANTS
  Files,     \* what the inputs may be: sequences of files, a file is a sequence of types
  Graphs,    \* what the filter graphs may be: sequences of [in, out], sequences of pads
  Outputs    \* what the outputs may be: sequences of [specs, codec, formats, text]

VARIABLE setup

None == <<0, 0>>
Unlabelled(l) == l.name = ""

NewSetups ==
  {[files |-> f, graphs |-> g, outs |-> o, status |-> "start", next |-> 1,
    used |-> {},                                             \* streams that are decoded
    read |-> [i \in DOMAIN g |-> [k \in DOMAIN g[i].in |-> None]],
    dst |-> [i \in DOMAIN g |-> [k \in DOMAIN g[i].out |-> {}]],    \* what a pad was given as dst
    maps |-> [i \in DOMAIN o |-> <<>>],
    streams |-> [i \in DOMAIN o |-> <<>>]] : f \in Files, g \in Graphs, o \in Outputs}
SetupInit == setup \in NewSetups

Wrong(c) == [c EXCEPT !.status = "error"]
(* Run a step for each element in turn, until one fails. *)
Each(step(_, _), c, seq) == FoldLeft(LAMBDA d, e : IF d.status = "error" THEN d ELSE step(d, e), c, seq)

First(S) == CHOOSE a \in S : \A b \in S : a[1] < b[1] \/ (a[1] = b[1] /\ a[2] <= b[2])
StreamsOf(c) == {<<f, i>> \in (1 .. Len(c.files)) \X (1 .. 4) : i \in DOMAIN c.files[f]}
StreamsIn(c, f) == IF f \in DOMAIN c.files THEN [i \in DOMAIN c.files[f] |-> <<f, i>>] ELSE <<>>
TypeOf(c, s) == c.files[s[1]][s[2]]
Matches(c, label, s) == s[1] = label.file /\ label.type \in {"any", TypeOf(c, s)}
Ids(c, field) == FlattenSeq([g \in DOMAIN c.graphs |->
                               [k \in DOMAIN c.graphs[g][field] |-> <<g, k>>]])

-----------------------------------------------------------------------------
(* bind_fg_inputs_by_fg: a labelled input takes the first output of the    *)
(* other graphs that has its label and no destination.                     *)
bind_fg_inputs_by_fg(c, in) ==
  LET pad == c.graphs[in[1]].in[in[2]]
      Out(o) == c.graphs[o[1]].out[o[2]]
      found == {o \in Range(Ids(c, "out")) :
                  /\ o[1] # in[1] /\ Out(o).label = pad.label
                  /\ Out(o).type # pad.type \/ c.dst[o[1]][o[2]] = {}}
  IN  IF Unlabelled(pad.label) \/ found = {} THEN c
      ELSE LET o == First(found)
           IN  IF Out(o).type # pad.type THEN Wrong(c)
               ELSE [c EXCEPT !.dst[o[1]][o[2]] = @ \cup {<<"graph", in[1], Out(o).type>>}]

(* fg_complex_bind_input, for the inputs linked above too: a label that is *)
(* not a file's fails.                                                     *)
fg_complex_bind_input(c, in) ==
  LET pad == c.graphs[in[1]].in[in[2]]
      found == {s \in StreamsOf(c) :
                  /\ TypeOf(c, s) = pad.type
                  /\ IF Unlabelled(pad.label) THEN s \notin c.used ELSE Matches(c, pad.label, s)}
  IN  IF found = {} THEN Wrong(c)
      ELSE [c EXCEPT !.read[in[1]][in[2]] = First(found), !.used = @ \cup {First(found)}]

fg_bind_inputs(c) ==
  Each(fg_complex_bind_input, Each(bind_fg_inputs_by_fg, c, Ids(c, "in")), Ids(c, "in"))

-----------------------------------------------------------------------------

(* expand_stream_maps, one specification: a label that is no file's names  *)
(* a filter output, whether it is negative or not; a negative map disables *)
(* the streams mapped so far; others are one map per stream.               *)
expand_stream_map(c, spec) ==
  LET o == c.next
      hits == SelectSeq(StreamsIn(c, spec.label.file), LAMBDA s : Matches(c, spec.label, s))
      Disable(m) == [m EXCEPT !.disabled = @ \/ (m.link = "" /\ Matches(c, spec.label, m.stream))]
  IN  IF spec.label.file = 0
        THEN [c EXCEPT !.maps[o] = Append(@, [link |-> spec.label.name, stream |-> None,
                                               copy |-> spec.copy, disabled |-> FALSE])]
      ELSE IF spec.label.file \notin DOMAIN c.files THEN Wrong(c)
      ELSE IF spec.neg THEN [c EXCEPT !.maps[o] = [m \in DOMAIN @ |-> Disable(@[m])]]
      ELSE IF hits = <<>> /\ ~spec.opt THEN Wrong(c)
      ELSE [c EXCEPT !.maps[o] = @ \o [i \in DOMAIN hits |->
              [link |-> "", stream |-> hits[i], copy |-> spec.copy, disabled |-> FALSE]]]

(* choose_encoder: "copy" stands for None *)
choose_encoder(c, t) ==
  LET out == c.outs[c.next]
  IN  IF t \notin {"v", "a", "s"} \/ out.codec[t] = "copy" THEN "copy"
      ELSE IF out.codec[t] = "named" \/ (out.codec[t] = "guess" /\ t \in out.formats) THEN "encode"
      ELSE "error"

(* Muxer::new_stream and add_enc_stream; init_simple_filtergraph decodes   *)
(* the stream into a graph of its own, other encoded streams are decoded.  *)
AddStream(c, src, t, enc) ==
  [c EXCEPT !.streams[c.next] = Append(@, [src |-> [from |-> "file", at |-> src], type |-> t, enc |-> enc]),
            !.used = IF enc THEN @ \cup {src} ELSE @]

(* ofilter_bind_ost *)
ofilter_bind_ost(c, pad) ==
  LET t == c.graphs[pad[1]].out[pad[2]].type
  IN  [c EXCEPT !.dst[pad[1]][pad[2]] = @ \cup {<<"output", c.next, t>>},
                !.streams[c.next] = Append(@, [src |-> [from |-> "pad", at |-> pad], type |-> t, enc |-> TRUE])]

FreePads(c) == {p \in Range(Ids(c, "out")) : c.dst[p[1]][p[2]] = {}}
LabelOf(c, p) == c.graphs[p[1]].out[p[2]].label
PadType(c, p) == c.graphs[p[1]].out[p[2]].type

\* A mutant: an output that is used already is given out again.
MapUsed(c, m) ==
  LET pads == {p \in Range(Ids(c, "out")) : LabelOf(c, p).name = m.link}
  IN  IF m.disabled THEN c
      ELSE IF m.link = "" THEN AddStream(c, m.stream, TypeOf(c, m.stream), ~m.copy)
      ELSE IF pads = {} THEN Wrong(c) ELSE ofilter_bind_ost(c, First(pads))

(* map_manual *)
map_manual(c, m) ==
  LET named == {p \in FreePads(c) : ~Unlabelled(LabelOf(c, p)) /\ LabelOf(c, p).name = m.link}
      \* pads before the first whose type has an encoder are passed over
      met == {p \in named : choose_encoder(c, PadType(c, p)) # "copy"}
  IN  IF m.disabled THEN c
      ELSE IF m.link # ""
        THEN IF met = {} \/ choose_encoder(c, PadType(c, First(met))) = "error" THEN Wrong(c)
             ELSE ofilter_bind_ost(c, First(met))
      ELSE LET t == TypeOf(c, m.stream)
               choice == choose_encoder(c, t)
           IN  IF choice = "error" THEN Wrong(c)
               ELSE AddStream(c, m.stream, t, choice = "encode" /\ ~m.copy)

(* output_bind_by_unlabeled_filter *)
BindUnlabelled(c, p) ==
  LET choice == choose_encoder(c, PadType(c, p))
  IN  IF ~Unlabelled(LabelOf(c, p)) \/ p \notin FreePads(c) \/ choice = "copy" THEN c
      ELSE IF choice = "error" THEN Wrong(c) ELSE ofilter_bind_ost(c, p)

FirstIn(c, f, t) == <<f, Min({i \in DOMAIN c.files[f] : c.files[f][i] = t})>>
FilesWith(c, t) == {f \in DOMAIN c.files : t \in Range(c.files[f])}
FirstFile(c, t) == Min(FilesWith(c, t))
Disabled(c, t) == \E k \in DOMAIN c.streams[c.next] :
                    c.streams[c.next][k].src.from = "pad" /\ c.streams[c.next][k].type = t

(* map_auto_stream: the first stream of the type is encoded; if the codec  *)
(* is "copy" the loop goes on, and each file gives its first.              *)
map_auto_stream(c, t) ==
  LET choice == choose_encoder(c, t)
  IN  IF Disabled(c, t) \/ t \notin c.outs[c.next].formats \/ FilesWith(c, t) = {} THEN c
      ELSE CASE choice = "error" -> Wrong(c)
             [] choice = "encode" -> AddStream(c, FirstIn(c, FirstFile(c, t), t), t, TRUE)
             [] OTHER -> FoldLeft(LAMBDA d, f : AddStream(d, FirstIn(d, f, t), t, FALSE), c,
                                  SelectSeq([f \in DOMAIN c.files |-> f], LAMBDA f : f \in FilesWith(c, t)))

(* map_auto_subtitle and map_auto_data: of the first file that has one; a  *)
(* stream that would have to be copied is an error.                        *)
map_auto_other(c, t) ==
  IF Disabled(c, t) \/ t \notin c.outs[c.next].formats \/ FilesWith(c, t) = {} \/ (t = "s" /\ ~c.outs[c.next].text) THEN c
  ELSE IF choose_encoder(c, t) # "encode" THEN Wrong(c)
  ELSE AddStream(c, FirstIn(c, FirstFile(c, t), t), t, TRUE)

(* outputs_bind, one output *)
BindOutput(c) ==
  IF c.maps[c.next] # <<>> THEN Each(map_manual, c, c.maps[c.next])
  ELSE Each(map_auto_other, Each(map_auto_stream, Each(BindUnlabelled, c, Ids(c, "out")), <<"v", "a">>), <<"s", "d">>)

-----------------------------------------------------------------------------
At(stage) == setup.status = stage
Becomes(c, stage) == setup' = [c EXCEPT !.status = IF @ = "error" THEN @ ELSE stage]

FgBindInputs == At("start") /\ Becomes(fg_bind_inputs(setup), "expand")

ExpandMaps ==
  /\ At("expand")
  /\ LET c == Each(LAMBDA d, o : Each(expand_stream_map, [d EXCEPT !.next = o], d.outs[o].specs),
                   setup, [o \in DOMAIN setup.outs |-> o])
     IN  Becomes([c EXCEPT !.next = 1], "bind")

OutputBind ==
  /\ At("bind") /\ setup.next \in DOMAIN setup.outs
  /\ LET c == BindOutput(setup) IN Becomes([c EXCEPT !.next = @ + 1], "bind")

(* check_output_streams and check_fg_bindings *)
CheckBindings ==
  /\ At("bind") /\ setup.next \notin DOMAIN setup.outs
  /\ Becomes(IF (\E o \in DOMAIN setup.outs : setup.streams[o] = <<>>) \/ FreePads(setup) # {}
             THEN Wrong(setup) ELSE setup, "ok")

SetupNext == FgBindInputs \/ ExpandMaps \/ OutputBind \/ CheckBindings

-----------------------------------------------------------------------------
Streams(o) == Range(setup.streams[o])

(* With maps, an output has a stream of a file as often as a map asks for  *)
(* it that no later negative map takes back, whatever the order and        *)
(* overlap of the specifications.                                          *)
MapsSelect ==
  At("ok") => \A o \in DOMAIN setup.outs, s \in StreamsOf(setup) :
    LET specs == setup.outs[o].specs
        Hits(p, neg) == specs[p].neg = neg /\ specs[p].label.file # 0 /\ Matches(setup, specs[p].label, s)
        wanted == {p \in DOMAIN specs : Hits(p, FALSE) /\ ~\E q \in p + 1 .. Len(specs) : Hits(q, TRUE)}
    IN  setup.maps[o] # <<>> => Cardinality({k \in DOMAIN setup.streams[o] : setup.streams[o][k].src = [from |-> "file", at |-> s]}) = Cardinality(wanted)

(* A context that was built feeds every output of a graph to exactly one   *)
(* consumer, and an output's streams from pads are those given to it.      *)
PadsFedOnce ==
  At("ok") => /\ \A p \in Range(Ids(setup, "out")) : Cardinality(setup.dst[p[1]][p[2]]) = 1
              /\ \A p \in Range(Ids(setup, "out")) :
                   Cardinality({<<o, k>> \in (DOMAIN setup.outs) \X (1 .. 8) :
                     k \in DOMAIN setup.streams[o] /\ setup.streams[o][k].src = [from |-> "pad", at |-> p]}) <= 1

(* No two inputs of graphs without a label read the same stream. *)
UnlabelledApart ==
  At("ok") => \A p, q \in Range(Ids(setup, "in")) :
    /\ p # q /\ setup.read[p[1]][p[2]] = setup.read[q[1]][q[2]]
    => ~(Unlabelled(setup.graphs[p[1]].in[p[2]].label) /\ Unlabelled(setup.graphs[q[1]].in[q[2]].label))

(* Without maps, an output encodes the first stream of each type, and      *)
(* copies the first of each file; a type that a filter gives is not taken  *)
(* from a file too.                                                        *)
AutoPicksFirst ==
  At("ok") => \A o \in DOMAIN setup.outs : setup.maps[o] = <<>> =>
    \A x \in Streams(o) : x.src.from = "file" =>
      /\ x.src.at = FirstIn(setup, x.src.at[1], x.type)
      /\ x.enc => x.src.at[1] = FirstFile(setup, x.type)
      /\ ~\E y \in Streams(o) : y.type = x.type /\ (y.src.from = "pad" \/ (x.enc /\ y # x))

(* A job that is set up reads and writes what was asked for: what the maps *)
(* select, each filter pad once, no stream twice without need, and by      *)
(* default the first of each type.                                         *)
BindingsRight == MapsSelect /\ PadsFedOnce /\ UnlabelledApart /\ AutoPicksFirst
=============================================================================
