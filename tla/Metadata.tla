------------------------------ MODULE Metadata ------------------------------
(* process_metadata of ez-ffmpeg's core/context/ffmpeg_context.rs with the *)
(* operations of core/metadata: what an output file takes over from its    *)
(* inputs and from the user. A dictionary is a function from keys; the     *)
(* output's streams are made from one stream of its first input.           *)
EXTENDS MediaTime, Sequences, Functions

CONSTANTS
  Dicts,        \* dictionaries of inputs
  ChapterSets,  \* sequences of [start, end] an input may have
  Mappings,     \* sequences of [src, dst, input] with places [kind, at], at 0: all streams
  UserTags,     \* sequences of [dst, key, value]; value "" deletes, dst "bad": no such specifier
  Windows,      \* [offset, start, recording] of input and output, recording -1: none
  Instants      \* points of time at which chapters are compared

(* The demuxers of FFmpeg deliver chapters in the order of their starts.   *)
ASSUME TagsAssumption ==
  /\ \A c \in ChapterSets : /\ c \in Seq([start : Int, end : Int])
                           /\ \A i, j \in DOMAIN c : i < j => c[i].start <= c[j].start
  /\ \A w \in Windows : w.offset \in Int /\ w.start \in Int /\ w.recording \in Nat \cup {-1}
  /\ \A m \in Mappings \cup UserTags : m \in Seq(Range(m))
  /\ Instants \subseteq Int

VARIABLE tags

Empty == [k \in {} |-> ""]
Without(d, keys) == [k \in DOMAIN d \ keys |-> d[k]]
(* av_dict_copy with AV_DICT_DONT_OVERWRITE *)
CopyInto(d, src) == [k \in DOMAIN d \cup DOMAIN src |-> IF k \in DOMAIN d THEN d[k] ELSE src[k]]
SetTag(d, key, value) == IF value = "" THEN Without(d, {key})
                         ELSE [k \in DOMAIN d \cup {key} |-> IF k = key THEN value ELSE d[k]]
OutStreams == 1 .. 2

(* Output stream 1 is encoded, 2 copied, both from input 1. *)
NewTags ==
  {[in |-> [global |-> g, stream |-> s], chapters |-> c, maps |-> m, user |-> u, win |-> w, auto |-> a,
    global |-> Empty, stream |-> [k \in OutStreams |-> Empty], out |-> <<>>, stage |-> "map", i |-> 1,
    manual |-> {}] : g \in Dicts, s \in Dicts, c \in ChapterSets, m \in Mappings,
                     u \in UserTags, w \in Windows, a \in BOOLEAN}
TagsInit == tags \in NewTags
\* i: the element that a loop looks at next
Goes(stage) == tags' = [tags EXCEPT !.stage = stage, !.i = 1]

(* copy_metadata: chapters and programs of the output do not exist yet, so *)
(* a mapping to one fails; a failure is only logged.                       *)
copy_metadata(t, m) ==
  LET src == IF m.src.kind = "global" THEN t.in.global ELSE IF m.src.kind = "stream" THEN t.in.stream ELSE Empty
      ok == m.input = 1 /\ ~(m.src.kind = "chapter" /\ m.src.at > Len(t.chapters))
  IN  [t EXCEPT !.manual = @ \cup {m.src.kind, m.dst.kind},
                !.global = IF ok /\ m.dst.kind = "global" THEN CopyInto(@, src) ELSE @,
                !.stream = [k \in OutStreams |-> IF ok /\ m.dst.kind = "stream" /\ m.dst.at \in {0, k} THEN CopyInto(@[k], src)
                                                 ELSE @[k]]]

MapMetadata == /\ tags.stage = "map" /\ tags.i <= Len(tags.maps)
               /\ tags' = [copy_metadata(tags, tags.maps[tags.i]) EXCEPT !.i = @ + 1]
MapsEnd == tags.stage = "map" /\ tags.i > Len(tags.maps) /\ Goes("chapters")

(* copy_chapters_from_input. The loop passes over chapters that end before *)
(* the start, and stops at the first that starts behind the end.           *)
Off(win) == win.start - win.offset
Cut(win, ch) ==
  LET start == Larger(0, ch.start - Off(win))
      end == IF win.recording = -1 THEN ch.end - Off(win) ELSE Smaller(ch.end - Off(win), win.recording)
  IN  [start |-> start, end |-> Larger(end, start)]
Early(win, ch) == ch.end < Off(win)
Late(win, ch) == ~Early(win, ch) /\ win.recording # -1 /\ ch.start > Off(win) + win.recording

CopiesChapters == tags.auto /\ "chapter" \notin tags.manual
CopyChapter ==
  /\ tags.stage = "chapters" /\ CopiesChapters /\ tags.i <= Len(tags.chapters)
  /\ LET ch == tags.chapters[tags.i]
     IN  /\ ~Late(tags.win, ch)
         /\ tags' = [tags EXCEPT !.out = IF Early(tags.win, ch) THEN @ ELSE Append(@, Cut(tags.win, ch)), !.i = @ + 1]
ChaptersEnd ==
  /\ tags.stage = "chapters"
  /\ CopiesChapters /\ tags.i <= Len(tags.chapters) => Late(tags.win, tags.chapters[tags.i])
  /\ Goes("defaults")

\* A mutant: what was mapped is replaced by the input's own.
DefaultsOverwrite(t) ==
  [t EXCEPT !.global = IF t.auto THEN CopyInto(t.in.global, @) ELSE @,
            !.stream = [k \in OutStreams |-> IF t.auto THEN CopyInto(t.in.stream, @[k]) ELSE @[k]]]

(* copy_metadata_default *)
copy_metadata_default(t) ==
  LET stale == {"creation_time", "company_name"} \cup (IF t.win.recording # -1 THEN {"duration"} ELSE {})
  IN  IF ~t.auto THEN t
      ELSE [t EXCEPT !.global = IF "global" \in t.manual THEN @ ELSE Without(CopyInto(@, t.in.global), stale),
                     !.stream = [k \in OutStreams |->
                        IF "stream" \in t.manual THEN @[k]
                        ELSE Without(CopyInto(@[k], t.in.stream), IF k = 1 THEN {"encoder"} ELSE {})]]
CopyDefaults == tags.stage = "defaults" /\ tags' = [copy_metadata_default(tags) EXCEPT !.stage = "user", !.i = 1]

(* of_add_metadata: global keys first, then the others in order until a    *)
(* specifier cannot be read.                                               *)
of_add_metadata(t, x) ==
  [t EXCEPT !.global = IF x.dst.kind = "global" THEN SetTag(@, x.key, x.value) ELSE @,
            !.stream = [k \in OutStreams |-> IF x.dst.kind = "stream" /\ x.dst.at \in {0, k} THEN SetTag(@[k], x.key, x.value)
                                             ELSE @[k]]]
AddGlobal ==
  /\ tags.stage = "user" /\ tags.i <= Len(tags.user)
  /\ LET x == tags.user[tags.i]
     IN  tags' = [(IF x.dst.kind = "global" THEN of_add_metadata(tags, x) ELSE tags) EXCEPT !.i = @ + 1]
GlobalsEnd == tags.stage = "user" /\ tags.i > Len(tags.user) /\ Goes("rest")
AddOther ==
  /\ tags.stage = "rest" /\ tags.i <= Len(tags.user)
  /\ LET x == tags.user[tags.i]
     IN  /\ x.dst.kind # "bad"
         /\ tags' = [(IF x.dst.kind = "global" THEN tags ELSE of_add_metadata(tags, x)) EXCEPT !.i = @ + 1]
UserEnds ==
  /\ tags.stage = "rest"
  /\ tags.i <= Len(tags.user) => tags.user[tags.i].dst.kind = "bad"
  /\ Goes("done")

TagsNext == MapMetadata \/ MapsEnd \/ CopyChapter \/ ChaptersEnd \/ CopyDefaults \/ AddGlobal \/ GlobalsEnd \/ AddOther \/ UserEnds
TagsSpec == TagsInit /\ [][TagsNext]_tags

-----------------------------------------------------------------------------
UserKeys(kind) == {x.key : x \in {y \in Range(tags.user) : y.dst.kind = kind}}
(* A tag of an input gets into the output only by a mapping or by the      *)
(* automatic copy of a kind that no mapping names; what a mapping brought  *)
(* is kept, and what describes the input's encoding or length is not taken *)
(* over unasked.                                                           *)
TagsComeFrom ==
  tags.stage = "done" =>
    /\ "global" \notin tags.manual =>
         \A k \in DOMAIN tags.global \ UserKeys("global") :
           /\ tags.auto /\ k \notin {"creation_time", "company_name"} /\ tags.global[k] = tags.in.global[k]
           /\ tags.win.recording # -1 => k # "duration"
    /\ "stream" \notin tags.manual /\ "encoder" \notin UserKeys("stream") => "encoder" \notin DOMAIN tags.stream[1]
    /\ \A k \in DOMAIN tags.in.stream \ UserKeys("global") :
         (tags.maps # <<>> /\ tags.maps[1].src.kind = "stream" /\ tags.maps[1].dst.kind = "global" /\ tags.maps[1].input = 1)
         => k \in DOMAIN tags.global /\ tags.global[k] = tags.in.stream[k]

(* The chapters of the output lie within its length, in the order of the   *)
(* input's, and each covers what of the input's chapter is recorded.       *)
ChaptersFit ==
  /\ \A i \in DOMAIN tags.out : /\ 0 <= tags.out[i].start /\ tags.out[i].start <= tags.out[i].end
                                /\ tags.win.recording # -1 => tags.out[i].end <= tags.win.recording
                                /\ i > 1 => tags.out[i - 1].start <= tags.out[i].start
  /\ tags.stage = "done" /\ CopiesChapters =>
       LET off == Off(tags.win)
           Recorded(t) == t >= off /\ (tags.win.recording = -1 \/ t < off + tags.win.recording)
       IN  \A t \in Instants : Recorded(t) =>
             (\E i \in DOMAIN tags.chapters : t \in tags.chapters[i].start .. tags.chapters[i].end - 1)
             <=> \E i \in DOMAIN tags.out : t - off \in tags.out[i].start .. tags.out[i].end - 1

(* The tags and chapters of an output are those its rules say, whatever    *)
(* the order in which mappings, defaults and tags of the user are applied. *)
MetadataRight == TagsComeFrom /\ ChaptersFit
=============================================================================
