------------------------------ MODULE Serving ------------------------------
(* How a converted video is served (crates/core: convert.rs names its      *)
(* files, routes.rs finds and sends them; crates/claim: the middleware     *)
(* reads what to check off the same path with a parser of its own), while  *)
(* the video is uploaded to its bucket, removed locally, and converted     *)
(* again. A file is its place in the tree of the video; a path is its      *)
(* directories, digits or a word, and a file name.                         *)
EXTENDS Naturals, SequencesExt, FiniteSetsExt, TLC

CONSTANTS
  ServeCases,   \* [s3, home: the default bucket or "", widths, codecs, sizes: bytes of a file by version, 0: none]
  NumSegments,
  ByteRanges,   \* [first, last], NotGiven for a last that is not given; NoRange
  ServeBuckets, \* words that paths start with; the video goes to "mine"
  OddWidths,    \* digits in paths beside the widths of the job
  NotGiven,     \* 99, above every number used
  U16, U64      \* 2^16, 2^64

ASSUME ServeAssumption ==
  /\ U64 \in Nat \ {0} /\ NotGiven \in Nat /\ NotGiven >= U64
  /\ NotGiven \notin OddWidths
  /\ \A of \in ServeCases :
       /\ of.s3 \in BOOLEAN /\ of.sizes \in Seq(0 .. U64 - 1)
       /\ NotGiven \notin of.widths
  /\ \A range \in ByteRanges :
       \/ range.first = NotGiven
       \/ range.first \in 0 .. U64 - 1 /\ range.last \in (0 .. U64 - 1) \union {NotGiven}

VARIABLE serve
\* local, s3: the version of each file there; request: the one in flight, answer: what came of it

NoRange == [first |-> NotGiven, last |-> NotGiven]
Word(w) == [word |-> w, digits |-> NotGiven]
Digits(n) == [word |-> "", digits |-> n]
Name(codec, kind, n) == [codec |-> codec, kind |-> kind, n |-> n]

(* The files convert makes for each codec and width, and the master        *)
(* playlist of create_master_playlist that leads to them                   *)
Master == <<<<>>, Name("", "m3u8", NotGiven)>>
Tree(of) ==
  {Master} \union
  UNION {{<<<<w>>, Name(c, "m3u8", NotGiven)>>, <<<<w>>, Name(c, "init.mp4", NotGiven)>>}
         \union {<<<<w>>, Name(c, "m4s", n)>> : n \in 0 .. NumSegments - 1} : w \in of.widths, c \in of.codecs}

(* Paths: of the files, with and without a bucket, and of files that are   *)
(* not there                                                               *)
ServePaths(of) ==
  LET names == {f[2] : f \in Tree(of)}
      dirs == {<<>>} \union {<<Digits(w)>> : w \in of.widths \union OddWidths}
  IN  {[dirs |-> b \o d, name |-> n] : b \in {<<>>} \union {<<Word(x)>> : x \in ServeBuckets}, d \in dirs, n \in names}

(* parse_video_filename: what the middleware checks. The codec is not part *)
(* of the asset; a width of more than 16 bits is none.                     *)
parse_video_filename(path) ==
  LET w == IF path.dirs = <<>> THEN NotGiven ELSE Last(path.dirs).digits
  IN  [width |-> IF w = NotGiven \/ w >= U16 THEN NotGiven ELSE w,
       segment |-> IF path.name.kind = "init.mp4" THEN 0 ELSE path.name.n]

(* split_bucket_and_key, choose_bucket_for_s3 and extract_job_id_from_key: *)
(* the bucket, and the file it stands for                                  *)
split_bucket_and_key(path) ==
  IF path.dirs = <<>> \/ path.dirs[1].digits # NotGiven
  THEN [bucket |-> "", key |-> <<[i \in DOMAIN path.dirs |-> path.dirs[i].digits], path.name>>]
  ELSE [bucket |-> path.dirs[1].word, key |-> <<[i \in 1 .. Len(path.dirs) - 1 |-> path.dirs[i + 1].digits], path.name>>]
choose_bucket_for_s3(prefix, home) == IF prefix # "" THEN prefix ELSE home

(* parse_range; size - 1 of an empty file wraps around                     *)
parse_range(range, size) ==
  LET last == (size + U64 - 1) % U64
  IN  IF range.first = NotGiven THEN [status |-> 200, start |-> 0, end |-> last]
      ELSE [status |-> 206, start |-> range.first,
            end |-> Min({IF range.last = NotGiven THEN last ELSE range.last, last})]

Contents(of, v) == [i \in 1 .. of.sizes[v] |-> <<v, i - 1>>]
Slice(bytes, start, len) == SubSeq(bytes, start + 1, Min({start + len, Len(bytes)}))

-----------------------------------------------------------------------------
NoRequest == [stage |-> "", path |-> <<>>, range |-> NoRange, checked |-> <<>>, file |-> <<>>, remote |-> FALSE, size |-> 0,
              touched |-> FALSE, published |-> FALSE]
NoAnswer == [status |-> 0, len |-> 0, body |-> <<>>, of |-> NoRequest]
NewServes ==
  {[of |-> of, local |-> <<>>, s3 |-> <<>>, version |-> 0, stage |-> "idle", request |-> NoRequest, answer |-> NoAnswer] :
   of \in ServeCases}
ServeInit == serve \in NewServes

Touch(s) == [s EXCEPT !.request.touched = TRUE]
Published(s) == s.version > 0 /\ s.stage # "converting"

(* ConvertJob: the old tree is removed when it starts, and the new one     *)
(* renamed into its place                                                  *)
ConvertStarts ==
  /\ serve.stage = "idle" /\ serve.version < Len(serve.of.sizes)
  /\ serve' = Touch([serve EXCEPT !.stage = "converting", !.local = <<>>, !.request.published = FALSE])
ConvertEnds ==
  /\ serve.stage = "converting"
  /\ serve' = Touch([serve EXCEPT !.stage = IF serve.of.s3 THEN "uploading" ELSE "idle", !.version = @ + 1,
                                  !.local = [f \in Tree(serve.of) |-> serve.version + 1]])

(* upload_tree_streaming: file by file, in any order; what failed is       *)
(* uploaded again                                                          *)
Left == {f \in DOMAIN serve.local : f \notin DOMAIN serve.s3 \/ serve.s3[f] # serve.version}
UploadOne(f) ==
  /\ serve.stage = "uploading" /\ f \in Left
  /\ serve' = [serve EXCEPT !.s3 = [g \in DOMAIN @ \union {f} |-> IF g = f THEN serve.version ELSE @[g]],
                            !.request.touched = @ \/ (serve.request.remote /\ serve.request.file = f)]

\* A mutant: the local tree is removed when a file could not be uploaded.
RemoveAnyway == serve.stage = "uploading" /\ Left # Tree(serve.of)
                /\ serve' = Touch([serve EXCEPT !.stage = "idle", !.local = <<>>])

UploadEnds == serve.stage = "uploading" /\ Left = {}
              /\ serve' = Touch([serve EXCEPT !.stage = "idle", !.local = <<>>])

-----------------------------------------------------------------------------
Answer(r, status, len, body) ==
  serve' = [serve EXCEPT !.request = NoRequest, !.answer = [status |-> status, len |-> len, body |-> body, of |-> r]]

(* claim_auth_middleware and serve_video. Requests share nothing: there is *)
(* one in a behaviour.                                                     *)
Request(path, range) ==
  LET split == split_bucket_and_key(path)
      r == [NoRequest EXCEPT !.stage = "stat", !.path = path, !.range = range, !.checked = parse_video_filename(path),
                             !.file = split.key, !.published = Published(serve)]
  IN  /\ serve.request.stage = "" /\ serve.answer = NoAnswer
      /\ IF serve.of.s3 /\ choose_bucket_for_s3(split.bucket, serve.of.home) = "" THEN Answer(r, 400, 0, <<>>)
         ELSE serve' = [serve EXCEPT !.request = r]

InS3(r) == serve.of.s3 /\ r.file \in DOMAIN serve.s3
           /\ choose_bucket_for_s3(split_bucket_and_key(r.path).bucket, serve.of.home) = "mine"

(* server_file_with_bucket: the size first ...                             *)
StatFile ==
  LET r == serve.request
      Found(remote, v) == serve' = [serve EXCEPT !.request = [r EXCEPT !.stage = "open", !.remote = remote,
                                                               !.size = serve.of.sizes[v], !.touched = FALSE]]
  IN  /\ r.stage = "stat"
      /\ IF r.file \in DOMAIN serve.local THEN Found(FALSE, serve.local[r.file])
         ELSE IF InS3(r) THEN Found(TRUE, serve.s3[r.file])
         ELSE Answer([r EXCEPT !.touched = FALSE], 404, 0, <<>>)

(* ... then the bytes, which may be another file's by now                  *)
OpenFile ==
  LET r == serve.request
      p == parse_range(r.range, r.size)
      len == (p.end + U64 + 1 - p.start) % U64
      there == IF r.remote THEN serve.s3 ELSE serve.local
  IN  /\ r.stage = "open"
      /\ IF r.file \notin DOMAIN there THEN Answer(r, 404, 0, <<>>)
         ELSE LET bytes == Contents(serve.of, there[r.file])
              IN  IF r.remote /\ p.start >= Len(bytes) THEN Answer(r, 404, 0, <<>>)
                  ELSE Answer(r, p.status, len, Slice(bytes, p.start, len))

ServeNext ==
  \/ ConvertStarts \/ ConvertEnds \/ (\E f \in Tree(serve.of) : UploadOne(f)) \/ UploadEnds
  \/ \E path \in ServePaths(serve.of), range \in ByteRanges : Request(path, range)
  \/ StatFile \/ OpenFile

ServeSpec == ServeInit /\ [][ServeNext]_serve

-----------------------------------------------------------------------------
(* What the middleware checked is what was sent: the two parsers of a path *)
(* agree on the width and the segment of every file that is found, with    *)
(* and without a bucket. (A width of more than 16 bits is not checked.)    *)
CheckedIsServed ==
  LET r == serve.answer.of
      w == IF r.file[1] = <<>> THEN NotGiven ELSE r.file[1][1]
  IN  serve.answer.status \in {200, 206} =>
        /\ r.checked.width = (IF w # NotGiven /\ w >= U16 THEN NotGiven ELSE w)
        /\ r.checked.segment = (IF r.file[2].kind = "init.mp4" THEN 0 ELSE r.file[2].n)

(* While a published video is uploaded and its files removed, every file   *)
(* its playlists lead to is found: a request for it, with the bucket or    *)
(* with the default one, is refused only if the local file went between    *)
(* the look at its size and its opening. (The bucket has no bytes to give  *)
(* of an empty file, nor from a start behind its end.)                     *)
FoundWhilePublished ==
  LET a == serve.answer
      r == a.of
      proper == split_bucket_and_key(r.path).bucket = (IF serve.of.s3 THEN "mine" ELSE "")
      first == IF r.range.first = NotGiven THEN 0 ELSE r.range.first
      satisfiable == ~serve.of.s3 \/ \A v \in DOMAIN serve.of.sizes : first < serve.of.sizes[v]
  IN  a.status # 0 /\ r.published /\ ~r.touched /\ r.file \in Tree(serve.of) /\ proper /\ satisfiable =>
        a.status \in {200, 206}

(* The length that is announced is that of the bytes sent, and they are    *)
(* the bytes asked for, up to the end of the file, if the range can be     *)
(* satisfied and the file was not replaced meanwhile.                      *)
RangeExact ==
  LET a == serve.answer
      r == a.of
      end == Min({IF r.range.last = NotGiven THEN U64 - 1 ELSE r.range.last, r.size - 1})
      first == IF r.range.first = NotGiven THEN 0 ELSE r.range.first
  IN  a.status \in {200, 206} /\ ~r.touched =>
        /\ r.range.first = NotGiven => a.len = r.size
        /\ r.range.first # NotGiven /\ r.size > 0 /\ r.range.first <= end => a.len = end + 1 - first
        /\ r.range.first = NotGiven \/ (r.size > 0 /\ r.range.first <= end) =>
             Len(a.body) = a.len /\ \A i \in DOMAIN a.body : a.body[i][2] = first + i - 1

(* A request is answered with the file that was checked, found as long as  *)
(* the video is published, and with the bytes that were asked for.         *)
ServedRight == CheckedIsServed /\ FoundWhilePublished /\ RangeExact
=============================================================================
