-------------------------- MODULE StreamSpecifier --------------------------
(* StreamSpecifier of ez-ffmpeg's core/metadata/stream_specifier.rs: how a *)
(* specification such as p:1:v:0 is read, and which streams of a file it   *)
(* selects. A text is a sequence of tokens: a number, a name or a letter   *)
(* with a meaning, a colon.                                                *)
EXTENDS Integers, SequencesExt, FiniteSets

CONSTANTS
  Tables,      \* files: [streams, programs, groups]
  Specifiers,  \* specifiers that are looked up in them
  Numbers      \* the tokens that are numbers, with their values

VARIABLE query

Media == [v |-> "video", V |-> "video", a |-> "audio", s |-> "subtitle", t |-> "attachment", d |-> "data"]
AnyStream == [media |-> "any", no_apic |-> FALSE, idx |-> -1, list |-> "all", id |-> 0,
        meta |-> "", val |-> "", usable |-> FALSE, disposition |-> ""]

-----------------------------------------------------------------------------
(* StreamSpecifier::parse. at is the token that is read next; a number     *)
(* takes the character behind it along, whatever it is.                    *)
Token(text, i) == IF i \in DOMAIN text THEN text[i] ELSE ""
Alnum(token) == token \notin {"", ":", "#", "_", "+"}
Fails(p) == [p EXCEPT !.err = TRUE, !.at = 0]
Ends(p, i, ss) == [p EXCEPT !.at = i, !.ss = ss, !.done = TRUE]

(* p:N, g:N, g:#N, g:i:N, #N and i:N, with the number at i *)
ParseList(p, text, list, i, last) ==
  IF p.ss.list # "all" \/ Token(text, i) \notin DOMAIN Numbers THEN Fails(p)
  ELSE [p EXCEPT !.ss.list = list, !.ss.id = Numbers[text[i]], !.at = i + 2, !.done = last]

ParseType(p, text, c) ==
  IF Alnum(Token(text, p.at + 1)) THEN [p EXCEPT !.done = TRUE]
  ELSE IF p.ss.media # "any" THEN Fails(p)
  ELSE [p EXCEPT !.ss.media = Media[c], !.ss.no_apic = (c = "V"), !.at = @ + 1]

ParseStep(p, text) ==
  LET c == Token(text, p.at)
      Next(k) == Token(text, p.at + k)
  IN  CASE c \in DOMAIN Numbers -> Ends(p, p.at + 2, [p.ss EXCEPT !.idx = Numbers[c]])
        [] c \in DOMAIN Media -> ParseType(p, text, c)
        [] c = "disp" /\ Next(1) = ":" -> IF p.ss.disposition # "" \/ ~Alnum(Next(2)) THEN Fails(p)
                                       ELSE [p EXCEPT !.ss.disposition = Next(2), !.at = @ + 4]
        [] c = "p" /\ Next(1) = ":" -> ParseList(p, text, "program", p.at + 2, FALSE)
        [] c = "g" /\ Next(1) = ":" -> CASE Next(2) = "#" -> ParseList(p, text, "group id", p.at + 3, FALSE)
                                     [] Next(2) = "i" /\ Next(3) = ":" -> ParseList(p, text, "group id", p.at + 4, FALSE)
                                     [] OTHER -> ParseList(p, text, "group", p.at + 2, FALSE)
        [] c = "#" -> ParseList(p, text, "stream id", p.at + 1, TRUE)
        [] c = "i" /\ Next(1) = ":" -> ParseList(p, text, "stream id", p.at + 2, TRUE)
        [] c = "m" /\ Next(1) = ":" -> IF Next(2) \in {"", ":"} THEN Fails(p)
                                    ELSE Ends(p, IF Next(4) = ":" THEN p.at + 5 ELSE p.at + 6,
                                              [p.ss EXCEPT !.meta = Next(2), !.val = IF Next(4) = ":" THEN "" ELSE Next(4)])
        [] c = "u" /\ Next(1) \in {"", ":"} -> Ends(p, p.at + 1, [p.ss EXCEPT !.usable = TRUE])
        [] c = ":" -> [p EXCEPT !.at = @ + 1]
        [] OTHER -> [p EXCEPT !.done = TRUE]

Parse(text) ==
  LET p == FoldLeft(LAMBDA q, n : IF q.err \/ q.done \/ q.at > Len(text) THEN q ELSE ParseStep(q, text),
                    [at |-> 1, ss |-> AnyStream, err |-> FALSE, done |-> FALSE], text)
  IN  [ok |-> ~p.err /\ p.at > Len(text) /\ p.ss # AnyStream, ss |-> p.ss]

-----------------------------------------------------------------------------
(* StreamSpecifier::matches. The streams that are looked at, in order.     *)
Candidates(ss, file, st) ==
  CASE ss.list = "stream id" -> IF file.streams[st].id = ss.id THEN <<st>> ELSE <<>>
    [] ss.list = "all" -> IF ss.idx = -1 THEN <<st>> ELSE [i \in 1 .. st |-> i]
    [] ss.list = "program" -> LET k == SelectInSeq(file.programs, LAMBDA g : g.id = ss.id)
                              IN  IF k = 0 THEN <<>> ELSE file.programs[k].streams
    [] ss.list = "group id" -> LET k == SelectInSeq(file.groups, LAMBDA g : g.id = ss.id)
                               IN  IF k = 0 THEN <<>> ELSE file.groups[k].streams
    [] OTHER -> IF ss.id + 1 \in DOMAIN file.groups THEN file.groups[ss.id + 1].streams ELSE <<>>

Passes(ss, x) ==
  /\ ss.media = "any" \/ (ss.media = x.media /\ ~(ss.no_apic /\ x.apic))
  /\ ss.meta = "" \/ (ss.meta \in DOMAIN x.tags /\ ss.val \in {"", x.tags[ss.meta]})
  /\ ss.usable => x.usable
  /\ ss.disposition # "" => ss.disposition \in {"default", "forced"} \cap x.flags

\* A mutant: streams that do not pass are counted.
MatchCounted(ss, file, st) ==
  LET met == Candidates(ss, file, st)
      k == SelectInSeq(met, LAMBDA c : c = st)
  IN  k # 0 /\ Passes(ss, file.streams[st]) /\ ss.idx \in {-1, k - 1}

SpecMatches(ss, file, st) ==
  LET met == SelectSeq(Candidates(ss, file, st), LAMBDA c : Passes(ss, file.streams[c]))
      k == SelectInSeq(met, LAMBDA c : c = st)
  IN  k # 0 /\ ss.idx \in {-1, k - 1}

-----------------------------------------------------------------------------
(* A specifier is written down, read and looked up. *)
Part(is, tokens) == IF is THEN tokens \o <<":">> ELSE <<>>
Number(n) == CHOOSE t \in DOMAIN Numbers : Numbers[t] = n
Text(ss) ==
  LET letter == CASE ss.media = "any" -> "" [] ss.no_apic -> "V"
                  [] OTHER -> CHOOSE c \in DOMAIN Media \ {"V"} : Media[c] = ss.media
      full == Part(ss.list = "program", <<"p", ":", Number(ss.id)>>)
           \o Part(ss.list = "group", <<"g", ":", Number(ss.id)>>)
           \o Part(ss.list = "group id", <<"g", ":", "#", Number(ss.id)>>)
           \o Part(letter # "", <<letter>>)
           \o Part(ss.disposition # "", <<"disp", ":", ss.disposition>>)
           \o Part(ss.list = "stream id", <<"i", ":", Number(ss.id)>>)
           \o Part(ss.idx # -1, <<Number(ss.idx)>>)
           \o Part(ss.meta # "", <<"m", ":", ss.meta>> \o (IF ss.val = "" THEN <<>> ELSE <<":", ss.val>>))
           \o Part(ss.usable, <<"u">>)
  IN  SubSeq(full, 1, Len(full) - 1)

NewQueries == {[file |-> f, ss |-> ss, read |-> [ok |-> FALSE, ss |-> AnyStream], hits |-> {}, all |-> {}, stage |-> "new"]
                 : f \in Tables, ss \in Specifiers}
QueryInit == query \in NewQueries
Hits(ss, file) == {i \in DOMAIN file.streams : SpecMatches(ss, file, i)}
LookUp ==
  /\ query.stage = "new"
  /\ LET p == Parse(Text(query.ss))
     IN  query' = [query EXCEPT !.read = p, !.stage = "done",
                                !.hits = IF p.ok THEN Hits(p.ss, query.file) ELSE {},
                                !.all = IF p.ok THEN Hits([p.ss EXCEPT !.idx = -1], query.file) ELSE {}]
QueryNext == LookUp

Terminal(ss) == Cardinality({x \in {"list", "idx", "meta", "usable"} :
                  CASE x = "list" -> ss.list = "stream id" [] x = "idx" -> ss.idx # -1
                    [] x = "meta" -> ss.meta # "" [] OTHER -> ss.usable}) <= 1
(* A specifier with at most one of the parts that end it is read back from *)
(* its text as it was meant, although numbers and names take the character *)
(* behind them along; the empty one is refused.                            *)
SpecifierReadBack ==
  query.stage = "done" => /\ query.ss = AnyStream => ~query.read.ok
                          /\ query.ss # AnyStream /\ Terminal(query.ss) => query.read = [ok |-> TRUE, ss |-> query.ss]

(* An index selects one of the streams that the specifier selects without  *)
(* it, and selects none only if there are not that many.                   *)
IndexPicksOne ==
  query.stage = "done" /\ query.read.ok =>
    /\ query.hits \subseteq query.all
    /\ query.ss.idx # -1 => Cardinality(query.hits) = IF query.ss.idx < Cardinality(query.all) THEN 1 ELSE 0

(* A specifier means what it says: it is read back as it was written, and  *)
(* its index picks one of the streams its other conditions leave.          *)
SpecifierMeans == SpecifierReadBack /\ IndexPicksOne
=============================================================================
