---------------------------- MODULE FormatBuffer ----------------------------
(* The part of the Solidity formatter (fmt/src) that every visitor writes    *)
(* through: the buffer that may be restricted to one line, the two queues of *)
(* comments, chunks, and the trial of a layout on one line before the layout *)
(* over several lines (formatter.rs, buffer.rs, comments.rs, chunk.rs).      *)
(*                                                                           *)
(* A text is a sequence of lexemes: tokens, spaces, line ends and whole      *)
(* comments, each of width one.  Indentation is left out.  What a visitor    *)
(* does is a sequence of the operations below, which Run carries out on a    *)
(* formatter state; a source position is a number, a comment is taken from   *)
(* its queue when the formatter writes something that lies behind it.        *)
EXTENDS Naturals, Sequences, FiniteSets, SequencesExt

CONSTANT
    BracketSpacing   \* config.bracket_spacing

ASSUME FormatAssumption == BracketSpacing \in BOOLEAN

NL == "\n"
SP == " "
Nowhere == 999       \* an offset that is None

(* The comments a source may hold, by CommentType; the text of a comment     *)
(* names it.  A block comment is on one line.                                *)
LineComments == {"//1", "//2", "///1", "///2"}
DocComments == {"///1", "///2", "/**1*/", "/**2*/"}
DocBlocks == {"/**1*/", "/**2*/"}
CommentTexts == LineComments \cup DocComments \cup {"/*1*/", "/*2*/"}

-----------------------------------------------------------------------------
(* Comments.  A comment in the source: its text, its offset, whether a line  *)
(* end lies between it and the code before it (own), whether the line before *)
(* is empty (blank), whether it is indented deeper than the code after it    *)
(* (deep), and whether more lines follow (more).                             *)

(* CommentWithMetadata::from_comment_and_src: a doc comment, and a comment on *)
(* a line of its own, belong to the code behind them, except a deep comment  *)
(* right after a postfix comment; the others to the code before them.        *)
PrefixPosition(c, last) ==
    \/ c.at = 0
    \/ c.text \in DocComments
    \/ /\ c.own
       /\ c.blank \/ ~(last.after /\ ~last.prefix /\ c.deep)

NoComment == [after |-> FALSE, prefix |-> TRUE]

(* Comments::new: the comments in source order, each put in one of two       *)
(* queues.                                                                   *)
SortComments(cs) ==
    FoldLeft(LAMBDA q, c :
        LET last == [after |-> q.at # Nowhere /\ c.line = q.line, prefix |-> q.prefix]
            p == PrefixPosition(c, IF q.at = Nowhere THEN NoComment ELSE last)
        IN  [q EXCEPT !.at = c.at, !.line = c.line, !.prefix = p,
                      !.pre = IF p THEN Append(@, c) ELSE @,
                      !.post = IF p THEN @ ELSE Append(@, c)],
        [pre |-> <<>>, post |-> <<>>, at |-> Nowhere, line |-> 0, prefix |-> TRUE], cs)

(* Comments::remove_comments_before: the head of a queue up to the first     *)
(* comment that does not start before the offset.                            *)
Before(q, at) ==
    LET late == {i \in 1..Len(q) : ~(q[i].at < at)}
    IN  IF at = Nowhere THEN <<>>
        ELSE IF late = {} THEN q ELSE SubSeq(q, 1, Min(late) - 1)

Behind(q, at) == SubSeq(q, Len(Before(q, at)) + 1, Len(q))

-----------------------------------------------------------------------------
(* The buffer.                                                               *)

(* What one lexeme does to a FormatBuffer: a line end is refused in a buffer *)
(* restricted to a single line, unless the line is still empty.              *)
Put(st, x) ==
    IF st.err THEN st
    ELSE IF x # NL
    THEN [st EXCEPT !.text = Append(@, x), !.bol = FALSE, !.last = x,
                    !.len = (IF st.bol THEN 0 ELSE @) + 1]
    ELSE IF st.single /\ ~st.bol THEN [st EXCEPT !.err = TRUE]
    ELSE [st EXCEPT !.text = Append(@, NL), !.bol = TRUE, !.last = NL, !.len = 0]

Write(st, t) == FoldLeft(Put, st, t)
PutIf(b, st, x) == IF b THEN Put(st, x) ELSE st

(* FormatBuffer::create_temp_buf                                             *)
TempBuf(st) == [st EXCEPT !.text = <<>>, !.bol = TRUE]

FirstChar(x) == IF x \in CommentTexts \cup {"/", "/="} THEN "/" ELSE x
LastChar(x) == IF x \in (CommentTexts \ LineComments) \cup {"/"} THEN "/" ELSE x

(* next_char_needs_space                                                     *)
NeedsSpace(st, x) ==
    LET last == LastChar(st.last)
        next == FirstChar(x)
    IN  /\ ~st.bol
        /\ st.last # ""
        /\ {last, next} \cap {SP, NL} = {}
        /\ CASE last = "{" -> /\ next \notin {"{", "[", "("}
                              /\ next = "/" \/ BracketSpacing
             [] last \in {"(", ".", "["} -> next = "/"
             [] last = "/" -> TRUE
             [] OTHER -> IF next = "}" THEN BracketSpacing
                         ELSE next \notin {")", ",", ".", ";", "]"}

(* will_it_fit                                                               *)
WillItFit(st, t) ==
    \/ t = <<>>
    \/ /\ NL \notin Range(t)
       /\ st.width >= st.len + Len(t) + (IF NeedsSpace(st, t[1]) THEN 1 ELSE 0)

(* write_whitespace_separator                                                *)
Separate(st, multiline) ==
    IF st.bol THEN st ELSE Put(st, IF multiline THEN NL ELSE SP)

(* write_prefix_comment: on a line of its own, after an empty line if it had *)
(* one, and a line end behind it.                                            *)
PrefixComment(st, c, first) ==
    PutIf(c.more \/ c.text \in DocBlocks,
          Put(PutIf(~first /\ c.blank, PutIf(~st.bol, st, NL), NL), c.text), NL)

SpaceBefore(st, x) == PutIf(~st.bol /\ NeedsSpace(st, x), st, SP)
EndLine(b, st) == PutIf(b /\ ~st.bol, st, NL)

(* write_postfix_comment: after the code before it, and a line end behind a  *)
(* line comment.                                                             *)
PostfixComment(st, c) ==
    EndLine(c.text \in LineComments, Put(SpaceBefore(st, c.text), c.text))

WriteComment(st, c, first) ==
    IF c.prefix THEN PrefixComment(st, c, first) ELSE PostfixComment(st, c)

(* write_comments                                                            *)
WriteComments(st, cs) ==
    FoldLeftDomain(LAMBDA s, i : WriteComment(s, cs[i], i = 1), st, cs)

PostBefore(st, at) ==
    WriteComments([st EXCEPT !.post = Behind(@, at)], Before(st.post, at))
PreBefore(st, at) ==
    WriteComments([st EXCEPT !.pre = Behind(@, at)], Before(st.pre, at))

-----------------------------------------------------------------------------
(* Chunks: a text and the comments taken with it.                            *)
Chunk(t) == [pb |-> <<>>, pre |-> <<>>, t |-> t, post |-> <<>>, sp |-> "auto"]

(* write_chunk's trimming of the start of a text                             *)
TrimStart(t) ==
    LET solid == {i \in 1..Len(t) : t[i] \notin {SP, NL}}
    IN  IF solid = {} THEN <<>> ELSE SubSeq(t, Min(solid), Len(t))
TrimChunk(t) ==
    IF t # <<>> /\ t[1] \in {SP, NL} THEN <<t[1]>> \o TrimStart(t) ELSE t

(* write_chunk: the comments before, a space or a line end where the next    *)
(* character needs one, the text, the comments behind.                       *)
WriteText(st, t, sp) ==
    LET space == CASE sp = "yes" -> TRUE
                   [] sp = "no" -> FALSE
                   [] OTHER -> NeedsSpace(st, t[1])
    IN  IF t = <<>> THEN st
        ELSE Write(PutIf(space, st, IF WillItFit(st, t) THEN SP ELSE NL), t)
WriteChunk(st, ch) ==
    WriteComments(WriteText(WriteComments(WriteComments(st, ch.pb), ch.pre), TrimChunk(ch.t), ch.sp), ch.post)

(* write_chunks_separated: the comments behind a chunk go behind the         *)
(* separator.                                                                *)
WriteChunks(st, chunks, sep, multiline) ==
    FoldLeftDomain(LAMBDA s, i :
        LET ch == chunks[i]
            last == i = Len(chunks)
            before == EndLine(multiline, WriteComments(s, ch.pb))
            chunk == WriteChunk(before, [ch EXCEPT !.pb = <<>>, !.post = <<>>])
        IN  EndLine(multiline /\ ~last, WriteComments(Write(chunk, IF last THEN <<>> ELSE sep), ch.post)),
        st, chunks)

(* are_chunks_separated_multiline: the chunks and what follows them do not   *)
(* fit on the line.                                                          *)
FitsBefore(st, one, after) == ~one.err /\ WillItFit(st, one.text) /\ WillItFit(st, one.text \o after)
NotOnOneLine(st, chunks, after, sep) ==
    ~FitsBefore(st, WriteChunks([TempBuf(st) EXCEPT !.single = TRUE], chunks, sep, FALSE), after)

-----------------------------------------------------------------------------
(* The operations visitors are made of.                                      *)
T(t) == [op |-> "text", t |-> t]                     \* write!(self.buf(), ..)
C(at, next, t) == [op |-> "chunk", at |-> at, next |-> next, t |-> t, sp |-> "auto"]
CAt(at, t) == C(at, Nowhere, t)                      \* write_chunk!(self, loc, ..)
CText(t) == C(0, Nowhere, t)                         \* write_chunk!(self, ..)
CSpaced(at, next, sp, t) == [op |-> "chunk", at |-> at, next |-> next, t |-> t, sp |-> sp]
Sep(multiline) == [op |-> "sep", nl |-> multiline]   \* write_whitespace_separator
Post(at) == [op |-> "post", at |-> at]               \* write_postfix_comments_before
Pre(at) == [op |-> "pre", at |-> at]                 \* write_prefix_comments_before
Around(at, body, before, after, sp) ==
    [at |-> at, body |-> body, before |-> before, after |-> after, sp |-> sp]
Item(at, body) == Around(at, body, <<>>, <<>>, "auto")  \* an item of items_to_chunks
VisitItem(item, next) == [op |-> "visit", item |-> item, next |-> next]
Visit(at, next, body) == VisitItem(Item(at, body), next)
Chunks(items, next, sep, after, how) ==
    [op |-> "chunks", items |-> items, next |-> next, sep |-> sep, after |-> after, how |-> how]
Try(body, else) == [op |-> "try", body |-> body, else |-> else]
Commit(body, else) == [op |-> "commit", body |-> body, else |-> else]
Attempt(body, else) == [op |-> "attempt", body |-> body, else |-> else]
Wide(yes, no) == [op |-> "wide", yes |-> yes, no |-> no]
Context(c) == [op |-> "context", c |-> c]            \* context.if_stmt_single_line
Closing(at, t) == [op |-> "closing", at |-> at, t |-> t]
Case(body, yes, no) == [op |-> "case", body |-> body, yes |-> yes, no |-> no]
Surround(first, last, one, many) ==
    [op |-> "surround", first |-> first, last |-> last, one |-> one, many |-> many]
SurroundNamed(item, next, at, last, one, many) ==      \* the first chunk is a string made of a chunk
    [op |-> "named", item |-> item, next |-> next, at |-> at, last |-> last, one |-> one, many |-> many]
Stringed(item, next) == [op |-> "stringed", item |-> item, next |-> next]
Hold(items, nexts, order) ==                           \* chunks that are written later
    [op |-> "hold", items |-> items, nexts |-> nexts, order |-> order]
Held(from, to, sep, how) == [op |-> "held", from |-> from, to |-> to, sep |-> sep, how |-> how]
Drop == [op |-> "drop"]
Fits(body, single) == [op |-> "fits", body |-> body, single |-> single]
Clauses(items, nexts) == [op |-> "clauses", items |-> items, nexts |-> nexts]
Copied(at, end, words) == [op |-> "copied", at |-> at, end |-> end, words |-> words]  \* visit_source
Lines(end, items) == [op |-> "lines", end |-> end, items |-> items]
Answer(b) == [op |-> "answer", b |-> b]              \* Ok(b)
Bail == [op |-> "bail"]                              \* bail!(FormatterError::fmt())
Fit(t) == [op |-> "fit", t |-> t]                    \* bail unless t fits
If(b, ops) == IF b THEN ops ELSE <<>>

(* chunk_at: the comments before the offset and, if there is one, before the *)
(* next offset leave the queues.                                             *)
ChunkAt(st, o) ==
    [pb |-> Before(st.post, o.at), pre |-> Before(st.pre, o.at), t |-> o.t, sp |-> o.sp,
     post |-> Before(Behind(st.post, o.at), o.next)]
Taken(st, at, next) ==
    [st EXCEPT !.post = Behind(Behind(@, at), IF next = Nowhere THEN 0 ELSE next),
               !.pre = Behind(@, at)]

RECURSIVE Run(_, _)

(* with_temp_buf, and what is left of the formatter when it returns: the     *)
(* comments that were taken, an error and an answer.                         *)
Within(st, body, single) == Run(body, [TempBuf(st) EXCEPT !.single = single])
Back(st, tmp) ==
    [st EXCEPT !.pre = tmp.pre, !.post = tmp.post, !.err = tmp.err, !.answer = tmp.answer, !.wide = tmp.wide]

(* chunked: comments before the item, its text in a buffer of its own,       *)
(* comments behind it.  Answers the chunk and the formatter.                 *)
Chunked(st, item, next) ==
    LET a == Taken(st, item.at, Nowhere)
        tmp == Within(a, item.body, st.single)
        b == Back(a, tmp)
    IN  [ch |-> [pb |-> Before(st.post, item.at), pre |-> Before(st.pre, item.at),
                 t |-> item.before \o tmp.text \o item.after, post |-> Before(b.post, next),
                 sp |-> item.sp],
         st |-> IF next = Nowhere THEN b ELSE [b EXCEPT !.post = Behind(@, next)]]

(* Items to chunks one after the other, up to the first error.               *)
ChunksOf(st, items, nexts) ==
    FoldLeftDomain(LAMBDA r, i :
        LET c == Chunked(r.st, items[i], nexts[i])
        IN  IF r.st.err THEN r ELSE [chs |-> Append(r.chs, c.ch), st |-> c.st],
        [chs |-> <<>>, st |-> st], items)

(* items_to_chunks: the comments up to the next item belong to an item.      *)
Nexts(items, next) ==
    [i \in 1..Len(items) |-> IF i < Len(items) THEN items[i + 1].at ELSE next]
ItemsToChunks(st, items, next) == ChunksOf(st, items, Nexts(items, next))

RunTryMutant(st, o) ==
    LET tmp == Within(st, o.body, TRUE)
    IN  IF ~tmp.err /\ WillItFit(st, tmp.text)
        THEN [WriteChunk(Back(st, tmp), Chunk(tmp.text)) EXCEPT !.answer = TRUE]
        ELSE Run(o.else, [Back(st, tmp) EXCEPT !.answer = FALSE, !.err = FALSE])

(* try_on_single_line: the layout is committed if it needs no line end and   *)
(* fits; the comments are given back otherwise.                              *)
RunTry(st, o) ==
    LET tmp == Within(st, o.body, TRUE)
    IN  IF ~tmp.err /\ WillItFit(st, tmp.text)
        THEN [WriteChunk(Back(st, tmp), Chunk(tmp.text)) EXCEPT !.answer = TRUE]
        ELSE Run(o.else, [st EXCEPT !.answer = FALSE, !.wide = tmp.wide])

(* A transaction committed if its body answers yes (visit_assignment).       *)
RunCommit(st, o) ==
    LET tmp == Within(st, o.body, st.single)
    IN  IF tmp.err THEN Back(st, tmp)
        ELSE IF tmp.answer THEN WriteChunk(Back(st, tmp), Chunk(tmp.text))
        ELSE Run(o.else, [st EXCEPT !.wide = tmp.wide])

(* A transaction committed unless its body fails (visit_if).                 *)
RunAttempt(st, o) ==
    LET tmp == Within(st, o.body, st.single)
    IN  IF tmp.err THEN Run(o.else, [st EXCEPT !.wide = tmp.wide])
        ELSE WriteChunk(Back(st, tmp), Chunk(tmp.text))

(* surrounded                                                                *)
TakeChunk(st, o) == WriteChunk(Taken(st, o.at, o.next), ChunkAt(st, o))
OnNextLine(st, o, tmp) ==
    TakeChunk(EndLine(TrimStart(o.last.t) # <<>>, WriteChunk(Back(st, tmp), Chunk(TrimStart(tmp.text)))), o.last)
Surrounded(st, o, one) ==
    LET next == EndLine(TRUE, [st EXCEPT !.wide = one.wide])
    IN  IF st.err THEN st
        ELSE IF ~one.err /\ WillItFit(st, one.text)
        THEN WriteChunk(Back(st, one), Chunk(one.text))
        ELSE OnNextLine(next, o, Within(next, o.many, next.single))
RunSurround(st, o) ==
    LET opened == TakeChunk(st, o.first)
    IN  Surrounded(opened, o, Within(opened, o.one \o <<o.last>>, TRUE))

RunChunks(st, o) ==
    LET r == ItemsToChunks(st, o.items, o.next)
        multiline == CASE o.how = "one" -> FALSE
                       [] o.how = "many" -> TRUE
                       [] OTHER -> NotOnOneLine(r.st, r.chs, o.after, o.sep)
    IN  IF r.st.err THEN r.st
        ELSE [WriteChunks(r.st, r.chs, o.sep, multiline) EXCEPT !.answer = multiline]

(* Chunks taken first and written later, possibly in another order.          *)
RunHold(st, o) ==
    LET r == ChunksOf(st, o.items, o.nexts)
    IN  IF r.st.err THEN r.st
        ELSE [r.st EXCEPT !.held = Append(@, [i \in 1..Len(o.items) |-> r.chs[o.order[i]]])]

RunHeld(st, o) ==
    LET chs == SubSeq(Last(st.held), o.from, o.to)
    IN  CASE o.how = "each" -> FoldLeft(WriteChunk, st, chs)
          [] OTHER -> WriteChunks(st, chs, o.sep, o.how = "many")

(* The end of a slice is not set apart if no comment is before it.           *)
Tightened(st, ch) ==
    IF ch.sp = "tight" \/ ch.sp = "first"
    THEN [ch EXCEPT !.sp = IF ch.pre = <<>> /\ ch.pb = <<>> /\ (ch.sp = "first" \/ WillItFit(st, ch.t))
                           THEN "no" ELSE "auto"]
    ELSE ch

(* chunk_to_string                                                           *)
StringOf(st, ch) == WriteChunk(TempBuf(st), ch)

(* simulate_to_string and will_it_fit                                        *)
RunFits(st, o) ==
    LET tmp == Within(st, o.body, o.single \/ st.single)
    IN  IF tmp.err THEN [st EXCEPT !.err = ~o.single, !.answer = FALSE]
        ELSE [st EXCEPT !.answer = WillItFit(st, tmp.text)]

(* visit_try: the clauses on one line if they fit; otherwise a clause starts *)
(* a line unless it and the one before it are of several lines.              *)
WriteClauses(st, chs) ==
    LET put(r, i) ==
            LET t == StringOf(r.st, chs[i])
                many == NL \in Range(t.text)
                before == IF i = 1 \/ r.st.bol THEN <<>>
                          ELSE IF r.many /\ (many \/ i = Len(chs)) THEN <<SP>> ELSE <<NL>>
            IN  [st |-> IF t.err THEN [r.st EXCEPT !.err = TRUE] ELSE Write(r.st, before \o t.text),
                 many |-> many]
    IN  IF st.err THEN st
        ELSE IF ~NotOnOneLine(st, chs, <<>>, <<>>) THEN WriteChunks(st, chs, <<>>, FALSE)
        ELSE FoldLeftDomain(put, [st |-> st, many |-> FALSE], chs).st
RunClauses(st, o) ==
    LET taken == ChunksOf(st, o.items, o.nexts) IN WriteClauses(taken.st, taken.chs)

(* visit_source: the source between two offsets with its comments, which     *)
(* leave the queues unwritten; the first line is a chunk.                    *)
RunCopied(st, o) ==
    LET comments == SelectSeq(st.pre \o st.post, LAMBDA c : c.at > o.at /\ c.at < o.end)
        within(c, i) == o.words[i].s < c.at /\ (i = Len(o.words) \/ c.at < o.words[i + 1].s)
        behind(i) ==
            LET cs == SelectSeq(comments, LAMBDA c : within(c, i))
            IN  FlattenSeq([j \in 1..Len(cs) |-> <<IF cs[j].own THEN NL ELSE SP, cs[j].text>>])
                \o (IF cs # <<>> /\ Last(cs).text \in LineComments THEN <<NL>> ELSE <<SP>>)
        source == FlattenSeq([i \in 1..Len(o.words) |->
                    IF i = Len(o.words) THEN <<o.words[i].t>> ELSE <<o.words[i].t>> \o behind(i)])
        ends == {i \in 1..Len(source) : source[i] = NL}
        line == IF ends = {} THEN Len(source) ELSE Min(ends) - 1
        chunk == C(o.at, Nowhere, SubSeq(source, 1, line))
    IN  [Write(TakeChunk(st, chunk), SubSeq(source, line + 1, Len(source)))
            EXCEPT !.pre = Behind(@, o.end), !.post = Behind(@, o.end)]

(* write_lined_visitable: items and comments in the order of the source, one *)
(* per line, and an empty line where an item asks for one.                   *)
NextComment(st) ==
    IF st.pre = <<>> THEN st.post
    ELSE IF st.post = <<>> \/ st.pre[1].at < st.post[1].at THEN st.pre
    ELSE st.post

RECURSIVE RunLines(_, _, _, _)
RunLines(st, o, i, space) ==
    LET q == NextComment(st)
        comment == q # <<>> /\ q[1].end < o.end
        popped == IF q[1].prefix THEN [st EXCEPT !.pre = Tail(@)] ELSE [st EXCEPT !.post = Tail(@)]
        first == i = 1 /\ ~st.started
        afterComment == [WriteComment(popped, q[1], first) EXCEPT !.started = TRUE]
        a == Separate(st, TRUE)
        b == IF ~first /\ space THEN Put(a, NL) ELSE a
    IN  IF st.err THEN st
        ELSE IF comment /\ (i > Len(o.items) \/ q[1].at < o.items[i].at)
        THEN RunLines(afterComment, o, i, space /\ ~(~first /\ q[1].blank))
        ELSE IF i <= Len(o.items)
        THEN RunLines([Run(o.items[i].body, b) EXCEPT !.started = TRUE], o, i + 1, o.items[i].space)
        ELSE IF first THEN st
        ELSE LET cs == Before(st.pre, o.end)
             IN  FoldLeft(LAMBDA s, c : WriteComment(s, c, FALSE),
                          [st EXCEPT !.pre = Behind(@, o.end)], cs)

RunOne(st, o) ==
    CASE o.op = "text" -> Write(st, o.t)
      [] o.op = "chunk" -> TakeChunk(st, o)
      [] o.op = "sep" -> Separate(st, o.nl)
      [] o.op = "post" -> PostBefore(st, o.at)
      [] o.op = "pre" -> PreBefore(st, o.at)
      [] o.op = "visit" -> LET c == Chunked(st, o.item, o.next)
                           IN  IF c.st.err THEN c.st ELSE WriteChunk(c.st, Tightened(c.st, c.ch))
      [] o.op = "chunks" -> RunChunks(st, o)
      [] o.op = "try" -> RunTry(st, o)
      [] o.op = "commit" -> RunCommit(st, o)
      [] o.op = "case" -> LET a == Run(o.body, st)
                          IN  Run(IF a.answer THEN o.yes ELSE o.no, a)
      [] o.op = "attempt" -> RunAttempt(st, o)
      [] o.op = "wide" -> Run(IF st.wide THEN o.yes ELSE o.no, st)
      [] o.op = "context" -> [st EXCEPT !.wide = o.c]
      [] o.op = "closing" ->
            LET before == IF st.answer /\ ~st.bol THEN <<NL>>
                          ELSE IF BracketSpacing THEN <<SP>> ELSE <<>>
            IN  Run(<<CAt(o.at, before \o o.t)>>, st)
      [] o.op = "surround" -> RunSurround(st, o)
      [] o.op = "named" ->
            LET c == Chunked(st, o.item, o.next)
                name == StringOf(c.st, c.ch).text
            IN  IF c.st.err THEN c.st
                ELSE RunSurround([c.st EXCEPT !.answer = WillItFit(c.st, name)],
                                 Surround(CSpaced(o.at, Nowhere, "auto", name), o.last, o.one, o.many))
      [] o.op = "stringed" -> LET c == Chunked(st, o.item, o.next)
                              IN  IF c.st.err THEN c.st ELSE Write(c.st, StringOf(c.st, c.ch).text)
      [] o.op = "eof" -> IF st.last = NL THEN st ELSE Put(st, NL)
      [] o.op = "hold" -> RunHold(st, o)
      [] o.op = "held" -> RunHeld(st, o)
      [] o.op = "drop" -> [st EXCEPT !.held = Front(@)]
      [] o.op = "fits" -> RunFits(st, o)
      [] o.op = "clauses" -> RunClauses(st, o)
      [] o.op = "copied" -> RunCopied(st, o)
      [] o.op = "lines" -> [RunLines([st EXCEPT !.started = FALSE], o, 1, FALSE)
                            EXCEPT !.started = st.started]
      [] o.op = "answer" -> [st EXCEPT !.answer = o.b]
      [] o.op = "bail" -> [st EXCEPT !.err = TRUE]
      [] o.op = "fit" -> IF WillItFit(st, o.t) THEN st ELSE [st EXCEPT !.err = TRUE]

(* A visitor's operations one after the other, up to the first error.        *)
Run(ops, st) ==
    IF ops = <<>> \/ st.err THEN st
    ELSE CHOOSE r \in {Run(Tail(ops), s) : s \in {RunOne(st, Head(ops))}} : TRUE

(* Formatter::new, with config.line_length in lexemes                        *)
NewFormatter(cs, width) ==
    LET q == SortComments(cs)
        mark(s, p) == [i \in 1..Len(s) |->
            [text |-> s[i].text, at |-> s[i].at, end |-> s[i].at + 1,
             own |-> s[i].own, blank |-> s[i].blank, more |-> s[i].more, prefix |-> p]]
    IN  [text |-> <<>>, bol |-> TRUE, len |-> 0, last |-> "", single |-> FALSE, err |-> FALSE,
         answer |-> FALSE, started |-> FALSE, wide |-> FALSE, held |-> <<>>, width |-> width,
         pre |-> mark(q.pre, TRUE), post |-> mark(q.post, FALSE)]
=============================================================================
