----------------------------- MODULE Formatting -----------------------------
(* What the language server's formatting request does with a file            *)
(* (languageserver/mod.rs): it parses the text, formats the parse tree and   *)
(* answers with the text that replaces the file.  A source is a tree, the    *)
(* words that end a line, comments between the words, and a line length.     *)
EXTENDS Formatter, TreeDisplay

CONSTANT Families    \* sources with the same tree: [tree, nls, comments, widths], the last three sets

VARIABLES
    source,     \* the file: [tree, nls, comments, width]
    unit,       \* the parsed tree, its nodes located
    text,       \* the formatted text
    stage       \* "opened", "parsed", "formatted" or "failed"

vars == <<source, unit, text, stage>>

Nothing == [k |-> "none", t |-> "", p |-> <<>>, s |-> 0, e |-> 0, fresh |-> FALSE]

(* Comments between the words: at gap g, behind word g, the first word of    *)
(* the file being word 1.                                                    *)
At(c, i) == IF c.gap = 0 THEN 0 ELSE Stride * c.gap + WordWidth + i
Placed(s) ==
    [i \in 1..Len(s.comments) |->
        LET c == s.comments[i]
        IN  [text |-> c.text, at |-> At(c, i), line |-> c.gap, own |-> c.own, blank |-> c.blank,
             deep |-> c.deep, more |-> TRUE]]

(* A line comment, and a comment on a line of its own, bring a line end.     *)
LineEnds(s) ==
    s.nls \cup {s.comments[i].gap : i \in {j \in 1..Len(s.comments) :
                    s.comments[j].own \/ s.comments[j].text \in LineComments}}

Init ==
    /\ \E f \in Families : \E n \in f.nls, cs \in f.comments, w \in f.widths :
            source = [tree |-> f.tree, nls |-> n, comments |-> cs, width |-> w]
    /\ unit = Nothing
    /\ text = <<>>
    /\ stage = "opened"

(* solang_parser::parse                                                      *)
Parse ==
    /\ stage = "opened"
    /\ unit' = Locate(source.tree, 1, LineEnds(source))
    /\ stage' = "parsed"
    /\ UNCHANGED <<source, text>>

FileEnd == Stride * (Len(Words(source.tree)) + 1)

(* fmt::format_to                                                            *)
Format ==
    /\ stage = "parsed"
    /\ \E st \in {Run(UnitOps(unit, FileEnd), NewFormatter(Placed(source), source.width))} :
            /\ text' = st.text
            /\ stage' = IF st.err THEN "failed" ELSE "formatted"
    /\ UNCHANGED <<source, unit>>

Done ==
    /\ stage \in {"formatted", "failed"}
    /\ UNCHANGED vars

Next == Parse \/ Format \/ Done

Spec == Init /\ [][Next]_vars

-----------------------------------------------------------------------------
(* The words of a text, its branches in braces (ast_eq.rs).                  *)
OpenBrackets == {"(", "{", "["}
CloseBrackets == {")", "}", "]"}

(* The end of the bracket at i                                               *)
RECURSIVE CloseFrom(_, _, _)
CloseFrom(ws, i, depth) ==
    IF i > Len(ws) THEN Len(ws)
    ELSE LET d == depth + (IF ws[i] \in OpenBrackets THEN 1 ELSE 0) - (IF ws[i] \in CloseBrackets THEN 1 ELSE 0)
         IN  IF d = 0 THEN i ELSE CloseFrom(ws, i + 1, d)
CloseOf(ws, i) == CloseFrom(ws, i, 0)

RECURSIVE SemicolonFrom(_, _)
SemicolonFrom(ws, i) ==
    IF i >= Len(ws) THEN Len(ws)
    ELSE IF ws[i] = ";" THEN i
    ELSE SemicolonFrom(ws, (IF ws[i] \in OpenBrackets THEN CloseOf(ws, i) ELSE i) + 1)

RECURSIVE BraceFrom(_, _)
BraceFrom(ws, i) == IF i >= Len(ws) \/ ws[i] = "{" THEN i ELSE BraceFrom(ws, i + 1)

RECURSIVE CatchesFrom(_, _)
CatchesFrom(ws, i) ==
    IF i < Len(ws) /\ ws[i + 1] = "catch" THEN CatchesFrom(ws, CloseOf(ws, BraceFrom(ws, i + 1))) ELSE i

(* The last word of the statement that starts at i                           *)
RECURSIVE StatementEnd(_, _)
StatementEnd(ws, i) ==
    IF i > Len(ws) THEN Len(ws)
    ELSE CASE ws[i] = "{" -> CloseOf(ws, i)
           [] ws[i] = "if" -> LET e == StatementEnd(ws, CloseOf(ws, i + 1) + 1)
                              IN  IF e < Len(ws) /\ ws[e + 1] = "else" THEN StatementEnd(ws, e + 2) ELSE e
           [] ws[i] \in {"while", "for"} -> StatementEnd(ws, CloseOf(ws, i + 1) + 1)
           [] ws[i] = "do" -> SemicolonFrom(ws, StatementEnd(ws, i + 1) + 1)
           [] ws[i] = "try" -> CatchesFrom(ws, CloseOf(ws, BraceFrom(ws, i)))
           [] ws[i] \in {"unchecked", "assembly"} -> CloseOf(ws, i + 1)
           [] OTHER -> SemicolonFrom(ws, i)

(* Where the branches and loop bodies start                                  *)
BranchStarts(ws) ==
    UNION {CASE ws[i] \in {"if", "while", "for"} /\ ws[i + 1] = "(" ->
                    LET b == CloseOf(ws, i + 1) + 1
                    IN  IF b > Len(ws) \/ ws[b] = ";" THEN {} ELSE {b}
             [] ws[i] = "else" -> IF ws[i + 1] = "if" THEN {} ELSE {i + 1}
             [] ws[i] = "do" -> {i + 1}
             [] OTHER -> {}
           : i \in 1..Len(ws) - 1}

Braced(ws) ==
    LET starts == {i \in BranchStarts(ws) : ws[i] # "{"}
        ends == [i \in starts |-> StatementEnd(ws, i)]
        closing(i) == [j \in 1..Cardinality({b \in starts : ends[b] = i}) |-> "}"]
    IN  Concat([i \in 1..Len(ws) |->
            (IF i \in starts THEN <<"{">> ELSE <<>>) \o <<ws[i]>> \o closing(i)])

(* Parentheses behind the names that are only bases and modifiers            *)
ModifierNames == Capitalised \cup {"m"}
WithoutEmptyArgs(ws) ==
    Concat([i \in 1..Len(ws) |->
        IF \/ i > 1 /\ i < Len(ws) /\ ws[i] = "(" /\ ws[i + 1] = ")" /\ ws[i - 1] \in ModifierNames
           \/ i > 2 /\ ws[i] = ")" /\ ws[i - 1] = "(" /\ ws[i - 2] \in ModifierNames
        THEN <<>> ELSE <<ws[i]>>])

(* The tree up to what AstEq ignores: the order of attributes, how a global  *)
(* import is spelled.                                                        *)
RECURSIVE Canonical(_)
Canonical(n) ==
    LET parts == [i \in 1..Len(n.p) |-> Canonical(n.p[i])]
    IN  [n EXCEPT !.p =
            CASE n.k = "attrs" -> [i \in 1..Len(parts) |-> parts[SortedOrder(n.p)[i]]]
              [] n.k = "importstar" -> <<parts[1], parts[6], parts[3], parts[4], parts[7]>>
              [] OTHER -> parts]

RECURSIVE Unstarred(_)
Unstarred(n) ==
    LET parts == [i \in 1..Len(n.p) |-> Unstarred(n.p[i])]
    IN  IF n.k # "importstar" THEN [n EXCEPT !.p = parts]
        ELSE [n EXCEPT !.p = <<parts[1], parts[6], parts[3], parts[4], parts[7]>>]

(* AstEq, on the words of two files: every node has the same fields          *)
ast_eq(ws, vs) == Braced(WithoutEmptyArgs(ws)) = Braced(WithoutEmptyArgs(vs))

IsComment(x) == x \in CommentTexts
CodeOf(t) == Read(t)
CommentsOf(t) == SelectSeq(t, IsComment)

-----------------------------------------------------------------------------
(* A parsed file is formatted: an error that a layout on one line raises     *)
(* never gets out of the formatter.  The formatted file parses to the tree   *)
(* of the file (AstEq of ast_eq.rs): the lexer reads the words of the file   *)
(* from the text, none joined with its neighbour or hidden in a comment.     *)
SameProgram ==
    stage \in {"formatted", "failed"} =>
        /\ stage = "formatted"
        /\ ast_eq(CodeOf(text), Words(Canonical(source.tree)))

(* Every comment of the file is in the formatted file once: none is lost in  *)
(* a layout that was tried and given up, none is written twice.  No code is  *)
(* written behind a line comment, where it would be part of it.              *)
CommentsOnce ==
    stage = "formatted" =>
        /\ \A i \in 1..Len(source.comments) :
              Len(SelectSeq(text, LAMBDA x : x = source.comments[i].text)) = 1
        /\ \A i \in 1..Len(text) - 1 : text[i] \in LineComments => text[i + 1] = NL

(* The parts of a tree that are printed as something else: a contract's      *)
(* bases (without `is` and commas), the results of a Yul function (in        *)
(* parentheses), a revert with an empty list of named arguments (without its *)
(* braces), an expression at the start of a `for` (with two semicolons) and  *)
(* a sign in front of the same sign.                                         *)
RECURSIVE PrintedOtherwise(_)
PrintedOtherwise(n) ==
    \/ n.k = "contract" /\ Has(n, "bases")
    \/ n.k = "yfun" /\ KidsOf(n, "returns") # <<>>
    \/ n.k = "revertnamed" /\ Between(n, "{", "}") = <<>>
    \/ n.k = "for" /\ n.p[3].k = "expr"
    \/ n.k = "pre" /\ n.p[2].k = "pre" /\ n.p[1].t = n.p[2].p[1].t
    \/ \E i \in 1..Len(n.p) : PrintedOtherwise(n.p[i])

(* A parse tree that is printed (Display) reads back as the same words.      *)
PrintsBack ==
    stage = "opened" =>
        \/ PrintedOtherwise(source.tree)
        \/ source.comments # <<>>
        \/ Read(Display(source.tree)) = Words(Unstarred(source.tree))
=============================================================================
