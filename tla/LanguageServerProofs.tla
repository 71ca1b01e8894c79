------------------------ MODULE LanguageServerProofs ------------------------
(***************************************************************************)
(* The language server's caches and diagnostics follow the editor's texts, *)
(* for every workspace, every number of messages and of handlers.          *)
(***************************************************************************)
EXTENDS LanguageServer, TLAPS, FiniteSetTheorems

Kinds == {"none", "open", "change", "save", "close", "hover", "completion", "goto",
          "references", "rename"}

Message == [kind : Kinds, file : Files \cup {"none"}, base : Int, ver : Int, flag : BOOLEAN]

FilesStages == {"update", "snapshot", "insert", "close", "lookup", "collect"}

Stages == FilesStages \cup {"idle", "merge", "publish", "cleared", "resolve", "suggest", "retain"}

TypeOK ==
  /\ workspace \in Workspaces
  /\ disk \in [Files -> Int] /\ doc \in [Files -> Int] /\ count \in Nat
  /\ inbox \in Seq(Message) /\ msg \in [Handlers -> Message]
  /\ pc \in [Handlers -> Stages]
  /\ snap = [h \in Handlers |-> snap[h]] /\ \A h \in Handlers : snap[h].at \in Nat
  /\ text_buffers \in [Files -> Int] /\ diagnostics = [f \in Files |-> diagnostics[f]]
  /\ caches = [f \in Files |-> caches[f]] /\ \A f \in Files : caches[f].at \in Nat
  /\ files \in Seq(Handlers \X FilesStages)
  /\ clock \in Nat

-----------------------------------------------------------------------------
(* The mutex `files`.                                                      *)

\* The handlers that keep `files` while they wait for `global_cache` or send
\* diagnostics, by the request that got them the lock.
Keeps(stage) ==
  CASE stage = "insert" -> {"merge", "publish"}
    [] stage = "lookup" -> {"suggest"}
    [] stage = "collect" -> {"retain"}
    [] OTHER -> {}

KeepStages == {"merge", "publish", "suggest", "retain"}

\* A handler that waits for `files` has one request; the holder's is the first.
Requests ==
  /\ \A i, j \in 1 .. Len(files) : files[i][1] = files[j][1] => i = j
  /\ \A i \in 1 .. Len(files) : \/ pc[files[i][1]] = files[i][2]
                                \/ i = 1 /\ pc[files[i][1]] \in Keeps(files[i][2])
  /\ \A h \in Handlers : pc[h] \in FilesStages \cup KeepStages
                           => \E i \in 1 .. Len(files) : files[i][1] = h

\* What a handler changes is what its message says.
Tasks ==
  \A h \in Handlers :
    /\ pc[h] = "update" => \/ msg[h].kind \in {"open", "change"}
                           \/ msg[h].kind = "save" /\ msg[h].flag
    /\ pc[h] = "close" => msg[h].kind = "close"

\* The parses wait for `files` in the order of their snapshots, and no cache is
\* newer than a snapshot that waits.
InOrder ==
  /\ \A i, j \in 1 .. Len(files) :
       i < j /\ files[i][2] = "insert" /\ files[j][2] = "insert"
         => snap[files[i][1]].at < snap[files[j][1]].at
  /\ \A i \in 1 .. Len(files) : files[i][2] = "insert"
       => /\ snap[files[i][1]].at <= clock
          /\ \A f \in Files : caches[f].at <= snap[files[i][1]].at
  /\ \A f \in Files : caches[f].at <= clock

-----------------------------------------------------------------------------
(* The texts.                                                              *)

\* Message m sets the text of file f.
Text(m, f) ==
  m.file = f /\ (m.kind \in {"open", "change", "close"} \/ (m.kind = "save" /\ m.flag))

\* The text after message m, which was sent when it was old.
Result(m) == IF m.kind = "close" THEN NoText ELSE m.ver

Follows(old, m) ==
  /\ m.kind = "change" => old = m.base /\ old # NoText
  /\ m.kind = "save" => old = m.ver /\ old # NoText

\* In L, of length n, the messages about f that set its text lead from old to
\* new, each made for the text that the one before it leaves.
Leads(L, n, f, old, new) ==
  /\ \A j \in 1 .. n : Text(L[j], f) /\ (\A i \in 1 .. j - 1 : ~Text(L[i], f))
       => Follows(old, L[j])
  /\ \A i, j \in 1 .. n :
       i < j /\ Text(L[i], f) /\ Text(L[j], f) /\ (\A k \in i + 1 .. j - 1 : ~Text(L[k], f))
         => Follows(Result(L[i]), L[j])
  /\ \A i \in 1 .. n : Text(L[i], f) /\ (\A k \in i + 1 .. n : ~Text(L[k], f))
       => Result(L[i]) = new
  /\ (\A i \in 1 .. n : ~Text(L[i], f)) => old = new

\* The messages that still have to set a text, in the order that they will:
\* first those whose handlers wait for `files`, then those not yet read.
Size == Len(files) + Len(inbox)

Line ==
  [i \in 1 .. Size |->
     IF i <= Len(files)
     THEN IF files[i][2] \in {"update", "close"} THEN msg[files[i][1]] ELSE NoMsg
     ELSE inbox[i - Len(files)]]

\* They make the server's texts into those of the editor.
TextsFollow == \A f \in Files : Leads(Line, Size, f, text_buffers[f], doc[f])

-----------------------------------------------------------------------------
(* The results.                                                            *)

\* A message that sets the text of f has not been handled.
Pending(f) == \E i \in 1 .. Size : Text(Line[i], f)

\* The text of f has been set and its snapshot taken.
Settled(f) ==
  /\ doc[f] # NoText
  /\ ~Pending(f)
  /\ \A h \in Handlers : ~(pc[h] = "snapshot" /\ msg[h].file = f)

\* The parses that still have to set the cache, and the diagnostics, of f.
Caching(f) == {h \in Handlers : pc[h] = "insert" /\ f \in Namespace(msg[h].file)}

Reporting(f) == {h \in Handlers : pc[h] \in {"insert", "merge"} /\ msg[h].file = f}

\* The newest of the parses in H has the text v of f; shown is what there is
\* already if H is empty.
NewestHas(H, f, v, shown) ==
  /\ \A h \in H : (\A g \in H : snap[g].at <= snap[h].at) => snap[h].text[f] = v
  /\ H = {} => shown = v

ResultsFollow ==
  \A f \in Files : Settled(f) =>
    /\ NewestHas(Caching(f), f, doc[f], caches[f].ver)
    /\ NewestHas(Reporting(f), f, doc[f], diagnostics[f])

IInv == TypeOK /\ Requests /\ Tasks /\ InOrder /\ TextsFollow /\ ResultsFollow

-----------------------------------------------------------------------------
(* Lists of messages.                                                      *)

\* A message that is sent for the text that the list leads to.
LEMMA LeadsAppend ==
  ASSUME NEW f, NEW old, NEW new, NEW v, NEW L, NEW M, NEW n \in Nat, Leads(L, n, f, old, new),
         \A i \in 1 .. n : M[i] = L[i],
         \/ ~Text(M[n + 1], f) /\ v = new
         \/ Text(M[n + 1], f) /\ Follows(new, M[n + 1]) /\ v = Result(M[n + 1])
  PROVE  Leads(M, n + 1, f, old, v)
<1>1. \A j \in 1 .. n + 1 : Text(M[j], f) /\ (\A i \in 1 .. j - 1 : ~Text(M[i], f))
        => Follows(old, M[j])
  <2> SUFFICES ASSUME NEW j \in 1 .. n + 1, Text(M[j], f), \A i \in 1 .. j - 1 : ~Text(M[i], f)
               PROVE  Follows(old, M[j])
    OBVIOUS
  <2>1. CASE j = n + 1
    <3>1. \A i \in 1 .. n : ~Text(L[i], f)
      BY <2>1
    <3>2. old = new
      BY <3>1 DEF Leads
    <3> QED BY <2>1, <3>2
  <2>2. CASE j # n + 1
    <3>1. j \in 1 .. n /\ \A i \in 1 .. j - 1 : i \in 1 .. n
      BY <2>2
    <3>2. Text(L[j], f) /\ \A i \in 1 .. j - 1 : ~Text(L[i], f)
      BY <3>1
    <3>3. Follows(old, L[j])
      BY <3>1, <3>2 DEF Leads
    <3> QED BY <3>1, <3>3
  <2> QED BY <2>1, <2>2
<1>2. \A i, j \in 1 .. n + 1 :
        i < j /\ Text(M[i], f) /\ Text(M[j], f) /\ (\A k \in i + 1 .. j - 1 : ~Text(M[k], f))
          => Follows(Result(M[i]), M[j])
  <2> SUFFICES ASSUME NEW i \in 1 .. n + 1, NEW j \in 1 .. n + 1, i < j, Text(M[i], f), Text(M[j], f),
                      \A k \in i + 1 .. j - 1 : ~Text(M[k], f)
               PROVE  Follows(Result(M[i]), M[j])
    OBVIOUS
  <2>0. i \in 1 .. n /\ M[i] = L[i] /\ \A k \in i + 1 .. j - 1 : k \in 1 .. n /\ ~Text(L[k], f)
    OBVIOUS
  <2>1. CASE j = n + 1
    <3>1. \A k \in i + 1 .. n : ~Text(L[k], f)
      BY <2>0, <2>1
    <3>2. Result(L[i]) = new
      BY <2>0, <3>1 DEF Leads
    <3> QED BY <2>0, <2>1, <3>2
  <2>2. CASE j # n + 1
    <3>1. j \in 1 .. n /\ M[j] = L[j]
      BY <2>2
    <3>2. Follows(Result(L[i]), L[j])
      BY <2>0, <3>1 DEF Leads
    <3> QED BY <2>0, <3>1, <3>2
  <2> QED BY <2>1, <2>2
<1>3. \A i \in 1 .. n + 1 : Text(M[i], f) /\ (\A k \in i + 1 .. n + 1 : ~Text(M[k], f))
        => Result(M[i]) = v
  <2> SUFFICES ASSUME NEW i \in 1 .. n + 1, Text(M[i], f), \A k \in i + 1 .. n + 1 : ~Text(M[k], f)
               PROVE  Result(M[i]) = v
    OBVIOUS
  <2>1. CASE i = n + 1
    BY <2>1
  <2>2. CASE i # n + 1
    <3>1. i \in 1 .. n /\ M[i] = L[i] /\ n + 1 \in i + 1 .. n + 1
      BY <2>2
    <3>2. \A k \in i + 1 .. n : ~Text(L[k], f)
      BY <3>1
    <3>3. Result(L[i]) = new
      BY <3>1, <3>2 DEF Leads
    <3> QED BY <3>1, <3>3
  <2> QED BY <2>1, <2>2
<1>4. (\A i \in 1 .. n + 1 : ~Text(M[i], f)) => old = v
  <2> SUFFICES ASSUME \A i \in 1 .. n + 1 : ~Text(M[i], f)
               PROVE  old = v
    OBVIOUS
  <2>1. \A i \in 1 .. n : ~Text(L[i], f)
    OBVIOUS
  <2>2. old = new
    BY <2>1 DEF Leads
  <2> QED BY <2>2
<1> QED BY <1>1, <1>2, <1>3, <1>4 DEF Leads

\* The first message is handled.
LEMMA LeadsConsume ==
  ASSUME NEW f, NEW old, NEW new, NEW L, NEW M, NEW n \in Nat \ {0}, Leads(L, n, f, old, new),
         Text(L[1], f), ~Text(M[1], f), \A i \in 2 .. n : M[i] = L[i]
  PROVE  Leads(M, n, f, Result(L[1]), new)
<1>1. \A j \in 1 .. n : Text(M[j], f) => j \in 2 .. n /\ M[j] = L[j]
  OBVIOUS
<1>2. \A j \in 1 .. n : Text(M[j], f) /\ (\A i \in 1 .. j - 1 : ~Text(M[i], f))
        => Follows(Result(L[1]), M[j])
  <2> SUFFICES ASSUME NEW j \in 1 .. n, Text(M[j], f), \A i \in 1 .. j - 1 : ~Text(M[i], f)
               PROVE  Follows(Result(L[1]), M[j])
    OBVIOUS
  <2>1. j \in 2 .. n /\ M[j] = L[j]
    BY <1>1
  <2>2. \A k \in 1 + 1 .. j - 1 : ~Text(L[k], f)
    OBVIOUS
  <2>3. 1 < j /\ Text(L[j], f) /\ 1 \in 1 .. n
    BY <2>1
  <2>4. Follows(Result(L[1]), L[j])
    BY <2>2, <2>3 DEF Leads
  <2> QED BY <2>1, <2>4
<1>3. \A i, j \in 1 .. n :
        i < j /\ Text(M[i], f) /\ Text(M[j], f) /\ (\A k \in i + 1 .. j - 1 : ~Text(M[k], f))
          => Follows(Result(M[i]), M[j])
  <2> SUFFICES ASSUME NEW i \in 1 .. n, NEW j \in 1 .. n, i < j, Text(M[i], f), Text(M[j], f),
                      \A k \in i + 1 .. j - 1 : ~Text(M[k], f)
               PROVE  Follows(Result(M[i]), M[j])
    OBVIOUS
  <2>1. M[i] = L[i] /\ M[j] = L[j] /\ \A k \in i + 1 .. j - 1 : M[k] = L[k]
    OBVIOUS
  <2>2. Follows(Result(L[i]), L[j])
    BY <2>1 DEF Leads
  <2> QED BY <2>1, <2>2
<1>4. \A i \in 1 .. n : Text(M[i], f) /\ (\A k \in i + 1 .. n : ~Text(M[k], f))
        => Result(M[i]) = new
  <2> SUFFICES ASSUME NEW i \in 1 .. n, Text(M[i], f), \A k \in i + 1 .. n : ~Text(M[k], f)
               PROVE  Result(M[i]) = new
    OBVIOUS
  <2>1. M[i] = L[i] /\ \A k \in i + 1 .. n : M[k] = L[k]
    OBVIOUS
  <2>2. Result(L[i]) = new
    BY <2>1 DEF Leads
  <2> QED BY <2>1, <2>2
<1>5. (\A i \in 1 .. n : ~Text(M[i], f)) => Result(L[1]) = new
  <2> SUFFICES ASSUME \A i \in 1 .. n : ~Text(M[i], f)
               PROVE  Result(L[1]) = new
    OBVIOUS
  <2>1. 1 \in 1 .. n /\ \A k \in 1 + 1 .. n : ~Text(L[k], f)
    OBVIOUS
  <2> QED BY <2>1 DEF Leads
<1> QED BY <1>2, <1>3, <1>4, <1>5 DEF Leads

\* L, of length n, and M, of length m, have the same messages about f, in the
\* same order; position j of M is position g[j] of L.
Embeds(L, n, M, m, f, g) ==
  /\ \A j \in 1 .. m : Text(M[j], f) => g[j] \in 1 .. n /\ L[g[j]] = M[j]
  /\ \A i, j \in 1 .. m : i < j /\ Text(M[i], f) /\ Text(M[j], f) => g[i] < g[j]
  /\ \A k \in 1 .. n : Text(L[k], f) => \E j \in 1 .. m : g[j] = k /\ Text(M[j], f)

LEMMA LeadsEmbed ==
  ASSUME NEW f, NEW old, NEW new, NEW L, NEW M, NEW n \in Nat, NEW m \in Nat, NEW g,
         Embeds(L, n, M, m, f, g), Leads(L, n, f, old, new)
  PROVE  Leads(M, m, f, old, new)
<1>0. /\ \A j \in 1 .. m : Text(M[j], f) => g[j] \in 1 .. n /\ L[g[j]] = M[j]
      /\ \A i, j \in 1 .. m : i < j /\ Text(M[i], f) /\ Text(M[j], f) => g[i] < g[j]
      /\ \A k \in 1 .. n : Text(L[k], f) => \E j \in 1 .. m : g[j] = k /\ Text(M[j], f)
  BY DEF Embeds
<1>1. \A j \in 1 .. m : Text(M[j], f) /\ (\A i \in 1 .. j - 1 : ~Text(M[i], f))
        => Follows(old, M[j])
  <2> SUFFICES ASSUME NEW j \in 1 .. m, Text(M[j], f), \A i \in 1 .. j - 1 : ~Text(M[i], f)
               PROVE  Follows(old, M[j])
    OBVIOUS
  <2>1. g[j] \in 1 .. n /\ L[g[j]] = M[j]
    BY <1>0
  <2>2. ASSUME NEW k \in 1 .. g[j] - 1, Text(L[k], f) PROVE FALSE
    <3>1. k \in 1 .. n
      BY <2>1
    <3>2. PICK i \in 1 .. m : g[i] = k /\ Text(M[i], f)
      BY <2>2, <3>1, <1>0
    <3>3. ~(i < j) /\ i # j
      BY <2>1, <2>2, <3>2, <1>0
    <3>4. j < i
      BY <3>3
    <3>5. g[j] < g[i]
      BY <3>2, <3>4, <1>0
    <3> QED BY <2>1, <3>2, <3>5
  <2>3. Follows(old, L[g[j]])
    BY <2>1, <2>2 DEF Leads
  <2> QED BY <2>1, <2>3
<1>2. \A i, j \in 1 .. m :
        i < j /\ Text(M[i], f) /\ Text(M[j], f) /\ (\A k \in i + 1 .. j - 1 : ~Text(M[k], f))
          => Follows(Result(M[i]), M[j])
  <2> SUFFICES ASSUME NEW i \in 1 .. m, NEW j \in 1 .. m, i < j, Text(M[i], f), Text(M[j], f),
                      \A k \in i + 1 .. j - 1 : ~Text(M[k], f)
               PROVE  Follows(Result(M[i]), M[j])
    OBVIOUS
  <2>1. g[i] \in 1 .. n /\ L[g[i]] = M[i] /\ g[j] \in 1 .. n /\ L[g[j]] = M[j] /\ g[i] < g[j]
    BY <1>0
  <2>2. ASSUME NEW k \in g[i] + 1 .. g[j] - 1, Text(L[k], f) PROVE FALSE
    <3>1. k \in 1 .. n
      BY <2>1
    <3>2. PICK p \in 1 .. m : g[p] = k /\ Text(M[p], f)
      BY <2>2, <3>1, <1>0
    <3>3. g[i] < g[p] /\ g[p] < g[j]
      BY <2>1, <3>2, <1>0
    <3>4. ~(p < i) /\ p # i /\ ~(j < p) /\ p # j
      BY <2>1, <3>1, <3>2, <3>3, <1>0
    <3>5. p \in i + 1 .. j - 1
      BY <3>4
    <3> QED BY <3>2, <3>5
  <2>3. Follows(Result(L[g[i]]), L[g[j]])
    BY <2>1, <2>2 DEF Leads
  <2> QED BY <2>1, <2>3
<1>3. \A i \in 1 .. m : Text(M[i], f) /\ (\A k \in i + 1 .. m : ~Text(M[k], f))
        => Result(M[i]) = new
  <2> SUFFICES ASSUME NEW i \in 1 .. m, Text(M[i], f), \A k \in i + 1 .. m : ~Text(M[k], f)
               PROVE  Result(M[i]) = new
    OBVIOUS
  <2>1. g[i] \in 1 .. n /\ L[g[i]] = M[i]
    BY <1>0
  <2>2. ASSUME NEW k \in g[i] + 1 .. n, Text(L[k], f) PROVE FALSE
    <3>1. k \in 1 .. n
      BY <2>1
    <3>2. PICK p \in 1 .. m : g[p] = k /\ Text(M[p], f)
      BY <2>2, <3>1, <1>0
    <3>3. ~(p < i) /\ p # i
      BY <2>1, <2>2, <3>1, <3>2, <1>0
    <3>4. p \in i + 1 .. m
      BY <3>3
    <3> QED BY <3>2, <3>4
  <2>3. Result(L[g[i]]) = new
    BY <2>1, <2>2 DEF Leads
  <2> QED BY <2>1, <2>3
<1>4. (\A i \in 1 .. m : ~Text(M[i], f)) => old = new
  <2> SUFFICES ASSUME \A i \in 1 .. m : ~Text(M[i], f)
               PROVE  old = new
    OBVIOUS
  <2>1. \A k \in 1 .. n : ~Text(L[k], f)
    BY <1>0
  <2> QED BY <2>1 DEF Leads
<1> QED BY <1>1, <1>2, <1>3, <1>4 DEF Leads

-----------------------------------------------------------------------------
(* What a step does to the line of messages.  L is the line with its head  *)
(* no longer counted, because it is handled or sets no text.               *)

\* The holder of `files` returns.
LEMMA PopLine ==
  ASSUME TypeOK, files # <<>>, files' = Tail(files), inbox' = inbox,
         \A i \in 2 .. Len(files) : msg'[files[i][1]] = msg[files[i][1]],
         NEW f, NEW old, NEW new, NEW L, Leads(L, Size, f, old, new),
         ~Text(L[1], f), \A i \in 2 .. Size : L[i] = Line[i]
  PROVE  /\ Leads(Line', Size', f, old, new)
         /\ (\E i \in 1 .. Size : Text(L[i], f)) => Pending(f)'
<1> DEFINE g == [j \in 1 .. Size' |-> j + 1]
<1>1. /\ Len(files) \in Nat \ {0} /\ Len(inbox) \in Nat /\ Len(files') = Len(files) - 1
      /\ \A j \in 1 .. Len(files) - 1 : files'[j] = files[j + 1]
  BY DEF TypeOK
<1>2. Size \in Nat /\ Size' \in Nat /\ Size' = Size - 1 /\ Size = Len(files) + Len(inbox)
  BY <1>1 DEF Size
<1>3. ASSUME NEW j \in 1 .. Size' PROVE Line'[j] = L[j + 1]
  <2>1. j + 1 \in 2 .. Size /\ j + 1 \in 1 .. Size
    BY <1>2
  <2>2. CASE j <= Len(files) - 1
    <3>1. j \in 1 .. Len(files) - 1 /\ j + 1 \in 2 .. Len(files) /\ j <= Len(files') /\ j + 1 <= Len(files)
      BY <2>2, <1>1, <1>2
    <3>2. Line'[j] = IF files'[j][2] \in {"update", "close"} THEN msg'[files'[j][1]] ELSE NoMsg
      BY <3>1 DEF Line
    <3>3. Line[j + 1] = IF files[j + 1][2] \in {"update", "close"} THEN msg[files[j + 1][1]] ELSE NoMsg
      BY <2>1, <3>1 DEF Line
    <3>4. files'[j] = files[j + 1] /\ msg'[files[j + 1][1]] = msg[files[j + 1][1]]
      BY <1>1, <3>1
    <3> QED BY <3>2, <3>3, <3>4, <2>1
  <2>3. CASE ~(j <= Len(files) - 1)
    <3>1. ~(j <= Len(files')) /\ ~(j + 1 <= Len(files)) /\ j + 1 - Len(files) = j - Len(files')
      BY <2>3, <1>1, <1>2
    <3>2. Line'[j] = inbox[j - Len(files')]
      BY <3>1 DEF Line
    <3>3. Line[j + 1] = inbox[j + 1 - Len(files)]
      BY <2>1, <3>1 DEF Line
    <3> QED BY <3>1, <3>2, <3>3, <2>1
  <2> QED BY <2>2, <2>3
<1>4. \A j \in 1 .. Size' : g[j] = j + 1 /\ g[j] \in 1 .. Size /\ L[g[j]] = Line'[j]
  BY <1>2, <1>3
<1>5. \A i, j \in 1 .. Size' : i < j => g[i] < g[j]
  BY <1>2, <1>4
<1>6. ASSUME NEW k \in 1 .. Size, Text(L[k], f)
      PROVE  \E j \in 1 .. Size' : g[j] = k /\ Text(Line'[j], f)
  <2>1. k # 1
    BY <1>6
  <2>2. k - 1 \in 1 .. Size' /\ k - 1 + 1 = k
    BY <2>1, <1>2
  <2>3. g[k - 1] = k /\ Line'[k - 1] = L[k]
    BY <2>2, <1>3, <1>4
  <2> QED BY <2>2, <2>3, <1>6
<1> HIDE DEF g
<1>7. Leads(Line', Size', f, old, new)
  <2>1. Embeds(L, Size, Line', Size', f, g)
    BY <1>2, <1>4, <1>5, <1>6 DEF Embeds
  <2> QED BY <2>1, <1>2, LeadsEmbed
<1>8. (\E i \in 1 .. Size : Text(L[i], f)) => \E j \in 1 .. Size' : Text(Line'[j], f)
  BY <1>6
<1> QED BY <1>7, <1>8 DEF Pending

\* The holder of `files` unlocks it and asks for it again.
LEMMA RequeueLine ==
  ASSUME TypeOK, files # <<>>, NEW h, NEW stage, stage \notin {"update", "close"},
         files' = Append(Tail(files), <<h, stage>>), inbox' = inbox,
         \A i \in 2 .. Len(files) : msg'[files[i][1]] = msg[files[i][1]],
         NEW f, NEW old, NEW new, NEW L, Leads(L, Size, f, old, new),
         ~Text(L[1], f), \A i \in 2 .. Size : L[i] = Line[i]
  PROVE  /\ Leads(Line', Size', f, old, new)
         /\ (\E i \in 1 .. Size : Text(L[i], f)) => Pending(f)'
<1> DEFINE g == [j \in 1 .. Size |-> IF j < Len(files) THEN j + 1 ELSE j]
<1>1. /\ Len(files) \in Nat \ {0} /\ Len(inbox) \in Nat /\ Len(files') = Len(files)
      /\ \A j \in 1 .. Len(files) - 1 : files'[j] = files[j + 1]
      /\ files'[Len(files)] = <<h, stage>>
  BY DEF TypeOK
<1>2. Size \in Nat /\ Size' = Size /\ Size = Len(files) + Len(inbox)
  BY <1>1 DEF Size
<1>3. ASSUME NEW j \in 1 .. Size, j < Len(files) PROVE Line'[j] = L[j + 1] /\ j + 1 \in 2 .. Len(files)
  <2>1. j + 1 \in 2 .. Size /\ j + 1 \in 1 .. Size
    BY <1>1, <1>2, <1>3
  <2>2. j \in 1 .. Len(files) - 1 /\ j + 1 \in 2 .. Len(files) /\ j <= Len(files') /\ j + 1 <= Len(files)
    BY <1>1, <1>2, <1>3
  <2>3. Line'[j] = IF files'[j][2] \in {"update", "close"} THEN msg'[files'[j][1]] ELSE NoMsg
    BY <2>2, <1>2 DEF Line
  <2>4. Line[j + 1] = IF files[j + 1][2] \in {"update", "close"} THEN msg[files[j + 1][1]] ELSE NoMsg
    BY <2>1, <2>2 DEF Line
  <2>5. files'[j] = files[j + 1] /\ msg'[files[j + 1][1]] = msg[files[j + 1][1]]
    BY <1>1, <2>2
  <2> QED BY <2>1, <2>2, <2>3, <2>4, <2>5
<1>4. Line'[Len(files)] = NoMsg
  <2>1. Len(files) \in 1 .. Size' /\ Len(files) <= Len(files')
    BY <1>1, <1>2
  <2>2. Line'[Len(files)] = IF files'[Len(files)][2] \in {"update", "close"}
                            THEN msg'[files'[Len(files)][1]] ELSE NoMsg
    BY <2>1 DEF Line
  <2> QED BY <2>2, <1>1
<1>5. ASSUME NEW j \in 1 .. Size, j > Len(files) PROVE Line'[j] = L[j]
  <2>1. j \in 2 .. Size /\ ~(j <= Len(files)) /\ ~(j <= Len(files')) /\ j \in 1 .. Size'
    BY <1>1, <1>2, <1>5
  <2> QED BY <2>1, <1>1 DEF Line
<1>6. ~Text(NoMsg, f)
  BY DEF Text, NoMsg
<1>7. \A j \in 1 .. Size : Text(Line'[j], f) => g[j] \in 1 .. Size /\ L[g[j]] = Line'[j] /\ j # Len(files)
  <2> SUFFICES ASSUME NEW j \in 1 .. Size, Text(Line'[j], f)
               PROVE  g[j] \in 1 .. Size /\ L[g[j]] = Line'[j] /\ j # Len(files)
    OBVIOUS
  <2>1. j # Len(files)
    BY <1>4, <1>6
  <2>0. Len(files) \in Nat /\ j \in Nat
    BY <1>1, <1>2
  <2>2. CASE j < Len(files)
    <3>1. g[j] = j + 1
      BY <2>2
    <3>2. j + 1 \in 2 .. Len(files) /\ Line'[j] = L[j + 1]
      BY <2>2, <1>3
    <3>3. j + 1 \in 1 .. Size
      BY <3>2, <2>0, <1>1, <1>2
    <3> QED BY <3>1, <3>2, <3>3, <2>1
  <2>3. CASE j > Len(files)
    <3>1. g[j] = j /\ Line'[j] = L[j]
      <4>1. ~(j < Len(files))
        BY <2>3, <1>1, <1>2
      <4> QED BY <4>1, <2>3, <1>5
    <3> QED BY <2>1, <3>1
  <2>4. j < Len(files) \/ j = Len(files) \/ j > Len(files)
    BY <2>0
  <2> QED BY <2>1, <2>2, <2>3, <2>4
<1>8. \A i, j \in 1 .. Size : i < j /\ Text(Line'[i], f) /\ Text(Line'[j], f) => g[i] < g[j]
  <2> SUFFICES ASSUME NEW i \in 1 .. Size, NEW j \in 1 .. Size, i < j, Text(Line'[i], f), Text(Line'[j], f)
               PROVE  g[i] < g[j]
    OBVIOUS
  <2>1. i # Len(files) /\ j # Len(files)
    BY <1>7
  <2>2. i \in Int /\ j \in Int /\ Len(files) \in Int
    BY <1>1, <1>2
  <2>3. /\ g[i] = IF i < Len(files) THEN i + 1 ELSE i
        /\ g[j] = IF j < Len(files) THEN j + 1 ELSE j
    OBVIOUS
  <2> HIDE DEF g
  <2> QED BY <2>1, <2>2, <2>3
<1>9. ASSUME NEW k \in 1 .. Size, Text(L[k], f)
      PROVE  \E j \in 1 .. Size : g[j] = k /\ Text(Line'[j], f)
  <2>1. k # 1
    BY <1>9
  <2>2. CASE k <= Len(files)
    <3>1. k - 1 \in 1 .. Size /\ k - 1 < Len(files) /\ k - 1 + 1 = k
      BY <2>1, <2>2, <1>1, <1>2
    <3>2. g[k - 1] = k /\ Line'[k - 1] = L[k]
      BY <3>1, <1>3
    <3> QED BY <3>1, <3>2, <1>9
  <2>3. CASE ~(k <= Len(files))
    <3>1. g[k] = k /\ Line'[k] = L[k]
      BY <2>3, <1>1, <1>2, <1>5
    <3> QED BY <3>1, <1>9
  <2> QED BY <2>2, <2>3
<1> HIDE DEF g
<1>10. Leads(Line', Size, f, old, new)
  <2>1. Embeds(L, Size, Line', Size, f, g)
    BY <1>2, <1>7, <1>8, <1>9 DEF Embeds
  <2> QED BY <2>1, <1>2, LeadsEmbed
<1>11. (\E i \in 1 .. Size : Text(L[i], f)) => \E j \in 1 .. Size' : Text(Line'[j], f)
  BY <1>2, <1>9
<1> QED BY <1>2, <1>10, <1>11 DEF Pending

\* The line keeps its messages in their places; some that set no text are gone.
LEMMA SameLine ==
  ASSUME TypeOK, NEW f, NEW old, NEW new, Leads(Line, Size, f, old, new), Size' = Size,
         \A i \in 1 .. Size : Text(Line[i], f) \/ Text(Line'[i], f) => Line'[i] = Line[i]
  PROVE  Leads(Line', Size', f, old, new) /\ (Pending(f) => Pending(f)')
<1> DEFINE g == [j \in 1 .. Size |-> j]
<1>1. Size \in Nat
  BY DEF Size, TypeOK
<1>2. \A j \in 1 .. Size : Text(Line'[j], f) => g[j] \in 1 .. Size /\ Line[g[j]] = Line'[j]
  OBVIOUS
<1>3. \A i, j \in 1 .. Size : i < j /\ Text(Line'[i], f) /\ Text(Line'[j], f) => g[i] < g[j]
  BY <1>1
<1>4. \A k \in 1 .. Size : Text(Line[k], f) => \E j \in 1 .. Size : g[j] = k /\ Text(Line'[j], f)
  OBVIOUS
<1> HIDE DEF g
<1>5. Leads(Line', Size, f, old, new)
  <2>1. Embeds(Line, Size, Line', Size, f, g)
    BY <1>1, <1>2, <1>3, <1>4 DEF Embeds
  <2> QED BY <2>1, <1>1, LeadsEmbed
<1>6. Pending(f) => Pending(f)'
  <2>1. (\E i \in 1 .. Size : Text(Line[i], f)) => \E i \in 1 .. Size' : Text(Line'[i], f)
    OBVIOUS
  <2> QED BY <2>1 DEF Pending
<1> QED BY <1>5, <1>6

\* A sequence without its k-th element.
LEMMA RemoveAtFacts ==
  ASSUME NEW S, NEW q \in Seq(S), NEW k \in 1 .. Len(q)
  PROVE  /\ Len(q) \in Nat \ {0}
         /\ RemoveAt(q, k) \in Seq(S) /\ Len(RemoveAt(q, k)) = Len(q) - 1
         /\ \A j \in 1 .. Len(q) - 1 : RemoveAt(q, k)[j] = IF j < k THEN q[j] ELSE q[j + 1]
<1> DEFINE s == SubSeq(q, 1, k - 1)
           r == SubSeq(q, k + 1, Len(q))
           R == RemoveAt(q, k)
<1>1. Len(q) \in Nat \ {0}
  OBVIOUS
<1>2. s \in Seq(S) /\ Len(s) = k - 1 /\ \A j \in 1 .. k - 1 : s[j] = q[j]
  BY <1>1
<1>3. r \in Seq(S) /\ Len(r) = Len(q) - k /\ \A j \in 1 .. Len(q) - k : r[j] = q[j + k]
  BY <1>1
<1>4. R = s \o r
  BY DEF RemoveAt
<1> HIDE DEF s, r, R
<1>5. /\ R \in Seq(S) /\ Len(R) = Len(q) - 1
      /\ \A j \in 1 .. Len(q) - 1 : R[j] = IF j <= Len(s) THEN s[j] ELSE r[j - Len(s)]
  <2>1. R \in Seq(S) /\ Len(R) = Len(s) + Len(r)
    <3>1. s \in Seq(S) /\ r \in Seq(S)
      BY <1>2, <1>3
    <3>2. s \o r \in Seq(S) /\ Len(s \o r) = Len(s) + Len(r)
      BY <3>1
    <3> QED BY <3>2, <1>4
  <2>2. Len(R) = Len(q) - 1
    BY <2>1, <1>1, <1>2, <1>3
  <2>3. \A j \in 1 .. Len(R) : R[j] = IF j <= Len(s) THEN s[j] ELSE r[j - Len(s)]
    <3>1. s \in Seq(S) /\ r \in Seq(S)
      BY <1>2, <1>3
    <3>2. \A j \in 1 .. Len(s) + Len(r) : (s \o r)[j] = IF j <= Len(s) THEN s[j] ELSE r[j - Len(s)]
      BY <3>1
    <3> QED BY <3>2, <2>1, <1>4
  <2> QED BY <2>1, <2>2, <2>3
<1>6. ASSUME NEW j \in 1 .. Len(q) - 1
      PROVE  R[j] = IF j < k THEN q[j] ELSE q[j + 1]
  <2>1. CASE j < k
    BY <2>1, <1>1, <1>2, <1>5
  <2>2. CASE ~(j < k)
    <3>1. j - (k - 1) \in 1 .. Len(q) - k /\ j - (k - 1) + k = j + 1 /\ ~(j <= k - 1)
      BY <2>2, <1>1
    <3>2. r[j - (k - 1)] = q[j + 1]
      BY <3>1, <1>3
    <3> QED BY <3>1, <3>2, <2>2, <1>2, <1>5
  <2> QED BY <2>1, <2>2
<1> QED BY <1>1, <1>5, <1>6 DEF R

\* A request of a handler that sets no text is dropped.
LEMMA DropLine ==
  ASSUME TypeOK, NEW k \in 1 .. Len(files), files[k][2] \notin {"update", "close"},
         files' = RemoveAt(files, k), inbox' = inbox,
         \A i \in 1 .. Len(files) : i # k => msg'[files[i][1]] = msg[files[i][1]],
         NEW f, NEW old, NEW new, Leads(Line, Size, f, old, new)
  PROVE  Leads(Line', Size', f, old, new) /\ (Pending(f) => Pending(f)')
<1> DEFINE g == [j \in 1 .. Size' |-> IF j < k THEN j ELSE j + 1]
<1>1. /\ Len(files) \in Nat \ {0} /\ Len(inbox) \in Nat /\ Len(files') = Len(files) - 1
      /\ \A j \in 1 .. Len(files) - 1 : files'[j] = IF j < k THEN files[j] ELSE files[j + 1]
  <2>1. files \in Seq(Handlers \X FilesStages) /\ Len(inbox) \in Nat
    BY DEF TypeOK
  <2> QED BY <2>1, RemoveAtFacts
<1>2. Size \in Nat /\ Size' \in Nat /\ Size' = Size - 1 /\ Size = Len(files) + Len(inbox)
  BY <1>1 DEF Size
<1>3. ASSUME NEW j \in 1 .. Size' PROVE g[j] \in 1 .. Size /\ Line[g[j]] = Line'[j]
  <2>1. g[j] \in 1 .. Size
    BY <1>1, <1>2
  <2>2. CASE j <= Len(files) - 1
    <3>1. j \in 1 .. Len(files) - 1 /\ g[j] \in 1 .. Len(files) /\ j <= Len(files') /\ g[j] <= Len(files) /\ g[j] # k
      BY <2>2, <1>1, <1>2
    <3>2. Line'[j] = IF files'[j][2] \in {"update", "close"} THEN msg'[files'[j][1]] ELSE NoMsg
      BY <3>1 DEF Line
    <3>3. Line[g[j]] = IF files[g[j]][2] \in {"update", "close"} THEN msg[files[g[j]][1]] ELSE NoMsg
      <4> HIDE DEF g
      <4> QED BY <2>1, <3>1 DEF Line
    <3>4. files'[j] = files[g[j]] /\ msg'[files[g[j]][1]] = msg[files[g[j]][1]]
      BY <1>1, <3>1
    <3> QED BY <3>2, <3>3, <3>4, <2>1
  <2>3. CASE ~(j <= Len(files) - 1)
    <3>1. ~(j <= Len(files')) /\ g[j] = j + 1 /\ ~(j + 1 <= Len(files)) /\ j + 1 - Len(files) = j - Len(files')
      BY <2>3, <1>1, <1>2
    <3>2. Line'[j] = inbox[j - Len(files')]
      BY <3>1 DEF Line
    <3>3. Line[j + 1] = inbox[j + 1 - Len(files)]
      BY <2>1, <3>1 DEF Line
    <3> QED BY <3>1, <3>2, <3>3, <2>1
  <2> QED BY <2>2, <2>3
<1>4. \A i, j \in 1 .. Size' : i < j => g[i] < g[j]
  BY <1>1, <1>2
<1>5. ~Text(Line[k], f)
  <2>1. k \in 1 .. Size /\ k <= Len(files)
    BY <1>1, <1>2
  <2>2. Line[k] = NoMsg
    BY <2>1 DEF Line
  <2> QED BY <2>2 DEF Text, NoMsg
<1>6. ASSUME NEW i \in 1 .. Size, Text(Line[i], f)
      PROVE  \E j \in 1 .. Size' : g[j] = i /\ Text(Line'[j], f)
  <2>1. i # k
    BY <1>5, <1>6
  <2>2. \E j \in 1 .. Size' : g[j] = i
    <3>1. CASE i < k
      <4>1. i \in 1 .. Size' /\ g[i] = i
        BY <3>1, <1>1, <1>2
      <4> QED BY <4>1
    <3>2. CASE i > k
      <4>1. i - 1 \in 1 .. Size' /\ g[i - 1] = i
        BY <3>2, <1>1, <1>2
      <4> QED BY <4>1
    <3> QED BY <3>1, <3>2, <2>1, <1>1, <1>2
  <2> QED BY <2>2, <1>3, <1>6
<1> HIDE DEF g
<1>7. Leads(Line', Size', f, old, new)
  <2>1. Embeds(Line, Size, Line', Size', f, g)
    BY <1>2, <1>3, <1>4, <1>6 DEF Embeds
  <2> QED BY <2>1, <1>2, LeadsEmbed
<1>8. (\E i \in 1 .. Size : Text(Line[i], f)) => \E j \in 1 .. Size' : Text(Line'[j], f)
  BY <1>6
<1> QED BY <1>7, <1>8 DEF Pending

-----------------------------------------------------------------------------
(* What a step does to the requests for `files`.                           *)

\* The handlers that keep `files` while they do something else hold it.
LEMMA KeeperHolds ==
  ASSUME TypeOK, Requests, NEW h \in Handlers, pc[h] \in KeepStages
  PROVE  files # <<>> /\ files[1][1] = h /\ pc[h] \in Keeps(files[1][2])
<1>1. PICK i \in 1 .. Len(files) : files[i][1] = h
  BY DEF Requests
<1>2. files[i][2] \in FilesStages /\ files[i] \in Handlers \X FilesStages
  BY DEF TypeOK
<1>3. pc[h] # files[i][2]
  BY <1>2 DEF KeepStages, FilesStages
<1>4. i = 1 /\ pc[h] \in Keeps(files[i][2])
  BY <1>1, <1>3 DEF Requests
<1> QED BY <1>1, <1>4 DEF TypeOK

\* The holder of `files` is not among the waiters.
LEMMA HolderFacts ==
  ASSUME TypeOK, Requests, files # <<>>
  PROVE  /\ Len(files) \in Nat \ {0} /\ 1 \in 1 .. Len(files)
         /\ files[1][1] \in Handlers /\ files[1][2] \in FilesStages
         /\ \A i \in 2 .. Len(files) : files[i][1] \in Handlers /\ files[i][1] # files[1][1]
         /\ \A i \in 2 .. Len(files) : pc[files[i][1]] = files[i][2]
<1>1. Len(files) \in Nat \ {0} /\ 1 \in 1 .. Len(files)
  BY DEF TypeOK
<1>2. \A i \in 1 .. Len(files) : files[i] \in Handlers \X FilesStages
  BY DEF TypeOK
<1>3. ASSUME NEW i \in 2 .. Len(files)
      PROVE  /\ files[i][1] \in Handlers /\ files[i][1] # files[1][1]
             /\ pc[files[i][1]] = files[i][2]
  <2>1. i \in 1 .. Len(files) /\ i # 1
    BY <1>1
  <2> QED BY <2>1, <1>1, <1>2 DEF Requests
<1> QED BY <1>1, <1>2, <1>3

LEMMA PopRequests ==
  ASSUME TypeOK, Requests, files # <<>>, files' = Tail(files),
         NEW stage, stage \notin FilesStages \cup KeepStages,
         pc' = [pc EXCEPT ![files[1][1]] = stage]
  PROVE  Requests' /\ files' \in Seq(Handlers \X FilesStages)
<1> DEFINE h == files[1][1]
<1>1. /\ Len(files') = Len(files) - 1 /\ files' \in Seq(Handlers \X FilesStages)
      /\ \A j \in 1 .. Len(files) - 1 : files'[j] = files[j + 1]
  BY DEF TypeOK
<1>2. /\ Len(files) \in Nat \ {0} /\ h \in Handlers
      /\ \A i \in 2 .. Len(files) : files[i][1] \in Handlers /\ files[i][1] # h
      /\ \A i \in 2 .. Len(files) : pc[files[i][1]] = files[i][2]
  BY HolderFacts
<1>3. pc'[h] = stage /\ \A g \in Handlers : g # h => pc'[g] = pc[g]
  BY <1>2 DEF TypeOK
<1> HIDE DEF h
<1>4. ASSUME NEW i \in 1 .. Len(files'), NEW j \in 1 .. Len(files'), files'[i][1] = files'[j][1]
      PROVE  i = j
  <2>1. i + 1 \in 1 .. Len(files) /\ j + 1 \in 1 .. Len(files) /\ files[i + 1][1] = files[j + 1][1]
    BY <1>1, <1>2, <1>4
  <2>2. i + 1 = j + 1
    BY <2>1 DEF Requests
  <2> QED BY <2>2, <1>1, <1>2
<1>5. ASSUME NEW i \in 1 .. Len(files')
      PROVE  pc'[files'[i][1]] = files'[i][2]
  <2>1. i + 1 \in 2 .. Len(files) /\ files'[i] = files[i + 1]
    BY <1>1, <1>2
  <2> QED BY <2>1, <1>2, <1>3
<1>6. ASSUME NEW g \in Handlers, pc'[g] \in FilesStages \cup KeepStages
      PROVE  \E i \in 1 .. Len(files') : files'[i][1] = g
  <2>1. g # h /\ pc'[g] = pc[g]
    BY <1>3, <1>6
  <2>2. PICK i \in 1 .. Len(files) : files[i][1] = g
    BY <2>1, <1>6 DEF Requests
  <2>3. i # 1
    BY <2>1, <2>2 DEF h
  <2>4. i - 1 \in 1 .. Len(files') /\ files'[i - 1] = files[i]
    BY <2>3, <1>1, <1>2
  <2> QED BY <2>2, <2>4
<1> QED BY <1>1, <1>4, <1>5, <1>6 DEF Requests

LEMMA RequeueRequests ==
  ASSUME TypeOK, Requests, files # <<>>, NEW stage \in FilesStages,
         files' = Append(Tail(files), <<files[1][1], stage>>),
         pc' = [pc EXCEPT ![files[1][1]] = stage]
  PROVE  Requests' /\ files' \in Seq(Handlers \X FilesStages)
<1> DEFINE h == files[1][1]
<1>1. /\ Len(files) \in Nat \ {0} /\ h \in Handlers
      /\ \A i \in 2 .. Len(files) : files[i][1] \in Handlers /\ files[i][1] # h
      /\ \A i \in 2 .. Len(files) : pc[files[i][1]] = files[i][2]
  BY HolderFacts
<1>2. /\ Len(files') = Len(files) /\ files' \in Seq(Handlers \X FilesStages)
      /\ \A j \in 1 .. Len(files) - 1 : files'[j] = files[j + 1]
      /\ files'[Len(files)] = <<h, stage>>
  BY <1>1 DEF TypeOK
<1>3. pc'[h] = stage /\ \A g \in Handlers : g # h => pc'[g] = pc[g]
  BY <1>1 DEF TypeOK
<1> HIDE DEF h
<1>4. ASSUME NEW i \in 1 .. Len(files)
      PROVE  \/ i = Len(files) /\ files'[i][1] = h /\ files'[i][2] = stage
             \/ i + 1 \in 2 .. Len(files) /\ files'[i] = files[i + 1] /\ files'[i][1] # h
  BY <1>1, <1>2
<1>5. ASSUME NEW i \in 1 .. Len(files), NEW j \in 1 .. Len(files), files'[i][1] = files'[j][1]
      PROVE  i = j
  <2>1. CASE i = Len(files) \/ j = Len(files)
    BY <2>1, <1>4, <1>5
  <2>2. CASE ~(i = Len(files) \/ j = Len(files))
    <3>1. i + 1 \in 1 .. Len(files) /\ j + 1 \in 1 .. Len(files) /\ files[i + 1][1] = files[j + 1][1]
      BY <2>2, <1>1, <1>4, <1>5
    <3>2. i + 1 = j + 1
      BY <3>1 DEF Requests
    <3> QED BY <3>2, <1>1
  <2> QED BY <2>1, <2>2
<1>6. ASSUME NEW i \in 1 .. Len(files)
      PROVE  pc'[files'[i][1]] = files'[i][2]
  BY <1>1, <1>3, <1>4
<1>7. ASSUME NEW g \in Handlers, pc'[g] \in FilesStages \cup KeepStages
      PROVE  \E i \in 1 .. Len(files) : files'[i][1] = g
  <2>1. CASE g = h
    <3>1. Len(files) \in 1 .. Len(files) /\ files'[Len(files)][1] = g
      BY <2>1, <1>1, <1>2
    <3> QED BY <3>1
  <2>2. CASE g # h
    <3>1. pc'[g] = pc[g]
      BY <2>2, <1>3
    <3>2. PICK i \in 1 .. Len(files) : files[i][1] = g
      BY <3>1, <1>7 DEF Requests
    <3>3. i # 1
      BY <2>2, <3>2 DEF h
    <3>4. i - 1 \in 1 .. Len(files) /\ files'[i - 1] = files[i]
      BY <3>3, <1>1, <1>2
    <3> QED BY <3>2, <3>4
  <2> QED BY <2>1, <2>2
<1> QED BY <1>2, <1>5, <1>6, <1>7 DEF Requests

\* The holder goes on and keeps the lock.
LEMMA KeepRequests ==
  ASSUME TypeOK, Requests, files # <<>>, files' = files,
         NEW stage, stage \in Keeps(files[1][2]),
         pc' = [pc EXCEPT ![files[1][1]] = stage]
  PROVE  Requests'
<1> DEFINE h == files[1][1]
<1>1. /\ Len(files) \in Nat \ {0} /\ h \in Handlers /\ 1 \in 1 .. Len(files)
      /\ \A i \in 2 .. Len(files) : files[i][1] \in Handlers /\ files[i][1] # h
      /\ \A i \in 2 .. Len(files) : pc[files[i][1]] = files[i][2]
  BY HolderFacts
<1>2. pc'[h] = stage /\ \A g \in Handlers : g # h => pc'[g] = pc[g]
  BY <1>1 DEF TypeOK
<1> HIDE DEF h
<1>3. ASSUME NEW i \in 1 .. Len(files)
      PROVE  \/ pc'[files[i][1]] = files[i][2]
             \/ i = 1 /\ pc'[files[i][1]] \in Keeps(files[i][2])
  <2>1. CASE i = 1
    BY <2>1, <1>2 DEF h
  <2>2. CASE i # 1
    <3>1. i \in 2 .. Len(files)
      BY <2>2, <1>1
    <3> QED BY <3>1, <1>1, <1>2
  <2> QED BY <2>1, <2>2
<1>4. ASSUME NEW g \in Handlers, pc'[g] \in FilesStages \cup KeepStages
      PROVE  \E i \in 1 .. Len(files) : files[i][1] = g
  <2>1. CASE g = h
    BY <2>1, <1>1 DEF h
  <2>2. CASE g # h
    BY <2>2, <1>2, <1>4 DEF Requests
  <2> QED BY <2>1, <2>2
<1>5. \A i, j \in 1 .. Len(files) : files[i][1] = files[j][1] => i = j
  BY DEF Requests
<1> QED BY <1>3, <1>4, <1>5 DEF Requests, Keeps

\* A handler that has nothing to do with `files` goes on.
LEMMA StayRequests ==
  ASSUME TypeOK, Requests, files' = files, NEW h \in Handlers,
         pc[h] \notin FilesStages \cup KeepStages, NEW stage, stage \notin FilesStages \cup KeepStages,
         pc' = [pc EXCEPT ![h] = stage]
  PROVE  Requests' /\ \A i \in 1 .. Len(files) : files[i][1] # h
<1>1. pc'[h] = stage /\ \A g \in Handlers : g # h => pc'[g] = pc[g]
  BY DEF TypeOK
<1>2. ASSUME NEW i \in 1 .. Len(files)
      PROVE  files[i][1] # h /\ files[i][1] \in Handlers
  <2>1. files[i] \in Handlers \X FilesStages
    BY DEF TypeOK
  <2>2. pc[files[i][1]] = files[i][2] \/ pc[files[i][1]] \in Keeps(files[i][2])
    BY DEF Requests
  <2>3. Keeps(files[i][2]) \subseteq KeepStages
    BY DEF Keeps, KeepStages
  <2> QED BY <2>1, <2>2, <2>3
<1>3. ASSUME NEW i \in 1 .. Len(files)
      PROVE  \/ pc'[files[i][1]] = files[i][2]
             \/ i = 1 /\ pc'[files[i][1]] \in Keeps(files[i][2])
  BY <1>1, <1>2 DEF Requests
<1>4. ASSUME NEW g \in Handlers, pc'[g] \in FilesStages \cup KeepStages
      PROVE  \E i \in 1 .. Len(files) : files[i][1] = g
  BY <1>1, <1>4 DEF Requests
<1>5. \A i, j \in 1 .. Len(files) : files[i][1] = files[j][1] => i = j
  BY DEF Requests
<1> QED BY <1>2, <1>3, <1>4, <1>5 DEF Requests, Keeps

\* A handler is dropped, with its request.
LEMMA DropRequests ==
  ASSUME TypeOK, Requests, NEW k \in 1 .. Len(files), files' = RemoveAt(files, k),
         NEW stage, stage \notin FilesStages \cup KeepStages,
         pc' = [pc EXCEPT ![files[k][1]] = stage]
  PROVE  Requests' /\ files' \in Seq(Handlers \X FilesStages)
<1> DEFINE h == files[k][1]
<1>1. /\ Len(files) \in Nat \ {0} /\ Len(files') = Len(files) - 1
      /\ files' \in Seq(Handlers \X FilesStages)
      /\ \A j \in 1 .. Len(files) - 1 : files'[j] = IF j < k THEN files[j] ELSE files[j + 1]
  <2>1. files \in Seq(Handlers \X FilesStages)
    BY DEF TypeOK
  <2> QED BY <2>1, RemoveAtFacts
<1>2. \A i \in 1 .. Len(files) : files[i][1] \in Handlers /\ (i # k => files[i][1] # h)
  <2>1. \A i \in 1 .. Len(files) : files[i] \in Handlers \X FilesStages
    BY DEF TypeOK
  <2> QED BY <2>1 DEF Requests
<1>3. pc'[h] = stage /\ \A g \in Handlers : g # h => pc'[g] = pc[g]
  BY <1>2 DEF TypeOK
<1>4. \A i \in 1 .. Len(files) : i # k => \/ pc'[files[i][1]] = files[i][2]
                                          \/ i = 1 /\ pc'[files[i][1]] \in Keeps(files[i][2])
  BY <1>2, <1>3 DEF Requests
<1> HIDE DEF h
<1>5. ASSUME NEW j \in 1 .. Len(files')
      PROVE  \E i \in 1 .. Len(files) : i # k /\ files'[j] = files[i] /\ j <= i /\ i <= j + 1
                                        /\ (i = j \/ j >= k) /\ (i = j + 1 \/ j < k)
  <2>0. j \in 1 .. Len(files) - 1 /\ j \in 1 .. Len(files) /\ j \in Int /\ k \in Int
    BY <1>1
  <2>1. CASE j < k
    <3>1. files'[j] = files[j]
      BY <2>0, <2>1, <1>1
    <3>2. j # k /\ j <= j /\ j <= j + 1
      BY <2>0, <2>1
    <3> QED BY <3>1, <3>2, <2>0, <2>1
  <2>2. CASE ~(j < k)
    <3>1. files'[j] = files[j + 1]
      BY <2>0, <2>2, <1>1
    <3>2. j + 1 \in 1 .. Len(files) /\ j + 1 # k /\ j <= j + 1 /\ j + 1 <= j + 1 /\ j >= k
      BY <2>0, <2>2, <1>1
    <3> QED BY <3>1, <3>2
  <2> QED BY <2>1, <2>2
<1>6. ASSUME NEW i \in 1 .. Len(files'), NEW j \in 1 .. Len(files'), files'[i][1] = files'[j][1]
      PROVE  i = j
  <2>1. PICK a \in 1 .. Len(files) : a # k /\ files'[i] = files[a] /\ (a = i \/ i >= k) /\ (a = i + 1 \/ i < k)
    BY <1>5
  <2>2. PICK b \in 1 .. Len(files) : b # k /\ files'[j] = files[b] /\ (b = j \/ j >= k) /\ (b = j + 1 \/ j < k)
    BY <1>5
  <2>3. a = b
    BY <2>1, <2>2, <1>6 DEF Requests
  <2> QED BY <2>1, <2>2, <2>3, <1>1
<1>7. ASSUME NEW j \in 1 .. Len(files')
      PROVE  \/ pc'[files'[j][1]] = files'[j][2]
             \/ j = 1 /\ pc'[files'[j][1]] \in Keeps(files'[j][2])
  <2>1. PICK i \in 1 .. Len(files) : i # k /\ files'[j] = files[i] /\ j <= i
    BY <1>5
  <2>2. i = 1 => j = 1
    BY <2>1, <1>1
  <2> QED BY <2>1, <2>2, <1>4
<1>8. ASSUME NEW g \in Handlers, pc'[g] \in FilesStages \cup KeepStages
      PROVE  \E i \in 1 .. Len(files') : files'[i][1] = g
  <2>1. g # h /\ pc'[g] = pc[g]
    BY <1>3, <1>8
  <2>2. PICK i \in 1 .. Len(files) : files[i][1] = g
    BY <2>1, <1>8 DEF Requests
  <2>3. i # k
    BY <2>1, <2>2 DEF h
  <2>4. CASE i < k
    <3>1. i \in 1 .. Len(files') /\ i \in 1 .. Len(files) - 1
      BY <2>4, <1>1
    <3>2. files'[i] = files[i]
      BY <3>1, <2>4, <1>1
    <3> QED BY <2>2, <3>1, <3>2
  <2>5. CASE i > k
    <3>1. i - 1 \in 1 .. Len(files') /\ i - 1 \in 1 .. Len(files) - 1 /\ ~(i - 1 < k) /\ i - 1 + 1 = i
      BY <2>5, <1>1
    <3>2. files'[i - 1] = files[i]
      BY <3>1, <1>1
    <3> QED BY <2>2, <3>1, <3>2
  <2> QED BY <2>3, <2>4, <2>5
<1> QED BY <1>1, <1>6, <1>7, <1>8 DEF Requests, Keeps

\* A handler that is idle gets a message and asks for `files`.
LEMMA StartRequests ==
  ASSUME TypeOK, Requests, NEW h \in Handlers, pc[h] = "idle", NEW stage \in FilesStages,
         files' = Append(files, <<h, stage>>), pc' = [pc EXCEPT ![h] = stage]
  PROVE  /\ Requests' /\ files' \in Seq(Handlers \X FilesStages)
         /\ \A i \in 1 .. Len(files) : files[i][1] # h
<1>1. /\ Len(files) \in Nat /\ Len(files') = Len(files) + 1
      /\ files' \in Seq(Handlers \X FilesStages)
      /\ \A j \in 1 .. Len(files) : files'[j] = files[j]
      /\ files'[Len(files) + 1] = <<h, stage>>
  BY DEF TypeOK
<1>2. pc'[h] = stage /\ \A g \in Handlers : g # h => pc'[g] = pc[g]
  BY DEF TypeOK
<1>3. ASSUME NEW i \in 1 .. Len(files)
      PROVE  files[i][1] # h /\ files[i][1] \in Handlers
  <2>1. files[i] \in Handlers \X FilesStages
    BY DEF TypeOK
  <2>2. pc[files[i][1]] = files[i][2] \/ pc[files[i][1]] \in Keeps(files[i][2])
    BY DEF Requests
  <2>3. Keeps(files[i][2]) \subseteq KeepStages
    BY DEF Keeps, KeepStages
  <2> QED BY <2>1, <2>2, <2>3 DEF FilesStages, KeepStages
<1>4. ASSUME NEW i \in 1 .. Len(files')
      PROVE  \/ i \in 1 .. Len(files) /\ files'[i] = files[i]
             \/ i = Len(files) + 1 /\ files'[i][1] = h /\ files'[i][2] = stage
  BY <1>1
<1>5. ASSUME NEW i \in 1 .. Len(files'), NEW j \in 1 .. Len(files'), files'[i][1] = files'[j][1]
      PROVE  i = j
  BY <1>3, <1>4, <1>5 DEF Requests
<1>6. ASSUME NEW i \in 1 .. Len(files')
      PROVE  \/ pc'[files'[i][1]] = files'[i][2]
             \/ i = 1 /\ pc'[files'[i][1]] \in Keeps(files'[i][2])
  BY <1>2, <1>3, <1>4 DEF Requests
<1>7. ASSUME NEW g \in Handlers, pc'[g] \in FilesStages \cup KeepStages
      PROVE  \E i \in 1 .. Len(files') : files'[i][1] = g
  <2>1. CASE g = h
    <3>1. Len(files) + 1 \in 1 .. Len(files') /\ files'[Len(files) + 1][1] = g
      BY <2>1, <1>1
    <3> QED BY <3>1
  <2>2. CASE g # h
    <3>1. PICK i \in 1 .. Len(files) : files[i][1] = g
      BY <2>2, <1>2, <1>7 DEF Requests
    <3>2. i \in 1 .. Len(files') /\ files'[i][1] = g
      BY <3>1, <1>1
    <3> QED BY <3>2
  <2> QED BY <2>1, <2>2
<1> QED BY <1>1, <1>3, <1>5, <1>6, <1>7 DEF Requests, Keeps

-----------------------------------------------------------------------------
(* What a step does to the order of the parses.                            *)

\* The parses that wait are those that waited, in the same order; position j of
\* the requests was position g[j].
LEMMA SameOrder ==
  ASSUME TypeOK, InOrder, NEW g, clock' = clock, Len(files') \in Nat,
         \A j \in 1 .. Len(files') : files'[j][2] = "insert"
           => /\ g[j] \in 1 .. Len(files) /\ files[g[j]] = files'[j]
              /\ snap'[files'[j][1]] = snap[files'[j][1]],
         \A i, j \in 1 .. Len(files') :
           i < j /\ files'[i][2] = "insert" /\ files'[j][2] = "insert" => g[i] < g[j],
         \A f \in Files : caches'[f].at = caches[f].at \/ caches'[f].at = 0
  PROVE  InOrder'
<1>1. ASSUME NEW i \in 1 .. Len(files'), NEW j \in 1 .. Len(files'), i < j,
             files'[i][2] = "insert", files'[j][2] = "insert"
      PROVE  snap'[files'[i][1]].at < snap'[files'[j][1]].at
  <2>1. /\ g[i] \in 1 .. Len(files) /\ files[g[i]] = files'[i]
        /\ g[j] \in 1 .. Len(files) /\ files[g[j]] = files'[j] /\ g[i] < g[j]
    BY <1>1
  <2>2. snap[files[g[i]][1]].at < snap[files[g[j]][1]].at
    BY <2>1, <1>1, SMTT(30) DEF InOrder
  <2> QED BY <2>1, <2>2, <1>1
<1>2. \A f \in Files : caches'[f].at <= clock /\ caches'[f].at \in Nat
  <2> SUFFICES ASSUME NEW f \in Files PROVE caches'[f].at <= clock /\ caches'[f].at \in Nat
    OBVIOUS
  <2>1. caches[f].at <= clock /\ caches[f].at \in Nat /\ clock \in Nat
    BY DEF InOrder, TypeOK
  <2>2. caches'[f].at = caches[f].at \/ caches'[f].at = 0
    OBVIOUS
  <2> QED BY <2>1, <2>2
<1>3. ASSUME NEW j \in 1 .. Len(files'), files'[j][2] = "insert"
      PROVE  /\ snap'[files'[j][1]].at <= clock
             /\ \A f \in Files : caches'[f].at <= snap'[files'[j][1]].at
  <2>1. g[j] \in 1 .. Len(files) /\ files[g[j]] = files'[j] /\ snap'[files'[j][1]] = snap[files'[j][1]]
    BY <1>3
  <2>2. files[g[j]][1] \in Handlers
    BY <2>1 DEF TypeOK
  <2>3. /\ snap[files'[j][1]].at <= clock /\ snap[files'[j][1]].at \in Nat
        /\ \A f \in Files : caches[f].at <= snap[files'[j][1]].at
    BY <2>1, <2>2, <1>3 DEF InOrder, TypeOK
  <2>4. ASSUME NEW f \in Files PROVE caches'[f].at <= snap[files'[j][1]].at
    <3>1. caches'[f].at = caches[f].at \/ caches'[f].at = 0
      OBVIOUS
    <3> QED BY <3>1, <2>3
  <2> QED BY <2>1, <2>3, <2>4
<1> QED BY <1>1, <1>2, <1>3 DEF InOrder

-----------------------------------------------------------------------------
(* The steps that change no text, cache or diagnostics.                    *)

\* The stages that set a text, a cache or the diagnostics.
Busy == {"update", "close", "snapshot", "insert", "merge"}

\* Handler h goes on to a stage; the texts and the results are as they were.
Moves(h, stage) ==
  /\ pc[h] \notin Busy /\ stage \in Stages \ Busy
  /\ pc' = [pc EXCEPT ![h] = stage]
  /\ msg' \in [Handlers -> Message]
  /\ snap' = [g \in Handlers |-> snap'[g]] /\ snap'[h].at \in Nat
  /\ \A g \in Handlers \ {h} : msg'[g] = msg[g] /\ snap'[g] = snap[g]
  /\ UNCHANGED <<client, inbox, store>>

\* The parses of f that have a result to store are those they were.
LEMMA SameResults ==
  ASSUME NEW f \in Files, workspace' = workspace, Settled(f)' => Settled(f),
         doc'[f] = doc[f], caches'[f].ver = caches[f].ver, diagnostics'[f] = diagnostics[f],
         \A g \in Handlers : /\ (pc'[g] = "insert") <=> (pc[g] = "insert")
                             /\ (pc'[g] = "merge") <=> (pc[g] = "merge")
                             /\ pc[g] \in {"insert", "merge"}
                                  => msg'[g] = msg[g] /\ snap'[g] = snap[g],
         ResultsFollow, Settled(f)'
  PROVE  /\ NewestHas(Caching(f), f, doc[f], caches[f].ver)'
         /\ NewestHas(Reporting(f), f, doc[f], diagnostics[f])'
<1>1. Caching(f)' = Caching(f) /\ Reporting(f)' = Reporting(f)
  BY DEF Caching, Reporting, Namespace
<1>2. \A g \in Caching(f) \cup Reporting(f) : snap'[g] = snap[g]
  BY DEF Caching, Reporting
<1>3. /\ NewestHas(Caching(f), f, doc[f], caches[f].ver)
      /\ NewestHas(Reporting(f), f, doc[f], diagnostics[f])
  BY DEF ResultsFollow
<1>4. NewestHas(Caching(f), f, doc[f], caches[f].ver)'
  <2> DEFINE H == Caching(f)
  <2>1. \A g \in H : snap'[g] = snap[g]
    BY <1>2
  <2> HIDE DEF H
  <2>2. /\ \A h \in H : (\A g \in H : snap'[g].at <= snap'[h].at) => snap'[h].text[f] = doc[f]
        /\ H = {} => caches[f].ver = doc[f]
    BY <2>1, <1>3 DEF NewestHas, H
  <2> QED BY <2>2, <1>1 DEF NewestHas, H
<1>5. NewestHas(Reporting(f), f, doc[f], diagnostics[f])'
  <2> DEFINE H == Reporting(f)
  <2>1. \A g \in H : snap'[g] = snap[g]
    BY <1>2
  <2> HIDE DEF H
  <2>2. /\ \A h \in H : (\A g \in H : snap'[g].at <= snap'[h].at) => snap'[h].text[f] = doc[f]
        /\ H = {} => diagnostics[f] = doc[f]
    BY <2>1, <1>3 DEF NewestHas, H
  <2> QED BY <2>2, <1>1 DEF NewestHas, H
<1> QED BY <1>4, <1>5

LEMMA MovesIInv ==
  ASSUME IInv, NEW h \in Handlers, NEW stage, Moves(h, stage),
         files' \in Seq(Handlers \X FilesStages), Requests', InOrder',
         \A f \in Files : /\ Leads(Line', Size', f, text_buffers[f], doc[f])
                          /\ Pending(f) => Pending(f)'
  PROVE  IInv'
<1>1. /\ pc[h] \notin Busy /\ stage \in Stages \ Busy
      /\ pc'[h] = stage /\ \A g \in Handlers \ {h} : pc'[g] = pc[g] /\ msg'[g] = msg[g] /\ snap'[g] = snap[g]
      /\ UNCHANGED <<workspace, disk, doc, count, inbox, text_buffers, caches, definitions, diagnostics, clock>>
  BY DEF Moves, IInv, TypeOK, client, store
<1>2. TypeOK'
  <2>1. pc' \in [Handlers -> Stages] /\ msg' \in [Handlers -> Message]
    BY DEF Moves, IInv, TypeOK
  <2>2. snap' = [g \in Handlers |-> snap'[g]] /\ \A g \in Handlers : snap'[g].at \in Nat
    BY <1>1 DEF Moves, IInv, TypeOK
  <2> QED BY <1>1, <2>1, <2>2 DEF IInv, TypeOK
<1>3. Tasks'
  BY <1>1 DEF IInv, Tasks, Busy
<1>4. TextsFollow'
  <2> SUFFICES ASSUME NEW f \in Files PROVE Leads(Line', Size', f, text_buffers'[f], doc'[f])
    BY DEF TextsFollow, Leads
  <2> QED BY <1>1
<1>5. ResultsFollow'
  <2> SUFFICES ASSUME NEW f \in Files, Settled(f)'
               PROVE  /\ NewestHas(Caching(f), f, doc[f], caches[f].ver)'
                      /\ NewestHas(Reporting(f), f, doc[f], diagnostics[f])'
    BY DEF ResultsFollow
  <2>1. Settled(f)
    BY <1>1 DEF Settled, Busy
  <2>2. \A g \in Handlers : /\ (pc'[g] = "insert") <=> (pc[g] = "insert")
                            /\ (pc'[g] = "merge") <=> (pc[g] = "merge")
                            /\ pc[g] \in {"insert", "merge"}
                                 => msg'[g] = msg[g] /\ snap'[g] = snap[g]
    BY <1>1 DEF Busy
  <2> QED BY <1>1, <2>1, <2>2, SameResults DEF IInv
<1> QED BY <1>2, <1>3, <1>4, <1>5 DEF IInv

\* The holder of `files` returns.
LEMMA PopIInv ==
  ASSUME IInv, files # <<>>, NEW stage, Moves(files[1][1], stage),
         stage \notin FilesStages \cup KeepStages, files' = Tail(files)
  PROVE  IInv'
<1> DEFINE h == files[1][1]
           g == [j \in 1 .. Len(files') |-> j + 1]
<1>1. /\ Len(files) \in Nat \ {0} /\ h \in Handlers /\ files[1][2] \in FilesStages
      /\ \A i \in 2 .. Len(files) : files[i][1] \in Handlers /\ files[i][1] # h
  BY HolderFacts DEF IInv
<1>2. /\ pc[h] \notin Busy /\ inbox' = inbox /\ clock' = clock /\ caches' = caches
      /\ pc' = [pc EXCEPT ![h] = stage]
      /\ \A q \in Handlers \ {h} : msg'[q] = msg[q] /\ snap'[q] = snap[q]
  BY DEF Moves, store
<1>3. Requests' /\ files' \in Seq(Handlers \X FilesStages)
  BY <1>2, PopRequests DEF IInv
<1>4. InOrder'
  <2>1. Len(files') = Len(files) - 1 /\ \A j \in 1 .. Len(files) - 1 : files'[j] = files[j + 1]
    BY DEF IInv, TypeOK
  <2>2. \A j \in 1 .. Len(files') : /\ g[j] \in 1 .. Len(files) /\ files[g[j]] = files'[j]
                                    /\ snap'[files'[j][1]] = snap[files'[j][1]]
    BY <2>1, <1>1, <1>2
  <2>3. \A i, j \in 1 .. Len(files') : i < j => g[i] < g[j]
    BY <2>1, <1>1
  <2>4. Len(files') \in Nat
    BY <2>1, <1>1
  <2> HIDE DEF g
  <2> QED BY <2>2, <2>3, <2>4, <1>2, SameOrder DEF IInv
<1>5. ASSUME NEW f \in Files
      PROVE  /\ Leads(Line', Size', f, text_buffers[f], doc[f])
             /\ Pending(f) => Pending(f)'
  <2>1. Leads(Line, Size, f, text_buffers[f], doc[f])
    BY DEF IInv, TextsFollow
  <2>2. ~Text(Line[1], f)
    <3>1. 1 \in 1 .. Size /\ 1 <= Len(files)
      BY <1>1 DEF Size, IInv, TypeOK
    <3>2. files[1][2] \notin {"update", "close"}
      <4>1. pc[h] = files[1][2] \/ pc[h] \in Keeps(files[1][2])
        BY <1>1 DEF IInv, Requests
      <4> QED BY <4>1, <1>2 DEF Keeps, Busy
    <3>3. Line[1] = NoMsg
      BY <3>1, <3>2 DEF Line
    <3> QED BY <3>3 DEF Text, NoMsg
  <2>3. \A i \in 2 .. Len(files) : msg'[files[i][1]] = msg[files[i][1]]
    BY <1>1, <1>2
  <2>4. \A i \in 2 .. Size : Line[i] = Line[i]
    OBVIOUS
  <2>5. /\ Leads(Line', Size', f, text_buffers[f], doc[f])
        /\ (\E i \in 1 .. Size : Text(Line[i], f)) => Pending(f)'
    BY <2>1, <2>2, <2>3, <2>4, <1>2, PopLine DEF IInv
  <2> QED BY <2>5 DEF Pending
<1> QED BY <1>1, <1>3, <1>4, <1>5, MovesIInv

\* A handler goes on and the requests for `files` stay.
LEMMA StayIInv ==
  ASSUME IInv, NEW h \in Handlers, NEW stage, Moves(h, stage), files' = files, Requests',
         (\A i \in 1 .. Len(files) : files[i][1] # h) \/ (msg' = msg /\ snap' = snap)
  PROVE  IInv'
<1> DEFINE g == [j \in 1 .. Len(files') |-> j]
<1>1. /\ inbox' = inbox /\ clock' = clock /\ caches' = caches
      /\ \A q \in Handlers \ {h} : msg'[q] = msg[q] /\ snap'[q] = snap[q]
  BY DEF Moves, store
<1>2. /\ Len(files) \in Nat /\ files' \in Seq(Handlers \X FilesStages)
      /\ \A i \in 1 .. Len(files) : files[i][1] \in Handlers
  BY DEF IInv, TypeOK
<1>3. \A i \in 1 .. Len(files) : /\ msg'[files[i][1]] = msg[files[i][1]]
                                 /\ snap'[files[i][1]] = snap[files[i][1]]
  BY <1>1, <1>2
<1>4. InOrder'
  <2>1. \A j \in 1 .. Len(files') : /\ g[j] \in 1 .. Len(files) /\ files[g[j]] = files'[j]
                                    /\ snap'[files'[j][1]] = snap[files'[j][1]]
    BY <1>2, <1>3
  <2>2. \A i, j \in 1 .. Len(files') : i < j => g[i] < g[j]
    BY <1>2
  <2>3. Len(files') \in Nat
    BY <1>2
  <2> HIDE DEF g
  <2> QED BY <2>1, <2>2, <2>3, <1>1, SameOrder DEF IInv
<1>5. ASSUME NEW f \in Files
      PROVE  /\ Leads(Line', Size', f, text_buffers[f], doc[f])
             /\ Pending(f) => Pending(f)'
  <2>1. Leads(Line, Size, f, text_buffers[f], doc[f])
    BY DEF IInv, TextsFollow
  <2>2. Size' = Size
    BY <1>1 DEF Size
  <2>3. \A i \in 1 .. Size : Line'[i] = Line[i]
    BY <2>2, <1>1, <1>2, <1>3 DEF Line
  <2> QED BY <2>1, <2>2, <2>3, SameLine DEF IInv
<1> QED BY <1>2, <1>4, <1>5, MovesIInv

\* The holder of `files` unlocks it and asks for it again.
LEMMA RequeueOrder ==
  ASSUME TypeOK, Requests, InOrder, files # <<>>, NEW stage, stage # "insert",
         files' = Append(Tail(files), <<files[1][1], stage>>), clock' = clock, caches' = caches,
         \A q \in Handlers \ {files[1][1]} : snap'[q] = snap[q]
  PROVE  InOrder'
<1> DEFINE h == files[1][1]
           g == [j \in 1 .. Len(files') |-> j + 1]
<1>1. /\ Len(files) \in Nat \ {0} /\ h \in Handlers
      /\ \A i \in 2 .. Len(files) : files[i][1] \in Handlers /\ files[i][1] # h
  BY HolderFacts
<1>2. /\ Len(files') = Len(files) /\ \A j \in 1 .. Len(files) - 1 : files'[j] = files[j + 1]
      /\ files'[Len(files)] = <<h, stage>>
  BY DEF TypeOK
<1>3. ASSUME NEW j \in 1 .. Len(files), files'[j][2] = "insert"
      PROVE  j \in 1 .. Len(files) - 1
  <2>1. files'[Len(files)][2] = stage
    BY <1>2
  <2>2. j # Len(files)
    BY <2>1, <1>3
  <2> QED BY <2>2, <1>1
<1>4. \A j \in 1 .. Len(files') : files'[j][2] = "insert"
        => /\ g[j] \in 1 .. Len(files) /\ files[g[j]] = files'[j]
           /\ snap'[files'[j][1]] = snap[files'[j][1]]
  <2> SUFFICES ASSUME NEW j \in 1 .. Len(files'), files'[j][2] = "insert"
               PROVE  /\ g[j] \in 1 .. Len(files) /\ files[g[j]] = files'[j]
                      /\ snap'[files'[j][1]] = snap[files'[j][1]]
    OBVIOUS
  <2>0. j \in 1 .. Len(files)
    BY <1>2
  <2>1. j \in 1 .. Len(files) - 1 /\ g[j] = j + 1 /\ j + 1 \in 2 .. Len(files)
    BY <2>0, <1>1, <1>3
  <2>2. files'[j] = files[j + 1] /\ files[j + 1][1] \in Handlers \ {h}
    BY <2>1, <1>1, <1>2
  <2> QED BY <2>1, <2>2, <1>1
<1>5. \A i, j \in 1 .. Len(files') : i < j => g[i] < g[j]
  BY <1>1, <1>2
<1>6. Len(files') \in Nat
  BY <1>1, <1>2
<1> HIDE DEF g
<1> QED BY <1>4, <1>5, <1>6, SameOrder

LEMMA RequeueIInv ==
  ASSUME IInv, files # <<>>, NEW stage \in FilesStages, Moves(files[1][1], stage),
         files' = Append(Tail(files), <<files[1][1], stage>>)
  PROVE  IInv'
<1> DEFINE h == files[1][1]
<1>1. /\ Len(files) \in Nat \ {0} /\ h \in Handlers /\ files[1][2] \in FilesStages
      /\ \A i \in 2 .. Len(files) : files[i][1] \in Handlers /\ files[i][1] # h
  BY HolderFacts DEF IInv
<1>2. /\ pc[h] \notin Busy /\ stage \notin Busy
      /\ inbox' = inbox /\ clock' = clock /\ caches' = caches
      /\ pc' = [pc EXCEPT ![h] = stage]
      /\ \A q \in Handlers \ {h} : msg'[q] = msg[q] /\ snap'[q] = snap[q]
  BY DEF Moves, store
<1>3. Requests' /\ files' \in Seq(Handlers \X FilesStages)
  BY <1>2, RequeueRequests DEF IInv
<1>4. InOrder'
  <2>1. stage # "insert"
    BY <1>2 DEF Busy
  <2> QED BY <2>1, <1>2, RequeueOrder DEF IInv
<1>5. ASSUME NEW f \in Files
      PROVE  /\ Leads(Line', Size', f, text_buffers[f], doc[f])
             /\ Pending(f) => Pending(f)'
  <2>1. Leads(Line, Size, f, text_buffers[f], doc[f])
    BY DEF IInv, TextsFollow
  <2>2. ~Text(Line[1], f)
    <3>1. 1 \in 1 .. Size /\ 1 <= Len(files)
      BY <1>1 DEF Size, IInv, TypeOK
    <3>2. files[1][2] \notin {"update", "close"}
      <4>1. pc[h] = files[1][2] \/ pc[h] \in Keeps(files[1][2])
        BY <1>1 DEF IInv, Requests
      <4> QED BY <4>1, <1>2 DEF Keeps, Busy
    <3>3. Line[1] = NoMsg
      BY <3>1, <3>2 DEF Line
    <3> QED BY <3>3 DEF Text, NoMsg
  <2>3. \A i \in 2 .. Len(files) : msg'[files[i][1]] = msg[files[i][1]]
    BY <1>1, <1>2
  <2>4. \A i \in 2 .. Size : Line[i] = Line[i]
    OBVIOUS
  <2>5. stage \notin {"update", "close"}
    BY <1>2 DEF Busy
  <2>6. /\ Leads(Line', Size', f, text_buffers[f], doc[f])
        /\ (\E i \in 1 .. Size : Text(Line[i], f)) => Pending(f)'
    BY <2>1, <2>2, <2>3, <2>4, <2>5, <1>2, RequeueLine DEF IInv
  <2> QED BY <2>6 DEF Pending
<1> QED BY <1>1, <1>3, <1>4, <1>5, MovesIInv

\* The future of a handler is dropped, and its request with it.
LEMMA DropIInv ==
  ASSUME IInv, NEW k \in 1 .. Len(files), NEW stage, stage \notin FilesStages \cup KeepStages,
         Moves(files[k][1], stage), files' = RemoveAt(files, k)
  PROVE  IInv'
<1> DEFINE h == files[k][1]
           g == [j \in 1 .. Len(files') |-> IF j < k THEN j ELSE j + 1]
<1>0. files \in Seq(Handlers \X FilesStages)
  BY DEF IInv, TypeOK
<1>1. /\ Len(files) \in Nat \ {0} /\ Len(files') = Len(files) - 1
      /\ \A j \in 1 .. Len(files) - 1 : files'[j] = IF j < k THEN files[j] ELSE files[j + 1]
  BY <1>0, RemoveAtFacts
<1>2. h \in Handlers /\ \A i \in 1 .. Len(files) : files[i][1] \in Handlers /\ (i # k => files[i][1] # h)
  <2>1. \A i \in 1 .. Len(files) : files[i] \in Handlers \X FilesStages
    BY <1>0
  <2> QED BY <2>1 DEF IInv, Requests
<1>3. /\ pc[h] \notin Busy /\ inbox' = inbox /\ clock' = clock /\ caches' = caches
      /\ pc' = [pc EXCEPT ![h] = stage]
      /\ \A q \in Handlers \ {h} : msg'[q] = msg[q] /\ snap'[q] = snap[q]
  BY DEF Moves, store
<1>4. Requests' /\ files' \in Seq(Handlers \X FilesStages)
  BY <1>3, DropRequests DEF IInv
<1>5. \A i \in 1 .. Len(files) : i # k => /\ msg'[files[i][1]] = msg[files[i][1]]
                                          /\ snap'[files[i][1]] = snap[files[i][1]]
  BY <1>2, <1>3
<1>6. InOrder'
  <2>1. \A j \in 1 .. Len(files') : /\ g[j] \in 1 .. Len(files) /\ files[g[j]] = files'[j] /\ g[j] # k
    BY <1>1
  <2>2. \A i, j \in 1 .. Len(files') : i < j => g[i] < g[j]
    BY <1>1
  <2>3. Len(files') \in Nat
    BY <1>1
  <2> HIDE DEF g
  <2>4. ASSUME NEW j \in 1 .. Len(files') PROVE snap'[files'[j][1]] = snap[files'[j][1]]
    <3>1. g[j] \in 1 .. Len(files) /\ files[g[j]] = files'[j] /\ g[j] # k
      BY <2>1
    <3>2. snap'[files[g[j]][1]] = snap[files[g[j]][1]]
      BY <3>1, <1>5
    <3> QED BY <3>1, <3>2
  <2> QED BY <2>1, <2>2, <2>3, <2>4, <1>3, SameOrder DEF IInv
<1>7. ASSUME NEW f \in Files
      PROVE  /\ Leads(Line', Size', f, text_buffers[f], doc[f])
             /\ Pending(f) => Pending(f)'
  <2>1. Leads(Line, Size, f, text_buffers[f], doc[f])
    BY DEF IInv, TextsFollow
  <2>2. files[k][2] \notin {"update", "close"}
    <3>1. pc[h] = files[k][2] \/ pc[h] \in Keeps(files[k][2])
      BY <1>1 DEF IInv, Requests
    <3> QED BY <3>1, <1>3 DEF Keeps, Busy
  <2> QED BY <2>1, <2>2, <1>3, <1>5, DropLine DEF IInv
<1> QED BY <1>2, <1>4, <1>6, <1>7, MovesIInv

-----------------------------------------------------------------------------
(* The actions.                                                            *)

\* What Holds and the lock operations say of `files`.
LEMMA HoldsFiles ==
  ASSUME TypeOK, NEW h, NEW stage, Holds(files, h, stage)
  PROVE  /\ files # <<>> /\ files[1][1] = h /\ files[1][2] = stage
         /\ Release(files) = Tail(files)
         /\ \A s : Request(Release(files), h, s) = Append(Tail(files), <<h, s>>)
<1>1. files # <<>> /\ Head(files) = <<h, stage>> /\ files \in Seq(Handlers \X FilesStages)
  BY DEF Holds, TypeOK
<1>2. files[1] = <<h, stage>>
  BY <1>1
<1> QED BY <1>1, <1>2 DEF Release, Request

LEMMA NoMsgOK == NoMsg \in Message /\ NoSnap.at \in Nat
<1>1. NoMsg \in Message
  BY DEF NoMsg, Message, Kinds, NoText
<1> QED BY <1>1 DEF NoSnap

\* A handler returns.
LEMMA DoneMoves ==
  ASSUME IInv, NEW h \in Handlers, pc[h] \notin Busy, Done(h), UNCHANGED <<client, inbox, store>>
  PROVE  Moves(h, "idle") /\ "idle" \notin FilesStages \cup KeepStages
<1>1. /\ pc' = [pc EXCEPT ![h] = "idle"] /\ msg' = [msg EXCEPT ![h] = NoMsg]
      /\ snap' = [snap EXCEPT ![h] = NoSnap]
  BY DEF Done
<1>2. msg' \in [Handlers -> Message] /\ \A g \in Handlers \ {h} : msg'[g] = msg[g]
  BY <1>1, NoMsgOK DEF IInv, TypeOK
<1>3. snap = [g \in Handlers |-> snap[g]]
  BY DEF IInv, TypeOK
<1>4. /\ snap' = [g \in Handlers |-> snap'[g]] /\ snap'[h].at \in Nat
      /\ \A g \in Handlers \ {h} : snap'[g] = snap[g]
  BY <1>1, <1>3, NoMsgOK
<1>5. "idle" \in Stages \ Busy /\ "idle" \notin FilesStages \cup KeepStages
  BY DEF Stages, Busy, FilesStages, KeepStages
<1> QED BY <1>1, <1>2, <1>4, <1>5 DEF Moves

\* A handler goes on.
LEMMA GotoMoves ==
  ASSUME IInv, NEW h \in Handlers, pc[h] \notin Busy, NEW stage \in Stages \ Busy, Goto(h, stage),
         UNCHANGED <<client, inbox, msg, snap, store>>
  PROVE  Moves(h, stage)
<1>1. pc' = [pc EXCEPT ![h] = stage]
  BY DEF Goto
<1>2. msg' \in [Handlers -> Message] /\ snap' = [g \in Handlers |-> snap'[g]] /\ snap'[h].at \in Nat
  BY DEF IInv, TypeOK
<1> QED BY <1>1, <1>2 DEF Moves

LEMMA PublishIInv ==
  ASSUME IInv, NEW h \in Handlers, Publish(h)
  PROVE  IInv'
<1>1. pc[h] \in KeepStages /\ pc[h] \notin Busy
  BY DEF Publish, KeepStages, Busy
<1>2. files # <<>> /\ files[1][1] = h
  BY <1>1, KeeperHolds DEF IInv
<1>3. Moves(h, "idle") /\ "idle" \notin FilesStages \cup KeepStages
  BY <1>1, DoneMoves DEF Publish
<1>4. files' = Tail(files)
  BY DEF Publish, Release
<1> QED BY <1>2, <1>3, <1>4, PopIInv

LEMMA AnswerBothIInv ==
  ASSUME IInv, NEW h \in Handlers, AnswerBoth(h)
  PROVE  IInv'
<1>1. pc[h] \in KeepStages /\ pc[h] \notin Busy
  BY DEF AnswerBoth, KeepStages, Busy
<1>2. files # <<>> /\ files[1][1] = h
  BY <1>1, KeeperHolds DEF IInv
<1>3. Moves(h, "idle") /\ "idle" \notin FilesStages \cup KeepStages
  BY <1>1, DoneMoves DEF AnswerBoth
<1>4. files' = Tail(files)
  BY DEF AnswerBoth, Release
<1> QED BY <1>2, <1>3, <1>4, PopIInv

LEMMA LookupReturnsIInv ==
  ASSUME IInv, NEW h \in Handlers, LookupReturns(h)
  PROVE  IInv'
<1>1. pc[h] \notin Busy /\ Holds(files, h, "lookup")
  BY DEF LookupReturns, Busy
<1>2. files # <<>> /\ files[1][1] = h /\ Release(files) = Tail(files)
  BY <1>1, HoldsFiles DEF IInv
<1>3. Moves(h, "idle") /\ "idle" \notin FilesStages \cup KeepStages
  BY <1>1, DoneMoves DEF LookupReturns
<1>4. files' = Tail(files)
  BY <1>2 DEF LookupReturns
<1> QED BY <1>2, <1>3, <1>4, PopIInv

LEMMA LookupCompletionIInv ==
  ASSUME IInv, NEW h \in Handlers, LookupCompletion(h)
  PROVE  IInv'
<1>1. pc[h] \notin Busy /\ Holds(files, h, "lookup")
  BY DEF LookupCompletion, Busy
<1>2. files # <<>> /\ files[1][1] = h /\ files[1][2] = "lookup"
  BY <1>1, HoldsFiles DEF IInv
<1>3. Moves(h, "suggest") /\ files' = files /\ msg' = msg /\ snap' = snap
  <2>1. "suggest" \in Stages \ Busy
    BY DEF Stages, Busy
  <2> QED BY <2>1, <1>1, GotoMoves DEF LookupCompletion
<1>4. Requests'
  <2>1. "suggest" \in Keeps(files[1][2])
    BY <1>2 DEF Keeps
  <2> QED BY <2>1, <1>2, <1>3, KeepRequests DEF IInv, Moves
<1> QED BY <1>3, <1>4, StayIInv

LEMMA CollectIInv ==
  ASSUME IInv, NEW h \in Handlers, Collect(h)
  PROVE  IInv'
<1>1. pc[h] \notin Busy /\ Holds(files, h, "collect")
  BY DEF Collect, Busy
<1>2. files # <<>> /\ files[1][1] = h /\ files[1][2] = "collect" /\ Release(files) = Tail(files)
  BY <1>1, HoldsFiles DEF IInv
<1>3. CASE msg[h].kind = "references" /\ ~msg[h].flag
  <2>1. Moves(h, "retain") /\ files' = files /\ msg' = msg /\ snap' = snap
    <3>1. "retain" \in Stages \ Busy
      BY DEF Stages, Busy
    <3> QED BY <3>1, <1>1, <1>3, GotoMoves DEF Collect
  <2>2. Requests'
    <3>1. "retain" \in Keeps(files[1][2])
      BY <1>2 DEF Keeps
    <3> QED BY <3>1, <2>1, <1>2, KeepRequests DEF IInv, Moves
  <2> QED BY <2>1, <2>2, StayIInv
<1>4. CASE ~(msg[h].kind = "references" /\ ~msg[h].flag)
  <2>1. Moves(h, "idle") /\ "idle" \notin FilesStages \cup KeepStages
    BY <1>1, <1>4, DoneMoves DEF Collect
  <2>2. files' = Tail(files)
    BY <1>2, <1>4 DEF Collect
  <2> QED BY <2>1, <2>2, <1>2, PopIInv
<1> QED BY <1>3, <1>4

LEMMA LookupReferenceIInv ==
  ASSUME IInv, NEW h \in Handlers, LookupReference(h)
  PROVE  IInv'
<1>1. pc[h] \notin Busy /\ Holds(files, h, "lookup")
  BY DEF LookupReference, Busy
<1>2. /\ files # <<>> /\ files[1][1] = h /\ Release(files) = Tail(files)
      /\ Request(Release(files), h, "collect") = Append(Tail(files), <<h, "collect">>)
  BY <1>1, HoldsFiles DEF IInv
<1>3. CASE msg[h].kind = "goto"
  <2>1. "resolve" \in Stages \ Busy /\ "resolve" \notin FilesStages \cup KeepStages
    BY DEF Stages, Busy, FilesStages, KeepStages
  <2>2. Moves(h, "resolve") /\ files' = Tail(files)
    BY <2>1, <1>1, <1>2, <1>3, GotoMoves DEF LookupReference
  <2> QED BY <2>1, <2>2, <1>2, PopIInv
<1>4. CASE msg[h].kind # "goto"
  <2>1. "collect" \in Stages \ Busy /\ "collect" \in FilesStages
    BY DEF Stages, Busy, FilesStages
  <2>2. Moves(h, "collect") /\ files' = Append(Tail(files), <<h, "collect">>)
    BY <2>1, <1>1, <1>2, <1>4, GotoMoves DEF LookupReference
  <2> QED BY <2>1, <2>2, <1>2, RequeueIInv
<1> QED BY <1>3, <1>4

\* The end of did_close, and of goto_definition, under no lock of `files`.
LEMMA ReturnsIInv ==
  ASSUME IInv, NEW h \in Handlers, Cleared(h) \/ AnswerGoto(h)
  PROVE  IInv'
<1>1. /\ pc[h] \notin Busy /\ pc[h] \notin FilesStages \cup KeepStages /\ files' = files
      /\ Done(h) /\ UNCHANGED <<client, inbox, store>>
  BY DEF Cleared, AnswerGoto, Busy, FilesStages, KeepStages, locks
<1>2. Moves(h, "idle") /\ "idle" \notin FilesStages \cup KeepStages
  BY <1>1, DoneMoves
<1>3. Requests' /\ \A i \in 1 .. Len(files) : files[i][1] # h
  BY <1>1, <1>2, StayRequests DEF IInv, Moves
<1> QED BY <1>1, <1>2, <1>3, StayIInv

LEMMA CancelIInv ==
  ASSUME IInv, NEW h \in Handlers, Cancel(h)
  PROVE  IInv'
<1>1. /\ pc[h] \notin Busy /\ files' = Forget(files, h)
      /\ Done(h) /\ UNCHANGED <<client, inbox, store>>
  BY DEF Cancel, Busy
<1>2. Moves(h, "idle") /\ "idle" \notin FilesStages \cup KeepStages
  BY <1>1, DoneMoves
<1>3. CASE \E i \in 1 .. Len(files) : files[i][1] = h
  <2> DEFINE k == CHOOSE i \in 1 .. Len(files) : files[i][1] = h
  <2>1. k \in 1 .. Len(files) /\ files[k][1] = h
    BY <1>3
  <2>2. files' = RemoveAt(files, k)
    BY <1>1, <1>3 DEF Forget
  <2> HIDE DEF k
  <2> QED BY <2>1, <2>2, <1>2, DropIInv
<1>4. CASE ~\E i \in 1 .. Len(files) : files[i][1] = h
  <2>1. files' = files
    BY <1>1, <1>4 DEF Forget
  <2>2. pc[h] \notin FilesStages \cup KeepStages
    BY <1>4 DEF IInv, Requests
  <2>3. Requests'
    BY <2>1, <2>2, <1>2, StayRequests DEF IInv, Moves
  <2> QED BY <2>1, <2>3, <1>2, <1>4, StayIInv
<1> QED BY <1>3, <1>4

\* The editor sends a message about the text that it has.
LEMMA SendIInv ==
  ASSUME IInv, NEW m \in Message, inbox' = Append(inbox, m),
         UNCHANGED <<workspace, msg, pc, snap, store, locks>>,
         disk' \in [Files -> Int], doc' \in [Files -> Int], count' \in Nat,
         \A f \in Files : \/ ~Text(m, f) /\ doc'[f] = doc[f]
                          \/ Text(m, f) /\ Follows(doc[f], m) /\ doc'[f] = Result(m)
  PROVE  IInv'
<1>1. UNCHANGED <<text_buffers, caches, definitions, diagnostics, clock, files, global_cache>>
  BY DEF store, locks
<1>2. /\ Len(files) \in Nat /\ Len(inbox) \in Nat /\ Len(inbox') = Len(inbox) + 1
      /\ \A i \in 1 .. Len(inbox) : inbox'[i] = inbox[i]
      /\ inbox'[Len(inbox) + 1] = m /\ inbox' \in Seq(Message)
  BY DEF IInv, TypeOK
<1>3. Size \in Nat /\ Size' = Size + 1 /\ Size = Len(files) + Len(inbox)
  BY <1>1, <1>2 DEF Size
<1>4. ASSUME NEW i \in 1 .. Size PROVE Line'[i] = Line[i]
  <2>1. i \in 1 .. Size'
    BY <1>3
  <2>2. CASE i <= Len(files)
    <3>1. Line[i] = IF files[i][2] \in {"update", "close"} THEN msg[files[i][1]] ELSE NoMsg
      BY <2>2 DEF Line
    <3>2. Line'[i] = IF files'[i][2] \in {"update", "close"} THEN msg'[files'[i][1]] ELSE NoMsg
      BY <2>1, <2>2, <1>1 DEF Line
    <3> QED BY <3>1, <3>2, <1>1
  <2>3. CASE ~(i <= Len(files))
    <3>1. i - Len(files) \in 1 .. Len(inbox)
      BY <2>3, <1>2, <1>3
    <3>2. Line[i] = inbox[i - Len(files)] /\ Line'[i] = inbox'[i - Len(files)]
      BY <2>1, <2>3, <1>1 DEF Line
    <3> QED BY <3>1, <3>2, <1>2
  <2> QED BY <2>2, <2>3
<1>5. Line'[Size + 1] = m
  <2> DEFINE k == Size + 1
  <2>1. k \in 1 .. Size' /\ ~(k <= Len(files)) /\ k - Len(files) = Len(inbox) + 1
    BY <1>2, <1>3
  <2> HIDE DEF k
  <2>2. Line'[k] = inbox'[k - Len(files)]
    BY <2>1, <1>1 DEF Line
  <2>3. Line'[k] = m
    BY <2>1, <2>2, <1>2
  <2> QED BY <2>3 DEF k
<1>6. TypeOK' /\ Requests' /\ Tasks' /\ InOrder'
  <2>1. TypeOK'
    BY <1>1, <1>2 DEF IInv, TypeOK
  <2>2. Requests' /\ Tasks' /\ InOrder'
    BY <1>1 DEF IInv, Requests, Tasks, InOrder, Keeps
  <2> QED BY <2>1, <2>2
<1>7. TextsFollow'
  <2> SUFFICES ASSUME NEW f \in Files PROVE Leads(Line', Size + 1, f, text_buffers[f], doc'[f])
    BY <1>1, <1>3 DEF TextsFollow, Leads
  <2>1. Leads(Line, Size, f, text_buffers[f], doc[f])
    BY DEF IInv, TextsFollow
  <2>2. \A i \in 1 .. Size : Line'[i] = Line[i]
    BY <1>4
  <2>3. \/ ~Text(Line'[Size + 1], f) /\ doc'[f] = doc[f]
        \/ Text(Line'[Size + 1], f) /\ Follows(doc[f], Line'[Size + 1]) /\ doc'[f] = Result(Line'[Size + 1])
    BY <1>5
  <2> QED BY <2>1, <2>2, <2>3, <1>3, LeadsAppend
<1>8. ResultsFollow'
  <2> SUFFICES ASSUME NEW f \in Files, Settled(f)'
               PROVE  /\ NewestHas(Caching(f), f, doc[f], caches[f].ver)'
                      /\ NewestHas(Reporting(f), f, doc[f], diagnostics[f])'
    BY DEF ResultsFollow
  <2>1. \A i \in 1 .. Size + 1 : ~Text(Line'[i], f)
    BY <1>3 DEF Settled, Pending
  <2>2. ~Text(m, f) /\ doc'[f] = doc[f]
    <3>1. Size + 1 \in 1 .. Size + 1
      BY <1>3
    <3>2. ~Text(Line'[Size + 1], f)
      BY <2>1, <3>1
    <3> QED BY <3>2, <1>5
  <2>3. \A i \in 1 .. Size : ~Text(Line[i], f)
    BY <2>1, <1>3, <1>4
  <2>4. Settled(f)
    BY <2>2, <2>3 DEF Settled, Pending
  <2> QED BY <2>2, <2>4, <1>1, SameResults DEF IInv
<1> QED BY <1>6, <1>7, <1>8 DEF IInv

LEMMA EditorIInv ==
  ASSUME IInv, Editor
  PROVE  IInv'
<1>0. /\ disk \in [Files -> Int] /\ doc \in [Files -> Int] /\ count \in Nat /\ NoMsg \in Message
      /\ workspace \in Workspaces
  BY NoMsgOK DEF IInv, TypeOK
<1>1. ASSUME NEW f \in Files, Open(f)
      PROVE  IInv'
  <2> DEFINE m == [NoMsg EXCEPT !.kind = "open", !.file = f, !.ver = disk[f]]
  <2>1. m \in Message /\ m.kind = "open" /\ m.file = f /\ m.ver = disk[f]
    BY <1>0 DEF Message, Kinds, NoMsg
  <2>2. /\ inbox' = Append(inbox, m) /\ UNCHANGED <<workspace, msg, pc, snap, store, locks>>
        /\ disk' \in [Files -> Int] /\ doc' \in [Files -> Int] /\ count' \in Nat
        /\ doc' = [doc EXCEPT ![f] = disk[f]]
    BY <1>0, <1>1 DEF Open, Send
  <2>3. \A g \in Files : \/ ~Text(m, g) /\ doc'[g] = doc[g]
                         \/ Text(m, g) /\ Follows(doc[g], m) /\ doc'[g] = Result(m)
    BY <2>1, <2>2, <1>0 DEF Text, Follows, Result
  <2> HIDE DEF m
  <2> QED BY <2>1, <2>2, <2>3, SendIInv
<1>2. ASSUME NEW f \in Files, Change(f)
      PROVE  IInv'
  <2> DEFINE m == [NoMsg EXCEPT !.kind = "change", !.file = f, !.base = doc[f], !.ver = count + 2]
  <2>0. doc[f] \in Int /\ count + 2 \in Int
    BY <1>0
  <2>1. m \in Message /\ m.kind = "change" /\ m.file = f /\ m.ver = count + 2 /\ m.base = doc[f]
    BY <2>0 DEF Message, Kinds, NoMsg
  <2>2. /\ inbox' = Append(inbox, m) /\ UNCHANGED <<workspace, msg, pc, snap, store, locks>>
        /\ disk' \in [Files -> Int] /\ doc' \in [Files -> Int] /\ count' \in Nat
        /\ doc' = [doc EXCEPT ![f] = count + 2] /\ doc[f] # NoText
    BY <1>0, <1>2 DEF Change, Send
  <2>3. \A g \in Files : \/ ~Text(m, g) /\ doc'[g] = doc[g]
                         \/ Text(m, g) /\ Follows(doc[g], m) /\ doc'[g] = Result(m)
    BY <2>1, <2>2, <1>0 DEF Text, Follows, Result
  <2> HIDE DEF m
  <2> QED BY <2>1, <2>2, <2>3, SendIInv
<1>3. ASSUME NEW f \in Files, Close(f)
      PROVE  IInv'
  <2> DEFINE m == [NoMsg EXCEPT !.kind = "close", !.file = f]
  <2>1. m \in Message /\ m.kind = "close" /\ m.file = f
    BY <1>0 DEF Message, Kinds, NoMsg
  <2>2. /\ inbox' = Append(inbox, m) /\ UNCHANGED <<workspace, msg, pc, snap, store, locks>>
        /\ disk' \in [Files -> Int] /\ doc' \in [Files -> Int] /\ count' \in Nat
        /\ doc' = [doc EXCEPT ![f] = NoText]
    BY <1>0, <1>3 DEF Close, Send, NoText
  <2>3. \A g \in Files : \/ ~Text(m, g) /\ doc'[g] = doc[g]
                         \/ Text(m, g) /\ Follows(doc[g], m) /\ doc'[g] = Result(m)
    BY <2>1, <2>2, <1>0 DEF Text, Follows, Result
  <2> HIDE DEF m
  <2> QED BY <2>1, <2>2, <2>3, SendIInv
<1>4. ASSUME NEW f \in Files, NEW withText \in BOOLEAN, Save(f, withText)
      PROVE  IInv'
  <2> DEFINE m == [NoMsg EXCEPT !.kind = "save", !.file = f, !.flag = withText, !.ver = doc[f]]
  <2>1. m \in Message /\ m.kind = "save" /\ m.file = f /\ m.ver = doc[f]
    BY <1>0 DEF Message, Kinds, NoMsg
  <2>2. /\ inbox' = Append(inbox, m) /\ UNCHANGED <<workspace, msg, pc, snap, store, locks>>
        /\ disk' \in [Files -> Int] /\ doc' \in [Files -> Int] /\ count' \in Nat
        /\ doc' = doc /\ doc[f] # NoText
    BY <1>0, <1>4 DEF Save, Send
  <2>3. \A g \in Files : \/ ~Text(m, g) /\ doc'[g] = doc[g]
                         \/ Text(m, g) /\ Follows(doc[g], m) /\ doc'[g] = Result(m)
    BY <2>1, <2>2, <1>0 DEF Text, Follows, Result
  <2> HIDE DEF m
  <2> QED BY <2>1, <2>2, <2>3, SendIInv
<1>5. ASSUME NEW kind \in workspace.kinds, NEW f \in Files, NEW flag \in BOOLEAN, Ask(kind, f, flag)
      PROVE  IInv'
  <2> DEFINE m == [NoMsg EXCEPT !.kind = kind, !.file = f, !.flag = flag]
  <2>0. kind \in {"hover", "completion", "goto", "references", "rename"}
    BY <1>5 DEF Ask
  <2>1. m \in Message /\ m.kind = kind
    BY <2>0, <1>0 DEF Message, Kinds, NoMsg
  <2>2. /\ inbox' = Append(inbox, m) /\ UNCHANGED <<workspace, msg, pc, snap, store, locks>>
        /\ disk' \in [Files -> Int] /\ doc' \in [Files -> Int] /\ count' \in Nat
        /\ doc' = doc
    BY <1>0, <1>5 DEF Ask, Send
  <2>3. \A q \in Files : ~Text(m, q) /\ doc'[q] = doc[q]
    BY <2>0, <2>1, <2>2 DEF Text
  <2> HIDE DEF m
  <2> QED BY <2>1, <2>2, <2>3, SendIInv
<1> QED BY <1>1, <1>2, <1>3, <1>4, <1>5 DEF Editor

\* The service reads a message: it keeps its place in the line.
LEMMA StartIInv ==
  ASSUME IInv, NEW h \in Handlers, Start(h)
  PROVE  IInv'
<1> DEFINE m == Head(inbox)
           stage == FirstStage(m)
           g == [j \in 1 .. Len(files') |-> j]
<1>1. /\ inbox \in Seq(Message) /\ inbox # <<>> /\ pc[h] = "idle" /\ inbox' = Tail(inbox)
      /\ msg' = [msg EXCEPT ![h] = m] /\ pc' = [pc EXCEPT ![h] = stage]
      /\ files' = Append(files, <<h, stage>>)
      /\ UNCHANGED <<workspace, disk, doc, count, snap, text_buffers, caches, definitions, diagnostics, clock>>
  BY DEF Start, IInv, TypeOK, client, store, Goto, Request
<1>2. /\ m \in Message /\ Len(inbox) \in Nat \ {0} /\ inbox' \in Seq(Message)
      /\ inbox[1] = m /\ Len(inbox') = Len(inbox) - 1
      /\ \A i \in 1 .. Len(inbox) - 1 : inbox'[i] = inbox[i + 1]
  BY <1>1
<1>3. /\ stage \in {"update", "snapshot", "close", "lookup"}
      /\ stage = "update" => \/ m.kind \in {"open", "change"}
                             \/ m.kind = "save" /\ m.flag
      /\ stage = "close" => m.kind = "close"
      /\ stage \notin {"update", "close"} => \A f : ~Text(m, f)
  <2>1. m.flag \in BOOLEAN
    BY <1>2 DEF Message
  <2> HIDE DEF m
  <2>2. CASE m.kind \in {"open", "change"}
    BY <2>2 DEF FirstStage
  <2>3. CASE m.kind = "save"
    BY <2>1, <2>3 DEF FirstStage, Text
  <2>4. CASE m.kind = "close"
    BY <2>4 DEF FirstStage
  <2>5. CASE m.kind \notin {"open", "change", "save", "close"}
    BY <2>5 DEF FirstStage, Text
  <2> QED BY <2>2, <2>3, <2>4, <2>5
<1> HIDE DEF m, stage
<1>4. stage \in FilesStages /\ stage \in Stages /\ stage # "insert" /\ stage # "merge"
  BY <1>3 DEF FilesStages, Stages
<1>5. /\ Requests' /\ files' \in Seq(Handlers \X FilesStages)
      /\ \A i \in 1 .. Len(files) : files[i][1] # h
  BY <1>1, <1>4, StartRequests DEF IInv
<1>6. /\ Len(files) \in Nat /\ Len(files') = Len(files) + 1
      /\ \A i \in 1 .. Len(files) : files'[i] = files[i] /\ files[i][1] \in Handlers
      /\ files'[Len(files) + 1] = <<h, stage>>
  BY <1>1 DEF IInv, TypeOK
<1>7. /\ pc'[h] = stage /\ msg'[h] = m
      /\ \A q \in Handlers \ {h} : pc'[q] = pc[q] /\ msg'[q] = msg[q]
  BY <1>1 DEF IInv, TypeOK
<1>8. TypeOK'
  BY <1>1, <1>2, <1>4, <1>5 DEF IInv, TypeOK
<1>9. Tasks'
  BY <1>3, <1>7 DEF IInv, Tasks
<1>10. InOrder'
  <2>1. \A j \in 1 .. Len(files') : files'[j][2] = "insert"
          => /\ g[j] \in 1 .. Len(files) /\ files[g[j]] = files'[j]
             /\ snap'[files'[j][1]] = snap[files'[j][1]]
    <3> SUFFICES ASSUME NEW j \in 1 .. Len(files'), files'[j][2] = "insert"
                 PROVE  g[j] \in 1 .. Len(files) /\ files[g[j]] = files'[j]
      BY <1>1
    <3>1. g[j] = j
      OBVIOUS
    <3>2. files'[Len(files) + 1][2] = stage
      BY <1>6
    <3>3. j # Len(files) + 1
      BY <3>2, <1>4
    <3>4. j \in 1 .. Len(files) + 1
      BY <1>6
    <3>5. j \in 1 .. Len(files)
      BY <3>3, <3>4, <1>6
    <3> QED BY <3>1, <3>5, <1>6
  <2>2. \A i, j \in 1 .. Len(files') : i < j => g[i] < g[j]
    OBVIOUS
  <2>3. Len(files') \in Nat
    BY <1>6
  <2> HIDE DEF g
  <2> QED BY <2>1, <2>2, <2>3, <1>1, SameOrder DEF IInv
<1>11. ASSUME NEW f \in Files
       PROVE  /\ Leads(Line', Size', f, text_buffers[f], doc[f])
              /\ Pending(f) => Pending(f)'
  <2>1. Leads(Line, Size, f, text_buffers[f], doc[f])
    BY DEF IInv, TextsFollow
  <2>2. Size' = Size /\ Size \in Nat /\ Size = Len(files) + Len(inbox)
    BY <1>2, <1>6 DEF Size
  <2>3. ASSUME NEW i \in 1 .. Size PROVE Text(Line[i], f) \/ Text(Line'[i], f) => Line'[i] = Line[i]
    <3>0. i \in 1 .. Size'
      BY <2>2
    <3>1. CASE i <= Len(files)
      <4>1. i \in 1 .. Len(files) /\ i <= Len(files')
        BY <3>1, <2>2, <1>6
      <4>2. files'[i] = files[i] /\ msg'[files[i][1]] = msg[files[i][1]]
        BY <4>1, <1>5, <1>6, <1>7
      <4>3. Line[i] = IF files[i][2] \in {"update", "close"} THEN msg[files[i][1]] ELSE NoMsg
        BY <3>1 DEF Line
      <4>4. Line'[i] = IF files'[i][2] \in {"update", "close"} THEN msg'[files'[i][1]] ELSE NoMsg
        BY <3>0, <4>1 DEF Line
      <4> QED BY <4>2, <4>3, <4>4
    <3>2. CASE i = Len(files) + 1
      <4>1. ~(i <= Len(files)) /\ i <= Len(files') /\ i - Len(files) = 1
        BY <3>2, <1>6
      <4>2. Line[i] = m
        BY <4>1, <1>2 DEF Line
      <4>3. Line'[i] = IF files'[i][2] \in {"update", "close"} THEN msg'[files'[i][1]] ELSE NoMsg
        BY <3>0, <4>1 DEF Line
      <4>4. files'[i][2] = stage /\ files'[i][1] = h
        BY <3>2, <1>6
      <4>5. ~Text(NoMsg, f)
        BY DEF Text, NoMsg
      <4> QED BY <4>2, <4>3, <4>4, <4>5, <1>3, <1>7
    <3>3. CASE i > Len(files) + 1
      <4>1. /\ ~(i <= Len(files)) /\ ~(i <= Len(files')) /\ i - Len(files') \in 1 .. Len(inbox) - 1
            /\ i - Len(files') + 1 = i - Len(files)
        BY <3>3, <2>2, <1>2, <1>6
      <4>2. Line[i] = inbox[i - Len(files)] /\ Line'[i] = inbox'[i - Len(files')]
        BY <3>0, <4>1 DEF Line
      <4> QED BY <4>1, <4>2, <1>2
    <3> QED BY <3>1, <3>2, <3>3, <2>2, <1>6
  <2> QED BY <2>1, <2>2, <2>3, SameLine DEF IInv
<1>12. TextsFollow'
  <2> SUFFICES ASSUME NEW f \in Files PROVE Leads(Line', Size', f, text_buffers'[f], doc'[f])
    BY DEF TextsFollow, Leads
  <2> QED BY <1>1, <1>11
<1>13. ResultsFollow'
  <2> SUFFICES ASSUME NEW f \in Files, Settled(f)'
               PROVE  /\ NewestHas(Caching(f), f, doc[f], caches[f].ver)'
                      /\ NewestHas(Reporting(f), f, doc[f], diagnostics[f])'
    BY DEF ResultsFollow
  <2>1. Settled(f)
    BY <1>1, <1>7, <1>11 DEF Settled
  <2>2. \A q \in Handlers : /\ (pc'[q] = "insert") <=> (pc[q] = "insert")
                            /\ (pc'[q] = "merge") <=> (pc[q] = "merge")
                            /\ pc[q] \in {"insert", "merge"}
                                 => msg'[q] = msg[q] /\ snap'[q] = snap[q]
    BY <1>1, <1>4, <1>7
  <2> QED BY <1>1, <2>1, <2>2, SameResults DEF IInv
<1> QED BY <1>5, <1>8, <1>9, <1>10, <1>12, <1>13 DEF IInv

\* A line whose first message is taken out.
Taken == [i \in 1 .. Size |-> IF i = 1 THEN NoMsg ELSE Line[i]]

\* The holder of `files` has a message that sets the text of its file: that is
\* the first of the line, and was made for the text that the server has.
LEMMA TakeFirst ==
  ASSUME IInv, files # <<>>, files[1][2] \in {"update", "close"}
  PROVE  LET h == files[1][1]
         IN /\ h \in Handlers /\ msg[h].file \in Files \cup {"none"}
            /\ Size \in Nat \ {0} /\ Line[1] = msg[h] /\ pc[h] = files[1][2]
            /\ \A f \in Files : msg[h].file = f
                 => /\ Text(Line[1], f) /\ Follows(text_buffers[f], msg[h])
                    /\ Leads(Taken, Size, f, Result(msg[h]), doc[f])
            /\ \A f \in Files : msg[h].file # f
                 => ~Text(Line[1], f)
            /\ \A f : ~Text(Taken[1], f)
            /\ \A i \in 2 .. Size : Taken[i] = Line[i]
<1> DEFINE h == files[1][1]
<1>1. /\ Len(files) \in Nat \ {0} /\ 1 \in 1 .. Len(files) /\ h \in Handlers
      /\ Len(inbox) \in Nat /\ TypeOK /\ Requests /\ Tasks
  BY HolderFacts DEF IInv, TypeOK
<1>2. Size \in Nat \ {0} /\ 1 \in 1 .. Size /\ 1 <= Len(files)
  BY <1>1 DEF Size
<1>3. Line[1] = msg[h]
  BY <1>1, <1>2 DEF Line
<1>4. pc[h] = files[1][2]
  <2>1. pc[h] = files[1][2] \/ pc[h] \in Keeps(files[1][2])
    BY <1>1 DEF Requests
  <2>2. Keeps(files[1][2]) = {}
    BY DEF Keeps
  <2> QED BY <2>1, <2>2
<1>5. \/ msg[h].kind \in {"open", "change", "close"}
      \/ msg[h].kind = "save" /\ msg[h].flag
  BY <1>1, <1>4 DEF Tasks
<1>6. msg[h].file \in Files \cup {"none"}
  BY <1>1 DEF TypeOK, Message
<1>7. Taken[1] = NoMsg /\ \A i \in 2 .. Size : Taken[i] = Line[i]
  BY <1>2 DEF Taken
<1>8. \A f : ~Text(Taken[1], f)
  BY <1>7 DEF Text, NoMsg
<1>9. ASSUME NEW f \in Files, msg[h].file = f
      PROVE  /\ Text(Line[1], f) /\ Follows(text_buffers[f], msg[h])
             /\ Leads(Taken, Size, f, Result(msg[h]), doc[f])
  <2>1. Text(Line[1], f)
    BY <1>3, <1>5, <1>9 DEF Text
  <2>2. Leads(Line, Size, f, text_buffers[f], doc[f])
    BY DEF IInv, TextsFollow
  <2>3. \A i \in 1 .. 1 - 1 : ~Text(Line[i], f)
    OBVIOUS
  <2>4. Follows(text_buffers[f], Line[1])
    BY <2>1, <2>2, <2>3, <1>2 DEF Leads
  <2>5. Leads(Taken, Size, f, Result(Line[1]), doc[f])
    BY <2>1, <2>2, <1>2, <1>7, <1>8, LeadsConsume
  <2> QED BY <2>1, <2>4, <2>5, <1>3
<1>10. ASSUME NEW f \in Files, msg[h].file # f
       PROVE  ~Text(Line[1], f)
  BY <1>3, <1>10 DEF Text
<1> QED BY <1>1, <1>2, <1>3, <1>4, <1>6, <1>7, <1>8, <1>9, <1>10

LEMMA UpdateIInv ==
  ASSUME IInv, NEW h \in Handlers, Update(h)
  PROVE  IInv'
<1> DEFINE F == msg[h].file
<1>1. /\ pc[h] = "update" /\ pc' = [pc EXCEPT ![h] = "snapshot"]
      /\ text_buffers' = [text_buffers EXCEPT ![F] = NewText(msg[h])]
      /\ UNCHANGED <<workspace, disk, doc, count, inbox, msg, snap, caches, definitions, diagnostics,
                     clock>>
  BY DEF Update, Goto, client
<1>2. /\ files # <<>> /\ files[1][1] = h /\ files[1][2] = "update"
      /\ files' = Append(Tail(files), <<h, "snapshot">>)
  BY HoldsFiles DEF IInv, Update
<1>3. /\ Size \in Nat \ {0} /\ Line[1] = msg[h]
      /\ \A f \in Files : F = f
           => /\ Text(Line[1], f) /\ Follows(text_buffers[f], msg[h])
              /\ Leads(Taken, Size, f, Result(msg[h]), doc[f])
      /\ \A f \in Files : F # f => ~Text(Line[1], f)
      /\ \A f : ~Text(Taken[1], f)
      /\ \A i \in 2 .. Size : Taken[i] = Line[i]
  BY <1>2, TakeFirst
<1>4. /\ TypeOK /\ Requests /\ Tasks /\ InOrder
      /\ msg[h] \in Message /\ text_buffers \in [Files -> Int] /\ pc \in [Handlers -> Stages]
  BY DEF IInv, TypeOK
<1>5. ASSUME NEW f \in Files, F = f
      PROVE  text_buffers'[f] = Result(msg[h])
  <2>1. Text(msg[h], f) /\ Follows(text_buffers[f], msg[h]) /\ msg[h].kind # "close"
    BY <1>1, <1>3, <1>4, <1>5 DEF Tasks
  <2>2. text_buffers'[f] = NewText(msg[h])
    BY <1>1, <1>4, <1>5
  <2>3. CASE msg[h].kind = "open"
    BY <2>3, <2>2 DEF NewText, Result
  <2>4. CASE msg[h].kind = "save"
    BY <2>4, <2>1, <2>2, <1>5 DEF NewText, Result, Follows
  <2>5. CASE msg[h].kind = "change"
    BY <2>5, <2>1, <2>2, <1>5 DEF NewText, Result, Follows
  <2> QED BY <2>1, <2>3, <2>4, <2>5 DEF Text
<1>6. ASSUME NEW f \in Files, F # f
      PROVE  text_buffers'[f] = text_buffers[f]
  BY <1>1, <1>4, <1>6
<1>7. text_buffers' \in [Files -> Int]
  <2>1. Result(msg[h]) \in Int
    BY <1>4 DEF Result, NoText, Message
  <2>2. \A f \in Files : text_buffers'[f] \in Int
    BY <2>1, <1>4, <1>5, <1>6
  <2>3. text_buffers' = [f \in Files |-> text_buffers'[f]]
    BY <1>1, <1>4
  <2> QED BY <2>2, <2>3
<1>8. Requests' /\ files' \in Seq(Handlers \X FilesStages)
  <2>1. "snapshot" \in FilesStages
    BY DEF FilesStages
  <2> QED BY <2>1, <1>1, <1>2, <1>4, RequeueRequests
<1>9. TypeOK'
  <2>1. pc' \in [Handlers -> Stages]
    BY <1>1, <1>4 DEF Stages, FilesStages
  <2> QED BY <2>1, <1>1, <1>4, <1>7, <1>8 DEF TypeOK
<1>10. Tasks'
  BY <1>1, <1>4 DEF Tasks
<1>11. InOrder'
  BY <1>1, <1>2, <1>4, RequeueOrder
<1>12. ASSUME NEW f \in Files
       PROVE  /\ Leads(Line', Size', f, text_buffers'[f], doc[f])
              /\ F # f => (Pending(f) => Pending(f)')
  <2>0. "snapshot" \notin {"update", "close"} /\ \A i \in 2 .. Len(files) : msg'[files[i][1]] = msg[files[i][1]]
    BY <1>1
  <2>1. CASE F = f
    <3>1. Leads(Taken, Size, f, text_buffers'[f], doc[f])
      BY <2>1, <1>3, <1>5
    <3> QED BY <3>1, <2>0, <2>1, <1>1, <1>2, <1>3, <1>4, RequeueLine
  <2>2. CASE F # f
    <3>1. Leads(Line, Size, f, text_buffers'[f], doc[f])
      BY <2>2, <1>6 DEF IInv, TextsFollow
    <3> QED BY <3>1, <2>0, <2>2, <1>1, <1>2, <1>3, <1>4, RequeueLine DEF Pending
  <2> QED BY <2>1, <2>2
<1>13. TextsFollow'
  <2> SUFFICES ASSUME NEW f \in Files PROVE Leads(Line', Size', f, text_buffers'[f], doc'[f])
    BY DEF TextsFollow, Leads
  <2> QED BY <1>1, <1>12
<1>14. ResultsFollow'
  <2> SUFFICES ASSUME NEW f \in Files, Settled(f)'
               PROVE  /\ NewestHas(Caching(f), f, doc[f], caches[f].ver)'
                      /\ NewestHas(Reporting(f), f, doc[f], diagnostics[f])'
    BY DEF ResultsFollow
  <2>0. pc'[h] = "snapshot" /\ \A q \in Handlers \ {h} : pc'[q] = pc[q]
    BY <1>1, <1>4
  <2>1. F # f
    BY <2>0, <1>1 DEF Settled
  <2>2. Settled(f)
    <3>1. doc[f] # NoText /\ ~Pending(f)'
      BY <1>1 DEF Settled
    <3>2. ~Pending(f)
      BY <2>1, <3>1, <1>12
    <3>3. \A q \in Handlers : ~(pc[q] = "snapshot" /\ msg[q].file = f)
      BY <2>0, <1>1 DEF Settled
    <3> QED BY <3>1, <3>2, <3>3 DEF Settled
  <2>3. \A q \in Handlers : /\ (pc'[q] = "insert") <=> (pc[q] = "insert")
                            /\ (pc'[q] = "merge") <=> (pc[q] = "merge")
                            /\ pc[q] \in {"insert", "merge"}
                                 => msg'[q] = msg[q] /\ snap'[q] = snap[q]
    BY <1>1, <2>0
  <2> QED BY <1>1, <2>2, <2>3, SameResults DEF IInv
<1> QED BY <1>8, <1>9, <1>10, <1>11, <1>13, <1>14 DEF IInv

LEMMA DidCloseIInv ==
  ASSUME IInv, NEW h \in Handlers, DidClose(h)
  PROVE  IInv'
<1> DEFINE F == msg[h].file
<1>1. /\ pc[h] = "close" /\ pc' = [pc EXCEPT ![h] = "cleared"]
      /\ caches' = [caches EXCEPT ![F] = NoCache]
      /\ text_buffers' = [text_buffers EXCEPT ![F] = NoText]
      /\ diagnostics' = [diagnostics EXCEPT ![F] = NoText]
      /\ UNCHANGED <<workspace, disk, doc, count, inbox, msg, snap, definitions, clock>>
  BY DEF DidClose, Goto, client
<1>2. /\ files # <<>> /\ files[1][1] = h /\ files[1][2] = "close" /\ files' = Tail(files)
  BY HoldsFiles DEF IInv, DidClose
<1>3. /\ Size \in Nat \ {0} /\ Line[1] = msg[h]
      /\ \A f \in Files : F = f
           => /\ Text(Line[1], f) /\ Follows(text_buffers[f], msg[h])
              /\ Leads(Taken, Size, f, Result(msg[h]), doc[f])
      /\ \A f \in Files : F # f => ~Text(Line[1], f)
      /\ \A f : ~Text(Taken[1], f)
      /\ \A i \in 2 .. Size : Taken[i] = Line[i]
  BY <1>2, TakeFirst
<1>4. /\ TypeOK /\ Requests /\ Tasks /\ InOrder
      /\ text_buffers \in [Files -> Int] /\ pc \in [Handlers -> Stages]
      /\ caches = [f \in Files |-> caches[f]] /\ diagnostics = [f \in Files |-> diagnostics[f]]
  BY DEF IInv, TypeOK
<1>5. Result(msg[h]) = NoText
  BY <1>1, <1>4 DEF Tasks, Result
<1>6. \A f \in Files : F = f
        => text_buffers'[f] = NoText /\ caches'[f] = NoCache
  BY <1>1, <1>4
<1>7. \A f \in Files : F # f
        => text_buffers'[f] = text_buffers[f] /\ caches'[f] = caches[f] /\ diagnostics'[f] = diagnostics[f]
  BY <1>1, <1>4
<1>8. Requests' /\ files' \in Seq(Handlers \X FilesStages)
  <2>1. "cleared" \notin FilesStages \cup KeepStages
    BY DEF FilesStages, KeepStages
  <2> QED BY <2>1, <1>1, <1>2, <1>4, PopRequests
<1>9. TypeOK'
  <2>1. pc' \in [Handlers -> Stages]
    BY <1>1, <1>4 DEF Stages, FilesStages
  <2>2. text_buffers' \in [Files -> Int]
    <3>1. \A f \in Files : text_buffers'[f] \in Int
      BY <1>4, <1>6, <1>7 DEF NoText
    <3>2. text_buffers' = [f \in Files |-> text_buffers'[f]]
      BY <1>1, <1>4
    <3> QED BY <3>1, <3>2
  <2>3. caches' = [f \in Files |-> caches'[f]] /\ diagnostics' = [f \in Files |-> diagnostics'[f]]
    BY <1>1, <1>4
  <2>4. ASSUME NEW f \in Files PROVE caches'[f].at \in Nat
    <3>1. CASE F = f
      <4>1. caches'[f] = NoCache
        BY <3>1, <1>6
      <4> QED BY <4>1 DEF NoCache
    <3>2. CASE F # f
      <4>1. caches'[f] = caches[f]
        BY <3>2, <1>7
      <4> QED BY <4>1, <1>4 DEF TypeOK
    <3> QED BY <3>1, <3>2
  <2> QED BY <2>1, <2>2, <2>3, <2>4, <1>1, <1>4, <1>8 DEF TypeOK
<1>10. Tasks'
  BY <1>1, <1>4 DEF Tasks
<1>11. InOrder'
  <2> DEFINE g == [j \in 1 .. Len(files') |-> j + 1]
  <2>1. /\ Len(files) \in Nat \ {0} /\ Len(files') = Len(files) - 1
        /\ \A j \in 1 .. Len(files') : files'[j] = files[j + 1] /\ j + 1 \in 1 .. Len(files)
    BY <1>2, <1>4 DEF TypeOK
  <2>2. \A j \in 1 .. Len(files') : files'[j][2] = "insert"
          => /\ g[j] \in 1 .. Len(files) /\ files[g[j]] = files'[j]
             /\ snap'[files'[j][1]] = snap[files'[j][1]]
    BY <2>1, <1>1
  <2>3. \A i, j \in 1 .. Len(files') :
          i < j /\ files'[i][2] = "insert" /\ files'[j][2] = "insert" => g[i] < g[j]
    BY <2>1
  <2>4. \A f \in Files : caches'[f].at = caches[f].at \/ caches'[f].at = 0
    BY <1>6, <1>7 DEF NoCache
  <2>5. Len(files') \in Nat
    BY <2>1
  <2> HIDE DEF g
  <2> QED BY <2>2, <2>3, <2>4, <2>5, <1>1, <1>4, SameOrder
<1>12. ASSUME NEW f \in Files
       PROVE  /\ Leads(Line', Size', f, text_buffers'[f], doc[f])
              /\ F # f => (Pending(f) => Pending(f)')
  <2>0. \A i \in 2 .. Len(files) : msg'[files[i][1]] = msg[files[i][1]]
    BY <1>1
  <2>1. CASE F = f
    <3>1. Leads(Taken, Size, f, text_buffers'[f], doc[f])
      BY <2>1, <1>3, <1>5, <1>6
    <3> QED BY <3>1, <2>0, <2>1, <1>1, <1>2, <1>3, <1>4, PopLine
  <2>2. CASE F # f
    <3>1. Leads(Line, Size, f, text_buffers'[f], doc[f])
      BY <2>2, <1>7 DEF IInv, TextsFollow
    <3> QED BY <3>1, <2>0, <2>2, <1>1, <1>2, <1>3, <1>4, PopLine DEF Pending
  <2> QED BY <2>1, <2>2
<1>13. TextsFollow'
  <2> SUFFICES ASSUME NEW f \in Files PROVE Leads(Line', Size', f, text_buffers'[f], doc'[f])
    BY DEF TextsFollow, Leads
  <2> QED BY <1>1, <1>12
<1>14. ResultsFollow'
  <2> SUFFICES ASSUME NEW f \in Files, Settled(f)'
               PROVE  /\ NewestHas(Caching(f), f, doc[f], caches[f].ver)'
                      /\ NewestHas(Reporting(f), f, doc[f], diagnostics[f])'
    BY DEF ResultsFollow
  <2>0. pc'[h] = "cleared" /\ \A q \in Handlers \ {h} : pc'[q] = pc[q]
    BY <1>1, <1>4
  <2>1. doc[f] # NoText /\ ~Pending(f)'
    BY <1>1 DEF Settled
  <2>2. F # f
    <3>1. SUFFICES ASSUME F = f PROVE FALSE
      OBVIOUS
    <3>2. Leads(Line', Size', f, text_buffers'[f], doc[f])
      BY <1>12
    <3>3. \A i \in 1 .. Size' : ~Text(Line'[i], f)
      BY <2>1 DEF Pending
    <3>4. text_buffers'[f] = doc[f]
      BY <3>2, <3>3 DEF Leads
    <3> QED BY <3>1, <3>4, <2>1, <1>6
  <2>3. Settled(f)
    <3>1. ~Pending(f)
      BY <2>1, <2>2, <1>12
    <3>2. \A q \in Handlers : ~(pc[q] = "snapshot" /\ msg[q].file = f)
      BY <2>0, <1>1 DEF Settled
    <3> QED BY <2>1, <3>1, <3>2 DEF Settled
  <2>4. \A q \in Handlers : /\ (pc'[q] = "insert") <=> (pc[q] = "insert")
                            /\ (pc'[q] = "merge") <=> (pc[q] = "merge")
                            /\ pc[q] \in {"insert", "merge"}
                                 => msg'[q] = msg[q] /\ snap'[q] = snap[q]
    BY <1>1, <2>0
  <2>5. caches'[f].ver = caches[f].ver /\ diagnostics'[f] = diagnostics[f]
    BY <2>2, <1>7
  <2> QED BY <1>1, <2>3, <2>4, <2>5, SameResults DEF IInv
<1> QED BY <1>8, <1>9, <1>10, <1>11, <1>13, <1>14 DEF IInv

\* A file that no message is pending for has the text of the editor.
LEMMA TextSettled ==
  ASSUME TextsFollow, NEW f \in Files, ~Pending(f)
  PROVE  text_buffers[f] = doc[f]
<1>1. Leads(Line, Size, f, text_buffers[f], doc[f])
  BY DEF TextsFollow
<1>2. \A i \in 1 .. Size : ~Text(Line[i], f)
  BY DEF Pending
<1> QED BY <1>1, <1>2 DEF Leads

\* parse_file takes its snapshot: it is the newest.
LEMMA SnapshotIInv ==
  ASSUME IInv, NEW h \in Handlers, Snapshot(h)
  PROVE  IInv'
<1> DEFINE F == msg[h].file
           N == Namespace(F)
<1>1. /\ pc[h] = "snapshot" /\ pc' = [pc EXCEPT ![h] = "insert"] /\ clock' = clock + 1
      /\ snap' = [snap EXCEPT ![h] = [text |-> [f \in N |-> FileText(f)], at |-> clock + 1]]
      /\ UNCHANGED <<workspace, disk, doc, count, inbox, msg, text_buffers, caches, definitions,
                     diagnostics>>
  BY DEF Snapshot, Goto, client
<1>2. /\ files # <<>> /\ files[1][1] = h /\ files[1][2] = "snapshot"
      /\ files' = Append(Tail(files), <<h, "insert">>)
  BY HoldsFiles DEF IInv, Snapshot
<1>3. /\ TypeOK /\ Requests /\ Tasks /\ InOrder /\ TextsFollow /\ ResultsFollow
      /\ snap = [q \in Handlers |-> snap[q]] /\ (\A q \in Handlers : snap[q].at \in Nat)
      /\ clock \in Nat /\ pc \in [Handlers -> Stages] /\ (\A f \in Files : caches[f].at \in Nat)
  BY DEF IInv, TypeOK
<1>4. /\ snap'[h].text = [f \in N |-> FileText(f)] /\ snap'[h].at = clock + 1
      /\ \A q \in Handlers \ {h} : snap'[q] = snap[q]
      /\ snap' = [q \in Handlers |-> snap'[q]]
  BY <1>1, <1>3
<1>5. pc'[h] = "insert" /\ \A q \in Handlers \ {h} : pc'[q] = pc[q]
  BY <1>1, <1>3
<1>6. Requests' /\ files' \in Seq(Handlers \X FilesStages)
  <2>1. "insert" \in FilesStages
    BY DEF FilesStages
  <2> QED BY <2>1, <1>1, <1>2, <1>3, RequeueRequests
<1>7. TypeOK'
  <2>1. pc' \in [Handlers -> Stages]
    BY <1>1, <1>3 DEF Stages, FilesStages
  <2>2. \A q \in Handlers : snap'[q].at \in Nat
    BY <1>3, <1>4
  <2> QED BY <2>1, <2>2, <1>1, <1>3, <1>4, <1>6 DEF TypeOK
<1>8. Tasks'
  BY <1>1, <1>3 DEF Tasks
<1>9. /\ Len(files) \in Nat \ {0}
      /\ \A j \in 1 .. Len(files) - 1 :
           /\ files'[j] = files[j + 1] /\ j + 1 \in 1 .. Len(files)
           /\ files[j + 1][1] \in Handlers \ {h}
      /\ files'[Len(files)] = <<h, "insert">>
      /\ Len(files') = Len(files)
  BY <1>2, <1>3, HolderFacts, SMTT(30) DEF TypeOK
<1>10. InOrder'
  <2>1. \A j \in 1 .. Len(files) - 1 :
          files'[j] = files[j + 1] /\ snap'[files'[j][1]] = snap[files[j + 1][1]]
    BY <1>4, <1>9
  <2>2. snap'[files'[Len(files)][1]].at = clock + 1
    BY <1>4, <1>9
  <2>3. \A j \in 1 .. Len(files) - 1 : files'[j][2] = "insert"
          => snap'[files'[j][1]].at <= clock /\ snap'[files'[j][1]].at \in Nat
    BY <2>1, <1>3, <1>9 DEF InOrder
  <2>4. ASSUME NEW i \in 1 .. Len(files), NEW j \in 1 .. Len(files),
               i < j, files'[i][2] = "insert", files'[j][2] = "insert"
        PROVE  snap'[files'[i][1]].at < snap'[files'[j][1]].at
    <3>1. i \in 1 .. Len(files) - 1
      BY <2>4, <1>9
    <3>2. CASE j = Len(files)
      BY <3>1, <3>2, <2>2, <2>3, <2>4, <1>3
    <3>3. CASE j # Len(files)
      <4>1. j \in 1 .. Len(files) - 1
        BY <3>3, <1>9
      <4>2. i + 1 \in 1 .. Len(files) /\ j + 1 \in 1 .. Len(files) /\ i + 1 < j + 1
        BY <4>1, <3>1, <2>4, <1>9
      <4>3. files[i + 1][2] = "insert" /\ files[j + 1][2] = "insert"
        BY <4>1, <3>1, <2>1, <2>4
      <4>4. snap[files[i + 1][1]].at < snap[files[j + 1][1]].at
        BY <4>2, <4>3, <1>3 DEF InOrder
      <4> QED BY <4>1, <4>4, <3>1, <2>1
    <3> QED BY <3>2, <3>3
  <2>5. ASSUME NEW i \in 1 .. Len(files), files'[i][2] = "insert"
        PROVE  /\ snap'[files'[i][1]].at <= clock + 1
               /\ \A f \in Files : caches[f].at <= snap'[files'[i][1]].at
    <3>1. CASE i = Len(files)
      <4>1. \A f \in Files : caches[f].at <= clock
        BY <1>3 DEF InOrder
      <4>2. snap'[files'[i][1]].at = clock + 1
        BY <3>1, <2>2
      <4> QED BY <4>1, <4>2, <1>3
    <3>2. CASE i # Len(files)
      <4>1. i \in 1 .. Len(files) - 1 /\ i + 1 \in 1 .. Len(files)
        BY <3>2, <1>9
      <4>2. files[i + 1][2] = "insert"
        BY <4>1, <2>1, <2>5
      <4>3. \A f \in Files : caches[f].at <= snap[files[i + 1][1]].at
        BY <4>1, <4>2, <1>3 DEF InOrder
      <4> QED BY <4>1, <4>3, <2>1, <2>3, <2>5, <1>3
    <3> QED BY <3>1, <3>2
  <2>6. \A f \in Files : caches[f].at <= clock + 1
    BY <1>3 DEF InOrder
  <2> QED BY <2>4, <2>5, <2>6, <1>1, <1>9 DEF InOrder
<1>11. ASSUME NEW f \in Files
       PROVE  /\ Leads(Line', Size', f, text_buffers[f], doc[f])
              /\ Pending(f) => Pending(f)'
  <2>1. Leads(Line, Size, f, text_buffers[f], doc[f])
    BY <1>3 DEF TextsFollow
  <2>2. ~Text(Line[1], f)
    <3>1. 1 \in 1 .. Size /\ 1 <= Len(files)
      BY <1>3, <1>9 DEF Size, TypeOK
    <3>2. Line[1] = NoMsg
      BY <3>1, <1>2 DEF Line
    <3> QED BY <3>2 DEF Text, NoMsg
  <2>3. "insert" \notin {"update", "close"} /\ \A i \in 2 .. Len(files) : msg'[files[i][1]] = msg[files[i][1]]
    BY <1>1
  <2> QED BY <2>1, <2>2, <2>3, <1>1, <1>2, <1>3, RequeueLine DEF Pending
<1>12. TextsFollow'
  <2> SUFFICES ASSUME NEW f \in Files PROVE Leads(Line', Size', f, text_buffers'[f], doc'[f])
    BY DEF TextsFollow, Leads
  <2> QED BY <1>1, <1>11
<1> HIDE DEF N
<1>13. ResultsFollow'
  <2> SUFFICES ASSUME NEW f \in Files, Settled(f)'
               PROVE  /\ NewestHas(Caching(f), f, doc[f], caches[f].ver)'
                      /\ NewestHas(Reporting(f), f, doc[f], diagnostics[f])'
    BY DEF ResultsFollow
  <2>1. doc[f] # NoText /\ ~Pending(f)
    BY <1>1, <1>11 DEF Settled
  <2>2. FileText(f) = doc[f]
    BY <2>1, <1>3, TextSettled DEF FileText
  <2>3. \A q \in Handlers : pc'[q] = "insert" /\ q # h => snap'[q].at < snap'[h].at
    <3> SUFFICES ASSUME NEW q \in Handlers, pc[q] = "insert", q # h
                 PROVE  snap[q].at < clock + 1
      BY <1>4, <1>5
    <3>1. PICK i \in 1 .. Len(files) : files[i][1] = q
      BY <1>3 DEF Requests, FilesStages
    <3>2. i # 1
      BY <3>1, <1>2
    <3>3. files[i][2] = "insert"
      BY <3>1, <3>2, <1>3 DEF Requests
    <3> QED BY <3>1, <3>3, <1>3 DEF InOrder
  <2>4. \A q \in Handlers : pc[q] # "merge" /\ pc'[q] # "merge"
    <3>1. \A q \in Handlers : pc[q] # "merge"
      BY <1>1, <1>2, <1>3, KeeperHolds DEF KeepStages
    <3> QED BY <3>1, <1>5
  <2>5. f # F => Settled(f)
    <3>1. \A q \in Handlers : ~(pc'[q] = "snapshot" /\ msg[q].file = f)
      BY <1>1 DEF Settled
    <3> QED BY <2>1, <3>1, <1>5 DEF Settled
  <2>6. /\ Caching(f)' = {q \in Handlers : pc'[q] = "insert" /\ f \in Namespace(msg[q].file)}
        /\ Reporting(f)' = {q \in Handlers : pc'[q] = "insert" /\ msg[q].file = f}
        /\ Reporting(f) = {q \in Handlers : pc[q] = "insert" /\ msg[q].file = f}
    BY <2>4, <1>1 DEF Caching, Reporting, Namespace
  <2>7. NewestHas(Caching(f), f, doc[f], caches[f].ver)'
    <3>1. CASE f \in N
      <4>1. h \in Caching(f)'
        BY <3>1, <2>6, <1>5 DEF N
      <4>2. snap'[h].text[f] = doc[f]
        BY <3>1, <2>2, <1>4
      <4>3. ASSUME NEW q \in Caching(f)', \A g \in Caching(f)' : snap'[g].at <= snap'[q].at
            PROVE  q = h
        <5>1. q \in Handlers /\ pc'[q] = "insert" /\ snap'[h].at <= snap'[q].at
          BY <4>1, <4>3, <2>6
        <5>2. snap'[q].at \in Nat /\ snap'[h].at \in Nat
          BY <5>1, <1>7 DEF TypeOK
        <5> QED BY <5>1, <5>2, <2>3
      <4> QED BY <4>1, <4>2, <4>3, <1>1 DEF NewestHas
    <3>2. CASE f \notin N
      <4>1. f # F
        BY <3>2 DEF N, Namespace
      <4>2. Caching(f)' = Caching(f) /\ h \notin Caching(f)
        BY <3>2, <2>6, <1>1, <1>5 DEF Caching, N
      <4>3. NewestHas(Caching(f), f, doc[f], caches[f].ver)
        BY <4>1, <2>5, <1>3 DEF ResultsFollow
      <4>4. \A q \in Caching(f) : snap'[q] = snap[q]
        BY <4>2, <1>4 DEF Caching
      <4> QED BY <4>2, <4>3, <4>4, <1>1 DEF NewestHas
    <3> QED BY <3>1, <3>2
  <2>8. NewestHas(Reporting(f), f, doc[f], diagnostics[f])'
    <3>1. CASE f = F
      <4>1. h \in Reporting(f)'
        BY <3>1, <2>6, <1>5
      <4>2. snap'[h].text[f] = doc[f]
        <5>1. f \in N
          BY <3>1 DEF N, Namespace
        <5> QED BY <5>1, <2>2, <1>4
      <4>3. ASSUME NEW q \in Reporting(f)', \A g \in Reporting(f)' : snap'[g].at <= snap'[q].at
            PROVE  q = h
        <5>1. q \in Handlers /\ pc'[q] = "insert" /\ snap'[h].at <= snap'[q].at
          BY <4>1, <4>3, <2>6
        <5>2. snap'[q].at \in Nat /\ snap'[h].at \in Nat
          BY <5>1, <1>7 DEF TypeOK
        <5> QED BY <5>1, <5>2, <2>3
      <4> QED BY <4>1, <4>2, <4>3, <1>1 DEF NewestHas
    <3>2. CASE f # F
      <4>1. Reporting(f)' = Reporting(f) /\ h \notin Reporting(f)
        BY <3>2, <2>6, <1>1, <1>5
      <4>2. NewestHas(Reporting(f), f, doc[f], diagnostics[f])
        BY <3>2, <2>5, <1>3 DEF ResultsFollow
      <4>3. \A q \in Reporting(f) : snap'[q] = snap[q]
        BY <4>1, <1>4 DEF Reporting
      <4> QED BY <4>1, <4>2, <4>3, <1>1 DEF NewestHas
    <3> QED BY <3>1, <3>2
  <2> QED BY <2>7, <2>8
<1> QED BY <1>6, <1>7, <1>8, <1>10, <1>12, <1>13 DEF IInv

\* The parse that holds `files` has the oldest snapshot of those that wait.
LEMMA Oldest ==
  ASSUME IInv, files # <<>>, files[1][2] = "insert",
         NEW q \in Handlers, pc[q] = "insert", q # files[1][1]
  PROVE  snap[files[1][1]].at < snap[q].at
<1>1. TypeOK /\ Requests /\ InOrder /\ 1 \in 1 .. Len(files)
  BY HolderFacts DEF IInv
<1>2. PICK i \in 1 .. Len(files) : files[i][1] = q
  BY <1>1 DEF Requests, FilesStages
<1>3. i # 1 /\ 1 < i
  BY <1>1, <1>2 DEF TypeOK
<1>4. files[i][2] = "insert"
  BY <1>1, <1>2, <1>3 DEF Requests
<1> QED BY <1>1, <1>2, <1>3, <1>4 DEF InOrder

\* The oldest parse stores what it has; what is left is still right.
LEMMA NewestLeft ==
  ASSUME NEW H, NEW f, NEW v, NEW shown, NEW h \in H, NewestHas(H, f, v, shown),
         \A q \in H : snap[q].at \in Nat,
         \A q \in H \ {h} : snap[h].at < snap[q].at
  PROVE  NewestHas(H \ {h}, f, v, snap[h].text[f])
<1>1. ASSUME NEW q \in H \ {h}, \A g \in H \ {h} : snap[g].at <= snap[q].at
      PROVE  snap[q].text[f] = v
  <2>1. snap[h].at <= snap[q].at
    BY <1>1
  <2>2. \A g \in H : snap[g].at <= snap[q].at
    BY <2>1, <1>1
  <2> QED BY <2>2 DEF NewestHas
<1>2. ASSUME H \ {h} = {}
      PROVE  snap[h].text[f] = v
  <2>1. \A g \in H : g = h
    BY <1>2
  <2>2. \A g \in H : snap[g].at <= snap[h].at
    BY <2>1
  <2> QED BY <2>2 DEF NewestHas
<1> QED BY <1>1, <1>2 DEF NewestHas

LEMMA InsertIInv ==
  ASSUME IInv, NEW h \in Handlers, Insert(h)
  PROVE  IInv'
<1> DEFINE F == msg[h].file
           N == Namespace(F)
<1>1. /\ pc[h] = "insert" /\ pc' = [pc EXCEPT ![h] = "merge"]
      /\ caches' = [f \in Files |->
                      IF f \in N THEN [ver |-> snap[h].text[f], top |-> F, text |-> snap[h].text,
                                       at |-> snap[h].at]
                      ELSE caches[f]]
      /\ UNCHANGED <<workspace, disk, doc, count, inbox, msg, snap, text_buffers, definitions,
                     diagnostics, clock, files>>
  BY DEF Insert, Goto, client
<1>2. files # <<>> /\ files[1][1] = h /\ files[1][2] = "insert"
  BY HoldsFiles DEF IInv, Insert
<1> HIDE DEF N
<1>3. /\ TypeOK /\ Requests /\ Tasks /\ InOrder /\ TextsFollow /\ ResultsFollow
      /\ (\A q \in Handlers : snap[q].at \in Nat) /\ (\A f \in Files : caches[f].at \in Nat)
      /\ pc \in [Handlers -> Stages] /\ clock \in Nat /\ Len(files) \in Nat \ {0}
  BY <1>2 DEF IInv, TypeOK
<1>4. pc'[h] = "merge" /\ \A q \in Handlers \ {h} : pc'[q] = pc[q]
  BY <1>1, <1>3
<1>5. \A f \in Files : /\ f \in N => caches'[f].ver = snap[h].text[f] /\ caches'[f].at = snap[h].at
                       /\ f \notin N => caches'[f] = caches[f]
  BY <1>1
<1>6. Requests'
  <2>1. "merge" \in Keeps(files[1][2])
    BY <1>2 DEF Keeps
  <2> QED BY <2>1, <1>1, <1>2, <1>3, KeepRequests
<1>7. TypeOK'
  <2>1. pc' \in [Handlers -> Stages]
    BY <1>1, <1>3 DEF Stages
  <2>2. caches' = [f \in Files |-> caches'[f]] /\ \A f \in Files : caches'[f].at \in Nat
    BY <1>1, <1>3, <1>5
  <2> QED BY <2>1, <2>2, <1>1, <1>3 DEF TypeOK
<1>8. Tasks'
  BY <1>1, <1>3 DEF Tasks
<1>9. \A i \in 1 .. Len(files) : files[i][2] = "insert"
        => snap[h].at <= snap[files[i][1]].at /\ snap[files[i][1]].at <= clock
  <2> SUFFICES ASSUME NEW i \in 1 .. Len(files), files[i][2] = "insert"
               PROVE  snap[h].at <= snap[files[i][1]].at
    BY <1>3 DEF InOrder
  <2>1. CASE i = 1
    BY <2>1, <1>2, <1>3
  <2>2. CASE i # 1
    <3>1. 1 \in 1 .. Len(files) /\ 1 < i /\ files[i][1] \in Handlers
      BY <2>2, <1>3 DEF TypeOK
    <3>2. snap[files[1][1]].at < snap[files[i][1]].at
      BY <3>1, <1>2, <1>3 DEF InOrder
    <3> QED BY <3>1, <3>2, <1>2, <1>3
  <2> QED BY <2>1, <2>2
<1>10. InOrder'
  <2>1. \A i, j \in 1 .. Len(files) :
          i < j /\ files[i][2] = "insert" /\ files[j][2] = "insert"
            => snap[files[i][1]].at < snap[files[j][1]].at
    BY <1>3 DEF InOrder
  <2>2. ASSUME NEW f \in Files
        PROVE  /\ \A i \in 1 .. Len(files) : files[i][2] = "insert" => caches'[f].at <= snap[files[i][1]].at
               /\ caches'[f].at <= clock
    <3>1. CASE f \in N
      <4>1. caches'[f].at = snap[h].at
        BY <3>1, <1>5
      <4>2. snap[h].at <= clock
        BY <1>2, <1>3, <1>9
      <4> QED BY <4>1, <4>2, <1>9
    <3>2. CASE f \notin N
      <4>1. caches'[f] = caches[f]
        BY <3>2, <1>5
      <4> QED BY <4>1, <1>3 DEF InOrder
    <3> QED BY <3>1, <3>2
  <2> QED BY <2>1, <2>2, <1>1, <1>9 DEF InOrder
<1>11. Line' = Line /\ Size' = Size
  BY <1>1 DEF Line, Size
<1>12. TextsFollow'
  <2> SUFFICES ASSUME NEW f \in Files PROVE Leads(Line', Size', f, text_buffers'[f], doc'[f])
    BY DEF TextsFollow, Leads
  <2>1. Leads(Line, Size, f, text_buffers[f], doc[f])
    BY <1>3 DEF TextsFollow
  <2> QED BY <2>1, <1>1, <1>11
<1>13. ResultsFollow'
  <2> SUFFICES ASSUME NEW f \in Files, Settled(f)'
               PROVE  /\ NewestHas(Caching(f), f, doc[f], caches[f].ver)'
                      /\ NewestHas(Reporting(f), f, doc[f], diagnostics[f])'
    BY DEF ResultsFollow
  <2>1. Settled(f)
    <3>1. ~Pending(f)
      BY <1>11 DEF Settled, Pending
    <3>2. \A q \in Handlers : ~(pc[q] = "snapshot" /\ msg[q].file = f)
      BY <1>1, <1>4 DEF Settled
    <3> QED BY <3>1, <3>2, <1>1 DEF Settled
  <2>2. /\ NewestHas(Caching(f), f, doc[f], caches[f].ver)
        /\ NewestHas(Reporting(f), f, doc[f], diagnostics[f])
    BY <2>1, <1>3 DEF ResultsFollow
  <2>3. Reporting(f)' = Reporting(f)
    BY <1>1, <1>4 DEF Reporting
  <2>4. NewestHas(Reporting(f), f, doc[f], diagnostics[f])'
    BY <2>2, <2>3, <1>1 DEF NewestHas
  <2>5. /\ Caching(f)' = {q \in Handlers : pc'[q] = "insert" /\ f \in Namespace(msg[q].file)}
        /\ Caching(f) = {q \in Handlers : pc[q] = "insert" /\ f \in Namespace(msg[q].file)}
    BY <1>1 DEF Caching, Namespace
  <2>6. CASE f \in N
    <3>1. h \in Caching(f) /\ Caching(f)' = Caching(f) \ {h}
      BY <2>5, <2>6, <1>1, <1>4 DEF N
    <3>2. \A q \in Caching(f) : snap[q].at \in Nat
      BY <1>3 DEF Caching
    <3>3. \A q \in Caching(f) \ {h} : snap[h].at < snap[q].at
      BY <1>2, Oldest DEF Caching
    <3>4. NewestHas(Caching(f) \ {h}, f, doc[f], snap[h].text[f])
      BY <3>1, <3>2, <3>3, <2>2, NewestLeft
    <3>5. caches'[f].ver = snap[h].text[f]
      BY <2>6, <1>5
    <3>6. NewestHas(Caching(f), f, doc[f], caches[f].ver)'
      BY <3>1, <3>4, <3>5, <1>1 DEF NewestHas
    <3> QED BY <2>4, <3>6
  <2>7. CASE f \notin N
    <3>1. Caching(f)' = Caching(f)
      BY <2>5, <2>7, <1>1, <1>4 DEF N
    <3>2. caches'[f] = caches[f]
      BY <2>7, <1>5
    <3>3. NewestHas(Caching(f), f, doc[f], caches[f].ver)'
      BY <3>1, <3>2, <2>2, <1>1 DEF NewestHas
    <3> QED BY <2>4, <3>3
  <2> QED BY <2>6, <2>7
<1> QED BY <1>6, <1>7, <1>8, <1>10, <1>12, <1>13 DEF IInv

LEMMA MergeIInv ==
  ASSUME IInv, NEW h \in Handlers, Merge(h)
  PROVE  IInv'
<1> DEFINE F == msg[h].file
<1>1. /\ pc[h] = "merge" /\ pc' = [pc EXCEPT ![h] = "publish"]
      /\ diagnostics' = [diagnostics EXCEPT ![F] = snap[h].text[F]]
      /\ UNCHANGED <<workspace, disk, doc, count, inbox, msg, snap, text_buffers, caches, clock, files>>
  BY DEF Merge, Goto, client, locks
<1>2. /\ TypeOK /\ Requests /\ Tasks /\ InOrder /\ TextsFollow /\ ResultsFollow
      /\ (\A q \in Handlers : snap[q].at \in Nat) /\ pc \in [Handlers -> Stages]
      /\ diagnostics = [f \in Files |-> diagnostics[f]]
  BY DEF IInv, TypeOK
<1>3. files # <<>> /\ files[1][1] = h /\ files[1][2] = "insert"
  <2>1. files # <<>> /\ files[1][1] = h /\ "merge" \in Keeps(files[1][2])
    BY <1>1, <1>2, KeeperHolds DEF KeepStages
  <2> QED BY <2>1 DEF Keeps
<1>4. pc'[h] = "publish" /\ \A q \in Handlers \ {h} : pc'[q] = pc[q]
  BY <1>1, <1>2
<1>5. \A q \in Handlers : pc[q] = "merge" => q = h
  BY <1>2, <1>3, KeeperHolds DEF KeepStages
<1>6. Requests'
  <2>1. "publish" \in Keeps(files[1][2])
    BY <1>3 DEF Keeps
  <2> QED BY <2>1, <1>1, <1>2, <1>3, KeepRequests
<1>7. TypeOK'
  <2>1. pc' \in [Handlers -> Stages]
    BY <1>1, <1>2 DEF Stages
  <2>2. diagnostics' = [f \in Files |-> diagnostics'[f]]
    BY <1>1, <1>2
  <2> QED BY <2>1, <2>2, <1>1, <1>2 DEF TypeOK
<1>8. Tasks'
  BY <1>1, <1>2 DEF Tasks
<1>9. InOrder'
  BY <1>1, <1>2 DEF InOrder
<1>10. Line' = Line /\ Size' = Size
  BY <1>1 DEF Line, Size
<1>11. TextsFollow'
  <2> SUFFICES ASSUME NEW f \in Files PROVE Leads(Line', Size', f, text_buffers'[f], doc'[f])
    BY DEF TextsFollow, Leads
  <2>1. Leads(Line, Size, f, text_buffers[f], doc[f])
    BY <1>2 DEF TextsFollow
  <2> QED BY <2>1, <1>1, <1>10
<1>12. ResultsFollow'
  <2> SUFFICES ASSUME NEW f \in Files, Settled(f)'
               PROVE  /\ NewestHas(Caching(f), f, doc[f], caches[f].ver)'
                      /\ NewestHas(Reporting(f), f, doc[f], diagnostics[f])'
    BY DEF ResultsFollow
  <2>1. Settled(f)
    <3>1. ~Pending(f)
      BY <1>10 DEF Settled, Pending
    <3>2. \A q \in Handlers : ~(pc[q] = "snapshot" /\ msg[q].file = f)
      BY <1>1, <1>4 DEF Settled
    <3> QED BY <3>1, <3>2, <1>1 DEF Settled
  <2>2. /\ NewestHas(Caching(f), f, doc[f], caches[f].ver)
        /\ NewestHas(Reporting(f), f, doc[f], diagnostics[f])
    BY <2>1, <1>2 DEF ResultsFollow
  <2>3. Caching(f)' = Caching(f)
    BY <1>1, <1>4 DEF Caching, Namespace
  <2>4. NewestHas(Caching(f), f, doc[f], caches[f].ver)'
    BY <2>2, <2>3, <1>1 DEF NewestHas
  <2>5. /\ Reporting(f)' = {q \in Handlers : pc'[q] \in {"insert", "merge"} /\ msg[q].file = f}
        /\ Reporting(f) = {q \in Handlers : pc[q] \in {"insert", "merge"} /\ msg[q].file = f}
    BY <1>1 DEF Reporting
  <2>6. CASE f = F
    <3>1. h \in Reporting(f) /\ Reporting(f)' = Reporting(f) \ {h}
      BY <2>5, <2>6, <1>1, <1>4
    <3>2. \A q \in Reporting(f) : snap[q].at \in Nat
      BY <1>2 DEF Reporting
    <3>3. \A q \in Reporting(f) \ {h} : snap[h].at < snap[q].at
      <4> SUFFICES ASSUME NEW q \in Reporting(f) \ {h} PROVE snap[h].at < snap[q].at
        OBVIOUS
      <4>1. q \in Handlers /\ pc[q] = "insert" /\ q # h
        BY <2>5, <1>5
      <4> QED BY <4>1, <1>3, Oldest
    <3>4. NewestHas(Reporting(f) \ {h}, f, doc[f], snap[h].text[f])
      BY <3>1, <3>2, <3>3, <2>2, NewestLeft
    <3>5. diagnostics'[f] = snap[h].text[f]
      BY <2>6, <1>1, <1>2
    <3>6. NewestHas(Reporting(f), f, doc[f], diagnostics[f])'
      BY <3>1, <3>4, <3>5, <1>1 DEF NewestHas
    <3> QED BY <2>4, <3>6
  <2>7. CASE f # F
    <3>1. Reporting(f)' = Reporting(f)
      BY <2>5, <2>7, <1>4
    <3>2. diagnostics'[f] = diagnostics[f]
      BY <2>7, <1>1, <1>2
    <3>3. NewestHas(Reporting(f), f, doc[f], diagnostics[f])'
      BY <3>1, <3>2, <2>2, <1>1 DEF NewestHas
    <3> QED BY <2>4, <3>3
  <2> QED BY <2>6, <2>7
<1> QED BY <1>6, <1>7, <1>8, <1>9, <1>11, <1>12 DEF IInv
-----------------------------------------------------------------------------
LEMMA InitIInv ==
  ASSUME Init
  PROVE  IInv
<1>1. TypeOK
  <2>1. NoMsg \in Message /\ NoSnap.at \in Nat /\ NoCache.at \in Nat /\ NoText \in Int
    BY NoMsgOK DEF NoCache, NoText
  <2> QED BY <2>1 DEF Init, TypeOK, Stages
<1>2. Requests /\ Tasks
  BY DEF Init, Requests, Tasks, FilesStages, KeepStages
<1>3. InOrder
  <2>1. \A f \in Files : caches[f].at = 0
    BY DEF Init, NoCache
  <2> QED BY <2>1 DEF Init, InOrder
<1>4. Size = 0
  BY DEF Init, Size
<1>5. TextsFollow
  BY <1>4 DEF Init, TextsFollow, Leads
<1>6. ResultsFollow
  BY DEF Init, ResultsFollow, Settled
<1> QED BY <1>1, <1>2, <1>3, <1>5, <1>6 DEF IInv

LEMMA StutterIInv ==
  ASSUME IInv, UNCHANGED vars
  PROVE  IInv'
<1>1. UNCHANGED <<workspace, disk, doc, count, inbox, msg, pc, snap, found, text_buffers, caches,
                  definitions, diagnostics, clock, files, global_cache>>
  BY DEF vars, client, store, locks
<1>2. TypeOK' /\ Requests' /\ Tasks' /\ InOrder'
  BY <1>1 DEF IInv, TypeOK, Requests, Tasks, InOrder
<1>3. Line' = Line /\ Size' = Size
  BY <1>1 DEF Line, Size
<1>4. TextsFollow'
  BY <1>1, <1>3 DEF IInv, TextsFollow
<1>5. ResultsFollow'
  <2> SUFFICES ASSUME NEW f \in Files, Settled(f)'
               PROVE  /\ NewestHas(Caching(f), f, doc[f], caches[f].ver)'
                      /\ NewestHas(Reporting(f), f, doc[f], diagnostics[f])'
    BY DEF ResultsFollow
  <2>1. Settled(f)
    BY <1>1, <1>3 DEF Settled, Pending
  <2> QED BY <2>1, <1>1, SameResults DEF IInv
<1> QED BY <1>2, <1>4, <1>5 DEF IInv

LEMMA NextIInv ==
  ASSUME IInv, [Next]_vars
  PROVE  IInv'
<1>1. CASE Editor
  BY <1>1, EditorIInv
<1>2. ASSUME NEW h \in Handlers, Start(h)
      PROVE  IInv'
  BY <1>2, StartIInv
<1>3. ASSUME NEW h \in Handlers, Cancel(h)
      PROVE  IInv'
  BY <1>3, CancelIInv
<1>4. ASSUME NEW h \in Handlers, Handle(h)
      PROVE  IInv'
  <2>1. CASE Update(h) \/ Snapshot(h) \/ Insert(h) \/ Merge(h) \/ Publish(h)
    BY <2>1, UpdateIInv, SnapshotIInv, InsertIInv, MergeIInv, PublishIInv
  <2>2. CASE DidClose(h) \/ Cleared(h) \/ AnswerGoto(h)
    BY <2>2, DidCloseIInv, ReturnsIInv
  <2>3. CASE LookupReturns(h) \/ LookupCompletion(h) \/ LookupReference(h)
    BY <2>3, LookupReturnsIInv, LookupCompletionIInv, LookupReferenceIInv
  <2>4. CASE Collect(h) \/ AnswerBoth(h)
    BY <2>4, CollectIInv, AnswerBothIInv
  <2> QED BY <1>4, <2>1, <2>2, <2>3, <2>4 DEF Handle
<1>5. CASE UNCHANGED vars
  BY <1>5, StutterIInv
<1> QED BY <1>1, <1>2, <1>3, <1>4, <1>5 DEF Next

\* The requests for `files` name the handlers that wait; the parses among them
\* are in the order of their snapshots; the messages in the line lead from the
\* server's texts to the editor's; and the newest parse of a settled file has
\* the editor's text.
THEOREM LanguageServerInvariant == Spec => []IInv
<1>1. Init => IInv
  BY InitIInv
<1>2. IInv /\ [Next]_vars => IInv'
  BY NextIInv
<1> QED BY <1>1, <1>2, PTL DEF Spec

\* Once did_open, did_change, did_save and did_close have all returned, the
\* text, the cache and the diagnostics of every open file are the editor's,
\* whatever the imports and however the handlers interleaved.
THEOREM LanguageServerUpToDate == Spec => []UpToDate
<1>1. IInv => UpToDate
  <2> SUFFICES ASSUME IInv, Quiescent, NEW f \in Files
               PROVE  IF doc[f] = NoText THEN text_buffers[f] = NoText
                      ELSE /\ text_buffers[f] = doc[f]
                           /\ caches[f].ver = doc[f]
                           /\ diagnostics[f] = doc[f]
    BY DEF UpToDate
  <2>1. inbox = <<>> /\ \A h \in Handlers : pc[h] = "idle"
    BY DEF Quiescent
  <2>2. files = <<>>
    <3> SUFFICES ASSUME files # <<>> PROVE FALSE
      OBVIOUS
    <3>1. /\ 1 \in 1 .. Len(files) /\ files[1][1] \in Handlers /\ files[1][2] \in FilesStages
      BY HolderFacts DEF IInv
    <3>2. pc[files[1][1]] = files[1][2] \/ pc[files[1][1]] \in Keeps(files[1][2])
      BY <3>1 DEF IInv, Requests
    <3> QED BY <3>1, <3>2, <2>1 DEF Keeps, FilesStages
  <2>3. Size = 0
    BY <2>1, <2>2 DEF Size
  <2>4. ~Pending(f)
    BY <2>3 DEF Pending
  <2>5. text_buffers[f] = doc[f]
    BY <2>4, TextSettled DEF IInv
  <2>6. doc[f] # NoText => Settled(f)
    BY <2>1, <2>4 DEF Settled
  <2>7. Caching(f) = {} /\ Reporting(f) = {}
    BY <2>1 DEF Caching, Reporting
  <2> QED BY <2>5, <2>6, <2>7 DEF IInv, ResultsFollow, NewestHas
<1> QED BY <1>1, LanguageServerInvariant, PTL

\* parse_file never replaces the cache of a newer snapshot by an older one's:
\* the mutex serves the parses in the order they asked.
THEOREM LanguageServerNewestCacheStays == Spec => NewestCacheStays
<1> DEFINE A == \A f \in Files : caches[f] # NoCache /\ caches'[f] # NoCache
                                   => caches'[f].at >= caches[f].at
<1>1. IInv /\ [Next]_vars => [A]_vars
  <2> SUFFICES ASSUME IInv, Next, NEW f \in Files, caches'[f] # NoCache
               PROVE  caches'[f].at >= caches[f].at
    OBVIOUS
  <2>0. caches[f].at \in Nat /\ caches = [q \in Files |-> caches[q]]
    BY DEF IInv, TypeOK
  <2>1. ASSUME NEW h \in Handlers, Insert(h)
        PROVE  caches'[f].at >= caches[f].at
    <3>1. files # <<>> /\ files[1][1] = h /\ files[1][2] = "insert"
      BY <2>1, HoldsFiles DEF IInv, Insert
    <3>2. caches'[f].at = snap[h].at \/ caches'[f] = caches[f]
      BY <2>1 DEF Insert
    <3>3. caches[f].at <= snap[h].at /\ snap[h].at \in Nat
      <4>1. 1 \in 1 .. Len(files)
        BY <3>1, HolderFacts DEF IInv
      <4> QED BY <4>1, <3>1 DEF IInv, InOrder, TypeOK
    <3> QED BY <2>0, <3>2, <3>3
  <2>2. ASSUME NEW h \in Handlers, DidClose(h)
        PROVE  caches'[f].at >= caches[f].at
    <3>1. caches' = [caches EXCEPT ![msg[h].file] = NoCache]
      BY <2>2 DEF DidClose
    <3>2. caches'[f] = caches[f]
      BY <3>1, <2>0
    <3> QED BY <3>2, <2>0
  <2>3. CASE caches' = caches
    BY <2>3, <2>0
  <2>4. \/ caches' = caches
        \/ \E h \in Handlers : Insert(h) \/ DidClose(h)
    <3>1. CASE Editor
      <4>1. \A f1 \in Files : Open(f1) \/ Change(f1) \/ Close(f1) => UNCHANGED store
        BY DEF Open, Change, Close, Send
      <4>2. \A f1 \in Files, withText \in BOOLEAN : Save(f1, withText) => UNCHANGED store
        BY DEF Save, Send
      <4>3. \A kind, f1, flag : Ask(kind, f1, flag) => UNCHANGED store
        BY DEF Ask, Send
      <4>4. UNCHANGED store
        BY <3>1, <4>1, <4>2, <4>3, Zenon DEF Editor
      <4> QED BY <4>4 DEF store
    <3>2. ASSUME NEW h \in Handlers, Start(h) \/ Cancel(h)
          PROVE  caches' = caches
      BY <3>2 DEF Start, Cancel, store
    <3>3. ASSUME NEW h \in Handlers, Handle(h)
          PROVE  caches' = caches \/ Insert(h) \/ DidClose(h)
      BY <3>3 DEF Handle, Update, Snapshot, Merge, Publish, Cleared, LookupReturns, LookupCompletion,
                  LookupReference, AnswerGoto, Collect, AnswerBoth, store
    <3> QED BY <3>1, <3>2, <3>3 DEF Next
  <2> QED BY <2>1, <2>2, <2>3, <2>4
<1> QED BY <1>1, LanguageServerInvariant, PTL DEF Spec, NewestCacheStays

-----------------------------------------------------------------------------
(* The mutex `global_cache`.                                               *)

\* A handler that waits for `global_cache` has one request.  Those that hold
\* `files` as well come last: nobody can look up a reference behind them.
Waiting ==
  /\ global_cache \in Seq(Handlers \X {"merge", "suggest", "retain", "resolve"})
  /\ \A i, j \in 1 .. Len(global_cache) : global_cache[i][1] = global_cache[j][1] => i = j
  /\ \A i \in 1 .. Len(global_cache) :
       IF global_cache[i][2] = "resolve" THEN pc[global_cache[i][1]] = "resolve"
       ELSE i = Len(global_cache) /\ pc[global_cache[i][1]] \in KeepStages
  /\ \A h \in Handlers : pc[h] = "resolve"
       => \E i \in 1 .. Len(global_cache) : global_cache[i][1] = h
  /\ \A h \in Handlers : pc[h] = "publish" => global_cache # <<>> /\ global_cache[1][1] = h

\* The holder of `files` asks for `global_cache`: all before it look for a
\* definition.
LEMMA AppendWaiting ==
  ASSUME TypeOK, Requests, Waiting, NEW h \in Handlers, files # <<>>, files[1][1] = h,
         pc[h] \in FilesStages, NEW stage \in {"merge", "suggest", "retain", "resolve"},
         pc' = [pc EXCEPT ![h] = stage], global_cache' = Append(global_cache, <<h, stage>>)
  PROVE  Waiting'
<1> DEFINE G == global_cache
<1>0. pc \in [Handlers -> Stages] /\ G \in Seq(Handlers \X {"merge", "suggest", "retain", "resolve"})
  BY DEF TypeOK, Waiting
<1>1. ASSUME NEW i \in 1 .. Len(G)
      PROVE  G[i][2] = "resolve" /\ pc[G[i][1]] = "resolve" /\ G[i][1] \in Handlers /\ G[i][1] # h
  <2>1. G[i][1] \in Handlers
    BY <1>0
  <2>2. pc[h] \notin KeepStages /\ pc[h] # "resolve"
    BY DEF FilesStages, KeepStages
  <2>3. G[i][2] = "resolve"
    <3> SUFFICES ASSUME G[i][2] # "resolve" PROVE FALSE
      OBVIOUS
    <3>1. pc[G[i][1]] \in KeepStages
      BY DEF Waiting
    <3>2. files[1][1] = G[i][1]
      BY <3>1, <2>1, KeeperHolds
    <3> QED BY <3>1, <3>2, <2>2
  <2> QED BY <2>1, <2>2, <2>3 DEF Waiting
<1>2. /\ Len(G) \in Nat /\ Len(G') = Len(G) + 1 /\ G'[Len(G) + 1] = <<h, stage>>
      /\ \A i \in 1 .. Len(G) : G'[i] = G[i]
      /\ G' \in Seq(Handlers \X {"merge", "suggest", "retain", "resolve"})
  BY <1>0
<1>3. pc'[h] = stage /\ \A q \in Handlers \ {h} : pc'[q] = pc[q]
  BY <1>0
<1> HIDE DEF G
<1>4. \A i \in 1 .. Len(G') : i = Len(G) + 1 \/ i \in 1 .. Len(G)
  BY <1>2
<1>5. \A i, j \in 1 .. Len(G') : G'[i][1] = G'[j][1] => i = j
  <2>1. \A i, j \in 1 .. Len(G) : G[i][1] = G[j][1] => i = j
    BY DEF Waiting, G
  <2> QED BY <2>1, <1>1, <1>2, <1>4
<1>6. ASSUME NEW i \in 1 .. Len(G')
      PROVE  IF G'[i][2] = "resolve" THEN pc'[G'[i][1]] = "resolve"
             ELSE i = Len(G') /\ pc'[G'[i][1]] \in KeepStages
  <2>1. CASE i = Len(G) + 1
    BY <2>1, <1>2, <1>3 DEF KeepStages
  <2>2. CASE i \in 1 .. Len(G)
    BY <2>2, <1>1, <1>2, <1>3
  <2> QED BY <2>1, <2>2, <1>4
<1>7. ASSUME NEW q \in Handlers, pc'[q] = "resolve"
      PROVE  \E i \in 1 .. Len(G') : G'[i][1] = q
  <2>1. CASE q = h
    BY <2>1, <1>2
  <2>2. CASE q # h
    <3>1. PICK i \in 1 .. Len(G) : G[i][1] = q
      BY <2>2, <1>3, <1>7 DEF Waiting, G
    <3> QED BY <3>1, <1>2
  <2> QED BY <2>1, <2>2
<1>8. ASSUME NEW q \in Handlers PROVE pc'[q] # "publish"
  <2> SUFFICES ASSUME pc'[q] = "publish" PROVE FALSE
    OBVIOUS
  <2>1. q # h /\ pc[q] = "publish"
    BY <1>3
  <2> QED BY <2>1, KeeperHolds DEF KeepStages
<1> QED BY <1>2, <1>5, <1>6, <1>7, <1>8 DEF Waiting, G

\* A handler with a request, as the holder or as a waiter, returns or is
\* dropped.
LEMMA DropWaiting ==
  ASSUME TypeOK, Waiting, NEW h \in Handlers, NEW k \in 1 .. Len(global_cache),
         global_cache[k][1] = h, global_cache' = RemoveAt(global_cache, k),
         pc' = [pc EXCEPT ![h] = "idle"]
  PROVE  Waiting'
<1> DEFINE G == global_cache
           S == Handlers \X {"merge", "suggest", "retain", "resolve"}
<1>0. pc \in [Handlers -> Stages] /\ G \in Seq(S)
  BY DEF TypeOK, Waiting
<1>1. /\ Len(G) \in Nat \ {0} /\ G' \in Seq(S) /\ Len(G') = Len(G) - 1
      /\ \A j \in 1 .. Len(G) - 1 : G'[j] = IF j < k THEN G[j] ELSE G[j + 1]
  <2> HIDE DEF S
  <2> QED BY <1>0, RemoveAtFacts
<1>2. pc'[h] = "idle" /\ \A q \in Handlers \ {h} : pc'[q] = pc[q]
  BY <1>0
<1>3. /\ \A i, j \in 1 .. Len(G) : G[i][1] = G[j][1] => i = j
      /\ \A i \in 1 .. Len(G) : /\ G[i][1] \in Handlers
                                /\ IF G[i][2] = "resolve" THEN pc[G[i][1]] = "resolve"
                                   ELSE i = Len(G) /\ pc[G[i][1]] \in KeepStages
      /\ k \in 1 .. Len(G) /\ G[k][1] = h
  BY <1>0 DEF Waiting
<1> HIDE DEF G
<1>4. ASSUME NEW i \in 1 .. Len(G')
      PROVE  /\ IF G'[i][2] = "resolve" THEN pc'[G'[i][1]] = "resolve"
                ELSE i = Len(G') /\ pc'[G'[i][1]] \in KeepStages
             /\ \A j \in 1 .. Len(G') : G'[i][1] = G'[j][1] => i = j
  <2> DEFINE a == IF i < k THEN i ELSE i + 1
  <2>1. a \in 1 .. Len(G) /\ a # k /\ G'[i] = G[a] /\ (a = Len(G) => i = Len(G'))
    BY <1>1
  <2>2. G[a][1] # h /\ pc'[G[a][1]] = pc[G[a][1]]
    BY <2>1, <1>2, <1>3
  <2>3. ASSUME NEW j \in 1 .. Len(G'), G'[i][1] = G'[j][1] PROVE i = j
    <3> DEFINE b == IF j < k THEN j ELSE j + 1
    <3>1. b \in 1 .. Len(G) /\ G'[j] = G[b]
      BY <1>1
    <3>2. a = b
      BY <2>1, <2>3, <3>1, <1>3
    <3> QED BY <3>2, <1>1
  <2> HIDE DEF a
  <2> QED BY <2>1, <2>2, <2>3, <1>3
<1>5. ASSUME NEW q \in Handlers \ {h}, NEW i \in 1 .. Len(G), G[i][1] = q
      PROVE  i # k /\ \E j \in 1 .. Len(G') : G'[j] = G[i]
  <2>1. i # k
    BY <1>3, <1>5
  <2>2. CASE i < k
    BY <2>1, <2>2, <1>1, <1>3
  <2>3. CASE i > k
    <3>1. i - 1 \in 1 .. Len(G) - 1 /\ ~(i - 1 < k) /\ (i - 1) + 1 = i
      BY <2>3, <1>1
    <3>2. G'[i - 1] = G[(i - 1) + 1]
      BY <3>1, <1>1
    <3> QED BY <3>1, <3>2, <2>1, <1>1
  <2> QED BY <2>1, <2>2, <2>3, <1>1
<1>6. ASSUME NEW q \in Handlers, pc'[q] = "resolve"
      PROVE  \E i \in 1 .. Len(G') : G'[i][1] = q
  <2>1. q # h /\ pc[q] = "resolve"
    BY <1>2, <1>6
  <2>2. PICK i \in 1 .. Len(G) : G[i][1] = q
    BY <2>1 DEF Waiting, G
  <2> QED BY <2>1, <2>2, <1>5
<1>7. ASSUME NEW q \in Handlers, pc'[q] = "publish"
      PROVE  G' # <<>> /\ G'[1][1] = q
  <2>1. q # h /\ pc[q] = "publish"
    BY <1>2, <1>7
  <2>2. G[1][1] = q /\ 1 \in 1 .. Len(G)
    BY <2>1, <1>1 DEF Waiting, G
  <2>3. 1 < k
    BY <2>1, <2>2, <1>3, <1>1
  <2>4. 1 \in 1 .. Len(G) - 1 /\ G'[1] = G[1]
    BY <2>3, <1>1, <1>3
  <2>5. G' # <<>>
    BY <2>4, <1>1
  <2> QED BY <2>2, <2>4, <2>5
<1> QED BY <1>1, <1>4, <1>6, <1>7 DEF Waiting, G, S

\* The first request is done with.
LEMMA PopWaiting ==
  ASSUME TypeOK, Waiting, NEW h \in Handlers, global_cache # <<>>, global_cache[1][1] = h,
         global_cache' = Release(global_cache), pc' = [pc EXCEPT ![h] = "idle"]
  PROVE  Waiting'
<1> DEFINE S == Handlers \X {"merge", "suggest", "retain", "resolve"}
<1>1. global_cache \in Seq(S)
  BY DEF Waiting
<1> HIDE DEF S
<1>2. 1 \in 1 .. Len(global_cache) /\ Len(global_cache) \in Nat \ {0}
  BY <1>1
<1>3. Tail(global_cache) = RemoveAt(global_cache, 1)
  <2> DEFINE T == Tail(global_cache)
             R == RemoveAt(global_cache, 1)
  <2>1. T \in Seq(S) /\ Len(T) = Len(global_cache) - 1
        /\ \A j \in 1 .. Len(global_cache) - 1 : T[j] = global_cache[j + 1]
    BY <1>1, <1>2
  <2>2. R \in Seq(S) /\ Len(R) = Len(global_cache) - 1
        /\ \A j \in 1 .. Len(global_cache) - 1 : R[j] = global_cache[j + 1]
    BY <1>1, <1>2, RemoveAtFacts
  <2> HIDE DEF T, R
  <2>3. Len(T) = Len(R) /\ \A j \in 1 .. Len(T) : T[j] = R[j]
    BY <2>1, <2>2
  <2> QED BY <2>1, <2>2, <2>3 DEF T, R
<1> QED BY <1>2, <1>3, DropWaiting DEF Release

\* A handler without a request goes on without one.
LEMMA StayWaiting ==
  ASSUME TypeOK, Waiting, NEW h \in Handlers, global_cache' = global_cache,
         \A i \in 1 .. Len(global_cache) : global_cache[i][1] # h,
         NEW stage, stage \notin {"resolve", "publish"}, pc' = [pc EXCEPT ![h] = stage]
  PROVE  Waiting'
<1>1. \A i \in 1 .. Len(global_cache) : global_cache[i][1] \in Handlers
  BY DEF Waiting
<1>2. pc'[h] = stage /\ \A q \in Handlers \ {h} : pc'[q] = pc[q]
  BY DEF TypeOK
<1> QED BY <1>1, <1>2 DEF Waiting

LEMMA NextWaiting ==
  ASSUME IInv, Waiting, [Next]_vars
  PROVE  Waiting'
<1>0. TypeOK /\ Requests
  BY DEF IInv
<1>1. ASSUME pc' = pc, global_cache' = global_cache
      PROVE  Waiting'
  BY <1>1 DEF Waiting
<1>2. CASE Editor
  <2>1. \A f \in Files : Open(f) \/ Change(f) \/ Close(f) => UNCHANGED <<pc, global_cache>>
    BY DEF Open, Change, Close, Send, locks
  <2>2. \A f \in Files, withText \in BOOLEAN : Save(f, withText) => UNCHANGED <<pc, global_cache>>
    BY DEF Save, Send, locks
  <2>3. \A kind, f, flag : Ask(kind, f, flag) => UNCHANGED <<pc, global_cache>>
    BY DEF Ask, Send, locks
  <2>4. UNCHANGED <<pc, global_cache>>
    BY <1>2, <2>1, <2>2, <2>3, Zenon DEF Editor
  <2> QED BY <2>4, <1>1
<1>3. ASSUME NEW h \in Handlers, Start(h) \/ Handle(h) \/ Cancel(h)
      PROVE  Waiting'
  <2>0. ASSUME pc[h] \notin KeepStages \cup {"resolve"}, NEW i \in 1 .. Len(global_cache)
        PROVE  global_cache[i][1] # h
    BY <2>0 DEF Waiting
  <2>1. CASE Start(h) \/ Update(h) \/ Snapshot(h) \/ DidClose(h) \/ Cleared(h) \/ LookupReturns(h)
    <3>1. pc[h] \notin KeepStages \cup {"resolve"} /\ global_cache' = global_cache
      BY <2>1 DEF Start, Update, Snapshot, DidClose, Cleared, LookupReturns, KeepStages, locks
    <3>2. \E stage : stage \notin {"resolve", "publish"} /\ pc' = [pc EXCEPT ![h] = stage]
      BY <2>1 DEF Start, FirstStage, Update, Snapshot, DidClose, Cleared, LookupReturns, Goto, Done
    <3> QED BY <3>1, <3>2, <2>0, <1>0, StayWaiting
  <2>2. CASE Insert(h) \/ LookupCompletion(h)
    <3>1. files # <<>> /\ files[1][1] = h
      BY <2>2, <1>0, HoldsFiles DEF Insert, LookupCompletion
    <3>2. CASE Insert(h)
      BY <3>1, <3>2, <1>0, AppendWaiting DEF Insert, Goto, Request, FilesStages
    <3>3. CASE LookupCompletion(h)
      BY <3>1, <3>3, <1>0, AppendWaiting DEF LookupCompletion, Goto, Request, FilesStages
    <3> QED BY <2>2, <3>2, <3>3
  <2>3. CASE LookupReference(h)
    <3>1. files # <<>> /\ files[1][1] = h /\ pc[h] = "lookup"
      BY <2>3, <1>0, HoldsFiles DEF LookupReference
    <3>2. CASE msg[h].kind = "goto"
      BY <3>1, <3>2, <2>3, <1>0, AppendWaiting DEF LookupReference, Goto, Request, FilesStages
    <3>3. CASE msg[h].kind # "goto"
      <4>1. pc' = [pc EXCEPT ![h] = "collect"] /\ global_cache' = global_cache
        BY <2>3, <3>3 DEF LookupReference, Goto
      <4> QED BY <4>1, <3>1, <2>0, <1>0, StayWaiting DEF KeepStages
    <3> QED BY <3>2, <3>3
  <2>4. CASE Collect(h)
    <3>1. files # <<>> /\ files[1][1] = h /\ pc[h] = "collect"
      BY <2>4, <1>0, HoldsFiles DEF Collect
    <3>2. CASE msg[h].kind = "references" /\ ~msg[h].flag
      BY <3>1, <3>2, <2>4, <1>0, AppendWaiting DEF Collect, Goto, Request, FilesStages
    <3>3. CASE ~(msg[h].kind = "references" /\ ~msg[h].flag)
      <4>1. pc' = [pc EXCEPT ![h] = "idle"] /\ global_cache' = global_cache
        BY <2>4, <3>3 DEF Collect, Done
      <4> QED BY <4>1, <3>1, <2>0, <1>0, StayWaiting DEF KeepStages
    <3> QED BY <3>2, <3>3
  <2>5. CASE AnswerGoto(h) \/ AnswerBoth(h)
    <3>1. \E stage : Holds(global_cache, h, stage)
      BY <2>5 DEF AnswerGoto, AnswerBoth
    <3>2. global_cache # <<>> /\ global_cache[1][1] = h
      BY <3>1 DEF Holds, Waiting
    <3>3. pc' = [pc EXCEPT ![h] = "idle"] /\ global_cache' = Release(global_cache)
      BY <2>5 DEF AnswerGoto, AnswerBoth, Done
    <3> QED BY <3>2, <3>3, <1>0, PopWaiting
  <2>6. CASE Publish(h)
    <3>1. global_cache # <<>> /\ global_cache[1][1] = h
      BY <2>6 DEF Publish, Waiting
    <3>2. pc' = [pc EXCEPT ![h] = "idle"] /\ global_cache' = Release(global_cache)
      BY <2>6 DEF Publish, Done
    <3> QED BY <3>1, <3>2, <1>0, PopWaiting
  <2>7. CASE Merge(h)
    <3>1. /\ pc[h] = "merge" /\ pc' = [pc EXCEPT ![h] = "publish"] /\ global_cache' = global_cache
          /\ global_cache # <<>> /\ Head(global_cache) = <<h, "merge">>
      BY <2>7 DEF Merge, Goto, Holds, locks
    <3>2. global_cache[1] = <<h, "merge">>
      BY <3>1 DEF Waiting
    <3>3. /\ pc'[h] = "publish" /\ \A q \in Handlers \ {h} : pc'[q] = pc[q]
          /\ \A i \in 1 .. Len(global_cache) : global_cache[i][1] \in Handlers
      BY <3>1, <1>0 DEF TypeOK, Waiting
    <3>4. \A q \in Handlers : pc'[q] = "publish" => global_cache[1][1] = q
      BY <3>2, <3>3 DEF Waiting
    <3>5. \A i \in 1 .. Len(global_cache) :
            IF global_cache[i][2] = "resolve" THEN pc'[global_cache[i][1]] = "resolve"
            ELSE i = Len(global_cache) /\ pc'[global_cache[i][1]] \in KeepStages
      BY <3>1, <3>3 DEF Waiting, KeepStages
    <3> QED BY <3>1, <3>3, <3>4, <3>5 DEF Waiting
  <2>8. CASE Cancel(h)
    <3>1. pc' = [pc EXCEPT ![h] = "idle"] /\ global_cache' = Forget(global_cache, h)
      BY <2>8 DEF Cancel, Done
    <3>2. CASE \E i \in 1 .. Len(global_cache) : global_cache[i][1] = h
      <4> DEFINE k == CHOOSE i \in 1 .. Len(global_cache) : global_cache[i][1] = h
      <4>1. k \in 1 .. Len(global_cache) /\ global_cache[k][1] = h
        BY <3>2
      <4>2. global_cache' = RemoveAt(global_cache, k)
        BY <3>1, <3>2 DEF Forget
      <4> HIDE DEF k
      <4> QED BY <4>1, <4>2, <3>1, <1>0, DropWaiting
    <3>3. CASE ~\E i \in 1 .. Len(global_cache) : global_cache[i][1] = h
      <4>1. global_cache' = global_cache
        BY <3>1, <3>3 DEF Forget
      <4> QED BY <4>1, <3>1, <3>3, <1>0, StayWaiting
    <3> QED BY <3>2, <3>3
  <2> QED BY <1>3, <2>1, <2>2, <2>3, <2>4, <2>5, <2>6, <2>7, <2>8 DEF Handle
<1>4. CASE UNCHANGED vars
  <2>1. UNCHANGED <<pc, global_cache>>
    BY <1>4 DEF vars, locks
  <2> QED BY <2>1, <1>1
<1> QED BY <1>2, <1>3, <1>4 DEF Next

-----------------------------------------------------------------------------
(* goto_definition.                                                        *)

\* The answer for index i of file f is there and is not older than the parse
\* `at`; if it is from that parse it is the range that the parse gave it.
Answers(f, i, range, at) ==
  /\ i \in DOMAIN definitions[f]
  /\ definitions[f][i].at >= at
  /\ definitions[f][i].at = at => definitions[f][i].range = range

DefinitionsMade ==
  /\ definitions = [f \in Files |-> definitions[f]]
  /\ \A f \in Files : \A i \in DOMAIN definitions[f] : definitions[f][i].at \in Nat

\* The structs of the parse that made cache c have their answers.
Merged(c) ==
  \A f \in Namespace(c.top) : \A n \in 1 .. StructsIn(f, c.text[f]) :
    Answers(f, StructIndex(c.top, c.text, f, n), <<c.text[f], n>>, c.at)

\* Cache c is from the parse of handler h.
MadeBy(c, h) == c.top = msg[h].file /\ c.text = snap[h].text /\ c.at = snap[h].at

\* The definitions of the parse that made a cache are there, or its handler,
\* which still holds `files`, is about to merge them.
CachesMerged ==
  \A f \in Files : caches[f] # NoCache =>
    /\ caches[f].top \in Files /\ f \in Namespace(caches[f].top)
    /\ Merged(caches[f]) \/ \E h \in Handlers : pc[h] = "merge" /\ MadeBy(caches[f], h)

\* No two parses have the same number.
ParsesApart ==
  \A h \in Handlers, f \in Files : caches[f] # NoCache =>
    /\ pc[h] = "insert" => caches[f].at < snap[h].at
    /\ pc[h] = "merge" /\ caches[f].at = snap[h].at => MadeBy(caches[f], h)

\* Messages are about files of the workspace.
Asked ==
  /\ \A i \in 1 .. Len(inbox) : inbox[i].file \in Files
  /\ \A h \in Handlers : pc[h] # "idle" => msg[h].file \in Files

\* A reference that a handler carries from `files` to `global_cache` has its
\* answer already, and no definition of its file has changed since.
FoundMade ==
  /\ found = [h \in Handlers |-> found[h]]
  /\ \A h \in Handlers : pc[h] = "resolve" =>
       /\ found[h].file \in Files /\ found[h].defs = definitions[found[h].file]
       /\ Answers(found[h].file, found[h].idx, found[h].range, found[h].at)

GotoInv == DefinitionsMade /\ CachesMerged /\ ParsesApart /\ Asked /\ FoundMade

\* The files of a workspace, and what a parse numbers how, stay as they are.
LEMMA SameNumbers ==
  ASSUME workspace' = workspace
  PROVE  /\ \A top : Namespace(top)' = Namespace(top)
         /\ \A f, v : StructsIn(f, v)' = StructsIn(f, v)
         /\ \A top, text, f, n : StructIndex(top, text, f, n)' = StructIndex(top, text, f, n)
<1>1. \A top : Namespace(top)' = Namespace(top)
  BY DEF Namespace
<1>2. \A f, v : StructsIn(f, v)' = StructsIn(f, v)
  BY DEF StructsIn
<1>3. \A top, text, f : StructsAhead(top, text, f)' = StructsAhead(top, text, f)
  <2>1. \A top, f : LoadPlace(top, f)' = LoadPlace(top, f)
    BY DEF LoadPlace
  <2> QED BY <1>1, <1>2, <2>1 DEF StructsAhead
<1> QED BY <1>1, <1>2, <1>3 DEF StructIndex

\* What a file of the namespace imports is in the namespace.
LEMMA NamespaceClosed ==
  ASSUME NEW top, NEW f \in Namespace(top)
  PROVE  Namespace(f) \subseteq Namespace(top)
<1> SUFFICES ASSUME NEW g \in Namespace(f), NEW S \in SUBSET Files, top \in S,
                    \A q \in S : ToSet(workspace.imports[q]) \subseteq S
             PROVE  g \in S
  BY DEF Namespace
<1>1. f \in S
  BY DEF Namespace
<1> QED BY <1>1 DEF Namespace

\* There are finitely many structs, so they can be counted.
LEMMA AheadCounted ==
  ASSUME TypeOK, NEW top, NEW text, NEW f
  PROVE  Cardinality(StructsAhead(top, text, f)) \in Nat
<1> DEFINE before == {g \in Namespace(top) : LoadPlace(top, g) < LoadPlace(top, f)}
           of(g) == {g} \X (1 .. StructsIn(g, text[g]))
           all == {of(g) : g \in before}
<1>1. StructsAhead(top, text, f) = UNION all
  BY DEF StructsAhead
<1>2. IsFiniteSet(before) /\ before \subseteq Files
  <2>1. before \in SUBSET Files
    BY DEF Namespace
  <2> HIDE DEF before
  <2> QED BY <2>1, FS_Subset, LanguageServerAssumption
<1>3. ASSUME NEW g \in before PROVE IsFiniteSet(of(g))
  <2>1. workspace.structs \in [Files -> Seq(Nat)] /\ g \in Files
    BY <1>2, LanguageServerAssumption DEF TypeOK
  <2>2. StructsIn(g, text[g]) \in Nat
    BY <2>1 DEF StructsIn
  <2>3. IsFiniteSet(1 .. StructsIn(g, text[g])) /\ IsFiniteSet({g})
    <3>1. \A k \in Nat : IsFiniteSet(1 .. k)
      BY FS_Interval
    <3> QED BY <2>2, <3>1, FS_Singleton
  <2> QED BY <2>3, FS_Product
<1> HIDE DEF before, of
<1>4. IsFiniteSet(all)
  <2> DEFINE m == [g \in before |-> of(g)]
  <2>1. m \in Surjection(before, all)
    BY DEF Surjection
  <2> HIDE DEF m, all
  <2> QED BY <2>1, <1>2, FS_Surjection
<1>5. \A T \in all : IsFiniteSet(T)
  BY <1>3
<1> HIDE DEF all
<1>6. IsFiniteSet(UNION all)
  BY <1>4, <1>5, FS_UNION
<1> QED BY <1>1, <1>6, FS_CardinalityType

\* What a parse defines: each struct of a file has an index of its own.
LEMMA DefinedFacts ==
  ASSUME TypeOK, NEW top \in Files, NEW parse, NEW f \in Files
  PROVE  /\ \A i \in DOMAIN Defined(top, parse, f) : Defined(top, parse, f)[i].at = parse.at
         /\ f \in Namespace(top) => \A n \in 1 .. StructsIn(f, parse.text[f]) :
              /\ StructIndex(top, parse.text, f, n) \in DOMAIN Defined(top, parse, f)
              /\ Defined(top, parse, f)[StructIndex(top, parse.text, f, n)].range
                   = <<parse.text[f], n>>
<1> DEFINE structs == IF f \in Namespace(top) THEN 1 .. StructsIn(f, parse.text[f]) ELSE {}
           index(n) == StructIndex(top, parse.text, f, n)
           place(i) == CHOOSE n \in structs : index(n) = i
<1>1. Defined(top, parse, f) = [i \in {index(n) : n \in structs} |->
                                  [range |-> <<parse.text[f], place(i)>>, at |-> parse.at]]
  BY DEF Defined
<1>2. ASSUME NEW n \in structs PROVE place(index(n)) = n
  <2>1. \A k \in structs : k \in Int
    OBVIOUS
  <2>2. ASSUME NEW k \in structs, index(k) = index(n) PROVE k = n
    BY <2>1, <2>2, AheadCounted DEF StructIndex
  <2> HIDE DEF structs, index
  <2> QED BY <2>2
<1> HIDE DEF index, place
<1>3. \A i \in DOMAIN Defined(top, parse, f) : Defined(top, parse, f)[i].at = parse.at
  BY <1>1
<1>4. \A n \in structs : /\ index(n) \in DOMAIN Defined(top, parse, f)
                         /\ Defined(top, parse, f)[index(n)].range = <<parse.text[f], n>>
  <2> HIDE DEF structs
  <2> QED BY <1>1, <1>2
<1> QED BY <1>3, <1>4 DEF index

\* Handlers go on with their messages or return.
LEMMA AskedKept ==
  ASSUME Asked, inbox' = inbox,
         \A g \in Handlers : pc'[g] = "idle" \/ (pc[g] # "idle" /\ msg'[g] = msg[g])
  PROVE  Asked'
  BY DEF Asked

\* A step that merges no definitions, takes a cache away or leaves it, and finds
\* no reference.
LEMMA GotoKept ==
  ASSUME GotoInv, workspace' = workspace, definitions' = definitions, Asked',
         \A f \in Files : caches'[f] = caches[f] \/ caches'[f] = NoCache,
         \A g \in Handlers : pc[g] = "merge" => pc'[g] = "merge",
         \A g \in Handlers : pc'[g] \in {"insert", "merge"}
           => pc'[g] = pc[g] /\ msg'[g] = msg[g] /\ snap'[g] = snap[g],
         found' = [g \in Handlers |-> found'[g]],
         \A g \in Handlers : pc'[g] = "resolve" => pc[g] = "resolve" /\ found'[g] = found[g]
  PROVE  GotoInv'
<1>1. DefinitionsMade'
  BY DEF GotoInv, DefinitionsMade
<1>2. \A c : Merged(c) => Merged(c)'
  BY SameNumbers DEF Merged, Answers
<1>3. \A c : \A h \in Handlers : pc'[h] \in {"insert", "merge"} => MadeBy(c, h)' = MadeBy(c, h)
  BY DEF MadeBy
<1>4. CachesMerged'
  <2> SUFFICES ASSUME NEW f \in Files, caches'[f] # NoCache
               PROVE  /\ caches'[f].top \in Files /\ (f \in Namespace(caches[f].top))'
                      /\ \/ Merged(caches[f])'
                         \/ \E h \in Handlers : pc'[h] = "merge" /\ MadeBy(caches[f], h)'
    BY DEF CachesMerged
  <2>1. caches'[f] = caches[f]
    OBVIOUS
  <2>2. Merged(caches[f]) => Merged(caches[f])'
    BY <2>1, SameNumbers DEF Merged, Answers
  <2>3. \A h \in Handlers : pc[h] = "merge" /\ MadeBy(caches[f], h)
          => pc'[h] = "merge" /\ MadeBy(caches[f], h)'
    BY <2>1 DEF MadeBy
  <2> QED BY <2>1, <2>2, <2>3, SameNumbers DEF GotoInv, CachesMerged
<1>5. ParsesApart'
  <2> SUFFICES ASSUME NEW h \in Handlers, NEW f \in Files, caches'[f] # NoCache
               PROVE  /\ pc'[h] = "insert" => caches'[f].at < snap'[h].at
                      /\ pc'[h] = "merge" /\ caches'[f].at = snap'[h].at => MadeBy(caches[f], h)'
    BY DEF ParsesApart
  <2>1. caches'[f] = caches[f]
    OBVIOUS
  <2> QED BY <2>1 DEF GotoInv, ParsesApart, MadeBy
<1>6. FoundMade'
  BY DEF GotoInv, FoundMade, Answers
<1> QED BY <1>1, <1>4, <1>5, <1>6 DEF GotoInv

\* The editor sends a message.
LEMMA EditorGoto ==
  ASSUME TypeOK, GotoInv, Editor
  PROVE  GotoInv'
<1>1. ASSUME NEW m, m.file \in Files, Send(m), workspace' = workspace
      PROVE  GotoInv'
  <2>1. inbox' = Append(inbox, m) /\ UNCHANGED <<msg, pc, snap, found, caches, definitions>>
    BY <1>1 DEF Send, store
  <2>2. \A i \in 1 .. Len(inbox') : inbox'[i] = m \/ (i \in 1 .. Len(inbox) /\ inbox'[i] = inbox[i])
    BY <2>1 DEF TypeOK
  <2>3. Asked'
    BY <2>1, <2>2, <1>1 DEF GotoInv, Asked
  <2> QED BY <2>1, <2>3, <1>1, GotoKept DEF GotoInv, FoundMade
<1>2. ASSUME NEW f \in Files, Open(f) \/ Change(f) \/ Close(f)
      PROVE  \E m : m.file \in Files /\ Send(m) /\ workspace' = workspace
  <2>1. CASE Open(f)
    <3> DEFINE m == [NoMsg EXCEPT !.kind = "open", !.file = f, !.ver = disk[f]]
    <3>1. m.file = f /\ Send(m) /\ workspace' = workspace
      BY <2>1 DEF Open, NoMsg
    <3> HIDE DEF m
    <3> QED BY <3>1
  <2>2. CASE Change(f)
    <3> DEFINE m == [NoMsg EXCEPT !.kind = "change", !.file = f, !.base = doc[f], !.ver = count + 2]
    <3>1. m.file = f /\ Send(m) /\ workspace' = workspace
      BY <2>2 DEF Change, NoMsg
    <3> HIDE DEF m
    <3> QED BY <3>1
  <2>3. CASE Close(f)
    <3> DEFINE m == [NoMsg EXCEPT !.kind = "close", !.file = f]
    <3>1. m.file = f /\ Send(m) /\ workspace' = workspace
      BY <2>3 DEF Close, NoMsg
    <3> HIDE DEF m
    <3> QED BY <3>1
  <2> QED BY <1>2, <2>1, <2>2, <2>3
<1>3. ASSUME NEW f \in Files, NEW withText \in BOOLEAN, Save(f, withText)
      PROVE  \E m : m.file \in Files /\ Send(m) /\ workspace' = workspace
  <2> DEFINE m == [NoMsg EXCEPT !.kind = "save", !.file = f, !.flag = withText, !.ver = doc[f]]
  <2>1. m.file = f /\ Send(m) /\ workspace' = workspace
    BY <1>3 DEF Save, NoMsg
  <2> HIDE DEF m
  <2> QED BY <2>1
<1>4. ASSUME NEW kind \in workspace.kinds, NEW f \in Files, NEW flag \in BOOLEAN, Ask(kind, f, flag)
      PROVE  \E m : m.file \in Files /\ Send(m) /\ workspace' = workspace
  <2> DEFINE m == [NoMsg EXCEPT !.kind = kind, !.file = f, !.flag = flag]
  <2>1. m.file = f /\ Send(m) /\ workspace' = workspace
    BY <1>4 DEF Ask, NoMsg
  <2> HIDE DEF m
  <2> QED BY <2>1
<1>5. \E m : m.file \in Files /\ Send(m) /\ workspace' = workspace
  BY <1>2, <1>3, <1>4 DEF Editor
<1> QED BY <1>1, <1>5

\* The service reads a message.
LEMMA StartGoto ==
  ASSUME TypeOK, GotoInv, NEW h \in Handlers, Start(h)
  PROVE  GotoInv'
<1>1. /\ inbox # <<>> /\ inbox' = Tail(inbox) /\ msg' = [msg EXCEPT ![h] = Head(inbox)]
      /\ pc[h] = "idle" /\ pc' = [pc EXCEPT ![h] = FirstStage(Head(inbox))]
      /\ UNCHANGED <<workspace, snap, found, caches, definitions>>
  BY DEF Start, Goto, client, store
<1>2. /\ Len(inbox) \in Nat \ {0} /\ 1 \in 1 .. Len(inbox) /\ Head(inbox) = inbox[1]
      /\ \A i \in 1 .. Len(inbox') : i + 1 \in 1 .. Len(inbox) /\ inbox'[i] = inbox[i + 1]
  BY <1>1 DEF TypeOK
<1>3. msg'[h] = inbox[1] /\ \A g \in Handlers \ {h} : msg'[g] = msg[g] /\ pc'[g] = pc[g]
  BY <1>1, <1>2 DEF TypeOK
<1>4. Asked'
  BY <1>2, <1>3 DEF GotoInv, Asked
<1>5. pc'[h] \notin {"resolve", "insert", "merge"} /\ pc[h] # "merge"
  BY <1>1 DEF FirstStage, TypeOK
<1> QED BY <1>1, <1>3, <1>4, <1>5, GotoKept DEF GotoInv, FoundMade

\* A handler returns, is cancelled, or goes on without a new result.
LEMMA QuietGoto ==
  ASSUME TypeOK, GotoInv, NEW h \in Handlers,
         Update(h) \/ Publish(h) \/ DidClose(h) \/ Cleared(h) \/ LookupReturns(h)
         \/ LookupCompletion(h) \/ AnswerGoto(h) \/ Collect(h) \/ AnswerBoth(h) \/ Cancel(h)
  PROVE  GotoInv'
<1> DEFINE other == Stages \ {"resolve", "idle", "insert", "merge"}
<1>1. /\ pc[h] # "merge" /\ pc[h] # "idle"
      /\ UNCHANGED <<workspace, inbox, definitions>>
  BY DEF Update, Publish, DidClose, Cleared, LookupReturns, LookupCompletion, AnswerGoto,
         Collect, AnswerBoth, Cancel, client, store
<1>2. \/ Done(h)
      \/ UNCHANGED <<msg, snap, found>> /\ \E stage \in other : Goto(h, stage)
  <2>1. CASE Update(h) \/ DidClose(h) \/ LookupCompletion(h)
    BY <2>1 DEF Update, DidClose, LookupCompletion, Stages, FilesStages
  <2>2. CASE Collect(h)
    BY <2>2 DEF Collect, Stages
  <2>3. CASE Publish(h) \/ Cleared(h) \/ LookupReturns(h) \/ AnswerGoto(h) \/ AnswerBoth(h) \/ Cancel(h)
    BY <2>3 DEF Publish, Cleared, LookupReturns, AnswerGoto, AnswerBoth, Cancel
  <2> QED BY <2>1, <2>2, <2>3
<1>3. \A f \in Files : caches'[f] = caches[f] \/ caches'[f] = NoCache
  <2>1. CASE DidClose(h)
    <3>1. caches' = [caches EXCEPT ![msg[h].file] = NoCache]
      BY <2>1 DEF DidClose
    <3>2. caches = [f \in Files |-> caches[f]]
      BY DEF TypeOK
    <3> QED BY <3>1, <3>2
  <2>2. CASE ~DidClose(h)
    BY <2>2 DEF Update, Publish, Cleared, LookupReturns, LookupCompletion, AnswerGoto,
                Collect, AnswerBoth, Cancel, store
  <2> QED BY <2>1, <2>2
<1>4. /\ found' = [g \in Handlers |-> found'[g]]
      /\ \A g \in Handlers \ {h} : /\ msg'[g] = msg[g] /\ pc'[g] = pc[g]
                                   /\ snap'[g] = snap[g] /\ found'[g] = found[g]
      /\ pc'[h] \notin {"resolve", "insert", "merge"} /\ (pc'[h] = "idle" \/ msg'[h] = msg[h])
  <2>0. /\ found = [g \in Handlers |-> found[g]] /\ pc \in [Handlers -> Stages]
        /\ msg \in [Handlers -> Message] /\ snap = [g \in Handlers |-> snap[g]]
    BY DEF GotoInv, FoundMade, TypeOK
  <2>1. CASE Done(h)
    BY <2>0, <2>1 DEF Done
  <2>2. CASE UNCHANGED <<msg, snap, found>> /\ \E stage \in other : Goto(h, stage)
    BY <2>0, <2>2 DEF Goto
  <2> QED BY <1>2, <2>1, <2>2
<1>5. Asked'
  BY <1>1, <1>4, AskedKept DEF GotoInv
<1> QED BY <1>1, <1>3, <1>4, <1>5, GotoKept

\* parse_file reads the texts: its parse is newer than all caches.
LEMMA SnapshotGoto ==
  ASSUME IInv, GotoInv, NEW h \in Handlers, Snapshot(h)
  PROVE  GotoInv'
<1>1. /\ pc[h] = "snapshot" /\ pc' = [pc EXCEPT ![h] = "insert"]
      /\ \E text : snap' = [snap EXCEPT ![h] = [text |-> text, at |-> clock + 1]]
      /\ UNCHANGED <<workspace, inbox, msg, found, caches, definitions>>
  BY DEF Snapshot, Goto, client
<1>2. /\ pc'[h] = "insert" /\ snap'[h].at = clock + 1
      /\ \A g \in Handlers \ {h} : pc'[g] = pc[g] /\ snap'[g] = snap[g]
  BY <1>1 DEF IInv, TypeOK
<1>3. Asked'
  BY <1>1, <1>2, AskedKept DEF GotoInv
<1>4. DefinitionsMade' /\ FoundMade'
  BY <1>1, <1>2 DEF GotoInv, DefinitionsMade, FoundMade, Answers
<1>5. ParsesApart'
  <2> SUFFICES ASSUME NEW g \in Handlers, NEW f \in Files, caches[f] # NoCache
               PROVE  /\ pc'[g] = "insert" => caches[f].at < snap'[g].at
                      /\ pc'[g] = "merge" /\ caches[f].at = snap'[g].at => MadeBy(caches[f], g)'
    BY <1>1 DEF ParsesApart
  <2>1. CASE g = h
    <3>1. caches[f].at <= clock /\ caches[f].at \in Nat /\ clock \in Nat
      BY DEF IInv, InOrder, TypeOK
    <3> QED BY <2>1, <3>1, <1>2
  <2>2. CASE g # h
    BY <2>2, <1>1, <1>2 DEF GotoInv, ParsesApart, MadeBy
  <2> QED BY <2>1, <2>2
<1>6. CachesMerged'
  <2> SUFFICES ASSUME NEW f \in Files, caches[f] # NoCache
               PROVE  /\ caches[f].top \in Files /\ f \in Namespace(caches[f].top)
                      /\ \/ Merged(caches[f])'
                         \/ \E g \in Handlers : pc'[g] = "merge" /\ MadeBy(caches[f], g)'
    BY <1>1, SameNumbers DEF CachesMerged
  <2>1. Merged(caches[f]) => Merged(caches[f])'
    BY <1>1, SameNumbers DEF Merged, Answers
  <2>2. \A g \in Handlers : pc[g] = "merge" /\ MadeBy(caches[f], g)
          => pc'[g] = "merge" /\ MadeBy(caches[f], g)'
    BY <1>1, <1>2 DEF MadeBy
  <2> QED BY <2>1, <2>2 DEF GotoInv, CachesMerged
<1> QED BY <1>3, <1>4, <1>5, <1>6 DEF GotoInv

\* A request that finds a reference: whoever stored the cache has merged its
\* definitions, since it held `files` until then.
LEMMA LookupReferenceGoto ==
  ASSUME TypeOK, Requests, GotoInv, NEW h \in Handlers, LookupReference(h)
  PROVE  GotoInv'
<1> DEFINE F == msg[h].file
           c == caches[F]
<1>1. /\ pc[h] = "lookup" /\ Holds(files, h, "lookup") /\ c # NoCache
      /\ UNCHANGED <<workspace, inbox, msg, snap, caches, definitions>>
  BY DEF LookupReference, client, store
<1>2. PICK g \in Namespace(F) :
             \E n \in 1 .. StructsIn(g, c.text[g]) : found' = [found EXCEPT ![h] = Reference(c, g, n)]
  BY DEF LookupReference
<1>2a. PICK n \in 1 .. StructsIn(g, c.text[g]) : found' = [found EXCEPT ![h] = Reference(c, g, n)]
  BY <1>2
<1>3. \E stage \in {"resolve", "collect"} : pc' = [pc EXCEPT ![h] = stage]
  BY DEF LookupReference, Goto
<1>4. F \in Files
  BY <1>1 DEF GotoInv, Asked
<1>5. ASSUME NEW q \in Handlers PROVE pc[q] # "merge"
  <2> SUFFICES ASSUME pc[q] = "merge" PROVE FALSE
    OBVIOUS
  <2>1. files[1][1] = q
    BY KeeperHolds DEF KeepStages
  <2>2. files[1][1] = h
    BY <1>1, HoldsFiles
  <2> QED BY <2>1, <2>2, <1>1
<1>6. F \in Namespace(c.top) /\ Merged(c)
  BY <1>1, <1>4, <1>5 DEF GotoInv, CachesMerged
<1>7. g \in Namespace(c.top) /\ g \in Files
  BY <1>2, <1>6, NamespaceClosed DEF Namespace
<1>8. Answers(g, StructIndex(c.top, c.text, g, n), <<c.text[g], n>>, c.at)
  BY <1>6, <1>7 DEF Merged
<1>9. /\ found' = [q \in Handlers |-> found'[q]] /\ found'[h] = Reference(c, g, n)
      /\ \A q \in Handlers \ {h} : found'[q] = found[q] /\ pc'[q] = pc[q]
      /\ pc'[h] \in {"resolve", "collect"}
  BY <1>2a, <1>3 DEF GotoInv, FoundMade, TypeOK
<1>10. /\ found'[h].file = g /\ found'[h].defs = definitions[g] /\ found'[h].range = <<c.text[g], n>>
       /\ found'[h].idx = StructIndex(c.top, c.text, g, n) /\ found'[h].at = c.at
  BY <1>9 DEF Reference
<1> HIDE DEF F, c
<1>11. FoundMade'
  <2> SUFFICES ASSUME NEW q \in Handlers, pc'[q] = "resolve"
               PROVE  /\ found'[q].file \in Files
                      /\ found'[q].defs = definitions[found'[q].file]
                      /\ Answers(found'[q].file, found'[q].idx, found'[q].range, found'[q].at)
    BY <1>1, <1>9 DEF FoundMade, Answers
  <2>1. CASE q = h
    BY <2>1, <1>7, <1>8, <1>10
  <2>2. CASE q # h
    BY <2>2, <1>9 DEF GotoInv, FoundMade
  <2> QED BY <2>1, <2>2
<1>12. Asked'
  BY <1>1, <1>9, AskedKept DEF GotoInv
<1>13. DefinitionsMade' /\ ParsesApart'
  BY <1>1, <1>9 DEF GotoInv, DefinitionsMade, ParsesApart, MadeBy
<1>14. CachesMerged'
  <2>1. \A f \in Files : caches[f] # NoCache =>
          caches[f].top \in Files /\ f \in Namespace(caches[f].top) /\ Merged(caches[f])
    BY <1>5 DEF GotoInv, CachesMerged
  <2>2. \A f \in Files : Merged(caches[f]) => Merged(caches[f])'
    BY <1>1, SameNumbers DEF Merged, Answers
  <2> QED BY <2>1, <2>2, <1>1, SameNumbers DEF CachesMerged
<1> QED BY <1>11, <1>12, <1>13, <1>14 DEF GotoInv

\* parse_file stores its caches, and keeps `files` to merge.
LEMMA InsertGoto ==
  ASSUME IInv, GotoInv, NEW h \in Handlers, Insert(h)
  PROVE  GotoInv'
<1> DEFINE top == msg[h].file
           new(f) == [ver |-> snap[h].text[f], top |-> top, text |-> snap[h].text, at |-> snap[h].at]
<1>1. /\ pc[h] = "insert" /\ pc' = [pc EXCEPT ![h] = "merge"]
      /\ \A f \in Files : caches'[f] = IF f \in Namespace(top) THEN new(f) ELSE caches[f]
      /\ UNCHANGED <<workspace, inbox, msg, snap, found, definitions>>
  BY DEF Insert, Goto, client
<1>2. top \in Files
  BY <1>1 DEF GotoInv, Asked
<1>3. pc'[h] = "merge" /\ \A g \in Handlers \ {h} : pc'[g] = pc[g]
  BY <1>1 DEF IInv, TypeOK
<1>4. Asked'
  BY <1>1, <1>3, AskedKept DEF GotoInv
<1>5. DefinitionsMade' /\ FoundMade'
  BY <1>1, <1>3 DEF GotoInv, DefinitionsMade, FoundMade, Answers
<1>6. ASSUME NEW f \in Files
      PROVE  \/ caches'[f] = new(f) /\ f \in Namespace(top) /\ MadeBy(caches[f], h)'
             \/ caches'[f] = caches[f]
  <2>1. CASE f \in Namespace(top)
    <3>1. caches'[f] = new(f)
      BY <2>1, <1>1
    <3>2. caches'[f].top = top /\ caches'[f].text = snap[h].text /\ caches'[f].at = snap[h].at
      BY <3>1
    <3> QED BY <2>1, <3>1, <3>2, <1>1 DEF MadeBy
  <2>2. CASE f \notin Namespace(top)
    BY <2>2, <1>1
  <2> QED BY <2>1, <2>2
<1>7. \A f \in Files : caches'[f] = new(f) => caches'[f].top = top /\ caches'[f].at = snap[h].at
  OBVIOUS
<1> HIDE DEF top, new
<1>8. CachesMerged'
  <2> SUFFICES ASSUME NEW f \in Files, caches'[f] # NoCache
               PROVE  /\ caches'[f].top \in Files /\ (f \in Namespace(caches[f].top))'
                      /\ \/ Merged(caches[f])'
                         \/ \E q \in Handlers : pc'[q] = "merge" /\ MadeBy(caches[f], q)'
    BY DEF CachesMerged
  <2>1. CASE caches'[f] = new(f) /\ f \in Namespace(top) /\ MadeBy(caches[f], h)'
    <3>1. caches'[f].top = top
      BY <2>1, <1>7
    <3> QED BY <2>1, <3>1, <1>1, <1>2, <1>3, SameNumbers
  <2>2. CASE caches'[f] = caches[f]
    <3>1. Merged(caches[f]) => Merged(caches[f])'
      BY <2>2, <1>1, SameNumbers DEF Merged, Answers
    <3>2. \A q \in Handlers : pc[q] = "merge" /\ MadeBy(caches[f], q)
            => pc'[q] = "merge" /\ MadeBy(caches[f], q)'
      BY <2>2, <1>1, <1>3 DEF MadeBy
    <3> QED BY <2>2, <3>1, <3>2, <1>1, SameNumbers DEF GotoInv, CachesMerged
  <2> QED BY <2>1, <2>2, <1>6
<1>9. ParsesApart'
  <2> SUFFICES ASSUME NEW q \in Handlers, NEW f \in Files, caches'[f] # NoCache
               PROVE  /\ pc'[q] = "insert" => caches'[f].at < snap[q].at
                      /\ pc'[q] = "merge" /\ caches'[f].at = snap[q].at => MadeBy(caches[f], q)'
    BY <1>1 DEF ParsesApart
  <2>0. files # <<>> /\ files[1][1] = h /\ files[1][2] = "insert" /\ 1 \in 1 .. Len(files)
    BY HoldsFiles, HolderFacts DEF IInv, Insert
  <2>1. CASE q = h
    <3>1. pc'[q] = "merge" /\ snap[q].at \in Nat
      BY <2>1, <1>3 DEF IInv, TypeOK
    <3>2. CASE caches'[f] = new(f) /\ f \in Namespace(top) /\ MadeBy(caches[f], h)'
      BY <2>1, <3>1, <3>2
    <3>3. CASE caches'[f] = caches[f]
      <4>1. caches'[f].at < snap[q].at /\ caches'[f].at \in Nat
        BY <2>1, <3>3, <1>1 DEF GotoInv, ParsesApart, IInv, TypeOK
      <4> QED BY <3>1, <4>1
    <3> QED BY <3>2, <3>3, <1>6
  <2>2. CASE q # h
    <3>1. pc'[q] # "merge"
      <4> SUFFICES ASSUME pc'[q] = "merge" PROVE FALSE
        OBVIOUS
      <4>1. pc[q] = "merge"
        BY <2>2, <1>3
      <4> QED BY <4>1, <2>0, <2>2, KeeperHolds DEF IInv, KeepStages
    <3>2. ASSUME pc'[q] = "insert" PROVE caches'[f].at < snap[q].at
      <4>1. pc[q] = "insert"
        BY <2>2, <3>2, <1>3
      <4>2. PICK i \in 1 .. Len(files) : files[i][1] = q
        BY <4>1 DEF IInv, Requests, FilesStages
      <4>3. i # 1 /\ files[i][2] = "insert"
        BY <4>1, <4>2, <2>0, <2>2 DEF IInv, Requests
      <4>4. 1 < i
        BY <4>3
      <4>5. snap[h].at < snap[q].at
        BY <4>2, <4>3, <4>4, <2>0 DEF IInv, InOrder
      <4>6. CASE caches'[f] = caches[f]
        BY <4>6, <4>1 DEF GotoInv, ParsesApart
      <4>7. CASE caches'[f] = new(f)
        BY <4>7, <4>5, <1>7
      <4> QED BY <4>6, <4>7, <1>6
    <3> QED BY <3>1, <3>2
  <2> QED BY <2>1, <2>2
<1> QED BY <1>4, <1>5, <1>8, <1>9 DEF GotoInv

\* parse_file merges its definitions into the global cache; those that are
\* there stay or are numbered anew.
LEMMA MergeGoto ==
  ASSUME IInv, Waiting, GotoInv, NEW h \in Handlers, Merge(h)
  PROVE  GotoInv'
<1> DEFINE top == msg[h].file
           P == snap[h]
           D(f) == Defined(top, P, f)
<1>1. /\ pc[h] = "merge" /\ pc' = [pc EXCEPT ![h] = "publish"]
      /\ definitions' = Extend(definitions, top, P)
      /\ UNCHANGED <<workspace, inbox, msg, snap, found, caches>>
  BY DEF Merge, Goto, client
<1>2. top \in Files /\ TypeOK /\ P.at \in Nat
  BY <1>1 DEF GotoInv, Asked, IInv, TypeOK
<1>3. pc'[h] = "publish" /\ \A g \in Handlers \ {h} : pc'[g] = pc[g]
  BY <1>1 DEF IInv, TypeOK
<1>4. Asked'
  BY <1>1, <1>3, AskedKept DEF GotoInv
<1>5. ASSUME NEW f \in Files
      PROVE  /\ DOMAIN definitions'[f] = DOMAIN D(f) \cup DOMAIN definitions[f]
             /\ \A i \in DOMAIN definitions'[f] :
                  definitions'[f][i] = IF i \in DOMAIN D(f) THEN D(f)[i] ELSE definitions[f][i]
             /\ \A i \in DOMAIN D(f) : D(f)[i].at = P.at
  BY <1>1, <1>2, DefinedFacts DEF Extend
<1>6. DefinitionsMade'
  <2>1. definitions' = [f \in Files |-> definitions'[f]]
    BY <1>1 DEF Extend
  <2>2. \A f \in Files : \A i \in DOMAIN definitions'[f] : definitions'[f][i].at \in Nat
    BY <1>2, <1>5 DEF GotoInv, DefinitionsMade
  <2> QED BY <2>1, <2>2 DEF DefinitionsMade
\* It holds `files` and comes first in the line for `global_cache`: nobody is
\* between its two locks.
<1>7. /\ files[1][1] = h /\ files[1][2] = "insert" /\ 1 \in 1 .. Len(files)
      /\ \A f \in Files : caches[f].at <= P.at /\ caches[f].at \in Nat
  <2>1. files # <<>> /\ files[1][1] = h /\ pc[h] \in Keeps(files[1][2])
    BY <1>1, KeeperHolds DEF IInv, KeepStages
  <2>2. files[1][2] = "insert"
    BY <2>1, <1>1 DEF Keeps
  <2>3. 1 \in 1 .. Len(files)
    BY <2>1, HolderFacts DEF IInv
  <2> QED BY <2>1, <2>2, <2>3 DEF IInv, InOrder, TypeOK
<1>8. ASSUME NEW g \in Handlers PROVE pc[g] # "resolve"
  <2> SUFFICES ASSUME pc[g] = "resolve" PROVE FALSE
    OBVIOUS
  <2>1. global_cache # <<>> /\ Head(global_cache) = <<h, "merge">>
    BY DEF Merge, Holds
  <2>2. global_cache[1] = <<h, "merge">> /\ 1 \in 1 .. Len(global_cache)
    BY <2>1 DEF Waiting
  <2>3. Len(global_cache) = 1
    <3>1. global_cache[1][2] # "resolve"
      BY <2>2
    <3> QED BY <2>2, <3>1 DEF Waiting
  <2>4. PICK i \in 1 .. Len(global_cache) : global_cache[i][1] = g
    BY DEF Waiting
  <2>5. g = h
    BY <2>2, <2>3, <2>4
  <2> QED BY <2>5, <1>1
<1> HIDE DEF D
<1>9. ASSUME NEW f \in Files, NEW i, NEW range, NEW at \in Nat, at < P.at, Answers(f, i, range, at)
      PROVE  /\ i \in DOMAIN definitions'[f]
             /\ definitions'[f][i].at >= at
             /\ definitions'[f][i].at = at => definitions'[f][i].range = range
  <2>1. i \in DOMAIN definitions'[f]
    BY <1>5, <1>9 DEF Answers
  <2>2. CASE i \in DOMAIN D(f)
    <3>1. definitions'[f][i].at = P.at
      BY <2>1, <2>2, <1>5
    <3> QED BY <2>1, <3>1, <1>2, <1>9 DEF Answers
  <2>3. CASE i \notin DOMAIN D(f)
    <3>1. definitions'[f][i] = definitions[f][i]
      BY <2>1, <2>3, <1>5
    <3> QED BY <2>1, <3>1, <1>9 DEF Answers
  <2> QED BY <2>2, <2>3
<1>10. ASSUME NEW f \in Namespace(top), NEW n \in 1 .. StructsIn(f, P.text[f])
       PROVE  Answers(f, StructIndex(top, P.text, f, n), <<P.text[f], n>>, P.at)'
  <2> DEFINE i == StructIndex(top, P.text, f, n)
  <2>1. f \in Files
    BY DEF Namespace
  <2>2. i \in DOMAIN D(f) /\ D(f)[i].range = <<P.text[f], n>>
    <3>1. \A q \in 1 .. StructsIn(f, P.text[f]) :
            /\ StructIndex(top, P.text, f, q) \in DOMAIN D(f)
            /\ D(f)[StructIndex(top, P.text, f, q)].range = <<P.text[f], q>>
      <4> HIDE DEF top, P
      <4> QED BY <2>1, <1>2, DefinedFacts DEF D
    <3> QED BY <3>1
  <2>3. i' = i /\ P' = P
    BY <1>1, SameNumbers
  <2> HIDE DEF i
  <2>4. i \in DOMAIN definitions'[f] /\ definitions'[f][i] = D(f)[i] /\ D(f)[i].at = P.at
    BY <2>1, <2>2, <1>5
  <2>5. Answers(f, i, <<P.text[f], n>>, P.at)'
    BY <2>2, <2>3, <2>4, <1>2 DEF Answers
  <2> QED BY <2>5 DEF i
<1> HIDE DEF top, P
<1>11. CachesMerged'
  <2> SUFFICES ASSUME NEW f \in Files, caches[f] # NoCache
               PROVE  /\ caches[f].top \in Files /\ f \in Namespace(caches[f].top)
                      /\ Merged(caches[f])'
    BY <1>1, SameNumbers DEF CachesMerged
  <2> DEFINE c == caches[f]
  <2>0. c.top \in Files /\ f \in Namespace(c.top) /\ c.at \in Nat /\ c.at <= P.at /\ c' = c
    BY <1>1, <1>7 DEF GotoInv, CachesMerged
  <2>1. CASE c.at = P.at
    <3>1. c.top = top /\ c.text = P.text
      BY <2>1, <1>1 DEF GotoInv, ParsesApart, MadeBy, top, P
    <3>2. top' = top /\ P' = P
      BY <1>1 DEF top, P
    <3> HIDE DEF c
    <3>3. Merged(c)'
      BY <2>0, <2>1, <3>1, <3>2, <1>1, <1>10, SameNumbers DEF Merged
    <3> QED BY <2>0, <3>3 DEF c
  <2>2. CASE c.at # P.at
    <3>1. c.at < P.at
      BY <2>0, <2>2, <1>2
    <3>2. ASSUME NEW q \in Handlers, pc[q] = "merge" PROVE ~MadeBy(c, q)
      <4>1. files[1][1] = q
        BY <3>2, KeeperHolds DEF IInv, KeepStages
      <4> QED BY <4>1, <2>2, <1>7 DEF MadeBy, P
    <3>3. Merged(c)
      BY <3>2 DEF GotoInv, CachesMerged
    <3> HIDE DEF c
    <3>4. \A g \in Namespace(c.top) : g \in Files
      BY DEF Namespace
    <3>5. Merged(c)'
      <4> SUFFICES ASSUME NEW g \in Namespace(c.top), NEW n \in 1 .. StructsIn(g, c.text[g])
                   PROVE  Answers(g, StructIndex(c.top, c.text, g, n), <<c.text[g], n>>, c.at)'
        BY <2>0, <1>1, SameNumbers DEF Merged
      <4> DEFINE i == StructIndex(c.top, c.text, g, n)
      <4>1. Answers(g, i, <<c.text[g], n>>, c.at)
        BY <3>3 DEF Merged
      <4>2. i' = i
        BY <2>0, <1>1, SameNumbers
      <4> HIDE DEF i
      <4> DEFINE r == <<c.text[g], n>>
                 a == c.at
      <4>3. r' = r /\ a' = a /\ a \in Nat /\ a < P.at
        BY <2>0, <3>1
      <4>4. Answers(g, i, r, a)
        BY <4>1
      <4> HIDE DEF r, a
      <4>5. Answers(g, i, r, a)'
        <5>1. /\ i \in DOMAIN definitions'[g]
              /\ definitions'[g][i].at >= a
              /\ definitions'[g][i].at = a => definitions'[g][i].range = r
          BY <4>3, <4>4, <3>4, <1>9
        <5> QED BY <5>1, <4>2, <4>3 DEF Answers
      <4> QED BY <4>5 DEF i, r, a
    <3> QED BY <2>0, <3>5 DEF c
  <2> QED BY <2>1, <2>2
<1>12. ParsesApart'
  BY <1>1, <1>3 DEF GotoInv, ParsesApart, MadeBy
<1>13. FoundMade'
  <2>1. found' = [g \in Handlers |-> found'[g]]
    BY <1>1 DEF GotoInv, FoundMade
  <2>2. \A g \in Handlers : pc'[g] # "resolve"
    BY <1>3, <1>8
  <2> QED BY <2>1, <2>2 DEF FoundMade
<1> QED BY <1>4, <1>6, <1>11, <1>12, <1>13 DEF GotoInv

LEMMA NextGoto ==
  ASSUME IInv, Waiting, GotoInv, [Next]_vars
  PROVE  GotoInv'
<1>1. TypeOK /\ Requests
  BY DEF IInv
<1>2. CASE Editor
  BY <1>1, <1>2, EditorGoto
<1>3. ASSUME NEW h \in Handlers, Start(h) \/ Handle(h) \/ Cancel(h)
      PROVE  GotoInv'
  <2>1. CASE Start(h) \/ Snapshot(h) \/ Insert(h) \/ Merge(h) \/ LookupReference(h)
    BY <2>1, <1>1, StartGoto, SnapshotGoto, InsertGoto, MergeGoto, LookupReferenceGoto
  <2>2. CASE Update(h) \/ Publish(h) \/ DidClose(h) \/ Cleared(h) \/ LookupReturns(h)
             \/ LookupCompletion(h) \/ AnswerGoto(h) \/ Collect(h) \/ AnswerBoth(h) \/ Cancel(h)
    BY <2>2, <1>1, QuietGoto
  <2> QED BY <1>3, <2>1, <2>2 DEF Handle
<1>4. CASE UNCHANGED vars
  <2>1. UNCHANGED <<workspace, inbox, msg, pc, snap, found, caches, definitions>>
    BY <1>4 DEF vars, client, store
  <2>2. Asked'
    BY <2>1, AskedKept DEF GotoInv
  <2> QED BY <2>1, <2>2, GotoKept DEF GotoInv, FoundMade
<1> QED BY <1>2, <1>3, <1>4 DEF Next

\* goto_definition never answers from a parse older than the one that its
\* reference comes from, nor with nothing, and if from that parse then with the
\* struct under the cursor: the parse that stored the cache has merged its
\* definitions before anybody can look up a reference in it, none is merged
\* before the answer, and edits and closed files take none away.
THEOREM LanguageServerGotoRight == Spec => []GotoRight
<1>1. Init => Waiting /\ GotoInv
  <2> SUFFICES ASSUME Init PROVE Waiting /\ GotoInv
    OBVIOUS
  <2>1. Waiting
    BY DEF Init, Waiting
  <2>2. DefinitionsMade
    BY DEF Init, DefinitionsMade
  <2>3. CachesMerged /\ ParsesApart
    BY DEF Init, CachesMerged, ParsesApart
  <2>4. Asked /\ FoundMade
    BY DEF Init, Asked, FoundMade
  <2> QED BY <2>1, <2>2, <2>3, <2>4 DEF GotoInv
<1>2. IInv /\ Waiting /\ GotoInv /\ [Next]_vars => Waiting' /\ GotoInv'
  BY NextWaiting, NextGoto
<1>3. GotoInv => GotoRight
  BY DEF GotoInv, FoundMade, Answers, GotoRight
<1> QED BY <1>1, <1>2, <1>3, LanguageServerInvariant, PTL DEF Spec
=============================================================================
