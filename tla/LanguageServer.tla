-------------------------- MODULE LanguageServer --------------------------
(***************************************************************************)
(* The language server, src/bin/languageserver/mod.rs: the handlers of the *)
(* editor's notifications and requests, the two mutexes `files` and        *)
(* `global_cache` they share, and the editor that sends the messages.      *)
(*                                                                         *)
(* The server runs on one thread.  A handler runs until an .await that     *)
(* cannot proceed, so what it does between two awaits is one step.  A lock *)
(* is tokio's: waiters get it in the order they asked.  Texts are version  *)
(* numbers; an edit makes one version into another, which may define more  *)
(* or fewer structs.                                                       *)
(***************************************************************************)
EXTENDS Integers, FiniteSets, SequencesExt

CONSTANTS
  Files,       \* the source files of the workspace
  Workspaces,  \* what the files import, in order, and how many structs each
               \* version of them defines; the kinds of messages that the
               \* editor sends, and a bound on their number
  MaxActive    \* the number of handlers that the service runs at a time

ASSUME LanguageServerAssumption ==
  /\ \A w \in Workspaces :
       /\ w.imports \in [Files -> Seq(Files)] /\ w.structs \in [Files -> Seq(Nat)]
       /\ w.kinds \subseteq {"open", "change", "save", "close", "hover", "completion",
                             "goto", "references", "rename"}
       /\ w.msgs \in Nat
  /\ IsFiniteSet(Files) /\ MaxActive \in Nat \ {0}

VARIABLES
  workspace,     \* one of the workspaces
  disk,          \* file -> version on disk
  doc,           \* file -> version in the editor, or NoText when closed
  inbox,         \* the messages not yet read
  count,         \* the number of messages the editor has sent
  msg,           \* handler -> its message
  pc,            \* handler -> what it does next
  snap,          \* handler -> the texts it parses, and when it read them
  found,         \* handler -> the reference it looked up
  text_buffers,  \* file -> version, or NoText
  caches,        \* file -> FileCache, or NoCache
  definitions,   \* file -> index -> the range of the definition (text and
                 \* place in it), and the parse that it is from
  files,         \* the requests for the mutex `files`; the first holds it
  global_cache,  \* the requests for the mutex `global_cache`
  diagnostics,   \* file -> the version whose diagnostics are shown, or NoText
  clock          \* the number of snapshots taken

client == <<workspace, disk, doc, count>>
store  == <<text_buffers, caches, definitions, diagnostics, clock>>
locks  == <<files, global_cache>>
vars   == <<client, inbox, msg, pc, snap, found, store, locks>>

NoText  == 0
Garbled == -1
NoCache == [ver |-> NoText, top |-> "none", text |-> <<>>, at |-> 0]
NoMsg   == [kind |-> "none", file |-> "none", base |-> NoText, ver |-> NoText,
            flag |-> FALSE]
NoSnap  == [text |-> <<>>, at |-> 0]
NoRef   == [file |-> "none", idx |-> 0, range |-> <<NoText, 0>>, at |-> 0, defs |-> <<>>]

Handlers == 1 .. MaxActive
-----------------------------------------------------------------------------
(* The compiler, as parse_file uses it.                                    *)

\* sema_file loads a file and then its imports, each file once.
LoadOrderOf(imports, top) ==
  LET depths == 0 .. Cardinality(Files)
      load[a \in depths \X Files \X Seq(Files)] ==
        IF a[1] = 0 \/ Contains(a[3], a[2]) THEN a[3]
        ELSE FoldLeft(LAMBDA loaded, f : load[<<a[1] - 1, f, loaded>>],
                      Append(a[3], a[2]), imports[a[2]])
  IN load[<<Cardinality(Files), top, <<>>>>]
LoadOrders == [w \in Workspaces |-> [top \in Files |-> LoadOrderOf(w.imports, top)]]
LoadPlace(top, f) ==
  LET order == LoadOrders[workspace][top] IN CHOOSE i \in DOMAIN order : order[i] = f

\* The files of the namespace: the one that is parsed and what it imports, in
\* any number of steps.
Namespace(top) ==
  {f \in Files : \A S \in SUBSET Files :
     top \in S /\ (\A g \in S : ToSet(workspace.imports[g]) \subseteq S) => f \in S}

\* The number of structs that text v of file f defines, at the top or in a
\* contract.
StructsIn(f, v) == IF v \in DOMAIN workspace.structs[f] THEN workspace.structs[f][v] ELSE 0

\* The structs ahead of those of file f: sema_file resolves the names of a file
\* before it goes on to its imports.
StructsAhead(top, text, f) ==
  UNION {{g} \X (1 .. StructsIn(g, text[g])) :
           g \in {g \in Namespace(top) : LoadPlace(top, g) < LoadPlace(top, f)}}

\* The number in Namespace::structs of the n-th struct of file f, when the file
\* top is parsed and the texts of its namespace are these.
StructIndex(top, text, f, n) == Cardinality(StructsAhead(top, text, f)) + n

\* Mutant: the file on disk goes before the text in the editor.
FileText_DiskFirst(f) == disk[f]

\* What the file resolver reads: the text of the editor, else the file.
FileText(f) == IF text_buffers[f] # NoText THEN text_buffers[f] ELSE disk[f]
-----------------------------------------------------------------------------
(* The mutexes.  A request names the handler and what it will do.          *)

\* Mutant: the mutex serves the last request first.
Request_Lifo(lock, h, stage) ==
  IF lock = <<>> THEN <<<<h, stage>>>> ELSE <<Head(lock), <<h, stage>>>> \o Tail(lock)

Request(lock, h, stage) == Append(lock, <<h, stage>>)

Holds(lock, h, stage) == lock # <<>> /\ Head(lock) = <<h, stage>>

Release(lock) == Tail(lock)

\* The requests that are left when the future of handler h is dropped: it has
\* at most one, as a waiter or as the holder.
Forget(lock, h) ==
  IF \E i \in 1 .. Len(lock) : lock[i][1] = h
  THEN RemoveAt(lock, CHOOSE i \in 1 .. Len(lock) : lock[i][1] = h)
  ELSE lock

Goto(h, stage) == pc' = [pc EXCEPT ![h] = stage]

\* Handler h has returned.
Done(h) ==
  /\ pc' = [pc EXCEPT ![h] = "idle"]
  /\ msg' = [msg EXCEPT ![h] = NoMsg]
  /\ snap' = [snap EXCEPT ![h] = NoSnap]
  /\ found' = [found EXCEPT ![h] = NoRef]
-----------------------------------------------------------------------------
Init ==
  /\ workspace \in Workspaces
  /\ disk = [f \in Files |-> 1]
  /\ doc = [f \in Files |-> NoText]
  /\ inbox = <<>> /\ count = 0
  /\ msg = [h \in Handlers |-> NoMsg]
  /\ pc = [h \in Handlers |-> "idle"]
  /\ snap = [h \in Handlers |-> NoSnap]
  /\ found = [h \in Handlers |-> NoRef]
  /\ text_buffers = [f \in Files |-> NoText]
  /\ caches = [f \in Files |-> NoCache]
  /\ definitions = [f \in Files |-> <<>>]
  /\ files = <<>> /\ global_cache = <<>>
  /\ diagnostics = [f \in Files |-> NoText]
  /\ clock = 0

\* The editor sends message m; the server's state is as it was.
Send(m) ==
  /\ m.kind \in workspace.kinds /\ count < workspace.msgs
  /\ inbox' = Append(inbox, m)
  /\ count' = count + 1
  /\ UNCHANGED <<msg, pc, snap, found, store, locks>>

Open(f) ==
  /\ doc[f] = NoText
  /\ doc' = [doc EXCEPT ![f] = disk[f]]
  /\ Send([NoMsg EXCEPT !.kind = "open", !.file = f, !.ver = disk[f]])
  /\ UNCHANGED <<workspace, disk>>

Change(f) ==
  /\ doc[f] # NoText
  /\ doc' = [doc EXCEPT ![f] = count + 2]
  /\ Send([NoMsg EXCEPT !.kind = "change", !.file = f, !.base = doc[f], !.ver = count + 2])
  /\ UNCHANGED <<workspace, disk>>

\* The notification includes the text or not.
Save(f, withText) ==
  /\ doc[f] # NoText
  /\ disk' = [disk EXCEPT ![f] = doc[f]]
  /\ Send([NoMsg EXCEPT !.kind = "save", !.file = f, !.flag = withText, !.ver = doc[f]])
  /\ UNCHANGED <<workspace, doc>>

Close(f) ==
  /\ doc[f] # NoText
  /\ doc' = [doc EXCEPT ![f] = NoText]
  /\ Send([NoMsg EXCEPT !.kind = "close", !.file = f])
  /\ UNCHANGED <<workspace, disk>>

\* A request about a place in file f; the flag is include_declaration.
Ask(kind, f, flag) ==
  /\ kind \in {"hover", "completion", "goto", "references", "rename"}
  /\ doc[f] # NoText
  /\ flag => kind = "references"
  /\ Send([NoMsg EXCEPT !.kind = kind, !.file = f, !.flag = flag])
  /\ UNCHANGED <<workspace, disk, doc>>

\* What a handler does first: all of them start by locking `files`.
FirstStage(m) ==
  CASE m.kind \in {"open", "change"} -> "update"
    [] m.kind = "save" -> IF m.flag THEN "update" ELSE "snapshot"
    [] m.kind = "close" -> "close"
    [] OTHER -> "lookup"

\* The service reads a message and polls its handler for the first time.
Start(h) ==
  /\ inbox # <<>>
  /\ pc[h] = "idle" /\ \A i \in 1 .. h - 1 : pc[i] # "idle"
  /\ inbox' = Tail(inbox)
  /\ msg' = [msg EXCEPT ![h] = Head(inbox)]
  /\ Goto(h, FirstStage(Head(inbox)))
  /\ files' = Request(files, h, FirstStage(Head(inbox)))
  /\ UNCHANGED <<client, snap, found, store, global_cache>>
-----------------------------------------------------------------------------
(* did_open, did_change, did_save and parse_file                           *)

\* The text after the message: an edit of another text than the one it was
\* made for garbles it.
NewText(m) ==
  LET old == text_buffers[m.file]
  IN CASE m.kind = "open" -> m.ver
       [] m.kind = "save" -> IF old = NoText THEN NoText ELSE m.ver
       [] m.kind = "change" -> CASE old = NoText -> NoText
                                 [] old = m.base -> m.ver
                                 [] OTHER -> Garbled

\* Mutant: parse_file is called in the scope of the guard.
Update_KeepsGuard(h) ==
  /\ pc[h] = "update" /\ Holds(files, h, "update")
  /\ text_buffers' = [text_buffers EXCEPT ![msg[h].file] = NewText(msg[h])]
  /\ Goto(h, "snapshot")
  /\ files' = Request(files, h, "snapshot")
  /\ UNCHANGED <<client, inbox, msg, snap, found, caches, definitions, diagnostics, clock,
                 global_cache>>

\* The text is updated and the guard dropped; parse_file locks again.
Update(h) ==
  /\ pc[h] = "update" /\ Holds(files, h, "update")
  /\ text_buffers' = [text_buffers EXCEPT ![msg[h].file] = NewText(msg[h])]
  /\ Goto(h, "snapshot")
  /\ files' = Request(Release(files), h, "snapshot")
  /\ UNCHANGED <<client, inbox, msg, snap, found, caches, definitions, diagnostics, clock,
                 global_cache>>

\* parse_file copies the texts, compiles without a lock or an await and asks
\* for `files` again.
Snapshot(h) ==
  /\ pc[h] = "snapshot" /\ Holds(files, h, "snapshot")
  /\ clock' = clock + 1
  /\ snap' = [snap EXCEPT ![h] = [text |-> [f \in Namespace(msg[h].file) |-> FileText(f)],
                                  at |-> clock + 1]]
  /\ Goto(h, "insert")
  /\ files' = Request(Release(files), h, "insert")
  /\ UNCHANGED <<client, inbox, msg, found, text_buffers, caches, definitions, diagnostics,
                 global_cache>>

\* The caches of all files of the namespace are replaced; `files` stays locked.
Insert(h) ==
  LET top == msg[h].file
  IN /\ pc[h] = "insert" /\ Holds(files, h, "insert")
     /\ caches' = [f \in Files |->
                     IF f \in Namespace(top)
                     THEN [ver |-> snap[h].text[f], top |-> top, text |-> snap[h].text,
                           at |-> snap[h].at]
                     ELSE caches[f]]
     /\ Goto(h, "merge")
     /\ global_cache' = Request(global_cache, h, "merge")
     /\ UNCHANGED <<client, inbox, msg, snap, found, text_buffers, definitions, diagnostics,
                    clock, files>>

\* What a parse of top defines in file f: index -> definition.
Defined(top, parse, f) ==
  LET structs == IF f \in Namespace(top) THEN 1 .. StructsIn(f, parse.text[f]) ELSE {}
  IN [i \in {StructIndex(top, parse.text, f, n) : n \in structs} |->
        [range |-> <<parse.text[f], CHOOSE n \in structs : StructIndex(top, parse.text, f, n) = i>>,
         at |-> parse.at]]

\* Mutant: the global cache is replaced.
Extend_Replaces(defs, top, parse) == [f \in Files |-> Defined(top, parse, f)]

\* GlobalCache::extend: what the namespace defines replaces entries with the
\* same file and index, and the others stay.
Extend(defs, top, parse) ==
  [f \in Files |-> [i \in DOMAIN Defined(top, parse, f) \cup DOMAIN defs[f] |->
     IF i \in DOMAIN Defined(top, parse, f) THEN Defined(top, parse, f)[i] ELSE defs[f][i]]]

\* The definitions are merged and the diagnostics sent, under both locks.
Merge(h) ==
  LET top == msg[h].file
  IN /\ pc[h] = "merge" /\ Holds(global_cache, h, "merge")
     /\ definitions' = Extend(definitions, top, snap[h])
     /\ diagnostics' = [diagnostics EXCEPT ![top] = snap[h].text[top]]
     /\ Goto(h, "publish")
     /\ UNCHANGED <<client, inbox, msg, snap, found, text_buffers, caches, clock, locks>>

\* publish_diagnostics has returned.
Publish(h) ==
  /\ pc[h] = "publish"
  /\ files' = Release(files)
  /\ global_cache' = Release(global_cache)
  /\ Done(h)
  /\ UNCHANGED <<client, inbox, store>>
-----------------------------------------------------------------------------
\* did_close: the file is forgotten, and after the unlock its diagnostics are
\* cleared.
DidClose(h) ==
  LET f == msg[h].file
  IN /\ pc[h] = "close" /\ Holds(files, h, "close")
     /\ caches' = [caches EXCEPT ![f] = NoCache]
     /\ text_buffers' = [text_buffers EXCEPT ![f] = NoText]
     /\ diagnostics' = [diagnostics EXCEPT ![f] = NoText]
     /\ Goto(h, "cleared")
     /\ files' = Release(files)
     /\ UNCHANGED <<client, inbox, msg, snap, found, definitions, clock, global_cache>>

Cleared(h) ==
  /\ pc[h] = "cleared"
  /\ Done(h)
  /\ UNCHANGED <<client, inbox, store, locks>>
-----------------------------------------------------------------------------
(* hover, completion, goto_definition and its siblings, references, rename *)

\* A reference to the n-th struct of file g in a cached file: its index in the
\* numbering of the parse.  The range of the struct in the text of that parse,
\* and the definitions at this moment, are kept for the property.
Reference(cache, g, n) ==
  [file |-> g, idx |-> StructIndex(cache.top, cache.text, g, n),
   range |-> <<cache.text[g], n>>, at |-> cache.at, defs |-> definitions[g]]

\* hover, any request about a file without a cache and one about a place that
\* is no reference return; completion answers in any place.
LookupReturns(h) ==
  /\ pc[h] = "lookup" /\ Holds(files, h, "lookup")
  /\ msg[h].kind # "completion" \/ caches[msg[h].file] = NoCache
  /\ Done(h)
  /\ files' = Release(files)
  /\ UNCHANGED <<client, inbox, store, global_cache>>

\* completion keeps `files` while it asks for `global_cache`.
LookupCompletion(h) ==
  /\ pc[h] = "lookup" /\ Holds(files, h, "lookup")
  /\ msg[h].kind = "completion" /\ caches[msg[h].file] # NoCache
  /\ Goto(h, "suggest")
  /\ global_cache' = Request(global_cache, h, "suggest")
  /\ UNCHANGED <<client, inbox, msg, snap, found, store, files>>

\* get_reference_from_params: the place is a reference, in the text as it was
\* parsed, to a struct of the file or of one that it imports.  The guard is
\* dropped before the next lock.
LookupReference(h) ==
  /\ pc[h] = "lookup" /\ Holds(files, h, "lookup")
  /\ msg[h].kind \in {"goto", "references", "rename"} /\ caches[msg[h].file] # NoCache
  /\ LET c == caches[msg[h].file]
     IN \E g \in Namespace(msg[h].file) : \E n \in 1 .. StructsIn(g, c.text[g]) :
          found' = [found EXCEPT ![h] = Reference(c, g, n)]
  /\ IF msg[h].kind = "goto"
     THEN /\ Goto(h, "resolve")
          /\ files' = Release(files)
          /\ global_cache' = Request(global_cache, h, "resolve")
     ELSE /\ Goto(h, "collect")
          /\ files' = Request(Release(files), h, "collect")
          /\ UNCHANGED global_cache
  /\ UNCHANGED <<client, inbox, msg, snap, store>>

\* goto_definition answers from the definitions.
AnswerGoto(h) ==
  /\ pc[h] = "resolve" /\ Holds(global_cache, h, "resolve")
  /\ Done(h)
  /\ global_cache' = Release(global_cache)
  /\ UNCHANGED <<client, inbox, store, files>>

\* references and rename go through the caches; references without the
\* declaration keeps `files` and asks for `global_cache` too.
Collect(h) ==
  /\ pc[h] = "collect" /\ Holds(files, h, "collect")
  /\ IF msg[h].kind = "references" /\ ~msg[h].flag
     THEN /\ Goto(h, "retain")
          /\ global_cache' = Request(global_cache, h, "retain")
          /\ UNCHANGED <<msg, snap, found, files>>
     ELSE /\ Done(h)
          /\ files' = Release(files)
          /\ UNCHANGED global_cache
  /\ UNCHANGED <<client, inbox, store>>

\* The end of completion and of references, under both locks.
AnswerBoth(h) ==
  /\ pc[h] \in {"suggest", "retain"} /\ Holds(global_cache, h, pc[h])
  /\ Done(h)
  /\ files' = Release(files)
  /\ global_cache' = Release(global_cache)
  /\ UNCHANGED <<client, inbox, store>>

\* The editor cancels a request: its future is dropped where it waits.
Cancel(h) ==
  /\ pc[h] \in {"lookup", "resolve", "collect", "suggest", "retain"}
  /\ Done(h)
  /\ files' = Forget(files, h)
  /\ global_cache' = Forget(global_cache, h)
  /\ UNCHANGED <<client, inbox, store>>
-----------------------------------------------------------------------------
Editor ==
  \/ \E f \in Files : Open(f) \/ Change(f) \/ Close(f)
  \/ \E f \in Files, withText \in BOOLEAN : Save(f, withText)
  \/ \E kind \in workspace.kinds, f \in Files, flag \in BOOLEAN : Ask(kind, f, flag)

Handle(h) ==
  \/ Update(h) \/ Snapshot(h) \/ Insert(h) \/ Merge(h) \/ Publish(h)
  \/ DidClose(h) \/ Cleared(h)
  \/ LookupReturns(h) \/ LookupCompletion(h) \/ LookupReference(h)
  \/ AnswerGoto(h) \/ Collect(h) \/ AnswerBoth(h)

Next ==
  \/ Editor
  \/ \E h \in Handlers : Start(h) \/ Handle(h) \/ Cancel(h)

\* The executor polls every handler that can go on, and the service reads on
\* when it has room.  The editor need not do anything.
Fairness ==
  /\ \A h \in Handlers : WF_vars(Handle(h))
  /\ WF_vars(\E h \in Handlers : Start(h))

Spec == Init /\ [][Next]_vars /\ Fairness
-----------------------------------------------------------------------------
\* parse_file reads the texts under one lock and stores the caches under
\* another one, and other handlers run in between: a newer result is never
\* replaced by one from an older snapshot.
NewestCacheStays ==
  [][\A f \in Files : caches[f] # NoCache /\ caches'[f] # NoCache
                         => caches'[f].at >= caches[f].at]_vars

Quiescent == inbox = <<>> /\ \A h \in Handlers : pc[h] = "idle"

\* Once the messages are handled, the text, the cache and the diagnostics of
\* every open file are those of the text in the editor.
UpToDate ==
  Quiescent => \A f \in Files :
    IF doc[f] = NoText THEN text_buffers[f] = NoText
    ELSE /\ text_buffers[f] = doc[f]
         /\ caches[f].ver = doc[f]
         /\ diagnostics[f] = doc[f]

\* Every message is handled: no handler waits for ever for a mutex that another
\* one, or it itself, holds, and the service never stops reading.
AllHandled ==
  /\ \A h \in Handlers : []<>(pc[h] = "idle")
  /\ []<>(inbox = <<>>)

\* goto_definition reads the reference under one lock and the definition under
\* another, from a cache that merges all parses and forgets none.  The
\* definition is there, though the file that has it may have been edited or
\* closed; no parse is merged between the two locks; and it is not older than
\* the reference.  If it comes from the same parse, it is the struct under the
\* cursor.  It may come from a later parse, which may number structs otherwise:
\* then "`def_path` paired with `def_type`" is not unique, as
\* src/bin/languageserver/mod.rs:89 says it is.
GotoRight ==
  \A h \in Handlers :
    pc[h] = "resolve" /\ Holds(global_cache, h, "resolve")
      => LET ref  == found[h]
             defs == definitions[ref.file]
         IN /\ ref.idx \in DOMAIN defs
            /\ defs = ref.defs
            /\ defs[ref.idx].at >= ref.at
            /\ defs[ref.idx].at = ref.at => defs[ref.idx].range = ref.range

-----------------------------------------------------------------------------
\* Three workspaces to explore: edits of two files, one importing the other;
\* requests between parses; requests about the structs of two files, one
\* importing the other, whose edits add structs and take some away.
TwoFilesEdited ==
  [imports |-> [f \in Files |-> IF f = "main" THEN <<"lib">> ELSE <<>>],
   structs |-> [f \in Files |-> <<1>>],
   kinds |-> {"open", "change", "save", "close"}, msgs |-> 4]

RequestsBetweenParses ==
  [imports |-> [f \in Files |-> <<>>], structs |-> [f \in Files |-> <<1>>],
   kinds |-> {"open", "close", "hover", "completion", "goto", "references", "rename"},
   msgs |-> 4]

StructsRenumbered ==
  [imports |-> [f \in Files |-> IF f = "main" THEN <<"lib">> ELSE <<>>],
   structs |-> [f \in Files |-> IF f = "main" THEN <<1, 0, 2, 0, 1>> ELSE <<2, 1, 1, 0, 2>>],
   kinds |-> {"open", "change", "close", "goto"}, msgs |-> 4]

SmallWorkspaces == {TwoFilesEdited, RequestsBetweenParses, StructsRenumbered}
=============================================================================
