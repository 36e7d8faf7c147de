----------------------------- MODULE Documents -----------------------------
(***************************************************************************)
(* One text document in the parallel LFortran language server: the         *)
(* handlers of its notifications (base_lsp_language_server.cpp,            *)
(* lfortran_lsp_language_server.cpp), which run on request threads, and    *)
(* the validations and highlight updates they start on the worker pool     *)
(* (parallel_lfortran_lsp_language_server.cpp).                            *)
(*                                                                         *)
(* The client numbers its notifications 1, 2, ...; notification n carries  *)
(* document version n and is known by its kind.  The text of a document is *)
(* the sequence of notifications that shaped it.  A LspTextDocument object *)
(* is an index into `objects`; handlers keep the pointer they looked up.   *)
(* Each step below is what happens under one acquisition of the locks.     *)
(***************************************************************************)
EXTENDS Integers, Sequences, FiniteSets

CONSTANTS MaxNotes,     \* bound on the notifications the client sends
          MaxBusy       \* bound on those whose handler or tasks are at work

ASSUME DocumentsAssumption == MaxNotes \in Nat /\ MaxBusy \in Nat \ {0}

VARIABLES note,        \* kinds of the notifications sent
          hpc,         \* where the handler of each notification is
          inTurn,      \* history: every handler that has begun to work on the
                       \* document did so after those of all earlier
                       \* notifications were through with it
          hdoc,        \* the document object it works on
          objects,     \* every LspTextDocument created: version and text
          current,     \* documentsByUri: the object of the URI, 0 if none
          validation,  \* validationsByUri: the flag registered, 0 if none;
                       \* a flag is named by the notification that created it
          running,     \* the flags taskIsRunning of the validation tasks
          vpc,         \* where the validation task of each notification is
          vlabel,      \* the version it read
          vtext,       \* the text it diagnosed
          published,   \* the diagnostics published last: label and diagnosed text
          kpc,         \* the highlight task of each notification
          highlights   \* highlightsByDocumentId: version and text by object

vars == <<note, hpc, inTurn, hdoc, objects, current, validation, running, vpc, vlabel,
          vtext, published, kpc, highlights>>
docVars == <<objects, current>>
validationVars == <<validation, running, vpc, vlabel, vtext, published>>
highlightVars == <<kpc, highlights>>

Notes == 1 .. MaxNotes
Kinds == {"open", "change", "close", "watch", "tokens"}
Missing == [version |-> -2, text |-> << >>]

Init ==
    /\ note = << >>
    /\ hpc = [n \in Notes |-> "none"]
    /\ inTurn = TRUE
    /\ hdoc = [n \in Notes |-> 0]
    /\ objects = << >>
    /\ current = 0
    /\ validation = 0
    /\ running = [n \in Notes |-> FALSE]
    /\ vpc = [n \in Notes |-> "none"]
    /\ vlabel = [n \in Notes |-> 0]
    /\ vtext = [n \in Notes |-> << >>]
    /\ published = [label |-> -1, text |-> << >>]
    /\ kpc = [n \in Notes |-> "none"]
    /\ highlights = << >>

\* Where a handler is before, and while, it changes what the document holds;
\* what it does afterwards (lookup, validate, highlight) only reads.
Waiting == {"open", "change", "close"}
Shaping == Waiting \cup {"update", "apply", "closing", "erase"}

Goto(n, label) ==
    /\ hpc' = [hpc EXCEPT ![n] = label]
    /\ inTurn' = (inTurn /\ (hpc[n] \in Waiting =>
                                \A m \in 1 .. n - 1 : hpc[m] \notin Shaping))

-----------------------------------------------------------------------------
(* The client: open, then changes, then close, then it may open again.      *)
(* "watch" stands for the notifications that validate every document,       *)
(* "tokens" for a semantic tokens request, which may come for a document    *)
(* that is not open.                                                        *)

Opened(notes) ==
    \E i \in 1 .. Len(notes) :
        /\ notes[i] = "open"
        /\ \A j \in i + 1 .. Len(notes) : notes[j] # "close"

InFlight == {n \in 1 .. Len(note) : hpc[n] # "done"}

\* The notifications that shape the text the client had after its first k: the
\* last open and the changes after it.
EditsUpTo(k) == {i \in 1 .. k : /\ note[i] \in {"open", "change"}
                                /\ \A j \in i + 1 .. k : note[j] # "open"}
Edits == EditsUpTo(Len(note))

Elements(text) == {text[k] : k \in 1 .. Len(text)}
InOrder(text) == \A k, l \in 1 .. Len(text) : k < l => text[k] < text[l]

\* The notifications with a handler or a task at work.
Busy == {n \in 1 .. Len(note) :
             hpc[n] # "done" \/ vpc[n] \notin {"none", "done", "failed"} \/ kpc[n] = "queued"}

Send(k) ==
    /\ Len(note) < MaxNotes
    /\ Cardinality(Busy) < MaxBusy
    /\ k = "open" => ~Opened(note)
    /\ k \in {"change", "close"} => Opened(note)
    /\ note' = Append(note, k)
    /\ Goto(Len(note) + 1, k)
    /\ UNCHANGED <<hdoc, docVars, validationVars, highlightVars>>

-----------------------------------------------------------------------------
(* Handlers on the request threads                                         *)

\* getDocument(): the registered object ...
GetDocument(n, from, to) ==
    /\ hpc[n] = from
    /\ current # 0
    /\ hdoc' = [hdoc EXCEPT ![n] = current]
    /\ Goto(n, to)
    /\ UNCHANGED <<note, docVars, validationVars, highlightVars>>

\* ... or a new one read from disk: its text holds no notification and its
\* version is -1.
LoadDocument(n, from, to) ==
    /\ hpc[n] = from
    /\ current = 0
    /\ objects' = Append(objects, [version |-> -1, text |-> << >>])
    /\ current' = Len(objects) + 1
    /\ highlights' = Append(highlights, Missing)
    /\ hdoc' = [hdoc EXCEPT ![n] = Len(objects) + 1]
    /\ Goto(n, to)
    /\ UNCHANGED <<note, validationVars, kpc>>

\* ... or the file cannot be read and the handler throws.
LoadFails(n) ==
    /\ hpc[n] \in {"change", "lookup", "close", "tokens"}
    /\ current = 0
    /\ Goto(n, "done")
    /\ UNCHANGED <<note, hdoc, docVars, validationVars, highlightVars>>

Lookup(n, from, to) == GetDocument(n, from, to) \/ LoadDocument(n, from, to)

\* didOpen: a new object, or the existing one is updated after the lock on
\* documentsByUri is released.
Open(n) ==
    /\ hpc[n] = "open"
    /\ IF current # 0
       THEN /\ hdoc' = [hdoc EXCEPT ![n] = current]
            /\ Goto(n, "update")
            /\ UNCHANGED <<docVars, highlights>>
       ELSE /\ objects' = Append(objects, [version |-> n, text |-> <<n>>])
            /\ current' = Len(objects) + 1
            /\ highlights' = Append(highlights, Missing)
            /\ Goto(n, "lookup")
            /\ UNCHANGED hdoc
    /\ UNCHANGED <<note, validationVars, kpc>>

\* Mutant: the text is replaced, the version is not.
UpdateTextOnly(n) ==
    /\ hpc[n] = "update"
    /\ objects' = [objects EXCEPT ![hdoc[n]].text = <<n>>]
    /\ Goto(n, "lookup")
    /\ UNCHANGED <<note, hdoc, current, validationVars, highlightVars>>

\* LspTextDocument::update
Update(n) ==
    /\ hpc[n] = "update"
    /\ objects' = [objects EXCEPT ![hdoc[n]] = [version |-> n, text |-> <<n>>]]
    /\ Goto(n, "lookup")
    /\ UNCHANGED <<note, hdoc, current, validationVars, highlightVars>>

\* LspTextDocument::apply; no version is ever compared.
Apply(n) ==
    /\ hpc[n] = "apply"
    /\ objects' = [objects EXCEPT ![hdoc[n]] =
                      [version |-> n, text |-> Append(@.text, n)]]
    /\ Goto(n, "lookup")
    /\ UNCHANGED <<note, hdoc, current, validationVars, highlightVars>>

\* decompose() throws for a range outside of the text, which the client cannot
\* have meant when the document has the text it had before the change; the
\* document stays as it is and the handler ends.
ApplyThrows(n) ==
    /\ hpc[n] = "apply"
    /\ LET text == objects[hdoc[n]].text IN ~(Elements(text) = EditsUpTo(n - 1) /\ InOrder(text))
    /\ Goto(n, "done")
    /\ UNCHANGED <<note, hdoc, docVars, validationVars, highlightVars>>

\* Mutant: the new validation is registered before the old one is canceled.
StartValidationCanceled(n) ==
    /\ running' = [running EXCEPT ![n] = FALSE]
    /\ validation' = n
    /\ vpc' = [vpc EXCEPT ![n] = "queued"]
    /\ UNCHANGED <<vlabel, vtext, published>>

\* ParallelLFortranLspLanguageServer::validate, under validationMutex.
StartValidation(n) ==
    /\ running' = [i \in Notes |-> i = n \/ (running[i] /\ i # validation)]
    /\ validation' = n
    /\ vpc' = [vpc EXCEPT ![n] = "queued"]
    /\ UNCHANGED <<vlabel, vtext, published>>

Validate(n) ==
    /\ hpc[n] = "validate"
    /\ StartValidation(n)
    /\ Goto(n, "highlight")
    /\ UNCHANGED <<note, hdoc, docVars, highlightVars>>

\* didChangeConfiguration, didDeleteFiles and didChangeWatchedFiles validate
\* every registered document, under documentMutex.
Watch(n) ==
    /\ hpc[n] = "watch"
    /\ hdoc' = [hdoc EXCEPT ![n] = current]
    /\ IF current # 0 THEN StartValidation(n) ELSE UNCHANGED validationVars
    /\ Goto(n, "done")
    /\ UNCHANGED <<note, docVars, highlightVars>>

\* updateHighlights only starts a task.
UpdateHighlights(n) ==
    /\ hpc[n] = "highlight"
    /\ kpc' = [kpc EXCEPT ![n] = "queued"]
    /\ Goto(n, "done")
    /\ UNCHANGED <<note, hdoc, docVars, validationVars, highlights>>

\* getHighlights(), under the locks: an entry is added when there is none; an
\* entry of another version stays, emplace_hint() replaces nothing.
GetHighlights(n) ==
    /\ hpc[n] = "highlights"
    /\ highlights' = IF highlights[hdoc[n]] = Missing
                     THEN [highlights EXCEPT ![hdoc[n]] = objects[hdoc[n]]]
                     ELSE highlights
    /\ Goto(n, "done")
    /\ UNCHANGED <<note, hdoc, docVars, validationVars, kpc>>

\* didClose erases the highlights of the object it looked up ...
CloseHighlights(n) ==
    /\ hpc[n] = "closing"
    /\ highlights' = [highlights EXCEPT ![hdoc[n]] = Missing]
    /\ Goto(n, "erase")
    /\ UNCHANGED <<note, hdoc, docVars, validationVars, kpc>>

\* ... and whatever object is registered by then.
CloseDocument(n) ==
    /\ hpc[n] = "erase"
    /\ current' = 0
    /\ Goto(n, "done")
    /\ UNCHANGED <<note, hdoc, objects, validationVars, highlightVars>>

Handler(n) ==
    \/ Open(n)
    \/ Update(n)
    \/ Lookup(n, "change", "apply")
    \/ Apply(n)
    \/ ApplyThrows(n)
    \/ Lookup(n, "lookup", "validate")
    \/ Watch(n)
    \/ Validate(n)
    \/ UpdateHighlights(n)
    \/ Lookup(n, "close", "closing")
    \/ CloseHighlights(n)
    \/ CloseDocument(n)
    \/ Lookup(n, "tokens", "highlights")
    \/ GetHighlights(n)
    \/ LoadFails(n)

-----------------------------------------------------------------------------
(* A validation on the worker pool                                         *)

VGoto(n, label) == vpc' = [vpc EXCEPT ![n] = label]
VUnchanged == UNCHANGED <<note, hpc, inTurn, hdoc, docVars, highlightVars>>

\* The pool drops a task that was canceled before a worker took it: such a
\* validation erases nothing.
ValidationBegin(n) ==
    /\ vpc[n] = "queued"
    /\ VGoto(n, IF running[n] THEN "begun" ELSE "done")
    /\ UNCHANGED <<validation, running, vlabel, vtext, published>>
    /\ VUnchanged

\* The first test of the flag, then the version is read.
ValidationLabel(n) ==
    /\ vpc[n] = "begun"
    /\ VGoto(n, IF running[n] THEN "diagnose" ELSE "erase")
    /\ vlabel' = IF running[n] THEN [vlabel EXCEPT ![n] = objects[hdoc[n]].version] ELSE vlabel
    /\ UNCHANGED <<validation, running, vtext, published>>
    /\ VUnchanged

\* Mutant: the text is taken from the version that requested the validation.
ValidationDiagnoseStale(n) ==
    /\ vpc[n] = "diagnose"
    /\ VGoto(n, "test")
    /\ vtext' = [vtext EXCEPT ![n] = SelectSeq(objects[hdoc[n]].text, LAMBDA i : i < vlabel[n])]
    /\ UNCHANGED <<validation, running, vlabel, published>>
    /\ VUnchanged

\* showErrors() on the text of the document, after the lock was released and
\* taken again around getCompilerOptions().
ValidationDiagnose(n) ==
    /\ vpc[n] = "diagnose"
    /\ VGoto(n, "test")
    /\ vtext' = [vtext EXCEPT ![n] = objects[hdoc[n]].text]
    /\ UNCHANGED <<validation, running, vlabel, published>>
    /\ VUnchanged

\* The compiler or the configuration throws; the exception is logged.
ValidationFails(n) ==
    /\ vpc[n] = "diagnose"
    /\ VGoto(n, "threw")
    /\ UNCHANGED <<validation, running, vlabel, vtext, published>>
    /\ VUnchanged

\* The second test of the flag ...
ValidationTest(n) ==
    /\ vpc[n] = "test"
    /\ VGoto(n, IF running[n] THEN "publish" ELSE "erase")
    /\ UNCHANGED <<validation, running, vlabel, vtext, published>>
    /\ VUnchanged

\* ... and the notification textDocument/publishDiagnostics.
ValidationPublish(n) ==
    /\ vpc[n] = "publish"
    /\ published' = [label |-> vlabel[n], text |-> vtext[n]]
    /\ VGoto(n, "erase")
    /\ UNCHANGED <<validation, running, vlabel, vtext>>
    /\ VUnchanged

\* The entry of the URI is erased, whichever validation it belongs to, and the
\* locals of the task are gone.
ValidationErase(n) ==
    /\ vpc[n] \in {"erase", "threw"}
    /\ validation' = 0
    /\ VGoto(n, IF vpc[n] = "erase" THEN "done" ELSE "failed")
    /\ vlabel' = [vlabel EXCEPT ![n] = 0]
    /\ vtext' = [vtext EXCEPT ![n] = << >>]
    /\ running' = [running EXCEPT ![n] = FALSE]
    /\ UNCHANGED published
    /\ VUnchanged

Validation(n) ==
    \/ ValidationBegin(n)
    \/ ValidationLabel(n)
    \/ ValidationDiagnose(n)
    \/ ValidationTest(n)
    \/ ValidationPublish(n)
    \/ ValidationErase(n)

-----------------------------------------------------------------------------
(* A highlight task on the worker pool, under the locks of the document     *)
(* and of the highlights.                                                   *)

\* Mutant: an entry is replaced by whatever task comes last.
HighlightAlways(n) ==
    /\ kpc[n] = "queued"
    /\ highlights' = [highlights EXCEPT ![hdoc[n]] = [objects[hdoc[n]] EXCEPT !.version = n]]
    /\ kpc' = [kpc EXCEPT ![n] = "done"]
    /\ UNCHANGED <<note, hpc, inTurn, hdoc, docVars, validationVars>>

Highlight(n) ==
    /\ kpc[n] = "queued"
    /\ highlights' = IF highlights[hdoc[n]].version < objects[hdoc[n]].version
                     THEN [highlights EXCEPT ![hdoc[n]] = objects[hdoc[n]]]
                     ELSE highlights
    /\ kpc' = [kpc EXCEPT ![n] = "done"]
    /\ UNCHANGED <<note, hpc, inTurn, hdoc, docVars, validationVars>>

Next ==
    \/ \E k \in Kinds : Send(k)
    \/ \E n \in Notes : Handler(n) \/ Validation(n) \/ ValidationFails(n) \/ Highlight(n)

Spec == Init /\ [][Next]_vars

-----------------------------------------------------------------------------
(* Properties                                                              *)

HandlerPC == {"none", "done", "update", "lookup", "apply", "validate", "highlight",
              "closing", "erase", "highlights"} \cup Kinds
ValidationPC == {"none", "queued", "begun", "diagnose", "test", "publish", "erase", "done",
                 "threw", "failed"}
Texts == Seq(Notes)

\* The type invariant; a task on the worker pool has a document to work on.
TypeOK ==
    /\ note \in Seq(Kinds) /\ Len(note) <= MaxNotes
    /\ hpc \in [Notes -> HandlerPC] /\ inTurn \in BOOLEAN
    /\ current \in 0 .. Len(objects)
    /\ hdoc \in [Notes -> 0 .. Len(objects)]
    /\ objects \in Seq([version : Notes \cup {-1}, text : Texts])
    /\ highlights \in Seq([version : Notes \cup {-1, -2}, text : Texts])
    /\ Len(highlights) = Len(objects)
    /\ validation \in 0 .. MaxNotes
    /\ running \in [Notes -> BOOLEAN]
    /\ vpc \in [Notes -> ValidationPC]
    /\ vlabel \in [Notes -> Notes \cup {-1, 0}]
    /\ vtext \in [Notes -> Texts]
    /\ published \in [label : Notes \cup {-1}, text : Texts]
    /\ kpc \in [Notes -> {"none", "queued", "done"}]
    /\ \A n \in Notes : (vpc[n] # "none" \/ kpc[n] # "none") => hdoc[n] # 0

\* The document is the one the client has, with all its edits in the order it
\* made them: test_document_manipulation.py asserts that
\* doc.version == rdoc["version"] and doc.text == rdoc["text"] after every edit.
DocumentAgrees ==
    /\ current # 0
    /\ LET document == objects[current] IN
       /\ Elements(document.text) = Edits
       /\ InOrder(document.text)
       /\ document.version = document.text[Len(document.text)]

\* However the handlers overlap, the server has the client's document once all
\* of them are through with it, unless one of them began before the handler of
\* an earlier notification was through: that is the only way to lose an edit.
\* Lookups, validations and highlights of earlier notifications, semantic tokens
\* and watched files may still be under way, a close and an open in between.
RemoteDocumentAgrees ==
    /\ TypeOK
    /\ (inTurn /\ Opened(note) /\ \A n \in InFlight : hpc[n] \notin Shaping) => DocumentAgrees

\* What is published under a version has been computed from a text that
\* contains the edit of that version (the text may be newer, never older),
\* unless a handler began out of turn.
PublishedCoversItsVersion ==
    inTurn /\ published.label # -1 => published.label \in Elements(published.text)

\* Cached highlights were computed from the text of the version they are filed
\* under: the last edit in that text is the one of that version.
HighlightsMatchVersion ==
    \A d \in 1 .. Len(highlights) :
        LET h == highlights[d] IN
        h.version \in Notes => h.text # << >> /\ h.text[Len(h.text)] = h.version

UnderWay(n) == running[n] /\ vpc[n] \notin {"none", "erase", "done", "threw", "failed"}

\* "If an older version of the document is being validated, cancel it so only
\* the latest version will be validated" (parallel_lfortran_lsp_language_server
\* .cpp, validate): no two validations of the document are under way that
\* nobody canceled.
OnlyLatestIsValidated ==
    \A m, n \in Notes :
        (UnderWay(m) /\ UnderWay(n)) => m = n
=============================================================================
