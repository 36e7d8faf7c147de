--------------------------- MODULE DocumentsProofs ---------------------------
(***************************************************************************)
(* Theorems about Documents (the handlers of the notifications of a text   *)
(* document, its validations and its highlights), for any number of        *)
(* notifications and of handlers and tasks at work at once.  What is filed *)
(* under a version holds however they overlap; what the client relies on   *)
(* holds until a handler begins out of turn.                               *)
(***************************************************************************)
EXTENDS Documents, SequenceTheorems, TLAPS

USE DocumentsAssumption

-----------------------------------------------------------------------------
(* The inductive invariant, for any number of notifications in flight      *)

Docs == [version : Notes \cup {-1}, text : Texts]
Marks == [version : Notes \cup {-1, -2}, text : Texts]

\* A handler that needs a document has looked one up, and so has the handler
\* that started a task on the worker pool, which is past its last lookup.
WorkInv ==
    \A n \in Notes :
        /\ n > Len(note) => hpc[n] = "none"
        /\ hpc[n] \in {"update", "apply", "validate", "highlight", "closing", "highlights"} => hdoc[n] # 0
        /\ vpc[n] # "none" => hpc[n] \in {"highlight", "done"}
        /\ kpc[n] # "none" => hpc[n] = "done"
        /\ vpc[n] \in {"diagnose", "test", "publish"} => vlabel[n] # 0

\* The last edit in a text is the one of the version it goes by.
Labelled(o) == o.version \in Notes => o.text # << >> /\ o.text[Len(o.text)] = o.version

VersionInv ==
    /\ \A d \in 1 .. Len(objects) : Labelled(objects[d])
    /\ \A d \in 1 .. Len(highlights) : Labelled(highlights[d])

DocInv == TypeOK /\ WorkInv /\ VersionInv

LEMMA DocInitInv == Init => DocInv
<1> SUFFICES ASSUME Init PROVE DocInv
  OBVIOUS
<1> USE DEF Init
<1>1. /\ note \in Seq(Kinds) /\ Len(note) = 0
      /\ objects \in Seq([version : Notes \cup {-1}, text : Texts]) /\ Len(objects) = 0
      /\ highlights \in Seq([version : Notes \cup {-1, -2}, text : Texts]) /\ Len(highlights) = 0
  BY EmptySeq
<1>2. << >> \in Texts
  BY EmptySeq DEF Texts
<1>3. vtext \in [Notes -> Texts] /\ vlabel \in [Notes -> Notes \cup {-1, 0}]
  BY <1>2
<1>4. TypeOK
  <2>1. published \in [label : Notes \cup {-1}, text : Texts]
    BY <1>2
  <2> QED BY <1>1, <1>3, <2>1 DEF TypeOK, HandlerPC, ValidationPC
<1>5. WorkInv
  BY DEF WorkInv
<1>6. VersionInv
  BY <1>1 DEF VersionInv
<1> QED BY <1>4, <1>5, <1>6 DEF DocInv

\* The sizes and members of what is kept.
LEMMA DocTypes ==
  ASSUME DocInv
  PROVE  /\ Len(note) \in Nat /\ Len(objects) \in Nat /\ Len(highlights) = Len(objects)
         /\ objects \in Seq(Docs) /\ highlights \in Seq(Marks)
         /\ Docs \subseteq Marks /\ Missing \in Marks
         /\ [version |-> -1, text |-> << >>] \in Docs
         /\ \A d \in 1 .. Len(objects) : objects[d] \in Docs /\ highlights[d] \in Marks
         /\ \A n \in Notes : hdoc[n] # 0 => hdoc[n] \in 1 .. Len(objects)
<1>1. TypeOK
  BY DEF DocInv
<1>2. << >> \in Texts
  BY EmptySeq DEF Texts
<1>3. Docs \subseteq Marks /\ Missing \in Marks /\ [version |-> -1, text |-> << >>] \in Docs
  BY <1>2 DEF Docs, Marks, Missing
<1>4. objects \in Seq(Docs) /\ highlights \in Seq(Marks) /\ Len(highlights) = Len(objects)
  BY <1>1 DEF TypeOK, Docs, Marks
<1>5. Len(note) \in Nat /\ Len(objects) \in Nat
  BY <1>1, <1>4, LenProperties DEF TypeOK
<1>6. \A d \in 1 .. Len(objects) : objects[d] \in Docs /\ highlights[d] \in Marks
  BY <1>4, ElementOfSeq
<1>7. \A n \in Notes : hdoc[n] # 0 => hdoc[n] \in 1 .. Len(objects)
  BY <1>1, <1>5 DEF TypeOK
<1> QED BY <1>3, <1>4, <1>5, <1>6, <1>7

-----------------------------------------------------------------------------
(* What happens to the documents and to the highlights                     *)

\* A new document.
LEMMA NewObject ==
  ASSUME DocInv, NEW o \in Docs, Labelled(o),
         objects' = Append(objects, o), highlights' = Append(highlights, Missing)
  PROVE  /\ objects' \in Seq(Docs) /\ highlights' \in Seq(Marks)
         /\ Len(objects') = Len(objects) + 1 /\ Len(highlights') = Len(objects')
         /\ \A d \in 1 .. Len(objects) : objects'[d] = objects[d]
         /\ objects'[Len(objects) + 1] = o
         /\ VersionInv'
<1>0. /\ Len(objects) \in Nat /\ Len(highlights) = Len(objects)
      /\ objects \in Seq(Docs) /\ highlights \in Seq(Marks) /\ Missing \in Marks
  BY DocTypes
<1>1. /\ objects' \in Seq(Docs) /\ Len(objects') = Len(objects) + 1
      /\ \A d \in 1 .. Len(objects) : objects'[d] = objects[d]
      /\ objects'[Len(objects) + 1] = o
  BY <1>0, AppendProperties
<1>2. /\ highlights' \in Seq(Marks) /\ Len(highlights') = Len(objects) + 1
      /\ \A d \in 1 .. Len(objects) : highlights'[d] = highlights[d]
      /\ highlights'[Len(objects) + 1] = Missing
  BY <1>0, AppendProperties
<1>3. \A d \in 1 .. Len(objects) + 1 : d \in 1 .. Len(objects) \/ d = Len(objects) + 1
  BY <1>0
<1>4. Labelled(Missing)
  BY DEF Labelled, Missing, Notes
<1>5. VersionInv
  BY DEF DocInv
<1>6. \A d \in 1 .. Len(objects') : Labelled(objects'[d])
  BY <1>1, <1>3, <1>5 DEF VersionInv
<1>7. \A d \in 1 .. Len(highlights') : Labelled(highlights'[d])
  BY <1>0, <1>2, <1>3, <1>4, <1>5 DEF VersionInv
<1>8. VersionInv'
  BY <1>6, <1>7 DEF VersionInv
<1> QED BY <1>1, <1>2, <1>8

\* A document gets a new text and version.
LEMMA NewContent ==
  ASSUME DocInv, NEW d \in 1 .. Len(objects), NEW o \in Docs, Labelled(o),
         objects' = [objects EXCEPT ![d] = o], highlights' = highlights
  PROVE  /\ objects' \in Seq(Docs) /\ Len(objects') = Len(objects)
         /\ objects'[d] = o
         /\ \A i \in 1 .. Len(objects) : i # d => objects'[i] = objects[i]
         /\ VersionInv'
<1>1. objects \in Seq(Docs) /\ VersionInv
  BY DocTypes DEF DocInv
<1>2. /\ objects' \in Seq(Docs) /\ Len(objects') = Len(objects)
      /\ \A i \in 1 .. Len(objects) : objects'[i] = IF i = d THEN o ELSE objects[i]
  BY <1>1, ExceptSeq
<1>3. \A i \in 1 .. Len(objects') : Labelled(objects'[i])
  BY <1>1, <1>2 DEF VersionInv
<1>4. VersionInv'
  BY <1>1, <1>3 DEF VersionInv
<1> QED BY <1>2, <1>4

\* The highlights of a document are replaced.
LEMMA NewHighlights ==
  ASSUME DocInv, NEW d \in 1 .. Len(objects), NEW m \in Marks, Labelled(m),
         highlights' \in {highlights, [highlights EXCEPT ![d] = m]}, objects' = objects
  PROVE  highlights' \in Seq(Marks) /\ Len(highlights') = Len(objects') /\ VersionInv'
<1>1. highlights \in Seq(Marks) /\ VersionInv /\ Len(highlights) = Len(objects)
  BY DocTypes DEF DocInv
<1>2. CASE highlights' = highlights
  BY <1>1, <1>2 DEF VersionInv
<1>3. CASE highlights' = [highlights EXCEPT ![d] = m]
  <2>1. /\ highlights' \in Seq(Marks) /\ Len(highlights') = Len(highlights)
        /\ \A i \in 1 .. Len(highlights) : highlights'[i] = IF i = d THEN m ELSE highlights[i]
    BY <1>1, <1>3, ExceptSeq
  <2>2. \A i \in 1 .. Len(highlights') : Labelled(highlights'[i])
    BY <1>1, <2>1 DEF VersionInv
  <2> QED BY <1>1, <2>1, <2>2 DEF VersionInv
<1> QED BY <1>2, <1>3

\* What update() and apply() make of a text.
LEMMA EditedText ==
  ASSUME NEW t \in Texts, NEW n \in Notes
  PROVE  /\ [version |-> n, text |-> Append(t, n)] \in Docs
         /\ Labelled([version |-> n, text |-> Append(t, n)])
         /\ Elements(Append(t, n)) = Elements(t) \cup {n}
         /\ [version |-> n, text |-> <<n>>] \in Docs
         /\ Labelled([version |-> n, text |-> <<n>>])
         /\ Elements(<<n>>) = {n}
<1>1. /\ Append(t, n) \in Texts /\ Append(t, n) # << >> /\ Len(Append(t, n)) = Len(t) + 1 /\ Len(t) \in Nat
      /\ \A k \in 1 .. Len(t) : Append(t, n)[k] = t[k]
      /\ Append(t, n)[Len(t) + 1] = n
  BY AppendProperties, LenProperties DEF Texts
<1>2. <<n>> \in Texts /\ <<n>> # << >> /\ Len(<<n>>) = 1 /\ <<n>>[1] = n
  BY DEF Texts
<1>3. \A k \in 1 .. Len(t) + 1 : k \in 1 .. Len(t) \/ k = Len(t) + 1
  BY <1>1
<1>4. 1 .. Len(t) \subseteq 1 .. Len(t) + 1 /\ Len(t) + 1 \in 1 .. Len(t) + 1
  BY <1>1
<1>5. Elements(Append(t, n)) = Elements(t) \cup {n}
  BY <1>1, <1>3, <1>4 DEF Elements
<1>6. Elements(<<n>>) = {n}
  BY <1>2 DEF Elements
<1> QED BY <1>1, <1>2, <1>5, <1>6 DEF Docs, Labelled

-----------------------------------------------------------------------------
(* The client and the handlers keep the invariant                          *)

LEMMA TurnType ==
  ASSUME NEW n, NEW label, Goto(n, label)
  PROVE  inTurn' \in BOOLEAN
<1>1. (inTurn /\ (hpc[n] \in Waiting => \A m \in 1 .. n - 1 : hpc[m] \notin Shaping)) \in BOOLEAN
  OBVIOUS
<1> QED BY <1>1 DEF Goto

LEMMA SendKeepsDocInv ==
  ASSUME DocInv, NEW k \in Kinds, Send(k)
  PROVE  DocInv'
<1>0. TypeOK /\ WorkInv /\ VersionInv /\ Len(note) \in Nat
  BY DocTypes DEF DocInv
<1> USE DEF docVars, validationVars, highlightVars
<1>1. /\ Len(note) + 1 \in Notes /\ note' = Append(note, k) /\ hpc' = [hpc EXCEPT ![Len(note) + 1] = k]
      /\ UNCHANGED <<hdoc, objects, current, validation, running, vpc, vlabel, vtext, published, kpc, highlights>>
  BY <1>0 DEF Send, Goto, Notes
<1>2. note' \in Seq(Kinds) /\ Len(note') = Len(note) + 1
  BY <1>0, <1>1, AppendProperties DEF TypeOK
<1>3. TypeOK'
  <2>1. hpc' \in [Notes -> HandlerPC]
    BY <1>0, <1>1 DEF TypeOK, HandlerPC
  <2>2. Len(note') <= MaxNotes
    BY <1>1, <1>2 DEF Notes
  <2>3. inTurn' \in BOOLEAN
    BY TurnType DEF Send
  <2> QED BY <1>0, <1>1, <1>2, <2>1, <2>2, <2>3 DEF TypeOK
<1>4. WorkInv'
  <2>1. hpc[Len(note) + 1] = "none" /\ hpc'[Len(note) + 1] \in Kinds
    BY <1>0, <1>1 DEF WorkInv, TypeOK, Notes
  <2>2. \A n \in Notes : n # Len(note) + 1 => hpc'[n] = hpc[n]
    BY <1>0, <1>1 DEF TypeOK
  <2>3. \A n \in Notes : n > Len(note') => n > Len(note) /\ n # Len(note) + 1
    BY <1>0, <1>2 DEF Notes
  <2> QED BY <1>0, <1>1, <2>1, <2>2, <2>3 DEF WorkInv, Kinds
<1>5. VersionInv'
  BY <1>0, <1>1 DEF VersionInv
<1> QED BY <1>3, <1>4, <1>5 DEF DocInv

\* A handler goes on, and maybe looks a document up, before it starts a task.
LEMMA HandlerGoesOn ==
  ASSUME DocInv, NEW n \in Notes, NEW from, NEW to \in HandlerPC,
         hpc[n] = from, from \notin {"none", "highlight", "done"}, to # "none",
         hpc' = [hpc EXCEPT ![n] = to],
         hdoc' \in [Notes -> 0 .. Len(objects')],
         \A m \in Notes : m # n => hdoc'[m] = hdoc[m],
         to \in {"update", "apply", "validate", "highlight", "closing", "highlights"} => hdoc'[n] # 0,
         UNCHANGED <<note, validation, running, vpc, vlabel, vtext, published, kpc>>, inTurn' \in BOOLEAN,
         objects' \in Seq(Docs), highlights' \in Seq(Marks), Len(highlights') = Len(objects'),
         current' \in 0 .. Len(objects'), VersionInv'
  PROVE  DocInv'
<1>0. TypeOK /\ WorkInv /\ Len(note) \in Nat
  BY DocTypes DEF DocInv
<1>1. hpc' \in [Notes -> HandlerPC]
  BY <1>0 DEF TypeOK
<1>2. vpc[n] = "none" /\ kpc[n] = "none" /\ n <= Len(note)
  BY <1>0 DEF WorkInv, Notes
<1>3. TypeOK'
  <2>1. \A m \in Notes : (vpc[m] # "none" \/ kpc[m] # "none") => hdoc'[m] # 0
    BY <1>0, <1>2 DEF TypeOK
  <2> QED BY <1>0, <1>1, <2>1 DEF TypeOK, Docs, Marks
<1>4. WorkInv'
  <2>1. hpc'[n] = to /\ \A m \in Notes : m # n => hpc'[m] = hpc[m]
    BY <1>0 DEF TypeOK
  <2> QED BY <1>0, <1>2, <2>1 DEF WorkInv, Notes
<1> QED BY <1>3, <1>4 DEF DocInv

LEMMA LookupKeepsDocInv ==
  ASSUME DocInv, NEW n \in Notes, NEW from \in {"change", "lookup", "close", "tokens"},
         NEW to \in {"apply", "validate", "closing", "highlights"}, Lookup(n, from, to)
  PROVE  DocInv'
<1>0. TypeOK /\ VersionInv /\ Len(objects) \in Nat /\ objects \in Seq(Docs) /\ highlights \in Seq(Marks)
      /\ Len(highlights) = Len(objects) /\ to \in HandlerPC /\ [version |-> -1, text |-> << >>] \in Docs
  BY DocTypes DEF DocInv, HandlerPC
<1> USE DEF docVars, validationVars, highlightVars, Goto
<1>1. CASE GetDocument(n, from, to)
  <2>1. /\ hpc[n] = from /\ current # 0 /\ hdoc' = [hdoc EXCEPT ![n] = current]
        /\ hpc' = [hpc EXCEPT ![n] = to]
        /\ UNCHANGED <<note, objects, current, validation, running, vpc, vlabel, vtext, published, kpc, highlights>>
    BY <1>1 DEF GetDocument
  <2>2. /\ hdoc' \in [Notes -> 0 .. Len(objects')] /\ current' \in 0 .. Len(objects')
        /\ hdoc'[n] # 0 /\ \A m \in Notes : m # n => hdoc'[m] = hdoc[m]
    BY <1>0, <2>1 DEF TypeOK
  <2>3. VersionInv'
    BY <1>0, <2>1 DEF VersionInv
  <2>4. inTurn' \in BOOLEAN
    BY <1>1, TurnType DEF GetDocument
  <2> QED BY <1>0, <2>1, <2>2, <2>3, <2>4, HandlerGoesOn
<1>2. CASE LoadDocument(n, from, to)
  <2> DEFINE o == [version |-> -1, text |-> << >>]
  <2>1. /\ hpc[n] = from /\ hdoc' = [hdoc EXCEPT ![n] = Len(objects) + 1]
        /\ objects' = Append(objects, o) /\ current' = Len(objects) + 1
        /\ highlights' = Append(highlights, Missing)
        /\ hpc' = [hpc EXCEPT ![n] = to]
        /\ UNCHANGED <<note, validation, running, vpc, vlabel, vtext, published, kpc>>
    BY <1>2 DEF LoadDocument
  <2>2. o \in Docs /\ Labelled(o)
    BY <1>0 DEF Labelled, Notes
  <2> HIDE DEF o
  <2>3. /\ objects' \in Seq(Docs) /\ highlights' \in Seq(Marks)
        /\ Len(objects') = Len(objects) + 1 /\ Len(highlights') = Len(objects') /\ VersionInv'
    BY <2>1, <2>2, NewObject
  <2>4. /\ hdoc' \in [Notes -> 0 .. Len(objects')] /\ current' \in 0 .. Len(objects')
        /\ hdoc'[n] # 0 /\ \A m \in Notes : m # n => hdoc'[m] = hdoc[m]
    BY <1>0, <2>1, <2>3 DEF TypeOK
  <2>5. inTurn' \in BOOLEAN
    BY <1>2, TurnType DEF LoadDocument
  <2> QED BY <1>0, <2>1, <2>3, <2>4, <2>5, HandlerGoesOn
<1> QED BY <1>1, <1>2 DEF Lookup

LEMMA OpenKeepsDocInv ==
  ASSUME DocInv, NEW n \in Notes, Open(n)
  PROVE  DocInv'
<1>0. TypeOK /\ VersionInv /\ Len(objects) \in Nat /\ objects \in Seq(Docs) /\ highlights \in Seq(Marks)
      /\ Len(highlights) = Len(objects)
  BY DocTypes DEF DocInv
<1> USE DEF docVars, validationVars, highlightVars, Goto
<1>1. hpc[n] = "open" /\ UNCHANGED <<note, validation, running, vpc, vlabel, vtext, published, kpc>>
  BY DEF Open
<1>t. inTurn' \in BOOLEAN
  <2>1. Goto(n, "update") \/ Goto(n, "lookup")
    BY DEF Open
  <2> QED BY <2>1, TurnType
<1>2. CASE current # 0
  <2>1. /\ hdoc' = [hdoc EXCEPT ![n] = current] /\ hpc' = [hpc EXCEPT ![n] = "update"]
        /\ UNCHANGED <<objects, current, highlights>>
    BY <1>2 DEF Open
  <2>2. /\ hdoc' \in [Notes -> 0 .. Len(objects')] /\ current' \in 0 .. Len(objects')
        /\ hdoc'[n] # 0 /\ \A m \in Notes : m # n => hdoc'[m] = hdoc[m]
    BY <1>0, <1>2, <2>1 DEF TypeOK
  <2>3. VersionInv' /\ "update" \in HandlerPC
    BY <1>0, <2>1 DEF VersionInv, HandlerPC
  <2> QED BY <1>0, <1>1, <1>t, <2>1, <2>2, <2>3, HandlerGoesOn
<1>3. CASE current = 0
  <2> DEFINE o == [version |-> n, text |-> <<n>>]
  <2>1. /\ objects' = Append(objects, o) /\ current' = Len(objects) + 1
        /\ highlights' = Append(highlights, Missing)
        /\ hdoc' = hdoc /\ hpc' = [hpc EXCEPT ![n] = "lookup"]
    BY <1>3 DEF Open
  <2>2. << >> \in Texts
    BY EmptySeq DEF Texts
  <2>3. o \in Docs /\ Labelled(o)
    BY <2>2, EditedText
  <2> HIDE DEF o
  <2>4. /\ objects' \in Seq(Docs) /\ highlights' \in Seq(Marks)
        /\ Len(objects') = Len(objects) + 1 /\ Len(highlights') = Len(objects') /\ VersionInv'
    BY <2>1, <2>3, NewObject
  <2>5. hdoc' \in [Notes -> 0 .. Len(objects')] /\ current' \in 0 .. Len(objects') /\ "lookup" \in HandlerPC
    BY <1>0, <2>1, <2>4 DEF TypeOK, HandlerPC
  <2> QED BY <1>1, <1>t, <2>1, <2>4, <2>5, HandlerGoesOn
<1> QED BY <1>2, <1>3

\* The document a handler edits, and what becomes of it.
LEMMA EditKeepsDocInv ==
  ASSUME DocInv, NEW n \in Notes, Update(n) \/ Apply(n)
  PROVE  DocInv'
<1>0. TypeOK /\ WorkInv /\ Len(objects) \in Nat /\ highlights \in Seq(Marks) /\ Len(highlights) = Len(objects)
  BY DocTypes DEF DocInv
<1> USE DEF docVars, validationVars, highlightVars, Goto
<1>1. /\ hpc[n] \in {"update", "apply"} /\ hpc' = [hpc EXCEPT ![n] = "lookup"]
      /\ UNCHANGED <<note, hdoc, current, validation, running, vpc, vlabel, vtext, published, kpc, highlights>>
  BY DEF Update, Apply
<1>2. hdoc[n] \in 1 .. Len(objects) /\ objects[hdoc[n]] \in Docs
  BY <1>0, <1>1, DocTypes DEF WorkInv
<1>3. objects[hdoc[n]].text \in Texts
  BY <1>2 DEF Docs
<1>4. PICK o \in Docs : Labelled(o) /\ objects' = [objects EXCEPT ![hdoc[n]] = o]
  <2>1. CASE Update(n)
    BY <1>3, <2>1, EditedText DEF Update
  <2>2. CASE Apply(n)
    BY <1>3, <2>2, EditedText DEF Apply
  <2> QED BY <2>1, <2>2
<1>5. objects' \in Seq(Docs) /\ Len(objects') = Len(objects) /\ VersionInv'
  BY <1>1, <1>2, <1>4, NewContent
<1>6. hdoc' \in [Notes -> 0 .. Len(objects')] /\ current' \in 0 .. Len(objects') /\ "lookup" \in HandlerPC
  BY <1>0, <1>1, <1>5 DEF TypeOK, HandlerPC
<1>7. inTurn' \in BOOLEAN
  <2>1. Goto(n, "lookup")
    BY DEF Update, Apply
  <2> QED BY <2>1, TurnType
<1> QED BY <1>0, <1>1, <1>5, <1>6, <1>7, HandlerGoesOn

LEMMA HighlightsKeepDocInv ==
  ASSUME DocInv, NEW n \in Notes, GetHighlights(n) \/ CloseHighlights(n) \/ CloseDocument(n) \/ LoadFails(n)
                                \/ ApplyThrows(n)
  PROVE  DocInv'
<1>0. TypeOK /\ WorkInv /\ VersionInv /\ Len(objects) \in Nat /\ objects \in Seq(Docs)
      /\ highlights \in Seq(Marks) /\ Len(highlights) = Len(objects)
      /\ Missing \in Marks /\ Docs \subseteq Marks
      /\ {"done", "erase"} \subseteq HandlerPC
  BY DocTypes DEF DocInv, HandlerPC
<1> USE DEF docVars, validationVars, highlightVars, Goto
<1>1. UNCHANGED <<note, hdoc, objects, validation, running, vpc, vlabel, vtext, published, kpc>>
  BY DEF GetHighlights, CloseHighlights, CloseDocument, LoadFails, ApplyThrows
<1>2. hdoc' \in [Notes -> 0 .. Len(objects')] /\ current \in 0 .. Len(objects') /\ 0 \in 0 .. Len(objects')
  BY <1>0, <1>1 DEF TypeOK
<1>t. inTurn' \in BOOLEAN
  <2>1. Goto(n, "done") \/ Goto(n, "erase")
    BY DEF GetHighlights, CloseHighlights, CloseDocument, LoadFails, ApplyThrows
  <2> QED BY <2>1, TurnType
<1>3. CASE GetHighlights(n) \/ CloseHighlights(n)
  <2>1. hpc[n] \in {"highlights", "closing"} /\ hdoc[n] \in 1 .. Len(objects)
    BY <1>0, <1>3, DocTypes DEF GetHighlights, CloseHighlights, WorkInv
  <2>2. objects[hdoc[n]] \in Docs /\ Labelled(objects[hdoc[n]]) /\ Labelled(Missing)
    BY <1>0, <2>1, DocTypes DEF VersionInv, Labelled, Missing, Notes
  <2>3. PICK m \in Marks : Labelled(m) /\ highlights' \in {highlights, [highlights EXCEPT ![hdoc[n]] = m]}
    BY <1>0, <1>3, <2>2 DEF GetHighlights, CloseHighlights
  <2>4. highlights' \in Seq(Marks) /\ Len(highlights') = Len(objects') /\ VersionInv'
    BY <1>1, <2>1, <2>3, NewHighlights
  <2>5. current' = current
    BY <1>3 DEF GetHighlights, CloseHighlights
  <2>6. PICK to \in {"done", "erase"} : hpc' = [hpc EXCEPT ![n] = to]
    BY <1>3 DEF GetHighlights, CloseHighlights
  <2> QED BY <1>0, <1>1, <1>2, <1>t, <2>1, <2>4, <2>5, <2>6, HandlerGoesOn
<1>4. CASE CloseDocument(n) \/ LoadFails(n) \/ ApplyThrows(n)
  <2>1. /\ hpc[n] \in {"erase", "apply", "change", "lookup", "close", "tokens"} /\ hpc' = [hpc EXCEPT ![n] = "done"]
        /\ UNCHANGED highlights /\ current' \in {0, current}
    BY <1>4 DEF CloseDocument, LoadFails, ApplyThrows
  <2>2. VersionInv'
    BY <1>0, <1>1, <2>1 DEF VersionInv
  <2> QED BY <1>0, <1>1, <1>2, <1>t, <2>1, <2>2, HandlerGoesOn
<1> QED BY <1>3, <1>4

\* A handler starts a task on the worker pool.
LEMMA StartKeepsDocInv ==
  ASSUME DocInv, NEW n \in Notes, Validate(n) \/ Watch(n) \/ UpdateHighlights(n)
  PROVE  DocInv'
<1>0. TypeOK /\ WorkInv /\ VersionInv /\ Len(objects) \in Nat /\ Len(note) \in Nat
  BY DocTypes DEF DocInv
<1> USE DEF docVars, validationVars, highlightVars, Goto
<1>1. /\ UNCHANGED <<note, objects, current, highlights, vlabel, vtext, published>>
      /\ \A m \in Notes : m # n => hdoc'[m] = hdoc[m] /\ hpc'[m] = hpc[m] /\ vpc'[m] = vpc[m] /\ kpc'[m] = kpc[m]
      /\ hpc[n] \in {"validate", "watch", "highlight"} /\ n <= Len(note)
  <2>1. hpc[n] \in {"validate", "watch", "highlight"}
    BY DEF Validate, Watch, UpdateHighlights
  <2>2. n <= Len(note)
    BY <1>0, <2>1 DEF WorkInv, Notes
  <2> QED BY <1>0, <2>1, <2>2 DEF Validate, Watch, UpdateHighlights, StartValidation, TypeOK
<1>2. VersionInv'
  BY <1>0, <1>1 DEF VersionInv
<1>3. /\ hdoc' \in [Notes -> 0 .. Len(objects)]
      /\ hpc' \in [Notes -> HandlerPC]
      /\ vpc' \in [Notes -> ValidationPC]
      /\ kpc' \in [Notes -> {"none", "queued", "done"}]
  <2>0. /\ current \in 0 .. Len(objects) /\ hdoc \in [Notes -> 0 .. Len(objects)]
        /\ hpc \in [Notes -> HandlerPC] /\ {"highlight", "done"} \subseteq HandlerPC
        /\ vpc \in [Notes -> ValidationPC] /\ "queued" \in ValidationPC
        /\ kpc \in [Notes -> {"none", "queued", "done"}]
    BY <1>0 DEF TypeOK, HandlerPC, ValidationPC
  <2>1. CASE Validate(n)
    BY <2>0, <2>1 DEF Validate, StartValidation
  <2>2. CASE Watch(n)
    <3>1. vpc' \in {vpc, [vpc EXCEPT ![n] = "queued"]}
      BY <2>2 DEF Watch, StartValidation
    <3> QED BY <2>0, <2>2, <3>1 DEF Watch
  <2>3. CASE UpdateHighlights(n)
    BY <2>0, <2>3 DEF UpdateHighlights
  <2> QED BY <2>1, <2>2, <2>3
<1>4. running' \in [Notes -> BOOLEAN] /\ validation' \in 0 .. MaxNotes
  <2>1. CASE StartValidation(n)
    <3>1. \A i \in Notes : (i = n \/ (running[i] /\ i # validation)) \in BOOLEAN
      OBVIOUS
    <3> QED BY <1>0, <2>1, <3>1 DEF StartValidation, Notes, TypeOK
  <2>2. CASE UNCHANGED <<running, validation>>
    BY <1>0, <2>2 DEF TypeOK
  <2> QED BY <2>1, <2>2 DEF Validate, Watch, UpdateHighlights
<1>5. (vpc'[n] # "none" \/ kpc'[n] # "none") => hdoc'[n] # 0
  BY <1>0 DEF Validate, Watch, UpdateHighlights, StartValidation, TypeOK, WorkInv
<1>6. TypeOK'
  <2>1. Goto(n, "highlight") \/ Goto(n, "done")
    BY DEF Validate, Watch, UpdateHighlights
  <2>2. inTurn' \in BOOLEAN
    BY <2>1, TurnType
  <2> QED BY <1>0, <1>1, <1>3, <1>4, <1>5, <2>2 DEF TypeOK
<1>7. /\ vpc'[n] # "none" => hpc'[n] \in {"highlight", "done"}
      /\ kpc'[n] # "none" => hpc'[n] = "done"
      /\ hpc'[n] \in {"highlight", "done"} /\ (hpc'[n] = "highlight" => hdoc'[n] # 0)
      /\ vpc'[n] \in {"diagnose", "test", "publish"} => vpc'[n] = vpc[n]
  BY <1>0 DEF Validate, Watch, UpdateHighlights, StartValidation, TypeOK, WorkInv
<1>8. WorkInv'
  BY <1>0, <1>1, <1>7 DEF WorkInv, Notes
<1> QED BY <1>2, <1>6, <1>8 DEF DocInv

-----------------------------------------------------------------------------
(* The tasks on the worker pool keep the invariant                         *)

LEMMA TaskKeepsDocInv ==
  ASSUME DocInv, NEW n \in Notes, Validation(n) \/ ValidationFails(n) \/ Highlight(n)
  PROVE  DocInv'
<1>0. TypeOK /\ WorkInv /\ VersionInv /\ Len(objects) \in Nat /\ objects \in Seq(Docs)
      /\ highlights \in Seq(Marks) /\ Docs \subseteq Marks
  BY DocTypes DEF DocInv
<1> USE DEF docVars, validationVars, highlightVars, VGoto, VUnchanged
<1>1. ASSUME VUnchanged, NEW to \in ValidationPC, vpc[n] # "none", to # "none", vpc' = [vpc EXCEPT ![n] = to],
             running' \in [Notes -> BOOLEAN], validation' \in {validation, 0}, vlabel' \in [Notes -> Notes \cup {-1, 0}],
             vtext' \in [Notes -> Texts], \A m \in Notes : m # n => vlabel'[m] = vlabel[m],
             to \in {"diagnose", "test", "publish"} => vlabel'[n] # 0,
             published' \in [label : Notes \cup {-1}, text : Texts]
      PROVE  DocInv'
  <2>1. vpc' \in [Notes -> ValidationPC] /\ vpc'[n] = to /\ \A m \in Notes : m # n => vpc'[m] = vpc[m]
    BY <1>0, <1>1 DEF TypeOK
  <2>2. \A m \in Notes : vpc'[m] # "none" => vpc[m] # "none"
    BY <1>1, <2>1
  <2>3. validation' \in 0 .. MaxNotes
    BY <1>0, <1>1 DEF TypeOK
  <2>4. TypeOK'
    <3>2. \A m \in Notes : (vpc'[m] # "none" \/ kpc'[m] # "none") => hdoc'[m] # 0
      BY <1>0, <1>1, <2>2 DEF TypeOK
    <3> QED BY <1>0, <1>1, <2>1, <2>3, <3>2 DEF TypeOK
  <2>5. WorkInv'
    BY <1>0, <1>1, <2>1, <2>2 DEF WorkInv
  <2>6. VersionInv'
    BY <1>0, <1>1 DEF VersionInv
  <2> QED BY <2>4, <2>5, <2>6 DEF DocInv
<1>2. /\ vlabel \in [Notes -> Notes \cup {-1, 0}] /\ vtext \in [Notes -> Texts]
      /\ running \in [Notes -> BOOLEAN] /\ published \in [label : Notes \cup {-1}, text : Texts]
  BY <1>0 DEF TypeOK
<1>3. vpc[n] # "none" => hdoc[n] \in 1 .. Len(objects) /\ objects[hdoc[n]] \in Docs
  BY <1>0, DocTypes DEF TypeOK
<1>4. CASE ValidationBegin(n) \/ ValidationTest(n) \/ ValidationFails(n)
  <2>1. PICK to \in {"begun", "done", "publish", "erase", "threw"} : vpc' = [vpc EXCEPT ![n] = to]
                                                           /\ (to = "publish" => vpc[n] = "test")
    BY <1>4 DEF ValidationBegin, ValidationTest, ValidationFails
  <2>2. vpc[n] # "none" /\ VUnchanged /\ UNCHANGED <<validation, running, vlabel, vtext, published>>
    BY <1>4 DEF ValidationBegin, ValidationTest, ValidationFails
  <2>3. to \in ValidationPC /\ (to = "publish" => vlabel[n] # 0)
    BY <1>0, <2>1 DEF ValidationPC, WorkInv
  <2> QED BY <1>1, <1>2, <2>1, <2>2, <2>3
<1>5. CASE ValidationLabel(n)
  <2>1. vpc[n] # "none" /\ VUnchanged /\ UNCHANGED <<validation, running, vtext, published>>
    BY <1>5 DEF ValidationLabel
  <2>2. objects[hdoc[n]].version \in Notes \cup {-1} /\ objects[hdoc[n]].version # 0
    BY <1>3, <2>1 DEF Docs, Notes
  <2>3. CASE running[n]
    <3>1. vpc' = [vpc EXCEPT ![n] = "diagnose"] /\ vlabel' = [vlabel EXCEPT ![n] = objects[hdoc[n]].version]
      BY <1>5, <2>3 DEF ValidationLabel
    <3>2. vlabel' \in [Notes -> Notes \cup {-1, 0}] /\ vlabel'[n] # 0 /\ \A m \in Notes : m # n => vlabel'[m] = vlabel[m]
      BY <1>2, <2>2, <3>1
    <3> QED BY <1>1, <1>2, <2>1, <3>1, <3>2 DEF ValidationPC
  <2>4. CASE ~running[n]
    <3>1. vpc' = [vpc EXCEPT ![n] = "erase"] /\ vlabel' = vlabel
      BY <1>5, <2>4 DEF ValidationLabel
    <3> QED BY <1>1, <1>2, <2>1, <3>1 DEF ValidationPC
  <2> QED BY <2>3, <2>4
<1>6. CASE ValidationDiagnose(n)
  <2>1. /\ vpc[n] = "diagnose" /\ VUnchanged /\ UNCHANGED <<validation, running, vlabel, published>>
        /\ vpc' = [vpc EXCEPT ![n] = "test"] /\ vtext' = [vtext EXCEPT ![n] = objects[hdoc[n]].text]
    BY <1>6 DEF ValidationDiagnose
  <2>2. vtext' \in [Notes -> Texts]
    BY <1>2, <1>3, <2>1 DEF Docs
  <2>3. vlabel[n] # 0
    BY <1>0, <2>1 DEF WorkInv
  <2> QED BY <1>1, <1>2, <2>1, <2>2, <2>3 DEF ValidationPC
<1>7. CASE ValidationPublish(n)
  <2>1. /\ vpc[n] = "publish" /\ VUnchanged /\ UNCHANGED <<validation, running, vlabel, vtext>>
        /\ vpc' = [vpc EXCEPT ![n] = "erase"]
        /\ published' = [label |-> vlabel[n], text |-> vtext[n]]
    BY <1>7 DEF ValidationPublish
  <2>2. vlabel[n] # 0 /\ vlabel[n] \in Notes \cup {-1} /\ vtext[n] \in Texts
    BY <1>0, <1>2, <2>1 DEF WorkInv
  <2> QED BY <1>1, <1>2, <2>1, <2>2 DEF ValidationPC
<1>8. CASE ValidationErase(n)
  <2>1. PICK to \in {"done", "failed"} : vpc' = [vpc EXCEPT ![n] = to]
    BY <1>8 DEF ValidationErase
  <2>2. /\ vpc[n] # "none" /\ VUnchanged /\ UNCHANGED published /\ running' = [running EXCEPT ![n] = FALSE] /\ validation' = 0
        /\ vlabel' = [vlabel EXCEPT ![n] = 0] /\ vtext' = [vtext EXCEPT ![n] = << >>]
    BY <1>8 DEF ValidationErase
  <2>3. << >> \in Texts
    BY EmptySeq DEF Texts
  <2>4. vlabel' \in [Notes -> Notes \cup {-1, 0}] /\ vtext' \in [Notes -> Texts]
        /\ \A m \in Notes : m # n => vlabel'[m] = vlabel[m]
        /\ running' \in [Notes -> BOOLEAN]
    BY <1>2, <2>2, <2>3
  <2> QED BY <1>1, <1>2, <2>1, <2>2, <2>4 DEF ValidationPC
<1>9. CASE Highlight(n)
  <2>1. /\ kpc[n] = "queued" /\ kpc' = [kpc EXCEPT ![n] = "done"]
        /\ highlights' \in {highlights, [highlights EXCEPT ![hdoc[n]] = objects[hdoc[n]]]}
        /\ UNCHANGED <<note, hpc, inTurn, hdoc, objects, current, validation, running, vpc, vlabel, vtext, published>>
    BY <1>9 DEF Highlight
  <2>2. hdoc[n] \in 1 .. Len(objects) /\ objects[hdoc[n]] \in Marks /\ Labelled(objects[hdoc[n]])
    BY <1>0, <2>1, DocTypes DEF TypeOK, VersionInv
  <2>3. highlights' \in Seq(Marks) /\ Len(highlights') = Len(objects') /\ VersionInv'
    BY <2>1, <2>2, NewHighlights
  <2>4. kpc' \in [Notes -> {"none", "queued", "done"}] /\ \A m \in Notes : kpc'[m] # "none" => kpc[m] # "none"
    BY <1>0, <2>1 DEF TypeOK
  <2>5. TypeOK'
    BY <1>0, <2>1, <2>3, <2>4 DEF TypeOK, Marks
  <2>6. WorkInv'
    BY <1>0, <2>1, <2>4 DEF WorkInv
  <2> QED BY <2>3, <2>5, <2>6 DEF DocInv
<1> QED BY <1>4, <1>5, <1>6, <1>7, <1>8, <1>9 DEF Validation

LEMMA DocNextInv == DocInv /\ [Next]_vars => DocInv'
<1> SUFFICES ASSUME DocInv, [Next]_vars PROVE DocInv'
  OBVIOUS
<1>1. CASE UNCHANGED vars
  BY <1>1 DEF vars, DocInv, TypeOK, WorkInv, VersionInv
<1>2. ASSUME NEW k \in Kinds, Send(k) PROVE DocInv'
  BY <1>2, SendKeepsDocInv
<1>3. ASSUME NEW n \in Notes, Handler(n) PROVE DocInv'
  <2>1. ASSUME NEW from \in {"change", "lookup", "close", "tokens"},
               NEW to \in {"apply", "validate", "closing", "highlights"}, Lookup(n, from, to)
        PROVE  DocInv'
    BY <2>1, LookupKeepsDocInv
  <2> QED
    BY <1>3, <2>1, OpenKeepsDocInv, EditKeepsDocInv, HighlightsKeepDocInv, StartKeepsDocInv DEF Handler
<1>4. ASSUME NEW n \in Notes, Validation(n) \/ ValidationFails(n) \/ Highlight(n) PROVE DocInv'
  BY <1>4, TaskKeepsDocInv
<1> QED BY <1>1, <1>2, <1>3, <1>4 DEF Next

\* However the handlers, the highlight tasks and the semantic tokens requests of
\* a document overlap, highlights that are filed under a version were computed
\* from the text of that version.
THEOREM DocumentsHighlightsMatch == Spec => []HighlightsMatchVersion
<1>1. DocInv => HighlightsMatchVersion
  BY DEF DocInv, VersionInv, Labelled, HighlightsMatchVersion
<1> QED BY <1>1, DocInitInv, DocNextInv, PTL DEF Spec

-----------------------------------------------------------------------------
(* The inductive invariant about the document, while the handlers begin in *)
(* turn                                                                    *)

\* No document is registered, or one that was read from disk.
Fresh == current = 0 \/ objects[current].version = -1

\* The client opens, changes and closes the document in this order.
ClientInv ==
    \A n \in 1 .. Len(note) :
        /\ note[n] = "open" => \A i \in 1 .. n - 1 : note[i] = "open" => \E j \in i + 1 .. n - 1 : note[j] = "close"
        /\ note[n] \in {"change", "close"} =>
               \E i \in 1 .. n - 1 : note[i] = "open" /\ \A j \in i + 1 .. n - 1 : note[j] # "close"

\* What a handler does to the document is what its notification is for.
KindInv ==
    \A n \in 1 .. Len(note) :
        /\ hpc[n] \in {"open", "update"} => note[n] = "open"
        /\ hpc[n] \in {"change", "apply"} => note[n] = "change"
        /\ hpc[n] \in {"close", "closing", "erase"} => note[n] = "close"

\* Behind a handler that is not through with the document the others wait.
TurnInv ==
    \A m, n \in 1 .. Len(note) :
        m < n /\ hpc[m] \in Shaping /\ note[n] \in Waiting => hpc[n] = note[n]

\* Of the notifications that the server is through with: whether they leave the
\* document open, and the edits they leave in it.
Through(n) == hpc[n] \notin Shaping
ServerOpened ==
    \E i \in 1 .. Len(note) :
        /\ note[i] = "open" /\ Through(i)
        /\ \A j \in i + 1 .. Len(note) : note[j] = "close" => ~Through(j)
ServerEdits ==
    {i \in 1 .. Len(note) :
        /\ note[i] \in {"open", "change"} /\ Through(i)
        /\ \A j \in i + 1 .. Len(note) : note[j] = "open" => ~Through(j)}

\* The document holds these edits; one that the client has not opened was read
\* from disk, and a handler that edits works on the registered one.
HoldsInv ==
    /\ ServerOpened =>
        /\ current # 0
        /\ objects[current].version # -1
        /\ Elements(objects[current].text) = ServerEdits
        /\ InOrder(objects[current].text)
    /\ ~ServerOpened => Fresh
    /\ \A n \in Notes : hpc[n] \in {"update", "apply"} => hdoc[n] = current

OrderInv == ClientInv /\ KindInv /\ (inTurn => TurnInv /\ HoldsInv)

LEMMA OrderInitInv == Init => OrderInv
<1> SUFFICES ASSUME Init PROVE OrderInv
  OBVIOUS
<1>1. Len(note) = 0 /\ 1 .. Len(note) = {} /\ Fresh
  BY DEF Init, Fresh
<1>2. ~ServerOpened
  BY <1>1 DEF ServerOpened
<1> QED BY <1>1, <1>2 DEF OrderInv, ClientInv, KindInv, TurnInv, HoldsInv, Init

-----------------------------------------------------------------------------
(* What the server is through with                                         *)

\* The notifications known so far are among those of the model.
LEMMA Sent ==
  ASSUME DocInv
  PROVE  /\ Len(note) \in Nat
         /\ \A n \in 1 .. Len(note) : n \in Notes /\ n \in Nat /\ n >= 1 /\ note[n] \in Kinds
         /\ \A n \in Notes : hpc[n] # "none" => n \in 1 .. Len(note)
<1>1. Len(note) \in Nat /\ note \in Seq(Kinds) /\ Len(note) <= MaxNotes /\ WorkInv
  BY DocTypes DEF DocInv, TypeOK
<1>2. \A n \in 1 .. Len(note) : n \in Notes /\ n \in Nat /\ n >= 1 /\ note[n] \in Kinds
  BY <1>1, ElementOfSeq DEF Notes
<1>3. \A n \in Notes : hpc[n] # "none" => n \in 1 .. Len(note)
  BY <1>1 DEF WorkInv, Notes
<1> QED BY <1>1, <1>2, <1>3

\* It is through with the same notifications.
LEMMA SameThrough ==
  ASSUME DocInv, UNCHANGED note, \A m \in 1 .. Len(note) : Through(m)' <=> Through(m)
  PROVE  (ServerOpened' <=> ServerOpened) /\ ServerEdits' = ServerEdits
<1>1. \A i \in 1 .. Len(note) : \A j \in i + 1 .. Len(note) : j \in 1 .. Len(note)
  BY Sent
<1> QED BY <1>1 DEF ServerOpened, ServerEdits

\* The handler of notification n has the document to itself: what the server is
\* through with is what the client sent before.
Alone(n) ==
    /\ n \in 1 .. Len(note) /\ hpc[n] \in Shaping
    /\ \A m \in 1 .. Len(note) : m # n /\ note[m] \in Waiting => (Through(m) <=> m < n)
    /\ \A m \in Notes : m # n => hpc[m] \notin {"update", "apply", "closing", "erase"}

LEMMA AloneInTurn ==
  ASSUME DocInv, KindInv, TurnInv, NEW n \in Notes, hpc[n] \in Shaping,
         hpc[n] \in Waiting => \A m \in 1 .. n - 1 : hpc[m] \notin Shaping
  PROVE  Alone(n) /\ note[n] \in Waiting
<1>1. n \in 1 .. Len(note)
  BY Sent DEF Shaping, Waiting
<1>2. note[n] \in Waiting
  BY <1>1 DEF KindInv, Shaping, Waiting
<1>3. ASSUME NEW m \in 1 .. Len(note), m < n PROVE hpc[m] \notin Shaping
  <2>1. CASE hpc[n] \in Waiting
    <3>1. m \in 1 .. n - 1
      BY <1>1, <1>3, Sent
    <3> QED BY <2>1, <3>1
  <2>2. CASE hpc[n] \notin Waiting
    BY <1>1, <1>2, <1>3, <2>2 DEF TurnInv
  <2> QED BY <2>1, <2>2
<1>4. ASSUME NEW m \in 1 .. Len(note), m > n, note[m] \in Waiting PROVE hpc[m] = note[m]
  BY <1>1, <1>4, Sent DEF TurnInv
<1>5. \A m \in 1 .. Len(note) : m # n => m < n \/ m > n
  BY <1>1, Sent
<1>6. \A m \in 1 .. Len(note) : m # n /\ note[m] \in Waiting => (Through(m) <=> m < n)
  <2> SUFFICES ASSUME NEW m \in 1 .. Len(note), m # n, note[m] \in Waiting PROVE Through(m) <=> m < n
    OBVIOUS
  <2>1. CASE m < n
    BY <1>3, <2>1 DEF Through
  <2>2. CASE m > n
    <3>1. ~(m < n)
      BY <1>1, <2>2, Sent
    <3> QED BY <1>4, <2>2, <3>1 DEF Through, Shaping
  <2> QED BY <1>5, <2>1, <2>2
<1>7. \A m \in Notes : m # n => hpc[m] \notin {"update", "apply", "closing", "erase"}
  <2> SUFFICES ASSUME NEW m \in Notes, m # n, hpc[m] \in {"update", "apply", "closing", "erase"} PROVE FALSE
    OBVIOUS
  <2>1. m \in 1 .. Len(note) /\ note[m] \in Waiting /\ hpc[m] \in Shaping /\ hpc[m] \notin Waiting
    <3>1. m \in 1 .. Len(note)
      BY Sent
    <3> QED BY <3>1 DEF KindInv, Shaping, Waiting
  <2> QED BY <1>3, <1>4, <1>5, <2>1
<1> QED BY <1>1, <1>2, <1>6, <1>7 DEF Alone

\* Before such a handler works on the document the server is where the client was
\* before it sent the notification.
LEMMA AloneBefore ==
  ASSUME DocInv, ClientInv, NEW n, Alone(n), note[n] \in Waiting
  PROVE  /\ note[n] = "open" => ~ServerOpened
         /\ note[n] \in {"change", "close"} => ServerOpened
         /\ note[n] # "open" => ServerEdits = EditsUpTo(n - 1)
         /\ \A i \in EditsUpTo(n - 1) : i \in Nat /\ i < n
<1> DEFINE N == Len(note)
<1>1. /\ N \in Nat /\ n \in 1 .. N /\ ~Through(n)
      /\ \A m \in 1 .. N : m # n /\ note[m] \in Waiting => (Through(m) <=> m < n)
  BY Sent DEF Alone, Through
<1>2. \A m \in 1 .. N : note[m] \in Waiting => (Through(m) <=> m < n)
  BY <1>1
<1> HIDE DEF N
<1>3. /\ \A i \in 1 .. n - 1 : i \in 1 .. N /\ i < n /\ i \in Nat
      /\ \A i \in 1 .. N : i < n <=> i \in 1 .. n - 1
  BY <1>1
<1>4. /\ \A i \in 1 .. n - 1 : \A j \in i + 1 .. n - 1 : j \in i + 1 .. N /\ j \in 1 .. N /\ j < n
      /\ \A i \in 1 .. N : \A j \in i + 1 .. N : j \in 1 .. N /\ (j < n => i \in 1 .. n - 1 /\ j \in i + 1 .. n - 1)
  BY <1>1
<1>5. note[n] = "open" => ~ServerOpened
  <2> SUFFICES ASSUME note[n] = "open", NEW i \in 1 .. N, note[i] = "open", Through(i),
                      \A j \in i + 1 .. N : note[j] = "close" => ~Through(j)
               PROVE  FALSE
    BY DEF ServerOpened, N
  <2>1. i \in 1 .. n - 1
    BY <1>2, <1>3 DEF Waiting
  <2>2. PICK j \in i + 1 .. n - 1 : note[j] = "close"
    BY <1>1, <2>1 DEF ClientInv, N
  <2> QED BY <1>2, <1>4, <2>1, <2>2 DEF Waiting
<1>6. note[n] \in {"change", "close"} => ServerOpened
  <2> SUFFICES ASSUME note[n] \in {"change", "close"} PROVE ServerOpened
    OBVIOUS
  <2>1. PICK i \in 1 .. n - 1 : note[i] = "open" /\ \A j \in i + 1 .. n - 1 : note[j] # "close"
    BY <1>1 DEF ClientInv, N
  <2>2. i \in 1 .. N /\ Through(i)
    BY <1>2, <1>3, <2>1 DEF Waiting
  <2>3. ASSUME NEW j \in i + 1 .. N, note[j] = "close" PROVE ~Through(j)
    BY <1>2, <1>4, <2>1, <2>2, <2>3 DEF Waiting
  <2> QED BY <2>1, <2>2, <2>3 DEF ServerOpened, N
<1>7. note[n] # "open" => ServerEdits = EditsUpTo(n - 1)
  <2> SUFFICES ASSUME note[n] # "open" PROVE ServerEdits = EditsUpTo(n - 1)
    OBVIOUS
  <2>1. ASSUME NEW i \in ServerEdits PROVE i \in EditsUpTo(n - 1)
    <3>1. /\ i \in 1 .. N /\ note[i] \in {"open", "change"} /\ Through(i)
          /\ \A j \in i + 1 .. N : note[j] = "open" => ~Through(j)
      BY DEF ServerEdits, N
    <3>2. i \in 1 .. n - 1
      BY <1>2, <1>3, <3>1 DEF Waiting
    <3>3. ASSUME NEW j \in i + 1 .. n - 1 PROVE note[j] # "open"
      BY <1>2, <1>4, <3>1, <3>2 DEF Waiting
    <3> QED BY <3>1, <3>2, <3>3 DEF EditsUpTo
  <2>2. ASSUME NEW i \in EditsUpTo(n - 1) PROVE i \in ServerEdits
    <3>1. i \in 1 .. n - 1 /\ note[i] \in {"open", "change"} /\ \A j \in i + 1 .. n - 1 : note[j] # "open"
      BY DEF EditsUpTo
    <3>2. i \in 1 .. N /\ Through(i)
      BY <1>2, <1>3, <3>1 DEF Waiting
    <3>3. ASSUME NEW j \in i + 1 .. N, note[j] = "open" PROVE ~Through(j)
      BY <1>2, <1>4, <3>1, <3>2, <3>3 DEF Waiting
    <3> QED BY <3>1, <3>2, <3>3 DEF ServerEdits, N
  <2> QED BY <2>1, <2>2
<1>8. \A i \in EditsUpTo(n - 1) : i \in Nat /\ i < n
  BY <1>3 DEF EditsUpTo
<1> QED BY <1>5, <1>6, <1>7, <1>8

\* What it leaves when it is through with the document.
LEMMA AloneAfter ==
  ASSUME DocInv, NEW n \in Notes, Alone(n), note[n] \in Waiting, UNCHANGED note,
         NEW to, to \notin Shaping, hpc' = [hpc EXCEPT ![n] = to]
  PROVE  /\ note[n] = "open" => ServerOpened' /\ ServerEdits' = {n}
         /\ note[n] = "change" => (ServerOpened' <=> ServerOpened) /\ ServerEdits' = ServerEdits \cup {n}
         /\ note[n] = "close" => ~ServerOpened'
<1> DEFINE N == Len(note)
<1>1. /\ N \in Nat /\ n \in 1 .. N /\ ~Through(n)
      /\ \A m \in 1 .. N : m # n /\ note[m] \in Waiting => (Through(m) <=> m < n)
  BY Sent DEF Alone, Through
<1>2. \A m \in 1 .. N : Through(m)' <=> m = n \/ Through(m)
  <2>1. \A m \in 1 .. N : hpc'[m] = IF m = n THEN to ELSE hpc[m]
    BY Sent DEF DocInv, TypeOK
  <2> QED BY <2>1 DEF Through
<1> HIDE DEF N
<1>3. \A m \in 1 .. N : note[m] \in Waiting => (Through(m) <=> m < n)
  BY <1>1
<1>4. /\ \A i \in 1 .. N : \A j \in i + 1 .. N : j \in 1 .. N /\ i < j
      /\ \A i \in 1 .. N : i < n => n \in i + 1 .. N
      /\ \A j \in n + 1 .. N : j \in 1 .. N /\ j # n /\ ~(j < n)
      /\ ~(n < n)
  BY <1>1
<1>5. note[n] = "open" => ServerOpened'
  <2> SUFFICES ASSUME note[n] = "open" PROVE ServerOpened'
    OBVIOUS
  <2>1. \A j \in n + 1 .. N : note[j] = "close" => ~Through(j)'
    BY <1>2, <1>3, <1>4 DEF Waiting
  <2> QED BY <1>1, <1>2, <2>1 DEF ServerOpened, N
<1>6. note[n] = "open" => ServerEdits' = {n}
  <2> SUFFICES ASSUME note[n] = "open" PROVE ServerEdits' = {n}
    OBVIOUS
  <2>1. \A j \in n + 1 .. N : note[j] = "open" => ~Through(j)'
    BY <1>2, <1>3, <1>4 DEF Waiting
  <2>2. n \in ServerEdits'
    BY <1>1, <1>2, <2>1 DEF ServerEdits, N
  <2>3. ASSUME NEW i \in ServerEdits' PROVE i = n
    <3>1. /\ i \in 1 .. N /\ note[i] \in {"open", "change"} /\ Through(i)'
          /\ \A j \in i + 1 .. N : note[j] = "open" => ~Through(j)'
      BY DEF ServerEdits, N
    <3>2. i = n \/ i < n
      BY <1>2, <1>3, <3>1 DEF Waiting
    <3> QED BY <1>1, <1>2, <1>4, <3>1, <3>2
  <2> QED BY <2>2, <2>3
<1>7. note[n] = "change" => (ServerOpened' <=> ServerOpened)
  BY <1>2, <1>4 DEF ServerOpened, N
<1>8. note[n] = "change" => ServerEdits' = ServerEdits \cup {n}
  <2> SUFFICES ASSUME note[n] = "change" PROVE ServerEdits' = ServerEdits \cup {n}
    OBVIOUS
  <2>1. \A j \in n + 1 .. N : note[j] = "open" => ~Through(j)'
    BY <1>2, <1>3, <1>4 DEF Waiting
  <2>2. n \in ServerEdits'
    BY <1>1, <1>2, <2>1 DEF ServerEdits, N
  <2>3. ASSUME NEW i \in 1 .. N, i # n PROVE i \in ServerEdits' <=> i \in ServerEdits
    BY <1>2, <1>4, <2>3 DEF ServerEdits, N
  <2>4. ServerEdits \subseteq 1 .. N /\ ServerEdits' \subseteq 1 .. N
    BY DEF ServerEdits, N
  <2> QED BY <2>2, <2>3, <2>4
<1>9. note[n] = "close" => ~ServerOpened'
  <2> SUFFICES ASSUME note[n] = "close", NEW i \in 1 .. N, note[i] = "open", Through(i)',
                      \A j \in i + 1 .. N : note[j] = "close" => ~Through(j)'
               PROVE  FALSE
    BY DEF ServerOpened, N
  <2>1. i < n
    BY <1>2, <1>3 DEF Waiting
  <2> QED BY <1>1, <1>2, <1>4, <2>1
<1> QED BY <1>5, <1>6, <1>7, <1>8, <1>9

-----------------------------------------------------------------------------
(* The client and the handlers keep the order                              *)

LEMMA SendKeepsOrder ==
  ASSUME DocInv, OrderInv, NEW k \in Kinds, Send(k)
  PROVE  OrderInv'
<1>n. PICK N \in Nat : N = Len(note)
  BY DocTypes
<1>0. TypeOK /\ WorkInv /\ ClientInv /\ KindInv /\ note \in Seq(Kinds) /\ N = Len(note)
  BY <1>n DEF DocInv, OrderInv, TypeOK
<1>1. /\ N + 1 \in Notes /\ note' = Append(note, k) /\ hpc' = [hpc EXCEPT ![N + 1] = k]
      /\ UNCHANGED <<hdoc, objects, current>>
      /\ k = "open" => ~Opened(note)
      /\ k \in {"change", "close"} => Opened(note)
  BY <1>0 DEF Send, Goto, Notes, docVars
<1>t. inTurn' => inTurn
  BY DEF Send, Goto
<1>2. Len(note') = N + 1 /\ note'[N + 1] = k /\ \A i \in 1 .. N : note'[i] = note[i]
  BY <1>0, <1>1, AppendProperties
<1>3. /\ hpc'[N + 1] = k
      /\ \A i \in Notes : i # N + 1 => hpc'[i] = hpc[i]
      /\ \A i \in 1 .. N : hpc'[i] = hpc[i] /\ i # N + 1
  <2>1. \A i \in 1 .. N : i \in Notes /\ i # N + 1
    BY <1>0, Sent
  <2> QED BY <1>0, <1>1, <2>1 DEF TypeOK
<1>o. (Opened(note) <=> \E i \in 1 .. N : note[i] = "open" /\ \A j \in i + 1 .. N : note[j] # "close")
  BY <1>0 DEF Opened
<1>4. /\ \A i \in 1 .. N + 1 : i \in 1 .. N \/ i = N + 1
      /\ \A i \in 1 .. N : i \in 1 .. N + 1 /\ ~(N + 1 < i)
      /\ N + 1 \in 1 .. N + 1 /\ N + 1 - 1 = N /\ ~(N + 1 < N + 1)
      /\ \A n \in 1 .. N : \A i \in 1 .. n - 1 : i \in 1 .. N /\ \A j \in i + 1 .. n - 1 : j \in 1 .. N
      /\ \A i \in 1 .. N : \A j \in i + 1 .. N : j \in 1 .. N
      /\ \A i \in 1 .. N : \A j \in i + 1 .. N + 1 : j \in i + 1 .. N \/ j = N + 1
      /\ \A i \in 1 .. N : \A j \in i + 1 .. N : j \in i + 1 .. N + 1
      /\ \A j \in N + 1 + 1 .. N + 1 : FALSE
  BY <1>0
<1>5. ClientInv'
  <2>1. ASSUME NEW n \in 1 .. N
        PROVE  /\ note'[n] = "open" =>
                      \A i \in 1 .. n - 1 : note'[i] = "open" => \E j \in i + 1 .. n - 1 : note'[j] = "close"
               /\ note'[n] \in {"change", "close"} =>
                      \E i \in 1 .. n - 1 : note'[i] = "open" /\ \A j \in i + 1 .. n - 1 : note'[j] # "close"
    <3>1. /\ note[n] = "open" =>
                \A i \in 1 .. n - 1 : note[i] = "open" => \E j \in i + 1 .. n - 1 : note[j] = "close"
          /\ note[n] \in {"change", "close"} =>
                \E i \in 1 .. n - 1 : note[i] = "open" /\ \A j \in i + 1 .. n - 1 : note[j] # "close"
      BY <1>0 DEF ClientInv
    <3>2. /\ note'[n] = note[n]
          /\ \A i \in 1 .. n - 1 : note'[i] = note[i] /\ \A j \in i + 1 .. n - 1 : note'[j] = note[j]
      BY <1>2, <1>4
    <3> QED BY <3>1, <3>2
  <2>2. /\ k = "open" => \A i \in 1 .. N : note'[i] = "open" => \E j \in i + 1 .. N : note'[j] = "close"
        /\ k \in {"change", "close"} =>
               \E i \in 1 .. N : note'[i] = "open" /\ \A j \in i + 1 .. N : note'[j] # "close"
    BY <1>1, <1>2, <1>4, <1>o
  <2> QED BY <1>2, <1>4, <2>1, <2>2 DEF ClientInv
<1>6. KindInv'
  <2>1. \A n \in 1 .. N :
           /\ hpc'[n] \in {"open", "update"} => note'[n] = "open"
           /\ hpc'[n] \in {"change", "apply"} => note'[n] = "change"
           /\ hpc'[n] \in {"close", "closing", "erase"} => note'[n] = "close"
    BY <1>0, <1>2, <1>3 DEF KindInv
  <2>2. \A n \in 1 .. Len(note') : n \in 1 .. N \/ n = N + 1
    BY <1>2, <1>4
  <2> QED BY <1>2, <1>3, <2>1, <2>2 DEF KindInv, Kinds
<1>7. TurnInv => TurnInv'
  <2> SUFFICES ASSUME TurnInv, NEW m \in 1 .. N + 1, NEW n \in 1 .. N + 1, m < n,
                      hpc'[m] \in Shaping, note'[n] \in Waiting
               PROVE  hpc'[n] = note'[n]
    BY <1>2 DEF TurnInv
  <2>1. CASE n = N + 1
    BY <1>2, <1>3, <2>1
  <2>2. CASE n \in 1 .. N
    <3>1. m \in 1 .. N
      BY <1>4, <2>2
    <3> QED BY <1>0, <1>2, <1>3, <2>2, <3>1 DEF TurnInv
  <2> QED BY <1>4, <2>1, <2>2
\* the server is through with the same ones
<1>8. (\A i \in 1 .. N : Through(i)' <=> Through(i)) /\ (Through(N + 1)' <=> k \notin Shaping)
  BY <1>3 DEF Through
<1>9. ServerOpened' <=> ServerOpened
  <2>1. Through(N + 1)' => k # "open" /\ k # "close"
    BY <1>8 DEF Shaping, Waiting
  <2>2. ServerOpened' <=> \E i \in 1 .. N + 1 : /\ note'[i] = "open" /\ Through(i)'
                                                /\ \A j \in i + 1 .. N + 1 : note'[j] = "close" => ~Through(j)'
    BY <1>2 DEF ServerOpened
  <2>3. ServerOpened <=> \E i \in 1 .. N : /\ note[i] = "open" /\ Through(i)
                                           /\ \A j \in i + 1 .. N : note[j] = "close" => ~Through(j)
    BY <1>0 DEF ServerOpened
  <2>4. ASSUME NEW i \in 1 .. N
        PROVE  (\A j \in i + 1 .. N + 1 : note'[j] = "close" => ~Through(j)')
                   <=> (\A j \in i + 1 .. N : note[j] = "close" => ~Through(j))
    BY <1>2, <1>4, <1>8, <2>1
  <2> QED BY <1>2, <1>4, <1>8, <2>1, <2>2, <2>3, <2>4
<1>10. ServerEdits' = ServerEdits
  <2>1. Through(N + 1)' => k # "open" /\ k # "change"
    BY <1>8 DEF Shaping, Waiting
  <2>2. ASSUME NEW i \in 1 .. N PROVE i \in ServerEdits' <=> i \in ServerEdits
    <3>1. (\A j \in i + 1 .. N + 1 : note'[j] = "open" => ~Through(j)')
              <=> (\A j \in i + 1 .. N : note[j] = "open" => ~Through(j))
      BY <1>2, <1>4, <1>8, <2>1
    <3>2. /\ i \in ServerEdits' <=> /\ note'[i] \in {"open", "change"} /\ Through(i)'
                                    /\ \A j \in i + 1 .. N + 1 : note'[j] = "open" => ~Through(j)'
          /\ i \in ServerEdits <=> /\ note[i] \in {"open", "change"} /\ Through(i)
                                   /\ \A j \in i + 1 .. N : note[j] = "open" => ~Through(j)
      BY <1>0, <1>2, <1>4 DEF ServerEdits
    <3> QED BY <1>2, <1>8, <3>1, <3>2
  <2>3. N + 1 \notin ServerEdits'
    BY <1>2, <1>8, <2>1 DEF ServerEdits
  <2>4. ServerEdits \subseteq 1 .. N /\ ServerEdits' \subseteq 1 .. N + 1
    BY <1>0, <1>2 DEF ServerEdits
  <2> QED BY <1>4, <2>2, <2>3, <2>4
<1>11. HoldsInv => HoldsInv'
  <2>1. \A n \in Notes : hpc'[n] \in {"update", "apply"} => hpc[n] = hpc'[n]
    BY <1>3 DEF Kinds
  <2>2. Fresh' <=> Fresh
    BY <1>1 DEF Fresh
  <2> QED BY <1>1, <1>9, <1>10, <2>1, <2>2 DEF HoldsInv
<1> QED BY <1>t, <1>5, <1>6, <1>7, <1>11 DEF OrderInv

\* A handler takes a step; what it does to the document is for the next lemmas.
LEMMA HandlerMoves ==
  ASSUME DocInv, OrderInv, NEW n \in Notes, NEW to, Goto(n, to), UNCHANGED note, hpc[n] # "none",
         to \in Shaping => \/ hpc[n] = "open" /\ to = "update"
                           \/ hpc[n] = "change" /\ to = "apply"
                           \/ hpc[n] = "close" /\ to = "closing"
                           \/ hpc[n] = "closing" /\ to = "erase",
         inTurn' => HoldsInv'
  PROVE  OrderInv'
<1>1. n \in 1 .. Len(note) /\ ClientInv /\ KindInv
  BY Sent DEF OrderInv
<1>2. \A m \in 1 .. Len(note) : hpc'[m] = IF m = n THEN to ELSE hpc[m]
  BY Sent DEF Goto, DocInv, TypeOK
<1>3. ClientInv'
  BY <1>1 DEF ClientInv
<1>4. KindInv'
  BY <1>1, <1>2 DEF KindInv, Shaping, Waiting
<1>5. ASSUME inTurn' PROVE TurnInv'
  <2>1. inTurn /\ (hpc[n] \in Waiting => \A m \in 1 .. n - 1 : hpc[m] \notin Shaping)
    BY <1>5 DEF Goto
  <2>2. TurnInv
    BY <2>1 DEF OrderInv
  <2> SUFFICES ASSUME NEW m \in 1 .. Len(note), NEW p \in 1 .. Len(note), m < p,
                      hpc'[m] \in Shaping, note[p] \in Waiting
               PROVE  hpc'[p] = note[p]
    BY DEF TurnInv
  <2>3. hpc[m] \in Shaping
    BY <1>2 DEF Shaping, Waiting
  <2>4. hpc[p] = note[p]
    BY <2>2, <2>3 DEF TurnInv
  <2>5. p # n
    <3>1. m \in 1 .. p - 1
      BY Sent
    <3> QED BY <2>1, <2>3, <2>4, <3>1
  <2> QED BY <1>2, <2>4, <2>5
<1> QED BY <1>3, <1>4, <1>5 DEF OrderInv

\* While the handlers begin in turn, one at work on the document is alone.
LEMMA StepInTurn ==
  ASSUME DocInv, OrderInv, NEW n \in Notes, NEW to, Goto(n, to), inTurn'
  PROVE  /\ inTurn /\ TurnInv /\ HoldsInv
         /\ hpc[n] \in Shaping => Alone(n) /\ note[n] \in Waiting
<1>1. inTurn /\ (hpc[n] \in Waiting => \A m \in 1 .. n - 1 : hpc[m] \notin Shaping)
  BY DEF Goto
<1>2. TurnInv /\ HoldsInv /\ KindInv
  BY <1>1 DEF OrderInv
<1> QED BY <1>1, <1>2, AloneInTurn

LEMMA StaysThrough ==
  ASSUME DocInv, NEW n \in Notes, NEW to, Goto(n, to), UNCHANGED note, hpc[n] \in Shaping <=> to \in Shaping
  PROVE  (ServerOpened' <=> ServerOpened) /\ ServerEdits' = ServerEdits
<1>1. \A m \in 1 .. Len(note) : hpc'[m] = IF m = n THEN to ELSE hpc[m]
  BY Sent DEF Goto, DocInv, TypeOK
<1>2. \A m \in 1 .. Len(note) : Through(m)' <=> Through(m)
  BY <1>1 DEF Through
<1> QED BY <1>2, SameThrough

\* A handler looks up the document.
LEMMA LookupKeepsOrder ==
  ASSUME DocInv, OrderInv, NEW n \in Notes, NEW from \in {"change", "lookup", "close", "tokens"},
         NEW to \in {"apply", "validate", "closing", "highlights"},
         from = "change" <=> to = "apply", from = "close" <=> to = "closing", Lookup(n, from, to)
  PROVE  OrderInv'
<1>0. TypeOK /\ WorkInv /\ ClientInv
  BY DEF DocInv, OrderInv
<1>1. hpc[n] = from /\ Goto(n, to) /\ note' = note
  BY DEF Lookup, GetDocument, LoadDocument
<1>2. hpc'[n] = to /\ \A m \in Notes : m # n => hpc'[m] = hpc[m]
  BY <1>0, <1>1 DEF Goto, TypeOK
<1>3. (ServerOpened' <=> ServerOpened) /\ ServerEdits' = ServerEdits
  BY <1>1, StaysThrough DEF Shaping, Waiting
<1>4. ASSUME inTurn' PROVE HoldsInv'
  <2>1. HoldsInv
    BY <1>1, <1>4, StepInTurn
  <2>2. CASE GetDocument(n, from, to)
    <3>1. /\ UNCHANGED <<objects, current>> /\ hdoc'[n] = current
          /\ \A m \in Notes : m # n => hdoc'[m] = hdoc[m]
      BY <1>0, <2>2 DEF GetDocument, docVars, TypeOK
    <3>2. Fresh' <=> Fresh
      BY <3>1 DEF Fresh
    <3> QED BY <1>2, <1>3, <2>1, <3>1, <3>2 DEF HoldsInv
  <2>3. CASE LoadDocument(n, from, to)
    <3> DEFINE o == [version |-> -1, text |-> << >>]
    <3>1. /\ current = 0 /\ current' = Len(objects) + 1
          /\ objects' = Append(objects, o) /\ highlights' = Append(highlights, Missing)
      BY <2>3 DEF LoadDocument
    <3>2. ~ServerOpened
      BY <2>1, <3>1 DEF HoldsInv
    <3>3. from \notin {"change", "close"}
      <4> SUFFICES ASSUME from \in {"change", "close"} PROVE FALSE
        OBVIOUS
      <4>1. Alone(n) /\ note[n] \in Waiting
        BY <1>1, <1>4, StepInTurn DEF Shaping, Waiting
      <4>2. note[n] = "open" \/ ServerOpened
        BY <1>0, <4>1, AloneBefore DEF Waiting
      <4>3. note[n] = from
        BY <1>1, Sent DEF OrderInv, KindInv
      <4> QED BY <3>2, <4>2, <4>3
    <3>4. \A m \in Notes : hpc'[m] \notin {"update", "apply"}
      <4>1. \A m \in Notes : hpc[m] \in {"update", "apply"} => hdoc[m] # 0 /\ hdoc[m] = 0
        BY <1>0, <2>1, <3>1 DEF HoldsInv, WorkInv
      <4> QED BY <1>2, <3>3, <4>1
    <3>5. o \in Docs /\ Labelled(o) /\ o.version = -1
      BY DocTypes DEF Labelled, Notes
    <3> HIDE DEF o
    <3>6. objects'[current'] = o
      BY <3>1, <3>5, NewObject
    <3> QED BY <1>3, <3>2, <3>4, <3>5, <3>6 DEF HoldsInv, Fresh
  <2> QED BY <2>2, <2>3 DEF Lookup
<1>5. to \in Shaping => (hpc[n] = "change" /\ to = "apply") \/ (hpc[n] = "close" /\ to = "closing")
  BY <1>1 DEF Shaping, Waiting
<1> QED BY <1>1, <1>4, <1>5, HandlerMoves

\* The document holds one edit after an open.
LEMMA OpenedDocument ==
  ASSUME NEW n \in Notes
  PROVE  Elements(<<n>>) = {n} /\ InOrder(<<n>>) /\ n # -1 /\ n >= 1 /\ n \in Nat
<1>1. n # -1 /\ n >= 1 /\ n \in Nat
  BY DEF Notes
<1>2. Len(<<n>>) = 1 /\ << >> \in Texts
  BY EmptySeq DEF Texts
<1>3. \A k, l \in 1 .. Len(<<n>>) : ~(k < l)
  BY <1>2
<1>4. InOrder(<<n>>)
  BY <1>3 DEF InOrder
<1>5. Elements(<<n>>) = {n}
  BY <1>2, EditedText
<1> QED BY <1>1, <1>4, <1>5

\* didOpen leaves a document with the text of the client.
LEMMA OpenKeepsOrder ==
  ASSUME DocInv, OrderInv, NEW n \in Notes, Open(n) \/ Update(n)
  PROVE  OrderInv'
<1>0. TypeOK /\ WorkInv /\ ClientInv /\ Len(objects) \in Nat /\ hdoc \in [Notes -> 0 .. Len(objects)]
  BY DocTypes DEF DocInv, OrderInv, TypeOK
<1>1. hpc[n] \in {"open", "update"} /\ note' = note /\ note[n] = "open"
  <2>1. hpc[n] \in {"open", "update"} /\ note' = note
    BY DEF Open, Update
  <2> QED BY <2>1, Sent DEF OrderInv, KindInv
<1>2. ASSUME NEW to, Goto(n, to), inTurn'
      PROVE  /\ Alone(n) /\ note[n] \in Waiting /\ HoldsInv /\ ~ServerOpened /\ Fresh
             /\ hpc'[n] = to /\ \A m \in Notes : m # n => hpc'[m] = hpc[m] /\ hpc[m] \notin {"update", "apply"}
  <2>1. Alone(n) /\ note[n] \in Waiting /\ HoldsInv
    BY <1>1, <1>2, StepInTurn DEF Shaping, Waiting
  <2>2. ~ServerOpened
    BY <1>0, <1>1, <2>1, AloneBefore
  <2>3. hpc'[n] = to /\ \A m \in Notes : m # n => hpc'[m] = hpc[m]
    BY <1>0, <1>2 DEF Goto, TypeOK
  <2> QED BY <2>1, <2>2, <2>3 DEF HoldsInv, Alone
\* the document is updated later
<1>3. CASE Open(n) /\ current # 0
  <2>1. /\ Goto(n, "update") /\ hpc[n] = "open" /\ hdoc' = [hdoc EXCEPT ![n] = current]
        /\ UNCHANGED <<objects, current>>
    BY <1>3 DEF Open, docVars
  <2>2. (ServerOpened' <=> ServerOpened) /\ ServerEdits' = ServerEdits
    BY <1>1, <2>1, StaysThrough DEF Shaping, Waiting
  <2>3. ASSUME inTurn' PROVE HoldsInv'
    <3>1. ~ServerOpened /\ Fresh /\ \A m \in Notes : m # n => hpc'[m] \notin {"update", "apply"}
      BY <1>2, <2>1, <2>3
    <3>2. Fresh' /\ hdoc'[n] = current'
      BY <1>0, <2>1, <3>1 DEF Fresh
    <3> QED BY <2>2, <3>1, <3>2 DEF HoldsInv
  <2> QED BY <1>1, <2>1, <2>3, HandlerMoves
\* the document holds the text of the client
<1>4. ASSUME Goto(n, "lookup"), current' # 0, objects'[current'] = [version |-> n, text |-> <<n>>]
      PROVE  OrderInv'
  <2>1. ASSUME inTurn' PROVE HoldsInv'
    <3>1. Alone(n) /\ note[n] \in Waiting /\ \A m \in Notes : hpc'[m] \notin {"update", "apply"}
      BY <1>2, <1>4, <2>1
    <3>2. hpc' = [hpc EXCEPT ![n] = "lookup"] /\ "lookup" \notin Shaping
      BY <1>4 DEF Goto, Shaping, Waiting
    <3>3. ServerOpened' /\ ServerEdits' = {n}
      BY <1>1, <3>1, <3>2, AloneAfter
    <3> QED BY <1>4, <3>1, <3>3, OpenedDocument DEF HoldsInv
  <2> QED BY <1>1, <1>4, <2>1, HandlerMoves DEF Shaping, Waiting
<1>5. CASE Open(n) /\ current = 0
  <2> DEFINE o == [version |-> n, text |-> <<n>>]
  <2>1. /\ Goto(n, "lookup") /\ current' = Len(objects) + 1
        /\ objects' = Append(objects, o) /\ highlights' = Append(highlights, Missing)
    BY <1>5 DEF Open
  <2>2. << >> \in Texts
    BY EmptySeq DEF Texts
  <2>3. o \in Docs /\ Labelled(o)
    BY <2>2, EditedText
  <2>4. objects'[current'] = o
    BY <2>1, <2>3, NewObject
  <2>5. current' # 0
    BY <1>0, <2>1
  <2> QED BY <1>4, <2>1, <2>4, <2>5
<1>6. CASE Update(n)
  <2> DEFINE o == [version |-> n, text |-> <<n>>]
  <2>1. /\ Goto(n, "lookup") /\ current' = current /\ hpc[n] = "update"
        /\ objects' = [objects EXCEPT ![hdoc[n]] = o] /\ highlights' = highlights
    BY <1>6 DEF Update, highlightVars
  <2>2. hdoc[n] # 0 /\ hdoc[n] \in 1 .. Len(objects)
    BY <1>0, <2>1 DEF WorkInv
  <2>3. << >> \in Texts
    BY EmptySeq DEF Texts
  <2>4. o \in Docs /\ Labelled(o)
    BY <2>3, EditedText
  <2>5. objects'[hdoc[n]] = o
    BY <2>1, <2>2, <2>4, NewContent
  <2>6. CASE inTurn'
    <3>1. hdoc[n] = current
      BY <1>2, <2>1, <2>6 DEF HoldsInv
    <3> QED BY <1>4, <2>1, <2>2, <2>5, <3>1
  <2>7. CASE ~inTurn'
    BY <1>1, <2>1, <2>7, HandlerMoves DEF Shaping, Waiting
  <2> QED BY <2>6, <2>7
<1> QED BY <1>3, <1>5, <1>6

\* apply() adds the edit that is missing, at the end.
LEMMA ApplyKeepsOrder ==
  ASSUME DocInv, OrderInv, NEW n \in Notes, Apply(n) \/ ApplyThrows(n)
  PROVE  OrderInv'
<1>0. TypeOK /\ WorkInv /\ ClientInv /\ Len(objects) \in Nat /\ hdoc \in [Notes -> 0 .. Len(objects)]
  BY DocTypes DEF DocInv, OrderInv, TypeOK
<1> DEFINE t == objects[hdoc[n]].text
           o == [version |-> n, text |-> Append(t, n)]
<1>1. hpc[n] = "apply" /\ note' = note /\ note[n] = "change"
  <2>1. hpc[n] = "apply" /\ note' = note
    BY DEF Apply, ApplyThrows
  <2> QED BY <2>1, Sent DEF OrderInv, KindInv
<1>2. hdoc[n] # 0 /\ hdoc[n] \in 1 .. Len(objects) /\ t \in Texts
  <2>1. hdoc[n] # 0 /\ hdoc[n] \in 1 .. Len(objects)
    BY <1>0, <1>1 DEF WorkInv
  <2> QED BY <2>1, DocTypes DEF Docs
<1>3. ASSUME NEW to, Goto(n, to), inTurn'
      PROVE  /\ Alone(n) /\ note[n] \in Waiting /\ hdoc[n] = current /\ ServerOpened
             /\ Elements(t) = ServerEdits /\ InOrder(t) /\ ServerEdits = EditsUpTo(n - 1)
             /\ \A i \in ServerEdits : i \in Nat /\ i < n
             /\ \A m \in Notes : m # n => hpc'[m] = hpc[m] /\ hpc[m] \notin {"update", "apply"}
  <2>1. Alone(n) /\ note[n] \in Waiting /\ HoldsInv
    BY <1>1, <1>3, StepInTurn DEF Shaping, Waiting
  <2>2. /\ ServerOpened /\ ServerEdits = EditsUpTo(n - 1)
        /\ \A i \in EditsUpTo(n - 1) : i \in Nat /\ i < n
    BY <1>0, <1>1, <2>1, AloneBefore
  <2>3. \A m \in Notes : m # n => hpc'[m] = hpc[m]
    BY <1>0, <1>3 DEF Goto, TypeOK
  <2> QED BY <1>1, <2>1, <2>2, <2>3 DEF HoldsInv, Alone
<1> HIDE DEF t
<1>4. CASE Apply(n)
  <2>1. /\ Goto(n, "lookup") /\ current' = current /\ objects' = [objects EXCEPT ![hdoc[n]] = o]
        /\ highlights' = highlights
    BY <1>4 DEF Apply, highlightVars, t
  <2>2. /\ o \in Docs /\ Labelled(o) /\ o.version = n /\ o.text = Append(t, n)
        /\ Elements(Append(t, n)) = Elements(t) \cup {n}
    BY <1>2, EditedText
  <2> HIDE DEF o
  <2>3. objects'[hdoc[n]] = o
    BY <1>2, <2>1, <2>2, NewContent
  <2>4. ASSUME inTurn' PROVE HoldsInv'
    <3>1. /\ Alone(n) /\ note[n] \in Waiting /\ hdoc[n] = current /\ ServerOpened
          /\ Elements(t) = ServerEdits /\ InOrder(t)
          /\ \A i \in ServerEdits : i \in Nat /\ i < n
          /\ \A m \in Notes : m # n => hpc'[m] \notin {"update", "apply"}
      BY <1>3, <2>1, <2>4
    <3>2. InOrder(Append(t, n))
      <4> DEFINE a == Append(t, n)
      <4>1. /\ Len(t) \in Nat /\ Len(a) = Len(t) + 1 /\ \A k \in 1 .. Len(t) : a[k] = t[k]
            /\ a[Len(t) + 1] = n
        BY <1>2, AppendProperties, LenProperties DEF Texts
      <4>2. \A k \in 1 .. Len(t) : t[k] \in Nat /\ t[k] < n
        <5>1. \A k \in 1 .. Len(t) : t[k] \in ServerEdits
          BY <3>1 DEF Elements
        <5> QED BY <3>1, <5>1
      <4> HIDE DEF a
      <4> SUFFICES ASSUME NEW k \in 1 .. Len(a), NEW l \in 1 .. Len(a), k < l PROVE a[k] < a[l]
        BY DEF InOrder, a
      <4>3. k \in 1 .. Len(t)
        BY <4>1
      <4>4. CASE l = Len(t) + 1
        BY <4>1, <4>2, <4>3, <4>4
      <4>5. CASE l \in 1 .. Len(t)
        BY <3>1, <4>1, <4>3, <4>5 DEF InOrder
      <4> QED BY <4>1, <4>4, <4>5
    <3>3. /\ hpc' = [hpc EXCEPT ![n] = "lookup"] /\ "lookup" \notin Shaping /\ hpc'[n] = "lookup"
      BY <1>0, <2>1 DEF Goto, Shaping, Waiting, TypeOK
    <3>4. ServerOpened' /\ ServerEdits' = ServerEdits \cup {n}
      BY <1>1, <3>1, <3>3, AloneAfter
    <3>5. objects'[current'] = o /\ current' # 0 /\ n # -1
      BY <1>2, <2>1, <2>3, <3>1, OpenedDocument
    <3> QED BY <2>2, <3>1, <3>2, <3>3, <3>4, <3>5 DEF HoldsInv
  <2> QED BY <1>1, <2>1, <2>4, HandlerMoves DEF Shaping, Waiting
\* in turn it does not throw
<1>5. CASE ApplyThrows(n)
  <2>1. Goto(n, "done") /\ ~(Elements(t) = EditsUpTo(n - 1) /\ InOrder(t))
    BY <1>5 DEF ApplyThrows, t
  <2>2. ~inTurn'
    BY <1>3, <2>1
  <2> QED BY <1>1, <2>1, <2>2, HandlerMoves DEF Shaping, Waiting
<1> QED BY <1>4, <1>5

\* didClose, a lookup that fails, and the steps that leave the document alone.
LEMMA CloseKeepsOrder ==
  ASSUME DocInv, OrderInv, NEW n \in Notes, CloseDocument(n)
  PROVE  OrderInv'
<1>1. /\ hpc[n] = "erase" /\ Goto(n, "done") /\ current' = 0 /\ UNCHANGED note
  BY DEF CloseDocument
<1>2. note[n] = "close"
  BY <1>1, Sent DEF OrderInv, KindInv
<1>3. ASSUME inTurn' PROVE HoldsInv'
  <2>1. Alone(n) /\ note[n] \in Waiting
    BY <1>1, <1>3, StepInTurn DEF Shaping, Waiting
  <2>2. hpc' = [hpc EXCEPT ![n] = "done"] /\ "done" \notin Shaping
    BY <1>1 DEF Goto, Shaping, Waiting
  <2>3. ~ServerOpened'
    BY <1>1, <1>2, <2>1, <2>2, AloneAfter
  <2>4. \A m \in Notes : hpc'[m] \notin {"update", "apply"}
    BY <2>1, <2>2 DEF Alone, DocInv, TypeOK
  <2> QED BY <1>1, <2>3, <2>4 DEF HoldsInv, Fresh
<1> QED BY <1>1, <1>3, HandlerMoves DEF Shaping, Waiting

LEMMA OthersKeepOrder ==
  ASSUME DocInv, OrderInv, NEW n \in Notes,
         \/ Validate(n) \/ Watch(n) \/ UpdateHighlights(n) \/ GetHighlights(n) \/ CloseHighlights(n)
         \/ LoadFails(n)
  PROVE  OrderInv'
<1>0. TypeOK /\ ClientInv /\ hdoc \in [Notes -> 0 .. Len(objects)]
  BY DEF DocInv, OrderInv, TypeOK
<1>1. /\ UNCHANGED <<note, objects, current>>
      /\ \A m \in Notes : m # n => hdoc'[m] = hdoc[m]
  BY <1>0 DEF Validate, Watch, UpdateHighlights, GetHighlights, CloseHighlights, LoadFails, docVars
<1>2. PICK to \in {"highlight", "done", "erase"} :
          /\ Goto(n, to) /\ hpc[n] # "none"
          /\ hpc[n] = "closing" <=> to = "erase"
          /\ hpc[n] \in {"change", "close"} => current = 0
          /\ hpc[n] \notin {"open", "update", "apply", "erase"}
  BY DEF Validate, Watch, UpdateHighlights, GetHighlights, CloseHighlights, LoadFails
<1>3. hpc'[n] = to /\ \A m \in Notes : m # n => hpc'[m] = hpc[m]
  BY <1>0, <1>2 DEF Goto, TypeOK
<1>4. ASSUME inTurn' PROVE HoldsInv'
  <2>1. HoldsInv
    BY <1>2, <1>4, StepInTurn
  <2>2. hpc[n] \notin {"change", "close"}
    <3> SUFFICES ASSUME hpc[n] \in {"change", "close"} PROVE FALSE
      OBVIOUS
    <3>1. Alone(n) /\ note[n] \in Waiting
      BY <1>2, <1>4, StepInTurn DEF Shaping, Waiting
    <3>2. note[n] = hpc[n]
      BY Sent DEF OrderInv, KindInv
    <3>3. ServerOpened
      BY <1>0, <3>1, <3>2, AloneBefore
    <3> QED BY <1>2, <2>1, <3>3 DEF HoldsInv
  <2>3. hpc[n] \in Shaping <=> to \in Shaping
    BY <1>2, <2>2 DEF Shaping, Waiting
  <2>4. (ServerOpened' <=> ServerOpened) /\ ServerEdits' = ServerEdits
    BY <1>1, <1>2, <2>3, StaysThrough
  <2>5. Fresh' <=> Fresh
    BY <1>1 DEF Fresh
  <2> QED BY <1>1, <1>3, <2>1, <2>4, <2>5 DEF HoldsInv
<1>5. to \in Shaping => hpc[n] = "closing" /\ to = "erase"
  BY <1>2 DEF Shaping, Waiting
<1> QED BY <1>1, <1>2, <1>4, <1>5, HandlerMoves

LEMMA OrderNextInv ==
  ASSUME DocInv, OrderInv, [Next]_vars
  PROVE  OrderInv'
<1>1. ASSUME UNCHANGED <<note, hpc, inTurn, hdoc, objects, current>> PROVE OrderInv'
  <2>1. ClientInv' /\ KindInv' /\ (TurnInv' <=> TurnInv)
    BY <1>1 DEF OrderInv, ClientInv, KindInv, TurnInv
  <2>2. (ServerOpened' <=> ServerOpened) /\ ServerEdits' = ServerEdits
    BY <1>1, SameThrough DEF Through
  <2>3. HoldsInv' <=> HoldsInv
    BY <1>1, <2>2 DEF HoldsInv, Fresh
  <2> QED BY <1>1, <2>1, <2>3 DEF OrderInv
<1>2. CASE UNCHANGED vars
  BY <1>1, <1>2 DEF vars
<1>3. ASSUME NEW k \in Kinds, Send(k) PROVE OrderInv'
  BY <1>3, SendKeepsOrder
<1>4. ASSUME NEW n \in Notes, Handler(n) PROVE OrderInv'
  <2>1. ASSUME NEW from \in {"change", "lookup", "close", "tokens"},
               NEW to \in {"apply", "validate", "closing", "highlights"},
               from = "change" <=> to = "apply", from = "close" <=> to = "closing", Lookup(n, from, to)
        PROVE  OrderInv'
    BY <2>1, LookupKeepsOrder
  <2> QED
    BY <1>4, <2>1, OpenKeepsOrder, ApplyKeepsOrder, CloseKeepsOrder, OthersKeepOrder DEF Handler
<1>5. ASSUME NEW n \in Notes, Validation(n) \/ ValidationFails(n) \/ Highlight(n) PROVE OrderInv'
  BY <1>1, <1>5
     DEF Validation, ValidationBegin, ValidationLabel, ValidationDiagnose, ValidationTest, ValidationPublish,
         ValidationErase, ValidationFails, Highlight, VUnchanged, docVars
<1> QED BY <1>2, <1>3, <1>4, <1>5 DEF Next

\* For any number of notifications in flight: as long as every handler began to
\* work on the document after those of the earlier notifications were through
\* with it, the document has the client's text and version whenever no handler is
\* at work on it, whatever lookups, validations and highlights still go on.
THEOREM DocumentsAgree == Spec => []RemoteDocumentAgrees
<1>1. DocInv /\ OrderInv => RemoteDocumentAgrees
  <2> SUFFICES ASSUME DocInv, OrderInv, inTurn, Opened(note), \A n \in InFlight : hpc[n] \notin Shaping
               PROVE  /\ current # 0
                      /\ Elements(objects[current].text) = Edits
                      /\ InOrder(objects[current].text)
                      /\ objects[current].version = objects[current].text[Len(objects[current].text)]
    BY DEF RemoteDocumentAgrees, DocumentAgrees, DocInv
  <2>0. VersionInv /\ HoldsInv /\ current \in 0 .. Len(objects)
    BY DEF DocInv, OrderInv, TypeOK
  <2>1. \A n \in 1 .. Len(note) : Through(n)
    BY DEF InFlight, Through, Shaping, Waiting
  <2>2. \A i \in 1 .. Len(note) : \A j \in i + 1 .. Len(note) : j \in 1 .. Len(note)
    BY Sent
  <2>3. ServerOpened /\ ServerEdits = Edits
    BY <2>1, <2>2 DEF ServerOpened, ServerEdits, Opened, Edits, EditsUpTo
  <2>4. /\ current # 0 /\ objects[current].version # -1
        /\ Elements(objects[current].text) = Edits /\ InOrder(objects[current].text)
    BY <2>0, <2>3 DEF HoldsInv
  <2>5. current \in 1 .. Len(objects) /\ objects[current] \in Docs
    BY <2>0, <2>4, DocTypes
  <2>6. objects[current].version \in Notes
    BY <2>4, <2>5 DEF Docs
  <2>7. Labelled(objects[current])
    BY <2>0, <2>5 DEF VersionInv
  <2> QED BY <2>4, <2>6, <2>7 DEF Labelled
<1>2. Init => DocInv /\ OrderInv
  BY DocInitInv, OrderInitInv
<1>3. (DocInv /\ OrderInv) /\ [Next]_vars => (DocInv /\ OrderInv)'
  BY DocNextInv, OrderNextInv
<1> QED BY <1>1, <1>2, <1>3, PTL DEF Spec

-----------------------------------------------------------------------------
(* What a validation publishes                                             *)

PublishedCovers == published.label # -1 => published.label \in Elements(published.text)

\* The document of a validation that has read a version keeps the edit of that
\* version, and so does the text it has diagnosed.
CoversInv ==
    /\ \A n \in Notes : vpc[n] = "diagnose" /\ vlabel[n] # -1 =>
           /\ objects[hdoc[n]].version # -1
           /\ vlabel[n] \in Elements(objects[hdoc[n]].text)
    /\ \A n \in Notes : vpc[n] \in {"test", "publish"} /\ vlabel[n] # -1 =>
           vlabel[n] \in Elements(vtext[n])
    /\ PublishedCovers

CoverInv == inTurn => CoversInv

\* No document loses an edit that a validation may have read: a document that is
\* opened anew was read from disk and has no version.
LEMMA TextsGrow ==
  ASSUME DocInv, OrderInv, [Next]_vars, inTurn', NEW d \in 1 .. Len(objects), objects[d].version # -1
  PROVE  objects'[d].version # -1 /\ Elements(objects[d].text) \subseteq Elements(objects'[d].text)
<1>0. /\ TypeOK /\ WorkInv /\ ClientInv /\ Len(objects) \in Nat
      /\ hdoc \in [Notes -> 0 .. Len(objects)] /\ objects[d].text \in Texts
  <2>1. objects[d] \in Docs
    BY DocTypes
  <2> QED BY <2>1, DocTypes DEF DocInv, OrderInv, TypeOK, Docs
<1> USE DEF docVars
<1>1. CASE UNCHANGED objects
  BY <1>1
\* a document is added
<1>2. ASSUME NEW o \in Docs, objects' = Append(objects, o) PROVE objects'[d] = objects[d]
  <2>1. objects \in Seq(Docs)
    BY DocTypes
  <2> QED BY <1>2, <2>1, AppendProperties
<1>3. ASSUME NEW n \in Notes, Open(n) PROVE objects' = objects \/ objects'[d] = objects[d]
  <2>1. << >> \in Texts
    BY EmptySeq DEF Texts
  <2>2. [version |-> n, text |-> <<n>>] \in Docs
    BY <2>1, EditedText
  <2> QED BY <1>2, <1>3, <2>2 DEF Open
<1>4. ASSUME NEW n \in Notes, NEW from, NEW to, Lookup(n, from, to)
      PROVE  objects' = objects \/ objects'[d] = objects[d]
  BY <1>2, <1>4, DocTypes DEF Lookup, GetDocument, LoadDocument
<1>5. ASSUME NEW n \in Notes, Update(n) PROVE objects'[d] = objects[d]
  <2> DEFINE o == [version |-> n, text |-> <<n>>]
  <2>1. hpc[n] = "update" /\ objects' = [objects EXCEPT ![hdoc[n]] = o] /\ highlights' = highlights
    BY <1>5 DEF Update, highlightVars
  <2>2. << >> \in Texts
    BY EmptySeq DEF Texts
  <2>3. o \in Docs /\ Labelled(o)
    BY <2>2, EditedText
  <2>4. hdoc[n] \in 1 .. Len(objects) /\ note[n] = "open"
    BY <1>0, <2>1, Sent DEF WorkInv, OrderInv, KindInv
  <2>5. Alone(n) /\ note[n] \in Waiting /\ HoldsInv
    BY <1>5, <2>1, StepInTurn DEF Update, Shaping, Waiting
  <2>6. ~ServerOpened
    BY <1>0, <2>4, <2>5, AloneBefore
  <2>7. hdoc[n] = current /\ current # 0 /\ objects[current].version = -1
    BY <1>0, <2>1, <2>4, <2>5, <2>6 DEF HoldsInv, Fresh, WorkInv
  <2> HIDE DEF o
  <2> QED BY <2>1, <2>3, <2>4, <2>7, NewContent
<1>6. ASSUME NEW n \in Notes, Apply(n)
      PROVE  \/ objects'[d] = objects[d]
             \/ objects'[d] = [version |-> n, text |-> Append(objects[d].text, n)]
  <2> DEFINE t == objects[hdoc[n]].text
             o == [version |-> n, text |-> Append(t, n)]
  <2>1. hpc[n] = "apply" /\ objects' = [objects EXCEPT ![hdoc[n]] = o] /\ highlights' = highlights
    BY <1>6 DEF Apply, highlightVars
  <2>2. hdoc[n] \in 1 .. Len(objects)
    BY <1>0, <2>1 DEF WorkInv
  <2>3. t \in Texts
    BY <2>2, DocTypes DEF Docs
  <2> HIDE DEF t
  <2>4. o \in Docs /\ Labelled(o)
    BY <2>3, EditedText
  <2> HIDE DEF o
  <2>5. objects'[hdoc[n]] = o /\ \A i \in 1 .. Len(objects) : i # hdoc[n] => objects'[i] = objects[i]
    BY <2>1, <2>2, <2>4, NewContent
  <2> QED BY <2>5 DEF o, t
<1>7. ASSUME NEW n \in Notes, Apply(n)
      PROVE  objects'[d].version # -1 /\ Elements(objects[d].text) \subseteq Elements(objects'[d].text)
  <2>1. n # -1 /\ Elements(Append(objects[d].text, n)) = Elements(objects[d].text) \cup {n}
    BY <1>0, EditedText, OpenedDocument
  <2>2. CASE objects'[d] = objects[d]
    BY <2>2
  <2>3. CASE objects'[d] = [version |-> n, text |-> Append(objects[d].text, n)]
    BY <2>1, <2>3
  <2> QED BY <1>6, <1>7, <2>2, <2>3
<1>8. ASSUME NEW n \in Notes, Handler(n), ~Apply(n) PROVE objects' = objects \/ objects'[d] = objects[d]
  BY <1>3, <1>4, <1>5, <1>8
     DEF Handler, Watch, Validate, UpdateHighlights, CloseHighlights, CloseDocument, GetHighlights, LoadFails,
         ApplyThrows
<1>9. ASSUME NEW n \in Notes, Validation(n) \/ ValidationFails(n) \/ Highlight(n) PROVE objects' = objects
  BY <1>9
     DEF Validation, ValidationBegin, ValidationLabel, ValidationDiagnose, ValidationTest, ValidationPublish,
         ValidationErase, ValidationFails, Highlight, VUnchanged
<1>10. ASSUME NEW k \in Kinds, Send(k) PROVE objects' = objects
  BY <1>10 DEF Send
<1> QED BY <1>1, <1>7, <1>8, <1>9, <1>10 DEF Next, vars

\* A validation keeps the document it works on.
LEMMA HandlersLeaveTasks ==
  ASSUME DocInv, NEW n \in Notes, Handler(n)
  PROVE  /\ UNCHANGED <<vlabel, vtext, published>>
         /\ \A m \in Notes : vpc[m] # "none" => hdoc'[m] = hdoc[m]
         /\ \A m \in Notes : vpc'[m] \in {"diagnose", "test", "publish"} => vpc'[m] = vpc[m]
<1>0. TypeOK /\ WorkInv /\ hdoc \in [Notes -> 0 .. Len(objects)] /\ vpc \in [Notes -> ValidationPC]
  BY DEF DocInv, TypeOK
<1> USE DEF docVars, validationVars
<1>1. UNCHANGED <<vlabel, vtext, published>>
  BY DEF Handler, Lookup, GetDocument, LoadDocument, Open, Update, Apply, Watch, Validate, StartValidation,
         UpdateHighlights, CloseHighlights, CloseDocument, GetHighlights, LoadFails, ApplyThrows
<1>2. vpc' = vpc \/ vpc' = [vpc EXCEPT ![n] = "queued"]
  BY DEF Handler, Lookup, GetDocument, LoadDocument, Open, Update, Apply, Watch, Validate, StartValidation,
         UpdateHighlights, CloseHighlights, CloseDocument, GetHighlights, LoadFails, ApplyThrows
<1>3. \A m \in Notes : vpc'[m] \in {"diagnose", "test", "publish"} => vpc'[m] = vpc[m]
  BY <1>0, <1>2
<1>4. hdoc' = hdoc \/ (hpc[n] \notin {"highlight", "done"} /\ \E e : hdoc' = [hdoc EXCEPT ![n] = e])
  BY DEF Handler, Lookup, GetDocument, LoadDocument, Open, Update, Apply, Watch, Validate,
         UpdateHighlights, CloseHighlights, CloseDocument, GetHighlights, LoadFails, ApplyThrows
<1>5. \A m \in Notes : vpc[m] # "none" => hdoc'[m] = hdoc[m]
  BY <1>0, <1>4 DEF WorkInv
<1> QED BY <1>1, <1>3, <1>5

\* A turn that was missed is not forgotten.
LEMMA TurnsEnd ==
  ASSUME [Next]_vars
  PROVE  inTurn' => inTurn
<1>1. ASSUME NEW n, NEW label, Goto(n, label) PROVE inTurn' => inTurn
  BY <1>1 DEF Goto
<1>2. ASSUME NEW k, Send(k) PROVE inTurn' => inTurn
  BY <1>1, <1>2 DEF Send
<1>3. ASSUME NEW n, Handler(n) PROVE inTurn' => inTurn
  <2>1. \E label : Goto(n, label)
    BY <1>3
       DEF Handler, Lookup, GetDocument, LoadDocument, Open, Update, Apply, ApplyThrows, Watch, Validate,
           UpdateHighlights, CloseHighlights, CloseDocument, GetHighlights, LoadFails
  <2> QED BY <1>1, <2>1
<1>4. ASSUME NEW n, Validation(n) \/ ValidationFails(n) \/ Highlight(n) PROVE inTurn' = inTurn
  BY <1>4
     DEF Validation, ValidationBegin, ValidationLabel, ValidationDiagnose, ValidationTest, ValidationPublish,
         ValidationErase, ValidationFails, Highlight, VUnchanged
<1> QED BY <1>2, <1>3, <1>4 DEF Next, vars

LEMMA CoversNextInv ==
  ASSUME DocInv, OrderInv, CoversInv, [Next]_vars, inTurn'
  PROVE  CoversInv'
<1>0. TypeOK /\ WorkInv /\ VersionInv
  BY DEF DocInv
<1>1. \A n \in Notes : vpc[n] # "none" => hdoc[n] \in 1 .. Len(objects)
  BY <1>0, DocTypes DEF TypeOK
\* the tasks stay where they are
<1>2. ASSUME UNCHANGED <<vlabel, vtext, published>>,
             \A m \in Notes : vpc[m] # "none" => hdoc'[m] = hdoc[m],
             \A m \in Notes : vpc'[m] \in {"diagnose", "test", "publish"} => vpc'[m] = vpc[m]
      PROVE  CoversInv'
  <2>1. ASSUME NEW n \in Notes, vpc'[n] = "diagnose", vlabel[n] # -1
        PROVE  objects'[hdoc'[n]].version # -1 /\ vlabel[n] \in Elements(objects'[hdoc'[n]].text)
    <3>1. vpc[n] = "diagnose" /\ hdoc'[n] = hdoc[n] /\ hdoc[n] \in 1 .. Len(objects)
      BY <1>1, <1>2, <2>1
    <3>2. objects[hdoc[n]].version # -1 /\ vlabel[n] \in Elements(objects[hdoc[n]].text)
      BY <2>1, <3>1 DEF CoversInv
    <3> QED BY <3>1, <3>2, TextsGrow
  <2>2. \A n \in Notes : vpc'[n] \in {"test", "publish"} /\ vlabel[n] # -1 => vlabel[n] \in Elements(vtext[n])
    BY <1>2 DEF CoversInv
  <2>3. PublishedCovers'
    BY <1>2 DEF CoversInv, PublishedCovers
  <2> QED BY <1>2, <2>1, <2>2, <2>3 DEF CoversInv
<1>3. CASE UNCHANGED vars
  BY <1>2, <1>3 DEF vars
<1>4. ASSUME NEW k \in Kinds, Send(k) PROVE CoversInv'
  BY <1>2, <1>4 DEF Send, validationVars
<1>5. ASSUME NEW n \in Notes, Handler(n) PROVE CoversInv'
  BY <1>2, <1>5, HandlersLeaveTasks
<1>6. ASSUME NEW n \in Notes, Highlight(n) PROVE CoversInv'
  BY <1>2, <1>6 DEF Highlight, validationVars
\* the task of notification n goes on
<1>7. ASSUME NEW n \in Notes, VUnchanged, NEW to, vpc' = [vpc EXCEPT ![n] = to],
             \A m \in Notes : m # n => vlabel'[m] = vlabel[m] /\ vtext'[m] = vtext[m],
             to = "diagnose" /\ vlabel'[n] # -1 =>
                 objects[hdoc[n]].version # -1 /\ vlabel'[n] \in Elements(objects[hdoc[n]].text),
             to \in {"test", "publish"} /\ vlabel'[n] # -1 => vlabel'[n] \in Elements(vtext'[n]),
             PublishedCovers'
      PROVE  CoversInv'
  <2>1. vpc'[n] = to /\ \A m \in Notes : m # n => vpc'[m] = vpc[m]
    BY <1>0, <1>7 DEF TypeOK
  <2>2. UNCHANGED <<objects, hdoc>>
    BY <1>7 DEF VUnchanged, docVars
  <2> QED BY <1>7, <2>1, <2>2 DEF CoversInv
<1>8. ASSUME NEW n \in Notes, Validation(n) \/ ValidationFails(n) PROVE CoversInv'
  <2>0. /\ vlabel \in [Notes -> Notes \cup {-1, 0}] /\ vtext \in [Notes -> Texts]
        /\ PublishedCovers
    BY <1>0 DEF TypeOK, CoversInv
  <2> USE DEF VGoto
  <2>1. CASE UNCHANGED published
    <3>0. PublishedCovers'
      BY <2>0, <2>1 DEF PublishedCovers
    <3>1. CASE ValidationBegin(n) \/ ValidationTest(n) \/ ValidationFails(n)
      <4>1. PICK to \in {"begun", "done", "publish", "erase", "threw"} : vpc' = [vpc EXCEPT ![n] = to]
                                                               /\ (to = "publish" => vpc[n] = "test")
        BY <3>1 DEF ValidationBegin, ValidationTest, ValidationFails
      <4>2. UNCHANGED <<vlabel, vtext>> /\ VUnchanged
        BY <3>1 DEF ValidationBegin, ValidationTest, ValidationFails
      <4>3. to \in {"test", "publish"} /\ vlabel'[n] # -1 => vlabel'[n] \in Elements(vtext'[n])
        BY <4>1, <4>2 DEF CoversInv
      <4> QED BY <1>7, <3>0, <4>1, <4>2, <4>3
    <3>2. CASE ValidationLabel(n)
      <4>1. VUnchanged /\ UNCHANGED vtext /\ vpc[n] = "begun"
        BY <3>2 DEF ValidationLabel
      <4>2. CASE ~running[n]
        BY <1>7, <3>0, <3>2, <4>1, <4>2 DEF ValidationLabel
      <4>3. CASE running[n]
        <5>1. vpc' = [vpc EXCEPT ![n] = "diagnose"] /\ vlabel' = [vlabel EXCEPT ![n] = objects[hdoc[n]].version]
          BY <3>2, <4>3 DEF ValidationLabel
        <5>2. vlabel'[n] = objects[hdoc[n]].version /\ \A m \in Notes : m # n => vlabel'[m] = vlabel[m]
          BY <2>0, <5>1
        <5>3. objects[hdoc[n]] \in Docs /\ Labelled(objects[hdoc[n]])
          BY <1>0, <1>1, <4>1, DocTypes DEF VersionInv
        <5>4. objects[hdoc[n]].version # -1 =>
                  objects[hdoc[n]].version \in Elements(objects[hdoc[n]].text)
          <6> DEFINE t == objects[hdoc[n]].text
          <6> SUFFICES ASSUME objects[hdoc[n]].version # -1 PROVE objects[hdoc[n]].version \in Elements(t)
            OBVIOUS
          <6>1. t \in Seq(Notes) /\ t # << >> /\ t[Len(t)] = objects[hdoc[n]].version
            BY <5>3 DEF Docs, Labelled, Texts
          <6> HIDE DEF t
          <6>2. Len(t) \in 1 .. Len(t)
            <7>1. Len(t) \in Nat \ {0}
              BY <6>1, EmptySeq
            <7> QED BY <7>1
          <6> QED BY <6>1, <6>2 DEF Elements
        <5> QED BY <1>7, <3>0, <4>1, <5>1, <5>2, <5>4
      <4> QED BY <4>2, <4>3
    <3>3. CASE ValidationDiagnose(n)
      <4>1. /\ vpc[n] = "diagnose" /\ VUnchanged /\ vlabel' = vlabel
            /\ vpc' = [vpc EXCEPT ![n] = "test"] /\ vtext' = [vtext EXCEPT ![n] = objects[hdoc[n]].text]
        BY <3>3 DEF ValidationDiagnose
      <4>2. vtext'[n] = objects[hdoc[n]].text /\ \A m \in Notes : m # n => vtext'[m] = vtext[m]
        BY <2>0, <4>1
      <4>3. vlabel[n] # -1 => vlabel[n] \in Elements(vtext'[n])
        BY <4>1, <4>2 DEF CoversInv
      <4> QED BY <1>7, <3>0, <4>1, <4>2, <4>3
    <3>4. CASE ValidationErase(n)
      <4>1. PICK to \in {"done", "failed"} : vpc' = [vpc EXCEPT ![n] = to]
        BY <3>4 DEF ValidationErase
      <4>2. VUnchanged /\ vlabel' = [vlabel EXCEPT ![n] = 0] /\ vtext' = [vtext EXCEPT ![n] = << >>]
        BY <3>4 DEF ValidationErase
      <4>3. \A m \in Notes : m # n => vlabel'[m] = vlabel[m] /\ vtext'[m] = vtext[m]
        BY <2>0, <4>2
      <4> QED BY <1>7, <3>0, <4>1, <4>2, <4>3
    <3>5. CASE ValidationPublish(n)
      BY <1>7, <3>0, <3>5 DEF ValidationPublish
    <3> QED BY <1>8, <3>1, <3>2, <3>3, <3>4, <3>5 DEF Validation
  <2>2. CASE ValidationPublish(n)
    <3>1. /\ vpc[n] = "publish" /\ VUnchanged /\ UNCHANGED <<vlabel, vtext>>
          /\ vpc' = [vpc EXCEPT ![n] = "erase"]
          /\ published' = [label |-> vlabel[n], text |-> vtext[n]]
      BY <2>2 DEF ValidationPublish
    <3>2. vlabel[n] # -1 => vlabel[n] \in Elements(vtext[n])
      BY <3>1 DEF CoversInv
    <3>3. PublishedCovers'
      BY <2>0, <3>1, <3>2 DEF PublishedCovers
    <3> QED BY <1>7, <3>1, <3>3
  <2> QED
    BY <1>8, <2>1, <2>2
       DEF Validation, ValidationBegin, ValidationLabel, ValidationDiagnose, ValidationTest, ValidationErase,
           ValidationFails
<1> QED BY <1>3, <1>4, <1>5, <1>6, <1>8 DEF Next

\* As long as the handlers begin in turn, the diagnostics that are published under
\* a version were computed from a text with the edit of that version, though the
\* version and the text are read in two steps, between which the document goes on
\* changing, is closed and opened again.
THEOREM DocumentsPublishedCover == Spec => []PublishedCoversItsVersion
<1>1. Init => CoverInv
  BY DEF Init, CoverInv, CoversInv, PublishedCovers
<1>2. Init => DocInv /\ OrderInv /\ CoverInv
  BY <1>1, DocInitInv, OrderInitInv
<1>3. (DocInv /\ OrderInv /\ CoverInv) /\ [Next]_vars => (DocInv /\ OrderInv /\ CoverInv)'
  <2> SUFFICES ASSUME DocInv, OrderInv, CoverInv, [Next]_vars PROVE (DocInv /\ OrderInv /\ CoverInv)'
    OBVIOUS
  <2>1. inTurn' => inTurn
    BY TurnsEnd
  <2> QED BY <2>1, DocNextInv, OrderNextInv, CoversNextInv DEF CoverInv
<1>4. CoverInv => PublishedCoversItsVersion
  BY DEF CoverInv, CoversInv, PublishedCovers, PublishedCoversItsVersion
<1> QED BY <1>2, <1>3, <1>4, PTL DEF Spec
=============================================================================
