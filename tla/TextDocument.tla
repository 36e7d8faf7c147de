---------------------------- MODULE TextDocument ----------------------------
(***************************************************************************)
(* LspTextDocument (src/server/lsp_text_document.cpp): the text of a       *)
(* document, its line index, the changes of a didChange notification, and  *)
(* the conversions between positions and offsets, next to the text that    *)
(* the client has by the definitions of the protocol (metaModel.json).     *)
(*                                                                         *)
(* A text is a sequence of bytes: letters, LF and CR.  Offsets, lines and  *)
(* columns count from 0 as in the code, so offset i is element i + 1.  The *)
(* server counts bytes; the client counts characters, of which a byte in   *)
(* Trailing is not the first one (the server does not agree on an encoding *)
(* of positions, so the client's is the default, UTF-16).                  *)
(***************************************************************************)
EXTENDS Integers, Sequences, FiniteSets, SequencesExt

CONSTANTS Letters,       \* bytes other than LF and CR
          Trailing,      \* those of them that continue a character
          LF, CR,
          MaxLength,     \* bound on the length of a text
          MaxPatch,      \* bound on the length of an inserted text
          MaxVersion,    \* bound on the versions of the document
          Beyond         \* what the client does besides the usual:
                         \* "sequence": the second change of a notification
                         \* is any change of the text the first one leaves,
                         \* not only one before it, as when an editor sends
                         \* its carets' edits last one first;
                         \* "past": a range reaches past the end of a line
                         \* or of the text, where it defaults back

Chars == Letters \cup {LF, CR}

ASSUME TextAssumption ==
    /\ IsFiniteSet(Letters) /\ LF # CR /\ {LF, CR} \cap Letters = {}
    /\ MaxLength \in Nat /\ MaxPatch \in Nat /\ MaxVersion \in Nat
    /\ Trailing \subseteq Letters
    /\ Beyond \subseteq {"sequence", "past"}

VARIABLES text, version, \* _text, _version
          posByLine,     \* the offset at which each line begins
          lenByLine,     \* the length of each line, with its end
          remote         \* the client: [text, version]

vars == <<text, version, posByLine, lenByLine, remote>>

\* A byte that continues a character has the character before it.
Texts(n) ==
    {t \in UNION {[1 .. k -> Chars] : k \in 0 .. n} :
        \A i \in DOMAIN t : t[i] \in Trailing => i > 1 /\ t[i - 1] \in Letters}

-----------------------------------------------------------------------------
(* The line index                                                          *)

RECURSIVE IndexFrom(_, _, _, _)
IndexFrom(t, index, column, acc) ==
    IF index >= Len(t) THEN [acc EXCEPT !.len = Append(@, column + 1)]
    ELSE LET c == t[index + 1]
             crlf == c = CR /\ index + 1 < Len(t) /\ t[index + 2] = LF
             skip == IF crlf THEN 1 ELSE 0
         IN  IF c \in {LF, CR}
             THEN IndexFrom(t, index + skip + 1, 0,
                            [pos |-> Append(acc.pos, index + skip + 1),
                             len |-> Append(acc.len, column + skip + 1)])
             ELSE IndexFrom(t, index + 1, column + 1, acc)

\* Mutant: the LF of a CR LF begins a line of its own.
RECURSIVE IndexLinesOf(_, _, _)
IndexLinesOf(t, i, acc) ==
    IF i >= Len(t) THEN [acc EXCEPT !.len = Append(@, i - Last(acc.pos) + 1)]
    ELSE IndexLinesOf(t, i + 1,
                      IF t[i + 1] \notin {LF, CR} THEN acc
                      ELSE [pos |-> Append(acc.pos, i + 1),
                            len |-> Append(acc.len, i - Last(acc.pos) + 1)])
IndexOfNoCrLf(t) == IndexLinesOf(t, 0, [pos |-> <<0>>, len |-> << >>])

IndexOf(t) == IndexFrom(t, 0, 0, [pos |-> <<0>>, len |-> << >>])

\* indexLines()
IndexLines ==
    /\ posByLine' = IndexOf(text').pos
    /\ lenByLine' = IndexOf(text').len

-----------------------------------------------------------------------------
(* Positions and offsets                                                   *)

ToPositionThrows(line, column) == line >= Len(posByLine) \/ column >= lenByLine[line + 1]
ToPosition(line, column) == posByLine[line + 1] + column

\* Mutant: the middle is rounded down.
MiddleDown(lower, upper) == (lower + upper) \div 2

Middle(lower, upper) == (lower + upper + 1) \div 2

\* fromPosition(): a binary search.
RECURSIVE Search(_, _, _, _)
Search(position, lower, upper, fuel) ==
    LET line == Middle(lower, upper)
        column == position - posByLine[line + 1]
    IN  IF column >= 0 /\ column < lenByLine[line + 1] THEN <<line, column>>
        ELSE IF fuel = 0 THEN <<>>    \* it does not end
        ELSE IF column < 0 THEN Search(position, lower, line - 1, fuel - 1)
                           ELSE Search(position, line, upper, fuel - 1)
FromPosition(position) == Search(position, 0, Len(posByLine) - 1, Len(text) + 1)

-----------------------------------------------------------------------------
(* apply()                                                                 *)

\* A change replaces a range, from a <<line, character>> to another, or, when
\* `range` is empty, the whole text.
From(c) == IF c.range = << >> THEN 0 ELSE posByLine[c.range[1][1] + 1] + c.range[1][2]

\* Mutant: the changes are taken in the order in which they were sent.
OrdersAsSent(changes) == {changes}

\* std::sort() by From, which may leave changes that compare equal either way.
Orders(changes) ==
    {o \in [1 .. Len(changes) -> ToSet(changes)] :
        /\ \A x \in ToSet(changes) :
               Cardinality({i \in DOMAIN o : o[i] = x}) = Cardinality({i \in DOMAIN changes : changes[i] = x})
        /\ \A i \in 1 .. Len(o) - 1 : From(o[i]) <= From(o[i + 1])}

\* decompose() throws.
Throws(c) ==
    /\ c.range # << >>
    /\ LET start == c.range[1]
           end == c.range[2]
       IN  \/ start[1] > end[1]
           \/ start[1] = end[1] /\ start[2] > end[2]
           \/ start[1] >= Len(posByLine) /\ start[1] # Last(posByLine) + 1

\* decompose(): the offsets j and k between which the text is replaced.
Decompose(c) ==
    IF c.range = << >> THEN <<0, Len(text)>>
    ELSE LET start == c.range[1]
             end == c.range[2]
             j == IF start[1] < Len(posByLine) THEN posByLine[start[1] + 1] + start[2]
                                               ELSE Len(text)
             k == IF end[1] < Len(posByLine) THEN posByLine[end[1] + 1] + end[2]
                                             ELSE j + Len(c.text)
         IN  <<j, k>>

\* _text.substr(i, n); a negative n is a huge one once it is a size_t.
Substr(i, n) == SubSeq(text, i + 1, IF n < 0 \/ i + n > Len(text) THEN Len(text) ELSE i + n)

\* The loop over the sorted changes.
Patched(order) ==
    LET Patch(acc, c) ==
            LET jk == Decompose(c)
            IN  [buffer |-> acc.buffer \o Substr(acc.i, jk[1] - acc.i) \o c.text,
                 i |-> jk[2]]
        end == FoldLeft(Patch, [buffer |-> << >>, i |-> 0], order)
    IN  end.buffer \o Substr(end.i, Len(text) - end.i)

\* All changes are relative to the text before the notification.
Apply(changes, v) ==
    IF \E i \in DOMAIN changes : Throws(changes[i])
    THEN UNCHANGED <<text, version, posByLine, lenByLine>>
    ELSE /\ \E order \in Orders(changes) : text' = Patched(order)
         /\ IndexLines
         /\ version' = v

\* update()
Update(t, v) ==
    /\ text' = t
    /\ IndexLines
    /\ version' = v

-----------------------------------------------------------------------------
(* The client, by the definitions of metaModel.json (Position, Range and   *)
(* DidChangeTextDocumentParams)                                            *)

EndsLine(t, i) == t[i + 1] = LF \/ (t[i + 1] = CR /\ ~(i + 1 < Len(t) /\ t[i + 2] = LF))
LineStarts(t) == {0} \cup {i + 1 : i \in {i \in 0 .. Len(t) - 1 : EndsLine(t, i)}}
Line(t, i) == Cardinality({s \in LineStarts(t) : s <= i}) - 1
LineStart(t, l) == CHOOSE s \in LineStarts(t) : Cardinality({r \in LineStarts(t) : r < s}) = l
NumLines(t) == Cardinality(LineStarts(t))
\* The bytes of line l, without its end, and the number of its characters.
LineOffsets(t, l) ==
    {i \in 0 .. Len(t) - 1 : i >= LineStart(t, l) /\ Line(t, i) = l /\ t[i + 1] \notin {LF, CR}}
LineLength(t, l) == Cardinality({i \in LineOffsets(t, l) : t[i + 1] \notin Trailing})

\* The positions inside a text.
Positions(t) == UNION {{<<l, c>> : c \in 0 .. LineLength(t, l)} : l \in 0 .. NumLines(t) - 1}

\* Those and others: past the end of their line, or past the last line.
AllPositions == (0 .. MaxLength + 1) \X (0 .. MaxLength + 1)

\* The offset a position denotes: after the first p[2] characters of its line,
\* at the end of a line that has fewer, at the end of the text if there is no
\* such line.
Offset(t, p) ==
    IF p[1] >= NumLines(t) THEN Len(t)
    ELSE LET line == LineOffsets(t, p[1])
             Begun(i) == Cardinality({k \in line : k <= i /\ t[k + 1] \notin Trailing})
         IN  LineStart(t, p[1]) + Cardinality({i \in line : Begun(i) <= p[2]})

ChangesAt(positions) ==
    [range : {<<p, q>> : p, q \in positions} \cup {<< >>}, text : Texts(MaxPatch)]
Changes(t) == ChangesAt(Positions(t))
\* A range does not end before it starts.
Ordered(c) ==
    c.range # << >> =>
        \/ c.range[1][1] < c.range[2][1]
        \/ c.range[1][1] = c.range[2][1] /\ c.range[1][2] <= c.range[2][2]
ValidChanges(t) == {c \in Changes(t) : Ordered(c)}

\* A single change is not sorted, so it may name any line.
SingleChanges(t) ==
    IF "past" \in Beyond THEN {c \in ChangesAt(AllPositions) : Ordered(c)} ELSE ValidChanges(t)

\* One change moves the document from one state to the next.
Mirror(t, c) ==
    IF c.range = << >> THEN c.text
    ELSE SubSeq(t, 1, Offset(t, c.range[1])) \o c.text \o SubSeq(t, Offset(t, c.range[2]) + 1, Len(t))

Before(t, c, d) ==
    c.range # << >> /\ d.range # << >> /\ Offset(t, c.range[2]) < Offset(t, d.range[1])

\* The second change of a notification; it names no line that the first one
\* adds, for which from() reads past the end of posByLine.
Second(t, first) ==
    IF "sequence" \in Beyond
    THEN {c \in ValidChanges(Mirror(t, first)) : \A i \in DOMAIN c.range : c.range[i][1] < NumLines(t)}
    ELSE {c \in ValidChanges(t) : Before(t, c, first)}

\* didOpen: a new object, its text and its index.
Init ==
    /\ text \in Texts(MaxLength)
    /\ version = 1
    /\ posByLine = IndexOf(text).pos
    /\ lenByLine = IndexOf(text).len
    /\ remote = [text |-> text, version |-> 1]

Notify(changes, t) ==
    /\ version < MaxVersion
    /\ Len(t) <= MaxLength
    /\ remote' = [text |-> t, version |-> remote.version + 1]
    /\ Apply(changes, remote.version + 1)

DidChange ==
    \E c \in SingleChanges(remote.text) : Notify(<<c>>, Mirror(remote.text, c))

DidChangeTwice ==
    \E c \in ValidChanges(remote.text) : \E d \in Second(remote.text, c) :
        Notify(<<c, d>>, Mirror(Mirror(remote.text, c), d))

\* A change whose range ends before it starts, together with a good one: the
\* notification is refused as a whole.
DidChangeMalformed ==
    /\ \E c \in Changes(remote.text) \ ValidChanges(remote.text), d \in ValidChanges(remote.text) :
           Apply(<<d, c>>, remote.version + 1)
    /\ UNCHANGED remote

\* The document is opened, or loaded, again.
Reopen ==
    /\ version < MaxVersion
    /\ \E t \in Texts(MaxLength) :
        /\ remote' = [text |-> t, version |-> remote.version + 1]
        /\ Update(t, remote.version + 1)

Next == DidChange \/ DidChangeTwice \/ DidChangeMalformed \/ Reopen

Spec == Init /\ [][Next]_vars

-----------------------------------------------------------------------------
(* Properties                                                              *)

\* The type invariant.
TypeOK ==
    /\ text \in Seq(Chars)
    /\ version \in 1 .. MaxVersion
    /\ posByLine \in Seq(Nat)
    /\ lenByLine \in Seq(Nat \ {0})
    /\ remote \in [text : Seq(Chars), version : 1 .. MaxVersion]

\* After every notification the server's text and version are the client's:
\* sorting the changes and applying all of them to the old text, which is what
\* apply() does, gives the text that the client got by applying one after
\* the other; a notification that is refused changes nothing.
TextMirrored == text = remote.text /\ version = remote.version

\* The index that was built in one pass describes the lines of the text: where
\* each begins, and that each reaches to the begin of the next.
IndexMatchesText ==
    /\ TypeOK
    /\ Len(posByLine) = NumLines(text)
    /\ Len(lenByLine) = Len(posByLine)
    /\ \A l \in 0 .. Len(posByLine) - 1 :
        /\ posByLine[l + 1] = LineStart(text, l)
        /\ posByLine[l + 1] + lenByLine[l + 1]
               = IF l + 1 < Len(posByLine) THEN posByLine[l + 2] ELSE Len(text) + 1

\* The place between the CR and the LF that end a line, which no position of
\* the protocol denotes.
BetweenCrLf(t, p) ==
    /\ p[1] < NumLines(t) - 1
    /\ p[2] = LineLength(t, p[1]) + 1
    /\ \E i \in 1 .. Len(t) - 1 : i = Offset(t, p) + 1 /\ t[i] = CR /\ t[i + 1] = LF

\* The binary search of fromPosition() ends for every offset of the text and
\* is undone by toPosition(); and in a text whose characters are one byte each
\* toPosition() gives the client's offset for the positions inside the text,
\* the offset of the LF for the one that is not a position, and throws for all
\* others, where by the protocol they default back to the end of their line or
\* of the text.
PositionsRoundTrip ==
    /\ \A i \in 0 .. Len(text) - 1 :
        LET p == FromPosition(i)
        IN  p # << >> /\ ~ToPositionThrows(p[1], p[2]) /\ ToPosition(p[1], p[2]) = i
    /\ \A p \in AllPositions :
        IF p \in Positions(text)
        THEN ~ToPositionThrows(p[1], p[2]) /\ ToPosition(p[1], p[2]) = Offset(text, p)
        ELSE IF BetweenCrLf(text, p)
             THEN ~ToPositionThrows(p[1], p[2]) /\ ToPosition(p[1], p[2]) = Offset(text, p) + 1
             ELSE ToPositionThrows(p[1], p[2])
=============================================================================
