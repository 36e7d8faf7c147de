-------------------------- MODULE UnformattedUnit --------------------------
(***************************************************************************)
(* Sequential unformatted input and output of the run-time library         *)
(* (src/libasr/runtime/lfortran_intrinsics.c).  A record is its items      *)
(* between two markers that hold its length.  READ is one runtime call    *)
(* per item and a last one that skips the rest of the record; what is left *)
(* of the record is kept in the unit between the calls.                    *)
(*                                                                         *)
(* The file is a sequence of words of four bytes, markers and data alike,  *)
(* and lengths count words; it is "fort.<unit>", the file that statements  *)
(* on an unconnected unit connect.  Statements have IOSTAT=; without it    *)
(* the runtime ends the program where the model sets a positive value.     *)
(***************************************************************************)
EXTENDS Integers, Sequences, SequencesExt

CONSTANTS Values,        \* the data; they may look like markers
          MaxItems,      \* bound on the data of a record, of an item of a
                         \* READ, and on its items
          MaxWords,      \* bound on the length of the file
          Uses           \* what else a program does: a subset of Habits

Habits == {"overread", "empty item", "reopen at end", "write at end"}

ASSUME UnitAssumption ==
    /\ Values \subseteq Nat /\ MaxItems \in Nat /\ MaxWords \in Nat
    /\ Uses \subseteq Habits

VARIABLES file,          \* the words of the file
          connected,     \* the unit is in unit_to_file
          unit,          \* its stream's position and its UNIT_FILE
          read,          \* the READ under way: its calls so far, and how it found
                         \* the unit, which is what the program sees until its end
          outcome        \* of the last statement

unfVars == <<file, connected, unit, read, outcome>>

Data == UNION {[1 .. n -> Values] : n \in 0 .. MaxItems}

\* An item of a READ: a variable, an array or a string, and its size.
Items ==
    {<<"int", 1>>} \cup ({"array", "char"} \X (1 .. MaxItems))
        \cup {<<"array", 0>> : h \in Uses \cap {"empty item"}}
-----------------------------------------------------------------------------
(* The calls of a statement.  A call maps the unit, with the statement's   *)
(* iostat and items so far, to the unit after it.                          *)

SeqUnfStateReset(s) ==
    [s EXCEPT !.pending = 0, !.recordLen = 0, !.afterEndfile = FALSE]

\* Mutant: a READ that meets the end of the file leaves no trace.
SeqUnfBeginRecordForgets(s) ==
    IF s.pending # 0 THEN s
    ELSE IF s.pos >= Len(file) THEN [s EXCEPT !.iostat = -1]
    ELSE [s EXCEPT !.pos = @ + 1, !.pending = file[s.pos + 1], !.recordLen = file[s.pos + 1]]

SeqUnfBeginRecord(s) ==
    IF s.pending # 0 THEN s
    ELSE IF s.pos >= Len(file) THEN [s EXCEPT !.iostat = -1, !.afterEndfile = TRUE]
    ELSE LET marker == file[s.pos + 1]
         IN  IF marker < 0 THEN [s EXCEPT !.pos = @ + 1, !.iostat = 1]
             ELSE [s EXCEPT !.pos = @ + 1, !.pending = marker, !.recordLen = marker]

\* Reads the word that should be the record's trailing marker.
TrailingMarker(s, atEnd) ==
    IF s.pos >= Len(file) THEN [s EXCEPT !.iostat = atEnd]
    ELSE IF file[s.pos + 1] # s.recordLen THEN [s EXCEPT !.pos = @ + 1, !.iostat = 1]
    ELSE SeqUnfStateReset([s EXCEPT !.pos = @ + 1])

SeqUnfFinishRecord(s) ==
    IF s.pending = 0 /\ s.recordLen > 0 THEN TrailingMarker(s, 1) ELSE s

\* Takes n words of the record.
Take(s, n) ==
    [s EXCEPT !.pos = @ + n, !.pending = @ - n,
              !.items = @ \o SubSeq(file, s.pos + 1, s.pos + n)]

\* _lfortran_read_array_int32(), and _lfortran_read_int32() for n = 1.
ReadArrayInt32(s, n) ==
    LET b == SeqUnfBeginRecord([s EXCEPT !.iostat = 0])
    IN  IF b.iostat # 0 THEN b
        ELSE IF b.pending < n THEN [b EXCEPT !.iostat = 1]
        ELSE IF b.pos + n > Len(file) THEN [b EXCEPT !.pos = Len(file), !.iostat = -1]
        ELSE SeqUnfFinishRecord(Take(b, n))

ReadInt32(s) == ReadArrayInt32(s, 1)

\* _lfortran_read_char(): the string is padded when the record has less.
ReadChar(s, n) ==
    LET b == SeqUnfBeginRecord([s EXCEPT !.iostat = 0])
        length == IF b.pending > n THEN n ELSE b.pending
        t == Take(b, length)
    IN  IF b.iostat # 0 THEN b
        ELSE IF b.pos + length > Len(file) THEN [b EXCEPT !.pos = Len(file), !.iostat = -1]
        ELSE IF t.pending = 0 THEN TrailingMarker(t, -1)
        ELSE t

ReadItem(s, item) ==
    CASE item[1] = "int" -> ReadInt32(s)
      [] item[1] = "array" -> ReadArrayInt32(s, item[2])
      [] item[1] = "char" -> ReadChar(s, item[2])

\* _lfortran_empty_read()
EmptyRead(s, noValues) ==
    LET b == IF noValues THEN SeqUnfBeginRecord(s) ELSE s
    IN  IF b.iostat # 0 THEN b
        ELSE IF b.pending > 0 THEN TrailingMarker([b EXCEPT !.pos = @ + b.pending], -1)
        ELSE IF noValues /\ b.recordLen = 0 THEN TrailingMarker(b, -1)
        ELSE b

-----------------------------------------------------------------------------
(* The statements                                                          *)

\* store_unit_file(): a new entry, or the entry again, at offset p.
StoreEntry(p) ==
    SeqUnfStateReset([pos |-> p, pending |-> 0, recordLen |-> 0, afterEndfile |-> FALSE,
                      iostat |-> 0, items |-> << >>])

\* The unit of a READ or a WRITE, which connect "fort.<unit>" first.
Current == IF connected THEN unit ELSE StoreEntry(0)

Finish(statement, s) ==
    /\ unit' = [s EXCEPT !.iostat = 0, !.items = << >>]
    /\ outcome' = [statement |-> statement, iostat |-> s.iostat, items |-> s.items]

NoRead == [calls |-> 0, unit |-> StoreEntry(0), connected |-> FALSE]
Idle == read.calls = 0

UnfInit ==
    /\ file = << >>
    /\ connected = FALSE
    /\ unit = StoreEntry(0)
    /\ read = NoRead
    /\ outcome = [statement |-> "close", iostat |-> 0, items |-> << >>]

\* The last statement was no error condition, which leaves the position of
\* the file indeterminate: a program then can only rewind or close it.
Determinate == outcome.iostat <= 0

\* Where the READ that is under way, or the next one, finds the stream.
Start == IF Idle THEN Current.pos ELSE read.unit.pos

\* The program reads no more than the record has, or finds it empty.
Fits(item) ==
    "overread" \notin Uses /\ Start < Len(file) =>
        \/ Len(unit.items) + item[2] <= file[Start + 1]
        \/ file[Start + 1] = 0 /\ Idle /\ item[1] # "char"

\* OPEN(FORM='unformatted'): POSITION='append' or not, STATUS='replace' or
\* one that keeps the file.
Open(append, replace) ==
    /\ ~connected
    /\ connected' = TRUE
    /\ file' = IF replace THEN << >> ELSE file
    /\ Finish("open", StoreEntry(IF append THEN Len(file') ELSE 0))

\* OPEN of the unit that is connected to the file already.
Reopen ==
    /\ connected
    /\ Determinate
    /\ unit.afterEndfile => "reopen at end" \in Uses
    /\ Finish("open", StoreEntry(unit.pos))
    /\ UNCHANGED <<file, connected>>

\* The call of a READ for an item.  The calls follow each other whatever the
\* iostat of the one before, which each of them clears.
ReadCall(item) ==
    /\ read.calls < MaxItems
    /\ Idle => Determinate
    /\ Fits(item)
    /\ connected' = TRUE
    /\ unit' = ReadItem(Current, item)
    /\ read' = IF Idle THEN [calls |-> 1, unit |-> unit, connected |-> connected]
               ELSE [read EXCEPT !.calls = @ + 1]
    /\ UNCHANGED <<file, outcome>>

\* The last call of a READ, which may be its only one.
EndRead ==
    /\ Idle => Determinate
    /\ connected' = TRUE
    /\ LET s == Current
       IN  Finish("read", IF Idle \/ s.iostat = 0 THEN EmptyRead(s, Idle) ELSE s)
    /\ read' = NoRead
    /\ UNCHANGED file

\* A record that is written is the last one: ftruncate() at its end leaves of
\* the file only what was before the record.
KeptByWrite(pos) == SubSeq(file, 1, pos)

\* WRITE; when the unit is not connected it first makes an empty "fort.<unit>".
\* What the unit remembers of a READ stays.
Write(data) ==
    /\ Determinate
    /\ unit.afterEndfile /\ connected => "write at end" \in Uses
    /\ connected' = TRUE
    /\ LET s == Current
           n == Len(data)
       IN  /\ file' = KeptByWrite(s.pos) \o <<n>> \o data \o <<n>>
           /\ Len(file') <= MaxWords
           /\ Finish("write", [s EXCEPT !.pos = @ + n + 2])

\* Mutant: the trailing marker is counted once.
BackspaceShort ==
    /\ connected
    /\ Determinate
    /\ LET s == SeqUnfStateReset(unit)
       IN  Finish("backspace", IF unit.afterEndfile \/ s.pos = 0 THEN s
                  ELSE [s EXCEPT !.pos = @ - 1 - file[s.pos]])
    /\ UNCHANGED <<file, connected>>

Backspace ==
    /\ connected
    /\ Determinate
    /\ LET s == SeqUnfStateReset(unit)
       IN  Finish("backspace", IF unit.afterEndfile \/ s.pos = 0 THEN s
                  ELSE IF s.pos >= 2 /\ file[s.pos] \in 0 .. s.pos - 2
                       THEN [s EXCEPT !.pos = @ - 2 - file[s.pos]]
                       ELSE [s EXCEPT !.iostat = 1])
    /\ UNCHANGED <<file, connected>>

Rewind ==
    /\ connected
    /\ Finish("rewind", SeqUnfStateReset([unit EXCEPT !.pos = 0]))
    /\ UNCHANGED <<file, connected>>

Endfile ==
    /\ connected
    /\ Determinate
    /\ file' = SubSeq(file, 1, unit.pos)
    /\ Finish("endfile", [unit EXCEPT !.afterEndfile = TRUE])
    /\ UNCHANGED connected

CloseUnit ==
    /\ connected
    /\ connected' = FALSE
    /\ Finish("close", StoreEntry(0))
    /\ UNCHANGED file

UnfNext ==
    \/ \E item \in Items : ReadCall(item)
    \/ EndRead
    \/ /\ Idle
       /\ \/ \E append, replace \in BOOLEAN : Open(append, replace)
          \/ Reopen
          \/ \E data \in Data : Write(data)
          \/ Backspace \/ Rewind \/ Endfile \/ CloseUnit
       /\ UNCHANGED read

UnfSpec == UnfInit /\ [][UnfNext]_unfVars

-----------------------------------------------------------------------------
(* Properties                                                              *)

\* The offset after the record at offset p of f.
After(f, p) == p + f[p + 1] + 2

\* The offsets in S are those between complete records with equal markers,
\* which follow each other from the begin of f to its end.
Cut(f, S) ==
    /\ S \subseteq 0 .. Len(f) /\ 0 \in S /\ Len(f) \in S
    /\ \A p \in S \ {Len(f)} :
           /\ After(f, p) \in S /\ f[After(f, p)] = f[p + 1]
           /\ \A q \in S : p < q => After(f, p) <= q
    /\ \A q \in S \ {0} : \E p \in S : p < q /\ After(f, p) = q

Unit ==
    [pos : 0 .. Len(file), pending : Nat, recordLen : Nat, afterEndfile : BOOLEAN,
     iostat : -1 .. 1, items : Seq(Nat)]

\* The type invariant.
UnfTypeOK ==
    /\ file \in Seq(Nat)
    /\ connected \in BOOLEAN
    /\ unit \in Unit
    /\ read \in [calls : 0 .. MaxItems, unit : Unit, connected : BOOLEAN]
    /\ outcome.iostat \in -1 .. 1

\* Between two statements, unless one just failed, the file is made of
\* complete records with equal markers, the stream is between two of them and
\* no part of a record is pending, however WRITE, BACKSPACE and ENDFILE cut it.
BetweenRecords ==
    /\ UnfTypeOK
    /\ \E S \in SUBSET (0 .. Len(file)) : Cut(file, S) /\ (Idle /\ Determinate => unit.pos \in S)
    /\ Idle /\ Determinate =>
           /\ unit.pending = 0 /\ unit.recordLen = 0
           /\ unit.afterEndfile => unit.pos = Len(file)

\* The data records from offset p on; the file may be broken.
Parse[p \in 0 .. Len(file)] ==
    IF p = Len(file) THEN << >>
    ELSE LET n == file[p + 1]
         IN  IF p + n + 2 > Len(file) THEN <<"broken">>
             ELSE IF file[p + n + 2] # n THEN <<"broken">>
             ELSE <<SubSeq(file, p + 2, p + n + 1)>> \o Parse[p + n + 2]

\* The unit that the program sees, and its position.
Seen == IF Idle THEN unit ELSE read.unit
Position ==
    IF ~Determinate THEN -1
    ELSE IF Seen.afterEndfile THEN Len(Parse[0]) + 1
    ELSE Len(Parse[0]) - Len(Parse[Seen.pos])

Promised ==
    INSTANCE SequentialFile WITH Records <- Data, MaxRead <- MaxItems * MaxItems,
                                 records <- Parse[0],
                                 position <- Position,
                                 connected <- IF Idle THEN connected ELSE read.connected,
                                 result <- outcome

\* What a program sees of the unit, the items it reads, IOSTAT and the
\* position, is what a file of records promises.
ImplementsSequentialFile == Promised!Spec
=============================================================================
