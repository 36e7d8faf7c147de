----------------------------- MODULE UnitTable -----------------------------
(***************************************************************************)
(* The table of input/output units of the run-time library                 *)
(* (src/libasr/runtime/lfortran_intrinsics.c): OPEN, CLOSE, the statements *)
(* that connect a unit implicitly, and the end of the program.  What the   *)
(* statements transfer is in UnformattedUnit.                              *)
(*                                                                         *)
(* A statement is executed by calls of the C library that may fail: fopen, *)
(* fclose (its flush) and remove (the file is gone).  An error is reported *)
(* in IOSTAT= when the statement has it and ends the program otherwise.    *)
(***************************************************************************)
EXTENDS Integers, Sequences, FiniteSets, SequencesExt

CONSTANTS Units,         \* the units the program uses
          NewUnits,      \* those of NEWUNIT=, which are negative numbers
          Named,         \* the names of FILE= specifiers
          MaxUnits,      \* MAXUNITS
          Beyond         \* the failures the run-time library does not survive that happen

VARIABLES table,         \* unit_to_file[0 .. last_index_used]
          files,         \* the names of the files that exist
          open,          \* the streams that are open
          registered,    \* atexit(_lfortran_close_all_units) was called
          exited,        \* the program has ended
          result         \* the last statement and whether it failed

vars == <<table, files, open, registered, exited, result>>

\* No statement depends on the result of an earlier one or, as a unit has one
\* entry, on the order of the entries.
View == <<ToSet(table), files, open, registered, exited>>

NULL == <<"NULL">>
Fort(u) == <<"fort", u>>
Scratch(k) == <<"scratch", k>>
IsScratch(name) == name[1] = "scratch"
Names == {<<"named", n>> : n \in Named}

\* The streams: the process's own, and pointers that fopen() returns, which
\* may be those of streams that were closed.
stdin == 0
stdout == 1
stderr == 2
Standard == {stdin, stdout, stderr}
Streams == 3 .. MaxUnits + 3

FileNames == Names \cup {Fort(u) : u \in Units} \cup {Scratch(k) : k \in Streams}

ASSUME TableAssumption ==
    /\ Units \subseteq Nat /\ IsFiniteSet(Units)
    /\ NewUnits \subseteq Units \ {0, 5, 6}
    /\ IsFiniteSet(Named)
    /\ MaxUnits \in Nat /\ MaxUnits > 3
    /\ Beyond \subseteq {"flush", "unlink", "again", "lost"}

-----------------------------------------------------------------------------
(* The table.  Statements are computed on a record of the state.           *)

World ==
    [table |-> table, files |-> files, open |-> open, registered |-> registered,
     exited |-> FALSE, iostat |-> 0]

Entry(u, name, stream, bin, writable) ==
    [unit |-> u, name |-> name, stream |-> stream, bin |-> bin, writable |-> writable]

\* find_unit(): 0 when the unit is not connected.
FindUnit(w, u) ==
    LET found == {i \in DOMAIN w.table : w.table[i].unit = u}
    IN  IF found = {} THEN 0 ELSE CHOOSE i \in found : \A j \in found : i <= j

\* The entry of a unit, or none.
EntryOf(t, u) == {e \in ToSet(t) : e.unit = u}

\* _lfortran_close_all_units(): the program's last act, so the table is gone.
CloseAllUnits(w) ==
    LET streams == {w.table[i].stream : i \in DOMAIN w.table} \ Standard
        names == {w.table[i].name : i \in DOMAIN w.table}
    IN  [w EXCEPT !.table = << >>,
                  !.files = {n \in @ : ~(IsScratch(n) /\ n \in names)},
                  !.open = @ \ streams]

\* exit(1) after a message
Exit(w) ==
    [(IF w.registered THEN CloseAllUnits(w) ELSE w) EXCEPT !.exited = TRUE]

\* An error condition of a statement.
Fail(w, iostat) == [w EXCEPT !.iostat = iostat]

\* How a statement ends: without IOSTAT= an error ends the program.
Outcomes(w) == IF w.iostat = 0 \/ w.exited THEN {w} ELSE {w, Exit(w)}

\* store_unit_file().  At the limit it counts the entry it refuses before it
\* exits, and _lfortran_close_all_units() reads one entry past the table; it is
\* the last it reads, so that what it finds there changes nothing modelled.
StoreUnitFile(w, e) ==
    LET i == FindUnit(w, e.unit)
        name == IF e.name = NULL /\ i # 0 THEN w.table[i].name ELSE e.name
    IN  IF i # 0 THEN [w EXCEPT !.table[i] = [e EXCEPT !.name = name]]
        ELSE IF Len(w.table) >= MaxUnits
             THEN Exit(w)
             ELSE [w EXCEPT !.table = Append(@, e)]

\* remove_from_unit_to_file()
RemoveFromUnitToFile(w, u) == [w EXCEPT !.table = RemoveAt(@, FindUnit(w, u))]

\* The stream and the file of a successful fopen().
FreeStream(w) == CHOOSE s \in Streams : s \notin w.open
Fopen(w, name) == [w EXCEPT !.open = @ \cup {FreeStream(w)}, !.files = @ \cup {name}]

-----------------------------------------------------------------------------
(* CLOSE                                                                   *)

\* Mutant: the unit is taken from the table although its file stays.
CloseForgets(w, u, delete, flushed) ==
    LET i == FindUnit(w, u)
        e == w.table[i]
    IN  IF i = 0 THEN w
        ELSE RemoveFromUnitToFile([w EXCEPT !.files = IF delete THEN @ \ {e.name} ELSE @,
                                            !.open = @ \ ({e.stream} \ Standard)], u)

\* Mutant: the stream of the unit is not closed.
CloseLeaks(w, u, delete, flushed) ==
    LET i == FindUnit(w, u)
        e == w.table[i]
    IN  IF i = 0 THEN w
        ELSE RemoveFromUnitToFile([w EXCEPT !.files = IF delete \/ IsScratch(e.name)
                                                      THEN @ \ {e.name} ELSE @], u)

\* _lfortran_close(), where fclose() succeeds or not; it closes the stream in
\* any case.
Close(w, u, delete, flushed) ==
    LET i == FindUnit(w, u)
        e == w.table[i]
        own == {e.stream} \ Standard
        v == [w EXCEPT !.open = @ \ own]
    IN  IF i = 0 THEN w
        ELSE IF own # {} /\ ~flushed THEN Fail(v, 1)
        ELSE IF ~(delete \/ IsScratch(e.name)) THEN RemoveFromUnitToFile(v, u)
        ELSE IF e.name \notin w.files THEN Fail(v, 2)
        ELSE RemoveFromUnitToFile([v EXCEPT !.files = @ \ {e.name}], u)

-----------------------------------------------------------------------------
(* OPEN                                                                    *)

\* The name when FILE= is not given; a generated one is new.
FileName(u, status) ==
    IF u \notin NewUnits /\ status = "unknown" THEN Fort(u)
    ELSE Scratch(CHOOSE k \in Streams : Scratch(k) \notin files)

\* The STATUS= and the other specifiers: the IOSTAT they give.
Specifiers(status, spec, exists) ==
    IF spec = "invalid" THEN 5002
    ELSE CASE status = "old" /\ ~exists -> 2
           [] status = "new" /\ exists -> 17
           [] status = "invalid" -> 5002
           [] OTHER -> 0

\* _lfortran_open() from the INQUIRE on, with the file name known.
Connect(w, u, name, status, spec, fault) ==
    LET i == FindUnit(w, u)
        exists == name \in w.files
        create == status = "unknown" /\ ~exists /\ i = 0 /\ fault # "create"
        v == [w EXCEPT !.files = IF create THEN @ \cup {name} ELSE @]
        iostat == Specifiers(status, spec, exists)
        e(stream, n) == Entry(u, n, stream, spec = "unformatted", spec # "read")
    IN  IF iostat # 0 THEN Fail(v, iostat)
        ELSE IF i # 0 THEN StoreUnitFile(v, e(v.table[i].stream, NULL))
        ELSE IF fault # "none" \/ (status \in {"old", "unknown"} /\ name \notin v.files)
             THEN Fail(v, 2)
        ELSE StoreUnitFile(Fopen(v, name), e(FreeStream(v), name))

\* Mutant: the unit keeps the stream of the file it was connected to.
DisconnectNever(w, u, name, given, flushed) == w

\* A unit that is connected to another file is closed first, without IOSTAT=.
Disconnect(w, u, name, given, flushed) ==
    LET i == FindUnit(w, u)
        c == Close(w, u, FALSE, flushed)
    IN  IF i = 0 \/ ~given \/ w.table[i].name = name THEN w
        ELSE IF c.iostat # 0 THEN Exit(c) ELSE c

-----------------------------------------------------------------------------
(* The statements of the program                                           *)

Become(w, statement, u, name) ==
    \E v \in Outcomes(w) :
        /\ table' = v.table
        /\ files' = v.files
        /\ open' = v.open
        /\ registered' = v.registered
        /\ exited' = v.exited
        /\ result' = [statement |-> statement, unit |-> u, name |-> name, failed |-> v.iostat # 0]

\* The pre-connected units.
Init ==
    /\ table = <<Entry(5, NULL, stdin, FALSE, FALSE),
                 Entry(6, NULL, stdout, FALSE, TRUE),
                 Entry(0, NULL, stderr, FALSE, TRUE)>>
    /\ files = {}
    /\ open = Standard
    /\ registered = FALSE
    /\ exited = FALSE
    /\ result = [statement |-> "none", unit |-> 0, name |-> NULL, failed |-> FALSE]

\* The FILE=, STATUS= and other specifiers of an OPEN statement.
Statuses == {"old", "new", "replace", "scratch", "unknown", "invalid"}
Specs == {"formatted", "unformatted", "read", "invalid"}

\* What fclose() may return.
Flushes == IF "flush" \in Beyond THEN BOOLEAN ELSE {TRUE}

\* An OPEN that ends in an error after it has made its scratch file.
Loses(w, u, name, status, spec, fault) ==
    /\ IsScratch(name) /\ FindUnit(w, u) = 0
    /\ \/ status = "unknown" /\ (spec = "invalid" \/ fault = "open")
       \/ Len(w.table) = MaxUnits

\* STATUS="scratch" excludes FILE=, and an invalid specifier is the only one that
\* counts; a unit that is connected needs no fopen().
OpenStatement(u, given, status, spec) ==
    /\ given # NULL => status # "scratch"
    /\ spec = "invalid" => status \in {"old", "unknown"}
    /\ status = "invalid" => spec = "formatted"
    /\ \E flushed \in Flushes, fault \in {"none", "create", "open"} :
        LET name == IF given = NULL THEN FileName(u, status) ELSE given
            w == Disconnect([World EXCEPT !.registered = TRUE], u, name, given # NULL, flushed)
        IN  /\ fault = "create" => status = "unknown"
            /\ fault # "none" => FindUnit(w, u) = 0
            /\ Loses(w, u, name, status, spec, fault) =>
                   "lost" \in Beyond /\ Cardinality({n \in files : IsScratch(n)}) < MaxUnits
            /\ Become(IF w.exited THEN w ELSE Connect(w, u, name, status, spec, fault),
                      "open", u, given)

CloseStatement(u, delete) ==
    \E flushed \in Flushes :
        /\ \A i \in DOMAIN table :
               table[i].unit = u /\ delete /\ table[i].stream \notin Standard =>
                   table[i].name \in files \/ "unlink" \in Beyond
        /\ Become(Close(World, u, delete, flushed), "close", u, NULL)

\* fort.<unit> is connected implicitly.
Implicit(w, u, bin, fault) ==
    IF fault # "none" THEN Fail(w, 5004)
    ELSE StoreUnitFile(Fopen(w, Fort(u)), Entry(u, Fort(u), FreeStream(w), bin, TRUE))

\* The unit is connected to "fort.<unit>" with the other form: it is connected
\* again, to the emptied file.
Again(w, e, bin, fault) ==
    LET v == [w EXCEPT !.open = @ \ {e.stream}]
    IN  IF fault # "none" THEN Fail(v, 5004)
        ELSE StoreUnitFile(Fopen(v, Fort(e.unit)), Entry(e.unit, NULL, FreeStream(v), bin, TRUE))

\* _lfortran_file_write()
WriteStatement(u, bin) ==
    \E fault \in {"none", "open"} :
        LET w == World
            i == FindUnit(w, u)
            e == w.table[i]
            again == i # 0 /\ e.writable /\ e.bin # bin /\ e.name = Fort(u)
        IN  /\ again /\ fault # "none" => "again" \in Beyond
            /\ Become(IF i = 0 THEN Implicit(w, u, bin, fault)
                   ELSE IF ~e.writable THEN Fail(w, 5003)
                   ELSE IF e.bin = bin THEN w
                   ELSE IF again THEN Again(w, e, bin, fault)
                   ELSE Fail(w, 5001), "write", u, NULL)

\* _lfortran_connect_unit_for_read(); a file that may only be read is
\* connected for reading.
ReadStatement(u, bin) ==
    \E readonly \in BOOLEAN, fault \in {"none", "open"} :
        LET w == World
            c == Implicit(w, u, bin, fault)
            i == FindUnit(c, u)
        IN  Become(IF FindUnit(w, u) # 0 THEN w
                   ELSE IF u \in NewUnits THEN Fail(w, 1)
                   ELSE IF i # 0 /\ readonly /\ Fort(u) \in files /\ ~c.exited
                        THEN [c EXCEPT !.table[i].writable = FALSE]
                   ELSE c, "read", u, NULL)

\* _lfortran_endfile()
EndfileStatement(u) ==
    \E fault \in {"none", "open"} :
        Become(IF FindUnit(World, u) # 0 THEN World ELSE Implicit(World, u, FALSE, fault),
               "endfile", u, NULL)

\* The end of the program, or STOP.
Finalize == Become([CloseAllUnits(World) EXCEPT !.exited = TRUE], "end", 0, NULL)

\* Another program removes a file.
Unlink ==
    /\ \E name \in {n \in files : ~IsScratch(n)} : files' = files \ {name}
    /\ UNCHANGED <<table, open, registered, exited, result>>

Next ==
    /\ ~exited
    /\ \/ \E u \in Units, given \in {NULL} \cup Names, status \in Statuses, spec \in Specs :
              OpenStatement(u, given, status, spec)
       \/ \E u \in Units, delete \in BOOLEAN : CloseStatement(u, delete)
       \/ \E u \in Units, bin \in BOOLEAN : WriteStatement(u, bin)
       \/ \E u \in Units, bin \in BOOLEAN : ReadStatement(u, bin)
       \/ \E u \in Units : EndfileStatement(u)
       \/ Finalize
       \/ Unlink

Spec == Init /\ [][Next]_vars

-----------------------------------------------------------------------------
(* Properties                                                              *)

Entries ==
    [unit : Units \cup {0, 5, 6}, name : {NULL} \cup FileNames, stream : Standard \cup Streams,
     bin : BOOLEAN, writable : BOOLEAN]

\* The type invariant: a unit has at most one entry.
TypeOK ==
    /\ table \in Seq(Entries)
    /\ Len(table) <= MaxUnits
    /\ \A i, j \in DOMAIN table : table[i].unit = table[j].unit => i = j
    /\ files \subseteq FileNames
    /\ open \subseteq Standard \cup Streams
    /\ exited \in BOOLEAN /\ registered \in BOOLEAN

\* Every stream that is open belongs to one unit and every unit's stream is
\* open, whatever statements failed on the way: nothing leaks, no stream is used
\* or closed again after it was closed, at the end of the program neither, and
\* the process's own streams are never closed.
StreamsAreOwned ==
    /\ TypeOK
    /\ Standard \subseteq open
    /\ ~exited =>
        /\ \A i \in DOMAIN table : table[i].stream \in open
        /\ \A s \in open \ Standard : Cardinality({i \in DOMAIN table : table[i].stream = s}) = 1

\* A scratch file exists only while a unit is connected to it, and none is
\* left when the program ends, by END, STOP or an error.
ScratchFilesAreDeleted ==
    \A n \in files : IsScratch(n) => ~exited /\ \E i \in DOMAIN table : table[i].name = n

\* OPEN connects its unit to the file it names or reports an error, and then
\* the unit is as it was or not connected at all; no other unit is disturbed.
OpenTouchesOneUnit ==
    [][result'.statement = "open" /\ ~exited' =>
        LET u == result'.unit
            new == EntryOf(table', u)
        IN  /\ ToSet(table') \ new = ToSet(table) \ EntryOf(table, u)
            /\ IF ~result'.failed
               THEN \E e \in new : new = {e} /\ (result'.name # NULL => e.name = result'.name)
               ELSE new \in {{}, EntryOf(table, u)}]_vars
=============================================================================
