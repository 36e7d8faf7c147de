--------------------------- MODULE SequentialFile ---------------------------
(***************************************************************************)
(* What a program is promised of a unit that is connected for sequential   *)
(* unformatted access: the file is a sequence of records, the position is  *)
(* before one of them, before the end-of-file record or after it, and      *)
(* every statement moves it by whole records.                              *)
(***************************************************************************)
EXTENDS Integers, Sequences

CONSTANTS Records,       \* what can be in one record: sequences of data
          MaxRead        \* bound on the data of a READ

VARIABLES records,       \* the data records of the file
          position,      \* the number of records before the position;
                         \* Len(records) + 1 after the end-of-file record
          connected,
          result         \* the last statement, its IOSTAT and its items

vars == <<records, position, connected, result>>

Indeterminate == -1      \* the position after an error condition

Done(s) == [statement |-> s, iostat |-> 0, items |-> << >>]

Init ==
    /\ records = << >>
    /\ position = 0
    /\ connected = FALSE
    /\ result = Done("close")

\* OPEN, for the named file as it is, at its end, or emptied.
Open ==
    /\ ~connected
    /\ connected' = TRUE
    /\ result' = Done("open")
    /\ \/ records' = records /\ position' \in {0, Len(records)}
       \/ records' = << >> /\ position' = 0

\* OPEN of the connected file changes modes, never the position.
Reopen ==
    /\ connected
    /\ result' = Done("open")
    /\ UNCHANGED <<records, position, connected>>

\* A statement on a unit that is not connected finds the file at its start.
Where == IF connected THEN position ELSE 0

\* The records before the position.
Before == SubSeq(records, 1, IF Where > Len(records) THEN Len(records) ELSE Where)

\* READ of n data takes them from the next record, and only from it.
Read(n) ==
    /\ connected' = TRUE
    /\ UNCHANGED records
    /\ LET p == Where
       IN  \/ /\ p \in 0 .. Len(records) - 1
              /\ n <= Len(records[p + 1])
              /\ position' = p + 1
              /\ result' = [Done("read") EXCEPT !.items = SubSeq(records[p + 1], 1, n)]
           \/ /\ p \in 0 .. Len(records) - 1
              /\ n > Len(records[p + 1])
              /\ position' = Indeterminate
              /\ result'.statement = "read" /\ result'.iostat > 0
           \/ /\ p >= Len(records)
              /\ position' = Len(records) + 1
              /\ result' = [Done("read") EXCEPT !.iostat = -1]

\* WRITE makes its record the last one.
Write(r) ==
    /\ connected' = TRUE
    /\ position # Indeterminate \/ ~connected
    /\ records' = Append(Before, r)
    /\ position' = Len(records')
    /\ result' = Done("write")

Backspace ==
    /\ connected
    /\ position # Indeterminate
    /\ position' = IF position = 0 THEN 0 ELSE position - 1
    /\ result' = Done("backspace")
    /\ UNCHANGED <<records, connected>>

Rewind ==
    /\ connected
    /\ position' = 0
    /\ result' = Done("rewind")
    /\ UNCHANGED <<records, connected>>

\* ENDFILE writes the end-of-file record; nothing follows it.
Endfile ==
    /\ connected
    /\ position # Indeterminate
    /\ records' = Before
    /\ position' = Len(records') + 1
    /\ result' = Done("endfile")
    /\ UNCHANGED connected

Close ==
    /\ connected
    /\ connected' = FALSE
    /\ position' = 0
    /\ result' = Done("close")
    /\ UNCHANGED records

Next ==
    \/ Open \/ Reopen \/ Backspace \/ Rewind \/ Endfile \/ Close
    \/ \E r \in Records : Write(r)
    \/ \E n \in 0 .. MaxRead : Read(n)

Spec == Init /\ [][Next]_vars
=============================================================================
