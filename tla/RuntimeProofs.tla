--------------------------- MODULE RuntimeProofs ---------------------------
(***************************************************************************)
(* Theorems about the units of the run-time library                        *)
(* (src/libasr/runtime/lfortran_intrinsics.c).                             *)
(*                                                                         *)
(* The first part is about UnitTable, for every set of units and file      *)
(* names and every size of the table; the second, about UnformattedUnit,   *)
(* for all data and every length of records and of the file.               *)
(***************************************************************************)
EXTENDS UnitTable, UnformattedUnit, SequenceTheorems, FiniteSetTheorems, TLAPS

USE TableAssumption

-----------------------------------------------------------------------------
(* Names and tables                                                        *)

\* The four kinds of names differ, and so do two scratch files.
LEMMA NameFacts ==
  /\ NULL \notin FileNames /\ ~IsScratch(NULL)
  /\ \A u : ~IsScratch(Fort(u))
  /\ \A n \in Names : ~IsScratch(n)
  /\ \A k : IsScratch(Scratch(k)) /\ Scratch(k)[2] = k
  /\ \A n \in FileNames : IsScratch(n) => \E k \in Streams : n = Scratch(k)
BY DEF NULL, FileNames, Names, Fort, Scratch, IsScratch

Unique(t) == \A i, j \in DOMAIN t : t[i].unit = t[j].unit => i = j

\* The entries of a table as a set.
LEMMA SetOfTable ==
  ASSUME NEW t \in Seq(Entries)
  PROVE  /\ ToSet(t) \subseteq Entries
         /\ \A e : e \in ToSet(t) <=> \E i \in 1 .. Len(t) : e = t[i]
BY DEF ToSet

\* What the three operations on the table do to its entries.
LEMMA AppendEntry ==
  ASSUME NEW t \in Seq(Entries), Unique(t), NEW e \in Entries,
         \A f \in ToSet(t) : f.unit # e.unit
  PROVE  /\ Append(t, e) \in Seq(Entries) /\ Len(Append(t, e)) = Len(t) + 1
         /\ Unique(Append(t, e))
         /\ ToSet(Append(t, e)) = ToSet(t) \cup {e}
<1> DEFINE s == Append(t, e)
<1>1. /\ s \in Seq(Entries) /\ Len(s) = Len(t) + 1
      /\ \A i \in 1 .. Len(t) : s[i] = t[i]
      /\ s[Len(t) + 1] = e
  BY AppendProperties
<1>2. DOMAIN s = 1 .. Len(t) + 1 /\ DOMAIN t = 1 .. Len(t) /\ Len(t) \in Nat
  BY <1>1, LenProperties
<1>3. \A i \in 1 .. Len(t) : t[i].unit # e.unit
  BY SetOfTable
<1> HIDE DEF s
<1>4. Unique(s)
  BY <1>1, <1>2, <1>3 DEF Unique
<1>5. ToSet(s) = ToSet(t) \cup {e}
  <2>1. ASSUME NEW x PROVE x \in ToSet(s) <=> x \in ToSet(t) \cup {e}
    BY <1>1, <1>2, SetOfTable
  <2> QED BY <2>1
<1> QED BY <1>1, <1>4, <1>5 DEF s

LEMMA ReplaceEntry ==
  ASSUME NEW t \in Seq(Entries), Unique(t), NEW e \in Entries,
         NEW i \in 1 .. Len(t), t[i].unit = e.unit
  PROVE  /\ [t EXCEPT ![i] = e] \in Seq(Entries) /\ Len([t EXCEPT ![i] = e]) = Len(t)
         /\ Unique([t EXCEPT ![i] = e])
         /\ ToSet([t EXCEPT ![i] = e]) = (ToSet(t) \ {t[i]}) \cup {e}
<1> DEFINE s == [t EXCEPT ![i] = e]
<1>1. /\ s \in Seq(Entries) /\ Len(s) = Len(t)
      /\ \A j \in 1 .. Len(t) : s[j] = IF j = i THEN e ELSE t[j]
  BY ExceptSeq
<1>2. DOMAIN s = 1 .. Len(t) /\ DOMAIN t = 1 .. Len(t)
  BY <1>1, LenProperties
<1> HIDE DEF s
<1>3. Unique(s)
  BY <1>1, <1>2 DEF Unique
<1>4. \A j \in 1 .. Len(t) : t[j] = t[i] => j = i
  BY <1>2 DEF Unique
<1>5. ToSet(s) = (ToSet(t) \ {t[i]}) \cup {e}
  <2>1. ASSUME NEW x PROVE x \in ToSet(s) <=> x \in (ToSet(t) \ {t[i]}) \cup {e}
    <3>1. x \in ToSet(s) <=> \E j \in 1 .. Len(t) : x = s[j]
      BY <1>1, SetOfTable
    <3>2. x \in ToSet(t) <=> \E j \in 1 .. Len(t) : x = t[j]
      BY SetOfTable
    <3> QED BY <1>1, <1>4, <3>1, <3>2
  <2> QED BY <2>1
<1> QED BY <1>1, <1>3, <1>5 DEF s

LEMMA RemoveEntry ==
  ASSUME NEW t \in Seq(Entries), Unique(t), NEW i \in 1 .. Len(t)
  PROVE  /\ RemoveAt(t, i) \in Seq(Entries) /\ Len(RemoveAt(t, i)) = Len(t) - 1
         /\ Unique(RemoveAt(t, i))
         /\ ToSet(RemoveAt(t, i)) = ToSet(t) \ {t[i]}
<1> DEFINE s == RemoveAt(t, i)
<1>1. Len(t) \in Nat /\ DOMAIN t = 1 .. Len(t)
  BY LenProperties
<1>0. \A j \in 1 .. Len(t) : t[j] \in Entries
  BY ElementOfSeq
<1> HIDE DEF s
<1> DEFINE a == SubSeq(t, 1, i - 1)
           b == SubSeq(t, i + 1, Len(t))
<1>2. /\ a \in Seq(Entries) /\ Len(a) = i - 1
      /\ \A j \in 1 .. i - 1 : a[j] = t[j]
  <2>1. \A j \in 1 .. i - 1 : t[j] \in Entries
    BY <1>0, <1>1
  <2>2. /\ a \in Seq(Entries)
        /\ Len(a) = IF 1 <= i - 1 THEN (i - 1) - 1 + 1 ELSE 0
        /\ \A j \in 1 .. (i - 1) - 1 + 1 : a[j] = t[1 + j - 1]
    BY <2>1, SubSeqProperties
  <2> HIDE DEF a
  <2> QED BY <2>2
<1>3. /\ b \in Seq(Entries) /\ Len(b) = Len(t) - i
      /\ \A j \in 1 .. Len(t) - i : b[j] = t[i + j]
  <2>1. \A j \in i + 1 .. Len(t) : t[j] \in Entries
    BY <1>0, <1>1
  <2>2. /\ b \in Seq(Entries)
        /\ Len(b) = IF i + 1 <= Len(t) THEN Len(t) - (i + 1) + 1 ELSE 0
        /\ \A j \in 1 .. Len(t) - (i + 1) + 1 : b[j] = t[(i + 1) + j - 1]
    BY <1>1, <2>1, SubSeqProperties
  <2>3. /\ IF i + 1 <= Len(t) THEN Len(t) - (i + 1) + 1 = Len(t) - i ELSE Len(t) - i = 0
        /\ \A j \in 1 .. Len(t) - i : j \in 1 .. Len(t) - (i + 1) + 1 /\ (i + 1) + j - 1 = i + j
    <3>1. PICK n \in Nat : n = Len(t)
      BY <1>1
    <3> QED BY <3>1
  <2> HIDE DEF b
  <2>4. Len(b) = Len(t) - i
    BY <2>2, <2>3
  <2>5. ASSUME NEW j \in 1 .. Len(t) - i PROVE b[j] = t[i + j]
    <3>1. j \in 1 .. Len(t) - (i + 1) + 1 /\ (i + 1) + j - 1 = i + j
      BY <2>3
    <3>2. b[j] = t[(i + 1) + j - 1]
      BY <2>2, <3>1
    <3> QED BY <3>1, <3>2
  <2> QED BY <2>2, <2>4, <2>5
<1>4. /\ s \in Seq(Entries) /\ Len(s) = Len(t) - 1
      /\ \A j \in 1 .. Len(t) - 1 : s[j] = IF j < i THEN t[j] ELSE t[j + 1]
  <2>1. s = a \o b
    BY DEF s, RemoveAt
  <2> HIDE DEF a, b
  <2>0. /\ a \o b \in Seq(Entries) /\ Len(a \o b) = Len(a) + Len(b)
        /\ \A j \in 1 .. Len(a) + Len(b) :
               (a \o b)[j] = IF j <= Len(a) THEN a[j] ELSE b[j - Len(a)]
    <3>1. a \in Seq(Entries) /\ b \in Seq(Entries)
      BY <1>2, <1>3
    <3> QED BY <3>1, ConcatProperties, Zenon
  <2>2. /\ a \o b \in Seq(Entries) /\ Len(a \o b) = Len(t) - 1
        /\ \A j \in 1 .. Len(t) - 1 : (a \o b)[j] = IF j <= i - 1 THEN a[j] ELSE b[j - (i - 1)]
    <3>1. Len(a) + Len(b) = Len(t) - 1
      BY <1>1, <1>2, <1>3
    <3> QED BY <1>2, <2>0, <3>1
  <2>3. ASSUME NEW j \in 1 .. Len(t) - 1 PROVE (a \o b)[j] = IF j < i THEN t[j] ELSE t[j + 1]
    <3>1. CASE j < i
      BY <1>1, <1>2, <2>2, <3>1
    <3>2. CASE ~(j < i)
      <4>1. j - (i - 1) \in 1 .. Len(t) - i /\ i + (j - (i - 1)) = j + 1
        BY <1>1, <3>2
      <4> QED BY <1>1, <1>3, <2>2, <3>2, <4>1
    <3> QED BY <3>1, <3>2
  <2> QED BY <2>1, <2>2, <2>3
<1>5. DOMAIN s = 1 .. Len(t) - 1
  BY <1>4, LenProperties
<1>6. Unique(s)
  <2> DEFINE O(j) == IF j < i THEN j ELSE j + 1
  <2>1. SUFFICES ASSUME NEW j \in 1 .. Len(t) - 1, NEW k \in 1 .. Len(t) - 1, s[j].unit = s[k].unit
                 PROVE  j = k
    BY <1>5 DEF Unique
  <2>2. O(j) \in 1 .. Len(t) /\ O(k) \in 1 .. Len(t)
    BY <1>1
  <2>3. s[j] = t[O(j)] /\ s[k] = t[O(k)]
    BY <1>4
  <2> HIDE DEF O
  <2>4. O(j) = O(k)
    BY <1>1, <2>1, <2>2, <2>3 DEF Unique
  <2> QED BY <1>1, <2>4 DEF O
<1>7. \A j \in 1 .. Len(t) : t[j] = t[i] => j = i
  BY <1>1 DEF Unique
<1>8. ToSet(s) = ToSet(t) \ {t[i]}
  <2>1. ASSUME NEW x \in ToSet(s) PROVE x \in ToSet(t) \ {t[i]}
    <3>1. PICK j \in 1 .. Len(t) - 1 : x = s[j]
      BY <1>4, <2>1, SetOfTable
    <3>2. PICK k \in 1 .. Len(t) : x = t[k] /\ k # i
      BY <1>1, <1>4, <3>1
    <3> QED BY <1>7, <3>2, SetOfTable
  <2>2. ASSUME NEW x \in ToSet(t) \ {t[i]} PROVE x \in ToSet(s)
    <3>1. PICK k \in 1 .. Len(t) : x = t[k] /\ k # i
      BY <2>2, SetOfTable
    <3>2. PICK j \in 1 .. Len(t) - 1 : j = IF k < i THEN k ELSE k - 1
      BY <1>1, <3>1
    <3>3. s[j] = x
      BY <1>1, <1>4, <3>1, <3>2
    <3> QED BY <1>4, <3>3, SetOfTable
  <2> QED BY <2>1, <2>2
<1> QED BY <1>4, <1>6, <1>8 DEF s

\* A table of MaxUnits entries leaves one of MaxUnits + 1 numbers free.
LEMMA OneIsFree ==
  ASSUME NEW n \in Nat, n <= MaxUnits, NEW f, NEW K,
         \A k \in K : \E i \in 1 .. n : k = f[i]
  PROVE  \E k \in Streams : k \notin K
<1> SUFFICES ASSUME Streams \subseteq K PROVE FALSE
  OBVIOUS
<1> DEFINE R == {f[i] : i \in 1 .. n}
<1>1. IsFiniteSet(1 .. n) /\ Cardinality(1 .. n) = n
  BY FS_Interval
<1>2. [i \in 1 .. n |-> f[i]] \in Surjection(1 .. n, R)
  BY DEF Surjection
<1>3. IsFiniteSet(R) /\ Cardinality(R) <= n
  BY <1>1, <1>2, FS_Surjection
<1>4. Streams \subseteq R
  OBVIOUS
<1>5. Cardinality(Streams) = MaxUnits + 1
  BY FS_Interval DEF Streams
<1>6. Cardinality(Streams) <= Cardinality(R) /\ Cardinality(R) \in Nat
  BY <1>3, <1>4, FS_Subset, FS_CardinalityType
<1> QED BY <1>3, <1>5, <1>6

-----------------------------------------------------------------------------
(* The inductive invariant, of the record a statement is computed on       *)

Worlds ==
    [table : Seq(Entries), files : SUBSET FileNames, open : SUBSET (Standard \cup Streams),
     registered : BOOLEAN, exited : BOOLEAN, iostat : Nat]

\* The standard streams are never closed, and only the pre-connected units have
\* no name.
WorldOK(w) ==
    /\ w \in Worlds
    /\ Len(w.table) <= MaxUnits
    /\ Unique(w.table)
    /\ Standard \subseteq w.open
    /\ \A e \in ToSet(w.table) : e.stream \in Standard => e.name = NULL

\* Whatever fails, no stream is left without a unit.
NoLeak(w) == \A s \in w.open \ Standard : \E e \in ToSet(w.table) : e.stream = s

\* Every scratch file has one unit, and close_all_units() will delete it.
ScratchKept(w) ==
    /\ \A n \in w.files : IsScratch(n) => w.registered /\ \E e \in ToSet(w.table) : e.name = n
    /\ \A e \in ToSet(w.table) : IsScratch(e.name) => e.name \in w.files
    /\ \A e, f \in ToSet(w.table) : IsScratch(e.name) /\ e.name = f.name => e = f

\* Every unit's stream is open and, but for the standard ones, its own.
Owned(w) ==
    /\ \A e \in ToSet(w.table) : e.stream \in w.open
    /\ \A e, f \in ToSet(w.table) : e.stream = f.stream /\ e.stream \notin Standard => e = f

Whole(w) == WorldOK(w) /\ NoLeak(w) /\ ScratchKept(w) /\ (Beyond = {} => Owned(w))
Ended(w) == WorldOK(w) /\ \A n \in w.files : ~IsScratch(n)
Sound(w) == IF w.exited THEN Ended(w) ELSE Whole(w)

\* find_unit() finds the one entry of a connected unit.
LEMMA FindUnitFacts ==
  ASSUME NEW w, WorldOK(w), NEW u
  PROVE  \/ FindUnit(w, u) = 0 /\ EntryOf(w.table, u) = {}
         \/ /\ FindUnit(w, u) \in 1 .. Len(w.table) /\ FindUnit(w, u) # 0
            /\ w.table[FindUnit(w, u)] \in Entries
            /\ w.table[FindUnit(w, u)] \in ToSet(w.table)
            /\ w.table[FindUnit(w, u)].unit = u
            /\ EntryOf(w.table, u) = {w.table[FindUnit(w, u)]}
<1> DEFINE t == w.table
           found == {i \in DOMAIN t : t[i].unit = u}
<1>1. /\ t \in Seq(Entries) /\ DOMAIN t = 1 .. Len(t) /\ Len(t) \in Nat
      /\ \A i, j \in DOMAIN t : t[i].unit = t[j].unit => i = j
      /\ \A i \in 1 .. Len(t) : t[i] \in Entries
  BY LenProperties, ElementOfSeq DEF WorldOK, Worlds, Unique
<1>2. FindUnit(w, u) = IF found = {} THEN 0 ELSE CHOOSE i \in found : \A j \in found : i <= j
  BY DEF FindUnit
<1>3. \A e : e \in ToSet(t) <=> \E i \in 1 .. Len(t) : e = t[i]
  BY <1>1, SetOfTable
<1>4. CASE found = {}
  BY <1>1, <1>2, <1>3, <1>4 DEF EntryOf
<1>5. CASE found # {}
  <2>1. PICK i \in found : TRUE
    BY <1>5
  <2>2. i \in 1 .. Len(t) /\ t[i].unit = u
    BY <1>1, <2>1
  <2>3. \A j \in found : i = j
    BY <1>1, <2>1
  <2>4. FindUnit(w, u) \in found
    <3>1. \E k \in found : \A j \in found : k <= j
      BY <1>1, <2>2, <2>3
    <3> QED BY <1>2, <1>5, <3>1
  <2>5. FindUnit(w, u) = i
    BY <2>3, <2>4
  <2>6. EntryOf(t, u) = {t[i]}
    BY <1>1, <1>3, <2>2 DEF EntryOf
  <2> QED BY <1>1, <1>3, <2>2, <2>5, <2>6
<1> QED BY <1>4, <1>5

\* fopen() has a stream to return.
LEMMA FreeStreamIsFree ==
  ASSUME NEW w, WorldOK(w), NoLeak(w)
  PROVE  FreeStream(w) \in Streams /\ FreeStream(w) \notin w.open /\ FreeStream(w) \notin Standard
<1> DEFINE n == Len(w.table)
           f == [i \in 1 .. n |-> w.table[i].stream]
           K == w.open \ Standard
<1>1. w.table \in Seq(Entries) /\ n \in Nat /\ n <= MaxUnits
  BY LenProperties DEF WorldOK, Worlds
<1>3. \A k \in K : \E i \in 1 .. n : k = f[i]
  BY <1>1, SetOfTable DEF NoLeak
<1> HIDE DEF n, f, K
<1>4. \E k \in Streams : k \notin K
  BY <1>1, <1>3, OneIsFree
<1>5. \A k \in Streams : k \notin Standard
  BY DEF Streams, Standard, stdin, stdout, stderr
<1> QED BY <1>4, <1>5 DEF FreeStream, K

\* _lfortran_close_all_units() deletes every scratch file.
LEMMA CloseAllIsSound ==
  ASSUME NEW w, WorldOK(w),
         \A n \in w.files : IsScratch(n) => \E e \in ToSet(w.table) : e.name = n,
         NEW c, c = [CloseAllUnits(w) EXCEPT !.exited = TRUE]
  PROVE  c.exited /\ Sound(c) /\ c.iostat = w.iostat
<1>1. w \in Worlds
  BY DEF WorldOK
<1> DEFINE streams == {w.table[i].stream : i \in DOMAIN w.table} \ Standard
           names == {w.table[i].name : i \in DOMAIN w.table}
           d == [w EXCEPT !.table = << >>,
                          !.files = {n \in @ : ~(IsScratch(n) /\ n \in names)},
                          !.open = @ \ streams, !.exited = TRUE]
<1>2. c = d
  BY <1>1 DEF CloseAllUnits, Worlds
<1>3. d \in Worlds /\ d.table = << >> /\ d.exited /\ Standard \subseteq d.open /\ d.iostat = w.iostat
  <2>1. << >> \in Seq(Entries)
    BY EmptySeq
  <2> HIDE DEF names, streams
  <2>2. Standard \subseteq w.open \ streams
    BY DEF WorldOK, streams
  <2> QED BY <1>1, <2>1, <2>2 DEF Worlds
<1>4. \A n \in w.files : IsScratch(n) => n \in names
  BY <1>1 DEF ToSet
<1>5. \A n \in d.files : ~IsScratch(n)
  BY <1>1, <1>4 DEF Worlds
<1>6. Len(<< >>) = 0 /\ ToSet(<< >>) = {} /\ Unique(<< >>)
  BY DEF ToSet, Unique
<1> HIDE DEF d
<1>7. Sound(d)
  <2>1. WorldOK(d)
    BY <1>3, <1>6 DEF WorldOK
  <2> QED BY <1>3, <1>5, <2>1 DEF Sound, Ended
<1> QED BY <1>2, <1>3, <1>7

\* So does exit(1), or there was none to delete.
LEMMA ExitIsSound ==
  ASSUME NEW w, WorldOK(w),
         \A n \in w.files : IsScratch(n) => w.registered /\ \E e \in ToSet(w.table) : e.name = n
  PROVE  Exit(w).exited /\ Sound(Exit(w)) /\ Exit(w).iostat = w.iostat
<1>1. w.registered \in BOOLEAN /\ w \in Worlds
  BY DEF WorldOK, Worlds
<1>2. CASE w.registered
  <2>1. Exit(w) = [CloseAllUnits(w) EXCEPT !.exited = TRUE]
    BY <1>2 DEF Exit
  <2> QED BY <2>1, CloseAllIsSound
<1>3. CASE ~w.registered
  <2> DEFINE c == [w EXCEPT !.exited = TRUE]
  <2>1. Exit(w) = c
    BY <1>3 DEF Exit
  <2>2. /\ c \in Worlds /\ c.exited /\ c.table = w.table /\ c.open = w.open
        /\ c.files = w.files /\ c.iostat = w.iostat
    BY <1>1 DEF Worlds
  <2> HIDE DEF c
  <2> QED BY <1>3, <2>1, <2>2 DEF Sound, Ended, WorldOK
<1> QED BY <1>1, <1>2, <1>3

\* An error of a statement without IOSTAT= ends the program.
LEMMA OutcomesAreSound ==
  ASSUME NEW w, Sound(w), NEW v \in Outcomes(w)
  PROVE  /\ Sound(v) /\ (v = w \/ v.exited)
         /\ v.iostat = w.iostat
<1>1. CASE v = w
  BY <1>1
<1>2. CASE v # w
  BY <1>2, ExitIsSound DEF Outcomes, Sound, Whole, ScratchKept
<1> QED BY <1>1, <1>2

\* An error that a statement only reports changes nothing.
LEMMA FailIsSound ==
  ASSUME NEW w, WorldOK(w), NEW iostat \in Nat
  PROVE  LET f == Fail(w, iostat)
         IN  /\ WorldOK(f) /\ f.iostat = iostat
             /\ f.table = w.table /\ f.files = w.files /\ f.open = w.open
             /\ f.registered = w.registered /\ f.exited = w.exited
             /\ Sound(w) => Sound(f)
<1> DEFINE f == Fail(w, iostat)
<1>1. /\ f \in Worlds /\ f.iostat = iostat
      /\ f.table = w.table /\ f.files = w.files /\ f.open = w.open
      /\ f.registered = w.registered /\ f.exited = w.exited
  BY DEF Fail, WorldOK, Worlds
<1> HIDE DEF f
<1>2. WorldOK(f) /\ (Sound(w) => Sound(f))
  BY <1>1 DEF WorldOK, Sound, Ended, Whole, NoLeak, ScratchKept, Owned
<1> QED BY <1>1, <1>2 DEF f

-----------------------------------------------------------------------------
(* CLOSE                                                                   *)

\* The unit is taken from the table, its stream is closed, and so is its file
\* deleted if it is a scratch file.
LEMMA RemovalIsWhole ==
  ASSUME NEW w, Whole(w), NEW i \in 1 .. Len(w.table), NEW c \in Worlds,
         c.table = RemoveAt(w.table, i),
         c.files \subseteq w.files, w.files \ {w.table[i].name} \subseteq c.files,
         IsScratch(w.table[i].name) => w.table[i].name \notin c.files,
         c.open = w.open \ ({w.table[i].stream} \ Standard), c.registered = w.registered
  PROVE  Whole(c) /\ ToSet(c.table) = ToSet(w.table) \ {w.table[i]}
<1> DEFINE e == w.table[i]
<1>1. /\ w \in Worlds /\ w.table \in Seq(Entries) /\ Unique(w.table)
      /\ Len(w.table) \in Nat /\ MaxUnits \in Nat /\ Len(w.table) <= MaxUnits
  BY LenProperties DEF Whole, WorldOK, Worlds
<1>2. /\ RemoveAt(w.table, i) \in Seq(Entries) /\ Len(RemoveAt(w.table, i)) = Len(w.table) - 1
      /\ Unique(RemoveAt(w.table, i))
      /\ ToSet(RemoveAt(w.table, i)) = ToSet(w.table) \ {e}
  BY <1>1, RemoveEntry
<1>3. e \in ToSet(w.table)
  BY <1>1, SetOfTable
<1> HIDE DEF e
<1>4. c.open = w.open \ ({e.stream} \ Standard)
  BY DEF e
<1>5. WorldOK(c)
  BY <1>1, <1>2, <1>4 DEF Whole, WorldOK
<1>6. NoLeak(c)
  BY <1>2, <1>4 DEF Whole, NoLeak
<1>7. ScratchKept(c)
  BY <1>2, <1>3, <1>4 DEF Whole, ScratchKept, e
<1>8. ASSUME Beyond = {} PROVE Owned(c)
  BY <1>2, <1>3, <1>4, <1>8 DEF Whole, Owned
<1>9. Whole(c) /\ ToSet(c.table) = ToSet(w.table) \ {e}
  BY <1>2, <1>4, <1>5, <1>6, <1>7, <1>8 DEF Whole
<1> QED BY <1>9 DEF e

\* The calls of _lfortran_close() that fail only if the program may fail so.
Closable(w, u, delete, flushed) ==
    /\ Whole(w) /\ ~w.exited /\ w.iostat = 0
    /\ delete \in BOOLEAN /\ flushed \in BOOLEAN
    /\ Beyond = {} => /\ flushed
                      /\ \A e \in EntryOf(w.table, u) :
                             delete /\ e.stream \notin Standard => e.name \in w.files

\* The unit is closed or, after an error, still in the table.
Closed(w, c, u) ==
    /\ Whole(c) /\ ~c.exited /\ c.registered = w.registered
    /\ IF c.iostat = 0 THEN EntryOf(c.table, u) = {} ELSE c.table = w.table
    /\ ToSet(c.table) \ EntryOf(c.table, u) = ToSet(w.table) \ EntryOf(w.table, u)

\* _lfortran_close()
LEMMA CloseIsWhole ==
  ASSUME NEW w, NEW u, NEW delete, NEW flushed, Closable(w, u, delete, flushed)
  PROVE  Closed(w, Close(w, u, delete, flushed), u)
<1> USE DEF Closable
<1> DEFINE c == Close(w, u, delete, flushed)
           i == FindUnit(w, u)
           e == w.table[i]
           own == {e.stream} \ Standard
           v == [w EXCEPT !.open = @ \ own]
           Good == /\ Whole(c) /\ ~c.exited /\ c.registered = w.registered
                   /\ IF c.iostat = 0 THEN EntryOf(c.table, u) = {} ELSE c.table = w.table
                   /\ ToSet(c.table) \ EntryOf(c.table, u) = ToSet(w.table) \ EntryOf(w.table, u)
<1> SUFFICES Good
  BY DEF Closed
<1>1. WorldOK(w) /\ w \in Worlds
  BY DEF Whole, WorldOK
<1>2. CASE i = 0
  <2>1. c = w
    BY <1>2 DEF Close
  <2>2. EntryOf(w.table, u) = {}
    BY <1>1, <1>2, FindUnitFacts
  <2> HIDE DEF c
  <2> QED BY <2>1, <2>2
<1>3. CASE i # 0
  <2>1. /\ i \in 1 .. Len(w.table) /\ e.unit = u /\ EntryOf(w.table, u) = {e}
        /\ e \in ToSet(w.table)
    BY <1>1, <1>3, FindUnitFacts
  <2>2. /\ v \in Worlds /\ v.open = w.open \ own /\ v.table = w.table /\ v.files = w.files
        /\ v.registered = w.registered /\ v.exited = w.exited /\ v.iostat = w.iostat
    BY <1>1 DEF Worlds
  <2>3. WorldOK(v)
    BY <1>1, <2>2 DEF WorldOK
  <2>4. NoLeak(v) /\ ScratchKept(v)
    BY <2>2 DEF Whole, NoLeak, ScratchKept
  <2>5. FindUnit(v, u) = i
    BY <2>2 DEF FindUnit
  <2>6. ASSUME NEW k \in {1, 2}, c = Fail(v, k), Beyond = {} => own = {} PROVE Good
    <3> HIDE DEF c, v
    <3>1. /\ WorldOK(c) /\ c.iostat = k /\ c.table = v.table /\ c.files = v.files
          /\ c.open = v.open /\ c.registered = v.registered /\ c.exited = v.exited
      BY <2>3, <2>6, FailIsSound
    <3>2. NoLeak(c) /\ ScratchKept(c)
      BY <2>4, <3>1 DEF NoLeak, ScratchKept
    <3>3. ASSUME Beyond = {} PROVE Owned(c)
      BY <2>2, <2>6, <3>1, <3>3 DEF Whole, Owned
    <3>4. Whole(c)
      BY <3>1, <3>2, <3>3 DEF Whole
    <3>5. c.table = w.table /\ ~c.exited /\ c.registered = w.registered /\ c.iostat # 0
      BY <2>2, <3>1
    <3> QED BY <3>4, <3>5
  <2>7. ASSUME NEW fs \in SUBSET w.files,
               c = [w EXCEPT !.open = @ \ own, !.files = fs, !.table = RemoveAt(@, i)],
               w.files \ {e.name} \subseteq fs, IsScratch(e.name) => e.name \notin fs
        PROVE  Good
    <3> HIDE DEF c, i
    <3>0. /\ c.table = RemoveAt(w.table, i) /\ c.files = fs
          /\ c.open = w.open \ ({w.table[i].stream} \ Standard)
          /\ c.exited = w.exited /\ c.registered = w.registered /\ c.iostat = w.iostat
          /\ c \in Worlds
      <4>1. RemoveAt(w.table, i) \in Seq(Entries)
        BY <1>1, <2>1, RemoveEntry DEF WorldOK, Worlds
      <4> HIDE DEF e
      <4>2. own = {w.table[i].stream} \ Standard
        BY DEF e
      <4> HIDE DEF own
      <4> QED BY <1>1, <2>7, <4>1, <4>2 DEF Worlds
    <3>1. Whole(c) /\ ToSet(c.table) = ToSet(w.table) \ {e}
      <4>1. /\ Whole(w) /\ i \in 1 .. Len(w.table) /\ c \in Worlds
            /\ c.table = RemoveAt(w.table, i)
            /\ c.files \subseteq w.files
            /\ w.files \ {w.table[i].name} \subseteq c.files
            /\ IsScratch(w.table[i].name) => w.table[i].name \notin c.files
            /\ c.open = w.open \ ({w.table[i].stream} \ Standard)
            /\ c.registered = w.registered
        BY <2>1, <2>7, <3>0
      <4> QED BY <4>1, RemovalIsWhole, Zenon
    <3> HIDE DEF e
    <3>2. \A f \in ToSet(c.table) : f.unit # u
      <4>1. \A f \in ToSet(w.table) : f.unit = u => f = e
        BY <2>1 DEF EntryOf
      <4> QED BY <3>1, <4>1
    <3>3. EntryOf(c.table, u) = {}
      BY <3>2 DEF EntryOf
    <3> QED BY <2>1, <3>0, <3>1, <3>3
  <2>8. CASE own # {} /\ ~flushed
    <3>1. c = Fail(v, 1)
      BY <1>3, <2>8 DEF Close
    <3> HIDE DEF c, v, own, Good
    <3> QED BY <2>6, <2>8, <3>1
  <2>9. CASE ~(own # {} /\ ~flushed) /\ ~(delete \/ IsScratch(e.name))
    <3>1. c = RemoveFromUnitToFile(v, u)
      BY <1>3, <2>9 DEF Close
    <3>2. c = [w EXCEPT !.open = @ \ own, !.files = w.files, !.table = RemoveAt(@, i)]
      BY <1>1, <2>2, <2>5, <3>1 DEF RemoveFromUnitToFile, Worlds
    <3> HIDE DEF c, v, own, Good
    <3> QED BY <2>7, <2>9, <3>2
  <2>10. CASE ~(own # {} /\ ~flushed) /\ (delete \/ IsScratch(e.name)) /\ e.name \notin w.files
    <3>1. c = Fail(v, 2)
      BY <1>3, <2>10 DEF Close
    <3>2. ~IsScratch(e.name)
      BY <2>1, <2>10 DEF Whole, ScratchKept
    <3>3. Beyond = {} => own = {}
      BY <2>1, <2>10, <3>2
    <3> HIDE DEF c, v, own, Good
    <3> QED BY <2>6, <3>1, <3>3
  <2>11. CASE ~(own # {} /\ ~flushed) /\ (delete \/ IsScratch(e.name)) /\ e.name \in w.files
    <3> DEFINE x == [v EXCEPT !.files = @ \ {e.name}]
    <3>1. c = RemoveFromUnitToFile(x, u)
      BY <1>3, <2>11 DEF Close
    <3>2. FindUnit(x, u) = i
      BY <2>2 DEF FindUnit
    <3>3. c = [w EXCEPT !.open = @ \ own, !.files = w.files \ {e.name}, !.table = RemoveAt(@, i)]
      BY <1>1, <2>2, <3>1, <3>2 DEF RemoveFromUnitToFile, Worlds
    <3> DEFINE fs == w.files \ {e.name}
    <3>4. fs \in SUBSET w.files /\ w.files \ {e.name} \subseteq fs /\ e.name \notin fs
      OBVIOUS
    <3> HIDE DEF c, v, own, Good, fs
    <3> QED BY <2>7, <3>3, <3>4 DEF fs
  <2> QED BY <2>8, <2>9, <2>10, <2>11
<1> QED BY <1>2, <1>3

-----------------------------------------------------------------------------
(* store_unit_file()                                                       *)

\* A unit that is connected changes its modes only.
NewModes(w, c, i, f) ==
    /\ i \in 1 .. Len(w.table) /\ f \in Entries
    /\ f.unit = w.table[i].unit /\ f.stream = w.table[i].stream /\ f.name = w.table[i].name
    /\ c \in Worlds /\ c.table = [w.table EXCEPT ![i] = f]
    /\ c.files = w.files /\ c.open = w.open /\ c.registered = w.registered

\* An entry that only changes its modes.
LEMMA ModesAreWhole ==
  ASSUME NEW w, Whole(w), NEW i, NEW f, NEW c, NewModes(w, c, i, f)
  PROVE  Whole(c) /\ ToSet(c.table) = (ToSet(w.table) \ {w.table[i]}) \cup {f}
<1> DEFINE e == w.table[i]
<1> USE DEF NewModes
<1>1. w.table \in Seq(Entries) /\ Unique(w.table) /\ Len(w.table) <= MaxUnits
  BY DEF Whole, WorldOK, Worlds
<1>2. /\ Len(c.table) = Len(w.table) /\ Unique(c.table)
      /\ ToSet(c.table) = (ToSet(w.table) \ {e}) \cup {f}
  BY <1>1, ReplaceEntry
<1>3. e \in ToSet(w.table) /\ f.stream = e.stream /\ f.name = e.name
  BY <1>1, SetOfTable
<1>0. c \in Worlds /\ c.files = w.files /\ c.open = w.open /\ c.registered = w.registered
  OBVIOUS
<1> HIDE DEF e, NewModes
<1>4. WorldOK(c)
  BY <1>1, <1>0, <1>2, <1>3 DEF Whole, WorldOK
<1>5. NoLeak(c)
  BY <1>0, <1>2, <1>3 DEF Whole, NoLeak
<1>6. ScratchKept(c)
  <2>1. /\ \A n \in w.files : IsScratch(n) => w.registered /\ \E x \in ToSet(w.table) : x.name = n
        /\ \A x \in ToSet(w.table) : IsScratch(x.name) => x.name \in w.files
        /\ \A x, y \in ToSet(w.table) : IsScratch(x.name) /\ x.name = y.name => x = y
    BY DEF Whole, ScratchKept
  <2>2. \A n \in c.files : IsScratch(n) => c.registered /\ \E x \in ToSet(c.table) : x.name = n
    BY <1>0, <1>2, <1>3, <2>1
  <2>3. \A x \in ToSet(c.table) : IsScratch(x.name) => x.name \in c.files
    BY <1>0, <1>2, <1>3, <2>1
  <2>4. \A x, y \in ToSet(c.table) : IsScratch(x.name) /\ x.name = y.name => x = y
    BY <1>0, <1>2, <1>3, <2>1
  <2> QED BY <2>2, <2>3, <2>4 DEF ScratchKept
<1>7. ASSUME Beyond = {} PROVE Owned(c)
  BY <1>0, <1>2, <1>3, <1>7 DEF Whole, Owned
<1> QED BY <1>2, <1>4, <1>5, <1>6, <1>7 DEF Whole, e

\* A unit gets another stream for the same file.
NewStream(w, c, i, f) ==
    /\ i \in 1 .. Len(w.table) /\ f \in Entries
    /\ f.unit = w.table[i].unit /\ f.name = w.table[i].name /\ f.name # NULL /\ ~IsScratch(f.name)
    /\ f.stream \notin w.open \ {w.table[i].stream} /\ f.stream \notin Standard
    /\ c \in Worlds /\ c.table = [w.table EXCEPT ![i] = f] /\ c.files = w.files \cup {f.name}
    /\ c.open = (w.open \ {w.table[i].stream}) \cup {f.stream} /\ c.registered = w.registered

\* An entry that gets a new stream for its file.
LEMMA AgainIsWhole ==
  ASSUME NEW w, Whole(w), NEW i, NEW f, NEW c, NewStream(w, c, i, f)
  PROVE  Whole(c) /\ ToSet(c.table) = (ToSet(w.table) \ {w.table[i]}) \cup {f}
<1> DEFINE e == w.table[i]
<1> USE DEF NewStream
<1>1. w.table \in Seq(Entries) /\ Unique(w.table) /\ Len(w.table) <= MaxUnits
  BY DEF Whole, WorldOK, Worlds
<1>2. /\ Len(c.table) = Len(w.table) /\ Unique(c.table)
      /\ ToSet(c.table) = (ToSet(w.table) \ {e}) \cup {f}
  BY <1>1, ReplaceEntry
<1>3. /\ e \in ToSet(w.table) /\ f.name = e.name /\ c.open = (w.open \ {e.stream}) \cup {f.stream}
      /\ f.stream \notin w.open \ {e.stream}
  BY <1>1, SetOfTable
<1>0. /\ c \in Worlds /\ c.files = w.files \cup {f.name} /\ c.registered = w.registered
      /\ f.name # NULL /\ ~IsScratch(f.name) /\ f.stream \notin Standard
  OBVIOUS
<1> HIDE DEF e, NewStream
<1>4. e.stream \notin Standard
  BY <1>0, <1>3 DEF Whole, WorldOK
<1>5. WorldOK(c)
  BY <1>1, <1>0, <1>2, <1>3, <1>4 DEF Whole, WorldOK
<1>6. NoLeak(c)
  BY <1>0, <1>2, <1>3 DEF Whole, NoLeak
<1>7. ScratchKept(c)
  BY <1>0, <1>2, <1>3 DEF Whole, ScratchKept
<1>8. ASSUME Beyond = {} PROVE Owned(c)
  BY <1>0, <1>2, <1>3, <1>4, <1>8 DEF Whole, Owned
<1> QED BY <1>2, <1>5, <1>6, <1>7, <1>8 DEF Whole, e

\* The values of bin and writable.
Flags == BOOLEAN

\* fopen() and store_unit_file() for a unit that is not connected.
Storable(w, u, name) ==
    /\ Whole(w) /\ ~w.exited
    /\ u \in Units /\ FindUnit(w, u) = 0 /\ name \in FileNames
    /\ IsScratch(name) => name \notin w.files /\ w.registered /\ Len(w.table) # MaxUnits

\* store_unit_file(), also when the table is full.
LEMMA StoreIsSound ==
  ASSUME NEW w, NEW u, NEW name, Storable(w, u, name), NEW bin \in Flags, NEW writable \in Flags,
         NEW c, c = StoreUnitFile(Fopen(w, name), Entry(u, name, FreeStream(w), bin, writable))
  PROVE  /\ Sound(c) /\ c.iostat = w.iostat
         /\ ~c.exited =>
                ToSet(c.table) = ToSet(w.table) \cup {Entry(u, name, FreeStream(w), bin, writable)}
<1> USE DEF Storable
<1> DEFINE e == Entry(u, name, FreeStream(w), bin, writable)
           s == FreeStream(w)
           o == Fopen(w, name)
<1>1. WorldOK(w) /\ NoLeak(w) /\ w \in Worlds /\ Len(w.table) \in Nat /\ MaxUnits \in Nat
  BY LenProperties DEF Whole, WorldOK, Worlds
<1>2. s \in Streams /\ s \notin w.open /\ s \notin Standard
  BY <1>1, FreeStreamIsFree
<1>3. /\ o \in Worlds /\ o.table = w.table /\ o.files = w.files \cup {name}
      /\ o.open = w.open \cup {s} /\ o.registered = w.registered
      /\ o.exited = w.exited /\ o.iostat = w.iostat
  <2> HIDE DEF s
  <2> QED BY <1>1, <1>2 DEF Fopen, Worlds, s
<1>4. /\ e \in Entries /\ e.unit = u /\ e.name = name /\ e.stream = s /\ e.name # NULL
  <2> HIDE DEF s
  <2> QED BY <1>2, NameFacts DEF Entry, Entries, s, Flags
<1>0. c = StoreUnitFile(o, e)
  OBVIOUS
<1> HIDE DEF o, s, e
<1>5. FindUnit(o, u) = 0 /\ EntryOf(w.table, u) = {}
  <2>1. FindUnit(o, u) = FindUnit(w, u)
    BY <1>3 DEF FindUnit
  <2> QED BY <1>1, <2>1, FindUnitFacts
<1>6. CASE Len(w.table) >= MaxUnits
  <2>1. c = Exit(o)
    BY <1>0, <1>3, <1>4, <1>5, <1>6 DEF StoreUnitFile
  <2>2. WorldOK(o)
    BY <1>1, <1>3 DEF WorldOK
  <2>3. ~IsScratch(name)
    BY <1>1, <1>6 DEF WorldOK
  <2>4. \A n \in o.files : IsScratch(n) => o.registered /\ \E x \in ToSet(o.table) : x.name = n
    BY <1>3, <2>3 DEF Whole, ScratchKept
  <2> QED BY <1>3, <2>1, <2>2, <2>4, ExitIsSound
<1>7. CASE ~(Len(w.table) >= MaxUnits)
  <2>1. c = [o EXCEPT !.table = Append(@, e)]
    BY <1>0, <1>3, <1>4, <1>5, <1>7 DEF StoreUnitFile
  <2>2. Append(w.table, e) \in Seq(Entries)
    BY <1>1, <1>4, AppendProperties DEF Worlds
  <2>3. /\ c \in Worlds /\ c.table = Append(w.table, e) /\ c.files = w.files \cup {e.name}
        /\ c.open = w.open \cup {e.stream} /\ c.registered = w.registered
        /\ c.exited = w.exited /\ c.iostat = w.iostat
    BY <1>3, <1>4, <2>1, <2>2 DEF Worlds
  <2>4. Len(w.table) < MaxUnits
    BY <1>1, <1>7
  <2>5. /\ Len(c.table) = Len(w.table) + 1 /\ Unique(c.table)
        /\ ToSet(c.table) = ToSet(w.table) \cup {e}
    <3>1. \A g \in ToSet(w.table) : g.unit # e.unit
      BY <1>4, <1>5 DEF EntryOf
    <3> QED BY <1>1, <1>4, <2>3, <3>1, AppendEntry DEF WorldOK, Worlds
  <2>6. Whole(c)
    <3>1. WorldOK(c)
      BY <1>1, <1>2, <1>4, <2>3, <2>4, <2>5 DEF WorldOK
    <3>2. NoLeak(c)
      BY <1>1, <2>3, <2>5 DEF NoLeak
    <3>3. ScratchKept(c)
      <4>1. /\ \A n \in w.files : IsScratch(n) => w.registered /\ \E x \in ToSet(w.table) : x.name = n
            /\ \A x \in ToSet(w.table) : IsScratch(x.name) => x.name \in w.files
            /\ \A x, y \in ToSet(w.table) : IsScratch(x.name) /\ x.name = y.name => x = y
        BY DEF Whole, ScratchKept
      <4>2. IsScratch(e.name) => e.name \notin w.files /\ w.registered
        BY <1>4
      <4>3. \A n \in c.files : IsScratch(n) => c.registered /\ \E x \in ToSet(c.table) : x.name = n
        BY <2>3, <2>5, <4>1, <4>2
      <4>4. \A x \in ToSet(c.table) : IsScratch(x.name) => x.name \in c.files
        BY <2>3, <2>5, <4>1, <4>2
      <4>5. \A x, y \in ToSet(c.table) : IsScratch(x.name) /\ x.name = y.name => x = y
        BY <2>3, <2>5, <4>1, <4>2
      <4> QED BY <4>3, <4>4, <4>5 DEF ScratchKept
    <3>4. ASSUME Beyond = {} PROVE Owned(c)
      BY <1>2, <1>4, <2>3, <2>5, <3>4 DEF Whole, Owned
    <3> QED BY <3>1, <3>2, <3>3, <3>4 DEF Whole
  <2> QED BY <2>3, <2>5, <2>6 DEF Sound, e
<1> QED BY <1>6, <1>7

-----------------------------------------------------------------------------
(* OPEN                                                                    *)

\* The other units are as they were; the unit is as it was if there was an
\* error, and else it has an entry with the name of the file, or with its old one.
Connected(w, c, u, name) ==
    /\ ToSet(c.table) \ EntryOf(c.table, u) = ToSet(w.table) \ EntryOf(w.table, u)
    /\ IF c.iostat # 0 THEN c.table = w.table
       ELSE \E e \in ToSet(c.table) :
                /\ EntryOf(c.table, u) = {e}
                /\ IF EntryOf(w.table, u) = {} THEN e.name = name
                   ELSE \E f \in EntryOf(w.table, u) : e.name = f.name

\* _lfortran_open(), once the unit is free.
LEMMA ConnectIsSound ==
  ASSUME NEW w, Whole(w), ~w.exited, w.iostat = 0, w.registered, NEW u \in Units,
         NEW name \in FileNames, NEW status \in Statuses, NEW spec \in Specs,
         NEW fault \in {"none", "create", "open"}, fault = "create" => status = "unknown",
         IsScratch(name) => name \notin w.files,
         ~Loses(w, u, name, status, spec, fault),
         NEW c, c = Connect(w, u, name, status, spec, fault)
  PROVE  Sound(c) /\ (~c.exited => Connected(w, c, u, name))
<1> PICK bin \in Flags, writable \in Flags :
      bin = (spec = "unformatted") /\ writable = (spec # "read")
  BY DEF Flags
<1> DEFINE i == FindUnit(w, u)
           exists == name \in w.files
           create == status = "unknown" /\ ~exists /\ i = 0 /\ fault # "create"
           v == [w EXCEPT !.files = IF create THEN @ \cup {name} ELSE @]
           iostat == Specifiers(status, spec, exists)
           missing == fault # "none" \/ (status \in {"old", "unknown"} /\ name \notin v.files)
<1>1. WorldOK(w) /\ w \in Worlds
  BY DEF Whole, WorldOK
<1>2. /\ v \in Worlds /\ v.files = (IF create THEN w.files \cup {name} ELSE w.files)
      /\ v.table = w.table /\ v.open = w.open /\ v.registered = w.registered
      /\ v.exited = w.exited /\ v.iostat = w.iostat
  <2> HIDE DEF create
  <2> QED BY <1>1 DEF Worlds
<1>3. ASSUME create => ~IsScratch(name) PROVE Whole(v)
  <2> HIDE DEF v, create
  <2>1. WorldOK(v) /\ NoLeak(v) /\ (Beyond = {} => Owned(v))
    BY <1>2 DEF Whole, WorldOK, NoLeak, Owned
  <2>2. ScratchKept(v)
    BY <1>2, <1>3 DEF Whole, ScratchKept
  <2> QED BY <2>1, <2>2 DEF Whole
<1>4. c = IF iostat # 0 THEN Fail(v, iostat)
          ELSE IF i # 0 THEN StoreUnitFile(v, Entry(u, NULL, v.table[i].stream, bin, writable))
          ELSE IF missing THEN Fail(v, 2)
          ELSE StoreUnitFile(Fopen(v, name), Entry(u, name, FreeStream(v), bin, writable))
  BY DEF Connect
<1>5. iostat \in Nat
  BY DEF Specifiers
<1>6. ASSUME NEW k \in Nat \ {0}, c = Fail(v, k), create => ~IsScratch(name)
      PROVE  Sound(c) /\ Connected(w, c, u, name)
  <2>1. Whole(v)
    BY <1>3, <1>6
  <2> HIDE DEF v
  <2>2. Sound(v) /\ WorldOK(v)
    BY <1>2, <2>1 DEF Sound, Whole
  <2>3. Sound(c) /\ c.iostat = k /\ c.table = v.table
    BY <1>6, <2>2, FailIsSound
  <2> QED BY <1>2, <2>3 DEF Connected
<1>7. CASE iostat # 0
  <2>1. create => ~IsScratch(name)
    BY <1>7 DEF Specifiers, Loses
  <2> HIDE DEF v, create, iostat
  <2> QED BY <1>4, <1>5, <1>6, <1>7, <2>1
<1>8. CASE iostat = 0 /\ i # 0
  <2> DEFINE g == w.table[i]
             f == Entry(u, g.name, g.stream, bin, writable)
  <2>1. /\ i \in 1 .. Len(w.table) /\ g.unit = u /\ g \in Entries /\ g \in ToSet(w.table)
        /\ EntryOf(w.table, u) = {g}
    BY <1>1, <1>8, FindUnitFacts
  <2>2. /\ f.unit = u /\ f.stream = g.stream /\ f.name = g.name /\ f \in Entries
    <3> HIDE DEF g
    <3>2. /\ g.name \in {NULL} \cup FileNames /\ g.stream \in Standard \cup Streams
          /\ u \in Units \cup {0, 5, 6}
      BY <2>1 DEF Entries
    <3> QED BY <3>2 DEF Entry, Entries, Flags
  <2>3. ~create
    BY <1>8
  <2>4. FindUnit(v, u) = i
    BY <1>2 DEF FindUnit
  <2>5. c = [v EXCEPT !.table[i] = f]
    <3> HIDE DEF v, i, iostat, missing
    <3>1. c = StoreUnitFile(v, Entry(u, NULL, g.stream, bin, writable))
      BY <1>2, <1>4, <1>8
    <3> QED BY <1>2, <1>8, <2>4, <3>1 DEF StoreUnitFile, Entry
  <2> HIDE DEF v, i, f, g, create
  <2>6. [w.table EXCEPT ![i] = f] \in Seq(Entries)
    BY <1>1, <2>1, <2>2, ExceptSeq DEF WorldOK, Worlds
  <2>7. /\ c \in Worlds /\ c.table = [w.table EXCEPT ![i] = f] /\ c.files = w.files
        /\ c.open = w.open /\ c.registered = w.registered
        /\ c.exited = w.exited /\ c.iostat = w.iostat
    BY <1>2, <2>3, <2>5, <2>6 DEF Worlds
  <2>8. Whole(c) /\ ToSet(c.table) = (ToSet(w.table) \ {g}) \cup {f}
    <3>1. /\ f.unit = w.table[i].unit /\ f.stream = w.table[i].stream
          /\ f.name = w.table[i].name /\ f \in Entries
      BY <2>1, <2>2 DEF g
    <3>2. Whole(c) /\ ToSet(c.table) = (ToSet(w.table) \ {w.table[i]}) \cup {f}
      <4>1. NewModes(w, c, i, f)
        BY <2>1, <2>7, <3>1 DEF NewModes
      <4> QED BY <4>1, ModesAreWhole
    <3> QED BY <3>2 DEF g
  <2>9. ToSet(c.table) \ EntryOf(c.table, u) = ToSet(w.table) \ EntryOf(w.table, u)
    BY <2>1, <2>2, <2>8 DEF EntryOf
  <2>10. EntryOf(c.table, u) = {f} /\ f \in ToSet(c.table)
    BY <2>1, <2>2, <2>8 DEF EntryOf
  <2>11. Connected(w, c, u, name)
    <3>1. c.iostat = 0 /\ EntryOf(w.table, u) # {} /\ g \in EntryOf(w.table, u)
      BY <2>1, <2>7
    <3> QED BY <2>2, <2>9, <2>10, <3>1 DEF Connected
  <2> QED BY <2>7, <2>8, <2>11 DEF Sound
<1>9. CASE iostat = 0 /\ i = 0 /\ missing
  <2>1. create => ~IsScratch(name)
    BY <1>2, <1>9 DEF Loses
  <2> HIDE DEF v, create, iostat, missing, i
  <2> QED BY <1>4, <1>6, <1>9, <2>1
<1>10. CASE iostat = 0 /\ i = 0 /\ ~missing
  <2> DEFINE f == Entry(u, name, FreeStream(w), bin, writable)
  <2>1. FreeStream(v) = FreeStream(w)
    BY <1>2 DEF FreeStream
  <2>2. Fopen(v, name) = Fopen(w, name)
    <3>1. (IF create THEN w.files \cup {name} ELSE w.files) \cup {name} = w.files \cup {name}
      OBVIOUS
    <3> HIDE DEF create
    <3> DEFINE vf == v.files \cup {name}
               wf == w.files \cup {name}
    <3>2. Fopen(v, name) = [w EXCEPT !.open = w.open \cup {FreeStream(w)}, !.files = vf]
      BY <1>1, <1>2, <2>1 DEF Fopen, Worlds
    <3>3. vf = wf
      BY <1>2, <3>1
    <3>4. Fopen(w, name) = [w EXCEPT !.open = w.open \cup {FreeStream(w)}, !.files = wf]
      BY DEF Fopen
    <3> HIDE DEF v, vf, wf
    <3> QED BY <3>2, <3>3, <3>4
  <2>3. f = Entry(u, name, FreeStream(v), bin, writable)
    BY <2>1
  <2> HIDE DEF v, f, iostat, missing, i
  <2>4. c = StoreUnitFile(Fopen(w, name), f)
    BY <1>4, <1>10, <2>2, <2>3
  <2>5. IsScratch(name) => name \notin w.files /\ w.registered /\ Len(w.table) # MaxUnits
    BY <1>10 DEF Loses, i
  <2>6. /\ Sound(c) /\ c.iostat = w.iostat
        /\ ~c.exited => ToSet(c.table) = ToSet(w.table) \cup {f}
    <3>1. Storable(w, u, name)
      BY <1>10, <2>5 DEF i, Storable
    <3> QED BY <2>4, <3>1, StoreIsSound DEF f
  <2>7. EntryOf(w.table, u) = {} /\ f.unit = u /\ f.name = name
    <3>1. EntryOf(w.table, u) = {}
      BY <1>1, <1>10, FindUnitFacts DEF i
    <3> QED BY <3>1 DEF f, Entry
  <2>8. ASSUME ~c.exited PROVE Connected(w, c, u, name)
    <3>1. EntryOf(c.table, u) = {f} /\ f \in ToSet(c.table)
      BY <2>6, <2>7, <2>8 DEF EntryOf
    <3>2. ToSet(c.table) \ EntryOf(c.table, u) = ToSet(w.table) \ EntryOf(w.table, u)
      BY <2>6, <2>7, <2>8, <3>1 DEF EntryOf
    <3> QED BY <2>6, <2>7, <3>1, <3>2 DEF Connected
  <2> QED BY <2>6, <2>8
<1> QED BY <1>6, <1>7, <1>8, <1>9, <1>10

\* A name that is generated is new.
LEMMA FileNameIsNew ==
  ASSUME Whole(World), NEW u \in Units, NEW status
  PROVE  /\ FileName(u, status) \in FileNames
         /\ IsScratch(FileName(u, status)) => FileName(u, status) \notin files
<1>1. CASE u \notin NewUnits /\ status = "unknown"
  BY <1>1, NameFacts DEF FileName, FileNames
<1>2. CASE ~(u \notin NewUnits /\ status = "unknown")
  <2> DEFINE n == Len(table)
             f == [i \in 1 .. n |-> table[i].name[2]]
             K == {k \in Streams : Scratch(k) \in files}
  <2>1. table \in Seq(Entries) /\ n \in Nat /\ n <= MaxUnits
    BY LenProperties DEF Whole, WorldOK, Worlds, World
  <2>2. ASSUME NEW k \in K PROVE \E i \in 1 .. n : k = f[i]
    <3>1. PICK e \in ToSet(table) : e.name = Scratch(k)
      BY <2>2, NameFacts DEF Whole, ScratchKept, World
    <3>2. PICK i \in 1 .. n : e = table[i]
      BY <2>1, <3>1, SetOfTable
    <3> QED BY <3>1, <3>2, NameFacts
  <2> HIDE DEF n, f
  <2>3. \E k \in Streams : k \notin K
    <3> HIDE DEF K
    <3> QED BY <2>1, <2>2, OneIsFree
  <2>4. \E k \in Streams : Scratch(k) \notin files
    BY <2>3
  <2>5. PICK k \in Streams : FileName(u, status) = Scratch(k) /\ Scratch(k) \notin files
    BY <1>2, <2>4 DEF FileName
  <2> QED BY <2>5 DEF FileNames
<1> QED BY <1>1, <1>2

Disconnectable(w, given, flushed) ==
    /\ Whole(w) /\ ~w.exited /\ w.iostat = 0
    /\ given \in BOOLEAN /\ flushed \in BOOLEAN /\ (Beyond = {} => flushed)

\* The unit is as it was, or not connected.
Disconnected(w, d, u, name, given) ==
    /\ d.iostat = 0 /\ d.registered = w.registered
    /\ ToSet(d.table) \ EntryOf(d.table, u) = ToSet(w.table) \ EntryOf(w.table, u)
    /\ EntryOf(d.table, u) \in {{}, EntryOf(w.table, u)}
    /\ given => \A f \in EntryOf(d.table, u) : f.name = name

\* _lfortran_open(), what it does to the file the unit was connected to.
LEMMA DisconnectIsSound ==
  ASSUME NEW w, NEW u, NEW name, NEW given, NEW flushed, Disconnectable(w, given, flushed),
         NEW d, d = Disconnect(w, u, name, given, flushed)
  PROVE  /\ Sound(d) /\ (~given => d = w)
         /\ ~d.exited => Disconnected(w, d, u, name, given)
<1> USE DEF Disconnectable, Disconnected
<1> DEFINE i == FindUnit(w, u)
           c == Close(w, u, FALSE, flushed)
<1>1. d = IF i = 0 \/ ~given \/ w.table[i].name = name THEN w
          ELSE IF c.iostat # 0 THEN Exit(c) ELSE c
  BY DEF Disconnect
<1>2. CASE i = 0 \/ ~given \/ w.table[i].name = name
  <2>1. d = w /\ Sound(d)
    BY <1>1, <1>2 DEF Sound
  <2>2. ASSUME given, NEW f \in EntryOf(w.table, u) PROVE f.name = name
    <3>1. \/ i = 0 /\ EntryOf(w.table, u) = {}
          \/ i # 0 /\ EntryOf(w.table, u) = {w.table[i]}
      BY FindUnitFacts DEF Whole
    <3> HIDE DEF i
    <3>2. i = 0 \/ w.table[i].name = name
      BY <1>2, <2>2, Zenon
    <3> QED BY <2>2, <3>1, <3>2
  <2> QED BY <2>1, <2>2
<1>3. CASE ~(i = 0 \/ ~given \/ w.table[i].name = name)
  <2>1. d = IF c.iostat # 0 THEN Exit(c) ELSE c
    BY <1>1, <1>3
  <2>2. /\ Whole(c) /\ ~c.exited /\ c.registered = w.registered
        /\ IF c.iostat = 0 THEN EntryOf(c.table, u) = {} ELSE c.table = w.table
        /\ ToSet(c.table) \ EntryOf(c.table, u) = ToSet(w.table) \ EntryOf(w.table, u)
    <3>1. Closable(w, u, FALSE, flushed)
      BY DEF Closable
    <3>2. Closed(w, c, u)
      BY <3>1, CloseIsWhole
    <3> QED BY <3>2 DEF Closed
  <2> HIDE DEF c, i
  <2>3. CASE c.iostat # 0
    <3>1. d = Exit(c)
      BY <2>1, <2>3
    <3>2. d.exited /\ Sound(d)
      BY <2>2, <3>1, ExitIsSound DEF Whole, ScratchKept
    <3> QED BY <1>3, <3>2
  <2>4. CASE c.iostat = 0
    <3>1. d = c
      BY <2>1, <2>4
    <3> QED BY <1>3, <2>2, <2>4, <3>1 DEF Sound
  <2> QED BY <2>3, <2>4
<1> QED BY <1>2, <1>3

-----------------------------------------------------------------------------
(* The statements                                                          *)

\* The state as a record.
Now ==
    [table |-> table, files |-> files, open |-> open, registered |-> registered,
     exited |-> exited, iostat |-> 0]

\* The state a statement leaves is the record it computed.
LEMMA BecomeIsSound ==
  ASSUME NEW w, Sound(w), NEW statement, NEW u, NEW name, Become(w, statement, u, name)
  PROVE  /\ Sound(Now)'
         /\ result'.statement = statement /\ result'.unit = u /\ result'.name = name
         /\ ~exited' => ~w.exited /\ table' = w.table /\ result'.failed = (w.iostat # 0)
<1>1. PICK v \in Outcomes(w) :
        /\ table' = v.table /\ files' = v.files /\ open' = v.open
        /\ registered' = v.registered /\ exited' = v.exited
        /\ result' = [statement |-> statement, unit |-> u, name |-> name, failed |-> v.iostat # 0]
  BY DEF Become
<1>2. Sound(v) /\ (v = w \/ v.exited)
  BY OutcomesAreSound
<1>3. v \in Worlds
  BY <1>2 DEF Sound, Ended, Whole, WorldOK
<1> DEFINE n == Now'
<1>4. /\ n.table = v.table /\ n.files = v.files /\ n.open = v.open /\ n.registered = v.registered
      /\ n.exited = v.exited /\ n \in Worlds
  BY <1>1, <1>3 DEF Now, Worlds
<1> HIDE DEF n
<1>5. Sound(n)
  BY <1>2, <1>4 DEF Sound, Ended, Whole, WorldOK, NoLeak, ScratchKept, Owned
<1>6. Sound(Now)'
  BY <1>5 DEF n
<1> QED BY <1>1, <1>2, <1>6

\* World is the state of a program that has not ended.
LEMMA WorldIsNow ==
  ASSUME ~exited, Sound(Now), exited \in BOOLEAN
  PROVE  /\ World = Now /\ Whole(World) /\ ~World.exited /\ World.iostat = 0
         /\ World.table = table /\ World.files = files
<1>1. exited = FALSE
  OBVIOUS
<1> QED BY <1>1 DEF World, Now, Sound

\* A statement connects "fort.<unit>".
LEMMA ImplicitIsSound ==
  ASSUME NEW w, Whole(w), ~w.exited, NEW u \in Units, FindUnit(w, u) = 0,
         NEW bin \in Flags, NEW fault, NEW c, c = Implicit(w, u, bin, fault)
  PROVE  Sound(c)
<1>1. CASE fault # "none"
  <2>1. c = Fail(w, 5004)
    BY <1>1 DEF Implicit
  <2> QED BY <2>1, FailIsSound DEF Sound, Whole
<1>2. CASE fault = "none"
  <2>3. PICK writable \in Flags : writable = TRUE
    BY DEF Flags
  <2>1. c = StoreUnitFile(Fopen(w, Fort(u)), Entry(u, Fort(u), FreeStream(w), bin, writable))
    BY <1>2, <2>3 DEF Implicit
  <2>2. Storable(w, u, Fort(u))
    BY NameFacts DEF Storable, FileNames
  <2> QED BY <2>1, <2>2, StoreIsSound
<1> QED BY <1>1, <1>2

\* A unit whose file cannot be opened again keeps an entry without a stream.
LEMMA ReconnectIsSound ==
  ASSUME NEW w, Whole(w), ~w.exited, NEW u, FindUnit(w, u) # 0, NEW e, e = w.table[FindUnit(w, u)],
         e.name = Fort(u), NEW bin \in Flags, NEW fault, fault # "none" => Beyond # {},
         NEW c, c = Again(w, e, bin, fault)
  PROVE  Sound(c)
<1>0. PICK writable \in Flags : writable = TRUE
  BY DEF Flags
<1> DEFINE i == FindUnit(w, u)
           v == [w EXCEPT !.open = @ \ {e.stream}]
           s == FreeStream(v)
           o == Fopen(v, Fort(u))
           f == Entry(u, Fort(u), s, bin, writable)
<1>1. WorldOK(w) /\ NoLeak(w) /\ ScratchKept(w) /\ w \in Worlds /\ w.table \in Seq(Entries)
  BY DEF Whole, WorldOK, Worlds
<1>2. /\ i \in 1 .. Len(w.table) /\ i # 0 /\ e \in Entries /\ e \in ToSet(w.table) /\ e.unit = u
      /\ e = w.table[i]
  BY <1>1, FindUnitFacts
<1>3. Fort(u) # NULL /\ ~IsScratch(Fort(u)) /\ e.stream \notin Standard /\ Fort(u) \in FileNames
  <2>1. Fort(u) # NULL /\ ~IsScratch(Fort(u))
    BY NameFacts DEF NULL, Fort
  <2> QED BY <1>1, <1>2, <2>1 DEF WorldOK, Entries
<1>4. /\ v \in Worlds /\ v.table = w.table /\ v.files = w.files /\ v.open = w.open \ {e.stream}
      /\ v.registered = w.registered /\ v.exited = w.exited /\ v.iostat = w.iostat
  BY <1>1 DEF Worlds
<1> HIDE DEF i, v
<1>5. WorldOK(v) /\ NoLeak(v)
  BY <1>1, <1>3, <1>4 DEF WorldOK, NoLeak
<1>6. CASE fault # "none"
  <2>1. c = Fail(v, 5004)
    BY <1>6 DEF Again, v
  <2>2. Whole(v)
    BY <1>1, <1>4, <1>5, <1>6 DEF Whole, ScratchKept
  <2> QED BY <1>4, <1>5, <2>1, <2>2, FailIsSound DEF Sound
<1>7. CASE fault = "none"
  <2>1. s \in Streams /\ s \notin v.open /\ s \notin Standard
    BY <1>5, FreeStreamIsFree
  <2> HIDE DEF s
  <2>2. c = StoreUnitFile(o, Entry(u, NULL, s, bin, writable))
    BY <1>0, <1>2, <1>7 DEF Again, v, s
  <2>3. /\ o \in Worlds /\ o.table = w.table /\ o.files = w.files \cup {Fort(u)}
        /\ o.open = (w.open \ {e.stream}) \cup {s} /\ o.registered = w.registered
        /\ o.exited = w.exited
    BY <1>3, <1>4, <2>1 DEF Fopen, Worlds, s
  <2>4. /\ f \in Entries /\ f.unit = u /\ f.name = Fort(u) /\ f.stream = s
    <3>1. u \in Units \cup {0, 5, 6}
      BY <1>2 DEF Entries
    <3> QED BY <1>3, <2>1, <3>1 DEF Entry, Entries, Flags
  <2> HIDE DEF o
  <2>5. FindUnit(o, u) = i
    BY <2>3 DEF FindUnit, i
  <2>6. c = [o EXCEPT !.table[i] = f]
    <3>1. o.table[i].name = Fort(u)
      BY <1>2, <2>3
    <3> HIDE DEF s
    <3> QED BY <1>2, <2>2, <2>5, <3>1 DEF StoreUnitFile, Entry
  <2> HIDE DEF f
  <2>7. [w.table EXCEPT ![i] = f] \in Seq(Entries)
    BY <1>1, <1>2, <2>4, ExceptSeq
  <2>8. /\ c \in Worlds /\ c.table = [w.table EXCEPT ![i] = f] /\ c.files = w.files \cup {Fort(u)}
        /\ c.open = (w.open \ {e.stream}) \cup {s} /\ c.registered = w.registered
        /\ c.exited = w.exited
    BY <2>3, <2>6, <2>7 DEF Worlds
  <2>9. NewStream(w, c, i, f)
    BY <1>2, <1>3, <1>4, <2>1, <2>4, <2>8 DEF NewStream
  <2> QED BY <2>8, <2>9, AgainIsWhole DEF Sound
<1> QED BY <1>6, <1>7

\* WRITE
LEMMA WriteIsSound ==
  ASSUME ~exited, exited \in BOOLEAN, Sound(Now), NEW u \in Units, NEW bin \in Flags,
         WriteStatement(u, bin)
  PROVE  Sound(Now)' /\ result'.statement # "open"
<1> DEFINE w == World
           i == FindUnit(w, u)
           e == w.table[i]
           again == i # 0 /\ e.writable /\ e.bin # bin /\ e.name = Fort(u)
           c(fault) == IF i = 0 THEN Implicit(w, u, bin, fault)
                       ELSE IF ~e.writable THEN Fail(w, 5003)
                       ELSE IF e.bin = bin THEN w
                       ELSE IF again THEN Again(w, e, bin, fault)
                       ELSE Fail(w, 5001)
<1>1. PICK fault \in {"none", "open"} :
        (again /\ fault # "none" => "again" \in Beyond) /\ Become(c(fault), "write", u, NULL)
  BY DEF WriteStatement
<1>2. Whole(w) /\ ~w.exited /\ w.iostat = 0 /\ Sound(w) /\ WorldOK(w)
  BY WorldIsNow DEF Sound, Whole
<1> HIDE DEF w
<1>3. Sound(c(fault))
  <2>1. CASE i = 0
    <3>1. c(fault) = Implicit(w, u, bin, fault)
      BY <2>1
    <3> HIDE DEF c
    <3> QED BY <1>2, <2>1, <3>1, ImplicitIsSound
  <2>2. CASE i # 0 /\ again
    <3>1. c(fault) = Again(w, e, bin, fault)
      BY <2>2
    <3>2. fault # "none" => Beyond # {}
      BY <1>1, <2>2
    <3>3. i # 0 /\ e.name = Fort(u)
      BY <2>2
    <3> HIDE DEF c, again
    <3> QED BY <1>2, <3>1, <3>2, <3>3, ReconnectIsSound
  <2>3. CASE i # 0 /\ ~again
    <3>1. c(fault) \in {Fail(w, 5003), w, Fail(w, 5001)}
      BY <2>3
    <3> HIDE DEF c
    <3>2. Sound(Fail(w, 5003)) /\ Sound(Fail(w, 5001))
      BY <1>2, FailIsSound
    <3> QED BY <1>2, <3>1, <3>2
  <2> QED BY <2>1, <2>2, <2>3
<1> HIDE DEF c
<1> QED BY <1>1, <1>3, BecomeIsSound

\* READ
LEMMA ReadIsSound ==
  ASSUME ~exited, exited \in BOOLEAN, Sound(Now), NEW u \in Units, NEW bin \in Flags,
         ReadStatement(u, bin)
  PROVE  Sound(Now)' /\ result'.statement # "open"
<1> DEFINE w == World
           c(fault) == Implicit(w, u, bin, fault)
           r(fault) == [c(fault) EXCEPT !.table[FindUnit(c(fault), u)].writable = FALSE]
           x(readonly, fault) ==
               IF FindUnit(w, u) # 0 THEN w
               ELSE IF u \in NewUnits THEN Fail(w, 1)
               ELSE IF /\ FindUnit(c(fault), u) # 0 /\ readonly /\ Fort(u) \in files
                       /\ ~c(fault).exited
                    THEN r(fault) ELSE c(fault)
<1>1. PICK readonly \in BOOLEAN, fault \in {"none", "open"} :
        Become(x(readonly, fault), "read", u, NULL)
  BY DEF ReadStatement
<1>2. Whole(w) /\ ~w.exited /\ w.iostat = 0 /\ Sound(w) /\ WorldOK(w)
  BY WorldIsNow DEF Sound, Whole
<1> HIDE DEF w, c
<1>3. ASSUME FindUnit(w, u) = 0 PROVE Sound(c(fault))
  BY <1>2, <1>3, ImplicitIsSound DEF c
<1>4. ASSUME FindUnit(w, u) = 0, ~c(fault).exited, FindUnit(c(fault), u) # 0
      PROVE  Sound(r(fault))
  <2> DEFINE v == c(fault)
             i == FindUnit(v, u)
             f == [v.table[i] EXCEPT !.writable = FALSE]
             d == r(fault)
  <2>1. Whole(v) /\ WorldOK(v) /\ v \in Worlds /\ v.table \in Seq(Entries)
    BY <1>3, <1>4 DEF Sound, Whole, WorldOK, Worlds
  <2>2. i \in 1 .. Len(v.table) /\ v.table[i] \in Entries
    BY <1>4, <2>1, FindUnitFacts
  <2>3. d = [v EXCEPT !.table[i] = f]
    OBVIOUS
  <2> HIDE DEF v, i, d
  <2>4. /\ f \in Entries /\ f.unit = v.table[i].unit /\ f.stream = v.table[i].stream
        /\ f.name = v.table[i].name
    BY <2>2 DEF Entries
  <2> HIDE DEF f
  <2>5. [v.table EXCEPT ![i] = f] \in Seq(Entries)
    BY <2>1, <2>2, <2>4, ExceptSeq
  <2>6. /\ d \in Worlds /\ d.table = [v.table EXCEPT ![i] = f] /\ d.files = v.files
        /\ d.open = v.open /\ d.registered = v.registered /\ d.exited = v.exited
    BY <2>1, <2>3, <2>5 DEF Worlds
  <2>7. NewModes(v, d, i, f)
    BY <2>2, <2>4, <2>6 DEF NewModes
  <2>8. Whole(d) /\ ~d.exited
    BY <1>4, <2>1, <2>6, <2>7, ModesAreWhole DEF v
  <2> QED BY <2>8 DEF Sound, d
<1>5. Sound(Fail(w, 1))
  BY <1>2, FailIsSound
<1> HIDE DEF r
<1>6. Sound(x(readonly, fault))
  BY <1>2, <1>3, <1>4, <1>5
<1> HIDE DEF x
<1> QED BY <1>1, <1>6, BecomeIsSound

\* ENDFILE
LEMMA EndfileIsSound ==
  ASSUME ~exited, exited \in BOOLEAN, Sound(Now), NEW u \in Units, EndfileStatement(u)
  PROVE  Sound(Now)' /\ result'.statement # "open"
<1>1. PICK bin \in Flags : bin = FALSE
  BY DEF Flags
<1> DEFINE x(fault) == IF FindUnit(World, u) # 0 THEN World ELSE Implicit(World, u, bin, fault)
<1>2. PICK fault \in {"none", "open"} : Become(x(fault), "endfile", u, NULL)
  BY <1>1 DEF EndfileStatement
<1>3. Whole(World) /\ ~World.exited /\ Sound(World)
  BY WorldIsNow DEF Sound
<1>4. ASSUME FindUnit(World, u) = 0 PROVE Sound(Implicit(World, u, bin, fault))
  BY <1>3, <1>4, ImplicitIsSound
<1>5. Sound(x(fault))
  BY <1>3, <1>4
<1> HIDE DEF x
<1> QED BY <1>2, <1>5, BecomeIsSound

\* CLOSE
LEMMA CloseIsSound ==
  ASSUME ~exited, exited \in BOOLEAN, Sound(Now), NEW u \in Units, NEW delete \in BOOLEAN,
         CloseStatement(u, delete)
  PROVE  Sound(Now)' /\ result'.statement # "open"
<1>1. PICK flushed \in Flushes :
        /\ \A i \in DOMAIN table :
               table[i].unit = u /\ delete /\ table[i].stream \notin Standard =>
                   table[i].name \in files \/ "unlink" \in Beyond
        /\ Become(Close(World, u, delete, flushed), "close", u, NULL)
  BY DEF CloseStatement
<1>2. /\ Whole(World) /\ ~World.exited /\ World.iostat = 0
      /\ World.table = table /\ World.files = files
  BY WorldIsNow
<1>3. table \in Seq(Entries) /\ DOMAIN table = 1 .. Len(table)
  BY <1>2, LenProperties DEF Whole, WorldOK, Worlds
<1>4. flushed \in BOOLEAN /\ (Beyond = {} => flushed)
  BY DEF Flushes
<1>5. ASSUME Beyond = {}, NEW e \in EntryOf(table, u), delete, e.stream \notin Standard
      PROVE  e.name \in files
  <2>1. PICK i \in 1 .. Len(table) : e = table[i] /\ e.unit = u
    BY <1>3, <1>5, SetOfTable DEF EntryOf
  <2> QED BY <1>1, <1>3, <1>5, <2>1
<1>6. Closable(World, u, delete, flushed)
  <2>1. Beyond = {} => \A e \in EntryOf(World.table, u) :
                           delete /\ e.stream \notin Standard => e.name \in World.files
    BY <1>2, <1>5
  <2> QED BY <1>2, <1>4, <2>1 DEF Closable
<1>7. Closed(World, Close(World, u, delete, flushed), u)
  BY <1>6, CloseIsWhole
<1>8. Sound(Close(World, u, delete, flushed))
  BY <1>7 DEF Closed, Sound
<1> QED BY <1>1, <1>8, BecomeIsSound

\* The end of the program.
LEMMA FinalizeIsSound ==
  ASSUME ~exited, exited \in BOOLEAN, Sound(Now), Finalize
  PROVE  Sound(Now)' /\ result'.statement # "open"
<1>1. WorldOK(World) /\ ScratchKept(World)
  BY WorldIsNow DEF Whole
<1>2. Sound([CloseAllUnits(World) EXCEPT !.exited = TRUE])
  BY <1>1, CloseAllIsSound DEF ScratchKept
<1> QED BY <1>2, BecomeIsSound DEF Finalize

\* Another program removes a file that is no scratch file.
LEMMA UnlinkIsSound ==
  ASSUME ~exited, Sound(Now), Unlink
  PROVE  Sound(Now)'
<1>1. PICK name \in files : ~IsScratch(name) /\ files' = files \ {name}
  BY DEF Unlink
<1>2. UNCHANGED <<table, open, registered, exited, result>>
  BY DEF Unlink
<1> DEFINE w == Now
           n == Now'
<1>3. Whole(w) /\ w \in Worlds
  BY DEF Sound, Now, Whole, WorldOK
<1>4. /\ n \in Worlds /\ n.files = w.files \ {name} /\ n.table = w.table /\ n.open = w.open
      /\ n.registered = w.registered /\ n.exited = w.exited /\ ~n.exited
  BY <1>1, <1>2, <1>3 DEF Now, Worlds
<1> HIDE DEF n, w
<1>5. Sound(n)
  BY <1>1, <1>3, <1>4 DEF Sound, Whole, WorldOK, NoLeak, ScratchKept, Owned
<1> QED BY <1>5 DEF n

\* What OPEN does to the entries t of the table: the unit keeps its entry or
\* loses it when there was an error, and is connected to the file otherwise.
Opened(t, s, u, name, failed) ==
    /\ ToSet(s) \ EntryOf(s, u) = ToSet(t) \ EntryOf(t, u)
    /\ IF ~failed
       THEN \E e \in EntryOf(s, u) : EntryOf(s, u) = {e} /\ (name # NULL => e.name = name)
       ELSE EntryOf(s, u) \in {{}, EntryOf(t, u)}

\* OPEN
LEMMA OpenIsSound ==
  ASSUME ~exited, exited \in BOOLEAN, Sound(Now), "lost" \notin Beyond, NEW u \in Units,
         NEW given \in {NULL} \cup Names, NEW status \in Statuses, NEW spec \in Specs,
         OpenStatement(u, given, status, spec)
  PROVE  /\ Sound(Now)' /\ result'.unit = u /\ result'.name = given
         /\ ~exited' => Opened(table, table', u, given, result'.failed)
<1> DEFINE name == IF given = NULL THEN FileName(u, status) ELSE given
           w == [World EXCEPT !.registered = TRUE]
           d(flushed) == Disconnect(w, u, name, given # NULL, flushed)
           c(flushed, fault) == Connect(d(flushed), u, name, status, spec, fault)
           x(flushed, fault) == IF d(flushed).exited THEN d(flushed) ELSE c(flushed, fault)
<1>1. PICK flushed \in Flushes, fault \in {"none", "create", "open"} :
        /\ fault = "create" => status = "unknown"
        /\ ~Loses(d(flushed), u, name, status, spec, fault)
        /\ Become(x(flushed, fault), "open", u, given)
  BY DEF OpenStatement
<1>2. flushed \in BOOLEAN /\ (Beyond = {} => flushed)
  BY DEF Flushes
<1>3. /\ Whole(World) /\ ~World.exited /\ World.iostat = 0
      /\ World.table = table /\ World.files = files /\ World \in Worlds
  BY WorldIsNow DEF Whole, WorldOK
<1>4. /\ w \in Worlds /\ w.table = table /\ w.files = files /\ w.open = World.open
      /\ w.registered /\ ~w.exited /\ w.iostat = 0
  BY <1>3 DEF Worlds
<1>5. name \in FileNames /\ (given # NULL => ~IsScratch(name)) /\ (IsScratch(name) => name \notin files)
  BY <1>3, FileNameIsNew, NameFacts DEF FileNames
<1>6. given # NULL => name = given
  OBVIOUS
<1> HIDE DEF w, name
<1>7. Whole(w)
  BY <1>3, <1>4 DEF Whole, WorldOK, NoLeak, ScratchKept, Owned
<1> DEFINE y == d(flushed)
           z == x(flushed, fault)
           known == given # NULL
<1>8. known \in BOOLEAN /\ y = Disconnect(w, u, name, known, flushed)
  OBVIOUS
<1>9. z = IF y.exited THEN y ELSE Connect(y, u, name, status, spec, fault)
  OBVIOUS
<1>10. ~Loses(y, u, name, status, spec, fault) /\ Become(z, "open", u, given)
  BY <1>1
<1>11. known <=> given # NULL
  OBVIOUS
<1> HIDE DEF y, z, known, d, c, x
<1>12. /\ Sound(y) /\ (~known => y = w)
       /\ ~y.exited =>
             /\ y.iostat = 0 /\ y.registered = w.registered
             /\ ToSet(y.table) \ EntryOf(y.table, u) = ToSet(table) \ EntryOf(table, u)
             /\ EntryOf(y.table, u) \in {{}, EntryOf(table, u)}
             /\ known => \A f \in EntryOf(y.table, u) : f.name = name
  <2>1. Disconnectable(w, known, flushed)
    BY <1>2, <1>4, <1>7, <1>8 DEF Disconnectable
  <2>2. Sound(y) /\ (~known => y = w) /\ (~y.exited => Disconnected(w, y, u, name, known))
    BY <1>8, <2>1, DisconnectIsSound
  <2> QED BY <1>4, <2>2 DEF Disconnected
<1>13. CASE y.exited
  <2>1. z = y
    BY <1>9, <1>13
  <2> QED BY <1>10, <1>12, <1>13, <2>1, BecomeIsSound
<1>14. CASE ~y.exited
  <2>1. z = Connect(y, u, name, status, spec, fault)
    BY <1>9, <1>14
  <2>2. Whole(y) /\ y.registered /\ y.iostat = 0
    BY <1>4, <1>12, <1>14 DEF Sound
  <2>3. IsScratch(name) => name \notin y.files
    BY <1>4, <1>5, <1>11, <1>12
  <2>4. Sound(z) /\ (~z.exited => Connected(y, z, u, name))
    BY <1>1, <1>5, <1>10, <1>14, <2>1, <2>2, <2>3, ConnectIsSound
  <2>5. /\ Sound(Now)' /\ result'.unit = u /\ result'.name = given
        /\ ~exited' => ~z.exited /\ table' = z.table /\ result'.failed = (z.iostat # 0)
    BY <1>10, <2>4, BecomeIsSound
  <2>6. ASSUME ~exited' PROVE Opened(table, table', u, given, result'.failed)
    <3>1. Connected(y, z, u, name) /\ table' = z.table /\ result'.failed = (z.iostat # 0)
      BY <2>4, <2>5, <2>6
    <3>2. ToSet(table') \ EntryOf(table', u) = ToSet(table) \ EntryOf(table, u)
      BY <1>12, <1>14, <3>1 DEF Connected
    <3>3. CASE z.iostat # 0
      <4>1. EntryOf(table', u) \in {{}, EntryOf(table, u)}
        BY <1>12, <1>14, <3>1, <3>3 DEF Connected
      <4> QED BY <3>1, <3>2, <3>3, <4>1 DEF Opened
    <3>4. CASE z.iostat = 0
      <4>1. PICK e \in ToSet(table') :
              /\ EntryOf(table', u) = {e}
              /\ IF EntryOf(y.table, u) = {} THEN e.name = name
                 ELSE \E f \in EntryOf(y.table, u) : e.name = f.name
        BY <3>1, <3>4 DEF Connected
      <4>2. given # NULL => e.name = given
        BY <1>6, <1>11, <1>12, <1>14, <4>1
      <4> QED BY <3>1, <3>2, <3>4, <4>1, <4>2 DEF Opened
    <3> QED BY <3>3, <3>4
  <2> QED BY <2>5, <2>6
<1> QED BY <1>13, <1>14

-----------------------------------------------------------------------------
(* The theorems                                                            *)

\* Another program may remove the file after the OPEN, which stays the last
\* statement: its unit must still be connected.
ResultHolds ==
    result.statement = "open" /\ ~exited /\ ~result.failed =>
        \E e \in EntryOf(table, result.unit) :
            EntryOf(table, result.unit) = {e} /\ (result.name # NULL => e.name = result.name)

TableInv == exited \in BOOLEAN /\ Sound(Now) /\ ResultHolds

Touches ==
    result'.statement = "open" /\ ~exited' =>
        Opened(table, table', result'.unit, result'.name, result'.failed)

\* The first state: the standard units are connected.
LEMMA InitIsSound == Init => TableInv
<1> SUFFICES ASSUME Init PROVE TableInv
  OBVIOUS
<1> DEFINE a == Entry(5, NULL, stdin, FALSE, FALSE)
           b == Entry(6, NULL, stdout, FALSE, TRUE)
           c == Entry(0, NULL, stderr, FALSE, TRUE)
<1>1. /\ a \in Entries /\ b \in Entries /\ c \in Entries
      /\ a.unit = 5 /\ b.unit = 6 /\ c.unit = 0
      /\ a.name = NULL /\ b.name = NULL /\ c.name = NULL
      /\ a.stream = 0 /\ b.stream = 1 /\ c.stream = 2
  BY DEF Entry, Entries, stdin, stdout, stderr, Standard
<1>2. table = <<a, b, c>>
  BY DEF Init
<1> HIDE DEF a, b, c
<1>3. table \in Seq(Entries) /\ Len(table) = 3
  BY <1>1, <1>2
<1>4. ToSet(table) = {a, b, c}
  BY <1>2 DEF ToSet
<1>5. Unique(table)
  BY <1>1, <1>2 DEF Unique
<1> DEFINE w == Now
<1>6. /\ w.table = table /\ w.files = {} /\ w.open = Standard /\ w.registered = FALSE
      /\ w.exited = FALSE /\ w.iostat = 0 /\ w \in Worlds
  BY <1>3 DEF Now, Init, Worlds
<1> HIDE DEF w
<1>7. WorldOK(w)
  <2>0. ToSet(w.table) = {a, b, c}
    BY <1>4, <1>6
  <2>1. ASSUME NEW e \in ToSet(w.table) PROVE e.name = NULL
    <3>1. e \in {a, b, c}
      BY <2>0
    <3> QED BY <1>1, <3>1
  <2>2. Len(w.table) <= MaxUnits
    <3>1. w.table = table
      BY <1>6
    <3>2. Len(w.table) = 3
      BY <1>3, <3>1, Zenon
    <3>3. 3 <= MaxUnits
      BY TableAssumption
    <3> QED BY <3>2, <3>3
  <2> QED BY <1>5, <1>6, <2>1, <2>2 DEF WorldOK
<1>8. NoLeak(w)
  BY <1>6 DEF NoLeak
<1>9. ScratchKept(w)
  BY <1>1, <1>4, <1>6, NameFacts DEF ScratchKept
<1>10. Owned(w)
  BY <1>1, <1>4, <1>6 DEF Owned, Standard, stdin, stdout, stderr
<1>11. Sound(Now)
  BY <1>6, <1>7, <1>8, <1>9, <1>10 DEF Sound, Whole, w
<1> QED BY <1>11 DEF TableInv, ResultHolds, Init

\* Every step keeps the invariant, and OPEN touches one unit.
LEMMA StepIsSound ==
  ASSUME TableInv, [Next]_vars, "lost" \notin Beyond
  PROVE  TableInv' /\ (UNCHANGED vars \/ Touches)
<1>1. CASE UNCHANGED vars
  <2>1. TableInv'
    BY <1>1 DEF TableInv, vars, Now, ResultHolds
  <2> QED BY <1>1, <2>1
<1>2. CASE Next
  <2>1. ~exited /\ exited \in BOOLEAN /\ Sound(Now)
    BY <1>2 DEF Next, TableInv
  <2>2. ASSUME Sound(Now)' PROVE exited' \in BOOLEAN
    BY <2>2 DEF Sound, Ended, Whole, WorldOK, Worlds, Now
  <2>3. ASSUME Sound(Now)' /\ result'.statement # "open" PROVE TableInv' /\ Touches
    BY <2>2, <2>3 DEF TableInv, ResultHolds, Touches
  <2>4. ASSUME NEW u \in Units, NEW given \in {NULL} \cup Names, NEW status \in Statuses,
               NEW spec \in Specs, OpenStatement(u, given, status, spec)
        PROVE  TableInv' /\ Touches
    <3>1. /\ Sound(Now)' /\ result'.unit = u /\ result'.name = given
          /\ ~exited' => Opened(table, table', u, given, result'.failed)
      BY <2>1, <2>4, OpenIsSound
    <3>2. Touches
      BY <3>1 DEF Touches
    <3>3. ResultHolds'
      BY <3>2 DEF ResultHolds, Touches, Opened
    <3> QED BY <2>2, <3>1, <3>2, <3>3 DEF TableInv
  <2>5. ASSUME NEW u \in Units, NEW bin \in BOOLEAN, WriteStatement(u, bin) \/ ReadStatement(u, bin)
        PROVE  TableInv' /\ Touches
    <3>1. bin \in Flags
      BY DEF Flags
    <3> QED BY <2>1, <2>3, <2>5, <3>1, WriteIsSound, ReadIsSound
  <2>6. ASSUME NEW u \in Units, NEW delete \in BOOLEAN, CloseStatement(u, delete)
        PROVE  TableInv' /\ Touches
    BY <2>1, <2>3, <2>6, CloseIsSound
  <2>7. ASSUME NEW u \in Units, EndfileStatement(u)
        PROVE  TableInv' /\ Touches
    BY <2>1, <2>3, <2>7, EndfileIsSound
  <2>8. ASSUME Finalize PROVE TableInv' /\ Touches
    BY <2>1, <2>3, <2>8, FinalizeIsSound
  <2>9. ASSUME Unlink PROVE TableInv' /\ Touches
    <3>1. table' = table /\ exited' = exited /\ result' = result
      BY <2>9 DEF Unlink
    <3>2. Sound(Now)'
      BY <2>1, <2>9, UnlinkIsSound
    <3>3. ResultHolds'
      BY <3>1 DEF TableInv, ResultHolds
    <3>4. Touches
      BY <3>1 DEF TableInv, ResultHolds, Touches, Opened
    <3> QED BY <2>2, <3>2, <3>3, <3>4 DEF TableInv
  <2> QED BY <1>2, <2>4, <2>5, <2>6, <2>7, <2>8, <2>9 DEF Next
<1> QED BY <1>1, <1>2

\* The invariant holds in every state.
LEMMA TableIsSound ==
  ASSUME "lost" \notin Beyond
  PROVE  Spec => []TableInv
<1>1. TableInv /\ [Next]_vars => TableInv'
  BY StepIsSound
<1> QED BY <1>1, InitIsSound, PTL DEF Spec

\* Scratch files are deleted with their unit or when the program ends, by an
\* error too: for any units, names and MAXUNITS, and although streams cannot be
\* flushed, files vanish or "fort.<unit>" cannot be opened again, if no OPEN
\* fails after it has made its scratch file.
THEOREM TableDeletesScratchFiles ==
  ASSUME "lost" \notin Beyond
  PROVE  Spec => []ScratchFilesAreDeleted
<1>1. TableInv => ScratchFilesAreDeleted
  <2> SUFFICES ASSUME TableInv, NEW n \in files, IsScratch(n)
               PROVE  ~exited /\ \E i \in DOMAIN table : table[i].name = n
    BY DEF ScratchFilesAreDeleted
  <2>1. Sound(Now) /\ Now.files = files /\ Now.table = table /\ Now.exited = exited
    BY DEF TableInv, Now
  <2>2. ~exited
    BY <2>1 DEF Sound, Ended
  <2>3. Whole(Now)
    BY <2>1, <2>2 DEF Sound
  <2>4. \E e \in ToSet(table) : e.name = n
    BY <2>1, <2>3 DEF Whole, ScratchKept
  <2> QED BY <2>2, <2>4 DEF ToSet
<1> QED BY <1>1, TableIsSound, PTL

\* OPEN connects its unit to the file it names or reports an error, after
\* which the unit is as it was or not connected, and leaves the other units
\* alone; under the same assumption.
THEOREM TableOpensOneUnit ==
  ASSUME "lost" \notin Beyond
  PROVE  Spec => OpenTouchesOneUnit
<1> DEFINE A == result'.statement = "open" /\ ~exited' =>
        LET u == result'.unit
            new == EntryOf(table', u)
        IN  /\ ToSet(table') \ new = ToSet(table) \ EntryOf(table, u)
            /\ IF ~result'.failed
               THEN \E e \in new : new = {e} /\ (result'.name # NULL => e.name = result'.name)
               ELSE new \in {{}, EntryOf(table, u)}
<1>1. TableInv /\ [Next]_vars => [A]_vars
  <2> SUFFICES ASSUME TableInv, [Next]_vars, Touches PROVE A
    BY StepIsSound
  <2> QED BY DEF Touches, Opened
<1>2. [][A]_vars <=> OpenTouchesOneUnit
  BY DEF OpenTouchesOneUnit
<1> HIDE DEF A
<1> QED BY <1>1, <1>2, TableIsSound, PTL DEF Spec

\* Every open stream belongs to one unit, every unit's stream is open and the
\* process's own streams are never closed: for any units, names and MAXUNITS,
\* whatever fopen() does.  The failures of Beyond would refute it.
THEOREM TableOwnsStreams ==
  ASSUME Beyond = {}
  PROVE  Spec => []StreamsAreOwned
<1>1. TableInv => StreamsAreOwned
  <2> SUFFICES ASSUME TableInv PROVE StreamsAreOwned
    OBVIOUS
  <2>1. /\ Sound(Now) /\ Now.files = files /\ Now.table = table /\ Now.exited = exited
        /\ Now.open = open /\ Now.registered = registered /\ exited \in BOOLEAN
    BY DEF TableInv, Now
  <2>2. WorldOK(Now) /\ (~exited => Whole(Now))
    BY <2>1 DEF Sound, Ended, Whole
  <2>3. /\ table \in Seq(Entries) /\ files \subseteq FileNames /\ registered \in BOOLEAN
        /\ open \subseteq Standard \cup Streams /\ Len(table) <= MaxUnits /\ Unique(table)
        /\ Standard \subseteq open
    BY <2>1, <2>2 DEF WorldOK, Worlds
  <2>4. TypeOK
    BY <2>1, <2>3 DEF TypeOK, Unique
  <2>5. DOMAIN table = 1 .. Len(table) /\ \A i \in 1 .. Len(table) : table[i] \in ToSet(table)
    BY <2>3, LenProperties, SetOfTable
  <2>6. ASSUME ~exited PROVE Owned(Now) /\ NoLeak(Now)
    BY <2>2, <2>6 DEF Whole
  <2>7. ASSUME ~exited, NEW i \in DOMAIN table PROVE table[i].stream \in open
    BY <2>1, <2>5, <2>6, <2>7 DEF Owned
  <2>8. ASSUME ~exited, NEW s \in open \ Standard
        PROVE  Cardinality({i \in DOMAIN table : table[i].stream = s}) = 1
    <3>1. PICK e \in ToSet(table) : e.stream = s
      BY <2>1, <2>6, <2>8 DEF NoLeak
    <3>2. PICK i \in 1 .. Len(table) : e = table[i]
      BY <2>3, <3>1, SetOfTable
    <3>3. ASSUME NEW j \in DOMAIN table, table[j].stream = s PROVE j = i
      <4>1. table[j] = table[i]
        BY <2>1, <2>5, <2>6, <2>8, <3>1, <3>2, <3>3 DEF Owned
      <4> QED BY <2>3, <2>5, <3>2, <3>3, <4>1 DEF Unique
    <3>4. {j \in DOMAIN table : table[j].stream = s} = {i}
      BY <2>5, <3>1, <3>2, <3>3
    <3> QED BY <3>4, FS_Singleton
  <2> QED BY <2>3, <2>4, <2>7, <2>8 DEF StreamsAreOwned
<1>2. "lost" \notin Beyond
  OBVIOUS
<1> QED BY <1>1, <1>2, TableIsSound, PTL

HIDE TableAssumption
USE UnitAssumption

-----------------------------------------------------------------------------
(* Files that are cut into records                                         *)

\* The offsets of a cut are offsets of the file.
LEMMA CutFacts ==
  ASSUME NEW f \in Seq(Nat), NEW S, Cut(f, S)
  PROVE  0 \in S /\ Len(f) \in S /\ \A p \in S : p \in Nat /\ p <= Len(f)
<1>1. Len(f) \in Nat
  BY LenProperties
<1> QED BY <1>1 DEF Cut

\* An offset of a cut that is not the end has a record.
LEMMA RecordFacts ==
  ASSUME NEW f \in Seq(Nat), NEW S, Cut(f, S), NEW p \in S, p # Len(f)
  PROVE  /\ p \in Nat /\ p < Len(f) /\ f[p + 1] \in Nat
         /\ After(f, p) = p + f[p + 1] + 2
         /\ After(f, p) \in S /\ After(f, p) <= Len(f) /\ f[After(f, p)] = f[p + 1]
<1>1. Len(f) \in Nat /\ \A i \in 1 .. Len(f) : f[i] \in Nat
  BY LenProperties, ElementOfSeq
<1>2. p \in Nat /\ p < Len(f)
  BY <1>1, CutFacts
<1>3. f[p + 1] \in Nat
  BY <1>1, <1>2
<1>4. After(f, p) \in S /\ f[After(f, p)] = f[p + 1]
  BY DEF Cut
<1>5. After(f, p) <= Len(f)
  BY <1>4, CutFacts
<1> QED BY <1>2, <1>3, <1>4, <1>5 DEF After

\* What ENDFILE leaves.
LEMMA CutPrefix ==
  ASSUME NEW f \in Seq(Nat), NEW S, Cut(f, S), NEW q \in S
  PROVE  /\ SubSeq(f, 1, q) \in Seq(Nat) /\ Len(SubSeq(f, 1, q)) = q
         /\ Cut(SubSeq(f, 1, q), {r \in S : r <= q})
<1> DEFINE g == SubSeq(f, 1, q)
           T == {r \in S : r <= q}
<1>1. /\ Len(f) \in Nat /\ q \in Nat /\ q <= Len(f) /\ 0 \in S
      /\ \A p \in S : p \in Nat /\ p <= Len(f)
  BY LenProperties, CutFacts
<1>2. g \in Seq(Nat) /\ Len(g) = q /\ \A i \in 1 .. q : g[i] = f[i]
  BY <1>1
<1> HIDE DEF g
<1>3. ASSUME NEW p \in T, p # q
      PROVE  /\ p \in 0 .. q - 1 /\ p \in S /\ After(g, p) = After(f, p)
             /\ After(f, p) \in T /\ g[After(f, p)] = g[p + 1]
             /\ \A r \in T : p < r => After(f, p) <= r
  <2>1. p \in S /\ p \in Nat /\ p < q /\ p # Len(f)
    BY <1>1, <1>3
  <2>2. /\ f[p + 1] \in Nat /\ After(f, p) = p + f[p + 1] + 2
        /\ After(f, p) \in S /\ f[After(f, p)] = f[p + 1]
    BY <2>1, RecordFacts
  <2>3. \A r \in S : p < r => After(f, p) <= r
    BY <2>1 DEF Cut
  <2>4. After(f, p) <= q
    BY <2>1, <2>3
  <2>5. g[p + 1] = f[p + 1] /\ g[After(f, p)] = f[After(f, p)]
    <3>1. p + 1 \in 1 .. q /\ After(f, p) \in 1 .. q
      BY <1>1, <2>1, <2>2, <2>4
    <3> QED BY <1>2, <3>1
  <2> QED BY <1>1, <2>1, <2>2, <2>3, <2>4, <2>5 DEF After
<1>4. ASSUME NEW r \in T, r # 0 PROVE \E p \in T : p < r /\ After(g, p) = r
  <2>1. PICK p \in S : p < r /\ After(f, p) = r
    BY <1>4 DEF Cut
  <2>2. p \in T /\ p # q
    BY <1>1, <1>4, <2>1
  <2> QED BY <1>3, <2>1, <2>2
<1>5. T \subseteq 0 .. q /\ 0 \in T /\ q \in T
  <2>1. ASSUME NEW r \in T PROVE r \in 0 .. q
    <3>1. r \in S /\ r <= q
      OBVIOUS
    <3>2. r \in Nat
      BY <1>1, <3>1
    <3> QED BY <1>1, <3>1, <3>2
  <2>2. 0 \in T /\ q \in T
    BY <1>1
  <2> QED BY <2>1, <2>2
<1>6. Cut(g, T)
  <2> HIDE DEF T
  <2> QED BY <1>2, <1>3, <1>4, <1>5 DEF Cut
<1> QED BY <1>2, <1>6 DEF g

\* An empty file has one offset.
LEMMA CutOfNothing ==
  << >> \in Seq(Nat) /\ Len(<< >>) = 0 /\ Cut(<< >>, {0})
<1>1. << >> \in Seq(Nat) /\ Len(<< >>) = 0
  OBVIOUS
<1>2. 0 .. Len(<< >>) = {0} /\ {0} \ {Len(<< >>)} = {} /\ {0} \ {0} = {}
  BY <1>1
<1> QED BY <1>1, <1>2 DEF Cut

\* What WRITE appends.
Appended(g, data, h) == h = g \o <<Len(data)>> \o data \o <<Len(data)>>

LEMMA CutAppend ==
  ASSUME NEW g \in Seq(Nat), NEW T, Cut(g, T), NEW data \in Seq(Nat),
         NEW h, Appended(g, data, h)
  PROVE  /\ h \in Seq(Nat) /\ Len(h) = Len(g) + Len(data) + 2
         /\ Cut(h, T \cup {Len(h)})
<1> DEFINE n == Len(data)
           m == Len(g)
           U == T \cup {Len(h)}
<1>1. n \in Nat /\ m \in Nat
  BY LenProperties
<1>2. /\ h \in Seq(Nat) /\ Len(h) = m + n + 2
      /\ \A i \in 1 .. m : h[i] = g[i]
      /\ h[m + 1] = n /\ h[m + n + 2] = n
  BY <1>1 DEF Appended
<1> HIDE DEF n, m
<1>3. 0 \in T /\ m \in T /\ \A p \in T : p \in Nat /\ p <= m
  BY CutFacts DEF m
<1>4. ASSUME NEW p \in T, p # m
      PROVE  /\ p \in 0 .. m - 1 /\ After(h, p) = After(g, p) /\ After(g, p) \in T
             /\ h[After(g, p)] = h[p + 1]
             /\ \A q \in T : p < q => After(g, p) <= q
  <2>1. /\ p \in Nat /\ p < m /\ g[p + 1] \in Nat /\ After(g, p) = p + g[p + 1] + 2
        /\ After(g, p) \in T /\ After(g, p) <= m /\ g[After(g, p)] = g[p + 1]
    BY <1>4, RecordFacts DEF m
  <2>2. h[p + 1] = g[p + 1] /\ h[After(g, p)] = g[After(g, p)]
    <3>1. p + 1 \in 1 .. m /\ After(g, p) \in 1 .. m
      BY <1>1, <2>1
    <3> QED BY <1>2, <3>1
  <2>3. \A q \in T : p < q => After(g, p) <= q
    BY <1>4 DEF Cut, m
  <2>4. After(h, p) = After(g, p)
    BY <2>2 DEF After
  <2>5. p \in 0 .. m - 1
    BY <1>1, <2>1
  <2> QED BY <2>1, <2>2, <2>3, <2>4, <2>5
<1>5. After(h, m) = Len(h) /\ h[Len(h)] = h[m + 1]
  BY <1>1, <1>2 DEF After
<1>6. U \subseteq 0 .. Len(h) /\ 0 \in U /\ Len(h) \in U
  <2>1. ASSUME NEW p \in T PROVE p \in 0 .. Len(h)
    <3>1. p \in Nat /\ p <= m
      BY <1>3
    <3> QED BY <1>1, <1>2, <3>1
  <2>2. Len(h) \in 0 .. Len(h)
    BY <1>1, <1>2
  <2> QED BY <1>3, <2>1, <2>2
<1>7. ASSUME NEW p \in U, p # Len(h)
      PROVE  /\ After(h, p) \in U /\ h[After(h, p)] = h[p + 1]
             /\ \A q \in U : p < q => After(h, p) <= q
  <2>1. CASE p = m
    <3>1. ASSUME NEW q \in U, p < q PROVE q = Len(h)
      <4>1. CASE q \in T
        <5>1. q \in Nat /\ q <= m
          BY <1>3, <4>1
        <5> QED BY <1>1, <2>1, <3>1, <5>1
      <4> QED BY <4>1
    <3> QED BY <1>1, <1>2, <1>5, <2>1, <3>1
  <2>2. CASE p # m
    <3>1. p \in T
      BY <1>7
    <3>2. /\ After(h, p) \in T /\ h[After(h, p)] = h[p + 1]
          /\ \A q \in T : p < q => After(h, p) <= q
      BY <1>4, <2>2, <3>1
    <3>3. After(h, p) <= Len(h)
      <4>1. After(h, p) \in Nat /\ After(h, p) <= m
        BY <1>3, <3>2
      <4> QED BY <1>1, <1>2, <4>1
    <3> QED BY <3>2, <3>3
  <2> QED BY <2>1, <2>2
<1>8. ASSUME NEW q \in U, q # 0 PROVE \E p \in U : p < q /\ After(h, p) = q
  <2>1. CASE q = Len(h)
    BY <1>1, <1>2, <1>3, <1>5, <2>1
  <2>2. CASE q # Len(h)
    <3>1. q \in T
      BY <1>8, <2>2
    <3>2. PICK p \in T : p < q /\ After(g, p) = q
      BY <1>8, <3>1 DEF Cut
    <3>3. p # m
      BY <1>1, <1>3, <3>1, <3>2
    <3> QED BY <1>4, <3>2, <3>3
  <2> QED BY <2>1, <2>2
<1>9. Cut(h, U)
  <2> HIDE DEF U
  <2> QED BY <1>6, <1>7, <1>8 DEF Cut
<1> QED BY <1>2, <1>9 DEF n, m

-----------------------------------------------------------------------------
(* The calls of a READ that found the stream at offset p                   *)

\* There is a record at p.
RecordAt(p) ==
    /\ file \in Seq(Nat) /\ p \in Nat /\ p < Len(file) /\ file[p + 1] \in Nat
    /\ After(file, p) = p + file[p + 1] + 2 /\ After(file, p) <= Len(file)
    /\ file[After(file, p)] = file[p + 1]

\* The unit before the first call.
Before(s, p) ==
    /\ s \in Unit /\ s.pos = p /\ s.pending = 0 /\ s.recordLen = 0
    /\ s.iostat = 0 /\ s.items = << >> /\ (s.afterEndfile => p = Len(file))

\* The unit has begun the record at p and may have read a part of it.
Begun(s, p) ==
    /\ s \in Unit /\ s.recordLen = file[p + 1] /\ s.pos = p + 1 + Len(s.items)
    /\ Len(s.items) + s.pending = file[p + 1] /\ s.iostat = 0 /\ s.afterEndfile = FALSE

\* It has read the whole record and its trailing marker.
Passed(s, p) ==
    /\ s \in Unit /\ s.pending = 0 /\ s.recordLen = 0 /\ s.pos = After(file, p)
    /\ Len(s.items) = file[p + 1] /\ s.iostat = 0 /\ s.afterEndfile = FALSE

\* It has met the end of the file.
AtEnd(s, p) ==
    /\ s \in Unit /\ p = Len(file) /\ s.pos = p /\ s.pending = 0 /\ s.recordLen = 0
    /\ s.iostat = -1 /\ s.afterEndfile = TRUE

\* It has asked an empty record for more than it has.
Failed(s, p) == s \in Unit /\ p # Len(file) /\ file[p + 1] = 0 /\ s.iostat = 1

Between(s, p) ==
    \/ p # Len(file) /\ Begun(s, p) /\ s.pending # 0
    \/ p # Len(file) /\ Passed(s, p)
    \/ AtEnd(s, p)
    \/ Failed(s, p)

\* The unit before a call.
Ready(s, p) ==
    /\ file \in Seq(Nat) /\ p \in Nat /\ (p # Len(file) => RecordAt(p))
    /\ \/ Before(s, p)
       \/ p # Len(file) /\ Begun(s, p) /\ s.pending # 0
       \/ AtEnd(s, p)

MetEnd(u, c) == c = [u EXCEPT !.iostat = -1, !.afterEndfile = TRUE]

\* A READ that meets the end of the file.
LEMMA MetEndIsUnit ==
  ASSUME NEW u \in Unit, NEW c, MetEnd(u, c)
  PROVE  /\ c \in Unit /\ c.afterEndfile = TRUE
         /\ c.pos = u.pos /\ c.pending = u.pending /\ c.recordLen = u.recordLen /\ c.iostat = -1
<1>1. c \in Unit
  <2> DEFINE v == [u EXCEPT !.iostat = -1]
  <2>1. v \in Unit
    BY DEF Unit
  <2>2. c = [v EXCEPT !.afterEndfile = TRUE]
    BY DEF MetEnd, Unit
  <2> HIDE DEF v
  <2> QED BY <2>1, <2>2 DEF Unit
<1>2. c.afterEndfile = TRUE
  BY DEF MetEnd, Unit
<1>3. c.pos = u.pos /\ c.pending = u.pending /\ c.recordLen = u.recordLen /\ c.iostat = -1
  BY DEF MetEnd, Unit
<1> QED BY <1>1, <1>2, <1>3

\* seq_unf_state_reset()
LEMMA ResetIsUnit ==
  ASSUME NEW u \in Unit
  PROVE  /\ SeqUnfStateReset(u) \in Unit /\ SeqUnfStateReset(u).afterEndfile = FALSE
         /\ SeqUnfStateReset(u).pos = u.pos /\ SeqUnfStateReset(u).pending = 0
         /\ SeqUnfStateReset(u).recordLen = 0 /\ SeqUnfStateReset(u).iostat = u.iostat
         /\ SeqUnfStateReset(u).items = u.items
<1> DEFINE c == SeqUnfStateReset(u)
<1>1. c \in Unit
  BY DEF SeqUnfStateReset, Unit
<1>2. c.afterEndfile = FALSE
  BY DEF SeqUnfStateReset, Unit
<1>3. /\ c.pos = u.pos /\ c.pending = 0 /\ c.recordLen = 0 /\ c.iostat = u.iostat
      /\ c.items = u.items
  BY DEF SeqUnfStateReset, Unit
<1> QED BY <1>1, <1>2, <1>3

\* seq_unf_begin_record() begins the record at p, goes on with it or meets the end.
LEMMA BeginIsReady ==
  ASSUME NEW p, NEW s, Ready(s, p), NEW r, r = [s EXCEPT !.iostat = 0],
         NEW b, b = SeqUnfBeginRecord(r)
  PROVE  /\ p = Len(file) => AtEnd(b, p)
         /\ p # Len(file) => Begun(b, p) /\ b.items = s.items
<1>1. Len(file) \in Nat
  BY LenProperties DEF Ready
<1>2. CASE p = Len(file)
  <2>1. s \in Unit /\ s.pos = p /\ s.pending = 0 /\ s.recordLen = 0
    BY <1>2 DEF Ready, Before, AtEnd
  <2>2. r \in Unit /\ r.pos = p /\ r.pending = 0 /\ r.recordLen = 0
    <3>1. r \in Unit
      BY <2>1 DEF Unit
    <3>2. r.pos = s.pos /\ r.pending = s.pending /\ r.recordLen = s.recordLen
      BY <2>1 DEF Unit
    <3> QED BY <2>1, <3>1, <3>2
  <2>3. MetEnd(r, b)
    BY <1>1, <1>2, <2>2 DEF SeqUnfBeginRecord, MetEnd
  <2>4. AtEnd(b, p)
    BY <1>2, <2>2, <2>3, MetEndIsUnit DEF AtEnd
  <2> QED BY <1>2, <2>4
<1>3. CASE p # Len(file) /\ Before(s, p)
  <2>1. RecordAt(p)
    BY <1>3 DEF Ready
  <2> DEFINE n == file[p + 1]
  <2>2. n \in Nat /\ p \in Nat /\ p + 1 \in 0 .. Len(file) /\ ~(p >= Len(file)) /\ ~(n < 0)
    <3>1. n \in Nat /\ p \in Nat /\ p < Len(file)
      BY <2>1 DEF RecordAt
    <3> HIDE DEF n
    <3> QED BY <1>1, <3>1
  <2> HIDE DEF n
  <2>3. /\ s \in Unit /\ s.pos = p /\ s.pending = 0 /\ s.items = << >> /\ s.afterEndfile = FALSE
    BY <1>3 DEF Before, Unit
  <2>4. /\ r \in Unit /\ r.pos = p /\ r.pending = 0 /\ r.items = << >> /\ r.afterEndfile = FALSE
        /\ r.iostat = 0
    BY <2>3 DEF Unit
  <2>5. b = [r EXCEPT !.pos = p + 1, !.pending = n, !.recordLen = n]
    BY <2>2, <2>4 DEF SeqUnfBeginRecord, n
  <2>6. /\ b \in Unit /\ b.pos = p + 1 /\ b.pending = n /\ b.recordLen = n /\ b.items = << >>
        /\ b.afterEndfile = FALSE /\ b.iostat = 0
    BY <2>2, <2>4, <2>5 DEF Unit
  <2>7. Len(b.items) = 0
    BY <2>6
  <2>8. b.pos = p + 1 + Len(b.items) /\ Len(b.items) + b.pending = n
    BY <2>2, <2>6, <2>7
  <2>9. Begun(b, p)
    BY <2>6, <2>8 DEF Begun, n
  <2> QED BY <1>3, <2>3, <2>6, <2>9
<1>4. CASE p # Len(file) /\ Begun(s, p) /\ s.pending # 0
  <2>1. s \in Unit /\ s.iostat = 0
    BY <1>4 DEF Begun
  <2>2. r = s
    BY <2>1 DEF Unit
  <2>3. b = s
    BY <1>4, <2>2 DEF SeqUnfBeginRecord
  <2> QED BY <1>4, <2>3
<1>5. p = Len(file) \/ Before(s, p) \/ (p # Len(file) /\ Begun(s, p) /\ s.pending # 0)
  BY DEF Ready, AtEnd
<1> QED BY <1>2, <1>3, <1>4, <1>5

\* n words of the file from offset x on.
LEMMA PartOfFile ==
  ASSUME NEW f \in Seq(Nat), NEW x \in Nat, NEW n \in Nat, x + n <= Len(f)
  PROVE  SubSeq(f, x + 1, x + n) \in Seq(Nat) /\ Len(SubSeq(f, x + 1, x + n)) = n
<1> DEFINE size == Len(f)
           a == x + 1
           b == x + n
<1>1. size \in Nat
  BY LenProperties
<1>2. a \in Int /\ b \in Int /\ \A i \in a .. b : i \in 1 .. size
  <2> HIDE DEF size
  <2>1. b <= size
    BY DEF size
  <2> QED BY <1>1, <2>1
<1> HIDE DEF a, b
<1>3. SubSeq(f, a, b) \in Seq(Nat) /\ Len(SubSeq(f, a, b)) = IF a <= b THEN b - a + 1 ELSE 0
  BY <1>2, SubSeqProperties DEF size
<1>4. (IF a <= b THEN b - a + 1 ELSE 0) = n
  BY DEF a, b
<1> QED BY <1>3, <1>4 DEF a, b

\* Words taken from a record that has them.
LEMMA TakeIsBegun ==
  ASSUME NEW p, RecordAt(p), NEW b, Begun(b, p), NEW n \in Nat, n <= b.pending,
         NEW t, t = Take(b, n)
  PROVE  Begun(t, p) /\ t.pending = b.pending - n /\ b.pos + n <= Len(file)
<1> DEFINE m == file[p + 1]
           x == b.pos
           k == b.pending
           l == Len(b.items)
           size == Len(file)
           part == SubSeq(file, x + 1, x + n)
           items == b.items \o part
<1>1. size \in Nat /\ file \in Seq(Nat) /\ p \in Nat /\ m \in Nat
  BY LenProperties DEF RecordAt
<1>2. b \in Unit /\ b.items \in Seq(Nat) /\ x \in 0 .. size /\ k \in Nat
  BY DEF Begun, Unit
<1>3. l \in Nat
  BY <1>2, LenProperties
<1>4. x = p + 1 + l /\ l + k = m /\ b.recordLen = m /\ b.iostat = 0 /\ b.afterEndfile = FALSE
  BY DEF Begun
<1>5. p + m + 2 <= size
  BY DEF RecordAt
<1>6. n <= k
  OBVIOUS
<1>7. t = [b EXCEPT !.pos = x + n, !.pending = k - n, !.items = items]
  BY <1>2 DEF Take, Unit
<1> HIDE DEF m, x, k, l, items, part
<1>8. x + n \in 0 .. size /\ k - n \in Nat /\ x + n <= size
  <2> HIDE DEF size
  <2> QED BY <1>1, <1>2, <1>3, <1>4, <1>5, <1>6
<1>9. part \in Seq(Nat) /\ Len(part) = n
  <2>1. x \in Nat
    BY <1>1, <1>2
  <2> QED BY <1>1, <1>8, <2>1, PartOfFile DEF part
<1>10. items \in Seq(Nat) /\ Len(items) = l + n
  BY <1>2, <1>9, ConcatProperties DEF items, l
<1>11. /\ t \in Unit /\ t.pos = x + n /\ t.pending = k - n /\ t.items = items
       /\ t.recordLen = m /\ t.iostat = 0 /\ t.afterEndfile = FALSE
  BY <1>2, <1>4, <1>7, <1>8, <1>10 DEF Unit
<1>12. l + n + (k - n) = m /\ x + n = p + 1 + (l + n)
  BY <1>1, <1>2, <1>3, <1>4
<1>13. Len(t.items) + t.pending = m /\ t.pos = p + 1 + Len(t.items)
  BY <1>10, <1>11, <1>12
<1>14. Begun(t, p)
  BY <1>11, <1>13 DEF Begun, m
<1> QED BY <1>8, <1>11, <1>14 DEF x, k

\* The unit before the trailing marker of the record at p.
HasRead(t, p) ==
    /\ t \in Unit /\ t.recordLen = file[p + 1] /\ t.pos = p + 1 + file[p + 1] /\ t.iostat = 0

\* And after it.
HasPassed(c, t, p) ==
    /\ c \in Unit /\ c.pos = After(file, p) /\ c.pending = 0 /\ c.recordLen = 0
    /\ c.items = t.items /\ c.iostat = 0 /\ c.afterEndfile = FALSE

\* The word after the data is the record's trailing marker.
LEMMA MarkerIsPassed ==
  ASSUME NEW p, RecordAt(p), NEW t, HasRead(t, p), NEW e
  PROVE  HasPassed(TrailingMarker(t, e), t, p)
<1> DEFINE c == TrailingMarker(t, e)
           x == t.pos
           m == file[p + 1]
           size == Len(file)
           q == After(file, p)
<1>1. size \in Nat /\ p \in Nat /\ m \in Nat /\ q = p + m + 2 /\ q <= size /\ file[q] = m
  BY LenProperties DEF RecordAt
<1>2. x = p + 1 + m /\ t.recordLen = m /\ t \in Unit /\ t.iostat = 0
  BY DEF HasRead
<1> HIDE DEF x, m, size, q
<1>3. x + 1 = q /\ ~(x >= size) /\ q \in 0 .. size
  BY <1>1, <1>2
<1>4. c = SeqUnfStateReset([t EXCEPT !.pos = q])
  BY <1>1, <1>2, <1>3 DEF TrailingMarker, Unit, x, size
<1> DEFINE u == [t EXCEPT !.pos = q]
<1>5. u \in Unit /\ u.pos = q /\ u.items = t.items /\ u.iostat = 0
  BY <1>2, <1>3 DEF Unit, size
<1>6. c = SeqUnfStateReset(u)
  BY <1>4
<1> HIDE DEF u
<1> HIDE DEF c
<1> QED BY <1>5, <1>6, ResetIsUnit DEF q, HasPassed, c

\* n words are left of the record, if there is one.
Room(s, p, n) == p # Len(file) => Len(s.items) + n <= file[p + 1]

\* The unit after n words.
LEMMA TakeIsBetween ==
  ASSUME NEW p, RecordAt(p), p # Len(file), NEW b, Begun(b, p), NEW n \in Nat, n > 0, n <= b.pending,
         NEW e
  PROVE  /\ Take(b, n).pending # 0 => Between(Take(b, n), p)
         /\ Take(b, n).pending = 0 =>
                Take(b, n).recordLen > 0 /\ Between(TrailingMarker(Take(b, n), e), p)
<1> DEFINE t == Take(b, n)
           m == file[p + 1]
           l == Len(t.items)
           k == t.pending
<1>1. Begun(t, p) /\ k = b.pending - n
  BY TakeIsBegun
<1>2. m \in Nat /\ p \in Nat /\ l \in Nat /\ k \in Nat /\ b.pending \in Nat
  BY <1>1, LenProperties DEF RecordAt, Begun, Unit
<1>6. b.pending <= m
  <2> DEFINE x == Len(b.items)
  <2>1. x \in Nat /\ x + b.pending = m
    BY LenProperties DEF Begun, Unit
  <2> HIDE DEF x, m
  <2> QED BY <1>2, <2>1
<1>3. t \in Unit /\ t.recordLen = m /\ t.pos = p + 1 + l /\ l + k = m /\ t.iostat = 0
  BY <1>1 DEF Begun
<1> HIDE DEF t, m, l, k
<1>4. CASE k # 0
  BY <1>1, <1>4 DEF Between, k, t
<1>5. CASE k = 0
  <2>1. m > 0 /\ l = m /\ t.pos = p + 1 + m
    BY <1>1, <1>2, <1>3, <1>5, <1>6
  <2> DEFINE c == TrailingMarker(t, e)
  <2>2. /\ c \in Unit /\ c.pos = After(file, p) /\ c.pending = 0 /\ c.recordLen = 0
        /\ c.items = t.items /\ c.iostat = 0 /\ c.afterEndfile = FALSE
    <3>1. HasRead(t, p)
      BY <1>3, <2>1 DEF HasRead, m
    <3>2. HasPassed(c, t, p)
      BY <3>1, MarkerIsPassed
    <3> HIDE DEF c
    <3> QED BY <3>2 DEF HasPassed
  <2> HIDE DEF c
  <2>3. Len(c.items) = file[p + 1]
    BY <2>1, <2>2 DEF l, m
  <2>4. Passed(c, p)
    BY <2>2, <2>3 DEF Passed
  <2>5. Between(c, p)
    BY <2>4 DEF Between
  <2> QED BY <1>3, <1>5, <2>1, <2>5 DEF k, t, c
<1> QED BY <1>4, <1>5 DEF k, t

\* What the record has is pending.
LEMMA RoomIsLeft ==
  ASSUME NEW p, RecordAt(p), NEW b, Begun(b, p), NEW n \in Nat, Len(b.items) + n <= file[p + 1]
  PROVE  n <= b.pending /\ b.pos + n <= Len(file)
<1> DEFINE m == file[p + 1]
           l == Len(b.items)
           k == b.pending
<1>1. m \in Nat /\ l \in Nat /\ k \in Nat /\ l + k = m
  BY LenProperties DEF RecordAt, Begun, Unit
<1>2. n <= k
  <2> HIDE DEF m, l, k
  <2>1. l + n <= m
    BY DEF l, m
  <2> QED BY <1>1, <2>1
<1>3. b.pos + n <= Len(file)
  BY <1>2, TakeIsBegun
<1> QED BY <1>2, <1>3

\* _lfortran_read_array_int32()
LEMMA ArrayIsBetween ==
  ASSUME NEW p, NEW s, Ready(s, p), NEW n \in Nat, n > 0,
         Room(s, p, n) \/ file[p + 1] = 0, NEW c, c = ReadArrayInt32(s, n)
  PROVE  Between(c, p)
<1> DEFINE r == [s EXCEPT !.iostat = 0]
           b == SeqUnfBeginRecord(r)
<1>1. /\ p = Len(file) => AtEnd(b, p)
      /\ p # Len(file) => Begun(b, p) /\ b.items = s.items
  BY BeginIsReady
<1>2. c = IF b.iostat # 0 THEN b
          ELSE IF b.pending < n THEN [b EXCEPT !.iostat = 1]
          ELSE IF b.pos + n > Len(file) THEN [b EXCEPT !.pos = Len(file), !.iostat = -1]
          ELSE SeqUnfFinishRecord(Take(b, n))
  BY DEF ReadArrayInt32
<1> HIDE DEF r, b
<1>3. CASE p = Len(file)
  <2>1. c = b
    BY <1>1, <1>2, <1>3 DEF AtEnd
  <2> QED BY <1>1, <1>3, <2>1 DEF Between
<1>4. CASE p # Len(file)
  <2>1. Begun(b, p) /\ RecordAt(p) /\ b.iostat = 0 /\ b \in Unit /\ b.items = s.items
    BY <1>1, <1>4 DEF Ready, Begun
  <2>2. b.pending \in Nat /\ b.pos \in Nat /\ Len(file) \in Nat
    BY <2>1, LenProperties DEF RecordAt, Unit
  <2>3. CASE n <= b.pending
    <3>1. b.pos + n <= Len(file)
      BY <2>1, <2>3, TakeIsBegun
    <3>2. c = SeqUnfFinishRecord(Take(b, n))
      BY <1>2, <2>1, <2>2, <2>3, <3>1
    <3>3. /\ Take(b, n).pending # 0 => Between(Take(b, n), p)
          /\ Take(b, n).pending = 0 =>
                 Take(b, n).recordLen > 0 /\ Between(TrailingMarker(Take(b, n), 1), p)
      BY <1>4, <2>1, <2>3, TakeIsBetween
    <3> QED BY <3>2, <3>3 DEF SeqUnfFinishRecord
  <2>4. CASE ~(n <= b.pending)
    <3>1. ~(Len(b.items) + n <= file[p + 1])
      BY <2>1, <2>4, RoomIsLeft
    <3>2. file[p + 1] = 0
      BY <1>4, <2>1, <3>1 DEF Room
    <3>3. c = [b EXCEPT !.iostat = 1]
      BY <1>2, <2>1, <2>2, <2>4
    <3>4. c \in Unit /\ c.iostat = 1
      BY <2>1, <3>3 DEF Unit
    <3> QED BY <1>4, <3>2, <3>4 DEF Between, Failed
  <2> QED BY <2>3, <2>4
<1> QED BY <1>3, <1>4

\* _lfortran_read_char()
LEMMA CharIsBetween ==
  ASSUME NEW p, NEW s, Ready(s, p), NEW n \in Nat, n > 0, Room(s, p, n), NEW c, c = ReadChar(s, n)
  PROVE  Between(c, p)
<1> DEFINE r == [s EXCEPT !.iostat = 0]
           b == SeqUnfBeginRecord(r)
           length == IF b.pending > n THEN n ELSE b.pending
           t == Take(b, length)
<1>1. /\ p = Len(file) => AtEnd(b, p)
      /\ p # Len(file) => Begun(b, p) /\ b.items = s.items
  BY BeginIsReady
<1>2. c = IF b.iostat # 0 THEN b
          ELSE IF b.pos + length > Len(file) THEN [b EXCEPT !.pos = Len(file), !.iostat = -1]
          ELSE IF t.pending = 0 THEN TrailingMarker(t, -1) ELSE t
  BY DEF ReadChar
<1> HIDE DEF r, b
<1>3. CASE p = Len(file)
  <2>1. c = b
    BY <1>1, <1>2, <1>3 DEF AtEnd
  <2> QED BY <1>1, <1>3, <2>1 DEF Between
<1>4. CASE p # Len(file)
  <2>1. Begun(b, p) /\ RecordAt(p) /\ b.iostat = 0 /\ b \in Unit /\ b.items = s.items
    BY <1>1, <1>4 DEF Ready, Begun
  <2>2. b.pending \in Nat /\ b.pos \in Nat /\ Len(file) \in Nat
    BY <2>1, LenProperties DEF RecordAt, Unit
  <2>3. n <= b.pending /\ b.pos + n <= Len(file)
    BY <1>4, <2>1, RoomIsLeft DEF Room
  <2>4. length = n
    BY <2>2, <2>3
  <2> HIDE DEF length
  <2>5. /\ Take(b, n).pending # 0 => Between(Take(b, n), p)
        /\ Take(b, n).pending = 0 => Between(TrailingMarker(Take(b, n), -1), p)
    BY <1>4, <2>1, <2>3, TakeIsBetween
  <2>6. c = IF Take(b, n).pending = 0 THEN TrailingMarker(Take(b, n), -1) ELSE Take(b, n)
    BY <1>2, <2>1, <2>2, <2>3, <2>4
  <2> QED BY <2>5, <2>6
<1> QED BY <1>3, <1>4

\* A READ that asks for no more than the record has, or finds it empty.
Asks(s, p, item) ==
    /\ Ready(s, p) /\ item \in Items /\ "empty item" \notin Uses
    /\ Room(s, p, item[2]) \/ (file[p + 1] = 0 /\ item[1] # "char")

\* The call for an item.
LEMMA ItemIsBetween ==
  ASSUME NEW p, NEW s, NEW item, Asks(s, p, item)
  PROVE  Between(ReadItem(s, item), p)
<1>1. \/ item = <<"int", 1>>
      \/ \E n \in 1 .. MaxItems : item = <<"array", n>> \/ item = <<"char", n>>
  <2>1. item = <<"int", 1>> \/ item \in {"array", "char"} \X (1 .. MaxItems)
    <3>1. Uses \cap {"empty item"} = {}
      BY DEF Asks
    <3> QED BY <3>1 DEF Asks, Items
  <2> QED BY <2>1
<1>2. CASE item = <<"int", 1>>
  <2>1. ReadItem(s, item) = ReadArrayInt32(s, 1) /\ item[2] = 1
    BY <1>2 DEF ReadItem, ReadInt32
  <2>2. Ready(s, p) /\ (Room(s, p, 1) \/ file[p + 1] = 0)
    BY <2>1 DEF Asks
  <2>3. PICK n \in Nat : n = 1 /\ n > 0
    OBVIOUS
  <2>4. ReadItem(s, item) = ReadArrayInt32(s, n) /\ (Room(s, p, n) \/ file[p + 1] = 0)
    BY <2>1, <2>2, <2>3
  <2> QED BY <2>2, <2>3, <2>4, ArrayIsBetween
<1>3. ASSUME NEW n \in 1 .. MaxItems, item = <<"array", n>>
      PROVE  Between(ReadItem(s, item), p)
  <2>1. ReadItem(s, item) = ReadArrayInt32(s, n) /\ item[2] = n /\ n \in Nat /\ n > 0
    BY <1>3 DEF ReadItem
  <2> QED BY <2>1, ArrayIsBetween DEF Asks
<1>4. ASSUME NEW n \in 1 .. MaxItems, item = <<"char", n>>
      PROVE  Between(ReadItem(s, item), p)
  <2>1. ReadItem(s, item) = ReadChar(s, n) /\ item[2] = n /\ n \in Nat /\ n > 0 /\ item[1] = "char"
    BY <1>4 DEF ReadItem
  <2> QED BY <2>1, CharIsBetween DEF Asks
<1> QED BY <1>1, <1>2, <1>3, <1>4

\* The unit after the last call: past the record, or at the end of the file.
Over(c, p) ==
    \/ /\ p # Len(file) /\ c \in Unit /\ c.pos = After(file, p) /\ c.pending = 0
       /\ c.recordLen = 0 /\ c.iostat = 0 /\ c.afterEndfile = FALSE
    \/ AtEnd(c, p)

\* The rest of a record is skipped.
LEMMA SkipIsOver ==
  ASSUME NEW p, RecordAt(p), p # Len(file), NEW b, Begun(b, p), NEW e
  PROVE  /\ b.pending > 0 => Over(TrailingMarker([b EXCEPT !.pos = @ + b.pending], e), p)
         /\ b.pending = 0 => Over(TrailingMarker(b, e), p)
<1> DEFINE m == file[p + 1]
           l == Len(b.items)
           k == b.pending
           v == [b EXCEPT !.pos = @ + b.pending]
<1>1. m \in Nat /\ l \in Nat /\ k \in Nat /\ p \in Nat /\ Len(file) \in Nat
  BY LenProperties DEF RecordAt, Begun, Unit
<1>2. b \in Unit /\ b.recordLen = m /\ b.pos = p + 1 + l /\ l + k = m /\ b.iostat = 0
  BY DEF Begun
<1>3. p + m + 2 <= Len(file)
  BY DEF RecordAt
<1>4. v = [b EXCEPT !.pos = p + 1 + l + k]
  BY <1>2 DEF Unit
<1> HIDE DEF m, l, k, v
<1>5. p + 1 + l + k = p + 1 + m /\ p + 1 + m \in 0 .. Len(file)
  BY <1>1, <1>2, <1>3
<1>6. v \in Unit /\ v.pos = p + 1 + m /\ v.recordLen = m /\ v.iostat = 0
  BY <1>2, <1>4, <1>5 DEF Unit
<1>7. ASSUME NEW t, HasRead(t, p) PROVE Over(TrailingMarker(t, e), p)
  <2>1. HasPassed(TrailingMarker(t, e), t, p)
    BY <1>7, MarkerIsPassed
  <2> QED BY <2>1 DEF HasPassed, Over
<1>8. HasRead(v, p)
  BY <1>6 DEF HasRead, m
<1>9. ASSUME k = 0 PROVE HasRead(b, p)
  <2>1. b.pos = p + 1 + m
    BY <1>1, <1>2, <1>9
  <2> QED BY <1>2, <2>1 DEF HasRead, m
<1> QED BY <1>7, <1>8, <1>9 DEF v, k

\* _lfortran_empty_read() of a READ without items.
LEMMA EmptyIsOver ==
  ASSUME NEW p, NEW s, Ready(s, p), Before(s, p)
  PROVE  Over(EmptyRead(s, TRUE), p)
<1> DEFINE b == SeqUnfBeginRecord(s)
           c == EmptyRead(s, TRUE)
<1>1. s = [s EXCEPT !.iostat = 0]
  BY DEF Before, Unit
<1>2. /\ p = Len(file) => AtEnd(b, p)
      /\ p # Len(file) => Begun(b, p) /\ b.items = s.items
  BY <1>1, BeginIsReady
<1>3. c = IF b.iostat # 0 THEN b
          ELSE IF b.pending > 0 THEN TrailingMarker([b EXCEPT !.pos = @ + b.pending], -1)
          ELSE IF b.recordLen = 0 THEN TrailingMarker(b, -1) ELSE b
  BY DEF EmptyRead
<1> HIDE DEF b, c
<1>4. CASE p = Len(file)
  <2>1. c = b
    BY <1>2, <1>3, <1>4 DEF AtEnd
  <2> QED BY <1>2, <1>4, <2>1 DEF Over, c
<1>5. CASE p # Len(file)
  <2>1. Begun(b, p) /\ b.items = << >> /\ RecordAt(p)
    BY <1>2, <1>5 DEF Ready, Before
  <2>2. /\ b.iostat = 0 /\ b.pending \in Nat /\ b.recordLen = b.pending
    <3> DEFINE m == file[p + 1]
               k == b.pending
               l == Len(b.items)
    <3>1. l = 0 /\ m \in Nat
      BY <2>1 DEF RecordAt
    <3>2. b.iostat = 0 /\ b.recordLen = m /\ l + k = m
      BY <2>1 DEF Begun
    <3>3. k \in Nat
      BY <2>1 DEF Begun, Unit
    <3> HIDE DEF m, k, l
    <3>4. k = m
      BY <3>1, <3>2, <3>3
    <3> QED BY <3>2, <3>3, <3>4 DEF k
  <2>3. CASE b.pending > 0
    BY <1>3, <1>5, <2>1, <2>2, <2>3, SkipIsOver DEF c
  <2>4. CASE b.pending = 0
    BY <1>3, <1>5, <2>1, <2>2, <2>4, SkipIsOver DEF c
  <2>5. b.pending > 0 \/ b.pending = 0
    BY <2>2
  <2> QED BY <2>3, <2>4, <2>5
<1> QED BY <1>4, <1>5

\* And of one with items.
LEMMA RestIsOver ==
  ASSUME NEW p, NEW s, Between(s, p), s.iostat = 0, p # Len(file) => RecordAt(p)
  PROVE  Over(EmptyRead(s, FALSE), p)
<1> DEFINE c == EmptyRead(s, FALSE)
<1>1. c = IF s.pending > 0 THEN TrailingMarker([s EXCEPT !.pos = @ + s.pending], -1) ELSE s
  BY DEF EmptyRead
<1> HIDE DEF c
<1>2. p # Len(file) /\ RecordAt(p) /\ ((Begun(s, p) /\ s.pending # 0) \/ Passed(s, p))
  BY DEF Between, AtEnd, Failed
<1>3. CASE Begun(s, p) /\ s.pending # 0
  <2>1. s.pending > 0
    BY <1>3 DEF Begun, Unit
  <2> QED BY <1>1, <1>2, <1>3, <2>1, SkipIsOver DEF c
<1>4. CASE Passed(s, p)
  <2>1. c = s
    BY <1>1, <1>4 DEF Passed
  <2> QED BY <1>2, <1>4, <2>1 DEF Passed, Over, c
<1> QED BY <1>2, <1>3, <1>4

-----------------------------------------------------------------------------
(* The unit between two statements                                         *)

\* The type of the unit of a file of n words.
UnitUpTo(n) ==
    [pos : 0 .. n, pending : Nat, recordLen : Nat, afterEndfile : BOOLEAN,
     iostat : -1 .. 1, items : Seq(Nat)]

\* store_unit_file()
LEMMA StoredEntry ==
  ASSUME NEW n \in Nat, NEW p \in 0 .. n
  PROVE  /\ StoreEntry(p) \in UnitUpTo(n) /\ StoreEntry(p).afterEndfile = FALSE
         /\ StoreEntry(p).pos = p /\ StoreEntry(p).pending = 0 /\ StoreEntry(p).recordLen = 0
         /\ StoreEntry(p).iostat = 0 /\ StoreEntry(p).items = << >>
<1> DEFINE e == [pos |-> p, pending |-> 0, recordLen |-> 0, afterEndfile |-> FALSE,
                 iostat |-> 0, items |-> << >>]
           c == SeqUnfStateReset(e)
<1>1. e \in UnitUpTo(n)
  <2>1. PICK i \in Seq(Nat) : i = << >>
    BY CutOfNothing, Zenon
  <2>2. PICK b \in BOOLEAN : b = FALSE
    OBVIOUS
  <2>3. [pos |-> p, pending |-> 0, recordLen |-> 0, afterEndfile |-> b,
         iostat |-> 0, items |-> i] \in UnitUpTo(n)
    BY DEF UnitUpTo
  <2> QED BY <2>1, <2>2, <2>3, Zenon
<1>2. e.pos = p /\ e.iostat = 0 /\ e.items = << >>
  OBVIOUS
<1> HIDE DEF e
<1>3. c \in UnitUpTo(n)
  BY <1>1 DEF SeqUnfStateReset, UnitUpTo
<1>4. c.afterEndfile = FALSE
  BY <1>1 DEF SeqUnfStateReset, UnitUpTo
<1>5. c.pos = p /\ c.pending = 0 /\ c.recordLen = 0 /\ c.iostat = 0 /\ c.items = << >>
  BY <1>1, <1>2 DEF SeqUnfStateReset, UnitUpTo
<1>6. StoreEntry(p) = c
  BY DEF StoreEntry, c, e
<1> HIDE DEF c
<1> QED BY <1>3, <1>4, <1>5, <1>6

\* What a statement leaves of the unit.
Fin(s) == [s EXCEPT !.iostat = 0, !.items = << >>]

\* IOSTAT and the items are the statement's, the rest stays.
LEMMA FinIsUnit ==
  ASSUME NEW n, NEW s \in UnitUpTo(n)
  PROVE  /\ Fin(s) \in UnitUpTo(n) /\ Fin(s).afterEndfile = s.afterEndfile
         /\ Fin(s).pos = s.pos /\ Fin(s).pending = s.pending
         /\ Fin(s).recordLen = s.recordLen /\ Fin(s).iostat = 0 /\ Fin(s).items = << >>
<1> DEFINE v == [s EXCEPT !.iostat = 0]
           e == Fin(s)
<1>1. v \in UnitUpTo(n) /\ v.iostat = 0
  BY DEF UnitUpTo
<1>2. e = [v EXCEPT !.items = << >>]
  BY DEF Fin, UnitUpTo
<1>3. PICK i \in Seq(Nat) : i = << >>
  BY CutOfNothing, Zenon
<1>4. e = [v EXCEPT !.items = i]
  BY <1>2, <1>3
<1> HIDE DEF e, v
<1>5. e \in UnitUpTo(n)
  BY <1>1, <1>4 DEF UnitUpTo
<1>6. e.afterEndfile = s.afterEndfile
  BY DEF Fin, UnitUpTo, e
<1>7. /\ e.pos = s.pos /\ e.pending = s.pending /\ e.recordLen = s.recordLen
      /\ e.iostat = 0 /\ e.items = << >>
  BY DEF Fin, UnitUpTo, e
<1> QED BY <1>5, <1>6, <1>7 DEF e

\* The record before offset q, over which BACKSPACE goes.
LEMMA CutBefore ==
  ASSUME NEW f \in Seq(Nat), NEW S, Cut(f, S), NEW q \in S, q # 0
  PROVE  /\ q \in Nat /\ q >= 2 /\ f[q] \in 0 .. q - 2 /\ q - 2 - f[q] \in S
<1>1. PICK p \in S : p < q /\ After(f, p) = q
  BY DEF Cut
<1>2. p \in Nat /\ q \in Nat /\ q <= Len(f) /\ Len(f) \in Nat
  BY CutFacts, LenProperties
<1>3. p # Len(f)
  BY <1>1, <1>2
<1> DEFINE n == f[p + 1]
<1>4. n \in Nat /\ q = p + n + 2 /\ f[q] = n
  BY <1>1, <1>3, RecordFacts
<1> HIDE DEF n
<1>5. q - 2 - n = p /\ n \in 0 .. q - 2 /\ q >= 2
  BY <1>2, <1>4
<1> QED BY <1>1, <1>2, <1>4, <1>5

\* What a statement leaves of a file and its unit.
Good(f, T, s) ==
    /\ f \in Seq(Nat) /\ Cut(f, T) /\ s \in UnitUpTo(Len(f))
    /\ s.iostat <= 0 =>
           /\ s.pos \in T /\ s.pending = 0 /\ s.recordLen = 0
           /\ s.afterEndfile => s.pos = Len(f)

\* The inductive invariant: the file is cut into records; between two
\* statements the stream is between two of them, and within a READ the unit
\* is in one of the cases of Between.
RecordsInv ==
    /\ UnfTypeOK
    /\ ~connected => Idle /\ unit.pos = 0
    /\ Idle => read = NoRead /\ unit.iostat = 0 /\ unit.items = << >>
    /\ \E S : /\ Cut(file, S)
              /\ Idle /\ Determinate =>
                     /\ unit.pos \in S /\ unit.pending = 0 /\ unit.recordLen = 0
                     /\ unit.afterEndfile => unit.pos = Len(file)
              /\ ~Idle => read.unit.pos \in S /\ Between(unit, read.unit.pos)

\* A statement that leaves a good unit keeps the invariant.
LEMMA Settles ==
  ASSUME NEW name, NEW s, NEW T, Good(file', T, s), Finish(name, s), read' = NoRead,
         connected' \in BOOLEAN, connected' \/ s.pos = 0
  PROVE  RecordsInv'
<1> DEFINE f == file'
           u == unit'
<1>1. f \in Seq(Nat) /\ Cut(f, T) /\ s \in UnitUpTo(Len(f)) /\ Len(f) \in Nat
  BY LenProperties DEF Good
<1>2. u = Fin(s)
  BY DEF Finish, Fin
<1>3. outcome'.iostat = s.iostat
  BY DEF Finish
<1>4. /\ u \in UnitUpTo(Len(f)) /\ u.afterEndfile = s.afterEndfile
      /\ u.pos = s.pos /\ u.pending = s.pending
      /\ u.recordLen = s.recordLen /\ u.iostat = 0 /\ u.items = << >>
  BY <1>1, <1>2, FinIsUnit
<1>5. StoreEntry(0) \in UnitUpTo(Len(f))
  <2>1. 0 \in 0 .. Len(f)
    BY <1>1
  <2> HIDE DEF f
  <2> QED BY <1>1, <2>1, StoredEntry
<1>6. Idle'
  BY DEF Idle, NoRead
<1>7. UnfTypeOK'
  <2>1. u \in Unit'
    BY <1>4 DEF Unit, UnitUpTo
  <2>2. NoRead \in [calls : 0 .. MaxItems, unit : Unit', connected : BOOLEAN]
    <3>1. StoreEntry(0) \in Unit'
      BY <1>5 DEF Unit, UnitUpTo
    <3> QED BY <3>1 DEF NoRead
  <2>3. outcome'.iostat \in -1 .. 1
    BY <1>1, <1>3 DEF UnitUpTo
  <2> QED BY <1>1, <2>1, <2>2, <2>3 DEF UnfTypeOK
<1>8. Determinate' =>
          /\ u.pos \in T /\ u.pending = 0 /\ u.recordLen = 0
          /\ u.afterEndfile => u.pos = Len(f)
  <2>1. Determinate' => s.iostat <= 0
    BY <1>3 DEF Determinate
  <2> QED BY <1>4, <2>1 DEF Good
<1> QED BY <1>1, <1>2, <1>4, <1>6, <1>7, <1>8 DEF RecordsInv

-----------------------------------------------------------------------------
(* The statements but READ                                                 *)

\* What the invariant says between two statements.
LEMMA Rest ==
  ASSUME RecordsInv, Idle
  PROVE  /\ file \in Seq(Nat) /\ Len(file) \in Nat /\ unit \in UnitUpTo(Len(file))
         /\ read = NoRead /\ connected \in BOOLEAN /\ unit.iostat = 0 /\ unit.items = << >>
         /\ ~connected => unit.pos = 0
         /\ \E S : Cut(file, S) /\ (Determinate => Good(file, S, unit))
<1>1. /\ file \in Seq(Nat) /\ unit \in Unit /\ connected \in BOOLEAN
      /\ read = NoRead /\ unit.iostat = 0 /\ unit.items = << >>
      /\ ~connected => unit.pos = 0
  BY DEF RecordsInv, UnfTypeOK
<1>2. unit \in UnitUpTo(Len(file))
  BY <1>1 DEF Unit, UnitUpTo
<1>3. PICK S : /\ Cut(file, S)
               /\ Determinate => /\ unit.pos \in S /\ unit.pending = 0 /\ unit.recordLen = 0
                                 /\ unit.afterEndfile => unit.pos = Len(file)
  BY DEF RecordsInv
<1>4. ASSUME Determinate PROVE Good(file, S, unit)
  <2>1. /\ unit.pos \in S /\ unit.pending = 0 /\ unit.recordLen = 0
        /\ unit.afterEndfile => unit.pos = Len(file)
    BY <1>3, <1>4
  <2> QED BY <1>1, <1>2, <1>3, <2>1, Zenon DEF Good
<1> QED BY <1>1, <1>2, <1>3, <1>4, LenProperties

\* A new entry at an offset of the cut.
LEMMA EntryIsGood ==
  ASSUME NEW f \in Seq(Nat), NEW T, Cut(f, T), NEW p \in T
  PROVE  Good(f, T, StoreEntry(p))
<1>1. Len(f) \in Nat /\ p \in Nat /\ p <= Len(f)
  BY CutFacts, LenProperties
<1>2. p \in 0 .. Len(f)
  BY <1>1
<1> QED BY <1>1, <1>2, StoredEntry DEF Good

\* OPEN
LEMMA OpenKeeps ==
  ASSUME RecordsInv, Idle, NEW append, NEW replace, Open(append, replace), read' = read
  PROVE  RecordsInv'
<1> DEFINE p == IF append THEN Len(file') ELSE 0
<1>1. read' = NoRead /\ connected' = TRUE /\ Finish("open", StoreEntry(p))
  BY Rest DEF Open
<1>2. \E T : file' \in Seq(Nat) /\ Cut(file', T)
  <2>1. CASE replace
    BY <2>1, CutOfNothing DEF Open
  <2>2. CASE ~replace
    BY <2>2, Rest DEF Open
  <2> QED BY <2>1, <2>2
<1>3. PICK T : file' \in Seq(Nat) /\ Cut(file', T)
  BY <1>2
<1>4. p \in T
  BY <1>3, CutFacts
<1> HIDE DEF p
<1>5. Good(file', T, StoreEntry(p))
  BY <1>3, <1>4, EntryIsGood
<1> QED BY <1>1, <1>5, Settles

\* OPEN of the connected unit
LEMMA ReopenKeeps ==
  ASSUME RecordsInv, Idle, Reopen, read' = read
  PROVE  RecordsInv'
<1>1. /\ read' = NoRead /\ connected' = TRUE /\ Finish("open", StoreEntry(unit.pos))
      /\ file' = file /\ Determinate
  BY Rest DEF Reopen
<1>2. PICK S : Cut(file, S) /\ Good(file, S, unit)
  BY <1>1, Rest
<1>3. unit.pos \in S /\ file \in Seq(Nat)
  BY <1>2, Rest DEF Good
<1>4. Good(file', S, StoreEntry(unit.pos))
  BY <1>1, <1>2, <1>3, EntryIsGood
<1> QED BY <1>1, <1>4, Settles

\* CLOSE
LEMMA CloseKeeps ==
  ASSUME RecordsInv, Idle, CloseUnit, read' = read
  PROVE  RecordsInv'
<1>1. /\ read' = NoRead /\ connected' \in BOOLEAN /\ Finish("close", StoreEntry(0))
      /\ file' = file
  BY Rest DEF CloseUnit
<1>2. PICK S : Cut(file, S)
  BY Rest
<1>3. 0 \in S /\ file \in Seq(Nat)
  BY <1>2, Rest, CutFacts
<1>4. PICK z \in S : z = 0
  BY <1>3
<1>5. Good(file', S, StoreEntry(z))
  BY <1>1, <1>2, <1>3, EntryIsGood
<1>6. StoreEntry(0).pos = 0
  <2>1. PICK n \in Nat : n = 0
    OBVIOUS
  <2>2. z \in 0 .. n
    BY <1>4, <2>1
  <2>3. StoreEntry(z).pos = z
    BY <2>2, StoredEntry
  <2> QED BY <1>4, <2>3
<1> QED BY <1>1, <1>4, <1>5, <1>6, Settles

\* REWIND
LEMMA RewindKeeps ==
  ASSUME RecordsInv, Idle, Rewind, read' = read
  PROVE  RecordsInv'
<1> DEFINE v == [unit EXCEPT !.pos = 0]
           s == SeqUnfStateReset(v)
<1>1. /\ read' = NoRead /\ connected' = TRUE /\ Finish("rewind", s) /\ file' = file
  BY Rest DEF Rewind
<1>2. PICK S : Cut(file, S)
  BY Rest
<1>3. 0 \in S /\ file \in Seq(Nat) /\ Len(file) \in Nat
  BY <1>2, Rest, CutFacts
<1>4. v \in Unit /\ v.pos = 0 /\ v.iostat = 0
  <2>1. unit \in Unit /\ unit.iostat = 0 /\ 0 \in 0 .. Len(file)
    BY <1>3 DEF RecordsInv, UnfTypeOK
  <2>2. v \in Unit
    BY <2>1 DEF Unit
  <2> QED BY <2>1, <2>2 DEF Unit
<1> HIDE DEF v
<1>5. s \in Unit /\ s.afterEndfile = FALSE /\ s.pos = 0 /\ s.pending = 0 /\ s.recordLen = 0
  BY <1>4, ResetIsUnit
<1> HIDE DEF s
<1>6. s \in UnitUpTo(Len(file))
  BY <1>5 DEF Unit, UnitUpTo
<1>7. Good(file', S, s)
  BY <1>1, <1>2, <1>3, <1>5, <1>6 DEF Good
<1> QED BY <1>1, <1>7, Settles

\* BACKSPACE
LEMMA BackspaceKeeps ==
  ASSUME RecordsInv, Idle, Backspace, read' = read
  PROVE  RecordsInv'
<1> DEFINE s == SeqUnfStateReset(unit)
           q == unit.pos
           back == q - 2 - file[q]
           v == [s EXCEPT !.pos = back]
<1>1. PICK S : Cut(file, S) /\ Good(file, S, unit)
  BY Rest DEF Backspace
<1>2. /\ q \in S /\ file \in Seq(Nat) /\ Len(file) \in Nat /\ unit \in Unit
  BY <1>1, Rest DEF Good, Unit, UnitUpTo
<1>3. s \in Unit /\ s.afterEndfile = FALSE /\ s.pos = q /\ s.pending = 0 /\ s.recordLen = 0
  BY <1>2, ResetIsUnit
<1>4. /\ read' = NoRead /\ connected' = TRUE /\ file' = file
  BY Rest DEF Backspace
<1> HIDE DEF s
<1>5. CASE unit.afterEndfile \/ q = 0
  <2>1. Finish("backspace", s)
    BY <1>3, <1>5 DEF Backspace, s
  <2>2. s \in UnitUpTo(Len(file))
    BY <1>3 DEF Unit, UnitUpTo
  <2>3. Good(file', S, s)
    BY <1>1, <1>2, <1>3, <1>4, <2>2 DEF Good
  <2> QED BY <1>4, <2>1, <2>3, Settles
<1>6. CASE ~(unit.afterEndfile \/ q = 0)
  <2>1. q \in Nat /\ q >= 2 /\ file[q] \in 0 .. q - 2 /\ back \in S
    BY <1>1, <1>2, <1>6, CutBefore
  <2>2. Finish("backspace", v)
    BY <1>3, <1>6, <2>1 DEF Backspace, s
  <2> HIDE DEF back
  <2>3. back \in 0 .. Len(file)
    BY <1>1, <1>2, <2>1, CutFacts
  <2>4. v \in UnitUpTo(Len(file))
    BY <1>3, <2>3 DEF Unit, UnitUpTo
  <2>5. v.afterEndfile = FALSE
    BY <1>3 DEF Unit
  <2>6. v.pos = back /\ v.pending = 0 /\ v.recordLen = 0
    BY <1>3 DEF Unit
  <2> HIDE DEF v
  <2>7. Good(file', S, v)
    BY <1>1, <1>2, <1>4, <2>1, <2>4, <2>5, <2>6 DEF Good
  <2> QED BY <1>4, <2>2, <2>7, Settles
<1> QED BY <1>5, <1>6

\* ENDFILE
LEMMA EndfileKeeps ==
  ASSUME RecordsInv, Idle, Endfile, read' = read
  PROVE  RecordsInv'
<1> DEFINE s == [unit EXCEPT !.afterEndfile = TRUE]
           q == unit.pos
           T(S) == {r \in S : r <= q}
<1>1. PICK S : Cut(file, S) /\ Good(file, S, unit)
  BY Rest DEF Endfile
<1>2. /\ q \in S /\ file \in Seq(Nat) /\ Len(file) \in Nat /\ unit \in UnitUpTo(Len(file))
      /\ unit.iostat = 0 /\ unit.pending = 0 /\ unit.recordLen = 0
  BY <1>1, Rest DEF Good
<1>3. /\ read' = NoRead /\ connected' = TRUE /\ file' = SubSeq(file, 1, q)
      /\ Finish("endfile", s)
  BY Rest DEF Endfile
<1>4. q \in Nat /\ file' \in Seq(Nat) /\ Len(file') = q /\ Cut(file', T(S)) /\ q \in T(S)
  BY <1>1, <1>2, <1>3, CutPrefix, CutFacts
<1> HIDE DEF T
<1>5. s \in UnitUpTo(q)
  <2>1. q \in 0 .. q
    BY <1>4
  <2> QED BY <1>2, <2>1 DEF UnitUpTo
<1>6. s.pos = q /\ s.pending = 0 /\ s.recordLen = 0
  BY <1>2 DEF UnitUpTo
<1> HIDE DEF s, q
<1>7. Good(file', T(S), s)
  BY <1>4, <1>5, <1>6 DEF Good
<1> QED BY <1>3, <1>7, Settles

\* A READ or a WRITE finds the unit where the statement before it left it,
\* or connects it.
LEMMA CurrentIsGood ==
  ASSUME RecordsInv, Idle, Determinate
  PROVE  \E S : /\ Cut(file, S) /\ Good(file, S, Current) /\ Current.pos = unit.pos
               /\ Current.iostat = 0 /\ Current.items = << >>
<1>1. PICK S : Cut(file, S) /\ Good(file, S, unit)
  BY Rest
<1>2. CASE connected
  BY <1>1, <1>2, Rest DEF Current
<1>3. CASE ~connected
  <2>1. 0 \in S /\ file \in Seq(Nat) /\ Len(file) \in Nat
    BY <1>1, Rest, CutFacts
  <2>2. PICK z \in S : z = 0
    BY <2>1
  <2>3. z \in 0 .. Len(file)
    BY <2>1, <2>2
  <2>4. Good(file, S, StoreEntry(z))
    BY <1>1, <2>1, EntryIsGood
  <2>5. StoreEntry(z).pos = z /\ StoreEntry(z).iostat = 0 /\ StoreEntry(z).items = << >>
    BY <2>1, <2>3, StoredEntry
  <2>6. Current = StoreEntry(z) /\ unit.pos = z
    BY <1>3, <2>2, Rest DEF Current
  <2> QED BY <1>1, <2>4, <2>5, <2>6
<1> QED BY <1>2, <1>3

\* WRITE
LEMMA WriteKeeps ==
  ASSUME RecordsInv, Idle, NEW data \in Data, Write(data), read' = read
  PROVE  RecordsInv'
<1> DEFINE s == Current
           q == s.pos
           n == Len(data)
           g == SubSeq(file, 1, q)
           v == [s EXCEPT !.pos = q + n + 2]
<1>1. data \in Seq(Nat) /\ n \in Nat
  <2>1. PICK k \in 0 .. MaxItems : data \in [1 .. k -> Values]
    BY DEF Data
  <2>2. k \in Nat /\ Values \subseteq Nat
    OBVIOUS
  <2>3. data \in [1 .. k -> Nat]
    BY <2>1, <2>2
  <2>4. data \in Seq(Nat)
    BY <2>2, <2>3
  <2> QED BY <2>4, LenProperties
<1>2. PICK S : Cut(file, S) /\ Good(file, S, s) /\ s.iostat = 0
  BY CurrentIsGood DEF Write
<1>3. /\ q \in S /\ file \in Seq(Nat) /\ s \in UnitUpTo(Len(file))
      /\ s.pending = 0 /\ s.recordLen = 0
  BY <1>2 DEF Good
<1>4. /\ read' = NoRead /\ connected' = TRUE /\ Appended(g, data, file')
      /\ Finish("write", v)
  BY <1>3, Rest DEF Write, KeptByWrite, Appended, UnitUpTo
<1>5. g \in Seq(Nat) /\ Len(g) = q /\ \E T : Cut(g, T)
  BY <1>2, <1>3, CutPrefix
<1>6. PICK T : Cut(g, T)
  BY <1>5
<1>7. q \in Nat
  BY <1>2, <1>3, CutFacts
<1> HIDE DEF g
<1> DEFINE U == T \cup {Len(file')}
<1>8. file' \in Seq(Nat) /\ Len(file') = q + n + 2 /\ Cut(file', U)
  BY <1>1, <1>4, <1>5, <1>6, CutAppend
<1>9. Len(file') \in U
  OBVIOUS
<1> HIDE DEF U
<1>10. q + n + 2 \in 0 .. q + n + 2
  BY <1>1, <1>7
<1> HIDE DEF s, q, n
<1>11. v \in UnitUpTo(q + n + 2)
  BY <1>3, <1>10 DEF UnitUpTo
<1>12. v.pos = q + n + 2 /\ v.pending = 0 /\ v.recordLen = 0
  BY <1>3 DEF UnitUpTo
<1> HIDE DEF v
<1>13. Good(file', U, v)
  BY <1>8, <1>9, <1>11, <1>12 DEF Good
<1> QED BY <1>4, <1>13, Settles

-----------------------------------------------------------------------------
(* READ                                                                    *)

\* The record a READ finds.
LEMMA CutHasRecord ==
  ASSUME NEW S, file \in Seq(Nat), Cut(file, S), NEW p \in S
  PROVE  p \in Nat /\ (p # Len(file) => RecordAt(p) /\ After(file, p) \in S)
<1>1. p \in Nat
  BY CutFacts
<1>2. ASSUME p # Len(file) PROVE RecordAt(p) /\ After(file, p) \in S
  BY <1>2, RecordFacts DEF RecordAt
<1> QED BY <1>1, <1>2

\* The unit that the first call of a READ finds.
LEMMA FirstCall ==
  ASSUME RecordsInv, Idle, Determinate
  PROVE  \E S : /\ Cut(file, S) /\ Start \in S /\ Before(Current, Start)
               /\ Ready(Current, Start) /\ Start = unit.pos
<1>1. PICK S : /\ Cut(file, S) /\ Good(file, S, Current) /\ Current.pos = unit.pos
               /\ Current.iostat = 0 /\ Current.items = << >>
  BY CurrentIsGood
<1>2. Start = Current.pos
  BY DEF Start
<1>3. /\ file \in Seq(Nat) /\ Current \in Unit /\ Start \in S
      /\ Current.pending = 0 /\ Current.recordLen = 0
      /\ Current.afterEndfile => Start = Len(file)
  <2>1. /\ file \in Seq(Nat) /\ Current \in UnitUpTo(Len(file)) /\ Current.pos \in S
        /\ Current.pending = 0 /\ Current.recordLen = 0
        /\ Current.afterEndfile => Current.pos = Len(file)
    BY <1>1 DEF Good
  <2>2. Current \in Unit
    BY <2>1 DEF Unit, UnitUpTo
  <2> QED BY <1>2, <2>1, <2>2
<1>4. Before(Current, Start)
  BY <1>1, <1>2, <1>3 DEF Before
<1>5. Ready(Current, Start)
  BY <1>1, <1>3, <1>4, CutHasRecord DEF Ready
<1> QED BY <1>1, <1>2, <1>3, <1>4, <1>5

\* And a later one.
LEMMA NextCall ==
  ASSUME RecordsInv, ~Idle
  PROVE  \E S : /\ file \in Seq(Nat) /\ Cut(file, S) /\ Start \in S /\ Between(Current, Start)
               /\ Start = read.unit.pos /\ Current = unit
<1>1. PICK S : Cut(file, S) /\ read.unit.pos \in S /\ Between(unit, read.unit.pos)
  BY DEF RecordsInv
<1>2. Start = read.unit.pos
  BY DEF Start
<1>3. file \in Seq(Nat) /\ connected
  BY DEF RecordsInv, UnfTypeOK
<1>4. Current = unit
  BY <1>3 DEF Current
<1> QED BY <1>1, <1>2, <1>3, <1>4

\* The program asks no record for more than it has.
Modest == Uses \cap {"overread", "empty item"} = {}

\* Only an empty record fails a READ that asks for what the record has.
LEMMA CallAsks ==
  ASSUME RecordsInv, Modest, NEW item \in Items, Idle => Determinate, Fits(item)
  PROVE  \E S : /\ Cut(file, S) /\ Start \in S /\ Asks(Current, Start, item)
               /\ Start = IF Idle THEN unit.pos ELSE read.unit.pos
<1> DEFINE p == Start
           n == item[2]
           m == file[p + 1]
<1>1. n \in Nat /\ n > 0
  <2>1. item = <<"int", 1>> \/ item \in {"array", "char"} \X (1 .. MaxItems)
    <3>1. Uses \cap {"empty item"} = {}
      BY DEF Modest
    <3> QED BY <3>1 DEF Items
  <2>2. CASE item = <<"int", 1>>
    BY <2>2
  <2>3. CASE item \in {"array", "char"} \X (1 .. MaxItems)
    <3>1. item[2] \in 1 .. MaxItems
      BY <2>3
    <3> QED BY <3>1
  <2> QED BY <2>1, <2>2, <2>3
<1>2. Len(file) \in Nat
  BY LenProperties DEF RecordsInv, UnfTypeOK
<1>3. p < Len(file) => Len(unit.items) + n <= m \/ (m = 0 /\ Idle /\ item[1] # "char")
  BY DEF Fits, Modest
<1>4. CASE Idle
  <2>1. PICK S : /\ Cut(file, S) /\ p \in S /\ Before(Current, p) /\ Ready(Current, p)
                 /\ p = unit.pos
    BY <1>4, FirstCall
  <2>2. Len(unit.items) = Len(Current.items)
    BY <1>4, <2>1 DEF RecordsInv, Before
  <2>3. p # Len(file) => p < Len(file)
    <3>1. file \in Seq(Nat)
      BY DEF RecordsInv, UnfTypeOK
    <3>2. p \in Nat /\ p <= Len(file)
      BY <2>1, <3>1, CutFacts
    <3> HIDE DEF p
    <3> QED BY <1>2, <3>2
  <2>4. Room(Current, p, n) \/ (m = 0 /\ item[1] # "char")
    BY <1>3, <2>2, <2>3 DEF Room
  <2>5. Asks(Current, p, item)
    BY <2>1, <2>4 DEF Asks, Modest
  <2> QED BY <1>4, <2>1, <2>5
<1>5. CASE ~Idle
  <2>1. PICK S : /\ file \in Seq(Nat) /\ Cut(file, S) /\ p \in S /\ Between(Current, p)
                 /\ p = read.unit.pos /\ Current = unit
    BY <1>5, NextCall
  <2>2. p \in Nat /\ (p # Len(file) => p < Len(file) /\ RecordAt(p) /\ m \in Nat)
    BY <1>2, <2>1, CutFacts, CutHasRecord DEF RecordAt
  <2>3. p # Len(file) => Len(unit.items) + n <= m
    BY <1>3, <1>5, <2>2
  <2>4. Room(Current, p, n)
    BY <2>1, <2>3 DEF Room
  <2>5. ASSUME p # Len(file) PROVE Len(unit.items) # m /\ m # 0
    <3> DEFINE l == Len(unit.items)
    <3>1. l \in Nat
      BY LenProperties DEF RecordsInv, UnfTypeOK, Unit
    <3>2. l + n <= m /\ m \in Nat
      BY <2>2, <2>3, <2>5
    <3> HIDE DEF l, m, n
    <3>3. l # m /\ m # 0
      BY <1>1, <3>1, <3>2
    <3> QED BY <3>3 DEF l
  <2>6. ~(p # Len(file) /\ Passed(Current, p)) /\ ~Failed(Current, p)
    BY <2>1, <2>5 DEF Passed, Failed
  <2>7. Ready(Current, p)
    BY <2>1, <2>2, <2>6 DEF Between, Ready
  <2>8. Asks(Current, p, item)
    BY <2>4, <2>7 DEF Asks, Modest
  <2> QED BY <1>5, <2>1, <2>8
<1> QED BY <1>4, <1>5

\* A call of READ for an item
LEMMA ReadCallKeeps ==
  ASSUME RecordsInv, Modest, NEW item \in Items, ReadCall(item)
  PROVE  RecordsInv'
<1> DEFINE p == Start
           c == ReadItem(Current, item)
<1>1. /\ read.calls < MaxItems /\ (Idle => Determinate) /\ Fits(item) /\ connected' = TRUE
      /\ unit' = c /\ file' = file /\ outcome' = outcome
  BY DEF ReadCall
<1>2. PICK S : /\ Cut(file, S) /\ p \in S /\ Asks(Current, p, item)
               /\ p = IF Idle THEN unit.pos ELSE read.unit.pos
  BY <1>1, CallAsks
<1>3. Between(c, p)
  BY <1>2, ItemIsBetween
<1>4. c \in Unit
  BY <1>3 DEF Between, Begun, Passed, AtEnd, Failed
<1>5. Unit' = Unit
  BY <1>1 DEF Unit
<1>6. /\ file \in Seq(Nat) /\ connected \in BOOLEAN /\ unit \in Unit
      /\ read \in [calls : 0 .. MaxItems, unit : Unit, connected : BOOLEAN]
      /\ outcome.iostat \in -1 .. 1
  BY DEF RecordsInv, UnfTypeOK
<1>7. /\ read'.calls # 0 /\ read'.unit.pos = p
      /\ read' \in [calls : 0 .. MaxItems, unit : Unit, connected : BOOLEAN]
  <2>1. CASE Idle
    <3>1. read' = [calls |-> 1, unit |-> unit, connected |-> connected]
      BY <2>1 DEF ReadCall
    <3>2. 1 \in 0 .. MaxItems
      <4>1. 0 < MaxItems
        BY <1>1, <2>1 DEF Idle
      <4> QED BY <4>1
    <3>3. read' \in [calls : 0 .. MaxItems, unit : Unit, connected : BOOLEAN]
      BY <1>6, <3>1, <3>2
    <3>4. read'.calls = 1 /\ read'.unit = unit
      BY <3>1
    <3> QED BY <1>2, <2>1, <3>3, <3>4
  <2>2. CASE ~Idle
    <3>1. read' = [read EXCEPT !.calls = @ + 1]
      BY <2>2 DEF ReadCall
    <3> DEFINE k == read.calls + 1
    <3>2. k \in 0 .. MaxItems /\ k # 0
      <4>1. read.calls \in 0 .. MaxItems /\ read.calls < MaxItems
        BY <1>1, <1>6
      <4> QED BY <4>1
    <3>3. read' = [read EXCEPT !.calls = k]
      BY <1>6, <3>1
    <3> HIDE DEF k
    <3>4. read' \in [calls : 0 .. MaxItems, unit : Unit, connected : BOOLEAN]
      BY <1>6, <3>2, <3>3
    <3>5. read'.calls = k /\ read'.unit = read.unit
      BY <1>6, <3>3
    <3> QED BY <1>2, <2>2, <3>2, <3>4, <3>5
  <2> QED BY <2>1, <2>2
<1> HIDE DEF c, p
<1>8. UnfTypeOK'
  BY <1>1, <1>4, <1>5, <1>6, <1>7 DEF UnfTypeOK
<1>9. ~Idle'
  BY <1>7 DEF Idle
<1>10. Between(unit, read.unit.pos)'
  <2>1. Between(unit', read'.unit.pos)
    BY <1>1, <1>3, <1>7
  <2> QED BY <1>1, <1>5, <2>1 DEF Between, Begun, Passed, AtEnd, Failed, After
<1> QED BY <1>1, <1>2, <1>7, <1>8, <1>9, <1>10 DEF RecordsInv

\* The last call of READ
LEMMA EndReadKeeps ==
  ASSUME RecordsInv, EndRead
  PROVE  RecordsInv'
<1> DEFINE p == Start
           s == Current
           c == IF Idle \/ s.iostat = 0 THEN EmptyRead(s, Idle) ELSE s
<1>1. /\ (Idle => Determinate) /\ connected' = TRUE /\ Finish("read", c)
      /\ read' = NoRead /\ file' = file
  BY DEF EndRead
<1>2. file \in Seq(Nat) /\ Len(file) \in Nat
  BY LenProperties DEF RecordsInv, UnfTypeOK
<1>3. \E S : Cut(file, S) /\ p \in S /\ (Over(c, p) \/ Failed(c, p))
  <2>1. CASE Idle
    <3>1. PICK S : Cut(file, S) /\ p \in S /\ Before(s, p) /\ Ready(s, p)
      BY <1>1, <2>1, FirstCall
    <3>2. Over(EmptyRead(s, TRUE), p)
      BY <3>1, EmptyIsOver
    <3>3. c = EmptyRead(s, TRUE)
      BY <2>1
    <3> HIDE DEF c
    <3> QED BY <3>1, <3>2, <3>3
  <2>2. CASE ~Idle
    <3>1. PICK S : Cut(file, S) /\ p \in S /\ Between(s, p)
      BY <2>2, NextCall
    <3>2. p # Len(file) => RecordAt(p)
      BY <1>2, <3>1, CutHasRecord
    <3>3. CASE s.iostat = 0
      <4>1. Over(EmptyRead(s, FALSE), p)
        BY <3>1, <3>2, <3>3, RestIsOver
      <4>2. c = EmptyRead(s, FALSE)
        BY <2>2, <3>3 DEF EmptyRead
      <4> HIDE DEF c
      <4> QED BY <3>1, <4>1, <4>2
    <3>4. CASE s.iostat # 0
      <4>1. c = s
        BY <2>2, <3>4
      <4>2. AtEnd(s, p) \/ Failed(s, p)
        BY <3>1, <3>4 DEF Between, Begun, Passed
      <4> HIDE DEF c
      <4> QED BY <3>1, <4>1, <4>2 DEF Over
    <3> QED BY <3>3, <3>4
  <2> QED BY <2>1, <2>2
<1>4. PICK S : Cut(file, S) /\ p \in S /\ (Over(c, p) \/ Failed(c, p))
  BY <1>3
<1> HIDE DEF c, p
<1>5. c \in Unit
  BY <1>4 DEF Over, AtEnd, Failed
<1>6. c \in UnitUpTo(Len(file))
  BY <1>5 DEF Unit, UnitUpTo
<1>7. CASE Failed(c, p)
  <2>1. ~(c.iostat <= 0)
    BY <1>7 DEF Failed
  <2> QED BY <1>1, <1>2, <1>4, <1>6, <2>1, Settles DEF Good
<1>8. CASE Over(c, p)
  <2>1. p # Len(file) => After(file, p) \in S
    BY <1>2, <1>4, CutHasRecord
  <2>2. /\ c.pos \in S /\ c.pending = 0 /\ c.recordLen = 0
        /\ c.afterEndfile => c.pos = Len(file)
    BY <1>4, <1>8, <2>1 DEF Over, AtEnd
  <2>3. Good(file, S, c)
    BY <1>2, <1>4, <1>6, <2>2 DEF Good
  <2> QED BY <1>1, <2>3, Settles
<1> QED BY <1>4, <1>7, <1>8

-----------------------------------------------------------------------------
(* The theorem                                                             *)

\* The first state: no file.
LEMMA UnfInitEstablishes == UnfInit => RecordsInv
<1> SUFFICES ASSUME UnfInit PROVE RecordsInv
  OBVIOUS
<1>1. file \in Seq(Nat) /\ Len(file) = 0 /\ Cut(file, {0})
  BY CutOfNothing DEF UnfInit
<1>2. PICK z \in Nat : z = 0
  OBVIOUS
<1>3. z \in 0 .. z
  BY <1>2
<1>4. /\ unit \in UnitUpTo(z) /\ unit.afterEndfile = FALSE /\ unit.pos = 0 /\ unit.pending = 0
      /\ unit.recordLen = 0 /\ unit.iostat = 0 /\ unit.items = << >>
  BY <1>2, <1>3, StoredEntry DEF UnfInit
<1>5. unit \in Unit
  BY <1>1, <1>2, <1>4 DEF Unit, UnitUpTo
<1>6. read = [calls |-> 0, unit |-> unit, connected |-> FALSE]
  BY DEF UnfInit, NoRead
<1>7. read \in [calls : 0 .. MaxItems, unit : Unit, connected : BOOLEAN] /\ Idle
  BY <1>5, <1>6 DEF Idle
<1>8. UnfTypeOK
  <2>1. outcome.iostat = 0
    BY DEF UnfInit
  <2>2. connected \in BOOLEAN
    BY DEF UnfInit
  <2> QED BY <1>1, <1>5, <1>7, <2>1, <2>2 DEF UnfTypeOK
<1> QED BY <1>1, <1>4, <1>7, <1>8 DEF RecordsInv, UnfInit

\* Every step keeps the invariant.
LEMMA UnfNextKeeps ==
  ASSUME Modest, RecordsInv, [UnfNext]_unfVars
  PROVE  RecordsInv'
<1>2. ASSUME NEW item \in Items, ReadCall(item) PROVE RecordsInv'
  BY <1>2, ReadCallKeeps
<1>3. CASE EndRead
  BY <1>3, EndReadKeeps
<1>4. ASSUME Idle, NEW append \in BOOLEAN, NEW replace \in BOOLEAN, Open(append, replace),
             read' = read
      PROVE  RecordsInv'
  BY <1>4, OpenKeeps
<1>5. CASE Idle /\ read' = read /\ Reopen
  BY <1>5, ReopenKeeps
<1>6. ASSUME Idle, NEW data \in Data, Write(data), read' = read PROVE RecordsInv'
  BY <1>6, WriteKeeps
<1>7. CASE Idle /\ read' = read /\ Backspace
  BY <1>7, BackspaceKeeps
<1>8. CASE Idle /\ read' = read /\ Rewind
  BY <1>8, RewindKeeps
<1>9. CASE Idle /\ read' = read /\ Endfile
  BY <1>9, EndfileKeeps
<1>10. CASE Idle /\ read' = read /\ CloseUnit
  BY <1>10, CloseKeeps
<1>11. CASE UNCHANGED unfVars
  BY <1>11 DEF RecordsInv, UnfTypeOK, Unit, Idle, Determinate, Cut, After, Between, Begun,
               Passed, AtEnd, Failed, NoRead, unfVars
<1> QED BY <1>2, <1>3, <1>4, <1>5, <1>6, <1>7, <1>8, <1>9, <1>10, <1>11 DEF UnfNext

\* The invariant implies the property.
LEMMA RecordsInvImplies == RecordsInv => BetweenRecords
<1> SUFFICES ASSUME RecordsInv PROVE BetweenRecords
  OBVIOUS
<1>1. PICK S : /\ Cut(file, S)
               /\ Idle /\ Determinate =>
                      /\ unit.pos \in S /\ unit.pending = 0 /\ unit.recordLen = 0
                      /\ unit.afterEndfile => unit.pos = Len(file)
  BY DEF RecordsInv
<1>2. S \in SUBSET (0 .. Len(file))
  BY <1>1 DEF Cut
<1>3. UnfTypeOK
  BY DEF RecordsInv
<1> QED BY <1>1, <1>2, <1>3 DEF BetweenRecords

\* In a program that reads no more than a record has and reads no array of
\* size zero, every statement that does not fail leaves a file of complete
\* records with equal markers and the stream between two of them, for every
\* data, every length of records and files, and every mix of READ, WRITE,
\* BACKSPACE, REWIND, ENDFILE, OPEN and CLOSE.
THEOREM UnitStaysBetweenRecords ==
  ASSUME Uses \cap {"overread", "empty item"} = {}
  PROVE  UnfSpec => []BetweenRecords
<1>1. UnfInit => RecordsInv
  BY UnfInitEstablishes
<1>2. RecordsInv /\ [UnfNext]_unfVars => RecordsInv'
  BY UnfNextKeeps DEF Modest
<1>3. RecordsInv => BetweenRecords
  BY RecordsInvImplies
<1> QED BY <1>1, <1>2, <1>3, PTL DEF UnfSpec
=============================================================================
