-------------------------- MODULE LifecycleQueue_proofs --------------------------
(***************************************************************************)
(* Proofs about LifecycleQueue, for any number of hooks, events and        *)
(* crashes.                                                                *)
(***************************************************************************)
EXTENDS LifecycleQueue, SequenceTheorems, TLAPS

-----------------------------------------------------------------------------
(* Sequences.                                                              *)

LEMMA CutFacts ==
    ASSUME NEW S, NEW t \in Seq(S), NEW k \in 0..Len(t)
    PROVE  /\ SubSeq(t, 1, k) \in Seq(S)
           /\ Len(SubSeq(t, 1, k)) = k
           /\ \A i \in 1..k : SubSeq(t, 1, k)[i] = t[i]
<1>1. \A i \in 1..k : t[i] \in S
  BY ElementOfSeq, LenProperties
<1>2. k \in Nat
  BY LenProperties
<1>. QED BY <1>1, <1>2, SubSeqProperties, LenProperties

LEMMA PrefixElements ==
    ASSUME NEW S, NEW s \in Seq(S), NEW t \in Seq(S)
    PROVE  IsPrefixOf(s, t) <=> Len(s) <= Len(t) /\ \A i \in 1..Len(s) : s[i] = t[i]
<1>1. Len(s) \in Nat /\ Len(t) \in Nat
  BY LenProperties
<1>2. ASSUME Len(s) <= Len(t)
      PROVE  s = SubSeq(t, 1, Len(s)) <=> \A i \in 1..Len(s) : s[i] = t[i]
  <2> DEFINE c == SubSeq(t, 1, Len(s))
  <2>1. c \in Seq(S) /\ Len(c) = Len(s) /\ \A i \in 1..Len(s) : c[i] = t[i]
    BY <1>1, <1>2, CutFacts
  <2> HIDE DEF c
  <2>2. s = c <=> \A i \in 1..Len(s) : s[i] = c[i]
    BY <2>1, SeqEqual
  <2>. QED BY <2>1, <2>2 DEF c
<1>. QED BY <1>2 DEF IsPrefixOf

LEMMA AppendFacts ==
    ASSUME NEW S, NEW s \in Seq(S), NEW x \in S
    PROVE  /\ Append(s, x) \in Seq(S)
           /\ Len(Append(s, x)) = Len(s) + 1
           /\ \A i \in 1..Len(s) : Append(s, x)[i] = s[i]
           /\ Append(s, x)[Len(s) + 1] = x
BY AppendProperties, LenProperties

LEMMA TailFacts ==
    ASSUME NEW S, NEW s \in Seq(S), s # <<>>
    PROVE  /\ Tail(s) \in Seq(S) /\ Len(s) \in Nat \ {0}
           /\ Len(Tail(s)) = Len(s) - 1
           /\ \A i \in 1..Len(s) - 1 : Tail(s)[i] = s[i + 1]
<1>1. Len(s) \in Nat \ {0}
  BY EmptySeq, LenProperties
<1>. QED BY <1>1, HeadTailProperties

LEMMA ConcatFacts ==
    ASSUME NEW S, NEW x \in S, NEW t \in Seq(S), NEW n \in 1..Len(t)
    PROVE  LET u == <<x>> \o SubSeq(t, n + 1, Len(t)) IN
           /\ u \in Seq(S) /\ Len(u) \in Nat
           /\ \A i \in 1..Len(u) : u[i] = x \/ \E j \in 1..Len(t) : u[i] = t[j]
<1> DEFINE c == SubSeq(t, n + 1, Len(t))
           u == <<x>> \o c
<1>1. Len(t) \in Nat /\ n \in Nat /\ n >= 1 /\ n <= Len(t)
  BY LenProperties
<1>2. \A i \in n + 1..Len(t) : t[i] \in S
  <2>1. \A i \in n + 1..Len(t) : i \in 1..Len(t)
    BY <1>1
  <2>. QED BY <2>1, ElementOfSeq
<1>3. /\ c \in Seq(S) /\ Len(c) \in Nat
      /\ \A i \in 1..Len(c) : n + i \in 1..Len(t) /\ c[i] = t[n + i]
  <2>1. CASE n = Len(t)
    <3>1. c \in Seq(S) /\ Len(c) = 0
      BY <1>1, <1>2, <2>1, SubSeqProperties
    <3>. QED BY <3>1
  <2>2. CASE n < Len(t)
    <3>1. c \in Seq(S) /\ Len(c) = Len(t) - n
          /\ \A i \in 1..Len(t) - n : c[i] = t[n + 1 + i - 1]
      BY <1>1, <1>2, <2>2, SubSeqProperties
    <3>2. \A i \in 1..Len(t) - n : n + 1 + i - 1 = n + i /\ n + i \in 1..Len(t)
      BY <1>1
    <3>3. Len(t) - n \in Nat
      BY <1>1
    <3>. QED BY <3>1, <3>2, <3>3
  <2>. QED BY <1>1, <2>1, <2>2
<1> HIDE DEF c
<1>4. <<x>> \in Seq(S) /\ Len(<<x>>) = 1 /\ <<x>>[1] = x
  OBVIOUS
<1>5. /\ u \in Seq(S) /\ Len(u) = 1 + Len(c)
      /\ \A i \in 1..1 + Len(c) : u[i] = IF i <= 1 THEN <<x>>[i] ELSE c[i - 1]
  BY <1>3, <1>4, ConcatProperties
<1>6. ASSUME NEW i \in 1..Len(u)
      PROVE  u[i] = x \/ \E j \in 1..Len(t) : u[i] = t[j]
  <2>1. i = 1 \/ i - 1 \in 1..Len(c)
    BY <1>3, <1>5
  <2>2. CASE i = 1
    BY <1>4, <1>5, <2>2
  <2>3. CASE i # 1
    <3>1. i - 1 \in 1..Len(c) /\ ~(i <= 1) /\ i \in 1..1 + Len(c)
      BY <1>3, <1>5, <2>1, <2>3
    <3>. QED BY <1>3, <1>5, <3>1
  <2>. QED BY <2>2, <2>3
<1>7. Len(u) \in Nat
  BY <1>3, <1>5
<1>. QED BY <1>5, <1>6, <1>7 DEF c

-----------------------------------------------------------------------------
(* The inductive invariant.                                                *)

Flushing == {"line", "append", "fsync", "truncate", "qsync"}

\* The flock belongs to whoever is between taking and releasing it.
LockInv ==
    /\ spc \in Flushing => flock = Scan
    /\ \A h \in Hook : hpc[h] \in {"write", "fsync"} => flock = h

Done(line) == line = Bad \/ Promised(line)

\* The batch is the end of the file, the lines before it are done.
BatchInv ==
    /\ spc \in {"line", "append", "fsync"} =>
           /\ Len(batch) <= Len(lines)
           /\ \A i \in 1..Len(batch) : batch[i] = lines[Len(lines) - Len(batch) + i]
           /\ \A i \in 1..Len(lines) - Len(batch) : Done(lines[i])
    /\ spc \in {"append", "fsync"} => batch # <<>> /\ batch[1] # Bad

\* The rows are all promised, but for one just written; the generation is
\* computed from the rows that are there when it is used.
RowInv ==
    /\ spc \notin {"idle", "recover", "fsync"} => kept = Len(rows)
    /\ spc = "append" /\ batch[1] # Refused => gen = Generation(batch[1])
    /\ spc = "fsync" => rows # <<>> /\ rows[Len(rows)].ev = batch[1]

\* An event no crash takes away, once the directory is synced: it has a row,
\* or the file begins with what is on disk and that has the event.  Between the
\* two writes of the compaction the file may begin so by accident: only the rows
\* count there.
Safe(e) ==
    \/ Promised(e)
    \/ spc # "truncate" /\ IsPrefixOf(disk, lines) /\ OnDisk(disk, e)

HookSafe(h) ==
    /\ hpc[h] # "idle" => hev[h] \in Event
    /\ hpc[h] = "fsync" => hev[h] \in glued \/ OnDisk(lines, hev[h])
    /\ hpc[h] = "dirsync" => hev[h] \in glued \/ Safe(hev[h])

HookInv == \A h \in Hook : HookSafe(h)

AcceptedSafe == \A e \in accepted \ glued : Promised(e) \/ (linked /\ Safe(e))

Inv ==
    /\ TypeOK
    /\ LockInv /\ BatchInv /\ RowInv /\ HookInv /\ AcceptedSafe
    /\ RecordedOnce /\ GenerationsCount

-----------------------------------------------------------------------------
(* Types, one part of the state at a time.                                 *)

QueueType == /\ lines \in Seq(Line) /\ disk \in Seq(Line)
             /\ torn \in BOOLEAN /\ linked \in BOOLEAN
HookType == /\ hpc \in [Hook -> {"idle", "lock", "write", "fsync", "dirsync"}]
            /\ hev \in [Hook -> Event \cup {Bad}]
LockType == flock \in Hook \cup {Scan, NoProc}
ScanType == /\ spc \in {"idle", "recover", "lock"} \cup Flushing
            /\ batch \in Seq(Line) /\ gen \in Nat
LedgerType == rows \in Seq(EventRow) /\ kept \in 0..Len(rows) /\ ledgerTorn \in BOOLEAN
HistoryType == accepted \subseteq Event /\ glued \subseteq Event /\ calls \in Nat /\ crashes \in Nat

LEMMA TypeParts ==
    /\ TypeOK <=> QueueType /\ HookType /\ LockType /\ ScanType /\ LedgerType /\ HistoryType
    /\ TypeOK' <=> QueueType' /\ HookType' /\ LockType' /\ ScanType' /\ LedgerType' /\ HistoryType'
BY DEF TypeOK, QueueType, HookType, LockType, ScanType, LedgerType, HistoryType, Flushing

LEMMA TypeFrame ==
    /\ QueueType /\ UNCHANGED queue => QueueType'
    /\ HookType /\ UNCHANGED hooks => HookType'
    /\ LockType /\ UNCHANGED flock => LockType'
    /\ ScanType /\ UNCHANGED scan => ScanType'
    /\ LedgerType /\ UNCHANGED ledger => LedgerType'
    /\ HistoryType /\ UNCHANGED history => HistoryType'
BY DEF QueueType, HookType, LockType, ScanType, LedgerType, HistoryType,
       queue, hooks, scan, ledger, history

LEMMA InitInv == Init => Inv
<1> SUFFICES ASSUME Init PROVE Inv
  OBVIOUS
<1>1. Len(<<>>) = 0 /\ <<>> \in Seq(Line) /\ <<>> \in Seq(EventRow)
  BY EmptySeq
<1>2. QueueType /\ HookType /\ LockType
  BY <1>1 DEF Init, QueueType, HookType, LockType
<1>3. ScanType /\ HistoryType
  BY <1>1 DEF Init, ScanType, HistoryType
<1>4. LedgerType
  <2>1. rows = <<>> /\ kept = 0 /\ ledgerTorn = FALSE
    BY DEF Init
  <2>2. kept \in 0..Len(rows) /\ rows \in Seq(EventRow)
    BY <1>1, <2>1
  <2>3. ledgerTorn \in BOOLEAN
    BY <2>1
  <2>. QED BY <2>2, <2>3 DEF LedgerType
<1>5. LockInv /\ BatchInv /\ RowInv
  BY DEF Init, LockInv, BatchInv, RowInv, Flushing
<1>6. HookInv /\ AcceptedSafe
  BY DEF Init, HookInv, HookSafe, AcceptedSafe
<1>7. RecordedOnce /\ GenerationsCount
  BY <1>1 DEF Init, RecordedOnce, GenerationsCount
<1>. QED BY <1>2, <1>3, <1>4, <1>5, <1>6, <1>7, TypeParts DEF Inv

-----------------------------------------------------------------------------
(* What steps leave: rows, promised events, safe events, generations.      *)

LEMMA RowsFrame ==
    ASSUME rows' = rows
    PROVE  /\ RecordedOnce => RecordedOnce'
           /\ GenerationsCount => GenerationsCount'
BY DEF RecordedOnce, GenerationsCount

\* The ledger keeps the rows it has promised, and may promise more.
LEMMA PromisedGrows ==
    ASSUME LedgerType, LedgerType', kept <= kept', \A n \in 1..kept : rows'[n] = rows[n],
           NEW e, Promised(e)
    PROVE  Promised(e)'
<1>1. kept \in Nat /\ kept' \in Nat
  <2>1. Len(rows) \in Nat /\ Len(rows)' \in Nat
    BY LenProperties DEF LedgerType
  <2>2. kept \in 0..Len(rows) /\ kept' \in 0..Len(rows)'
    BY DEF LedgerType
  <2>. QED BY <2>1, <2>2
<1>2. PICK n \in 1..kept : rows[n].ev = e
  BY DEF Promised
<1>3. n \in 1..kept' /\ rows'[n].ev = e
  BY <1>1, <1>2
<1>. QED BY <1>3 DEF Promised

SafeStays == \A e \in Event : Safe(e) => Safe(e)'

LEMMA SafeFrame ==
    ASSUME lines' = lines, disk' = disk, spc' = "truncate" => spc = "truncate",
           \A e \in Event : Promised(e) => Promised(e)'
    PROVE  SafeStays
BY DEF SafeStays, Safe, OnDisk, IsPrefixOf

LEMMA LedgerFrame ==
    ASSUME rows' = rows, kept' = kept
    PROVE  \A e : Promised(e) => Promised(e)'
BY DEF Promised

\* A safe event is in the file, while it has no row.
LEMMA SafeInFile ==
    ASSUME QueueType, NEW e \in Event, Safe(e), ~Promised(e)
    PROVE  OnDisk(lines, e)
<1>1. lines \in Seq(Line) /\ disk \in Seq(Line) /\ Len(lines) \in Nat /\ Len(disk) \in Nat
  BY LenProperties DEF QueueType
<1>2. Len(disk) <= Len(lines) /\ \A i \in 1..Len(disk) : disk[i] = lines[i]
  BY <1>1, PrefixElements DEF Safe
<1>3. PICK n \in 1..Len(disk) : disk[n] = e
  BY DEF Safe, OnDisk
<1>4. n \in 1..Len(lines) /\ lines[n] = e
  BY <1>1, <1>2, <1>3
<1>. QED BY <1>4 DEF OnDisk

\* When all its lines are done the file keeps nothing that has no row.
LEMMA DoneLeavesNothing ==
    ASSUME QueueType, \A i \in 1..Len(lines) : Done(lines[i]), NEW e \in Event, Safe(e)
    PROVE  Promised(e)
<1> SUFFICES ASSUME ~Promised(e) PROVE FALSE
  OBVIOUS
<1>1. PICK n \in 1..Len(lines) : lines[n] = e
  BY SafeInFile DEF OnDisk
<1>. QED BY <1>1, BadAssumption DEF Done

\* The rows of the ledger, as EventRow has them.
LEMMA RowFacts ==
    ASSUME LedgerType
    PROVE  /\ rows \in Seq(EventRow) /\ Len(rows) \in Nat
           /\ \A n \in 1..Len(rows) : rows[n].ev \in Event /\ rows[n].gen \in Nat
<1>1. rows \in Seq(EventRow)
  BY DEF LedgerType
<1>2. Len(rows) \in Nat /\ \A n \in 1..Len(rows) : rows[n] \in EventRow
  BY <1>1, LenProperties, ElementOfSeq
<1>3. \A r \in EventRow : r.ev \in Event /\ r.gen \in Nat
  BY DEF EventRow
<1>. QED BY <1>1, <1>2, <1>3

\* The generation under way is the last row's, and no row has a greater one.
LEMMA CurrentIsLast ==
    ASSUME LedgerType, GenerationsCount
    PROVE  /\ Current \in Nat
           /\ rows # <<>> => Current = rows[Len(rows)].gen
           /\ \A n \in 1..Len(rows) : rows[n].gen <= Current
<1>1. CASE rows = <<>>
  <2>1. Len(rows) = 0
    BY <1>1, EmptySeq
  <2>2. Current = 0
    BY <1>1 DEF Current
  <2>. QED BY <1>1, <2>1, <2>2
<1>2. CASE rows # <<>>
  <2> DEFINE last == rows[Len(rows)].gen
  <2>0. Len(rows) \in 1..Len(rows) /\ Len(rows) \in Nat
    BY <1>2, RowFacts, EmptySeq, LenProperties
  <2>1. last \in Gens /\ last \in Nat
    BY <2>0, RowFacts DEF Gens
  <2>2. \A n \in 1..Len(rows) : rows[n].gen <= last
    <3> SUFFICES ASSUME NEW n \in 1..Len(rows) PROVE rows[n].gen <= last
      OBVIOUS
    <3>1. n < Len(rows) \/ n = Len(rows)
      BY <2>0
    <3>2. CASE n < Len(rows)
      BY <2>0, <3>2 DEF GenerationsCount
    <3>3. CASE n = Len(rows)
      BY <2>1, <3>3
    <3>. QED BY <3>1, <3>2, <3>3
  <2>3. \A h \in Gens : h <= last
    BY <2>2 DEF Gens
  <2>4. \A g \in Gens : g \in Nat
    BY RowFacts DEF Gens
  <2> DEFINE g == CHOOSE g \in Gens : \A h \in Gens : h <= g
  <2>5. g \in Gens /\ \A h \in Gens : h <= g
    BY <2>1, <2>3
  <2>6. Current = g
    BY <1>2 DEF Current
  <2> HIDE DEF last, g
  <2>7. g = last
    <3>1. g <= last /\ last <= g /\ g \in Nat /\ last \in Nat
      BY <2>1, <2>3, <2>4, <2>5
    <3>. QED BY <3>1
  <2>8. Current = last
    BY <2>6, <2>7
  <2>. QED BY <2>1, <2>2, <2>8 DEF last
<1>. QED BY <1>1, <1>2

LEMMA GenerationType ==
    ASSUME LedgerType, GenerationsCount, NEW e
    PROVE  Generation(e) \in Nat
<1>1. Current \in Nat
  BY CurrentIsLast
<1>2. rows # <<>> => rows[Len(rows)].gen \in Nat
  BY <1>1, CurrentIsLast
<1>. QED BY <1>1, <1>2 DEF Generation

LEMMA GenerationFrame ==
    ASSUME rows' = rows, NEW e
    PROVE  Generation(e)' = Generation(e)
<1>1. Gens' = Gens
  BY DEF Gens
<1>2. Current' = Current
  BY <1>1 DEF Current
<1>. QED BY <1>2 DEF Generation

-----------------------------------------------------------------------------
(* A step of a hook leaves the scan's part of the invariant, a step of the *)
(* scan the hooks'.                                                        *)

LEMMA ScanFrame ==
    ASSUME UNCHANGED <<scan, rows, kept>>, BatchInv, RowInv, spc \in Flushing => lines' = lines
    PROVE  BatchInv' /\ RowInv'
<1>1. spc' = spc /\ batch' = batch /\ gen' = gen /\ rows' = rows /\ kept' = kept
  BY DEF scan
<1>2. \A e : Done(e) => Done(e)'
  BY <1>1, LedgerFrame DEF Done
<1>3. BatchInv'
  <2>1. CASE spc \in Flushing
    BY <1>1, <1>2, <2>1 DEF BatchInv
  <2>2. CASE spc \notin Flushing
    BY <1>1, <2>2 DEF BatchInv, Flushing
  <2>. QED BY <2>1, <2>2
<1>4. Generation(batch[1])' = Generation(batch[1])
  BY <1>1, GenerationFrame
<1>5. RowInv'
  BY <1>1, <1>4 DEF RowInv
<1>. QED BY <1>3, <1>5

\* What is true of a hook that does not move stays true.
LEMMA HookKeeps ==
    ASSUME NEW h \in Hook, HookSafe(h), hpc'[h] = hpc[h], hev'[h] = hev[h],
           glued \subseteq glued', SafeStays, hpc[h] = "fsync" => lines' = lines
    PROVE  HookSafe(h)'
<1>1. CASE hpc[h] = "idle"
  BY <1>1 DEF HookSafe
<1>2. CASE hpc[h] # "idle"
  <2>1. PICK e \in Event : e = hev[h]
    BY <1>2 DEF HookSafe
  <2>2. /\ hpc[h] = "fsync" => e \in glued' \/ OnDisk(lines', e)
        /\ hpc[h] = "dirsync" => e \in glued' \/ Safe(e)'
    BY <2>1 DEF HookSafe, SafeStays
  <2>3. e = hev'[h]
    BY <2>1
  <2>4. hpc'[h] = "fsync" => hev'[h] \in glued' \/ OnDisk(lines', hev'[h])
    BY <2>2, <2>3
  <2>5. hpc'[h] = "dirsync" => hev'[h] \in glued' \/ Safe(hev[h])'
    BY <2>2, <2>3 DEF Safe, Promised
  <2>. QED BY <2>1, <2>3, <2>4, <2>5 DEF HookSafe
<1>. QED BY <1>1, <1>2

LEMMA HooksFrame ==
    ASSUME UNCHANGED <<hooks, accepted, glued, linked>>, LockInv, HookInv, AcceptedSafe,
           HookType, HistoryType, lines' = lines \/ spc \in Flushing, SafeStays,
           \A e \in Event : Promised(e) => Promised(e)'
    PROVE  HookInv' /\ AcceptedSafe'
<1>1. hpc' = hpc /\ hev' = hev /\ accepted' = accepted /\ glued' = glued /\ linked' = linked
  BY DEF hooks
<1>2. AcceptedSafe'
  BY <1>1 DEF AcceptedSafe, SafeStays, HistoryType
<1>3. ASSUME NEW h \in Hook
      PROVE  HookSafe(h)'
  <2>1. hpc[h] = "fsync" => lines' = lines
    BY HolderAssumption DEF LockInv
  <2>. QED BY <1>1, <2>1, HookKeeps DEF HookInv
<1>4. HookInv'
  BY <1>3 DEF HookInv
<1>. QED BY <1>2, <1>4

\* The scan gives up the lock and forgets its batch.
LEMMA FlushEndsFacts ==
    ASSUME FlushEnds, hpc' = hpc, LockInv, LockType
    PROVE  ScanType' /\ LockType' /\ LockInv' /\ BatchInv' /\ RowInv'
<1>1. spc' = "idle" /\ batch' = <<>> /\ gen' = 0
      /\ flock' = IF flock = Scan THEN NoProc ELSE flock
  BY DEF FlushEnds
<1>2. ScanType' /\ LockType'
  <2>1. <<>> \in Seq(Line)
    BY EmptySeq
  <2>. QED BY <1>1, <2>1 DEF ScanType, LockType
<1>3. LockInv'
  BY <1>1, HolderAssumption DEF LockInv, Flushing
<1>4. BatchInv' /\ RowInv'
  BY <1>1 DEF BatchInv, RowInv
<1>. QED BY <1>2, <1>3, <1>4

LEMMA HookEndsFacts ==
    ASSUME NEW h \in Hook, HookEnds(h), HookType
    PROVE  /\ HookType' /\ hpc'[h] = "idle"
           /\ \A g \in Hook \ {h} : hpc'[g] = hpc[g] /\ hev'[g] = hev[g]
BY DEF HookEnds, HookGoto, HookType

-----------------------------------------------------------------------------
(* The hooks' steps.                                                       *)

\* A step of a hook that leaves the lines and the ledger.
LEMMA HookOnly ==
    ASSUME Inv, UNCHANGED <<lines, disk, linked, scan, ledger, accepted, glued>>,
           torn' \in BOOLEAN, HookType', LockType', LockInv',
           calls' \in Nat, crashes' \in Nat, NEW h \in Hook,
           \A g \in Hook \ {h} : hpc'[g] = hpc[g] /\ hev'[g] = hev[g],
           hpc'[h] \notin {"fsync", "dirsync"}, hpc'[h] # "idle" => hev'[h] \in Event
    PROVE  Inv'
<1>0. /\ QueueType /\ HookType /\ LockType /\ ScanType /\ LedgerType /\ HistoryType
  BY TypeParts DEF Inv
<1>1. /\ lines' = lines /\ disk' = disk /\ linked' = linked /\ rows' = rows /\ kept' = kept
      /\ UNCHANGED <<scan, rows, kept>> /\ spc' = spc
  BY DEF ledger, scan
<1>2. \A e : Promised(e) => Promised(e)'
  BY <1>1, LedgerFrame
<1>3. SafeStays
  BY <1>1, <1>2, SafeFrame
<1>4. BatchInv' /\ RowInv'
  BY <1>1, ScanFrame DEF Inv
<1>5. AcceptedSafe'
  BY <1>0, <1>1, <1>2, <1>3 DEF Inv, AcceptedSafe, SafeStays, HistoryType
<1>6. HookInv'
  <2>1. ASSUME NEW g \in Hook \ {h}
        PROVE  HookSafe(g)'
    <3>1. hpc'[g] = hpc[g] /\ hev'[g] = hev[g] /\ glued' = glued /\ HookSafe(g)
      BY DEF Inv, HookInv
    <3>. QED BY <1>1, <1>3, <3>1, HookKeeps
  <2>2. HookSafe(h)'
    BY DEF HookSafe
  <2>. QED BY <2>1, <2>2 DEF HookInv
<1>7. RecordedOnce' /\ GenerationsCount'
  BY <1>1, RowsFrame DEF Inv
<1>8. QueueType' /\ ScanType' /\ LedgerType' /\ HistoryType'
  BY <1>0, TypeFrame DEF QueueType, HistoryType
<1>. QED BY <1>4, <1>5, <1>6, <1>7, <1>8, TypeParts DEF Inv
LEMMA GotoFacts ==
    ASSUME NEW h \in Hook, NEW l \in {"idle", "lock", "write", "fsync", "dirsync"},
           HookGoto(h, l), HookType
    PROVE  /\ hpc' \in [Hook -> {"idle", "lock", "write", "fsync", "dirsync"}]
           /\ hpc'[h] = l /\ \A g \in Hook \ {h} : hpc'[g] = hpc[g]
<1>1. hpc' = [hpc EXCEPT ![h] = l]
  BY DEF HookGoto
<1>2. hpc \in [Hook -> {"idle", "lock", "write", "fsync", "dirsync"}]
  BY DEF HookType
<1>. QED BY <1>1, <1>2

LEMMA StartHookInv ==
    ASSUME Inv, NEW h \in Hook, NEW e \in Event, StartHook(h, e)
    PROVE  Inv'
<1>0. QueueType /\ HookType /\ LockType /\ HistoryType /\ LockInv
  BY TypeParts DEF Inv
<1>1. /\ hpc'[h] = "lock" /\ \A g \in Hook \ {h} : hpc'[g] = hpc[g]
      /\ hpc' \in [Hook -> {"idle", "lock", "write", "fsync", "dirsync"}]
  BY <1>0, GotoFacts DEF StartHook
<1>2. /\ hev'[h] = e /\ \A g \in Hook \ {h} : hev'[g] = hev[g]
      /\ hev' \in [Hook -> Event \cup {Bad}]
  BY <1>0 DEF StartHook, HookType
<1>3. /\ UNCHANGED <<lines, disk, linked, scan, ledger, accepted, glued>> /\ torn' \in BOOLEAN
      /\ flock' = flock /\ spc' = spc /\ calls' \in Nat /\ crashes' \in Nat
  BY <1>0 DEF StartHook, queue, scan, QueueType, HistoryType
<1>4. HookType' /\ LockType' /\ LockInv'
  BY <1>0, <1>1, <1>2, <1>3 DEF HookType, LockType, LockInv
<1>. QED BY <1>1, <1>2, <1>3, <1>4, HookOnly

LEMMA LockQueueInv ==
    ASSUME Inv, NEW h \in Hook, LockQueue(h)
    PROVE  Inv'
<1>0. QueueType /\ HookType /\ LockType /\ HistoryType /\ LockInv /\ HookSafe(h)
  BY TypeParts DEF Inv, HookInv
<1>1. /\ hpc'[h] = "write" /\ \A g \in Hook \ {h} : hpc'[g] = hpc[g]
      /\ hpc' \in [Hook -> {"idle", "lock", "write", "fsync", "dirsync"}]
  BY <1>0, GotoFacts DEF LockQueue
<1>2. hev' = hev /\ hev'[h] \in Event
  BY <1>0 DEF LockQueue, HookSafe
<1>3. /\ UNCHANGED <<lines, disk, linked, scan, ledger, accepted, glued>> /\ torn' \in BOOLEAN
      /\ flock = NoProc /\ flock' = h /\ spc' = spc /\ calls' \in Nat /\ crashes' \in Nat
  BY <1>0 DEF LockQueue, queue, scan, history, QueueType, HistoryType
<1>4. LockInv'
  BY <1>0, <1>1, <1>3, HolderAssumption DEF LockInv
<1>5. HookType' /\ LockType'
  BY <1>0, <1>1, <1>2, <1>3 DEF HookType, LockType
<1>. QED BY <1>1, <1>2, <1>3, <1>4, <1>5, HookOnly

\* A hook that dies gives up the lock.
LEMMA HookDies ==
    ASSUME Inv, NEW h \in Hook, HookEnds(h), flock' = IF flock = h THEN NoProc ELSE flock,
           UNCHANGED <<lines, disk, linked, scan, ledger, accepted, glued, calls>>,
           torn' \in BOOLEAN, crashes' \in Nat
    PROVE  Inv'
<1>0. HookType /\ LockType /\ HistoryType /\ LockInv
  BY TypeParts DEF Inv
<1>1. /\ HookType' /\ hpc'[h] = "idle"
      /\ \A g \in Hook \ {h} : hpc'[g] = hpc[g] /\ hev'[g] = hev[g]
  BY <1>0, HookEndsFacts
<1>2. spc' = spc /\ calls' \in Nat
  BY <1>0 DEF scan, HistoryType
<1>3. LockType' /\ LockInv'
  BY <1>0, <1>1, <1>2, HolderAssumption DEF LockType, LockInv
<1>. QED BY <1>1, <1>2, <1>3, HookOnly

LEMMA KillHookInv ==
    ASSUME Inv, NEW h \in Hook, KillHook(h) \/ ShortWrite(h)
    PROVE  Inv'
<1>1. QueueType /\ HistoryType
  BY TypeParts DEF Inv
<1>2. /\ HookEnds(h) /\ flock' = IF flock = h THEN NoProc ELSE flock
      /\ UNCHANGED <<lines, disk, linked, scan, ledger, accepted, glued, calls>>
      /\ Crashing
  BY DEF KillHook, ShortWrite, queue
<1>3. crashes' \in Nat
  BY <1>1, <1>2 DEF Crashing, HistoryType
<1>4. torn' \in BOOLEAN
  <2>1. torn' = TRUE \/ torn' = torn
    BY DEF KillHook, ShortWrite, queue
  <2>. QED BY <1>1, <2>1 DEF QueueType
<1>. QED BY <1>2, <1>3, <1>4, HookDies

\* What was accepted stays safe, whoever moves.
LEMMA AcceptedKeeps ==
    ASSUME AcceptedSafe, HistoryType, accepted' = accepted, glued \subseteq glued',
           linked => linked', SafeStays, \A e \in Event : Promised(e) => Promised(e)'
    PROVE  AcceptedSafe'
BY DEF AcceptedSafe, SafeStays, HistoryType

LEMMA WriteLineInv ==
    ASSUME Inv, NEW h \in Hook, WriteLine(h)
    PROVE  Inv'
<1> DEFINE line == IF torn THEN Bad ELSE hev[h]
<1>0. /\ QueueType /\ HookType /\ LockType /\ ScanType /\ LedgerType /\ HistoryType
      /\ LockInv /\ HookSafe(h)
  BY TypeParts DEF Inv, HookInv
<1>1. /\ hpc[h] = "write" /\ lines' = Append(lines, line) /\ torn' = FALSE
      /\ glued' = IF torn THEN glued \cup {hev[h]} ELSE glued
      /\ disk' = disk /\ linked' = linked /\ flock' = flock /\ hev' = hev /\ spc' = spc
      /\ rows' = rows /\ kept' = kept /\ accepted' = accepted
      /\ UNCHANGED <<scan, rows, kept, ledger, calls, crashes>>
  BY DEF WriteLine, scan, ledger
<1>2. /\ hpc'[h] = "fsync" /\ \A g \in Hook \ {h} : hpc'[g] = hpc[g]
      /\ hpc' \in [Hook -> {"idle", "lock", "write", "fsync", "dirsync"}]
  BY <1>0, GotoFacts DEF WriteLine
<1>3. /\ flock = h /\ spc \notin Flushing /\ \A g \in Hook \ {h} : hpc[g] # "fsync"
      /\ hev[h] \in Event
  BY <1>0, <1>1, HolderAssumption DEF LockInv, HookSafe
<1>4. line \in Line /\ lines \in Seq(Line) /\ Len(lines) \in Nat
  BY <1>0, <1>3, LenProperties DEF Line, QueueType
<1>5. /\ lines' \in Seq(Line) /\ Len(lines') = Len(lines) + 1
      /\ \A i \in 1..Len(lines) : lines'[i] = lines[i]
      /\ lines'[Len(lines) + 1] = line
  BY <1>1, <1>4, AppendFacts
<1>6. \A e : Promised(e) => Promised(e)'
  BY <1>1, LedgerFrame
<1>7. SafeStays
  <2>1. IsPrefixOf(disk, lines) => IsPrefixOf(disk, lines')
    <3> SUFFICES ASSUME IsPrefixOf(disk, lines) PROVE IsPrefixOf(disk, lines')
      OBVIOUS
    <3>1. disk \in Seq(Line) /\ Len(disk) \in Nat
      BY <1>0, LenProperties DEF QueueType
    <3>2. Len(disk) <= Len(lines) /\ \A i \in 1..Len(disk) : disk[i] = lines[i]
      BY <1>4, <3>1, PrefixElements
    <3>3. Len(disk) <= Len(lines') /\ \A i \in 1..Len(disk) : disk[i] = lines'[i]
      BY <1>4, <1>5, <3>1, <3>2
    <3>. QED BY <1>5, <3>1, <3>3, PrefixElements
  <2>. QED BY <1>1, <1>6, <2>1 DEF SafeStays, Safe, IsPrefixOf, OnDisk
<1>8. BatchInv' /\ RowInv'
  BY <1>1, <1>3, ScanFrame DEF Inv
<1>9. glued \subseteq glued' /\ glued' \subseteq Event
  BY <1>0, <1>1, <1>3 DEF HistoryType
<1>10. AcceptedSafe'
  BY <1>0, <1>1, <1>6, <1>7, <1>9, AcceptedKeeps DEF Inv
<1>11. HookInv'
  <2>1. ASSUME NEW g \in Hook \ {h}
        PROVE  HookSafe(g)'
    <3>1. hpc'[g] = hpc[g] /\ hev'[g] = hev[g] /\ hpc[g] # "fsync" /\ HookSafe(g)
      BY <1>1, <1>2, <1>3 DEF Inv, HookInv
    <3>. QED BY <1>7, <1>9, <3>1, HookKeeps
  <2>2. hev[h] \in glued' \/ OnDisk(lines', hev[h])
    <3>1. CASE torn
      BY <1>1, <3>1
    <3>2. CASE ~torn
      <4>1. Len(lines) + 1 \in 1..Len(lines') /\ lines'[Len(lines) + 1] = hev[h]
        BY <1>4, <1>5, <3>2
      <4>. QED BY <4>1 DEF OnDisk
    <3>. QED BY <3>1, <3>2
  <2>3. HookSafe(h)'
    BY <1>1, <1>2, <1>3, <2>2 DEF HookSafe
  <2>. QED BY <2>1, <2>3 DEF HookInv
<1>12. LockInv'
  BY <1>0, <1>1, <1>2, <1>3 DEF LockInv
<1>13. RecordedOnce' /\ GenerationsCount'
  BY <1>1, RowsFrame DEF Inv
<1>14. HookType' /\ LockType' /\ HistoryType' /\ ScanType' /\ LedgerType'
  BY <1>0, <1>1, <1>2, <1>9, TypeFrame DEF HookType, LockType, HistoryType
<1>15. QueueType'
  BY <1>0, <1>1, <1>5 DEF QueueType
<1>. QED BY <1>8, <1>10, <1>11, <1>12, <1>13, <1>14, <1>15, TypeParts DEF Inv

\* What is synced is what is there: a safe event is safe again.
LEMMA SyncedIsSafe ==
    ASSUME QueueType, lines' = lines, disk' = lines, spc' # "truncate",
           \A e \in Event : Promised(e) => Promised(e)'
    PROVE  /\ SafeStays
           /\ \A e \in Event : OnDisk(lines, e) => Safe(e)'
<1>1. IsPrefixOf(lines, lines)
  <2>1. lines \in Seq(Line) /\ Len(lines) \in Nat
    BY LenProperties DEF QueueType
  <2>. QED BY <2>1, PrefixElements
<1>2. ASSUME NEW e \in Event, OnDisk(lines, e)
      PROVE  Safe(e)'
  BY <1>1, <1>2 DEF Safe, OnDisk, IsPrefixOf
<1>3. ASSUME NEW e \in Event, Safe(e)
      PROVE  Safe(e)'
  <2>1. CASE Promised(e)
    BY <2>1 DEF Safe
  <2>2. CASE ~Promised(e)
    BY <1>2, <1>3, <2>2, SafeInFile
  <2>. QED BY <2>1, <2>2
<1>. QED BY <1>2, <1>3 DEF SafeStays

LEMMA SyncLineInv ==
    ASSUME Inv, NEW h \in Hook, SyncLine(h)
    PROVE  Inv'
<1>0. /\ QueueType /\ HookType /\ LockType /\ ScanType /\ LedgerType /\ HistoryType
      /\ LockInv /\ HookSafe(h)
  BY TypeParts DEF Inv, HookInv
<1>1. /\ hpc[h] = "fsync" /\ disk' = lines /\ lines' = lines /\ torn' = torn
      /\ flock' = IF flock = h THEN NoProc ELSE flock
      /\ linked' = linked /\ hev' = hev /\ spc' = spc /\ rows' = rows /\ kept' = kept
      /\ accepted' = accepted /\ glued' = glued
      /\ UNCHANGED <<scan, rows, kept, ledger, history>>
  BY DEF SyncLine, scan, ledger, history
<1>2. /\ hpc'[h] = "dirsync" /\ \A g \in Hook \ {h} : hpc'[g] = hpc[g]
      /\ hpc' \in [Hook -> {"idle", "lock", "write", "fsync", "dirsync"}]
  BY <1>0, GotoFacts DEF SyncLine
<1>3. \A e : Promised(e) => Promised(e)'
  BY <1>1, LedgerFrame
<1>4. SafeStays /\ \A e \in Event : OnDisk(lines, e) => Safe(e)'
  <2>1. spc' # "truncate"
    BY <1>0, <1>1, HolderAssumption DEF LockInv, Flushing
  <2>. QED BY <1>0, <1>1, <1>3, <2>1, SyncedIsSafe
<1>5. BatchInv' /\ RowInv'
  BY <1>1, ScanFrame DEF Inv
<1>6. AcceptedSafe'
  BY <1>0, <1>1, <1>3, <1>4, AcceptedKeeps DEF Inv
<1>7. HookInv'
  <2>1. ASSUME NEW g \in Hook \ {h}
        PROVE  HookSafe(g)'
    BY <1>1, <1>2, <1>4, HookKeeps DEF Inv, HookInv
  <2>2. PICK e \in Event : e = hev[h]
    BY <1>0, <1>1 DEF HookSafe
  <2>3. e \in glued \/ Safe(e)'
    BY <1>0, <1>1, <1>4, <2>2 DEF HookSafe
  <2>4. e = hev'[h]
    BY <1>1, <2>2
  <2>5. HookSafe(h)'
    BY <1>1, <1>2, <2>3, <2>4 DEF HookSafe, Safe, Promised
  <2>. QED BY <2>1, <2>5 DEF HookInv
<1>8. LockInv' /\ LockType'
  BY <1>0, <1>1, <1>2, HolderAssumption DEF LockInv, LockType
<1>9. RecordedOnce' /\ GenerationsCount'
  BY <1>1, RowsFrame DEF Inv
<1>10. HookType' /\ HistoryType' /\ ScanType' /\ LedgerType' /\ QueueType'
  BY <1>0, <1>1, <1>2, TypeFrame DEF HookType, QueueType
<1>. QED BY <1>5, <1>6, <1>7, <1>8, <1>9, <1>10, TypeParts DEF Inv

LEMMA EnqueuedInv ==
    ASSUME Inv, NEW h \in Hook, Enqueued(h)
    PROVE  Inv'
<1>0. /\ QueueType /\ HookType /\ LockType /\ ScanType /\ LedgerType /\ HistoryType
      /\ LockInv /\ HookSafe(h)
  BY TypeParts DEF Inv, HookInv
<1>1. /\ hpc[h] = "dirsync" /\ linked' = TRUE /\ accepted' = accepted \cup {hev[h]}
      /\ lines' = lines /\ disk' = disk /\ torn' = torn /\ flock' = flock /\ spc' = spc
      /\ rows' = rows /\ kept' = kept /\ glued' = glued
      /\ UNCHANGED <<scan, rows, kept, ledger, calls, crashes>>
  BY DEF Enqueued, scan, ledger
<1>2. /\ HookType' /\ hpc'[h] = "idle"
      /\ \A g \in Hook \ {h} : hpc'[g] = hpc[g] /\ hev'[g] = hev[g]
  BY <1>0, HookEndsFacts DEF Enqueued
<1>3. \A e : Promised(e) => Promised(e)'
  BY <1>1, LedgerFrame
<1>4. SafeStays
  BY <1>1, <1>3, SafeFrame
<1>5. BatchInv' /\ RowInv'
  BY <1>1, ScanFrame DEF Inv
<1>6. hev[h] \in Event /\ (hev[h] \in glued \/ Safe(hev[h]))
  BY <1>0, <1>1 DEF HookSafe
<1>7. AcceptedSafe'
  <2>1. ASSUME NEW e \in accepted' \ glued'
        PROVE  Promised(e)' \/ Safe(e)'
    <3>1. e \in Event /\ e \notin glued
      BY <1>0, <1>1, <1>6 DEF HistoryType
    <3>2. Promised(e) \/ Safe(e)
      BY <1>1, <1>6, <3>1 DEF Inv, AcceptedSafe
    <3>. QED BY <1>3, <1>4, <3>1, <3>2 DEF SafeStays
  <2>. QED BY <1>1, <2>1 DEF AcceptedSafe
<1>8. HookInv'
  <2>1. ASSUME NEW g \in Hook \ {h}
        PROVE  HookSafe(g)'
    BY <1>1, <1>2, <1>4, HookKeeps DEF Inv, HookInv
  <2>2. HookSafe(h)'
    BY <1>2 DEF HookSafe
  <2>. QED BY <2>1, <2>2 DEF HookInv
<1>9. LockInv' /\ LockType'
  BY <1>0, <1>1, <1>2 DEF LockInv, LockType
<1>10. RecordedOnce' /\ GenerationsCount'
  BY <1>1, RowsFrame DEF Inv
<1>11. HistoryType' /\ ScanType' /\ LedgerType' /\ QueueType'
  BY <1>0, <1>1, <1>6, TypeFrame DEF HistoryType, QueueType
<1>. QED BY <1>2, <1>5, <1>7, <1>8, <1>9, <1>10, <1>11, TypeParts DEF Inv
-----------------------------------------------------------------------------
(* The scan's steps.                                                       *)

\* The hooks' half of a step of the scan that leaves the queue's lines.
LEMMA ScanOnly ==
    ASSUME Inv, UNCHANGED <<hooks, lines, disk, linked, accepted, glued, calls>>,
           torn' \in BOOLEAN, crashes' \in Nat, spc' = "truncate" => spc = "truncate",
           \A e \in Event : Promised(e) => Promised(e)'
    PROVE  HookInv' /\ AcceptedSafe' /\ HookType' /\ QueueType' /\ HistoryType'
<1>0. QueueType /\ HookType /\ HistoryType
  BY TypeParts DEF Inv
<1>1. /\ lines' = lines /\ disk' = disk /\ linked' = linked /\ accepted' = accepted
      /\ glued' = glued /\ calls' = calls
  OBVIOUS
<1>2. SafeStays
  BY <1>1, SafeFrame
<1>3. HookInv' /\ AcceptedSafe'
  BY <1>0, <1>1, <1>2, HooksFrame DEF Inv
<1>. QED BY <1>0, <1>1, <1>3, TypeFrame DEF QueueType, HistoryType

\* Steps of the scan that leave the ledger too.
LEMMA LookOnly ==
    ASSUME Inv, UNCHANGED <<hooks, lines, disk, linked, accepted, glued, calls, rows, kept>>,
           torn' \in BOOLEAN, crashes' \in Nat, ledgerTorn' \in BOOLEAN,
           spc' = "truncate" => spc = "truncate",
           ScanType', LockType', LockInv', BatchInv', RowInv'
    PROVE  Inv'
<1>0. LedgerType
  BY TypeParts DEF Inv
<1>1. rows' = rows /\ kept' = kept
  OBVIOUS
<1>2. RecordedOnce' /\ GenerationsCount'
  BY <1>1, RowsFrame DEF Inv
<1>3. LedgerType'
  <2>1. rows' \in Seq(EventRow) /\ kept' \in 0..Len(rows')
    BY <1>0, <1>1 DEF LedgerType
  <2>. QED BY <2>1 DEF LedgerType
<1>4. HookInv' /\ AcceptedSafe' /\ HookType' /\ QueueType' /\ HistoryType'
  BY <1>1, ScanOnly, LedgerFrame
<1>. QED BY <1>2, <1>3, <1>4, TypeParts DEF Inv

\* The scan stops: it reads an empty queue, cannot append, has compacted, is
\* killed.
LEMMA StopsInv ==
    ASSUME Inv, FlushEnds,
           UNCHANGED <<hooks, lines, disk, linked, torn, accepted, glued, calls, ledger>>,
           crashes' \in Nat
    PROVE  Inv'
<1>0. QueueType /\ HookType /\ LockType /\ LedgerType /\ HistoryType /\ LockInv
  BY TypeParts DEF Inv
<1>1. hpc' = hpc /\ rows' = rows /\ kept' = kept /\ ledgerTorn' = ledgerTorn /\ torn' = torn
  BY DEF hooks, ledger
<1>2. ScanType' /\ LockType' /\ LockInv' /\ BatchInv' /\ RowInv'
  BY <1>0, <1>1, FlushEndsFacts
<1>3. torn' \in BOOLEAN /\ ledgerTorn' \in BOOLEAN
  BY <1>0, <1>1 DEF QueueType, LedgerType
<1>4. spc' # "truncate"
  BY DEF FlushEnds
<1>. QED BY <1>1, <1>2, <1>3, <1>4, LookOnly

LEMMA StartScanInv ==
    ASSUME Inv, StartScan
    PROVE  Inv'
<1>0. QueueType /\ HookType /\ LockType /\ ScanType /\ LedgerType /\ HistoryType /\ LockInv
  BY TypeParts DEF Inv
<1>1. /\ spc' = "recover" /\ batch' = batch /\ gen' = gen /\ flock' = flock /\ hpc' = hpc
      /\ torn' = torn /\ ledgerTorn' = ledgerTorn /\ crashes' = crashes
      /\ UNCHANGED <<hooks, lines, disk, linked, accepted, glued, calls, rows, kept>>
  BY DEF StartScan, queue, hooks, ledger, history
<1>2. ScanType' /\ LockType'
  BY <1>0, <1>1 DEF ScanType, LockType
<1>3. LockInv' /\ BatchInv' /\ RowInv'
  BY <1>0, <1>1 DEF LockInv, BatchInv, RowInv, Flushing
<1>4. torn' \in BOOLEAN /\ ledgerTorn' \in BOOLEAN
  BY <1>0, <1>1 DEF QueueType, LedgerType
<1>5. crashes' \in Nat
  BY <1>0, <1>1 DEF HistoryType
<1>. QED BY <1>1, <1>2, <1>3, <1>4, <1>5, LookOnly

LEMMA PromiseAll ==
    ASSUME LedgerType, rows' = rows, kept' = Len(rows), ledgerTorn' \in BOOLEAN
    PROVE  LedgerType' /\ \A e : Promised(e) => Promised(e)'
<1>1. Len(rows) \in Nat /\ kept <= Len(rows) /\ kept \in Nat
  <2>1. Len(rows) \in Nat
    BY LenProperties DEF LedgerType
  <2>2. kept \in 0..Len(rows)
    BY DEF LedgerType
  <2>. QED BY <2>1, <2>2
<1>2. kept' \in 0..Len(rows')
  BY <1>1
<1>3. LedgerType'
  BY <1>2 DEF LedgerType
<1>4. ASSUME NEW e, Promised(e)
      PROVE  Promised(e)'
  BY <1>1, <1>3, <1>4, PromisedGrows
<1>. QED BY <1>3, <1>4

LEMMA RecoverInv ==
    ASSUME Inv, Recover
    PROVE  Inv'
<1>0. QueueType /\ HookType /\ LockType /\ ScanType /\ LedgerType /\ HistoryType /\ LockInv
  BY TypeParts DEF Inv
<1>1. /\ spc = "recover" /\ spc' = "lock" /\ batch' = batch /\ gen' = gen /\ flock' = flock
      /\ hpc' = hpc /\ rows' = rows /\ kept' = Len(rows) /\ ledgerTorn' = FALSE
      /\ torn' = torn /\ crashes' = crashes
      /\ UNCHANGED <<hooks, lines, disk, linked, accepted, glued, calls>>
  BY DEF Recover, queue, hooks, history
<1>2. ledgerTorn' \in BOOLEAN
  BY <1>1
<1>3. LedgerType' /\ \A e : Promised(e) => Promised(e)'
  BY <1>0, <1>1, <1>2, PromiseAll
<1>4. ScanType' /\ LockType'
  BY <1>0, <1>1 DEF ScanType, LockType
<1>5. LockInv' /\ BatchInv' /\ RowInv'
  BY <1>0, <1>1 DEF LockInv, BatchInv, RowInv, Flushing
<1>6. torn' \in BOOLEAN
  BY <1>0, <1>1 DEF QueueType
<1>7. crashes' \in Nat
  BY <1>0, <1>1 DEF HistoryType
<1>8. HookInv' /\ AcceptedSafe' /\ HookType' /\ QueueType' /\ HistoryType'
  BY <1>1, <1>3, <1>6, <1>7, ScanOnly
<1>9. RecordedOnce' /\ GenerationsCount'
  BY <1>1, RowsFrame DEF Inv
<1>. QED BY <1>3, <1>4, <1>5, <1>8, <1>9, TypeParts DEF Inv

LEMMA ReadQueueInv ==
    ASSUME Inv, ReadQueue
    PROVE  Inv'
<1>0. QueueType /\ HookType /\ LockType /\ ScanType /\ LedgerType /\ HistoryType /\ LockInv
  BY TypeParts DEF Inv
<1>1. /\ spc = "lock" /\ flock = NoProc /\ hpc' = hpc
      /\ torn' = torn /\ ledgerTorn' = ledgerTorn /\ crashes' = crashes
      /\ lines' = lines /\ rows' = rows /\ kept' = kept
      /\ UNCHANGED <<hooks, lines, disk, linked, torn, accepted, glued, calls, ledger>>
      /\ UNCHANGED <<hooks, lines, disk, linked, accepted, glued, calls, rows, kept>>
  BY DEF ReadQueue, queue, hooks, ledger, history
<1>2. torn' \in BOOLEAN /\ ledgerTorn' \in BOOLEAN
  BY <1>0, <1>1 DEF QueueType, LedgerType
<1>3. crashes' \in Nat
  BY <1>0, <1>1 DEF HistoryType
<1>4. CASE lines = <<>>
  <2>1. FlushEnds
    BY <1>4 DEF ReadQueue
  <2>. QED BY <1>1, <1>3, <2>1, StopsInv
<1>5. CASE lines # <<>>
  <2>1. flock' = Scan /\ batch' = lines /\ spc' = "line" /\ gen' = gen
    BY <1>5 DEF ReadQueue
  <2>2. ScanType' /\ LockType'
    BY <1>0, <2>1 DEF ScanType, LockType, QueueType, Flushing
  <2>3. LockInv'
    BY <1>0, <1>1, <2>1, HolderAssumption DEF LockInv
  <2>4. BatchInv'
    <3>1. Len(lines) \in Nat
      BY <1>0, LenProperties DEF QueueType
    <3>2. \A i \in 1..Len(lines) : lines[Len(lines) - Len(lines) + i] = lines[i]
      BY <3>1
    <3>3. \A i \in 1..Len(lines) - Len(lines) : FALSE
      BY <3>1
    <3>. QED BY <1>1, <2>1, <3>1, <3>2, <3>3 DEF BatchInv
  <2>5. RowInv'
    BY <1>1, <2>1 DEF Inv, RowInv
  <2>. QED BY <1>1, <1>2, <1>3, <2>1, <2>2, <2>3, <2>4, <2>5, LookOnly
<1>. QED BY <1>4, <1>5

\* The first line of the batch is the first that is not done; without it the
\* batch is the end of the file still.
LEMMA BatchMoves ==
    ASSUME QueueType, ScanType, spc \in {"line", "append", "fsync"}, batch # <<>>, BatchInv,
           NEW line, line = batch[1], Done(line)', \A e : Promised(e) => Promised(e)',
           lines' = lines, batch' = Tail(batch), spc' = "line"
    PROVE  BatchInv' /\ batch' \in Seq(Line)
<1>1. /\ lines \in Seq(Line) /\ Len(lines) \in Nat /\ batch \in Seq(Line)
  BY LenProperties DEF QueueType, ScanType
<1>2. /\ Len(batch) \in Nat \ {0} /\ Tail(batch) \in Seq(Line)
      /\ Len(Tail(batch)) = Len(batch) - 1
      /\ \A i \in 1..Len(batch) - 1 : Tail(batch)[i] = batch[i + 1]
  BY <1>1, TailFacts
<1>3. /\ Len(batch) <= Len(lines)
      /\ \A i \in 1..Len(batch) : batch[i] = lines[Len(lines) - Len(batch) + i]
      /\ \A i \in 1..Len(lines) - Len(batch) : Done(lines[i])
  BY DEF BatchInv
<1>4. batch' \in Seq(Line) /\ Len(batch') = Len(batch) - 1 /\ Len(batch') <= Len(lines')
  BY <1>1, <1>2, <1>3
<1>5. ASSUME NEW i \in 1..Len(batch')
      PROVE  batch'[i] = lines'[Len(lines') - Len(batch') + i]
  <2>1. i \in 1..Len(batch) - 1 /\ i + 1 \in 1..Len(batch)
    BY <1>2, <1>4
  <2>2. batch'[i] = lines[Len(lines) - Len(batch) + (i + 1)]
    BY <1>2, <1>3, <2>1
  <2>3. Len(lines) - Len(batch) + (i + 1) = Len(lines) - (Len(batch) - 1) + i
    BY <1>1, <1>2, <2>1
  <2>. QED BY <1>4, <2>2, <2>3
<1>6. ASSUME NEW i \in 1..Len(lines') - Len(batch')
      PROVE  Done(lines[i])'
  <2>0. Len(lines') - Len(batch') = Len(lines) - Len(batch) + 1
    BY <1>1, <1>2, <1>4
  <2>1. i \in 1..Len(lines) - Len(batch) \/ i = Len(lines) - Len(batch) + 1
    BY <1>1, <1>2, <2>0
  <2>2. CASE i \in 1..Len(lines) - Len(batch)
    <3>1. PICK l : l = lines[i]
      OBVIOUS
    <3>2. Done(l)'
      BY <1>3, <2>2, <3>1 DEF Done
    <3>3. l = lines'[i]
      BY <3>1
    <3>. QED BY <3>2, <3>3 DEF Done, Promised
  <2>3. CASE i = Len(lines) - Len(batch) + 1
    <3>1. 1 \in 1..Len(batch)
      BY <1>2
    <3>2. line = lines'[i]
      BY <1>3, <2>3, <3>1
    <3>. QED BY <3>2 DEF Done, Promised
  <2>. QED BY <2>1, <2>2, <2>3
<1>. QED BY <1>4, <1>5, <1>6 DEF BatchInv
\* A step of the flush in another line of the batch, as LookOnly needs it.
LEMMA FlushingFacts ==
    ASSUME Inv, spc \in Flushing, spc' \in Flushing, UNCHANGED <<flock, hooks>>,
           UNCHANGED <<torn, ledgerTorn, crashes>>
    PROVE  /\ LockType' /\ LockInv' /\ crashes' \in Nat
           /\ torn' \in BOOLEAN /\ ledgerTorn' \in BOOLEAN
<1>0. QueueType /\ LedgerType /\ LockType /\ HistoryType /\ LockInv
  BY TypeParts DEF Inv
<1>1. flock' = flock /\ hpc' = hpc /\ crashes' = crashes /\ torn' = torn /\ ledgerTorn' = ledgerTorn
  BY DEF hooks
<1>2. torn' \in BOOLEAN /\ ledgerTorn' \in BOOLEAN
  BY <1>0, <1>1 DEF QueueType, LedgerType
<1>3. crashes' \in Nat
  BY <1>0, <1>1 DEF HistoryType
<1>. QED BY <1>0, <1>1, <1>2, <1>3 DEF LockInv, LockType

LEMMA RejectInv ==
    ASSUME Inv, Reject
    PROVE  Inv'
<1>0. QueueType /\ ScanType
  BY TypeParts DEF Inv
<1>1. /\ spc = "line" /\ batch # <<>> /\ batch[1] = Bad /\ batch' = Tail(batch)
      /\ spc' = "line" /\ gen' = gen /\ rows' = rows /\ kept' = kept /\ lines' = lines
      /\ UNCHANGED <<hooks, lines, disk, linked, accepted, glued, calls, rows, kept>>
      /\ UNCHANGED <<flock, hooks>> /\ UNCHANGED <<torn, ledgerTorn, crashes>>
  BY DEF Reject, queue, hooks, ledger, history
<1>2. \A e : Promised(e) => Promised(e)'
  BY <1>1, LedgerFrame
<1>3. Done(Bad)'
  BY DEF Done
<1>4. BatchInv' /\ batch' \in Seq(Line)
  <2>1. BatchInv
    BY DEF Inv
  <2>. QED BY <1>0, <1>1, <1>2, <1>3, <2>1, BatchMoves
<1>5. RowInv' /\ ScanType'
  BY <1>0, <1>1, <1>4 DEF Inv, RowInv, ScanType, Flushing
<1>6. /\ LockType' /\ LockInv' /\ crashes' \in Nat
      /\ torn' \in BOOLEAN /\ ledgerTorn' \in BOOLEAN
  BY <1>1, FlushingFacts DEF Flushing
<1>. QED BY <1>1, <1>4, <1>5, <1>6, LookOnly

LEMMA ReadRowsInv ==
    ASSUME Inv, ReadRows
    PROVE  Inv'
<1>0. ScanType /\ LedgerType /\ HistoryType /\ BatchInv /\ RowInv /\ GenerationsCount
  BY TypeParts DEF Inv
<1>1. /\ spc = "line" /\ batch # <<>> /\ batch[1] # Bad
      /\ UNCHANGED <<hooks, lines, disk, linked, torn, accepted, glued, calls, ledger>>
      /\ UNCHANGED <<hooks, lines, disk, linked, accepted, glued, calls, rows, kept>>
      /\ UNCHANGED <<torn, ledgerTorn, crashes>> /\ UNCHANGED hooks
      /\ lines' = lines /\ rows' = rows /\ kept' = kept
  BY DEF ReadRows, queue, ledger, history
<1>2. CASE ledgerTorn
  <2>1. FlushEnds /\ crashes' \in Nat
    BY <1>0, <1>1, <1>2 DEF ReadRows, HistoryType
  <2>. QED BY <1>1, <2>1, StopsInv
<1>3. CASE ~ledgerTorn
  <2>1. /\ gen' = IF batch[1] = Refused THEN 0 ELSE Generation(batch[1])
        /\ spc' = "append" /\ batch' = batch /\ flock' = flock
    BY <1>3 DEF ReadRows
  <2>2. ScanType'
    <3>1. gen' \in Nat
      BY <1>0, <2>1, GenerationType
    <3>. QED BY <1>0, <2>1, <3>1 DEF ScanType, Flushing
  <2>3. BatchInv'
    <3>1. \A e : Done(e) => Done(e)'
      BY <1>1, LedgerFrame DEF Done
    <3>. QED BY <1>0, <1>1, <2>1, <3>1 DEF BatchInv
  <2>4. RowInv'
    <3>1. Generation(batch[1])' = Generation(batch[1])
      BY <1>1, <2>1, GenerationFrame
    <3>. QED BY <1>0, <1>1, <2>1, <3>1 DEF RowInv
  <2>5. /\ LockType' /\ LockInv' /\ crashes' \in Nat
        /\ torn' \in BOOLEAN /\ ledgerTorn' \in BOOLEAN
    BY <1>1, <2>1, FlushingFacts DEF Flushing
  <2>. QED BY <1>1, <2>1, <2>2, <2>3, <2>4, <2>5, LookOnly
<1>. QED BY <1>2, <1>3

\* One row more: it is no replay and continues the generations.
LEMMA RowAppended ==
    ASSUME LedgerType, kept = Len(rows), NEW e \in Event, ~Recorded(e),
           rows' = Append(rows, [ev |-> e, gen |-> Generation(e)]),
           kept' = kept, ledgerTorn' = ledgerTorn, RecordedOnce, GenerationsCount
    PROVE  /\ LedgerType' /\ RecordedOnce' /\ GenerationsCount'
           /\ rows' # <<>> /\ rows'[Len(rows')].ev = e
           /\ \A x : Promised(x) => Promised(x)'
<1> DEFINE g == Generation(e)
           new == [ev |-> e, gen |-> g]
           last == Len(rows)
<1>0. last \in Nat /\ rows \in Seq(EventRow)
      /\ \A n \in 1..last : rows[n].ev \in Event /\ rows[n].gen \in Nat
  BY RowFacts
<1>1. g \in Nat /\ new \in EventRow /\ new.ev = e /\ new.gen = g
  BY GenerationType DEF EventRow
<1>2. rows' = Append(rows, new)
  OBVIOUS
<1>3. /\ Current \in Nat /\ \A n \in 1..last : rows[n].gen <= Current
      /\ rows # <<>> => Current = rows[last].gen
  BY CurrentIsLast
<1>4. /\ Current <= g
      /\ KindOf[e] = "compact_pre" => Current < g
      /\ rows # <<>> /\ KindOf[rows[last].ev] = "compact_pre" /\ KindOf[e] = "compact_start"
            => g = rows[last].gen
  BY <1>3 DEF Generation
<1> HIDE DEF g, new
<1>5. /\ rows' \in Seq(EventRow) /\ Len(rows') = last + 1
      /\ \A i \in 1..last : rows'[i] = rows[i]
      /\ rows'[last + 1] = new
  BY <1>0, <1>1, <1>2, AppendFacts
<1>6. LedgerType'
  <2>1. kept' \in 0..Len(rows')
    BY <1>0, <1>5
  <2>2. ledgerTorn' \in BOOLEAN
    BY DEF LedgerType
  <2>. QED BY <1>5, <2>1, <2>2 DEF LedgerType
<1>7. RecordedOnce'
  <2>1. \A i \in 1..last : rows[i].ev # e
    BY DEF Recorded
  <2>2. ASSUME NEW m \in 1..Len(rows'), NEW n \in 1..Len(rows'), rows'[m].ev = rows'[n].ev
        PROVE  m = n
    <3>1. (m \in 1..last \/ m = last + 1) /\ (n \in 1..last \/ n = last + 1)
      BY <1>0, <1>5
    <3>. QED BY <1>1, <1>5, <2>1, <2>2, <3>1 DEF RecordedOnce
  <2>. QED BY <2>2 DEF RecordedOnce
<1>8. GenerationsCount'
  <2>1. ASSUME NEW m \in 1..Len(rows'), NEW n \in 1..Len(rows'), m < n
        PROVE  /\ rows'[m].gen <= rows'[n].gen
               /\ KindOf[rows'[n].ev] = "compact_pre" => rows'[m].gen < rows'[n].gen
               /\ n = m + 1 /\ KindOf[rows'[m].ev] = "compact_pre"
                    /\ KindOf[rows'[n].ev] = "compact_start" => rows'[m].gen = rows'[n].gen
    <3>0. m \in 1..last /\ (n \in 1..last \/ n = last + 1)
      <4>1. last \in Nat /\ m \in 1..last + 1 /\ n \in 1..last + 1
        BY <1>0, <1>5
      <4> HIDE DEF last
      <4>. QED BY <2>1, <4>1
    <3>1. m \in 1..last /\ (n \in 1..last \/ n = last + 1) /\ rows'[m] = rows[m]
      BY <1>5, <3>0
    <3>2. CASE n \in 1..last
      <4>1. rows'[n] = rows[n]
        BY <1>5, <3>2
      <4>. QED BY <2>1, <3>1, <3>2, <4>1 DEF GenerationsCount
    <3>3. CASE n = last + 1
      <4>1. rows'[n].ev = e /\ rows'[n].gen = g
        BY <1>1, <1>5, <3>3
      <4>2. rows[m].gen <= Current /\ rows[m].gen \in Nat
        BY <1>0, <1>3, <3>1
      <4>3. rows'[m].gen <= rows'[n].gen
        BY <1>1, <1>3, <1>4, <3>1, <4>1, <4>2
      <4>4. KindOf[rows'[n].ev] = "compact_pre" => rows'[m].gen < rows'[n].gen
        BY <1>1, <1>3, <1>4, <3>1, <4>1, <4>2
      <4>5. ASSUME n = m + 1, KindOf[rows'[m].ev] = "compact_pre",
                   KindOf[rows'[n].ev] = "compact_start"
            PROVE  rows'[m].gen = rows'[n].gen
        <5>1. m = last /\ rows # <<>>
          BY <1>0, <3>1, <3>3, <4>5, EmptySeq
        <5>. QED BY <1>4, <3>1, <4>1, <4>5, <5>1
      <4>. QED BY <4>3, <4>4, <4>5
    <3>. QED BY <3>1, <3>2, <3>3
  <2>. QED BY <2>1 DEF GenerationsCount
<1>9. \A x : Promised(x) => Promised(x)'
  BY <1>5 DEF Promised
<1>10. rows' # <<>> /\ rows'[Len(rows')].ev = e
  <2>1. Len(rows') # 0
    BY <1>0, <1>5
  <2>. QED BY <1>1, <1>5, <2>1, EmptySeq
<1>. QED BY <1>6, <1>7, <1>8, <1>9, <1>10

LEMMA AppendEventInv ==
    ASSUME Inv, AppendEvent
    PROVE  Inv'
<1>0. /\ QueueType /\ ScanType /\ LedgerType /\ HistoryType
      /\ BatchInv /\ RowInv /\ RecordedOnce /\ GenerationsCount
  BY TypeParts DEF Inv
<1>1. /\ spc = "append" /\ batch[1] # Refused
      /\ lines' = lines /\ kept' = kept /\ ledgerTorn' = ledgerTorn
      /\ UNCHANGED <<hooks, lines, disk, linked, accepted, glued, calls>>
      /\ UNCHANGED <<torn, ledgerTorn, crashes>> /\ UNCHANGED <<flock, hooks>>
  BY DEF AppendEvent, queue, history
<1>2. batch # <<>> /\ batch[1] # Bad /\ kept = Len(rows) /\ gen = Generation(batch[1])
  BY <1>0, <1>1 DEF BatchInv, RowInv
<1>3. PICK e \in Event : e = batch[1]
  <2>1. 1 \in 1..Len(batch)
    BY <1>0, <1>2, TailFacts DEF ScanType
  <2>2. batch[1] \in Line
    BY <1>0, <2>1, ElementOfSeq DEF ScanType
  <2>. QED BY <1>1, <1>2, <2>2 DEF Line
<1>4. CASE Recorded(e)
  <2>1. /\ batch' = Tail(batch) /\ gen' = 0 /\ spc' = "line" /\ rows' = rows
        /\ UNCHANGED <<hooks, lines, disk, linked, accepted, glued, calls, rows, kept>>
    BY <1>1, <1>3, <1>4 DEF AppendEvent
  <2>2. \A x : Promised(x) => Promised(x)'
    BY <1>1, <2>1, LedgerFrame
  <2>3. Done(e)'
    BY <1>2, <1>4, <2>2 DEF Recorded, Promised, Done
  <2>4. BatchInv' /\ batch' \in Seq(Line)
    BY <1>0, <1>1, <1>2, <1>3, <2>1, <2>2, <2>3, BatchMoves
  <2>5. ScanType' /\ RowInv'
    BY <1>1, <1>2, <2>1, <2>4 DEF ScanType, RowInv, Flushing
  <2>6. /\ LockType' /\ LockInv' /\ crashes' \in Nat
        /\ torn' \in BOOLEAN /\ ledgerTorn' \in BOOLEAN
    BY <1>1, <2>1, FlushingFacts DEF Flushing
  <2>. QED BY <2>1, <2>4, <2>5, <2>6, LookOnly
<1>5. CASE ~Recorded(e)
  <2>1. /\ rows' = Append(rows, [ev |-> e, gen |-> Generation(e)])
        /\ spc' = "fsync" /\ batch' = batch /\ gen' = gen
    BY <1>2, <1>3, <1>5 DEF AppendEvent
  <2>2. /\ LedgerType' /\ RecordedOnce' /\ GenerationsCount'
        /\ rows' # <<>> /\ rows'[Len(rows')].ev = e
        /\ \A x : Promised(x) => Promised(x)'
    BY <1>0, <1>1, <1>2, <1>5, <2>1, RowAppended
  <2>3. ScanType' /\ RowInv'
    BY <1>0, <1>3, <2>1, <2>2 DEF ScanType, RowInv, Flushing
  <2>4. BatchInv'
    <3>1. \A x : Done(x) => Done(x)'
      BY <2>2 DEF Done
    <3>. QED BY <1>0, <1>1, <2>1, <3>1 DEF BatchInv
  <2>5. LockType' /\ LockInv' /\ crashes' \in Nat /\ torn' \in BOOLEAN
    BY <1>1, <2>1, FlushingFacts DEF Flushing
  <2>6. HookInv' /\ AcceptedSafe' /\ HookType' /\ QueueType' /\ HistoryType'
    BY <1>1, <2>1, <2>2, <2>5, ScanOnly
  <2>. QED BY <2>2, <2>3, <2>4, <2>5, <2>6, TypeParts DEF Inv
<1>. QED BY <1>4, <1>5

LEMMA EventAppendedInv ==
    ASSUME Inv, EventAppended
    PROVE  Inv'
<1>0. QueueType /\ ScanType /\ LedgerType /\ HistoryType /\ BatchInv /\ RowInv
  BY TypeParts DEF Inv
<1>1. /\ spc = "fsync" /\ lines' = lines /\ rows' = rows /\ ledgerTorn' = ledgerTorn
      /\ kept' = Len(rows) /\ batch' = Tail(batch) /\ gen' = 0 /\ spc' = "line"
      /\ UNCHANGED <<hooks, lines, disk, linked, accepted, glued, calls>>
      /\ UNCHANGED <<torn, ledgerTorn, crashes>> /\ UNCHANGED <<flock, hooks>>
  BY DEF EventAppended, queue, history
<1>2. batch # <<>> /\ rows # <<>> /\ rows[Len(rows)].ev = batch[1]
  BY <1>0, <1>1 DEF BatchInv, RowInv
<1>3. ledgerTorn' \in BOOLEAN
  BY <1>0, <1>1 DEF LedgerType
<1>4. LedgerType' /\ \A x : Promised(x) => Promised(x)'
  BY <1>0, <1>1, <1>3, PromiseAll
<1>5. PICK line : line = batch[1]
  OBVIOUS
<1>6. Done(line)'
  <2>1. Len(rows) \in Nat \ {0}
    BY <1>0, <1>2, RowFacts, EmptySeq
  <2>2. Len(rows) \in 1..Len(rows)
    BY <2>1
  <2>. QED BY <1>1, <1>2, <1>5, <2>2 DEF Done, Promised
<1>7. BatchInv' /\ batch' \in Seq(Line)
  BY <1>0, <1>1, <1>2, <1>4, <1>5, <1>6, BatchMoves
<1>8. ScanType' /\ RowInv'
  BY <1>1, <1>7 DEF ScanType, RowInv, Flushing
<1>9. LockType' /\ LockInv' /\ crashes' \in Nat /\ torn' \in BOOLEAN
  BY <1>1, FlushingFacts DEF Flushing
<1>10. HookInv' /\ AcceptedSafe' /\ HookType' /\ QueueType' /\ HistoryType'
  BY <1>1, <1>4, <1>9, ScanOnly
<1>11. RecordedOnce' /\ GenerationsCount'
  BY <1>1, RowsFrame DEF Inv
<1>. QED BY <1>4, <1>7, <1>8, <1>9, <1>10, <1>11, TypeParts DEF Inv
\* The compaction takes lines that are all done: nothing safe is lost.
LEMMA CompactionKeeps ==
    ASSUME Inv, spc \in Flushing, \A i \in 1..Len(lines) : Done(lines[i]),
           UNCHANGED <<hooks, linked, accepted, glued, rows, kept>>
    PROVE  HookInv' /\ AcceptedSafe'
<1>0. QueueType /\ HookType /\ HistoryType /\ LockInv /\ HookInv /\ AcceptedSafe
  BY TypeParts DEF Inv
<1>1. UNCHANGED <<hooks, accepted, glued, linked>> /\ rows' = rows /\ kept' = kept
  OBVIOUS
<1>2. \A e : Promised(e) => Promised(e)'
  BY <1>1, LedgerFrame
<1>3. SafeStays
  BY <1>0, <1>2, DoneLeavesNothing DEF SafeStays, Safe
<1>. QED BY <1>0, <1>1, <1>2, <1>3, HooksFrame

\* What an incomplete tail makes of the lines it is written over.
LEMMA OverlaidType ==
    ASSUME NEW t \in Seq(Line)
    PROVE  Overlaid(t) \subseteq Seq(Line)
<1>1. <<>> \in Seq(Line)
  BY EmptySeq
<1>2. ASSUME NEW u \in Overlaid(t), u # <<>>
      PROVE  u \in Seq(Line)
  <2>1. PICK n \in 1..Len(t) : u \in {<<x>> \o SubSeq(t, n + 1, Len(t)) : x \in Line}
    BY <1>2 DEF Overlaid
  <2>2. PICK x \in Line : u = <<x>> \o SubSeq(t, n + 1, Len(t))
    BY <2>1
  <2>. QED BY <2>2, ConcatFacts
<1>. QED BY <1>1, <1>2

LEMMA WriteTailInv ==
    ASSUME Inv, WriteTail
    PROVE  Inv'
<1>0. QueueType /\ HookType /\ ScanType /\ LedgerType /\ HistoryType /\ BatchInv /\ RowInv
  BY TypeParts DEF Inv
<1>1. /\ spc = "line" /\ batch = <<>> /\ spc' = "truncate" /\ batch' = batch /\ gen' = gen
      /\ rows' = rows /\ kept' = kept /\ torn' = torn /\ disk' = disk /\ linked' = linked
      /\ UNCHANGED <<hooks, linked, accepted, glued, rows, kept>>
      /\ UNCHANGED <<torn, ledgerTorn, crashes>> /\ UNCHANGED <<flock, hooks>>
      /\ UNCHANGED hooks /\ UNCHANGED ledger /\ UNCHANGED history
  BY DEF WriteTail, hooks, ledger, history
<1>2. lines \in Seq(Line) /\ Len(lines) \in Nat
  BY <1>0, LenProperties DEF QueueType
<1>3. \A i \in 1..Len(lines) : Done(lines[i])
  <2>1. Len(batch) = 0
    BY <1>1, EmptySeq
  <2>2. Len(lines) - Len(batch) = Len(lines)
    BY <1>2, <2>1
  <2>. QED BY <1>0, <1>1, <2>2 DEF BatchInv
<1>4. lines' \in Seq(Line)
  BY <1>1, <1>2, OverlaidType DEF WriteTail
<1>5. BatchInv'
  BY <1>1 DEF BatchInv
<1>6. RowInv' /\ ScanType'
  BY <1>0, <1>1 DEF RowInv, ScanType, Flushing
<1>7. HookInv' /\ AcceptedSafe'
  BY <1>1, <1>3, CompactionKeeps DEF Flushing
<1>8. LockType' /\ LockInv'
  BY <1>1, FlushingFacts DEF Flushing
<1>9. RecordedOnce' /\ GenerationsCount'
  BY <1>1, RowsFrame DEF Inv
<1>10. QueueType'
  BY <1>0, <1>1, <1>4 DEF QueueType
<1>11. HookType' /\ LedgerType' /\ HistoryType'
  BY <1>0, <1>1, TypeFrame
<1>. QED BY <1>5, <1>6, <1>7, <1>8, <1>9, <1>10, <1>11, TypeParts DEF Inv

LEMMA TruncateQueueInv ==
    ASSUME Inv, TruncateQueue
    PROVE  Inv'
<1>0. QueueType /\ HookType /\ ScanType /\ LedgerType /\ HistoryType /\ BatchInv /\ RowInv
  BY TypeParts DEF Inv
<1>1. /\ spc = "truncate" /\ spc' = "qsync" /\ batch' = batch /\ gen' = gen /\ lines' = <<>>
      /\ rows' = rows /\ kept' = kept /\ torn' = torn /\ disk' = disk /\ linked' = linked
      /\ UNCHANGED <<hooks, linked, accepted, glued, rows, kept>>
      /\ UNCHANGED <<torn, ledgerTorn, crashes>> /\ UNCHANGED <<flock, hooks>>
      /\ UNCHANGED hooks /\ UNCHANGED ledger /\ UNCHANGED history
  BY DEF TruncateQueue, hooks, ledger, history
<1>2. \A e : Promised(e) => Promised(e)'
  BY <1>1, LedgerFrame
<1>3. lines' \in Seq(Line)
  BY <1>1, EmptySeq
<1>4. BatchInv'
  BY <1>1 DEF BatchInv
<1>5. RowInv' /\ ScanType'
  BY <1>0, <1>1 DEF RowInv, ScanType, Flushing
<1>6. HookInv' /\ AcceptedSafe'
  <2>1. LockInv /\ HookInv /\ AcceptedSafe /\ spc \in Flushing
    BY <1>1 DEF Inv, Flushing
  <2>2. SafeStays
    BY <1>1, <1>2 DEF SafeStays, Safe
  <2>. QED BY <1>0, <1>1, <1>2, <2>1, <2>2, HooksFrame
<1>7. LockType' /\ LockInv'
  BY <1>1, FlushingFacts DEF Flushing
<1>8. RecordedOnce' /\ GenerationsCount'
  BY <1>1, RowsFrame DEF Inv
<1>9. QueueType'
  BY <1>0, <1>1, <1>3 DEF QueueType
<1>10. HookType' /\ LedgerType' /\ HistoryType'
  BY <1>0, <1>1, TypeFrame
<1>. QED BY <1>4, <1>5, <1>6, <1>7, <1>8, <1>9, <1>10, TypeParts DEF Inv

LEMMA SyncQueueInv ==
    ASSUME Inv, SyncQueue
    PROVE  Inv'
<1>0. /\ QueueType /\ HookType /\ LockType /\ LedgerType /\ HistoryType
      /\ LockInv /\ HookInv /\ AcceptedSafe
  BY TypeParts DEF Inv
<1>1. /\ FlushEnds /\ disk' = lines /\ lines' = lines /\ torn' = torn /\ linked' = linked
      /\ UNCHANGED <<hooks, accepted, glued, linked>> /\ hpc' = hpc
      /\ rows' = rows /\ kept' = kept
      /\ UNCHANGED hooks /\ UNCHANGED ledger /\ UNCHANGED history
  BY DEF SyncQueue, hooks, ledger, history
<1>2. ScanType' /\ LockType' /\ LockInv' /\ BatchInv' /\ RowInv'
  BY <1>0, <1>1, FlushEndsFacts
<1>3. \A e : Promised(e) => Promised(e)'
  BY <1>1, LedgerFrame
<1>4. SafeStays
  <2>1. spc' # "truncate"
    BY <1>1 DEF FlushEnds
  <2>. QED BY <1>0, <1>1, <1>3, <2>1, SyncedIsSafe
<1>5. HookInv' /\ AcceptedSafe'
  BY <1>0, <1>1, <1>3, <1>4, HooksFrame
<1>6. RecordedOnce' /\ GenerationsCount'
  BY <1>1, RowsFrame DEF Inv
<1>7. QueueType'
  BY <1>0, <1>1 DEF QueueType
<1>8. HookType' /\ LedgerType' /\ HistoryType'
  BY <1>0, <1>1, TypeFrame
<1>. QED BY <1>2, <1>5, <1>6, <1>7, <1>8, TypeParts DEF Inv

LEMMA AppendRaisesInv ==
    ASSUME Inv, AppendRaises
    PROVE  Inv'
<1>1. /\ FlushEnds /\ crashes' = crashes
      /\ UNCHANGED <<hooks, lines, disk, linked, torn, accepted, glued, calls, ledger>>
  BY DEF AppendRaises, queue, history
<1>2. crashes' \in Nat
  BY <1>1, TypeParts DEF Inv, HistoryType
<1>. QED BY <1>1, <1>2, StopsInv

-----------------------------------------------------------------------------
(* Crashes.                                                                *)

LEMMA KillScanInv ==
    ASSUME Inv, KillScan
    PROVE  Inv'
<1>1. /\ FlushEnds /\ crashes' = crashes + 1
      /\ UNCHANGED <<hooks, lines, disk, linked, torn, accepted, glued, calls, ledger>>
  BY DEF KillScan, Crashing, queue
<1>2. crashes' \in Nat
  <2>1. crashes \in Nat
    BY TypeParts DEF Inv, HistoryType
  <2>. QED BY <1>1, <2>1
<1>. QED BY <1>1, <1>2, StopsInv

LEMMA LedgerWriterDiesInv ==
    ASSUME Inv, LedgerWriterDies
    PROVE  Inv'
<1>0. QueueType /\ ScanType /\ LockType /\ HistoryType /\ LockInv /\ BatchInv /\ RowInv
  BY TypeParts DEF Inv
<1>1. /\ UNCHANGED <<hooks, lines, disk, linked, accepted, glued, calls, rows, kept>>
      /\ UNCHANGED <<scan, rows, kept>> /\ UNCHANGED scan /\ UNCHANGED flock
      /\ lines' = lines /\ torn' = torn /\ ledgerTorn' = TRUE /\ crashes' = crashes + 1
      /\ flock' = flock /\ hpc' = hpc /\ spc' = spc
  BY DEF LedgerWriterDies, Crashing, queue, hooks, scan
<1>2. BatchInv' /\ RowInv'
  BY <1>0, <1>1, ScanFrame
<1>3. ScanType' /\ LockType' /\ LockInv'
  BY <1>0, <1>1, TypeFrame DEF LockInv
<1>4. torn' \in BOOLEAN /\ ledgerTorn' \in BOOLEAN
  BY <1>0, <1>1 DEF QueueType
<1>5. crashes' \in Nat
  BY <1>0, <1>1 DEF HistoryType
<1>. QED BY <1>1, <1>2, <1>3, <1>4, <1>5, LookOnly

\* While lines were only added since the sync, what was on disk stays.
LEMMA SurvivorsBegin ==
    ASSUME NEW s, NEW part, Survives(s, part), linked, IsPrefixOf(disk, lines)
    PROVE  IsPrefixOf(disk, s)
BY DEF Survives, OnlyAppended

LEMMA PowerLossInv ==
    ASSUME Inv, PowerLoss
    PROVE  Inv'
<1>0. /\ QueueType /\ HookType /\ LockType /\ ScanType /\ LedgerType /\ HistoryType
      /\ AcceptedSafe
  BY TypeParts DEF Inv
<1>1. PICK s \in Overlaid(disk) \cup Prefixes(disk) \cup Prefixes(lines),
          part \in BOOLEAN, m \in kept..Len(rows), tornRow \in BOOLEAN :
         /\ Survives(s, part)
         /\ lines' = s /\ disk' = s /\ torn' = part
         /\ linked' = (linked \/ s # <<>> \/ part)
         /\ tornRow => ledgerTorn \/ m < Len(rows)
         /\ rows' = SubSeq(rows, 1, m) /\ kept' = m /\ ledgerTorn' = tornRow
  BY DEF PowerLoss
<1>2. /\ flock' = NoProc
      /\ hpc' = [h \in Hook |-> "idle"] /\ hev' = [h \in Hook |-> Bad]
      /\ spc' = "idle" /\ batch' = <<>> /\ gen' = 0
      /\ accepted' = accepted /\ glued' = glued /\ calls' = calls /\ crashes' = crashes + 1
  BY DEF PowerLoss, Crashing
<1>3. /\ lines \in Seq(Line) /\ Len(lines) \in Nat /\ disk \in Seq(Line) /\ Len(disk) \in Nat
  BY <1>0, LenProperties DEF QueueType
<1>4. s \in Seq(Line) /\ Len(s) \in Nat
  <2>1. ASSUME NEW t \in Seq(Line), s \in Prefixes(t)
        PROVE  s \in Seq(Line)
    BY <2>1, CutFacts DEF Prefixes
  <2>2. CASE s \in Overlaid(disk)
    BY <1>3, <2>2, OverlaidType
  <2>3. s \in Seq(Line)
    BY <1>3, <2>1, <2>2
  <2>. QED BY <2>3, LenProperties
<1>5. QueueType'
  <2>1. linked' \in BOOLEAN
    BY <1>1
  <2>. QED BY <1>1, <1>4, <2>1 DEF QueueType
<1>6. /\ m \in 0..Len(rows) /\ m \in Nat /\ kept \in Nat /\ kept <= m
      /\ rows' \in Seq(EventRow) /\ Len(rows') = m /\ \A i \in 1..m : rows'[i] = rows[i]
  <2>1. rows \in Seq(EventRow) /\ Len(rows) \in Nat
    BY <1>0, RowFacts
  <2>2. kept \in 0..Len(rows)
    BY <1>0 DEF LedgerType
  <2>3. m \in 0..Len(rows) /\ m \in Nat /\ kept \in Nat /\ kept <= m
    BY <2>1, <2>2
  <2>. QED BY <1>1, <2>1, <2>3, CutFacts
<1>7. LedgerType'
  <2>1. kept' \in 0..Len(rows')
    BY <1>1, <1>6
  <2>. QED BY <1>1, <1>6, <2>1 DEF LedgerType
<1>8. HookType' /\ LockType' /\ ScanType' /\ HistoryType'
  <2>1. <<>> \in Seq(Line)
    BY EmptySeq
  <2>. QED BY <1>0, <1>2, <2>1 DEF HookType, LockType, ScanType, HistoryType
<1>9. LockInv' /\ BatchInv' /\ RowInv' /\ HookInv'
  BY <1>2 DEF LockInv, BatchInv, RowInv, HookInv, HookSafe, Flushing
<1>10. RecordedOnce' /\ GenerationsCount'
  <2>1. \A i \in 1..Len(rows') : i \in 1..Len(rows) /\ rows'[i] = rows[i]
    <3>1. Len(rows) \in Nat
      BY <1>0, RowFacts
    <3>. QED BY <1>6, <3>1
  <2>2. RecordedOnce'
    BY <2>1 DEF Inv, RecordedOnce
  <2>3. GenerationsCount'
    BY <2>1 DEF Inv, GenerationsCount
  <2>. QED BY <2>2, <2>3
<1>11. \A e : Promised(e) => Promised(e)'
  <2>1. kept <= kept' /\ \A n \in 1..kept : rows'[n] = rows[n]
    BY <1>1, <1>6
  <2>. QED BY <1>0, <1>7, <2>1, PromisedGrows
<1>12. ASSUME NEW e \in Event, linked, IsPrefixOf(disk, lines), OnDisk(disk, e)
       PROVE  linked' /\ Safe(e)'
  <2>1. IsPrefixOf(disk, s)
    BY <1>1, <1>12, SurvivorsBegin
  <2>2. Len(disk) <= Len(s) /\ \A i \in 1..Len(disk) : disk[i] = s[i]
    BY <1>3, <1>4, <2>1, PrefixElements
  <2>3. PICK n \in 1..Len(disk) : disk[n] = e
    BY <1>12 DEF OnDisk
  <2>4. n \in 1..Len(s) /\ s[n] = e
    BY <1>3, <1>4, <2>2, <2>3
  <2>5. IsPrefixOf(s, s)
    BY <1>4, PrefixElements
  <2>6. Safe(e)'
    BY <1>1, <1>2, <2>4, <2>5 DEF Safe, OnDisk, IsPrefixOf
  <2>. QED BY <1>1, <1>12, <2>6
<1>13. AcceptedSafe'
  <2>1. ASSUME NEW e \in accepted' \ glued'
        PROVE  Promised(e)' \/ (linked' /\ Safe(e)')
    <3>1. e \in Event /\ e \in accepted \ glued
      BY <1>0, <1>2 DEF HistoryType
    <3>2. Promised(e) \/ (linked /\ IsPrefixOf(disk, lines) /\ OnDisk(disk, e))
      BY <1>0, <3>1 DEF AcceptedSafe, Safe
    <3>. QED BY <1>11, <1>12, <3>1, <3>2
  <2>. QED BY <2>1 DEF AcceptedSafe
<1>. QED BY <1>5, <1>7, <1>8, <1>9, <1>10, <1>13, TypeParts DEF Inv

-----------------------------------------------------------------------------
(* Every step; and the theorems.                                           *)

LEMMA StutterInv ==
    ASSUME Inv, UNCHANGED vars
    PROVE  Inv'
<1>0. /\ QueueType /\ HookType /\ ScanType /\ LockType /\ LedgerType /\ HistoryType
      /\ LockInv /\ BatchInv /\ RowInv
  BY TypeParts DEF Inv
<1>1. /\ UNCHANGED <<hooks, lines, disk, linked, accepted, glued, calls, rows, kept>>
      /\ UNCHANGED <<scan, rows, kept>> /\ UNCHANGED scan /\ UNCHANGED flock
      /\ lines' = lines /\ torn' = torn /\ ledgerTorn' = ledgerTorn /\ crashes' = crashes
      /\ flock' = flock /\ hpc' = hpc /\ spc' = spc
  BY DEF vars, queue, hooks, scan, ledger, history
<1>2. BatchInv' /\ RowInv'
  BY <1>0, <1>1, ScanFrame
<1>3. ScanType' /\ LockType' /\ LockInv'
  BY <1>0, <1>1, TypeFrame DEF LockInv
<1>4. torn' \in BOOLEAN /\ ledgerTorn' \in BOOLEAN
  BY <1>0, <1>1 DEF QueueType, LedgerType
<1>5. crashes' \in Nat
  BY <1>0, <1>1 DEF HistoryType
<1>. QED BY <1>1, <1>2, <1>3, <1>4, <1>5, LookOnly

LEMMA NextInv == Inv /\ [Next]_vars => Inv'
<1> SUFFICES ASSUME Inv, [Next]_vars PROVE Inv'
  OBVIOUS
<1>1. CASE KillScan \/ LedgerWriterDies \/ PowerLoss
  BY <1>1, KillScanInv, LedgerWriterDiesInv, PowerLossInv
<1>2. ASSUME NEW h \in Hook, KillHook(h) \/ ShortWrite(h)
      PROVE  Inv'
  BY <1>2, KillHookInv
<1>3. CASE StartScan
  BY <1>3, StartScanInv
<1>4. CASE Recover \/ ReadQueue \/ Reject \/ ReadRows
  BY <1>4, RecoverInv, ReadQueueInv, RejectInv, ReadRowsInv
<1>5. CASE AppendEvent \/ AppendRaises \/ EventAppended
  BY <1>5, AppendEventInv, AppendRaisesInv, EventAppendedInv
<1>6. CASE WriteTail \/ TruncateQueue \/ SyncQueue
  BY <1>6, WriteTailInv, TruncateQueueInv, SyncQueueInv
<1>7. ASSUME NEW h \in Hook, HookStep(h)
      PROVE  Inv'
  BY <1>7, LockQueueInv, WriteLineInv, SyncLineInv, EnqueuedInv DEF HookStep
<1>8. ASSUME NEW h \in Hook, NEW e \in Event, StartHook(h, e)
      PROVE  Inv'
  BY <1>8, StartHookInv
<1>9. CASE UNCHANGED vars
  BY <1>9, StutterInv
<1>. QED
  BY <1>1, <1>2, <1>3, <1>4, <1>5, <1>6, <1>7, <1>8, <1>9 DEF Next, Crash, ScanStep

THEOREM Invariant == Spec => []Inv
<1>1. Init => Inv
  BY InitInv
<1>2. Inv /\ [Next]_vars => Inv'
  BY NextInv
<1>. QED BY <1>1, <1>2, PTL DEF Spec

\* Every variable keeps its type, through overlapping hooks, replays of the
\* queue and crashes.
THEOREM TypeCorrect == Spec => []TypeOK
<1>1. Inv => TypeOK
  BY DEF Inv
<1>. QED BY <1>1, Invariant, PTL

\* enqueue_event() and flush_queue() under one flock: while a hook writes and
\* syncs its line no flush is under way, and no other hook is there.
THEOREM FileExclusive ==
    Spec => [](\A h \in Hook : hpc[h] \in {"write", "fsync"} =>
                   /\ spc \notin Flushing
                   /\ \A g \in Hook : hpc[g] \in {"write", "fsync"} => g = h)
<1>1. Inv => \A h \in Hook : hpc[h] \in {"write", "fsync"} =>
                 /\ spc \notin Flushing
                 /\ \A g \in Hook : hpc[g] \in {"write", "fsync"} => g = h
  BY HolderAssumption DEF Inv, LockInv
<1>. QED BY <1>1, Invariant, PTL

\* append_event() skips a replay: an event whose line is flushed again, after
\* whatever crash, has one row.
THEOREM OneRow == Spec => []RecordedOnce
<1>1. Inv => RecordedOnce
  BY DEF Inv
<1>. QED BY <1>1, Invariant, PTL

\* _context_generation() over the rows read before the append: the rows count
\* the compactions of the session, replays and crashes or not.
THEOREM GenerationsHold == Spec => []GenerationsCount
<1>1. Inv => GenerationsCount
  BY DEF Inv
<1>. QED BY <1>1, Invariant, PTL

\* An event the hook was told is queued is in a promised row, or in the file
\* and on disk, at every moment of compaction, replay and crash.
THEOREM NothingAcceptedIsLost == Spec => []AcceptedKept
<1>1. ASSUME Inv, NEW e \in accepted \ glued
      PROVE  Promised(e) \/ (linked /\ OnDisk(disk, e) /\ OnDisk(lines, e))
  <2>0. QueueType /\ e \in Event
    BY <1>1, TypeParts DEF Inv, HistoryType
  <2>1. Promised(e) \/ (linked /\ Safe(e))
    BY <1>1 DEF Inv, AcceptedSafe
  <2>2. ~Promised(e) => linked /\ OnDisk(disk, e) /\ OnDisk(lines, e)
    BY <2>0, <2>1, SafeInFile DEF Safe
  <2>. QED BY <2>2
<1>2. Inv => AcceptedKept
  BY <1>1 DEF AcceptedKept
<1>. QED BY <1>2, Invariant, PTL
=============================================================================
