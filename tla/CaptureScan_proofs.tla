--------------------------- MODULE CaptureScan_proofs ---------------------------
(***************************************************************************)
(* Proofs about CaptureScan, for any number of scans, transcripts, lines   *)
(* and crashes.                                                            *)
(***************************************************************************)
EXTENDS CaptureScan, SequenceTheorems, WellFoundedInduction, TLAPS

-----------------------------------------------------------------------------
(* Beginnings of sequences.                                                *)

LEMMA CutFacts ==
    ASSUME NEW S, NEW t \in Seq(S), NEW k \in 0..Len(t)
    PROVE  /\ SubSeq(t, 1, k) \in Seq(S)
           /\ Len(SubSeq(t, 1, k)) = k
           /\ \A i \in 1..k : SubSeq(t, 1, k)[i] = t[i]
<1>1. \A i \in 1..k : t[i] \in S
  BY ElementOfSeq, LenProperties
<1>2. k \in Nat
  BY LenProperties
<1>. QED BY <1>1, <1>2, SubSeqProperties, LenProperties

LEMMA PrefixElements ==
    ASSUME NEW S, NEW s \in Seq(S), NEW t \in Seq(S)
    PROVE  IsPrefixOf(s, t) <=> Len(s) <= Len(t) /\ \A i \in 1..Len(s) : s[i] = t[i]
<1>1. Len(s) \in Nat /\ Len(t) \in Nat
  BY LenProperties
<1>2. ASSUME Len(s) <= Len(t)
      PROVE  s = SubSeq(t, 1, Len(s)) <=> \A i \in 1..Len(s) : s[i] = t[i]
  <2> DEFINE c == SubSeq(t, 1, Len(s))
  <2>1. c \in Seq(S) /\ Len(c) = Len(s) /\ \A i \in 1..Len(s) : c[i] = t[i]
    BY <1>1, <1>2, CutFacts
  <2> HIDE DEF c
  <2>2. s = c <=> \A i \in 1..Len(s) : s[i] = c[i]
    BY <2>1, SeqEqual
  <2>. QED BY <2>1, <2>2 DEF c
<1>. QED BY <1>2 DEF IsPrefixOf

LEMMA PrefixOrder ==
    ASSUME NEW S, NEW s \in Seq(S), NEW t \in Seq(S)
    PROVE  /\ IsPrefixOf(s, s)
           /\ IsPrefixOf(s, t) => Len(s) <= Len(t)
           /\ \A u \in Seq(S) : IsPrefixOf(s, t) /\ IsPrefixOf(t, u) => IsPrefixOf(s, u)
<1>1. Len(s) \in Nat /\ Len(t) \in Nat
  BY LenProperties
<1>2. ASSUME NEW u \in Seq(S), IsPrefixOf(s, t), IsPrefixOf(t, u)
      PROVE  IsPrefixOf(s, u)
  <2>1. Len(u) \in Nat
    BY LenProperties
  <2>2. Len(s) <= Len(t) /\ \A i \in 1..Len(s) : s[i] = t[i]
    BY <1>2, PrefixElements
  <2>3. Len(t) <= Len(u) /\ \A i \in 1..Len(t) : t[i] = u[i]
    BY <1>2, PrefixElements
  <2>4. Len(s) <= Len(u) /\ \A i \in 1..Len(s) : s[i] = u[i]
    BY <1>1, <2>1, <2>2, <2>3
  <2>. QED BY <2>4, PrefixElements
<1>3. IsPrefixOf(s, s)
  BY <1>1, PrefixElements
<1>. QED BY <1>2, <1>3 DEF IsPrefixOf

\* A beginning of t is one of every cut of t that is no shorter, and is one
\* of t extended; what is cut off a beginning leaves a beginning.
LEMMA PrefixOfCut ==
    ASSUME NEW S, NEW s \in Seq(S), NEW t \in Seq(S), IsPrefixOf(s, t),
           NEW k \in Nat, Len(s) <= k, k <= Len(t)
    PROVE  IsPrefixOf(s, SubSeq(t, 1, k))
<1>1. Len(s) \in Nat /\ Len(t) \in Nat /\ k \in 0..Len(t)
  BY LenProperties
<1>2. \A i \in 1..Len(s) : s[i] = t[i]
  BY PrefixElements
<1> DEFINE c == SubSeq(t, 1, k)
<1>3. c \in Seq(S) /\ Len(c) = k /\ \A i \in 1..k : c[i] = t[i]
  BY <1>1, CutFacts
<1> HIDE DEF c
<1>4. Len(s) <= Len(c) /\ \A i \in 1..Len(s) : s[i] = c[i]
  BY <1>1, <1>2, <1>3
<1>. QED BY <1>3, <1>4, PrefixElements DEF c

LEMMA CutIsPrefix ==
    ASSUME NEW S, NEW s \in Seq(S), NEW t \in Seq(S), IsPrefixOf(s, t), NEW k \in 0..Len(s)
    PROVE  IsPrefixOf(SubSeq(s, 1, k), t)
<1>1. Len(s) \in Nat /\ Len(t) \in Nat
  BY LenProperties
<1>2. Len(s) <= Len(t) /\ \A i \in 1..Len(s) : s[i] = t[i]
  BY PrefixElements
<1> DEFINE c == SubSeq(s, 1, k)
<1>3. c \in Seq(S) /\ Len(c) = k /\ \A i \in 1..k : c[i] = s[i]
  BY CutFacts
<1> HIDE DEF c
<1>4. Len(c) <= Len(t) /\ \A i \in 1..Len(c) : c[i] = t[i]
  BY <1>1, <1>2, <1>3
<1>. QED BY <1>3, <1>4, PrefixElements DEF c

LEMMA AppendFacts ==
    ASSUME NEW S, NEW s \in Seq(S), NEW x \in S
    PROVE  /\ Append(s, x) \in Seq(S)
           /\ Len(Append(s, x)) = Len(s) + 1
           /\ \A i \in 1..Len(s) : Append(s, x)[i] = s[i]
           /\ Append(s, x)[Len(s) + 1] = x
BY AppendProperties, LenProperties

-----------------------------------------------------------------------------
(* The inductive invariant.                                                *)

\* Who is not idle holds capture_scan.lock: at most one scan runs.
LockInv == \A p \in Proc : pc[p] # "idle" => scanLock = p

\* The nonces of every row are on disk.
Backed ==
    \A n \in 1..Len(ledger) :
        LET s == ledger[n].session IN
        /\ nLinked[s]
        /\ IsPrefixOf(ledger[n].nonces, SubSeq(nonces[s], 1, nSynced[s]))
        /\ Len(ledger[n].nonces) = Len(ledger[n].items)

\* A nonce file gives nonces their index; a row commits to some items.
Indexed(s) == \A n \in 1..Len(nonces[s]) : nonces[s][n].i = n - 1

StoreInv ==
    /\ \A s \in Session : nSynced[s] <= Len(nonces[s]) /\ Indexed(s)
    /\ \A n \in 1..Len(ledger) : Len(ledger[n].items) > 0

\* What is archived was committed by a row that no power loss takes away.
ArchiveKept ==
    \A s \in Session :
        \/ archive[s] = <<>> /\ fragment[s] = NoItem
        \/ \E n \in RowsOf(s) : n <= kept /\ Extends(s, ledger[n].items)

\* row is the session's last, and every other one a beginning of it.
Widest(s, row) ==
    IF row = NoRow THEN RowsOf(s) = {}
    ELSE /\ \E n \in RowsOf(s) : ledger[n] = row
         /\ \A n \in RowsOf(s) : IsPrefixOf(ledger[n].items, row.items)

\* A running scan knows the widest rows, its own among them once written.
KnowsRows(p) ==
    pc[p] \notin {"idle", "recover", "covered"} =>
        \A s \in Session :
            Widest(s, IF pc[p] = "rowSync" /\ s = cur[p] THEN RowFor(p) ELSE covered[p][s])

\* It has promised them all, but for one it has just written.
KeptRows(p) == pc[p] \notin {"idle", "recover", "rowSync"} => kept = Len(ledger)

\* Until the row is written: the items continue the widest row, the nonces
\* are those of the file and do not outnumber the items.
Continues(p) ==
    LET s == cur[p] IN
    pc[p] \in {"nonce", "nonceSync", "row"} =>
        /\ Count(covered[p][s]) < Len(items[p])
        /\ covered[p][s] # NoRow => IsPrefixOf(covered[p][s].items, items[p])
        /\ known[p] = nonces[s]
        /\ Len(known[p]) <= Len(items[p])

\* A row is written when every item has a nonce and every nonce is on disk.
OnDisk(p) ==
    LET s == cur[p] IN
    pc[p] = "row" =>
        /\ Len(known[p]) = Len(items[p])
        /\ nSynced[s] = Len(nonces[s]) /\ nLinked[s]

HasRow(p) ==
    /\ pc[p] = "archive" => covered[p][cur[p]] # NoRow
    /\ pc[p] = "rowSync" => RowFor(p) # NoRow

ScanInv(p) == KnowsRows(p) /\ KeptRows(p) /\ Continues(p) /\ OnDisk(p) /\ HasRow(p)

Inv ==
    /\ TypeOK
    /\ LockInv /\ StoreInv
    /\ Backed /\ HistoryOnlyGrows /\ ArchiveKept
    /\ \A p \in Proc : ScanInv(p)
-----------------------------------------------------------------------------
(* What the invariant says of rows, as the steps use it.                   *)

LEMMA RowFacts ==
    ASSUME TypeOK
    PROVE  /\ Len(ledger) \in Nat
           /\ \A n \in 1..Len(ledger) :
                 /\ ledger[n] \in Row /\ ledger[n] # NoRow
                 /\ ledger[n].session \in Session
                 /\ ledger[n].items \in Seq(Item) /\ Len(ledger[n].items) \in Nat
                 /\ ledger[n].nonces \in Seq(Nonce) /\ Len(ledger[n].nonces) \in Nat
<1>1. ledger \in Seq(Row)
  BY DEF TypeOK
<1>2. Len(ledger) \in Nat /\ \A n \in 1..Len(ledger) : ledger[n] \in Row
  BY <1>1, LenProperties, ElementOfSeq
<1>3. ASSUME NEW r \in Row
      PROVE  /\ r # NoRow /\ r.session \in Session
             /\ r.items \in Seq(Item) /\ r.nonces \in Seq(Nonce)
  BY NoRowAssumption DEF Row
<1>. QED BY <1>2, <1>3, LenProperties

\* The widest row of a session, which CoveredBy chooses, is there.
LEMMA WidestExists ==
    ASSUME TypeOK, HistoryOnlyGrows, NEW s \in Session
    PROVE  Widest(s, CoveredBy(s)) /\ CoveredBy(s) \in Row \cup {NoRow}
<1>1. CASE RowsOf(s) = {}
  BY <1>1 DEF CoveredBy, Widest
<1>2. CASE RowsOf(s) # {}
  <2> DEFINE D == {Len(ledger) - n : n \in RowsOf(s)}
             R == OpToRel(<, Nat)
  <2>1. RowsOf(s) \subseteq 1..Len(ledger) /\ Len(ledger) \in Nat
    BY RowFacts DEF RowsOf
  <2>2. D \subseteq Nat /\ D # {}
    BY <1>2, <2>1
  <2>3. \E x \in D : \A y \in D : ~(<<y, x>> \in R)
    <3>1. IsWellFoundedOn(R, Nat)
      BY NatLessThanWellFounded
    <3> HIDE DEF R, D
    <3>. QED BY <2>2, <3>1, WFMin
  <2>4. PICK x \in D : \A y \in D : ~(y < x)
    BY <2>2, <2>3 DEF OpToRel
  <2>5. PICK last \in RowsOf(s) : x = Len(ledger) - last
    OBVIOUS
  <2>6. \A m \in RowsOf(s) : m <= last
    <3> SUFFICES ASSUME NEW m \in RowsOf(s) PROVE m <= last
      OBVIOUS
    <3>1. ~(Len(ledger) - m < Len(ledger) - last)
      BY <2>4, <2>5
    <3>. QED BY <2>1, <3>1
  <2> HIDE DEF D, R
  <2> DEFINE Wide(n) == \A m \in RowsOf(s) :
                 \/ Len(ledger[m].items) < Len(ledger[n].items)
                 \/ (Len(ledger[m].items) = Len(ledger[n].items) /\ m <= n)
  <2>7. Wide(last)
    <3> SUFFICES ASSUME NEW m \in RowsOf(s)
                 PROVE  m = last \/ Len(ledger[m].items) < Len(ledger[last].items)
      BY <2>6
    <3>1. m < last \/ m = last
      BY <2>1, <2>6
    <3>2. ledger[m].session = ledger[last].session
      BY DEF RowsOf
    <3>. QED BY <2>1, <3>1, <3>2 DEF HistoryOnlyGrows
  <2>8. CoveredBy(s) = ledger[CHOOSE n \in RowsOf(s) : Wide(n)]
    BY <1>2 DEF CoveredBy
  <2> DEFINE w == CHOOSE n \in RowsOf(s) : Wide(n)
  <2>9. w \in RowsOf(s) /\ Wide(w)
    BY <2>7
  <2> HIDE DEF w, Wide
  <2>10. w \in 1..Len(ledger) /\ ledger[w].session = s /\ ledger[w] \in Row /\ ledger[w] # NoRow
    BY <2>1, <2>9, RowFacts DEF RowsOf
  <2>11. ASSUME NEW m \in RowsOf(s)
         PROVE  IsPrefixOf(ledger[m].items, ledger[w].items)
    <3>1. m \in 1..Len(ledger) /\ ledger[m].session = s
      BY DEF RowsOf
    <3>2. /\ ledger[m].items \in Seq(Item) /\ Len(ledger[m].items) \in Nat
          /\ ledger[w].items \in Seq(Item) /\ Len(ledger[w].items) \in Nat
      BY <2>10, <3>1, RowFacts
    <3>3. ~(w < m)
      <4>1. \/ Len(ledger[m].items) < Len(ledger[w].items)
            \/ Len(ledger[m].items) = Len(ledger[w].items) /\ m <= w
        BY <2>9 DEF Wide
      <4>2. w < m => Len(ledger[w].items) < Len(ledger[m].items)
        BY <2>10, <3>1 DEF HistoryOnlyGrows
      <4>. QED BY <2>1, <2>10, <3>1, <3>2, <4>1, <4>2
    <3>4. m = w \/ m < w
      BY <2>1, <2>10, <3>1, <3>3
    <3>5. m < w => IsPrefixOf(ledger[m].items, ledger[w].items)
      BY <2>10, <3>1 DEF HistoryOnlyGrows
    <3>. QED BY <3>2, <3>4, <3>5, PrefixOrder
  <2>12. CoveredBy(s) = ledger[w]
    BY <2>8 DEF w
  <2>. QED BY <2>9, <2>10, <2>11, <2>12 DEF Widest
<1>. QED BY <1>1, <1>2

-----------------------------------------------------------------------------
(* Types, one part of the state at a time.                                 *)

A2Type == /\ nonces \in [Session -> Seq(Nonce)]
          /\ nSynced \in [Session -> Nat]
          /\ nLinked \in [Session -> BOOLEAN] /\ nTorn \in [Session -> BOOLEAN]
          /\ nBare \in [Session -> Nat]
A3Type == ledger \in Seq(Row) /\ kept \in 0..Len(ledger) /\ ledgerTorn \in BOOLEAN
A9Type == /\ archive \in [Session -> Seq(Item)]
          /\ fragment \in [Session -> Item \cup {NoItem}]
          /\ aSynced \in [Session -> Nat]
PassType == /\ scanLock \in Proc \cup {NoProc}
            /\ pc \in [Proc -> PC]
            /\ todo \in [Proc -> SUBSET Session]
            /\ cur \in [Proc -> Session]
ViewType == /\ items \in [Proc -> Seq(Item)] /\ known \in [Proc -> Seq(Nonce)]
            /\ covered \in [Proc -> [Session -> Row \cup {NoRow}]]
OtherType == source \in [Session -> Seq(Item)] /\ rewrites \in Nat /\ crashes \in Nat

LEMMA TypeParts ==
    /\ TypeOK <=> A2Type /\ A3Type /\ A9Type /\ PassType /\ ViewType /\ OtherType
    /\ TypeOK' <=> A2Type' /\ A3Type' /\ A9Type' /\ PassType' /\ ViewType' /\ OtherType'
BY DEF TypeOK, A2Type, A3Type, A9Type, PassType, ViewType, OtherType

LEMMA TypeFrame ==
    /\ A2Type /\ UNCHANGED a2 => A2Type'
    /\ A3Type /\ UNCHANGED a3 => A3Type'
    /\ A9Type /\ UNCHANGED a9 => A9Type'
    /\ OtherType /\ UNCHANGED <<source, counters>> => OtherType'
BY DEF A2Type, A3Type, A9Type, OtherType, a2, a3, a9, counters

LEMMA InitInv == Init => Inv
<1> SUFFICES ASSUME Init PROVE Inv
  OBVIOUS
<1>1. Len(<<>>) = 0 /\ <<>> \in Seq(Item) /\ <<>> \in Seq(Nonce) /\ <<>> \in Seq(Row)
  BY EmptySeq
<1>2. (CHOOSE s \in Session : TRUE) \in Session
  BY SessionAssumption
<1>3. A2Type /\ A3Type /\ A9Type
  <2>1. A2Type
    BY <1>1 DEF Init, A2Type
  <2>2. A3Type
    <3>1. ledger = <<>> /\ kept = 0 /\ ledgerTorn = FALSE
      BY DEF Init
    <3>2. Len(ledger) = 0 /\ ledger \in Seq(Row)
      BY <1>1, <3>1
    <3>3. kept \in 0..Len(ledger)
      BY <3>1, <3>2
    <3>4. ledgerTorn \in BOOLEAN
      BY <3>1
    <3>. QED BY <3>2, <3>3, <3>4 DEF A3Type
  <2>3. A9Type
    BY <1>1 DEF Init, A9Type
  <2>. QED BY <2>1, <2>2, <2>3
<1>4. PassType /\ ViewType /\ OtherType
  BY <1>1, <1>2 DEF Init, PassType, ViewType, OtherType, PC
<1>5. LockInv /\ \A p \in Proc : ScanInv(p)
  BY DEF Init, LockInv, ScanInv, KnowsRows, KeptRows, Continues, OnDisk, HasRow
<1>6. StoreInv /\ Backed /\ HistoryOnlyGrows /\ ArchiveKept
  BY <1>1 DEF Init, StoreInv, Indexed, Backed, HistoryOnlyGrows, ArchiveKept
<1>. QED BY <1>3, <1>4, <1>5, <1>6, TypeParts DEF Inv

-----------------------------------------------------------------------------
(* One scan runs; what a step of it leaves of the others.                  *)

LEMMA OthersIdle ==
    ASSUME LockInv, NEW p \in Proc, pc[p] # "idle", NEW q \in Proc \ {p}
    PROVE  pc[q] = "idle"
BY DEF LockInv

LEMMA Alone ==
    ASSUME NEW p \in Proc, \A q \in Proc \ {p} : pc'[q] = "idle", ScanInv(p)'
    PROVE  \A q \in Proc : ScanInv(q)'
<1>1. ASSUME NEW q \in Proc \ {p}
      PROVE  ScanInv(q)'
  BY <1>1 DEF ScanInv, KnowsRows, KeptRows, Continues, OnDisk, HasRow
<1>. QED BY <1>1

LEMMA GotoFacts ==
    ASSUME PassType, LockInv, NEW p \in Proc, pc[p] # "idle", NEW l \in PC, Goto(p, l),
           scanLock' = scanLock
    PROVE  /\ pc' \in [Proc -> PC] /\ pc'[p] = l
           /\ \A q \in Proc \ {p} : pc'[q] = "idle"
           /\ LockInv'
<1>1. pc' = [pc EXCEPT ![p] = l] /\ pc \in [Proc -> PC]
  BY DEF Goto, PassType
<1>2. pc' \in [Proc -> PC] /\ pc'[p] = l /\ \A q \in Proc \ {p} : pc'[q] = pc[q]
  BY <1>1
<1>3. \A q \in Proc \ {p} : pc[q] = "idle"
  BY OthersIdle
<1>. QED BY <1>2, <1>3 DEF LockInv

\* A pass that stops leaves no scan running.
LEMMA StopFacts ==
    ASSUME TypeOK, LockInv, NEW p \in Proc, pc[p] # "idle", Stop(p)
    PROVE  /\ PassType' /\ ViewType' /\ LockInv'
           /\ \A q \in Proc : ScanInv(q)'
<1>0. PassType /\ ViewType
  BY TypeParts
<1>1. "idle" \in PC /\ (CHOOSE s \in Session : TRUE) \in Session
      /\ <<>> \in Seq(Item) /\ <<>> \in Seq(Nonce)
  BY SessionAssumption, EmptySeq DEF PC
<1>2. pc' \in [Proc -> PC] /\ pc'[p] = "idle" /\ \A q \in Proc \ {p} : pc'[q] = pc[q]
  BY <1>0, <1>1 DEF Stop, Goto, PassType
<1>3. \A q \in Proc : pc'[q] = "idle"
  BY <1>2, OthersIdle
<1>4. scanLock' \in Proc \cup {NoProc} /\ todo' \in [Proc -> SUBSET Session]
      /\ cur' \in [Proc -> Session]
  BY <1>0, <1>1 DEF Stop, PassType
<1>5. ViewType'
  BY <1>0, <1>1 DEF Stop, ViewType
<1>6. LockInv' /\ \A q \in Proc : ScanInv(q)'
  BY <1>3 DEF LockInv, ScanInv, KnowsRows, KeptRows, Continues, OnDisk, HasRow
<1>. QED BY <1>2, <1>4, <1>5, <1>6 DEF PassType
-----------------------------------------------------------------------------
(* Steps that leave the ledger or the stores as they are.                  *)

Reading == {"next", "nonce", "nonceSync", "row", "archive", "archiveSync"}

\* Nothing but the transcripts and the counters.
LEMMA StoresFrame ==
    ASSUME UNCHANGED <<a2, a3, a9>>
    PROVE  /\ StoreInv => StoreInv'
           /\ Backed => Backed'
           /\ HistoryOnlyGrows => HistoryOnlyGrows'
           /\ ArchiveKept => ArchiveKept'
BY DEF a2, a3, a9, StoreInv, Indexed, Backed, HistoryOnlyGrows, ArchiveKept, RowsOf, Extends

LEMMA WidestFrame ==
    ASSUME UNCHANGED ledger
    PROVE  \A s \in Session : \A row : Widest(s, row) => Widest(s, row)'
BY DEF Widest, RowsOf

LEMMA ScanFrame ==
    ASSUME UNCHANGED <<nonces, nSynced, nLinked, ledger, kept>>,
           UNCHANGED <<scanLock, pc, cur, items, known, covered>>
    PROVE  /\ LockInv => LockInv'
           /\ PassType /\ ViewType /\ todo' \in [Proc -> SUBSET Session] => PassType' /\ ViewType'
           /\ \A p \in Proc : ScanInv(p) => ScanInv(p)'
<1>1. LockInv => LockInv'
  BY DEF LockInv
<1>2. PassType /\ ViewType /\ todo' \in [Proc -> SUBSET Session] => PassType' /\ ViewType'
  BY DEF PassType, ViewType
<1>3. ASSUME NEW p \in Proc, ScanInv(p)
      PROVE  ScanInv(p)'
  <2>1. KnowsRows(p)'
    <3>1. RowFor(p)' = RowFor(p)
      BY DEF RowFor
    <3>. QED BY <1>3, <3>1, WidestFrame DEF ScanInv, KnowsRows
  <2>2. KeptRows(p)' /\ HasRow(p)'
    BY <1>3 DEF ScanInv, KeptRows, HasRow, RowFor
  <2>3. Continues(p)' /\ OnDisk(p)'
    BY <1>3 DEF ScanInv, Continues, OnDisk, Count
  <2>. QED BY <2>1, <2>2, <2>3 DEF ScanInv
<1>. QED BY <1>1, <1>2, <1>3

LEMMA KnowsFrame ==
    ASSUME NEW p \in Proc, KnowsRows(p), pc[p] \in Reading, pc'[p] \in Reading,
           UNCHANGED <<ledger, covered>>
    PROVE  KnowsRows(p)'
BY DEF KnowsRows, Reading, Widest, RowsOf

LEMMA AgentInv == Inv /\ Agent => Inv'
<1> SUFFICES ASSUME Inv, Agent PROVE Inv'
  OBVIOUS
<1>0. /\ A2Type /\ A3Type /\ A9Type /\ PassType /\ ViewType /\ OtherType
  BY TypeParts DEF Inv
<1>1. UNCHANGED <<a2, a3, a9, scan>>
  BY DEF Agent, Rewrite, Grow
<1>2. source' \in [Session -> Seq(Item)] /\ rewrites' \in Nat /\ crashes' \in Nat
  <2>1. ASSUME NEW s \in Session, NEW x \in Item, Grow(s, x)
        PROVE  source' \in [Session -> Seq(Item)] /\ rewrites' \in Nat /\ crashes' \in Nat
    <3>1. Append(source[s], x) \in Seq(Item)
      BY <1>0, AppendFacts DEF OtherType
    <3>. QED BY <1>0, <2>1, <3>1 DEF Grow, OtherType, counters
  <2>2. ASSUME NEW s \in Session, Rewrite(s)
        PROVE  source' \in [Session -> Seq(Item)] /\ rewrites' \in Nat /\ crashes' \in Nat
    <3>1. source[s] \in Seq(Item) /\ Len(source[s]) \in Nat
      BY <1>0, LenProperties DEF OtherType
    <3>2. ASSUME NEW n \in 1..Len(source[s]), NEW x \in Item
          PROVE  [source[s] EXCEPT ![n] = x] \in Seq(Item)
      BY <3>1, ExceptSeq
    <3>3. ASSUME NEW n \in 0..Len(source[s]) - 1
          PROVE  SubSeq(source[s], 1, n) \in Seq(Item)
      <4>1. n \in 0..Len(source[s])
        BY <3>1
      <4>. QED BY <3>1, <4>1, CutFacts
    <3>4. \E new \in Seq(Item) : source' = [source EXCEPT ![s] = new]
      <4>1. CASE \E n \in 1..Len(source[s]), x \in Item : source' = [source EXCEPT ![s][n] = x]
        BY <3>2, <4>1
      <4>2. CASE \E n \in 0..Len(source[s]) - 1 :
                     source' = [source EXCEPT ![s] = SubSeq(@, 1, n)]
        BY <3>3, <4>2
      <4>. QED BY <2>2, <4>1, <4>2 DEF Rewrite
    <3>5. rewrites' \in Nat /\ crashes' \in Nat
      BY <1>0, <2>2 DEF Rewrite, OtherType
    <3>. QED BY <1>0, <3>4, <3>5 DEF OtherType
  <2>. QED BY <2>1, <2>2, FreshAssumption DEF Agent
<1>. QED
  <2>1. LockInv' /\ PassType' /\ ViewType' /\ \A p \in Proc : ScanInv(p)'
    BY <1>0, <1>1, ScanFrame DEF Inv, a2, a3, scan, PassType
  <2>2. A2Type' /\ A3Type' /\ A9Type' /\ OtherType'
    BY <1>0, <1>1, <1>2, TypeFrame DEF OtherType
  <2>. QED BY <1>1, <2>1, <2>2, TypeParts, StoresFrame DEF Inv

\* A step that stops the pass and tears at most a nonce file or the ledger.
LEMMA TornFrame ==
    ASSUME UNCHANGED <<nonces, nSynced, nLinked, ledger, kept, a9>>
    PROVE  /\ StoreInv => StoreInv'
           /\ Backed => Backed'
           /\ HistoryOnlyGrows => HistoryOnlyGrows'
           /\ ArchiveKept => ArchiveKept'
BY DEF a9, StoreInv, Indexed, Backed, HistoryOnlyGrows, ArchiveKept, RowsOf, Extends

LEMMA StopInv ==
    ASSUME Inv, NEW p \in Proc, pc[p] # "idle", Stop(p),
           UNCHANGED <<nonces, nSynced, nLinked, ledger, kept, a9>>,
           nTorn' \in [Session -> BOOLEAN], nBare' = nBare, ledgerTorn' \in BOOLEAN,
           UNCHANGED <<source, rewrites>>, crashes' \in Nat
    PROVE  Inv'
<1>0. A2Type /\ A3Type /\ A9Type /\ PassType /\ ViewType /\ OtherType
  BY TypeParts DEF Inv
<1>1. A2Type' /\ A3Type' /\ A9Type' /\ OtherType'
  BY <1>0 DEF A2Type, A3Type, A9Type, OtherType, a9
<1>2. PassType' /\ ViewType' /\ LockInv' /\ \A q \in Proc : ScanInv(q)'
  BY StopFacts DEF Inv
<1>. QED BY <1>1, <1>2, TypeParts, TornFrame DEF Inv

LEMMA KillInv ==
    ASSUME Inv, NEW p \in Proc, Kill(p) \/ KillMidRow(p)
    PROVE  Inv'
<1>0. A2Type /\ A3Type /\ OtherType /\ PassType
  BY TypeParts DEF Inv
<1>1. /\ Stop(p) /\ pc[p] # "idle" /\ crashes' = crashes + 1
      /\ UNCHANGED <<nonces, nSynced, nLinked, ledger, kept, a9, source, rewrites>>
  BY DEF Kill, KillMidRow, Die, a2, a3
<1>2. nTorn' \in [Session -> BOOLEAN] /\ nBare' = nBare
  BY <1>0 DEF Kill, KillMidRow, a2, A2Type, PassType
<1>3. ledgerTorn' \in BOOLEAN
  BY <1>0 DEF Kill, KillMidRow, a3, A3Type
<1>. QED BY <1>0, <1>1, <1>2, <1>3, StopInv DEF OtherType

LEMMA OtherWriterInv == Inv /\ OtherWriterDies => Inv'
<1> SUFFICES ASSUME Inv, OtherWriterDies PROVE Inv'
  OBVIOUS
<1>0. A2Type /\ A3Type /\ A9Type /\ PassType /\ ViewType /\ OtherType
  BY TypeParts DEF Inv
<1>1. A3Type' /\ OtherType'
  BY <1>0 DEF OtherWriterDies, A3Type, OtherType
<1>2. UNCHANGED <<a2, a9, scan, ledger, kept>> /\ UNCHANGED <<nonces, nSynced, nLinked>>
  BY DEF OtherWriterDies, a2
<1>3. LockInv' /\ PassType' /\ ViewType' /\ \A p \in Proc : ScanInv(p)'
  BY <1>0, <1>2, ScanFrame DEF Inv, scan, PassType
<1>. QED
  BY <1>0, <1>1, <1>2, <1>3, TypeParts, TypeFrame, TornFrame DEF Inv
-----------------------------------------------------------------------------
(* The steps of a scan: it begins and reads.                               *)

LEMMA StepFacts ==
    ASSUME Inv, NEW p \in Proc, pc[p] # "idle", NEW l \in PC, Goto(p, l), scanLock' = scanLock,
           todo' \in [Proc -> SUBSET Session], cur' \in [Proc -> Session], ViewType',
           A2Type', A3Type', A9Type', OtherType',
           StoreInv', Backed', HistoryOnlyGrows', ArchiveKept',
           pc'[p] = l => ScanInv(p)'
    PROVE  Inv'
<1>1. PassType /\ LockInv
  BY TypeParts DEF Inv
<1>2. pc' \in [Proc -> PC] /\ pc'[p] = l /\ LockInv' /\ \A q \in Proc \ {p} : pc'[q] = "idle"
  BY <1>1, GotoFacts
<1>3. \A q \in Proc : ScanInv(q)'
  BY <1>2, Alone
<1>4. TypeOK'
  BY <1>1, <1>2, TypeParts DEF PassType
<1>. QED BY <1>2, <1>3, <1>4 DEF Inv

\* A step that writes nothing, and moves within the scan.
LEMMA QuietFacts ==
    ASSUME Inv, NEW p \in Proc, pc[p] # "idle", NEW l \in PC, Goto(p, l), scanLock' = scanLock,
           todo' \in [Proc -> SUBSET Session], cur' \in [Proc -> Session], ViewType',
           UNCHANGED <<source, a2, a3, a9, counters>>,
           pc'[p] = l => ScanInv(p)'
    PROVE  Inv'
<1>1. A2Type /\ A3Type /\ A9Type /\ OtherType
  BY TypeParts DEF Inv
<1>2. A2Type' /\ A3Type' /\ A9Type' /\ OtherType'
  BY <1>1, TypeFrame
<1>3. StoreInv' /\ Backed' /\ HistoryOnlyGrows' /\ ArchiveKept'
  BY StoresFrame DEF Inv
<1>. QED BY <1>2, <1>3, StepFacts

LEMMA BeginInv == ASSUME Inv, NEW p \in Proc, Begin(p) PROVE Inv'
<1>0. A2Type /\ A3Type /\ A9Type /\ PassType /\ ViewType /\ OtherType
  BY TypeParts DEF Inv
<1>1. \A q \in Proc : pc[q] = "idle"
  BY NoProcAssumption DEF Begin, Inv, LockInv
<1>2. pc' = [pc EXCEPT ![p] = "recover"] /\ scanLock' = p
  BY DEF Begin, Goto
<1>3. pc'[p] = "recover" /\ \A q \in Proc \ {p} : pc'[q] = "idle"
  BY <1>0, <1>1, <1>2 DEF PassType
<1>4. LockInv' /\ \A q \in Proc : ScanInv(q)'
  BY <1>2, <1>3 DEF LockInv, ScanInv, KnowsRows, KeptRows, Continues, OnDisk, HasRow
<1>5. UNCHANGED <<a2, a3, a9>> /\ UNCHANGED <<source, counters>>
      /\ UNCHANGED <<todo, cur, items, known, covered>>
  BY DEF Begin
<1>6. PassType' /\ ViewType'
  BY <1>0, <1>2, <1>5 DEF PassType, ViewType, PC
<1>7. A2Type' /\ A3Type' /\ A9Type' /\ OtherType'
  BY <1>0, <1>5, TypeFrame
<1>. QED BY <1>4, <1>5, <1>6, <1>7, TypeParts, StoresFrame DEF Inv

LEMMA RecoverInv == ASSUME Inv, NEW p \in Proc, Recover(p) PROVE Inv'
<1>0. A2Type /\ A3Type /\ A9Type /\ PassType /\ ViewType /\ OtherType /\ Len(ledger) \in Nat
  BY TypeParts, RowFacts DEF Inv
<1>1. /\ pc[p] = "recover" /\ Goto(p, "covered") /\ kept' = Len(ledger) /\ ledgerTorn' = FALSE
      /\ UNCHANGED <<a2, a9>> /\ UNCHANGED <<source, counters>> /\ ledger' = ledger
      /\ UNCHANGED <<scanLock, todo, cur, items, known, covered>>
  BY DEF Recover
<1>2. A2Type' /\ A3Type' /\ A9Type' /\ OtherType' /\ ViewType'
  <2>1. A2Type' /\ A9Type' /\ OtherType'
    BY <1>0, <1>1, TypeFrame
  <2>2. A3Type'
    <3>1. ledger' \in Seq(Row) /\ kept' \in 0..Len(ledger')
      BY <1>0, <1>1 DEF A3Type
    <3>2. ledgerTorn' \in BOOLEAN
      BY <1>1
    <3>. QED BY <3>1, <3>2 DEF A3Type
  <2>3. ViewType'
    BY <1>0, <1>1 DEF ViewType
  <2>. QED BY <2>1, <2>2, <2>3
<1>3. StoreInv' /\ Backed' /\ HistoryOnlyGrows'
  BY <1>1 DEF Inv, a2, StoreInv, Indexed, Backed, HistoryOnlyGrows
<1>4. ArchiveKept'
  BY <1>0, <1>1 DEF Inv, a9, ArchiveKept, RowsOf, Extends
<1>5. pc'[p] = "covered" => ScanInv(p)'
  BY <1>1 DEF ScanInv, KnowsRows, KeptRows, Continues, OnDisk, HasRow
<1>6. "covered" \in PC /\ todo' \in [Proc -> SUBSET Session] /\ cur' \in [Proc -> Session]
  BY <1>0, <1>1 DEF PC, PassType
<1>. QED BY <1>1, <1>2, <1>3, <1>4, <1>5, <1>6, StepFacts

LEMMA ReadCoveredInv == ASSUME Inv, NEW p \in Proc, ReadCovered(p) PROVE Inv'
<1>0. /\ A2Type /\ A3Type /\ A9Type /\ PassType /\ ViewType /\ OtherType
      /\ pc[p] = "covered" /\ UNCHANGED <<source, a2, a3, a9, counters>>
  BY TypeParts DEF Inv, ReadCovered
<1>1. CASE Stop(p)
  BY <1>0, <1>1, StopInv DEF a2, a3, a9, counters, A2Type, A3Type, OtherType
<1>2. CASE ~Stop(p)
  <2>1. /\ covered' = [covered EXCEPT ![p] = [s \in Session |-> CoveredBy(s)]]
        /\ todo' = [todo EXCEPT ![p] = Session] /\ Goto(p, "next")
        /\ UNCHANGED <<scanLock, cur, items, known>>
    BY <1>2 DEF ReadCovered
  <2>2. PICK view \in [Session -> Row \cup {NoRow}] :
            /\ covered' = [covered EXCEPT ![p] = view]
            /\ \A s \in Session : Widest(s, view[s])
    <3>1. \A s \in Session : Widest(s, CoveredBy(s)) /\ CoveredBy(s) \in Row \cup {NoRow}
      BY WidestExists DEF Inv
    <3> DEFINE view == [s \in Session |-> CoveredBy(s)]
    <3>2. view \in [Session -> Row \cup {NoRow}]
      BY <3>1
    <3>3. \A s \in Session : Widest(s, view[s])
      BY <3>1
    <3>4. covered' = [covered EXCEPT ![p] = view]
      BY <2>1
    <3> HIDE DEF view
    <3>. QED BY <3>2, <3>3, <3>4
  <2>3. covered'[p] = view /\ ViewType'
    BY <1>0, <2>1, <2>2 DEF ViewType
  <2>4. todo' \in [Proc -> SUBSET Session] /\ cur' \in [Proc -> Session] /\ "next" \in PC
    BY <1>0, <2>1 DEF PassType, PC
  <2>5. ASSUME pc'[p] = "next"
        PROVE  ScanInv(p)'
    <3>1. UNCHANGED <<ledger, kept>>
      BY <1>0 DEF a3
    <3>2. KnowsRows(p)'
      BY <2>2, <2>3, <2>5, <3>1, WidestFrame DEF KnowsRows
    <3>3. KeptRows(p)'
      BY <1>0, <3>1 DEF Inv, ScanInv, KeptRows
    <3>. QED BY <2>5, <3>2, <3>3 DEF ScanInv, Continues, OnDisk, HasRow
  <2>. QED BY <1>0, <2>1, <2>3, <2>4, <2>5, QuietFacts
<1>. QED BY <1>1, <1>2

LEMMA EndScanInv == ASSUME Inv, NEW p \in Proc, EndScan(p) PROVE Inv'
<1>0. A2Type /\ A3Type /\ OtherType
  BY TypeParts DEF Inv
<1>. QED BY <1>0, StopInv DEF EndScan, a2, a3, a9, counters, A2Type, A3Type, OtherType
-----------------------------------------------------------------------------
(* It takes up a transcript.                                               *)

LEMMA TakenUp ==
    ASSUME Inv, NEW p \in Proc, NEW s \in Session, NEW label \in {"nonce", "archive"},
           Look(p, s), TakeUp(p, s, label)
    PROVE  /\ pc[p] = "next" /\ Goto(p, label) /\ scanLock' = scanLock
           /\ todo' \in [Proc -> SUBSET Session] /\ cur' \in [Proc -> Session] /\ ViewType'
           /\ UNCHANGED <<source, a2, a3, a9, counters>> /\ UNCHANGED covered
           /\ cur'[p] = s /\ items'[p] = source[s] /\ known'[p] = nonces[s]
           /\ pc'[p] = label => KnowsRows(p)' /\ KeptRows(p)'
<1>0. A2Type /\ A3Type /\ PassType /\ ViewType /\ OtherType
  BY TypeParts DEF Inv
<1>1. /\ pc[p] = "next" /\ Goto(p, label)
      /\ UNCHANGED <<source, a2, a3, a9, counters>> /\ UNCHANGED <<scanLock, covered>>
      /\ todo' = [todo EXCEPT ![p] = @ \ {s}] /\ cur' = [cur EXCEPT ![p] = s]
      /\ items' = [items EXCEPT ![p] = source[s]] /\ known' = [known EXCEPT ![p] = nonces[s]]
  BY DEF Look, TakeUp
<1>2. todo' \in [Proc -> SUBSET Session] /\ cur' \in [Proc -> Session] /\ cur'[p] = s
  BY <1>0, <1>1 DEF PassType
<1>3. ViewType' /\ items'[p] = source[s] /\ known'[p] = nonces[s]
  BY <1>0, <1>1 DEF ViewType, OtherType, A2Type
<1>4. ASSUME pc'[p] = label
      PROVE  KnowsRows(p)' /\ KeptRows(p)'
  <2>1. UNCHANGED <<ledger, kept>>
    BY <1>1 DEF a3
  <2>2. KnowsRows(p)'
    BY <1>1, <1>4, <2>1, KnowsFrame DEF Inv, ScanInv, Reading
  <2>3. KeptRows(p)'
    BY <1>1, <1>4, <2>1 DEF Inv, ScanInv, KeptRows
  <2>. QED BY <2>2, <2>3
<1>. QED BY <1>1, <1>2, <1>3, <1>4

\* The checks of _capture_file: the items continue what the row committed.
LEMMA ItemsContinue ==
    ASSUME Inv, NEW p \in Proc, NEW s \in Session, pc[p] = "next", PrefixStillCommitted(p, s),
           Len(nonces[s]) <= Len(source[s]), NeedsRow(p, s)
    PROVE  /\ Count(covered[p][s]) < Len(source[s])
           /\ covered[p][s] # NoRow => IsPrefixOf(covered[p][s].items, source[s])
<1>0. A2Type /\ PassType /\ ViewType /\ OtherType
  BY TypeParts DEF Inv
<1> DEFINE c == covered[p][s]
<1>1. /\ source[s] \in Seq(Item) /\ Len(source[s]) \in Nat /\ Len(nonces[s]) \in Nat
      /\ c \in Row \cup {NoRow}
  BY <1>0, LenProperties DEF A2Type, ViewType, OtherType
<1>2. c # NoRow => c.items \in Seq(Item) /\ Len(c.items) \in Nat /\ Len(c.items) > 0
  <2>1. Widest(s, c)
    BY DEF Inv, ScanInv, KnowsRows
  <2>2. c # NoRow => \E n \in 1..Len(ledger) : ledger[n] = c
    BY <2>1 DEF Widest, RowsOf
  <2>. QED BY <1>1, <2>2, RowFacts DEF Inv, StoreInv
<1>3. Count(c) \in Nat /\ (c # NoRow => Count(c) > 0)
  BY <1>2 DEF Count
<1>4. Count(c) <= Len(nonces[s]) /\ (Count(c) < Len(source[s]) \/ Len(nonces[s]) < Len(source[s]))
  BY DEF PrefixStillCommitted, NeedsRow
<1>5. Count(c) < Len(source[s])
  BY <1>1, <1>3, <1>4
<1>6. c # NoRow => IsPrefixOf(c.items, source[s])
  BY <1>3, <1>5 DEF PrefixStillCommitted
<1>. QED BY <1>5, <1>6

LEMMA CaptureFileInv ==
    ASSUME Inv, NEW p \in Proc, NEW s \in Session, CaptureFile(p, s)
    PROVE  Inv'
<1>0. Look(p, s) /\ TakeUp(p, s, "nonce") /\ PrefixStillCommitted(p, s)
      /\ Len(nonces[s]) <= Len(source[s]) /\ NeedsRow(p, s) /\ pc[p] = "next"
  BY DEF CaptureFile, Look
<1>1. /\ Goto(p, "nonce") /\ scanLock' = scanLock
      /\ todo' \in [Proc -> SUBSET Session] /\ cur' \in [Proc -> Session] /\ ViewType'
      /\ UNCHANGED <<source, a2, a3, a9, counters>> /\ UNCHANGED covered
      /\ cur'[p] = s /\ items'[p] = source[s] /\ known'[p] = nonces[s]
      /\ pc'[p] = "nonce" => KnowsRows(p)' /\ KeptRows(p)'
  BY <1>0, TakenUp
<1>2. /\ Count(covered[p][s]) < Len(source[s])
      /\ covered[p][s] # NoRow => IsPrefixOf(covered[p][s].items, source[s])
  BY <1>0, ItemsContinue
<1>3. Continues(p)'
  <2>1. UNCHANGED <<nonces, covered>>
    BY <1>1 DEF a2
  <2>. QED BY <1>0, <1>1, <1>2, <2>1 DEF Continues, Count
<1>4. pc'[p] = "nonce" => ScanInv(p)'
  BY <1>1, <1>3 DEF ScanInv, OnDisk, HasRow
<1>. QED BY <1>0, <1>1, <1>4, QuietFacts DEF PC

LEMMA ArchiveOnlyInv ==
    ASSUME Inv, NEW p \in Proc, NEW s \in Session, ArchiveOnly(p, s)
    PROVE  Inv'
<1>0. Look(p, s) /\ TakeUp(p, s, "archive") /\ covered[p][s] # NoRow /\ pc[p] = "next"
  BY DEF ArchiveOnly, Look
<1>1. /\ Goto(p, "archive") /\ scanLock' = scanLock
      /\ todo' \in [Proc -> SUBSET Session] /\ cur' \in [Proc -> Session] /\ ViewType'
      /\ UNCHANGED <<source, a2, a3, a9, counters>> /\ UNCHANGED covered /\ cur'[p] = s
      /\ pc'[p] = "archive" => KnowsRows(p)' /\ KeptRows(p)'
  BY <1>0, TakenUp
<1>2. pc'[p] = "archive" => ScanInv(p)'
  BY <1>0, <1>1 DEF ScanInv, Continues, OnDisk, HasRow
<1>. QED BY <1>0, <1>1, <1>2, QuietFacts DEF PC

\* Steps that only move on, to a label whose conditions they meet.
LEMMA MovesOn ==
    ASSUME Inv, NEW p \in Proc, pc[p] \in Reading, NEW l \in {"next", "archiveSync"}, Goto(p, l),
           UNCHANGED <<source, a2, a3, a9, scanLock, todo, cur, items, known, covered, counters>>
    PROVE  Inv'
<1>0. PassType /\ ViewType
  BY TypeParts DEF Inv
<1>1. ViewType' /\ todo' \in [Proc -> SUBSET Session] /\ cur' \in [Proc -> Session]
  BY <1>0 DEF PassType, ViewType
<1>2. ASSUME pc'[p] = l
      PROVE  ScanInv(p)'
  <2>1. UNCHANGED <<ledger, kept>>
    BY DEF a3
  <2>2. KnowsRows(p)'
    BY <1>2, <2>1, KnowsFrame DEF Inv, ScanInv, Reading
  <2>3. KeptRows(p)'
    BY <1>2, <2>1 DEF Inv, ScanInv, KeptRows, Reading
  <2>. QED BY <1>2, <2>2, <2>3 DEF ScanInv, Continues, OnDisk, HasRow
<1>3. pc[p] # "idle" /\ l \in PC
  BY DEF Reading, PC
<1>. QED BY <1>1, <1>2, <1>3, QuietFacts

LEMMA MoveInv ==
    ASSUME Inv, NEW p \in Proc, NonceRefused(p) \/ RowRefused(p) \/ ArchiveThere(p) \/ NoArchive(p)
    PROVE  Inv'
<1>1. /\ pc[p] \in Reading /\ (Goto(p, "next") \/ Goto(p, "archiveSync"))
      /\ UNCHANGED <<source, a2, a3, a9, scanLock, todo, cur, items, known, covered, counters>>
  BY DEF NonceRefused, RowRefused, ArchiveThere, NoArchive, Reading
<1>. QED BY <1>1, MovesOn

\* A transcript is looked at and left.
LEMMA SkipFileInv ==
    ASSUME Inv, NEW p \in Proc, NEW s \in Session, SkipFile(p, s)
    PROVE  Inv'
<1>0. A2Type /\ A3Type /\ A9Type /\ PassType /\ ViewType /\ OtherType
  BY TypeParts DEF Inv
<1>1. /\ todo' = [todo EXCEPT ![p] = @ \ {s}] /\ UNCHANGED <<source, counters>>
      /\ UNCHANGED <<a2, a3, a9>> /\ UNCHANGED <<scanLock, pc, cur, items, known, covered>>
  BY DEF SkipFile, Look
<1>2. PassType' /\ ViewType' /\ LockInv' /\ \A q \in Proc : ScanInv(q)'
  <2>1. todo' \in [Proc -> SUBSET Session]
    BY <1>0, <1>1 DEF PassType
  <2>. QED BY <1>0, <1>1, <2>1, ScanFrame DEF Inv, a2, a3
<1>3. A2Type' /\ A3Type' /\ A9Type' /\ OtherType'
  BY <1>0, <1>1, TypeFrame
<1>. QED BY <1>1, <1>2, <1>3, TypeParts, StoresFrame DEF Inv
-----------------------------------------------------------------------------
(* Nonces: written, synced.                                                *)

\* A nonce file that grows, its nonces staying, backs the same rows.
LEMMA BackedGrows ==
    ASSUME Inv, NEW s \in Session, UNCHANGED ledger, A2Type',
           \A r \in Session \ {s} : nonces'[r] = nonces[r] /\ nSynced'[r] = nSynced[r]
                                    /\ nLinked'[r] = nLinked[r],
           nLinked[s] => nLinked'[s], nSynced[s] <= nSynced'[s], nSynced'[s] <= Len(nonces'[s]),
           Len(nonces[s]) <= Len(nonces'[s]),
           \A i \in 1..Len(nonces[s]) : nonces'[s][i] = nonces[s][i],
           \A i \in 1..Len(nonces'[s]) : nonces'[s][i].i = i - 1
    PROVE  StoreInv' /\ Backed'
<1>0. A2Type /\ TypeOK
  BY TypeParts DEF Inv
<1>1. StoreInv'
  BY DEF Inv, StoreInv, Indexed
<1>2. ASSUME NEW n \in 1..Len(ledger)
      PROVE  LET r == ledger[n].session IN
             /\ nLinked'[r]
             /\ IsPrefixOf(ledger[n].nonces, SubSeq(nonces'[r], 1, nSynced'[r]))
             /\ Len(ledger[n].nonces) = Len(ledger[n].items)
  <2> DEFINE r == ledger[n].session
             row == ledger[n].nonces
  <2>1. /\ r \in Session /\ row \in Seq(Nonce) /\ Len(row) \in Nat
        /\ nLinked[r] /\ IsPrefixOf(row, SubSeq(nonces[r], 1, nSynced[r]))
        /\ Len(row) = Len(ledger[n].items)
    BY <1>0, RowFacts DEF Inv, Backed
  <2>2. CASE r # s
    BY <2>1, <2>2
  <2>3. CASE r = s
    <3> DEFINE old == SubSeq(nonces[s], 1, nSynced[s])
               new == SubSeq(nonces'[s], 1, nSynced'[s])
    <3>1. /\ nonces[s] \in Seq(Nonce) /\ nonces'[s] \in Seq(Nonce)
          /\ nSynced[s] \in 0..Len(nonces[s]) /\ nSynced'[s] \in 0..Len(nonces'[s])
      BY <1>0 DEF A2Type, Inv, StoreInv
    <3>2. old \in Seq(Nonce) /\ Len(old) = nSynced[s] /\ \A i \in 1..nSynced[s] : old[i] = nonces[s][i]
      BY <3>1, CutFacts
    <3>3. new \in Seq(Nonce) /\ Len(new) = nSynced'[s] /\ \A i \in 1..nSynced'[s] : new[i] = nonces'[s][i]
      BY <3>1, CutFacts
    <3>4. IsPrefixOf(row, old)
      BY <2>1, <2>3
    <3> HIDE DEF old, new, row
    <3>5. Len(row) <= Len(old) /\ \A i \in 1..Len(row) : row[i] = old[i]
      BY <2>1, <3>2, <3>4, PrefixElements
    <3>6. Len(nonces[s]) \in Nat
      BY <3>1, LenProperties
    <3>7. Len(row) <= Len(new) /\ \A i \in 1..Len(row) : row[i] = new[i]
      <4>1. Len(row) <= nSynced[s] /\ nSynced[s] <= nSynced'[s] /\ nSynced[s] <= Len(nonces[s])
            /\ nSynced[s] \in Nat /\ nSynced'[s] \in Nat
        BY <3>1, <3>2, <3>5, <3>6
      <4>2. ASSUME NEW i \in 1..Len(row)
            PROVE  row[i] = new[i]
        <5>1. i \in 1..nSynced[s] /\ i \in 1..nSynced'[s] /\ i \in 1..Len(nonces[s])
          BY <2>1, <3>6, <4>1
        <5>. QED BY <3>2, <3>3, <3>5, <5>1
      <4>. QED BY <2>1, <3>3, <4>1, <4>2
    <3>8. IsPrefixOf(row, new)
      BY <2>1, <3>3, <3>7, PrefixElements
    <3>. QED BY <2>1, <2>3, <3>8 DEF new, row
  <2>. QED BY <2>2, <2>3
<1>3. Backed'
  BY <1>2 DEF Backed
<1>. QED BY <1>1, <1>3

\* What a step on the nonce file leaves of the rest.
LEMMA NonceFrame ==
    ASSUME Inv, UNCHANGED <<source, nTorn, nBare, a3, a9, scanLock, todo, cur, items, covered, counters>>,
           known' \in [Proc -> Seq(Nonce)]
    PROVE  /\ A3Type' /\ A9Type' /\ OtherType' /\ ViewType'
           /\ todo' \in [Proc -> SUBSET Session] /\ cur' \in [Proc -> Session]
           /\ HistoryOnlyGrows' /\ ArchiveKept' /\ UNCHANGED <<ledger, kept>>
<1>0. A3Type /\ A9Type /\ PassType /\ ViewType /\ OtherType
  BY TypeParts DEF Inv
<1>1. A3Type' /\ A9Type' /\ OtherType'
  BY <1>0, TypeFrame
<1>2. ViewType' /\ todo' \in [Proc -> SUBSET Session] /\ cur' \in [Proc -> Session]
  BY <1>0 DEF ViewType, PassType
<1>3. HistoryOnlyGrows' /\ ArchiveKept'
  BY DEF Inv, a3, a9, HistoryOnlyGrows, ArchiveKept, RowsOf, Extends
<1>. QED BY <1>1, <1>2, <1>3 DEF a3

LEMMA WriteNonceInv == ASSUME Inv, NEW p \in Proc, WriteNonce(p) PROVE Inv'
<1> DEFINE s == cur[p]
           x == [i |-> Len(nonces[s]), era |-> crashes]
           file == Append(nonces[s], x)
<1>0. A2Type /\ PassType /\ ViewType /\ OtherType
  BY TypeParts DEF Inv
<1>1. s \in Session /\ nonces[s] \in Seq(Nonce) /\ Len(nonces[s]) \in Nat /\ x \in Nonce
  <2>1. s \in Session
    BY <1>0 DEF PassType
  <2>2. nonces[s] \in Seq(Nonce) /\ Len(nonces[s]) \in Nat /\ crashes \in Nat
    BY <1>0, <2>1, LenProperties DEF A2Type, OtherType
  <2>. QED BY <2>1, <2>2 DEF Nonce
<1>2. /\ pc[p] = "nonce" /\ Len(known[p]) < Len(items[p]) /\ known[p] = nonces[s]
      /\ Goto(p, "nonceSync") /\ UNCHANGED <<nSynced, nLinked, nTorn, nBare>>
      /\ UNCHANGED <<source, nTorn, nBare, a3, a9, scanLock, todo, cur, items, covered, counters>>
  BY DEF WriteNonce, Inv, ScanInv, Continues
<1>3. nonces' = [nonces EXCEPT ![s] = file] /\ known' = [known EXCEPT ![p] = Append(known[p], x)]
  BY <1>0, <1>1 DEF WriteNonce, A2Type, ViewType
<1>4. /\ file \in Seq(Nonce) /\ Len(file) = Len(nonces[s]) + 1
      /\ \A i \in 1..Len(nonces[s]) : file[i] = nonces[s][i]
      /\ file[Len(nonces[s]) + 1] = x
  BY <1>1, AppendFacts
<1>5. Append(known[p], x) = file
  BY <1>2
<1> HIDE DEF file
<1>6. A2Type' /\ nonces'[s] = file /\ \A r \in Session \ {s} : nonces'[r] = nonces[r]
  BY <1>0, <1>1, <1>2, <1>3, <1>4 DEF A2Type
<1>7. known' \in [Proc -> Seq(Nonce)] /\ known'[p] = file
  BY <1>0, <1>3, <1>4, <1>5 DEF ViewType
<1>8. /\ A3Type' /\ A9Type' /\ OtherType' /\ ViewType'
      /\ todo' \in [Proc -> SUBSET Session] /\ cur' \in [Proc -> Session]
      /\ HistoryOnlyGrows' /\ ArchiveKept' /\ UNCHANGED <<ledger, kept>>
  BY <1>2, <1>7, NonceFrame
<1>9. StoreInv' /\ Backed'
  <2>1. nSynced[s] \in Nat /\ nSynced[s] <= Len(nonces[s])
    BY <1>0, <1>1 DEF A2Type, Inv, StoreInv
  <2>2. nSynced[s] <= nSynced'[s] /\ nSynced'[s] <= Len(nonces'[s])
        /\ Len(nonces[s]) <= Len(nonces'[s])
    BY <1>1, <1>2, <1>4, <1>6, <2>1
  <2>3. \A i \in 1..Len(nonces[s]) : nonces'[s][i] = nonces[s][i]
    BY <1>4, <1>6
  <2>4. \A i \in 1..Len(nonces'[s]) : nonces'[s][i].i = i - 1
    <3>1. Indexed(s)
      BY <1>1 DEF Inv, StoreInv
    <3>2. \A i \in 1..Len(file) : file[i].i = i - 1
      BY <1>1, <1>4, <3>1 DEF Indexed
    <3>. QED BY <1>6, <3>2
  <2> HIDE DEF s
  <2>. QED BY <1>1, <1>2, <1>6, <1>8, <2>2, <2>3, <2>4, BackedGrows
<1>10. ASSUME pc'[p] = "nonceSync"
       PROVE  ScanInv(p)'
  <2>1. KnowsRows(p)'
    BY <1>2, <1>8, <1>10, KnowsFrame DEF Inv, ScanInv, Reading
  <2>2. KeptRows(p)'
    BY <1>2, <1>8 DEF Inv, ScanInv, KeptRows
  <2>3. Continues(p)'
    <3>1. /\ Count(covered[p][s]) < Len(items[p])
          /\ covered[p][s] # NoRow => IsPrefixOf(covered[p][s].items, items[p])
      BY <1>2 DEF Inv, ScanInv, Continues
    <3>2. Len(file) <= Len(items[p])
      <4>1. Len(items[p]) \in Nat
        BY <1>0, LenProperties DEF ViewType
      <4>. QED BY <1>1, <1>2, <1>4, <4>1
    <3>. QED BY <1>2, <1>6, <1>7, <3>1, <3>2 DEF Continues, Count
  <2>. QED BY <1>10, <2>1, <2>2, <2>3 DEF ScanInv, OnDisk, HasRow
<1>11. pc[p] # "idle" /\ "nonceSync" \in PC /\ scanLock' = scanLock
  BY <1>2 DEF PC
<1>. QED BY <1>2, <1>6, <1>8, <1>9, <1>10, <1>11, StepFacts

\* The writer of a nonce dies with part of its row written, or with all of it
\* but the newline: the file grows by a nonce, as when the row is written.
LEMMA KillMidNonceInv == ASSUME Inv, NEW p \in Proc, KillMidNonce(p) PROVE Inv'
<1> DEFINE s == cur[p]
           x == [i |-> Len(nonces[s]), era |-> crashes]
           file == Append(nonces[s], x)
<1>0. A2Type /\ A3Type /\ A9Type /\ PassType /\ ViewType /\ OtherType
  BY TypeParts DEF Inv
<1>1. s \in Session /\ nonces[s] \in Seq(Nonce) /\ Len(nonces[s]) \in Nat /\ x \in Nonce
  <2>1. s \in Session
    BY <1>0 DEF PassType
  <2>2. nonces[s] \in Seq(Nonce) /\ Len(nonces[s]) \in Nat /\ crashes \in Nat
    BY <1>0, <2>1, LenProperties DEF A2Type, OtherType
  <2>. QED BY <2>1, <2>2 DEF Nonce
<1>2. /\ pc[p] # "idle" /\ Stop(p) /\ crashes' = crashes + 1
      /\ UNCHANGED <<nSynced, nLinked, a3, a9, source, rewrites>>
  BY DEF KillMidNonce, Die
<1>3. CASE nTorn' = [nTorn EXCEPT ![s] = TRUE] /\ UNCHANGED <<nonces, nBare>>
  <2>1. nTorn' \in [Session -> BOOLEAN]
    BY <1>0, <1>3 DEF A2Type
  <2>2. ledgerTorn' \in BOOLEAN /\ UNCHANGED <<nonces, nSynced, nLinked, ledger, kept, a9>>
    BY <1>0, <1>2, <1>3 DEF a3, A3Type
  <2>. QED BY <1>0, <1>2, <1>3, <2>1, <2>2, StopInv DEF OtherType
<1>4. CASE /\ nonces' = [nonces EXCEPT ![s] = file]
           /\ nBare' = [nBare EXCEPT ![s] = IF nBare[s] = 0 THEN Len(nonces[s]) + 1 ELSE nBare[s]]
           /\ UNCHANGED nTorn
  <2>1. /\ file \in Seq(Nonce) /\ Len(file) = Len(nonces[s]) + 1
        /\ \A i \in 1..Len(nonces[s]) : file[i] = nonces[s][i]
        /\ file[Len(nonces[s]) + 1] = x
    BY <1>1, AppendFacts
  <2> HIDE DEF file
  <2>2. A2Type' /\ nonces'[s] = file /\ \A r \in Session \ {s} : nonces'[r] = nonces[r]
    <3>1. nonces' \in [Session -> Seq(Nonce)] /\ nonces'[s] = file
          /\ \A r \in Session \ {s} : nonces'[r] = nonces[r]
      BY <1>0, <1>1, <1>4, <2>1 DEF A2Type
    <3>2. nBare' \in [Session -> Nat]
      BY <1>0, <1>1, <1>4 DEF A2Type
    <3>. QED BY <1>0, <1>2, <1>4, <3>1, <3>2 DEF A2Type
  <2>3. StoreInv' /\ Backed'
    <3>1. nSynced[s] \in Nat /\ nSynced[s] <= Len(nonces[s])
      BY <1>0, <1>1 DEF A2Type, Inv, StoreInv
    <3>2. nSynced[s] <= nSynced'[s] /\ nSynced'[s] <= Len(nonces'[s])
          /\ Len(nonces[s]) <= Len(nonces'[s])
      BY <1>1, <1>2, <2>1, <2>2, <3>1
    <3>3. \A i \in 1..Len(nonces[s]) : nonces'[s][i] = nonces[s][i]
      BY <2>1, <2>2
    <3>4. \A i \in 1..Len(nonces'[s]) : nonces'[s][i].i = i - 1
      <4>1. Indexed(s)
        BY <1>1 DEF Inv, StoreInv
      <4>2. \A i \in 1..Len(file) : file[i].i = i - 1
        BY <1>1, <2>1, <4>1 DEF Indexed
      <4>. QED BY <2>2, <4>2
    <3>5. UNCHANGED <<ledger, nSynced, nLinked>>
      BY <1>2 DEF a3
    <3> HIDE DEF s
    <3>. QED BY <1>1, <2>2, <3>2, <3>3, <3>4, <3>5, BackedGrows
  <2>4. PassType' /\ ViewType' /\ LockInv' /\ \A q \in Proc : ScanInv(q)'
    BY <1>2, StopFacts DEF Inv
  <2>5. A3Type' /\ A9Type' /\ OtherType'
    BY <1>0, <1>2 DEF A3Type, A9Type, OtherType, a3, a9
  <2>6. HistoryOnlyGrows' /\ ArchiveKept'
    BY <1>2 DEF Inv, a3, a9, HistoryOnlyGrows, ArchiveKept, RowsOf, Extends
  <2>. QED BY <2>2, <2>3, <2>4, <2>5, <2>6, TypeParts DEF Inv
<1>5. \/ nTorn' = [nTorn EXCEPT ![s] = TRUE] /\ UNCHANGED <<nonces, nBare>>
      \/ /\ nonces' = [nonces EXCEPT ![s] = file]
         /\ nBare' = [nBare EXCEPT ![s] = IF nBare[s] = 0 THEN Len(nonces[s]) + 1 ELSE nBare[s]]
         /\ UNCHANGED nTorn
  <2>1. nonces \in [Session -> Seq(Nonce)] /\ nBare \in [Session -> Nat]
    BY <1>0 DEF A2Type
  <2>. QED BY <1>1, <2>1 DEF KillMidNonce
<1>. QED BY <1>3, <1>4, <1>5

\* fsync of the nonce file, of one nonce or of all.
LEMMA SyncInv ==
    ASSUME Inv, NEW p \in Proc, SyncNonce(p) \/ EnsureDurable(p)
    PROVE  Inv'
<1> DEFINE s == cur[p]
           l == IF SyncNonce(p) THEN "nonce" ELSE "row"
<1>0. A2Type /\ PassType /\ ViewType
  BY TypeParts DEF Inv
<1>1. s \in Session /\ nonces[s] \in Seq(Nonce) /\ Len(nonces[s]) \in Nat
      /\ nSynced[s] \in Nat /\ nSynced[s] <= Len(nonces[s])
  <2>1. s \in Session
    BY <1>0 DEF PassType
  <2>. QED BY <1>0, <2>1, LenProperties DEF A2Type, Inv, StoreInv
<1>2. /\ pc[p] \in {"nonce", "nonceSync"} /\ Goto(p, l)
      /\ nonces' = nonces /\ known' = known
      /\ UNCHANGED <<source, nTorn, nBare, a3, a9, scanLock, todo, cur, items, covered, counters>>
      /\ nSynced' = [nSynced EXCEPT ![s] = Len(nonces[s])]
  BY DEF SyncNonce, EnsureDurable
<1>3. /\ nLinked' \in [Session -> BOOLEAN] /\ (nLinked[s] => nLinked'[s])
      /\ (l = "row" => nLinked'[s]) /\ \A r \in Session \ {s} : nLinked'[r] = nLinked[r]
  <2>1. CASE SyncNonce(p)
    <3>1. nLinked' = [nLinked EXCEPT ![s] = nLinked[s] \/ Len(nonces[s]) = 1]
      BY <1>0, <1>1, <2>1 DEF SyncNonce, A2Type
    <3>2. (nLinked[s] \/ Len(nonces[s]) = 1) \in BOOLEAN
      BY <1>0, <1>1 DEF A2Type
    <3>. QED BY <1>0, <1>1, <2>1, <3>1, <3>2 DEF A2Type
  <2>2. CASE ~SyncNonce(p)
    BY <1>0, <1>1, <2>2 DEF EnsureDurable, A2Type
  <2>. QED BY <2>1, <2>2
<1>4. nSynced' \in [Session -> Nat] /\ nSynced'[s] = Len(nonces[s])
      /\ \A r \in Session \ {s} : nSynced'[r] = nSynced[r]
  BY <1>0, <1>1, <1>2 DEF A2Type
<1>5. A2Type'
  BY <1>0, <1>2, <1>3, <1>4 DEF A2Type
<1>6. /\ A3Type' /\ A9Type' /\ OtherType' /\ ViewType'
      /\ todo' \in [Proc -> SUBSET Session] /\ cur' \in [Proc -> Session]
      /\ HistoryOnlyGrows' /\ ArchiveKept' /\ UNCHANGED <<ledger, kept>>
  BY <1>0, <1>2, NonceFrame DEF ViewType
<1>7. StoreInv' /\ Backed'
  <2>1. /\ \A r \in Session \ {s} : nonces'[r] = nonces[r] /\ nSynced'[r] = nSynced[r]
                                     /\ nLinked'[r] = nLinked[r]
        /\ nLinked[s] => nLinked'[s]
        /\ nSynced[s] <= nSynced'[s] /\ nSynced'[s] <= Len(nonces'[s])
        /\ Len(nonces[s]) <= Len(nonces'[s])
        /\ \A i \in 1..Len(nonces[s]) : nonces'[s][i] = nonces[s][i]
        /\ \A i \in 1..Len(nonces'[s]) : nonces'[s][i].i = i - 1
    BY <1>1, <1>2, <1>3, <1>4 DEF Inv, StoreInv, Indexed
  <2> HIDE DEF s
  <2>. QED BY <1>1, <1>5, <1>6, <2>1, BackedGrows
<1>8. ASSUME pc'[p] = l
      PROVE  ScanInv(p)'
  <2>0. l \in {"nonce", "row"} /\ ScanInv(p)
    BY DEF Inv
  <2>1. KnowsRows(p)'
    BY <1>2, <1>6, <1>8, <2>0, KnowsFrame DEF ScanInv, Reading
  <2>2. KeptRows(p)'
    BY <1>2, <1>6, <2>0 DEF ScanInv, KeptRows
  <2>3. Continues(p)'
    BY <1>2, <2>0 DEF ScanInv, Continues, Count
  <2>4. OnDisk(p)'
    <3>1. CASE l = "row"
      <4>1. Len(known[p]) >= Len(items[p]) /\ Len(known[p]) <= Len(items[p])
        BY <1>2, <2>0, <3>1 DEF SyncNonce, EnsureDurable, ScanInv, Continues
      <4>2. Len(known[p]) \in Nat /\ Len(items[p]) \in Nat
        BY <1>0, LenProperties DEF ViewType
      <4>. QED BY <1>2, <1>3, <1>4, <3>1, <4>1, <4>2 DEF OnDisk
    <3>2. CASE l # "row"
      BY <1>8, <3>2 DEF OnDisk
    <3>. QED BY <3>1, <3>2
  <2>. QED BY <1>8, <2>0, <2>1, <2>2, <2>3, <2>4 DEF ScanInv, HasRow
<1>9. pc[p] # "idle" /\ l \in PC /\ scanLock' = scanLock
  BY <1>2 DEF PC
<1> HIDE DEF l
<1>. QED BY <1>2, <1>5, <1>6, <1>7, <1>8, <1>9, StepFacts
-----------------------------------------------------------------------------
(* Rows: written, appended.                                                *)

\* What a row about to be written is.
LEMMA NewRow ==
    ASSUME Inv, NEW p \in Proc, pc[p] = "row"
    PROVE  LET s == cur[p] IN
           /\ s \in Session /\ RowFor(p) \in Row /\ RowFor(p) # NoRow
           /\ RowFor(p).session = s /\ RowFor(p).items = items[p] /\ RowFor(p).nonces = nonces[s]
           /\ Len(items[p]) > 0 /\ Len(nonces[s]) = Len(items[p])
           /\ nLinked[s] /\ IsPrefixOf(nonces[s], SubSeq(nonces[s], 1, nSynced[s]))
           /\ \A n \in RowsOf(s) : /\ Len(ledger[n].items) < Len(items[p])
                                   /\ IsPrefixOf(ledger[n].items, items[p])
<1> DEFINE s == cur[p]
           c == covered[p][s]
<1>0. A2Type /\ PassType /\ ViewType /\ TypeOK /\ ScanInv(p)
  BY TypeParts DEF Inv
<1>1. /\ s \in Session /\ items[p] \in Seq(Item) /\ Len(items[p]) \in Nat
      /\ nonces[s] \in Seq(Nonce) /\ Len(nonces[s]) \in Nat /\ c \in Row \cup {NoRow}
  <2>1. s \in Session
    BY <1>0 DEF PassType
  <2>. QED BY <1>0, <2>1, LenProperties DEF A2Type, ViewType
<1>2. /\ Count(c) < Len(items[p]) /\ (c # NoRow => IsPrefixOf(c.items, items[p]))
      /\ known[p] = nonces[s] /\ Len(nonces[s]) = Len(items[p])
      /\ nSynced[s] = Len(nonces[s]) /\ nLinked[s]
  BY <1>0 DEF ScanInv, Continues, OnDisk
<1>3. SubSeq(nonces[s], 1, Len(nonces[s])) = nonces[s]
  <2>1. \A i \in 1..Len(nonces[s]) : SubSeq(nonces[s], 1, Len(nonces[s]))[i] = nonces[s][i]
    BY <1>1, CutFacts
  <2>2. SubSeq(nonces[s], 1, Len(nonces[s])) \in Seq(Nonce)
        /\ Len(SubSeq(nonces[s], 1, Len(nonces[s]))) = Len(nonces[s])
    BY <1>1, CutFacts
  <2>. QED BY <1>1, <2>1, <2>2, SeqEqual
<1>4. IsPrefixOf(nonces[s], SubSeq(nonces[s], 1, nSynced[s]))
  BY <1>1, <1>2, <1>3, PrefixOrder
<1>5. RowFor(p) = [session |-> s, items |-> items[p], nonces |-> nonces[s]]
  BY <1>2, <1>3 DEF RowFor
<1>6. /\ RowFor(p) \in Row /\ RowFor(p).session = s /\ RowFor(p).items = items[p]
      /\ RowFor(p).nonces = nonces[s]
  BY <1>1, <1>5 DEF Row
<1>7. Widest(s, c)
  BY <1>0, <1>1 DEF ScanInv, KnowsRows
<1>8. Len(items[p]) > 0
  <2>1. Count(c) \in Nat
    <3>1. c # NoRow => c.items \in Seq(Item)
      BY <1>1 DEF Row
    <3>. QED BY <3>1, LenProperties DEF Count
  <2>. QED BY <1>1, <1>2, <2>1
<1>9. ASSUME NEW n \in RowsOf(s)
      PROVE  /\ Len(ledger[n].items) < Len(items[p])
             /\ IsPrefixOf(ledger[n].items, items[p])
  <2>1. c # NoRow /\ IsPrefixOf(ledger[n].items, c.items)
    BY <1>7 DEF Widest
  <2>2. c.items \in Seq(Item) /\ ledger[n].items \in Seq(Item)
    BY <1>0, <1>1, <2>1, RowFacts DEF RowsOf, Row
  <2>3. Len(ledger[n].items) <= Len(c.items) /\ Len(c.items) < Len(items[p])
    BY <1>2, <2>1, <2>2, PrefixOrder DEF Count
  <2>4. Len(ledger[n].items) \in Nat /\ Len(c.items) \in Nat
    BY <2>2, LenProperties
  <2>5. IsPrefixOf(ledger[n].items, items[p])
    BY <1>1, <1>2, <2>1, <2>2, PrefixOrder
  <2>6. Len(ledger[n].items) < Len(items[p])
    <3> HIDE DEF c
    <3>. QED BY <1>1, <2>3, <2>4
  <2>. QED BY <2>5, <2>6
<1>10. RowFor(p) # NoRow
  BY <1>6, NoRowAssumption
<1>. QED BY <1>1, <1>2, <1>4, <1>6, <1>8, <1>9, <1>10

\* A row appended to its session's becomes the widest; other sessions' stay.
LEMMA RowsExtended ==
    ASSUME TypeOK, NEW s \in Session, NEW r \in Row, r # NoRow, r.session = s,
           ledger' = Append(ledger, r),
           \A n \in RowsOf(s) : IsPrefixOf(ledger[n].items, r.items)
    PROVE  /\ Widest(s, r)'
           /\ \A t \in Session \ {s} : \A row : Widest(t, row) => Widest(t, row)'
           /\ \A t \in Session : \A n \in RowsOf(t) : n \in RowsOf(t)' /\ ledger'[n] = ledger[n]
<1>0. ledger \in Seq(Row) /\ Len(ledger) \in Nat
  BY RowFacts DEF TypeOK
<1>1. PICK last \in Nat : last = Len(ledger) + 1
  BY <1>0
<1>2. /\ Len(ledger') = last /\ ledger'[last] = r
      /\ \A n \in 1..Len(ledger) : ledger'[n] = ledger[n]
  BY <1>0, <1>1, AppendFacts
<1>3. 1..last = (1..Len(ledger)) \cup {last}
  BY <1>0, <1>1
<1>4. ASSUME NEW t \in Session
      PROVE  RowsOf(t)' = RowsOf(t) \cup (IF t = s THEN {last} ELSE {})
  <2>1. RowsOf(t)' = {n \in 1..last : ledger'[n].session = t}
    BY <1>2 DEF RowsOf
  <2>2. \A n \in 1..Len(ledger) : ledger'[n].session = t <=> ledger[n].session = t
    BY <1>2
  <2>3. ledger'[last].session = s
    BY <1>2
  <2>. QED BY <1>3, <2>1, <2>2, <2>3 DEF RowsOf
<1>5. \A t \in Session : \A n \in RowsOf(t) : n \in RowsOf(t)' /\ ledger'[n] = ledger[n]
  BY <1>2, <1>4 DEF RowsOf
<1>6. Widest(s, r)'
  <2>1. r.items \in Seq(Item)
    BY DEF Row
  <2>2. IsPrefixOf(r.items, r.items)
    BY <2>1, PrefixOrder
  <2>3. \A n \in RowsOf(s)' : IsPrefixOf(ledger'[n].items, r.items)
    BY <1>2, <1>4, <1>5, <2>2
  <2>4. last \in RowsOf(s)'
    BY <1>4
  <2>. QED BY <1>2, <2>3, <2>4 DEF Widest
<1>7. ASSUME NEW t \in Session \ {s}, NEW row, Widest(t, row)
      PROVE  Widest(t, row)'
  <2>1. RowsOf(t)' = RowsOf(t) /\ \A n \in RowsOf(t) : ledger'[n] = ledger[n]
    BY <1>4, <1>5
  <2>. QED BY <1>7, <2>1 DEF Widest
<1>. QED BY <1>5, <1>6, <1>7

LEMMA WriteRowInv == ASSUME Inv, NEW p \in Proc, WriteRow(p) PROVE Inv'
<1> DEFINE s == cur[p]
           r == RowFor(p)
           last == Len(ledger) + 1
<1>0. /\ A2Type /\ A3Type /\ A9Type /\ PassType /\ ViewType /\ OtherType /\ TypeOK
      /\ pc[p] = "row" /\ ScanInv(p)
  BY TypeParts DEF Inv, WriteRow
<1>1. /\ s \in Session /\ r \in Row /\ r # NoRow
      /\ r.session = s /\ r.items = items[p] /\ r.nonces = nonces[s]
      /\ Len(items[p]) > 0 /\ Len(nonces[s]) = Len(items[p])
      /\ nLinked[s] /\ IsPrefixOf(nonces[s], SubSeq(nonces[s], 1, nSynced[s]))
      /\ \A n \in RowsOf(s) : /\ Len(ledger[n].items) < Len(items[p])
                              /\ IsPrefixOf(ledger[n].items, items[p])
  BY <1>0, NewRow
<1>2. /\ Goto(p, "rowSync") /\ ledger' = Append(ledger, r)
      /\ UNCHANGED <<source, a2, kept, ledgerTorn, a9, scanLock>>
      /\ UNCHANGED <<todo, cur, items, known, covered, counters>>
  BY DEF WriteRow
<1>3. /\ ledger \in Seq(Row) /\ Len(ledger) \in Nat /\ kept \in Nat /\ kept <= Len(ledger)
      /\ ledgerTorn \in BOOLEAN
  BY <1>0, RowFacts DEF A3Type
<1>4. /\ ledger' \in Seq(Row) /\ Len(ledger') = last
      /\ \A n \in 1..Len(ledger) : ledger'[n] = ledger[n]
      /\ ledger'[last] = r
  BY <1>1, <1>2, <1>3, AppendFacts
<1> HIDE DEF r
<1>5. A2Type' /\ A3Type' /\ A9Type' /\ ViewType' /\ OtherType'
  <2>1. A2Type' /\ A9Type' /\ OtherType'
    BY <1>0, <1>2, TypeFrame
  <2>2. kept' \in 0..Len(ledger') /\ ledgerTorn' \in BOOLEAN
    BY <1>2, <1>3, <1>4
  <2>3. ViewType'
    BY <1>0, <1>2 DEF ViewType
  <2>. QED BY <1>4, <2>1, <2>2, <2>3 DEF A3Type
<1>6. StoreInv'
  <2>1. \A n \in 1..Len(ledger') : Len(ledger'[n].items) > 0
    BY <1>1, <1>3, <1>4 DEF Inv, StoreInv
  <2>. QED BY <1>2, <2>1 DEF Inv, StoreInv, Indexed, a2
<1>7. Backed'
  <2>1. ASSUME NEW n \in 1..Len(ledger')
        PROVE  LET t == ledger'[n].session IN
               /\ nLinked[t] /\ IsPrefixOf(ledger'[n].nonces, SubSeq(nonces[t], 1, nSynced[t]))
               /\ Len(ledger'[n].nonces) = Len(ledger'[n].items)
    <3>1. CASE n = last
      BY <1>1, <1>4, <3>1
    <3>2. CASE n # last
      <4>1. n \in 1..Len(ledger) /\ ledger'[n] = ledger[n]
        BY <1>3, <1>4, <3>2
      <4>. QED BY <4>1 DEF Inv, Backed
    <3>. QED BY <3>1, <3>2
  <2>. QED BY <1>2, <2>1 DEF Backed, a2
<1>8. HistoryOnlyGrows'
  <2> SUFFICES ASSUME NEW m \in 1..last, NEW n \in 1..last, m < n,
                      ledger'[m].session = ledger'[n].session
               PROVE  /\ Len(ledger'[m].items) < Len(ledger'[n].items)
                      /\ IsPrefixOf(ledger'[m].items, ledger'[n].items)
    BY <1>4 DEF HistoryOnlyGrows
  <2>1. m \in 1..Len(ledger) /\ ledger'[m] = ledger[m]
    BY <1>3, <1>4
  <2>2. CASE n = last
    <3>1. m \in RowsOf(s)
      BY <1>1, <1>4, <2>1, <2>2 DEF RowsOf
    <3>. QED BY <1>1, <1>4, <2>1, <2>2, <3>1
  <2>3. CASE n # last
    <3>1. n \in 1..Len(ledger) /\ ledger'[n] = ledger[n]
      BY <1>3, <1>4, <2>3
    <3>. QED BY <2>1, <3>1 DEF Inv, HistoryOnlyGrows
  <2>. QED BY <2>2, <2>3
<1>9. PICK k \in Session, row \in Row :
          /\ k = s /\ row = r /\ Widest(k, row)'
          /\ \A t \in Session \ {k} : \A w : Widest(t, w) => Widest(t, w)'
          /\ \A t \in Session : \A n \in RowsOf(t) : n \in RowsOf(t)' /\ ledger'[n] = ledger[n]
  <2>1. PICK k \in Session : k = s
    BY <1>1
  <2>2. PICK row \in Row : row = r
    BY <1>1
  <2>3. /\ row # NoRow /\ row.session = k /\ ledger' = Append(ledger, row)
        /\ \A n \in RowsOf(k) : IsPrefixOf(ledger[n].items, row.items)
    BY <1>1, <1>2, <2>1, <2>2
  <2>4. /\ Widest(k, row)'
        /\ \A t \in Session \ {k} : \A w : Widest(t, w) => Widest(t, w)'
        /\ \A t \in Session : \A n \in RowsOf(t) : n \in RowsOf(t)' /\ ledger'[n] = ledger[n]
    BY <1>0, <2>3, RowsExtended
  <2>. QED BY <2>1, <2>2, <2>4
<1>10. ArchiveKept'
  <2>1. ASSUME NEW t \in Session, NEW n \in RowsOf(t), n <= kept, Extends(t, ledger[n].items)
        PROVE  n \in RowsOf(t)' /\ n <= kept' /\ Extends(t, ledger[n].items)'
    <3>1. ledger'[n] = ledger[n] /\ n \in RowsOf(t)'
      BY <1>9
    <3>. QED BY <1>2, <2>1, <3>1 DEF Extends, a9
  <2>2. UNCHANGED <<archive, fragment>>
    BY <1>2 DEF a9
  <2>. QED BY <2>1, <2>2 DEF Inv, ArchiveKept
<1>11. ASSUME pc'[p] = "rowSync"
       PROVE  ScanInv(p)'
  <2>1. \A t \in Session : Widest(t, covered[p][t])
    BY <1>0 DEF ScanInv, KnowsRows
  <2>2. RowFor(p)' = row /\ cur'[p] = k /\ covered' = covered
    BY <1>2, <1>9 DEF RowFor, r
  <2>3. \A t \in Session \ {k} : Widest(t, covered[p][t])'
    BY <1>2, <1>9, <2>1
  <2>4. KnowsRows(p)'
    BY <1>9, <1>11, <2>2, <2>3 DEF KnowsRows
  <2>5. HasRow(p)'
    BY <1>1, <1>9, <1>11, <2>2 DEF HasRow
  <2>. QED BY <1>11, <2>4, <2>5 DEF ScanInv, KeptRows, Continues, OnDisk
<1>12. /\ pc[p] # "idle" /\ "rowSync" \in PC /\ scanLock' = scanLock
       /\ todo' \in [Proc -> SUBSET Session] /\ cur' \in [Proc -> Session]
  BY <1>0, <1>2 DEF PC, PassType
<1>. QED BY <1>2, <1>5, <1>6, <1>7, <1>8, <1>10, <1>11, <1>12, StepFacts

LEMMA RowAppendedInv == ASSUME Inv, NEW p \in Proc, RowAppended(p) PROVE Inv'
<1> DEFINE s == cur[p]
           r == RowFor(p)
           view == [covered[p] EXCEPT ![s] = r]
<1>0. /\ A2Type /\ A3Type /\ A9Type /\ PassType /\ ViewType /\ OtherType /\ TypeOK
      /\ pc[p] = "rowSync" /\ ScanInv(p)
  BY TypeParts DEF Inv, RowAppended
<1>1. /\ Goto(p, "archive") /\ kept' = Len(ledger)
      /\ UNCHANGED <<source, a2, ledger, ledgerTorn, a9, scanLock>>
      /\ UNCHANGED <<todo, cur, items, known, counters>>
  BY DEF RowAppended
<1>2. s \in Session /\ covered[p] \in [Session -> Row \cup {NoRow}]
  BY <1>0 DEF PassType, ViewType
<1>3. covered' = [covered EXCEPT ![p] = view]
  BY <1>0, <1>2 DEF RowAppended, ViewType
<1>4. \A t \in Session : Widest(t, IF t = s THEN r ELSE covered[p][t])
  BY <1>0 DEF ScanInv, KnowsRows
<1>5. r \in Row /\ r # NoRow
  <2>1. Widest(s, r)
    BY <1>2, <1>4
  <2>2. r # NoRow
    BY <1>0 DEF ScanInv, HasRow
  <2>. QED BY <1>0, <2>1, <2>2, RowFacts DEF Widest, RowsOf
<1> HIDE DEF r
<1>6. view \in [Session -> Row \cup {NoRow}] /\ view[s] = r
      /\ \A t \in Session \ {s} : view[t] = covered[p][t]
  BY <1>2, <1>5
<1> HIDE DEF view
<1>7. ViewType' /\ covered'[p] = view
  BY <1>0, <1>1, <1>3, <1>6 DEF ViewType
<1>8. A2Type' /\ A3Type' /\ A9Type' /\ OtherType'
  <2>1. A2Type' /\ A9Type' /\ OtherType'
    BY <1>0, <1>1, TypeFrame
  <2>2. kept' \in 0..Len(ledger')
    BY <1>0, <1>1, RowFacts
  <2>3. ledger' \in Seq(Row) /\ ledgerTorn' \in BOOLEAN
    BY <1>0, <1>1 DEF A3Type
  <2>. QED BY <2>1, <2>2, <2>3 DEF A3Type
<1>9. StoreInv' /\ Backed' /\ HistoryOnlyGrows'
  BY <1>1 DEF Inv, a2, StoreInv, Indexed, Backed, HistoryOnlyGrows
<1>10. ArchiveKept'
  <2>1. \A t \in Session : \A n \in RowsOf(t) : n \in RowsOf(t)' /\ n <= kept'
    BY <1>0, <1>1, RowFacts DEF RowsOf
  <2>2. \A t \in Session : \A its : Extends(t, its) => Extends(t, its)'
    BY <1>1 DEF Extends, a9
  <2>. QED BY <1>1, <2>1, <2>2 DEF Inv, ArchiveKept, a9
<1>11. ASSUME pc'[p] = "archive"
       PROVE  ScanInv(p)'
  <2>1. \A t \in Session : Widest(t, view[t])
    BY <1>4, <1>6
  <2>2. KnowsRows(p)'
    BY <1>1, <1>7, <1>11, <2>1, WidestFrame DEF KnowsRows
  <2>3. KeptRows(p)' /\ HasRow(p)'
    BY <1>1, <1>5, <1>6, <1>7, <1>11 DEF KeptRows, HasRow
  <2>. QED BY <1>11, <2>2, <2>3 DEF ScanInv, Continues, OnDisk
<1>12. /\ pc[p] # "idle" /\ "archive" \in PC /\ scanLock' = scanLock
       /\ todo' \in [Proc -> SUBSET Session] /\ cur' \in [Proc -> Session]
  BY <1>0, <1>1 DEF PC, PassType
<1>. QED BY <1>1, <1>7, <1>8, <1>9, <1>10, <1>11, <1>12, StepFacts
-----------------------------------------------------------------------------
(* The archive.                                                            *)

\* An archive file that is a beginning of the items the row committed.
LEMMA ArchiveChanged ==
    ASSUME Inv, NEW p \in Proc, pc[p] = "archive", NEW s \in Session, s = cur[p],
           NEW its \in Seq(Item), its = items[p], items[p] = covered[p][s].items,
           UNCHANGED <<ledger, kept>>, Extends(s, its)',
           \A t \in Session \ {s} : archive'[t] = archive[t] /\ fragment'[t] = fragment[t]
    PROVE  ArchiveKept'
<1>0. TypeOK /\ ScanInv(p) /\ Len(ledger) \in Nat
  BY RowFacts DEF Inv
<1>1. covered[p][s] # NoRow /\ Widest(s, covered[p][s]) /\ kept = Len(ledger)
  BY <1>0 DEF ScanInv, HasRow, KnowsRows, KeptRows
<1>2. PICK n \in RowsOf(s) : ledger[n] = covered[p][s]
  BY <1>1 DEF Widest
<1>3. n \in RowsOf(s)' /\ n <= kept' /\ ledger'[n].items = its
  BY <1>0, <1>1, <1>2 DEF RowsOf
<1>4. Extends(s, ledger[n].items)'
  BY <1>3 DEF Extends
<1>5. ASSUME NEW t \in Session \ {s}
      PROVE  \/ archive'[t] = <<>> /\ fragment'[t] = NoItem
             \/ \E m \in RowsOf(t)' : m <= kept' /\ Extends(t, ledger[m].items)'
  <2>1. \A m \in RowsOf(t) : Extends(t, ledger[m].items) => Extends(t, ledger[m].items)'
    BY DEF Extends
  <2>2. RowsOf(t)' = RowsOf(t)
    BY DEF RowsOf
  <2>3. \/ archive[t] = <<>> /\ fragment[t] = NoItem
        \/ \E m \in RowsOf(t) : m <= kept /\ Extends(t, ledger[m].items)
    BY DEF Inv, ArchiveKept
  <2>. QED BY <2>1, <2>2, <2>3
<1>. QED BY <1>3, <1>4, <1>5 DEF ArchiveKept

LEMMA WriteArchiveInv == ASSUME Inv, NEW p \in Proc, WriteArchive(p) PROVE Inv'
<1>0. /\ A2Type /\ A3Type /\ A9Type /\ PassType /\ ViewType /\ OtherType
      /\ pc[p] = "archive" /\ ScanInv(p)
  BY TypeParts DEF Inv, WriteArchive
<1>1. PICK s \in Session, its \in Seq(Item) : s = cur[p] /\ its = items[p]
  BY <1>0 DEF PassType, ViewType
<1>2. /\ its = covered[p][s].items /\ Goto(p, "archiveSync")
      /\ archive' = [archive EXCEPT ![s] = its] /\ fragment' = [fragment EXCEPT ![s] = NoItem]
      /\ UNCHANGED <<source, a2, a3, aSynced, scanLock>>
      /\ UNCHANGED <<todo, cur, items, known, covered, counters>>
  BY <1>1 DEF WriteArchive
<1>3. /\ archive' \in [Session -> Seq(Item)] /\ fragment' \in [Session -> Item \cup {NoItem}]
      /\ archive'[s] = its /\ fragment'[s] = NoItem
      /\ \A t \in Session \ {s} : archive'[t] = archive[t] /\ fragment'[t] = fragment[t]
  BY <1>0, <1>2 DEF A9Type
<1>4. A2Type' /\ A3Type' /\ A9Type' /\ ViewType' /\ OtherType'
  <2>1. A2Type' /\ A3Type' /\ OtherType'
    BY <1>0, <1>2, TypeFrame
  <2>2. A9Type' /\ ViewType'
    BY <1>0, <1>2, <1>3 DEF A9Type, ViewType
  <2>. QED BY <2>1, <2>2
<1>5. Extends(s, its)'
  BY <1>3, PrefixOrder DEF Extends
<1>6. UNCHANGED <<ledger, kept>> /\ UNCHANGED <<nonces, nSynced, nLinked>>
  BY <1>2 DEF a2, a3
<1>7. ArchiveKept'
  <2>1. pc[p] = "archive" /\ s = cur[p] /\ its = items[p] /\ items[p] = covered[p][s].items
    BY <1>0, <1>1, <1>2
  <2>. QED BY <1>3, <1>5, <1>6, <2>1, ArchiveChanged
<1>8. StoreInv' /\ Backed' /\ HistoryOnlyGrows'
  BY <1>6 DEF Inv, StoreInv, Indexed, Backed, HistoryOnlyGrows
<1>9. ASSUME pc'[p] = "archiveSync"
      PROVE  ScanInv(p)'
  <2>1. KnowsRows(p)'
    BY <1>0, <1>2, <1>6, <1>9, KnowsFrame DEF ScanInv, Reading
  <2>2. KeptRows(p)'
    BY <1>0, <1>6 DEF ScanInv, KeptRows
  <2>. QED BY <1>9, <2>1, <2>2 DEF ScanInv, Continues, OnDisk, HasRow
<1>10. /\ pc[p] # "idle" /\ "archiveSync" \in PC /\ scanLock' = scanLock
       /\ todo' \in [Proc -> SUBSET Session] /\ cur' \in [Proc -> Session]
  BY <1>0, <1>2 DEF PC, PassType
<1>. QED BY <1>2, <1>4, <1>7, <1>8, <1>9, <1>10, StepFacts

LEMMA SyncArchiveInv == ASSUME Inv, NEW p \in Proc, SyncArchive(p) PROVE Inv'
<1>0. /\ A2Type /\ A3Type /\ A9Type /\ PassType /\ ViewType /\ OtherType
      /\ pc[p] = "archiveSync" /\ ScanInv(p)
  BY TypeParts DEF Inv, SyncArchive
<1>1. /\ Goto(p, "next") /\ aSynced' = [aSynced EXCEPT ![cur[p]] = Len(archive[cur[p]])]
      /\ UNCHANGED <<source, a2, a3, archive, fragment, scanLock>>
      /\ UNCHANGED <<todo, cur, items, known, covered, counters>>
  BY DEF SyncArchive
<1>2. Len(archive[cur[p]]) \in Nat
  BY <1>0, LenProperties DEF PassType, A9Type
<1>3. A2Type' /\ A3Type' /\ A9Type' /\ ViewType' /\ OtherType'
  <2>1. A2Type' /\ A3Type' /\ OtherType'
    BY <1>0, <1>1, TypeFrame
  <2>2. A9Type' /\ ViewType'
    BY <1>0, <1>1, <1>2 DEF A9Type, ViewType
  <2>. QED BY <2>1, <2>2
<1>4. UNCHANGED <<ledger, kept>> /\ UNCHANGED <<nonces, nSynced, nLinked>>
  BY <1>1 DEF a2, a3
<1>5. StoreInv' /\ Backed' /\ HistoryOnlyGrows'
  BY <1>4 DEF Inv, StoreInv, Indexed, Backed, HistoryOnlyGrows
<1>6. ArchiveKept'
  BY <1>1, <1>4 DEF Inv, ArchiveKept, RowsOf, Extends
<1>7. ASSUME pc'[p] = "next"
      PROVE  ScanInv(p)'
  <2>1. KnowsRows(p)'
    BY <1>0, <1>1, <1>4, <1>7, KnowsFrame DEF ScanInv, Reading
  <2>2. KeptRows(p)'
    BY <1>0, <1>4 DEF ScanInv, KeptRows
  <2>. QED BY <1>7, <2>1, <2>2 DEF ScanInv, Continues, OnDisk, HasRow
<1>8. /\ pc[p] # "idle" /\ "next" \in PC /\ scanLock' = scanLock
      /\ todo' \in [Proc -> SUBSET Session] /\ cur' \in [Proc -> Session]
  BY <1>0, <1>1 DEF PC, PassType
<1>. QED BY <1>1, <1>3, <1>5, <1>6, <1>7, <1>8, StepFacts

LEMMA KillMidArchiveInv == ASSUME Inv, NEW p \in Proc, KillMidArchive(p) PROVE Inv'
<1>0. /\ A2Type /\ A3Type /\ A9Type /\ PassType /\ ViewType /\ OtherType
      /\ pc[p] = "archive" /\ ScanInv(p)
  BY TypeParts DEF Inv, KillMidArchive
<1>1. PICK s \in Session, its \in Seq(Item) : s = cur[p] /\ its = items[p]
  BY <1>0 DEF PassType, ViewType
<1>2. /\ its = covered[p][s].items /\ Stop(p) /\ crashes' = crashes + 1
      /\ UNCHANGED <<source, rewrites>> /\ UNCHANGED <<a2, a3, aSynced>>
  BY <1>1 DEF KillMidArchive, Die
<1>3. Len(its) \in Nat /\ Len(archive[s]) \in Nat
  BY <1>0, <1>1, LenProperties DEF A9Type
<1>4. PICK n \in 0..Len(its) - 1, x \in Item \cup {NoItem} :
          /\ x # NoItem => x = its[n + 1]
          /\ archive' = [archive EXCEPT ![s] = SubSeq(its, 1, n)]
          /\ fragment' = [fragment EXCEPT ![s] = x]
  <2>1. PICK n \in Len(archive[s])..Len(its) - 1, part \in BOOLEAN :
            /\ archive' = [archive EXCEPT ![s] = SubSeq(its, 1, n)]
            /\ fragment' = [fragment EXCEPT ![s] = IF part THEN its[n + 1] ELSE NoItem]
    BY <1>1 DEF KillMidArchive
  <2>2. n \in 0..Len(its) - 1 /\ n + 1 \in 1..Len(its)
    BY <1>3
  <2>3. its[n + 1] \in Item
    BY <2>2, ElementOfSeq
  <2>. QED BY <2>1, <2>2, <2>3
<1>5. /\ SubSeq(its, 1, n) \in Seq(Item) /\ Len(SubSeq(its, 1, n)) = n
      /\ IsPrefixOf(SubSeq(its, 1, n), its) /\ n < Len(its) /\ n \in 0..Len(its)
  <2>1. n \in 0..Len(its) /\ n < Len(its)
    BY <1>3, <1>4
  <2>. QED BY <2>1, CutFacts, CutIsPrefix, PrefixOrder
<1>6. /\ archive' \in [Session -> Seq(Item)] /\ fragment' \in [Session -> Item \cup {NoItem}]
      /\ archive'[s] = SubSeq(its, 1, n) /\ fragment'[s] = x
      /\ \A t \in Session \ {s} : archive'[t] = archive[t] /\ fragment'[t] = fragment[t]
  BY <1>0, <1>4, <1>5 DEF A9Type
<1>7. Extends(s, its)'
  BY <1>4, <1>5, <1>6 DEF Extends
<1>8. UNCHANGED <<ledger, kept>> /\ UNCHANGED <<nonces, nSynced, nLinked>>
  BY <1>2 DEF a2, a3
<1>9. ArchiveKept'
  <2>1. pc[p] = "archive" /\ s = cur[p] /\ its = items[p] /\ items[p] = covered[p][s].items
    BY <1>0, <1>1, <1>2
  <2>. QED BY <1>6, <1>7, <1>8, <2>1, ArchiveChanged
<1>10. StoreInv' /\ Backed' /\ HistoryOnlyGrows'
  BY <1>8 DEF Inv, StoreInv, Indexed, Backed, HistoryOnlyGrows
<1>11. A2Type' /\ A3Type' /\ A9Type' /\ OtherType'
  BY <1>0, <1>2, <1>6, TypeFrame DEF A9Type, OtherType
<1>12. PassType' /\ ViewType' /\ LockInv' /\ \A q \in Proc : ScanInv(q)'
  BY <1>0, <1>2, StopFacts DEF Inv
<1>. QED BY <1>9, <1>10, <1>11, <1>12, TypeParts DEF Inv
-----------------------------------------------------------------------------
(* Power loss: every file keeps at least what was synced of it.            *)

\* A session with a row keeps the nonces that row is computed with.
LEMMA RowsStayBacked ==
    ASSUME Inv, NEW n \in 1..Len(ledger), NEW s \in Session, s = ledger[n].session,
           NEW k \in 0..Len(nonces[s]), nSynced[s] <= k \/ (k = 0 /\ ~nLinked[s]),
           NEW file, file = SubSeq(nonces[s], 1, k)
    PROVE  /\ k > 0
           /\ IsPrefixOf(ledger[n].nonces, SubSeq(file, 1, k))
           /\ Len(ledger[n].nonces) = Len(ledger[n].items)
<1> DEFINE row == ledger[n].nonces
           disk == SubSeq(nonces[s], 1, nSynced[s])
<1>0. A2Type /\ TypeOK
  BY TypeParts DEF Inv
<1>1. /\ row \in Seq(Nonce) /\ Len(row) \in Nat /\ Len(row) = Len(ledger[n].items) /\ Len(row) > 0
      /\ nLinked[s] /\ IsPrefixOf(row, disk)
  BY <1>0, RowFacts DEF Inv, Backed, StoreInv
<1>2. /\ nonces[s] \in Seq(Nonce) /\ Len(nonces[s]) \in Nat
      /\ nSynced[s] \in 0..Len(nonces[s])
  BY <1>0, LenProperties DEF A2Type, Inv, StoreInv
<1>3. disk \in Seq(Nonce) /\ Len(disk) = nSynced[s] /\ \A i \in 1..nSynced[s] : disk[i] = nonces[s][i]
  BY <1>2, CutFacts
<1> HIDE DEF row, disk
<1>4. Len(row) <= nSynced[s] /\ \A i \in 1..Len(row) : row[i] = disk[i]
  <2>1. row \in Seq(Nonce) /\ disk \in Seq(Nonce) /\ IsPrefixOf(row, disk)
    BY <1>1, <1>3
  <2>2. Len(row) <= Len(disk) /\ \A i \in 1..Len(row) : row[i] = disk[i]
    BY ONLY <2>1, PrefixElements
  <2>. QED BY <1>3, <2>2
<1>5. nSynced[s] <= k /\ k > 0
  BY <1>1, <1>2, <1>4
<1>6. file \in Seq(Nonce) /\ Len(file) = k /\ \A i \in 1..k : file[i] = nonces[s][i]
  BY <1>2, CutFacts
<1>7. IsPrefixOf(row, file)
  <2>1. Len(row) <= Len(file)
    BY <1>1, <1>2, <1>4, <1>5, <1>6
  <2>2. ASSUME NEW i \in 1..Len(row)
        PROVE  row[i] = file[i]
    <3>1. i \in 1..nSynced[s] /\ i \in 1..k
      BY <1>1, <1>2, <1>4, <1>5
    <3>. QED BY <1>3, <1>4, <1>6, <3>1
  <2>. QED BY <1>1, <1>6, <2>1, <2>2, PrefixElements
<1>8. Len(row) <= k
  BY <1>1, <1>2, <1>4, <1>5
<1>9. IsPrefixOf(row, SubSeq(file, 1, k))
  <2>1. k \in Nat /\ k <= Len(file)
    BY <1>2, <1>6
  <2>2. row \in Seq(Nonce) /\ file \in Seq(Nonce)
    BY <1>1, <1>6
  <2>. QED BY <1>7, <1>8, <2>1, <2>2, PrefixOfCut
<1>. QED BY <1>1, <1>5, <1>9 DEF row

\* An archive file that loses its end is still a beginning of the same items.
LEMMA ArchiveCut ==
    ASSUME NEW s \in Session, NEW its \in Seq(Item), Extends(s, its),
           archive[s] \in Seq(Item), NEW k \in 0..Len(archive[s]),
           archive'[s] = SubSeq(archive[s], 1, k),
           fragment'[s] # NoItem =>
               fragment'[s] = IF k < Len(archive[s]) THEN archive[s][k + 1] ELSE fragment[s]
    PROVE  Extends(s, its)'
<1> DEFINE old == archive[s]
<1>0. old \in Seq(Item) /\ Len(old) \in Nat /\ Len(its) \in Nat /\ k \in Nat /\ k <= Len(old)
  BY LenProperties
<1>1. IsPrefixOf(old, its)
  BY DEF Extends
<1>2. Len(old) <= Len(its) /\ \A i \in 1..Len(old) : old[i] = its[i]
  BY <1>0, <1>1, PrefixElements
<1>3. IsPrefixOf(archive'[s], its) /\ Len(archive'[s]) = k
  BY <1>0, <1>1, CutIsPrefix, CutFacts
<1>4. ASSUME fragment'[s] # NoItem
      PROVE  k < Len(its) /\ its[k + 1] = fragment'[s]
  <2>1. CASE k < Len(old)
    <3>1. k + 1 \in 1..Len(old) /\ k < Len(its)
      BY <1>0, <1>2, <2>1
    <3>. QED BY <1>2, <1>4, <2>1, <3>1
  <2>2. CASE ~(k < Len(old))
    <3>1. k = Len(old) /\ fragment'[s] = fragment[s]
      BY <1>0, <1>4, <2>2
    <3>. QED BY <1>4, <3>1 DEF Extends
  <2>. QED BY <2>1, <2>2
<1>. QED BY <1>3, <1>4 DEF Extends

LEMMA PowerLossInv == Inv /\ PowerLoss => Inv'
<1> SUFFICES ASSUME Inv, PowerLoss PROVE Inv'
  OBVIOUS
<1>0. A2Type /\ A3Type /\ A9Type /\ PassType /\ ViewType /\ OtherType /\ TypeOK
  BY TypeParts DEF Inv
<1>1. PICK n \in [Session -> 0..MaxItems], bare \in [Session -> 0..MaxItems], torn \in [Session -> BOOLEAN],
           m \in kept..Len(ledger), tornRow \in BOOLEAN,
           k \in [Session -> 0..MaxItems], part \in [Session -> BOOLEAN] :
         /\ \A s \in Session :
              /\ n[s] <= Len(nonces[s])
              /\ nSynced[s] <= n[s] \/ (n[s] = 0 /\ ~nLinked[s])
              /\ torn[s] => nTorn[s] \/ n[s] < Len(nonces[s])
              /\ bare[s] = KeptBare(s, n[s]) \/ BecomesBare(s, n[s], bare[s], torn[s])
              /\ aSynced[s] <= k[s] /\ k[s] <= Len(archive[s])
         /\ tornRow => ledgerTorn \/ m < Len(ledger)
         /\ nonces' = [s \in Session |-> SubSeq(nonces[s], 1, n[s])]
         /\ nSynced' = n
         /\ nTorn' = torn
         /\ nBare' = bare
         /\ nLinked' = [s \in Session |-> n[s] > 0 \/ torn[s]]
         /\ ledger' = SubSeq(ledger, 1, m)
         /\ ledgerTorn' = tornRow
         /\ kept' = m
         /\ archive' = [s \in Session |-> SubSeq(archive[s], 1, k[s])]
         /\ fragment' = [s \in Session |->
                            IF ~part[s] THEN NoItem
                            ELSE IF k[s] < Len(archive[s]) THEN archive[s][k[s] + 1]
                            ELSE fragment[s]]
         /\ aSynced' = k
  BY DEF PowerLoss
<1>2. /\ scanLock' = NoProc /\ pc' = [p \in Proc |-> "idle"] /\ todo' = [p \in Proc |-> {}]
      /\ cur' = [p \in Proc |-> CHOOSE s \in Session : TRUE]
      /\ items' = [p \in Proc |-> <<>>] /\ known' = [p \in Proc |-> <<>>]
      /\ covered' = [p \in Proc |-> [s \in Session |-> NoRow]]
      /\ UNCHANGED <<source, rewrites>> /\ crashes' = crashes + 1
  BY DEF PowerLoss
<1>3. PassType' /\ ViewType' /\ OtherType'
  <2>1. (CHOOSE s \in Session : TRUE) \in Session /\ <<>> \in Seq(Item) /\ <<>> \in Seq(Nonce)
    BY SessionAssumption, EmptySeq
  <2>2. PassType'
    BY <1>2, <2>1 DEF PassType, PC
  <2>3. ViewType' /\ OtherType'
    BY <1>0, <1>2, <2>1 DEF ViewType, OtherType
  <2>. QED BY <2>2, <2>3
<1>4. LockInv' /\ \A p \in Proc : ScanInv(p)'
  BY <1>2 DEF LockInv, ScanInv, KnowsRows, KeptRows, Continues, OnDisk, HasRow
<1>5. \A s \in Session :
          /\ nonces[s] \in Seq(Nonce) /\ archive[s] \in Seq(Item)
          /\ n[s] \in 0..Len(nonces[s]) /\ k[s] \in 0..Len(archive[s])
  <2> SUFFICES ASSUME NEW s \in Session
               PROVE  /\ nonces[s] \in Seq(Nonce) /\ archive[s] \in Seq(Item)
                      /\ n[s] \in 0..Len(nonces[s]) /\ k[s] \in 0..Len(archive[s])
    OBVIOUS
  <2>1. nonces[s] \in Seq(Nonce) /\ archive[s] \in Seq(Item)
    BY <1>0 DEF A2Type, A9Type
  <2>2. Len(nonces[s]) \in Nat /\ Len(archive[s]) \in Nat
    BY <2>1, LenProperties
  <2>3. n[s] \in 0..MaxItems /\ k[s] \in 0..MaxItems
    BY <1>1
  <2>4. n[s] \in Nat /\ k[s] \in Nat
    BY <2>3
  <2>5. n[s] <= Len(nonces[s]) /\ k[s] <= Len(archive[s])
    BY <1>1
  <2>. QED BY <2>1, <2>2, <2>4, <2>5
<1>6. \A s \in Session :
          /\ nonces'[s] = SubSeq(nonces[s], 1, n[s]) /\ nonces'[s] \in Seq(Nonce)
          /\ Len(nonces'[s]) = n[s]
          /\ archive'[s] = SubSeq(archive[s], 1, k[s]) /\ archive'[s] \in Seq(Item)
  BY <1>1, <1>5, CutFacts
<1>7. A2Type'
  <2>1. nonces' \in [Session -> Seq(Nonce)]
    BY <1>1, <1>6
  <2>2. nSynced' \in [Session -> Nat]
    BY <1>1, <1>5
  <2>3. nLinked' \in [Session -> BOOLEAN]
    BY <1>1
  <2>4. nBare' \in [Session -> Nat]
    <3>1. \A s \in Session : bare[s] \in 0..MaxItems
      OBVIOUS
    <3>2. \A s \in Session : bare[s] \in Nat
      BY <3>1
    <3>. QED BY <1>1, <3>2
  <2>. QED BY <1>1, <2>1, <2>2, <2>3, <2>4 DEF A2Type
<1>8. /\ m \in 0..Len(ledger) /\ kept <= m /\ m \in Nat
      /\ ledger' \in Seq(Row) /\ Len(ledger') = m /\ \A i \in 1..m : ledger'[i] = ledger[i]
  <2>1. kept \in Nat /\ Len(ledger) \in Nat /\ ledger \in Seq(Row)
    BY <1>0, RowFacts DEF A3Type
  <2>2. m \in 0..Len(ledger) /\ kept <= m /\ m \in Nat
    BY <2>1
  <2>. QED BY <1>1, <2>1, <2>2, CutFacts
<1>9. A3Type'
  BY <1>1, <1>8 DEF A3Type
<1>10. A9Type'
  <2>1. archive' \in [Session -> Seq(Item)]
    BY <1>1, <1>6
  <2>2. aSynced' \in [Session -> Nat]
    BY <1>1, <1>5
  <2>3. ASSUME NEW s \in Session, k[s] < Len(archive[s])
        PROVE  archive[s][k[s] + 1] \in Item
    <3>1. k[s] + 1 \in 1..Len(archive[s])
      BY <1>5, <2>3, LenProperties
    <3>. QED BY <1>5, <3>1, ElementOfSeq
  <2>4. fragment' \in [Session -> Item \cup {NoItem}]
    BY <1>0, <1>1, <2>3 DEF A9Type
  <2>. QED BY <2>1, <2>2, <2>4 DEF A9Type
<1>11. StoreInv'
  <2>1. \A s \in Session : nSynced'[s] <= Len(nonces'[s])
    BY <1>1, <1>5, <1>6
  <2>2. \A i \in 1..Len(ledger') : Len(ledger'[i].items) > 0
    BY <1>8 DEF Inv, StoreInv
  <2>3. ASSUME NEW s \in Session, NEW i \in 1..Len(nonces'[s])
        PROVE  nonces'[s][i].i = i - 1
    <3>1. i \in 1..n[s] /\ nonces'[s][i] = nonces[s][i]
      BY <1>5, <1>6, CutFacts
    <3>2. i \in 1..Len(nonces[s])
      BY <1>5, <3>1, LenProperties
    <3>. QED BY <3>1, <3>2 DEF Inv, StoreInv, Indexed
  <2>. QED BY <2>1, <2>2, <2>3 DEF StoreInv, Indexed
<1>12. Backed'
  <2>1. ASSUME NEW i \in 1..m
        PROVE  /\ nLinked'[ledger'[i].session]
               /\ IsPrefixOf(ledger'[i].nonces,
                             SubSeq(nonces'[ledger'[i].session], 1, nSynced'[ledger'[i].session]))
               /\ Len(ledger'[i].nonces) = Len(ledger'[i].items)
    <3>0. i \in 1..Len(ledger) /\ ledger'[i] = ledger[i]
      BY <1>8
    <3>1. PICK s \in Session : s = ledger[i].session
      BY <1>0, <3>0, RowFacts
    <3>2. /\ n[s] \in 0..Len(nonces[s]) /\ (nSynced[s] <= n[s] \/ (n[s] = 0 /\ ~nLinked[s]))
          /\ nonces'[s] = SubSeq(nonces[s], 1, n[s]) /\ nSynced'[s] = n[s]
      BY <1>1, <1>5, <1>6
    <3>3. /\ n[s] > 0 /\ IsPrefixOf(ledger[i].nonces, SubSeq(nonces'[s], 1, n[s]))
          /\ Len(ledger[i].nonces) = Len(ledger[i].items)
      BY <3>0, <3>1, <3>2, RowsStayBacked
    <3>4. nLinked'[s]
      BY <1>1, <3>3
    <3>. QED BY <3>0, <3>1, <3>2, <3>3, <3>4
  <2>. QED BY <1>8, <2>1 DEF Backed
<1>13. HistoryOnlyGrows'
  <2>1. \A i \in 1..Len(ledger') : i \in 1..Len(ledger) /\ ledger'[i] = ledger[i]
    BY <1>8
  <2>. QED BY <2>1 DEF Inv, HistoryOnlyGrows
<1>14. ArchiveKept'
  <2> SUFFICES ASSUME NEW s \in Session
               PROVE  \/ archive'[s] = <<>> /\ fragment'[s] = NoItem
                      \/ \E i \in RowsOf(s)' : i <= kept' /\ Extends(s, ledger[i].items)'
    BY DEF ArchiveKept
  <2>0. /\ archive'[s] = SubSeq(archive[s], 1, k[s]) /\ archive[s] \in Seq(Item)
        /\ k[s] \in 0..Len(archive[s])
        /\ fragment'[s] # NoItem =>
              fragment'[s] = IF k[s] < Len(archive[s]) THEN archive[s][k[s] + 1] ELSE fragment[s]
    BY <1>1, <1>5, <1>6
  <2>1. CASE archive[s] = <<>> /\ fragment[s] = NoItem
    <3>1. Len(archive[s]) = 0 /\ k[s] = 0 /\ Len(archive'[s]) = 0
      BY <2>0, <2>1, EmptySeq, CutFacts
    <3>2. archive'[s] = <<>>
      BY <1>6, <3>1, EmptySeq
    <3>3. fragment'[s] = NoItem
      BY <2>0, <2>1, <3>1
    <3>. QED BY <3>2, <3>3
  <2>2. ASSUME NEW i \in RowsOf(s), i <= kept, Extends(s, ledger[i].items)
        PROVE  i \in RowsOf(s)' /\ i <= kept' /\ Extends(s, ledger[i].items)'
    <3>1. i \in 1..Len(ledger) /\ kept \in Nat
      BY <1>0, RowFacts DEF RowsOf, A3Type
    <3>2. i \in 1..m /\ i <= kept' /\ ledger'[i] = ledger[i]
      BY <1>1, <1>8, <2>2, <3>1
    <3>3. i \in RowsOf(s)'
      BY <1>8, <3>2 DEF RowsOf
    <3>4. PICK its \in Seq(Item) : its = ledger[i].items
      BY <1>0, <3>1, RowFacts
    <3>5. Extends(s, its)'
      BY <2>0, <2>2, <3>4, ArchiveCut
    <3>6. ledger'[i].items = its
      BY <3>2, <3>4
    <3>. QED BY <3>2, <3>3, <3>5, <3>6 DEF Extends
  <2>. QED BY <2>1, <2>2 DEF Inv, ArchiveKept
<1>. QED
  BY <1>3, <1>4, <1>7, <1>9, <1>10, <1>11, <1>12, <1>13, <1>14, TypeParts DEF Inv

-----------------------------------------------------------------------------
(* Every step; and the theorems.                                           *)

LEMMA NextInv == Inv /\ [Next]_vars => Inv'
<1> SUFFICES ASSUME Inv, [Next]_vars PROVE Inv'
  OBVIOUS
<1>1. CASE Agent
  BY <1>1, AgentInv
<1>2. CASE PowerLoss
  BY <1>2, PowerLossInv
<1>3. CASE OtherWriterDies
  BY <1>3, OtherWriterInv
<1>4. ASSUME NEW p \in Proc, Kill(p) \/ KillMidNonce(p) \/ KillMidRow(p) \/ KillMidArchive(p)
      PROVE  Inv'
  BY <1>4, KillInv, KillMidNonceInv, KillMidArchiveInv
<1>5. ASSUME NEW p \in Proc, Begin(p) PROVE Inv'
  BY <1>5, BeginInv
<1>6. ASSUME NEW p \in Proc, Step(p) PROVE Inv'
  <2>1. CASE Recover(p) \/ ReadCovered(p) \/ EndScan(p)
    BY <2>1, RecoverInv, ReadCoveredInv, EndScanInv
  <2>2. CASE \E s \in Session : CaptureFile(p, s) \/ ArchiveOnly(p, s) \/ SkipFile(p, s)
    BY <2>2, CaptureFileInv, ArchiveOnlyInv, SkipFileInv
  <2>3. CASE WriteNonce(p) \/ SyncNonce(p) \/ EnsureDurable(p)
    BY <2>3, WriteNonceInv, SyncInv
  <2>4. CASE WriteRow(p) \/ RowAppended(p)
    BY <2>4, WriteRowInv, RowAppendedInv
  <2>5. CASE NonceRefused(p) \/ RowRefused(p) \/ ArchiveThere(p) \/ NoArchive(p)
    BY <2>5, MoveInv
  <2>6. CASE WriteArchive(p) \/ SyncArchive(p)
    BY <2>6, WriteArchiveInv, SyncArchiveInv
  <2>. QED BY <1>6, <2>1, <2>2, <2>3, <2>4, <2>5, <2>6 DEF Step
<1>7. CASE UNCHANGED vars
  <2>1. UNCHANGED <<a2, a3, a9>> /\ UNCHANGED <<source, counters>>
        /\ UNCHANGED <<scanLock, pc, todo, cur, items, known, covered>>
    BY <1>7 DEF vars, scan
  <2>2. /\ A2Type /\ A3Type /\ A9Type /\ PassType /\ ViewType /\ OtherType
    BY TypeParts DEF Inv
  <2>3. UNCHANGED <<nonces, nSynced, nLinked, ledger, kept>>
    BY <2>1 DEF a2, a3
  <2>4. LockInv' /\ PassType' /\ ViewType' /\ \A p \in Proc : ScanInv(p)'
    BY <2>1, <2>2, <2>3, ScanFrame DEF Inv, PassType
  <2>. QED BY <2>1, <2>2, <2>4, TypeParts, TypeFrame, StoresFrame DEF Inv
<1>. QED BY <1>1, <1>2, <1>3, <1>4, <1>5, <1>6, <1>7 DEF Next, Crash

THEOREM Invariant == Spec => []Inv
<1>1. Init => Inv
  BY InitInv
<1>2. Inv /\ [Next]_vars => Inv'
  BY NextInv
<1>. QED BY <1>1, <1>2, PTL DEF Spec

\* Every variable keeps its type, through overlapping scans, rewrites of the
\* transcripts and crashes.
THEOREM TypeCorrect == Spec => []TypeOK
<1>1. Inv => TypeOK
  BY DEF Inv
<1>. QED BY <1>1, Invariant, PTL

\* At most one scan is under way: the others are idle.
THEOREM OneScan == Spec => [](\A p, q \in Proc : pc[p] # "idle" /\ pc[q] # "idle" => p = q)
<1>1. Inv => \A p, q \in Proc : pc[p] # "idle" /\ pc[q] # "idle" => p = q
  BY DEF Inv, LockInv
<1>. QED BY <1>1, Invariant, PTL

\* ensure_durable() before append_session(): the nonces of every readable row
\* are on disk, as many as its items, and the file that holds them loads unless
\* a writer died inside its write of a nonce row.
THEOREM RowsBacked == Spec => []RowsBackedOnDisk
<1>1. Inv => RowsBackedOnDisk
  <2> SUFFICES ASSUME Inv, NEW n \in 1..Len(ledger), NEW s, s = ledger[n].session
               PROVE  /\ nLinked[s]
                      /\ IsPrefixOf(ledger[n].nonces, SubSeq(nonces[s], 1, nSynced[s]))
                      /\ Len(ledger[n].nonces) = Len(ledger[n].items)
                      /\ NoncesReadable(s) \/ nTorn[s] \/ nBare[s] # 0
    BY DEF RowsBackedOnDisk
  <2>1. s \in Session
    BY RowFacts DEF Inv
  <2>2. NoncesReadable(s) \/ nTorn[s] \/ nBare[s] # 0
    BY <2>1 DEF Inv, StoreInv, Indexed, NoncesReadable
  <2>. QED BY <2>2 DEF Inv, Backed
<1>. QED BY <1>1, Invariant, PTL

\* The lock and the checks of _capture_file(): a later row of a session
\* commits to more items, and to the same first ones.
THEOREM HistoryGrows == Spec => []HistoryOnlyGrows
<1>1. Inv => HistoryOnlyGrows
  BY DEF Inv
<1>. QED BY <1>1, Invariant, PTL

\* archive_session() after append_session(): the archive holds a beginning of
\* what a row committed, and no power loss takes that row away.
THEOREM ArchiveCommitted == Spec => [](ArchiveIsCommitted /\ ArchiveKept)
<1>1. ArchiveKept => ArchiveIsCommitted
  BY DEF ArchiveKept, ArchiveIsCommitted
<1>2. Inv => ArchiveIsCommitted /\ ArchiveKept
  BY <1>1 DEF Inv
<1>. QED BY <1>2, Invariant, PTL
=============================================================================
