--------------------------- MODULE LedgerStore_proofs ---------------------------
(***************************************************************************)
(* Proofs about LedgerStore, for any number of writers, keys, appends and  *)
(* crashes.                                                                *)
(***************************************************************************)
EXTENDS LedgerStore, SequenceTheorems, TLAPS

\* The states in which a process holds the lock.
Holding == PC \ {"idle", "lock", "rlock"}

\* The lock has at most one holder, and it is where the lock says.
LockInv == \A p \in Proc : pc[p] \in Holding <=> lock = p

\* What p relies on between two of its steps under the lock: what it read is
\* still the file, with at most its own row after it.
View(p) ==
    /\ pc[p] \in {"lock", "read"} => op[p] \in Op
    /\ pc[p] = "write" => /\ op[p] \in Op /\ tail = FALSE
                          /\ seen[p] = rows
                          /\ ~Recorded(rows, op[p])
    /\ pc[p] \in {"fsync", "fsyncdir"} =>
          /\ op[p] \in Op /\ tail = FALSE
          /\ ~Recorded(seen[p], op[p])
          /\ rows = Append(seen[p], RowOf(p))
    /\ pc[p] \in {"tsync", "rsync", "rdir"} => tail = FALSE
    /\ pc[p] \in {"fsyncdir", "rdir"} => synced = Len(rows)

ViewInv == \A p \in Proc : View(p)

\* What was acknowledged is on disk, and so is the file's name.
DiskInv ==
    /\ synced <= Len(rows)
    /\ IsPrefixOf(acked, rows)
    /\ Len(acked) <= synced
    /\ acked # <<>> => linked

IInv == TypeOK /\ LockInv /\ ViewInv /\ DiskInv /\ ChainIntact /\ EventOnce

-----------------------------------------------------------------------------
(* Chains of rows: what one more row, or fewer rows, do to a valid one.    *)

\* What an append may be asked for.
LEMMA OpFacts ==
    ASSUME NEW o \in Op
    PROVE  /\ o.type \in {"session", "binding", "event"}
           /\ o.prov \in BOOLEAN
           /\ o.key \in Key
<1>1. CASE o \in [type : {"session", "binding"}, prov : BOOLEAN, key : Key]
  BY <1>1
<1>2. CASE o \in [type : {"event"}, prov : {FALSE}, key : Key]
  BY <1>2
<1>. QED BY <1>1, <1>2 DEF Op

\* The row it comes to is the evidence asked for.
LEMMA EvidenceFacts ==
    ASSUME NEW o \in Op
    PROVE  /\ Evidence(o) \in Body
           /\ Evidence(o).type = o.type
           /\ Evidence(o).type \notin {"genesis", "schema_version"}
<1>1. Evidence(o) \in Body
  <2>1. o.type \in RowType
    BY OpFacts DEF RowType
  <2>2. (IF o.prov THEN 3 ELSE IF o.type = "binding" THEN 1 ELSE 2) \in 1..3
    BY OpFacts
  <2>. QED BY <2>1, <2>2, OpFacts DEF Evidence, Body
<1>2. Evidence(o).type = o.type
  BY DEF Evidence
<1>. QED BY <1>1, <1>2, OpFacts

\* The row an append writes is a row, whatever it read and was asked for.
LEMMA NextRowType ==
    ASSUME NEW s \in Seq(Row), NEW o \in Op
    PROVE  NextRow(s, NextBody(s, o)) \in Row
<1>1. NextBody(s, o) \in Body
  <2>1. Genesis \in Body /\ Boundary \in Body
    BY DEF Genesis, Boundary, Body, RowType
  <2>. QED BY <2>1, EvidenceFacts DEF NextBody
<1>2. CASE s = <<>>
  BY <1>1, <1>2 DEF NextRow, GenesisPrev, Row
<1>3. CASE s # <<>>
  <2>1. Len(s) \in 1..Len(s)
    BY <1>3
  <2>2. s[Len(s)] \in Row
    BY <2>1
  <2>3. RowHash(s[Len(s)]) \in Seq(Body)
    BY <2>2 DEF RowHash, Row
  <2>. QED BY <1>1, <1>3, <2>2, <2>3 DEF NextRow, Row
<1>. QED BY <1>2, <1>3

\* Appending adds one row and keeps the others.
LEMMA AppendFacts ==
    ASSUME NEW s \in Seq(Row), NEW r \in Row
    PROVE  /\ Append(s, r) \in Seq(Row)
           /\ Len(Append(s, r)) = Len(s) + 1
           /\ \A n \in 1..Len(s) : Append(s, r)[n] = s[n]
           /\ Append(s, r)[Len(s) + 1] = r
OBVIOUS

\* The first rows of a sequence are those rows.
LEMMA PrefixFacts ==
    ASSUME NEW s \in Seq(Row), NEW k \in 0..Len(s)
    PROVE  /\ SubSeq(s, 1, k) \in Seq(Row)
           /\ Len(SubSeq(s, 1, k)) = k
           /\ \A n \in 1..k : SubSeq(s, 1, k)[n] = s[n]
OBVIOUS

\* A writer that extends the chain it read leaves a valid chain: index,
\* predecessor, one genesis, one schema_version row before every v3 row.
LEMMA ChainExtended ==
    ASSUME NEW s \in Seq(Row), NEW o \in Op, ChainOK(s)
    PROVE  ChainOK(Append(s, NextRow(s, NextBody(s, o))))
<1> DEFINE r == NextRow(s, NextBody(s, o))
           t == Append(s, r)
<1>1. r \in Row
  BY NextRowType
<1>2. /\ t \in Seq(Row) /\ Len(t) = Len(s) + 1
      /\ \A n \in 1..Len(s) : t[n] = s[n]
      /\ t[Len(s) + 1] = r
  BY <1>1, AppendFacts
<1>3. r.body = NextBody(s, o)
  BY DEF NextRow
<1> HIDE DEF r, t
<1>4. \A n \in Boundaries(s) : n \in Boundaries(t)
  BY <1>2 DEF Boundaries
<1>5. \A n \in 1..Len(s) : RowInPlace(t, n) /\ BoundaryBeforeV3(t, n)
  <2> SUFFICES ASSUME NEW n \in 1..Len(s)
               PROVE  RowInPlace(t, n) /\ BoundaryBeforeV3(t, n)
    OBVIOUS
  <2>1. RowInPlace(s, n) /\ BoundaryBeforeV3(s, n)
    BY DEF ChainOK
  <2>2. RowInPlace(t, n)
    <3>1. n # 1 => n - 1 \in 1..Len(s)
      OBVIOUS
    <3>. QED BY <1>2, <2>1, <3>1 DEF RowInPlace
  <2>3. BoundaryBeforeV3(t, n)
    BY <1>2, <1>4, <2>1 DEF BoundaryBeforeV3
  <2>. QED BY <2>2, <2>3
<1>6. RowInPlace(t, Len(s) + 1)
  <2>1. CASE s = <<>>
    <3>1. /\ r.i = 0 /\ r.prev = GenesisPrev
          /\ r.body = Genesis
      BY <2>1 DEF r, NextRow, NextBody
    <3>2. Len(s) = 0
      BY <2>1
    <3>. QED BY <1>2, <3>1, <3>2 DEF RowInPlace, Genesis
  <2>2. CASE s # <<>>
    <3>1. Len(s) \in 1..Len(s) /\ Len(s) \in Nat
      BY <2>2
    <3>2. s[Len(s)].i = Len(s) - 1
      BY <3>1 DEF ChainOK, RowInPlace
    <3>3. r.i = Len(s) /\ r.prev = RowHash(s[Len(s)])
      BY <2>2, <3>1, <3>2 DEF r, NextRow
    <3>4. r.body.type # "genesis"
      BY <1>3, <2>2, EvidenceFacts DEF NextBody, Boundary
    <3>5. t[(Len(s) + 1) - 1] = s[Len(s)]
      BY <1>2, <3>1
    <3>. QED BY <1>2, <3>1, <3>3, <3>4, <3>5 DEF RowInPlace
  <2>. QED BY <2>1, <2>2
<1>7. BoundaryBeforeV3(t, Len(s) + 1)
  <2>1. CASE s = <<>>
    BY <1>2, <1>3, <2>1 DEF BoundaryBeforeV3, NextBody, Genesis
  <2>2. CASE s # <<>> /\ o.prov /\ Boundaries(s) = {}
    BY <1>2, <1>3, <2>2 DEF BoundaryBeforeV3, NextBody, Boundary
  <2>3. CASE s # <<>> /\ o.prov /\ Boundaries(s) # {}
    <3>1. PICK m \in Boundaries(s) : TRUE
      BY <2>3
    <3>2. m \in Boundaries(t) /\ m < Len(s) + 1
      BY <1>4, <3>1 DEF Boundaries
    <3>. QED BY <3>2 DEF BoundaryBeforeV3
  <2>4. CASE s # <<>> /\ ~o.prov
    BY <1>2, <1>3, <2>4 DEF BoundaryBeforeV3, NextBody, Evidence
  <2>. QED BY <2>1, <2>2, <2>3, <2>4
<1>8. ASSUME NEW m \in Boundaries(t), NEW n \in Boundaries(t)
      PROVE  m = n
  <2>1. \A k \in Boundaries(t) : k \in Boundaries(s) \/ k = Len(s) + 1
    BY <1>2 DEF Boundaries
  <2>2. Len(s) + 1 \in Boundaries(t) => Boundaries(s) = {}
    <3> SUFFICES ASSUME r.body.type = "schema_version" PROVE Boundaries(s) = {}
      BY <1>2 DEF Boundaries
    <3>. QED BY <1>3, EvidenceFacts DEF NextBody, Genesis, Boundaries
  <2>. QED BY <2>1, <2>2 DEF ChainOK
<1>9. \A n \in 1..Len(t) : n \in 1..Len(s) \/ n = Len(s) + 1
  BY <1>2
<1>. QED BY <1>5, <1>6, <1>7, <1>8, <1>9 DEF ChainOK, t, r

\* The first rows of a valid chain are a valid chain (what verify_chain's
\* docstring says, and why a power loss leaves a ledger that verifies).
LEMMA ChainPrefix ==
    ASSUME NEW s \in Seq(Row), ChainOK(s), NEW k \in 0..Len(s)
    PROVE  ChainOK(SubSeq(s, 1, k))
<1> DEFINE t == SubSeq(s, 1, k)
<1>1. /\ t \in Seq(Row) /\ Len(t) = k
      /\ \A n \in 1..k : t[n] = s[n]
  BY PrefixFacts
<1> HIDE DEF t
<1>2. \A n \in 1..k : n \in Boundaries(t) <=> n \in Boundaries(s)
  BY <1>1 DEF Boundaries
<1>3. ASSUME NEW n \in 1..k
      PROVE  RowInPlace(t, n) /\ BoundaryBeforeV3(t, n)
  <2>1. n \in 1..Len(s) /\ RowInPlace(s, n) /\ BoundaryBeforeV3(s, n)
    BY DEF ChainOK
  <2>2. n # 1 => n - 1 \in 1..k
    OBVIOUS
  <2>3. RowInPlace(t, n)
    BY <1>1, <2>1, <2>2 DEF RowInPlace
  <2>4. BoundaryBeforeV3(t, n)
    <3>1. \A m \in Boundaries(s) : m < n => m \in Boundaries(t)
      BY <1>2 DEF Boundaries
    <3>. QED BY <1>1, <2>1, <3>1 DEF BoundaryBeforeV3
  <2>. QED BY <2>3, <2>4
<1>4. \A m \in Boundaries(t) : m \in Boundaries(s)
  BY <1>1 DEF Boundaries
<1>. QED BY <1>1, <1>3, <1>4 DEF ChainOK, t

\* No event is recorded twice in s.
OnceIn(s) ==
    \A m, n \in 1..Len(s) : s[m].body.type = "event" /\ s[m].body = s[n].body => m = n

\* An append that checked the replay key under the lock repeats no event.
LEMMA OnceExtended ==
    ASSUME NEW s \in Seq(Row), NEW o \in Op, OnceIn(s), ~Recorded(s, o)
    PROVE  OnceIn(Append(s, NextRow(s, NextBody(s, o))))
<1> DEFINE r == NextRow(s, NextBody(s, o))
           t == Append(s, r)
<1>1. /\ Len(t) = Len(s) + 1
      /\ \A n \in 1..Len(s) : t[n] = s[n]
      /\ t[Len(s) + 1] = r
  BY NextRowType, AppendFacts
<1>2. \A n \in 1..Len(s) : r.body.type = "event" => s[n].body # r.body
  <2>1. r.body = NextBody(s, o)
    BY DEF NextRow
  <2>2. r.body.type = "event" => r.body = Evidence(o) /\ o.type = "event"
    BY <2>1 DEF NextBody, Genesis, Boundary, Evidence
  <2>. QED BY <2>2 DEF Recorded
<1> HIDE DEF r, t
<1>3. \A n \in 1..Len(t) : n \in 1..Len(s) \/ n = Len(s) + 1
  BY <1>1
<1>4. ASSUME NEW m \in 1..Len(t), NEW n \in 1..Len(t),
             t[m].body.type = "event", t[m].body = t[n].body
      PROVE  m = n
  BY <1>1, <1>2, <1>3, <1>4 DEF OnceIn
<1>. QED BY <1>4 DEF OnceIn, t, r

LEMMA OncePrefix ==
    ASSUME NEW s \in Seq(Row), OnceIn(s), NEW k \in 0..Len(s)
    PROVE  OnceIn(SubSeq(s, 1, k))
<1>1. /\ Len(SubSeq(s, 1, k)) = k
      /\ \A n \in 1..k : SubSeq(s, 1, k)[n] = s[n]
  BY PrefixFacts
<1>. QED BY <1>1 DEF OnceIn

-----------------------------------------------------------------------------
(* The invariant is inductive.                                             *)

\* The initial state satisfies it.
LEMMA InitInvariant == Init => IInv
<1> SUFFICES ASSUME Init PROVE IInv
  OBVIOUS
<1> USE DEF Init
<1>1. TypeOK
  <2>1. <<>> \in Seq(Row)
    OBVIOUS
  <2>2. pc \in [Proc -> PC] /\ op \in [Proc -> Op \cup {NoOp}]
    BY DEF PC
  <2>3. seen \in [Proc -> Seq(Row)]
    BY <2>1
  <2>. QED BY <2>1, <2>2, <2>3 DEF TypeOK
<1>2. LockInv
  BY NoProcAssumption DEF LockInv, Holding, PC
<1>3. ViewInv
  BY DEF ViewInv, View
<1>4. DiskInv
  BY DEF DiskInv, IsPrefixOf
<1>5. ChainIntact /\ EventOnce
  BY DEF ChainIntact, ChainOK, EventOnce, Boundaries
<1>. QED BY <1>1, <1>2, <1>3, <1>4, <1>5 DEF IInv

\* The row a writer is about to write, or has written, is a row.
LEMMA RowOfType ==
    ASSUME IInv, NEW p \in Proc, pc[p] \in {"write", "fsync", "fsyncdir"}
    PROVE  RowOf(p) \in Row
<1>1. seen[p] \in Seq(Row)
  BY DEF IInv, TypeOK
<1>2. op[p] \in Op
  BY DEF IInv, ViewInv, View
<1>. QED BY <1>1, <1>2, NextRowType DEF RowOf

\* Every step keeps every variable's type.
LEMMA StepType == IInv /\ [Next]_vars => TypeOK'
<1> SUFFICES ASSUME IInv, [Next]_vars PROVE TypeOK'
  OBVIOUS
<1> USE DEF Goto, Unwind, Leave, PC
<1>0. TypeOK
  BY DEF IInv
<1>1. CASE UNCHANGED vars
  BY <1>0, <1>1 DEF TypeOK, vars, file, call, history
<1>2. ASSUME NEW p \in Proc, NEW o \in Op, StartAppend(p, o) PROVE TypeOK'
  BY <1>0, <1>2 DEF TypeOK, StartAppend, file, history
<1>3. ASSUME NEW p \in Proc, StartRecover(p) PROVE TypeOK'
  BY <1>0, <1>3 DEF TypeOK, StartRecover, file, history
<1>4. ASSUME NEW p \in Proc, Acquire(p) PROVE TypeOK'
  BY <1>0, <1>4 DEF TypeOK, Acquire, file, history
<1>5. ASSUME NEW p \in Proc, ReadTip(p) PROVE TypeOK'
  BY <1>0, <1>5 DEF TypeOK, ReadTip, file, history
<1>6. ASSUME NEW p \in Proc, Refuse(p) PROVE TypeOK'
  BY <1>0, <1>6 DEF TypeOK, Refuse, file, history
<1>7. ASSUME NEW p \in Proc, WriteRow(p) PROVE TypeOK'
  <2>1. RowOf(p) \in Row
    BY <1>7, RowOfType DEF WriteRow
  <2>2. rows' \in Seq(Row)
    BY <1>0, <1>7, <2>1 DEF TypeOK, WriteRow
  <2>. QED BY <1>0, <1>7, <2>2 DEF TypeOK, WriteRow, history
<1>8. ASSUME NEW p \in Proc, FsyncRow(p) PROVE TypeOK'
  BY <1>0, <1>8 DEF TypeOK, FsyncRow, history
<1>9. ASSUME NEW p \in Proc, ReturnFirst(p) PROVE TypeOK'
  <2>1. Append(seen[p], RowOf(p)) \in Seq(Row)
    BY <1>0, <1>9, RowOfType DEF TypeOK, ReturnFirst, RowReturned
  <2>. QED BY <1>0, <1>9, <2>1 DEF TypeOK, ReturnFirst, RowReturned
<1>10. ASSUME NEW p \in Proc, ReturnRow(p) PROVE TypeOK'
  <2>1. Append(seen[p], RowOf(p)) \in Seq(Row)
    BY <1>0, <1>10, RowOfType DEF TypeOK, ReturnRow, RowReturned
  <2>2. RowReturned(p) /\ Leave(p)
    BY <1>10 DEF ReturnRow
  <2>. QED BY <1>0, <2>1, <2>2 DEF TypeOK, RowReturned
<1>19. ASSUME NEW p \in Proc, VerifyTorn(p) PROVE TypeOK'
  BY <1>0, <1>19 DEF TypeOK, VerifyTorn, file, history
<1>20. ASSUME NEW p \in Proc, Verify(p) PROVE TypeOK'
  BY <1>0, <1>20 DEF IInv, ChainIntact, TypeOK, Verify, file, history
<1>11. ASSUME NEW p \in Proc, Quarantine(p) PROVE TypeOK'
  BY <1>0, <1>11 DEF TypeOK, Quarantine, file, history
<1>12. ASSUME NEW p \in Proc, Truncate(p) PROVE TypeOK'
  BY <1>0, <1>12 DEF TypeOK, Truncate, history
<1>13. ASSUME NEW p \in Proc, TruncateSync(p) PROVE TypeOK'
  <2>1. Len(rows) \in Nat
    BY <1>0, LenProperties DEF TypeOK
  <2>. QED BY <1>0, <1>13, <2>1 DEF TypeOK, TruncateSync, history
<1>14. ASSUME NEW p \in Proc, RecoverSync(p) PROVE TypeOK'
  BY <1>0, <1>14 DEF TypeOK, RecoverSync, history
<1>15. ASSUME NEW p \in Proc, RecoverDone(p) PROVE TypeOK'
  BY <1>0, <1>15 DEF TypeOK, RecoverDone
<1>16. ASSUME NEW p \in Proc, Kill(p) PROVE TypeOK'
  BY <1>0, <1>16 DEF TypeOK, Kill, Die, file
<1>17. ASSUME NEW p \in Proc, KillMidWrite(p) PROVE TypeOK'
  <2>1. Len(rows) \in Nat
    BY <1>0, LenProperties DEF TypeOK
  <2>2. synced' \in Nat /\ tailSynced' \in BOOLEAN
    BY <1>0, <1>17, <2>1 DEF TypeOK, KillMidWrite
  <2>3. Die(p) /\ tail' = TRUE /\ fragments' = fragments + 1 /\ UNCHANGED <<rows, linked>>
    BY <1>17 DEF KillMidWrite
  <2>. QED BY <1>0, <2>2, <2>3 DEF TypeOK, Die
<1>18. CASE PowerLoss
  <2>1. PICK k \in 0..Len(rows) : rows' = SubSeq(rows, 1, k) /\ synced' = k
    BY <1>18 DEF PowerLoss
  <2>2. rows' \in Seq(Row) /\ synced' \in Nat
    BY <1>0, <2>1, PrefixFacts DEF TypeOK
  <2>. QED BY <1>0, <1>18, <2>2 DEF TypeOK, PowerLoss
<1>. QED
  BY <1>1, <1>2, <1>3, <1>4, <1>5, <1>6, <1>7, <1>8, <1>9, <1>10, <1>11,
     <1>12, <1>13, <1>14, <1>15, <1>16, <1>17, <1>18, <1>19, <1>20
  DEF Next, Crash, Begin, Step

\* Mutual exclusion: flock grants the lock when nobody has it, and whoever
\* has it gives it up when the call ends or the process dies.
LEMMA StepLock == IInv /\ [Next]_vars => LockInv'
<1> SUFFICES ASSUME IInv, [Next]_vars PROVE LockInv'
  OBVIOUS
<1> USE NoProcAssumption DEF Goto, Unwind, Leave, PC, Holding, LockInv
<1>0. TypeOK /\ LockInv
  BY DEF IInv
<1>1. CASE UNCHANGED vars
  BY <1>0, <1>1 DEF vars, call
<1>2. ASSUME NEW p \in Proc, NEW o \in Op, StartAppend(p, o) PROVE LockInv'
  BY <1>0, <1>2 DEF TypeOK, StartAppend
<1>3. ASSUME NEW p \in Proc, StartRecover(p) PROVE LockInv'
  BY <1>0, <1>3 DEF TypeOK, StartRecover
<1>4. ASSUME NEW p \in Proc, Acquire(p) PROVE LockInv'
  BY <1>0, <1>4 DEF TypeOK, Acquire
<1>5. ASSUME NEW p \in Proc, ReadTip(p) PROVE LockInv'
  BY <1>0, <1>5 DEF TypeOK, ReadTip
<1>6. ASSUME NEW p \in Proc, Refuse(p) PROVE LockInv'
  BY <1>0, <1>6 DEF TypeOK, Refuse
<1>7. ASSUME NEW p \in Proc, WriteRow(p) PROVE LockInv'
  BY <1>0, <1>7 DEF TypeOK, WriteRow
<1>8. ASSUME NEW p \in Proc, FsyncRow(p) PROVE LockInv'
  BY <1>0, <1>8 DEF TypeOK, FsyncRow
<1>9. ASSUME NEW p \in Proc, ReturnFirst(p) PROVE LockInv'
  BY <1>0, <1>9 DEF TypeOK, ReturnFirst, RowReturned
<1>10. ASSUME NEW p \in Proc, ReturnRow(p) PROVE LockInv'
  <2>1. RowReturned(p) /\ Leave(p)
    BY <1>10 DEF ReturnRow
  <2>. QED BY <1>0, <2>1 DEF TypeOK, RowReturned
<1>19. ASSUME NEW p \in Proc, VerifyTorn(p) PROVE LockInv'
  BY <1>0, <1>19 DEF TypeOK, VerifyTorn
<1>20. ASSUME NEW p \in Proc, Verify(p) PROVE LockInv'
  <2>1. pc[p] = "verify" /\ Goto(p, "rsync") /\ lock' = lock
    BY <1>20 DEF IInv, ChainIntact, Verify
  <2>. QED BY <1>0, <2>1 DEF TypeOK
<1>11. ASSUME NEW p \in Proc, Quarantine(p) PROVE LockInv'
  BY <1>0, <1>11 DEF TypeOK, Quarantine
<1>12. ASSUME NEW p \in Proc, Truncate(p) PROVE LockInv'
  BY <1>0, <1>12 DEF TypeOK, Truncate
<1>13. ASSUME NEW p \in Proc, TruncateSync(p) PROVE LockInv'
  BY <1>0, <1>13 DEF TypeOK, TruncateSync
<1>14. ASSUME NEW p \in Proc, RecoverSync(p) PROVE LockInv'
  BY <1>0, <1>14 DEF TypeOK, RecoverSync
<1>15. ASSUME NEW p \in Proc, RecoverDone(p) PROVE LockInv'
  BY <1>0, <1>15 DEF TypeOK, RecoverDone
<1>16. ASSUME NEW p \in Proc, Kill(p) PROVE LockInv'
  BY <1>0, <1>16 DEF TypeOK, Kill, Die
<1>17. ASSUME NEW p \in Proc, KillMidWrite(p) PROVE LockInv'
  BY <1>0, <1>17 DEF TypeOK, KillMidWrite, Die
<1>18. CASE PowerLoss
  BY <1>0, <1>18 DEF TypeOK, PowerLoss
<1>. QED
  BY <1>1, <1>2, <1>3, <1>4, <1>5, <1>6, <1>7, <1>8, <1>9, <1>10, <1>11,
     <1>12, <1>13, <1>14, <1>15, <1>16, <1>17, <1>18, <1>19, <1>20
  DEF Next, Crash, Begin, Step

\* Only one process is past the lock.
LEMMA OneHolder ==
    ASSUME IInv, NEW p \in Proc, NEW q \in Proc,
           pc[p] \in Holding, pc[q] \in Holding
    PROVE  p = q
BY DEF IInv, LockInv

\* A step that leaves a process and the file alone leaves its view alone.
LEMMA SameView ==
    ASSUME NEW q \in Proc, View(q), pc'[q] = pc[q], op'[q] = op[q],
           seen'[q] = seen[q], rows' = rows, tail' = tail, synced' = synced
    PROVE  View(q)'
<1>1. RowOf(q)' = RowOf(q)
  BY DEF RowOf, NextRow, NextBody, Boundaries, RowHash, Evidence
<1>2. Recorded(rows, op[q])' <=> Recorded(rows, op[q])
  BY DEF Recorded
<1>3. Recorded(seen[q], op[q])' <=> Recorded(seen[q], op[q])
  BY DEF Recorded
<1>. QED BY <1>1, <1>2, <1>3 DEF View

\* A step of the lock's holder cannot disturb a process that waits for it.
LEMMA BystanderView ==
    ASSUME IInv, NEW p \in Proc, pc[p] \in Holding,
           NEW q \in Proc, q # p, pc'[q] = pc[q], op'[q] = op[q]
    PROVE  View(q)'
<1>1. pc[q] \notin Holding /\ pc[q] \in PC
  BY OneHolder DEF IInv, TypeOK
<1>2. pc'[q] \in {"idle", "lock", "rlock"}
  BY <1>1 DEF Holding
<1>3. pc[q] = "lock" => op[q] \in Op
  BY DEF IInv, ViewInv, View
<1>. QED BY <1>2, <1>3 DEF View

\* Nobody else writes between a process's read of the tip and its append,
\* between its append and its fsync, and during its repair.
LEMMA StepView == IInv /\ [Next]_vars => ViewInv'
<1> SUFFICES ASSUME IInv, [Next]_vars, NEW q \in Proc PROVE View(q)'
  BY DEF ViewInv
<1> USE DEF Goto, Unwind, Leave
<1>0. TypeOK /\ View(q)
  BY DEF IInv, ViewInv
<1>h. {"read", "write", "fsync", "fsyncdir", "verify", "quarantine",
       "truncate", "tsync", "rsync", "rdir"} = Holding
  BY DEF Holding, PC
<1>1. CASE UNCHANGED vars
  BY <1>0, <1>1, SameView DEF vars, file, call
<1>2. ASSUME NEW p \in Proc, NEW o \in Op, StartAppend(p, o) PROVE View(q)'
  <2>1. CASE q = p
    BY <1>0, <1>2, <2>1 DEF StartAppend, TypeOK, View
  <2>2. CASE q # p
    BY <1>0, <1>2, <2>2, SameView DEF StartAppend, TypeOK, file
  <2>. QED BY <2>1, <2>2
<1>3. ASSUME NEW p \in Proc, StartRecover(p) PROVE View(q)'
  <2>1. CASE q = p
    BY <1>0, <1>3, <2>1 DEF StartRecover, TypeOK, View
  <2>2. CASE q # p
    BY <1>0, <1>3, <2>2, SameView DEF StartRecover, TypeOK, file
  <2>. QED BY <2>1, <2>2
<1>4. ASSUME NEW p \in Proc, Acquire(p) PROVE View(q)'
  <2>1. CASE q = p
    BY <1>0, <1>4, <2>1 DEF Acquire, TypeOK, View
  <2>2. CASE q # p
    BY <1>0, <1>4, <2>2, SameView DEF Acquire, TypeOK, file
  <2>. QED BY <2>1, <2>2
<1>5. ASSUME NEW p \in Proc, ReadTip(p) PROVE View(q)'
  <2>1. CASE q = p
    <3>1. op[p] \in Op /\ tail = FALSE
      BY <1>0, <1>5, <2>1 DEF ReadTip, Readable, TypeOK, View
    <3>2. /\ pc'[p] = "write" /\ op' = op /\ rows' = rows /\ tail' = tail
          /\ seen'[p] = rows
      BY <1>0, <1>5 DEF ReadTip, TypeOK, file
    <3>3. ~Recorded(rows, op[p])'
      BY <1>5, <3>2 DEF ReadTip, Recorded
    <3>. QED BY <2>1, <3>1, <3>2, <3>3 DEF View
  <2>2. CASE q # p
    BY <1>0, <1>5, <1>h, <2>2, BystanderView DEF ReadTip, TypeOK
  <2>. QED BY <2>1, <2>2
<1>6. ASSUME NEW p \in Proc, Refuse(p) PROVE View(q)'
  <2>1. CASE q = p
    BY <1>0, <1>6, <2>1 DEF Refuse, TypeOK, View
  <2>2. CASE q # p
    BY <1>0, <1>6, <1>h, <2>2, BystanderView DEF Refuse, TypeOK
  <2>. QED BY <2>1, <2>2
<1>7. ASSUME NEW p \in Proc, WriteRow(p) PROVE View(q)'
  <2>1. CASE q = p
    <3>1. /\ op[p] \in Op /\ tail = FALSE /\ seen[p] = rows
          /\ ~Recorded(rows, op[p])
      BY <1>0, <1>7, <2>1 DEF WriteRow, View
    <3>2. /\ pc'[p] = "fsync" /\ op' = op /\ seen' = seen /\ tail' = tail
          /\ rows' = Append(rows, RowOf(p))
      BY <1>0, <1>7 DEF WriteRow, TypeOK
    <3>3. RowOf(p)' = RowOf(p)
      BY <3>2 DEF RowOf
    <3>4. ~Recorded(seen[p], op[p])'
      BY <3>1, <3>2 DEF Recorded
    <3>. QED BY <2>1, <3>1, <3>2, <3>3, <3>4 DEF View
  <2>2. CASE q # p
    BY <1>0, <1>7, <1>h, <2>2, BystanderView DEF WriteRow, TypeOK
  <2>. QED BY <2>1, <2>2
<1>8. ASSUME NEW p \in Proc, FsyncRow(p) PROVE View(q)'
  <2>1. CASE q = p
    <3>1. /\ op[p] \in Op /\ tail = FALSE
          /\ ~Recorded(seen[p], op[p])
          /\ rows = Append(seen[p], RowOf(p))
      BY <1>0, <1>8, <2>1 DEF FsyncRow, View
    <3>2. /\ pc'[p] = "fsyncdir" /\ op' = op /\ seen' = seen /\ tail' = tail
          /\ rows' = rows /\ synced' = Len(rows)
      BY <1>0, <1>8 DEF FsyncRow, TypeOK
    <3>3. RowOf(p)' = RowOf(p)
      BY <3>2 DEF RowOf
    <3>4. ~Recorded(seen[p], op[p])'
      BY <3>1, <3>2 DEF Recorded
    <3>. QED BY <2>1, <3>1, <3>2, <3>3, <3>4 DEF View
  <2>2. CASE q # p
    BY <1>0, <1>8, <1>h, <2>2, BystanderView DEF FsyncRow, TypeOK
  <2>. QED BY <2>1, <2>2
<1>9. ASSUME NEW p \in Proc, ReturnFirst(p) PROVE View(q)'
  <2>1. CASE q = p
    <3>1. /\ op[p] \in Op /\ tail = FALSE
          /\ ~Recorded(seen[p], op[p])
          /\ rows = Append(seen[p], RowOf(p))
      BY <1>0, <1>9, <2>1 DEF ReturnFirst, RowReturned, View
    <3>2. /\ pc'[p] = "write" /\ op' = op /\ seen'[p] = rows /\ tail' = tail
          /\ rows' = rows
      BY <1>0, <1>9, <3>1 DEF ReturnFirst, RowReturned, TypeOK
    <3>3. RowOf(p).body = NextBody(seen[p], op[p])
      BY DEF RowOf, NextRow
    <3>4. ~Recorded(rows, op[p])
      <4>1. RowOf(p).body # Evidence(op[p])
        BY <1>9 DEF ReturnFirst
      <4>2. /\ Len(rows) = Len(seen[p]) + 1
            /\ \A n \in 1..Len(seen[p]) : rows[n] = seen[p][n]
            /\ rows[Len(seen[p]) + 1] = RowOf(p)
        <5>1. seen[p] \in Seq(Row) /\ RowOf(p) \in Row
          BY <1>0, <1>9, RowOfType DEF TypeOK, ReturnFirst, RowReturned
        <5>. QED BY <3>1, <5>1, AppendFacts
      <4>. QED BY <3>1, <4>1, <4>2 DEF Recorded
    <3>5. ~Recorded(rows, op[p])'
      BY <3>2, <3>4 DEF Recorded
    <3>. QED BY <2>1, <3>1, <3>2, <3>5 DEF View
  <2>2. CASE q # p
    BY <1>0, <1>9, <1>h, <2>2, BystanderView DEF ReturnFirst, RowReturned, TypeOK
  <2>. QED BY <2>1, <2>2
<1>10. ASSUME NEW p \in Proc, ReturnRow(p) PROVE View(q)'
  <2>0. RowReturned(p) /\ Leave(p)
    BY <1>10 DEF ReturnRow
  <2>1. CASE q = p
    BY <1>0, <2>0, <2>1 DEF TypeOK, View
  <2>2. CASE q # p
    BY <1>0, <1>h, <2>0, <2>2, BystanderView DEF RowReturned, TypeOK
  <2>. QED BY <2>1, <2>2
<1>11. ASSUME NEW p \in Proc, VerifyTorn(p) PROVE View(q)'
  <2>1. CASE q = p
    BY <1>0, <1>11, <2>1 DEF VerifyTorn, TypeOK, View
  <2>2. CASE q # p
    BY <1>0, <1>11, <1>h, <2>2, BystanderView DEF VerifyTorn, TypeOK
  <2>. QED BY <2>1, <2>2
<1>12. ASSUME NEW p \in Proc, Verify(p) PROVE View(q)'
  <2>0. /\ pc[p] = "verify" /\ ~tail /\ Goto(p, "rsync")
        /\ op' = op /\ tail' = tail
    BY <1>12 DEF IInv, ChainIntact, Verify, file
  <2>1. CASE q = p
    BY <1>0, <2>0, <2>1 DEF TypeOK, View
  <2>2. CASE q # p
    BY <1>0, <1>h, <2>0, <2>2, BystanderView DEF TypeOK
  <2>. QED BY <2>1, <2>2
<1>13. ASSUME NEW p \in Proc, Quarantine(p) PROVE View(q)'
  <2>1. CASE q = p
    BY <1>0, <1>13, <2>1 DEF Quarantine, TypeOK, View
  <2>2. CASE q # p
    BY <1>0, <1>13, <1>h, <2>2, BystanderView DEF Quarantine, TypeOK
  <2>. QED BY <2>1, <2>2
<1>14. ASSUME NEW p \in Proc, Truncate(p) PROVE View(q)'
  <2>1. CASE q = p
    BY <1>0, <1>14, <2>1 DEF Truncate, TypeOK, View
  <2>2. CASE q # p
    BY <1>0, <1>14, <1>h, <2>2, BystanderView DEF Truncate, TypeOK
  <2>. QED BY <2>1, <2>2
<1>15. ASSUME NEW p \in Proc, TruncateSync(p) PROVE View(q)'
  <2>1. CASE q = p
    BY <1>0, <1>15, <2>1 DEF TruncateSync, TypeOK, View
  <2>2. CASE q # p
    BY <1>0, <1>15, <1>h, <2>2, BystanderView DEF TruncateSync, TypeOK
  <2>. QED BY <2>1, <2>2
<1>16. ASSUME NEW p \in Proc, RecoverSync(p) PROVE View(q)'
  <2>1. CASE q = p
    BY <1>0, <1>16, <2>1 DEF RecoverSync, TypeOK, View
  <2>2. CASE q # p
    BY <1>0, <1>16, <1>h, <2>2, BystanderView DEF RecoverSync, TypeOK
  <2>. QED BY <2>1, <2>2
<1>17. ASSUME NEW p \in Proc, RecoverDone(p) PROVE View(q)'
  <2>1. CASE q = p
    BY <1>0, <1>17, <2>1 DEF RecoverDone, TypeOK, View
  <2>2. CASE q # p
    BY <1>0, <1>17, <1>h, <2>2, BystanderView DEF RecoverDone, TypeOK
  <2>. QED BY <2>1, <2>2
<1>18. ASSUME NEW p \in Proc, Kill(p) PROVE View(q)'
  <2>1. CASE q = p
    BY <1>0, <1>18, <2>1 DEF Kill, Die, TypeOK, View
  <2>2. CASE q # p
    BY <1>0, <1>18, <2>2, SameView DEF Kill, Die, TypeOK, file
  <2>. QED BY <2>1, <2>2
<1>19. ASSUME NEW p \in Proc, KillMidWrite(p) PROVE View(q)'
  <2>1. CASE q = p
    BY <1>0, <1>19, <2>1 DEF KillMidWrite, Die, TypeOK, View
  <2>2. CASE q # p
    BY <1>0, <1>19, <1>h, <2>2, BystanderView DEF KillMidWrite, Die, TypeOK
  <2>. QED BY <2>1, <2>2
<1>20. CASE PowerLoss
  <2>1. pc'[q] = "idle"
    BY <1>20 DEF PowerLoss
  <2>. QED BY <2>1 DEF View
<1>. QED
  BY <1>1, <1>2, <1>3, <1>4, <1>5, <1>6, <1>7, <1>8, <1>9, <1>10, <1>11,
     <1>12, <1>13, <1>14, <1>15, <1>16, <1>17, <1>18, <1>19, <1>20
  DEF Next, Crash, Begin, Step

-----------------------------------------------------------------------------
(* What a step can do to the file and to what was acknowledged.            *)

\* A step that adds no row, returns none and is no power loss.
Quiet ==
    /\ rows' = rows /\ acked' = acked
    /\ synced' = synced \/ synced' = Len(rows)
    /\ linked => linked'

\* A call returns: what it found or wrote is on disk and counts as promised.
Promises ==
    /\ acked' = rows /\ synced = Len(rows)
    /\ rows' = rows /\ synced' = synced /\ linked' = TRUE

\* A returned row is the last of the file, and all of it is on disk.
LEMMA ReturnPromises ==
    ASSUME IInv, NEW p \in Proc, RowReturned(p)
    PROVE  Promises
<1>1. rows = Append(seen[p], RowOf(p)) /\ synced = Len(rows)
  BY DEF IInv, ViewInv, View, RowReturned
<1>. QED BY <1>1 DEF RowReturned, Promises

\* So is everything when a recovery returns.
LEMMA RecoverPromises ==
    ASSUME IInv, NEW p \in Proc, RecoverDone(p)
    PROVE  Promises
<1>1. synced = Len(rows)
  BY DEF IInv, ViewInv, View, RecoverDone
<1>. QED BY <1>1 DEF RecoverDone, Promises

\* There are four kinds of step.
LEMMA StepKinds ==
    ASSUME IInv, [Next]_vars
    PROVE  \/ Quiet
           \/ \E p \in Proc : WriteRow(p)
           \/ Promises
           \/ PowerLoss
<1> USE DEF Quiet
<1>1. CASE UNCHANGED vars
  BY <1>1 DEF vars, file, history
<1>2. ASSUME NEW p \in Proc, NEW o \in Op, StartAppend(p, o) PROVE Quiet
  BY <1>2 DEF StartAppend, file
<1>3. ASSUME NEW p \in Proc, StartRecover(p) \/ Acquire(p) \/ ReadTip(p) \/ Refuse(p)
      PROVE  Quiet
  BY <1>3 DEF StartRecover, Acquire, ReadTip, Refuse, file, history
<1>4. ASSUME NEW p \in Proc, FsyncRow(p) PROVE Quiet
  BY <1>4 DEF FsyncRow, history
<1>5. ASSUME NEW p \in Proc, ReturnFirst(p) \/ ReturnRow(p) PROVE Promises
  BY <1>5, ReturnPromises DEF ReturnFirst, ReturnRow
<1>6. ASSUME NEW p \in Proc, Verify(p) \/ VerifyTorn(p) \/ Quarantine(p) PROVE Quiet
  BY <1>6 DEF Verify, VerifyTorn, Quarantine, file, history
<1>7. ASSUME NEW p \in Proc, Truncate(p) \/ TruncateSync(p) \/ RecoverSync(p)
      PROVE  Quiet
  BY <1>7 DEF Truncate, TruncateSync, RecoverSync, history
<1>10. ASSUME NEW p \in Proc, RecoverDone(p) PROVE Promises
  BY <1>10, RecoverPromises
<1>8. ASSUME NEW p \in Proc, Kill(p) PROVE Quiet
  BY <1>8 DEF Kill, Die, file
<1>9. ASSUME NEW p \in Proc, KillMidWrite(p) PROVE Quiet
  BY <1>9 DEF KillMidWrite, Die
<1>. QED
  BY <1>1, <1>2, <1>3, <1>4, <1>5, <1>6, <1>7, <1>8, <1>9, <1>10
  DEF Next, Crash, Begin, Step

\* A writer's row comes right after the rows it read.
LEMMA WriteRowFacts ==
    ASSUME IInv, NEW p \in Proc, WriteRow(p)
    PROVE  /\ op[p] \in Op /\ ~Recorded(rows, op[p])
           /\ rows' = Append(rows, NextRow(rows, NextBody(rows, op[p])))
           /\ NextRow(rows, NextBody(rows, op[p])) \in Row
           /\ UNCHANGED <<synced, acked, linked>>
<1>1. op[p] \in Op /\ ~Recorded(rows, op[p]) /\ seen[p] = rows
  BY DEF IInv, ViewInv, View, WriteRow
<1>2. RowOf(p) = NextRow(rows, NextBody(rows, op[p]))
  BY <1>1 DEF RowOf
<1>3. rows \in Seq(Row)
  BY DEF IInv, TypeOK
<1>4. rows' = Append(rows, RowOf(p)) /\ UNCHANGED <<synced, acked, linked>>
  BY DEF WriteRow, history
<1>. QED BY <1>1, <1>2, <1>3, <1>4, NextRowType

\* A power loss keeps at least what was synced, if the file has a name.
LEMMA PowerLossFacts ==
    ASSUME IInv, PowerLoss
    PROVE  \E k \in 0..Len(rows) :
             /\ rows' = SubSeq(rows, 1, k) /\ synced' = k
             /\ Len(acked) <= k /\ acked' = acked
             /\ acked # <<>> => linked'
<1>1. PICK k \in 0..Len(rows), torn \in BOOLEAN :
         /\ Survives(k, torn)
         /\ rows' = SubSeq(rows, 1, k) /\ synced' = k
         /\ linked' = (k > 0 \/ torn)
  BY DEF PowerLoss
<1>2. acked \in Seq(Row) /\ Len(acked) \in Nat /\ synced \in Nat
  BY LenProperties DEF IInv, TypeOK
<1>3. Len(acked) <= synced /\ (acked # <<>> => linked)
  BY DEF IInv, DiskInv
<1>4. Len(acked) <= k
  <2>1. CASE ~linked /\ k = 0
    <3>1. Len(acked) = 0
      BY <1>3, <2>1
    <3>. QED BY <2>1, <3>1
  <2>2. CASE synced <= k
    BY <1>2, <1>3, <2>2
  <2>. QED BY <1>1, <2>1, <2>2 DEF Survives
<1>5. acked # <<>> => k > 0
  BY <1>2, <1>4
<1>. QED BY <1>1, <1>4, <1>5 DEF PowerLoss

\* What was acknowledged stays on disk.
LEMMA StepDisk == IInv /\ [Next]_vars => DiskInv'
<1> SUFFICES ASSUME IInv, [Next]_vars PROVE DiskInv'
  OBVIOUS
<1>0. /\ rows \in Seq(Row) /\ acked \in Seq(Row) /\ synced \in Nat
      /\ Len(rows) \in Nat /\ Len(acked) \in Nat
      /\ DiskInv
  BY LenProperties DEF IInv, TypeOK
<1>1. CASE Quiet
  BY <1>0, <1>1 DEF Quiet, DiskInv, IsPrefixOf
<1>2. ASSUME NEW p \in Proc, WriteRow(p) PROVE DiskInv'
  <2>1. /\ rows' \in Seq(Row) /\ Len(rows') = Len(rows) + 1
        /\ \A n \in 1..Len(rows) : rows'[n] = rows[n]
    <3> DEFINE r == NextRow(rows, NextBody(rows, op[p]))
    <3>1. r \in Row /\ rows' = Append(rows, r)
      BY <1>2, WriteRowFacts
    <3> HIDE DEF r
    <3>. QED BY <1>0, <3>1, AppendFacts
  <2>2. UNCHANGED <<synced, acked, linked>>
    BY <1>2, WriteRowFacts
  <2>. QED BY <1>0, <2>1, <2>2 DEF DiskInv, IsPrefixOf
<1>3. CASE Promises
  BY <1>0, <1>3 DEF Promises, DiskInv, IsPrefixOf
<1>4. CASE PowerLoss
  <2>1. PICK k \in 0..Len(rows) :
           /\ rows' = SubSeq(rows, 1, k) /\ synced' = k
           /\ Len(acked) <= k /\ acked' = acked
           /\ acked # <<>> => linked'
    BY <1>4, PowerLossFacts
  <2>2. Len(rows') = k /\ \A n \in 1..k : rows'[n] = rows[n]
    BY <1>0, <2>1, PrefixFacts
  <2>. QED BY <1>0, <2>1, <2>2 DEF DiskInv, IsPrefixOf
<1>. QED BY <1>1, <1>2, <1>3, <1>4, StepKinds

\* The complete rows stay a valid chain with no event twice.
LEMMA StepChain == IInv /\ [Next]_vars => ChainIntact' /\ EventOnce'
<1> SUFFICES ASSUME IInv, [Next]_vars PROVE ChainOK(rows') /\ OnceIn(rows')
  BY DEF ChainIntact, EventOnce, OnceIn, ChainOK, RowInPlace, BoundaryBeforeV3, Boundaries, RowHash
<1>0. rows \in Seq(Row) /\ ChainOK(rows) /\ OnceIn(rows)
  BY DEF IInv, TypeOK, ChainIntact, EventOnce, OnceIn
<1>1. CASE rows' = rows
  BY <1>0, <1>1
<1>2. ASSUME NEW p \in Proc, WriteRow(p) PROVE ChainOK(rows') /\ OnceIn(rows')
  BY <1>0, <1>2, WriteRowFacts, ChainExtended, OnceExtended
<1>3. CASE PowerLoss
  <2>1. PICK k \in 0..Len(rows) : rows' = SubSeq(rows, 1, k)
    BY <1>3, PowerLossFacts
  <2>. QED BY <1>0, <2>1, ChainPrefix, OncePrefix
<1>4. CASE Promises
  BY <1>1, <1>4 DEF Promises
<1>5. CASE Quiet
  BY <1>1, <1>5 DEF Quiet
<1>. QED BY <1>1, <1>2, <1>3, <1>4, <1>5, StepKinds

-----------------------------------------------------------------------------
(* The theorems.                                                           *)

\* The inductive invariant holds in every reachable state.
THEOREM Invariant == Spec => []IInv
<1>1. IInv /\ [Next]_vars => IInv'
  BY StepType, StepLock, StepView, StepDisk, StepChain DEF IInv
<1>. QED BY InitInvariant, <1>1, PTL DEF Spec

\* Every variable keeps its type.
THEOREM TypeCorrect == Spec => []TypeOK
<1>1. IInv => TypeOK
  BY DEF IInv
<1>. QED BY Invariant, <1>1, PTL

\* Concurrent writers never fork the chain, and no crash or repair breaks it:
\* what _writer_lock is held for, and what verify_chain checks.
THEOREM ChainNeverForks == Spec => []ChainIntact
<1>1. IInv => ChainIntact
  BY DEF IInv
<1>. QED BY Invariant, <1>1, PTL

\* A row that an append returned, or that recover() found, survives every
\* kill, power loss and repair.
THEOREM AcknowledgedRowsSurvive == Spec => []AckedKept
<1>1. IInv => AckedKept
  BY DEF IInv, DiskInv, AckedKept
<1>. QED BY Invariant, <1>1, PTL

\* append_event records a replayed observation once.
THEOREM ReplaysRecordedOnce == Spec => []EventOnce
<1>1. IInv => EventOnce
  BY DEF IInv
<1>. QED BY Invariant, <1>1, PTL

\* The file under its lock implements the abstract append-only ledger: every
\* step extends the log by one linked row, promises a prefix of it, forgets
\* rows that were not promised, or is invisible.
THEOREM Refinement == Spec => ImplementsLedger
<1>1. Init => Promised!Init
  BY DEF Init, Promised!Init
<1>2. IInv /\ [Next]_vars => [Promised!Next]_<<rows, acked>>
  <2> SUFFICES ASSUME IInv, [Next]_vars
               PROVE  Promised!Next \/ (rows' = rows /\ acked' = acked)
    OBVIOUS
  <2>0. /\ rows \in Seq(Row) /\ acked \in Seq(Row)
        /\ Len(rows) \in Nat /\ Len(acked) \in Nat /\ Len(acked) <= Len(rows)
    BY LenProperties DEF IInv, TypeOK, DiskInv, IsPrefixOf
  <2>1. CASE Quiet
    BY <2>1 DEF Quiet
  <2>2. ASSUME NEW p \in Proc, WriteRow(p) PROVE Promised!Extend
    <3> DEFINE r == NextRow(rows, NextBody(rows, op[p]))
    <3>1. r \in Row /\ rows' = Append(rows, r) /\ acked' = acked /\ op[p] \in Op
      BY <2>2, WriteRowFacts
    <3>2. ChainOK(Append(rows, r))
      BY <2>0, <3>1, ChainExtended DEF IInv, ChainIntact
    <3> HIDE DEF r
    <3>3. /\ Len(rows') = Len(rows) + 1
          /\ \A n \in 1..Len(rows) : rows'[n] = rows[n]
          /\ rows'[Len(rows) + 1] = r
      BY <2>0, <3>1, AppendFacts
    <3>4. RowInPlace(rows', Len(rows) + 1)
      BY <2>0, <3>1, <3>2, <3>3 DEF ChainOK
    <3>5. rows # <<>> => Len(rows) \in 1..Len(rows)
      BY <2>0
    <3>6. Links(rows, r)
      BY <2>0, <3>3, <3>4, <3>5 DEF RowInPlace, Links
    <3>. QED BY <3>1, <3>3, <3>6 DEF Promised!Extend
  <2>3. ASSUME Promises PROVE Promised!Promise
    <3>1. acked' = rows /\ rows' = rows
      BY <2>3 DEF Promises
    <3>2. SubSeq(rows, 1, Len(rows)) = rows
      BY <2>0
    <3>3. Len(rows) \in Len(acked)..Len(rows) /\ acked' = SubSeq(rows, 1, Len(rows))
      BY <2>0, <3>1, <3>2
    <3>4. \E k \in Len(acked)..Len(rows) : acked' = SubSeq(rows, 1, k)
      BY <3>3
    <3>. QED BY <3>1, <3>4 DEF Promised!Promise
  <2>4. ASSUME PowerLoss PROVE Promised!Forget
    <3>1. PICK k \in 0..Len(rows) :
             rows' = SubSeq(rows, 1, k) /\ Len(acked) <= k /\ acked' = acked
      BY <2>4, PowerLossFacts
    <3>2. k \in Len(acked)..Len(rows)
      BY <2>0, <3>1
    <3>. QED BY <3>1, <3>2 DEF Promised!Forget
  <2>. QED BY <2>1, <2>2, <2>3, <2>4, StepKinds DEF Promised!Next
<1>. QED
  BY Invariant, <1>1, <1>2, PTL DEF Spec, ImplementsLedger, Promised!Spec, Promised!ledgerVars
-----------------------------------------------------------------------------
(* The quarantine.                                                         *)

\* Without a power loss a fragment is at the end of the file or quarantined,
\* and it is quarantined before it is cut off.
FragInv ==
    ~powerLost => /\ fragments <= quarantined + (IF tail THEN 1 ELSE 0)
                  /\ \A p \in Proc : pc[p] = "truncate" => fragments <= quarantined

\* A step that makes no fragment, cuts none off and enters no truncation.
LEMMA FragFrame ==
    ASSUME FragInv, UNCHANGED <<tail, fragments, quarantined, powerLost>>,
           NEW p \in Proc, TypeOK,
           \A q \in Proc \ {p} : pc'[q] = pc[q], pc'[p] # "truncate"
    PROVE  FragInv'
BY DEF FragInv

LEMMA StepFrag == IInv /\ FragInv /\ [Next]_vars => FragInv'
<1> SUFFICES ASSUME IInv, FragInv, [Next]_vars PROVE FragInv'
  OBVIOUS
<1> USE DEF Goto, Unwind, Leave
<1>0. /\ pc \in [Proc -> PC] /\ fragments \in Nat /\ quarantined \in Nat
      /\ tail \in BOOLEAN /\ TypeOK
  BY DEF IInv, TypeOK
<1>1. CASE UNCHANGED vars
  BY <1>1 DEF vars, file, call, history, FragInv
<1>2. ASSUME NEW p \in Proc, NEW o \in Op, StartAppend(p, o) PROVE FragInv'
  BY <1>0, <1>2, FragFrame DEF StartAppend, file
<1>3. ASSUME NEW p \in Proc,
             StartRecover(p) \/ Acquire(p) \/ ReadTip(p) \/ Refuse(p) \/ VerifyTorn(p)
      PROVE  FragInv'
  BY <1>0, <1>3, FragFrame
     DEF StartRecover, Acquire, ReadTip, Refuse, VerifyTorn, file, history
<1>4. ASSUME NEW p \in Proc, WriteRow(p) \/ FsyncRow(p) PROVE FragInv'
  BY <1>0, <1>4, FragFrame DEF WriteRow, FsyncRow, history
<1>5. ASSUME NEW p \in Proc, ReturnFirst(p) \/ ReturnRow(p) PROVE FragInv'
  BY <1>0, <1>5, FragFrame DEF ReturnFirst, ReturnRow, RowReturned
<1>6. ASSUME NEW p \in Proc, Verify(p) PROVE FragInv'
  BY <1>0, <1>6, FragFrame DEF Verify, file, history
<1>7. ASSUME NEW p \in Proc, Quarantine(p) PROVE FragInv'
  BY <1>0, <1>7 DEF Quarantine, file, history, FragInv
<1>8. ASSUME NEW p \in Proc, Truncate(p) PROVE FragInv'
  BY <1>0, <1>8 DEF Truncate, history, FragInv
<1>9. ASSUME NEW p \in Proc, TruncateSync(p) \/ RecoverSync(p) \/ RecoverDone(p)
      PROVE  FragInv'
  BY <1>0, <1>9, FragFrame DEF TruncateSync, RecoverSync, RecoverDone, history
<1>10. ASSUME NEW p \in Proc, Kill(p) PROVE FragInv'
  BY <1>0, <1>10, FragFrame DEF Kill, Die, file
<1>11. ASSUME NEW p \in Proc, KillMidWrite(p) PROVE FragInv'
  <2>1. tail = FALSE
    BY <1>11 DEF KillMidWrite, IInv, ViewInv, View
  <2>2. fragments' = fragments + 1 /\ tail' = TRUE
    BY <1>11 DEF KillMidWrite
  <2>3. UNCHANGED <<quarantined, powerLost>> /\ pc' = [pc EXCEPT ![p] = "idle"]
    BY <1>11 DEF KillMidWrite, Die
  <2>4. \A q \in Proc : pc'[q] # "truncate"
    <3> SUFFICES ASSUME NEW q \in Proc, pc'[q] = "truncate" PROVE FALSE
      OBVIOUS
    <3>1. q # p /\ pc[q] = "truncate" /\ pc[p] = "write"
      BY <1>0, <1>11, <2>3 DEF KillMidWrite
    <3>. QED BY <3>1, OneHolder DEF Holding, PC
  <2>. QED BY <1>0, <2>1, <2>2, <2>3, <2>4 DEF FragInv
<1>12. CASE PowerLoss
  BY <1>12 DEF PowerLoss, FragInv
<1>. QED
  BY <1>1, <1>2, <1>3, <1>4, <1>5, <1>6, <1>7, <1>8, <1>9, <1>10, <1>11, <1>12
  DEF Next, Crash, Begin, Step

\* The repair loses no evidence: a fragment that a killed append left behind
\* is in the ledger or in the quarantine file, wherever the repair was killed.
THEOREM NoFragmentLost == Spec => []FragmentsKept
<1>1. Init => FragInv
  BY DEF Init, FragInv
<1>2. FragInv => FragmentsKept
  BY DEF FragInv, FragmentsKept
<1>. QED BY Invariant, StepFrag, <1>1, <1>2, PTL DEF Spec
=============================================================================
