------------------------------- MODULE CaptureScan -------------------------------
(***************************************************************************)
(* daemon/capture.py: one pass over the transcripts.  Each complete line   *)
(* of a transcript is an item; every item gets a nonce in the session's    *)
(* nonce file (A2, nonces.py); a session row of the ledger (A3) commits to *)
(* the items under their nonces; the items may then be copied to the       *)
(* private archive (archive.py).  Agents keep writing the transcripts      *)
(* meanwhile, scans may overlap, be killed at any step, or lose power.     *)
(*                                                                         *)
(* The ledger is used as AppendOnlyLedger promises: a row is visible once  *)
(* written, kept once append_session or recover() has returned, and its    *)
(* tail may be torn by this or another writer's death until a recovery.    *)
(* A root stands for the items and nonces it commits to.                   *)
(***************************************************************************)
EXTENDS Naturals, Sequences

CONSTANTS
    Proc,         \* processes that scan: the scheduled one, a manual one
    NoProc,
    Session,      \* transcripts, one session each
    Item,         \* contents of a line
    NoItem,
    NoRow,        \* covered.get(session_id) is None
    Fresh,        \* bound: those of the lines agents add; edits make any
    MaxItems,     \* bound: lines of a transcript
    MaxRewrites,  \* bound: edits of a transcript that are not appends
    MaxCrashes    \* bound: kills and power losses, and torn tails of others

ASSUME NoProcAssumption == NoProc \notin Proc
ASSUME NoItemAssumption == NoItem \notin Item
ASSUME FreshAssumption == Fresh \subseteq Item
ASSUME SessionAssumption == Session # {}

VARIABLES
    source,      \* the complete lines of each transcript
    nonces,      \* the nonce rows of each session's file, as readers see them
    nSynced,     \* how many of them are on disk
    nLinked,     \* the nonce file's directory entry is on disk
    nTorn,       \* the file ends in part of a row
    nBare,       \* the first row that has no newline, 0 when there is none
    ledger,      \* session rows, as readers see them
    kept,        \* how many of them the ledger has promised
    ledgerTorn,  \* the ledger's last line is torn
    archive,     \* complete items of each session's archive file
    fragment,    \* the item part of which ends the archive file
    aSynced,     \* how many archived items are on disk
    scanLock,    \* who holds capture_scan.lock
    pc,          \* where each scan is
    todo,        \* the transcripts it has not looked at
    cur,         \* the one it is at
    items,       \* the lines it read from it
    known,       \* its nonces
    covered,     \* the widest row of each session, when the scan began
    rewrites,    \* edits made
    crashes      \* crashes so far

a2 == <<nonces, nSynced, nLinked, nTorn, nBare>>
a3 == <<ledger, kept, ledgerTorn>>
a9 == <<archive, fragment, aSynced>>
scan == <<scanLock, pc, todo, cur, items, known, covered>>
counters == <<rewrites, crashes>>
vars == <<source, a2, a3, a9, scan, counters>>

-----------------------------------------------------------------------------
(* Rows.  The i-th nonce of a session differs between power losses: one    *)
(* that was lost is minted anew.                                           *)

Nonce == [i : Nat, era : Nat]
Row == [session : Session, items : Seq(Item), nonces : Seq(Nonce)]
PC == {"idle", "recover", "covered", "next", "nonce", "nonceSync", "durable",
       "row", "rowSync", "archive", "archiveSync"}

ASSUME NoRowAssumption == NoRow \notin Row

IsPrefixOf(s, t) == Len(s) <= Len(t) /\ s = SubSeq(t, 1, Len(s))

RowsOf(s) == {n \in 1..Len(ledger) : ledger[n].session = s}

CoveredBy(s) ==
    IF RowsOf(s) = {} THEN NoRow
    ELSE ledger[CHOOSE n \in RowsOf(s) :
                    \A m \in RowsOf(s) :
                        \/ Len(ledger[m].items) < Len(ledger[n].items)
                        \/ (Len(ledger[m].items) = Len(ledger[n].items) /\ m <= n)]

Count(row) == IF row = NoRow THEN 0 ELSE Len(row.items)

Goto(p, label) == pc' = [pc EXCEPT ![p] = label]

-----------------------------------------------------------------------------
Init ==
    /\ source = [s \in Session |-> <<>>]
    /\ nonces = [s \in Session |-> <<>>]
    /\ nSynced = [s \in Session |-> 0]
    /\ nLinked = [s \in Session |-> FALSE]
    /\ nTorn = [s \in Session |-> FALSE]
    /\ nBare = [s \in Session |-> 0]
    /\ ledger = <<>> /\ kept = 0 /\ ledgerTorn = FALSE
    /\ archive = [s \in Session |-> <<>>]
    /\ fragment = [s \in Session |-> NoItem]
    /\ aSynced = [s \in Session |-> 0]
    /\ scanLock = NoProc
    /\ pc = [p \in Proc |-> "idle"]
    /\ todo = [p \in Proc |-> {}]
    /\ cur = [p \in Proc |-> CHOOSE s \in Session : TRUE]
    /\ items = [p \in Proc |-> <<>>]
    /\ known = [p \in Proc |-> <<>>]
    /\ covered = [p \in Proc |-> [s \in Session |-> NoRow]]
    /\ rewrites = 0 /\ crashes = 0

-----------------------------------------------------------------------------
(* Agents write transcripts.                                               *)

Grow(s, x) ==
    /\ Len(source[s]) < MaxItems
    /\ source' = [source EXCEPT ![s] = Append(@, x)]
    /\ UNCHANGED <<a2, a3, a9, scan, counters>>

\* A line changes, or lines are cut off the end.
Rewrite(s) ==
    /\ rewrites < MaxRewrites
    /\ \/ \E n \in 1..Len(source[s]), x \in Item :
            /\ x # source[s][n]
            /\ source' = [source EXCEPT ![s][n] = x]
       \/ \E n \in 0..Len(source[s]) - 1 :
            source' = [source EXCEPT ![s] = SubSeq(@, 1, n)]
    /\ rewrites' = rewrites + 1
    /\ UNCHANGED <<a2, a3, a9, scan, crashes>>

-----------------------------------------------------------------------------
(* A scan begins.                                                          *)

BeginUnlocked(p) ==
    /\ pc[p] = "idle"
    /\ scanLock' = p
    /\ Goto(p, "recover")
    /\ UNCHANGED <<source, a2, a3, a9, todo, cur, items, known, covered, counters>>

\* capture_scan_lock(): blocks until no other scan holds it.
Begin(p) ==
    /\ pc[p] = "idle" /\ scanLock = NoProc
    /\ scanLock' = p
    /\ Goto(p, "recover")
    /\ UNCHANGED <<source, a2, a3, a9, todo, cur, items, known, covered, counters>>

\* The pass ends or raises; its locals go.
Stop(p) ==
    /\ Goto(p, "idle")
    /\ scanLock' = IF scanLock = p THEN NoProc ELSE scanLock
    /\ todo' = [todo EXCEPT ![p] = {}]
    /\ cur' = [cur EXCEPT ![p] = CHOOSE s \in Session : TRUE]
    /\ items' = [items EXCEPT ![p] = <<>>]
    /\ known' = [known EXCEPT ![p] = <<>>]
    /\ covered' = [covered EXCEPT ![p] = [s \in Session |-> NoRow]]

Recover(p) ==
    /\ pc[p] = "recover"
    /\ ledgerTorn' = FALSE
    /\ kept' = Len(ledger)
    /\ Goto(p, "covered")
    /\ UNCHANGED <<source, a2, ledger, a9, scanLock, todo, cur, items, known, covered, counters>>

\* rows() raises when another writer died since the recovery.
ReadCovered(p) ==
    /\ pc[p] = "covered"
    /\ IF ledgerTorn THEN Stop(p)
       ELSE /\ covered' = [covered EXCEPT ![p] = [s \in Session |-> CoveredBy(s)]]
            /\ todo' = [todo EXCEPT ![p] = Session]
            /\ Goto(p, "next")
            /\ UNCHANGED <<scanLock, cur, items, known>>
    /\ UNCHANGED <<source, a2, a3, a9, counters>>

EndScan(p) ==
    /\ pc[p] = "next" /\ todo[p] = {}
    /\ Stop(p)
    /\ UNCHANGED <<source, a2, a3, a9, counters>>

-----------------------------------------------------------------------------
(* _capture_file.  A transcript whose nonce file cannot be read, that      *)
(* fails a check or that has no line yet is left for the next scan.        *)

\* load_nonces accepts the file: every line parses and has its index.  A last
\* row without its newline is a row; glued to the next one, neither is.
NoncesReadable(s) ==
    /\ ~nTorn[s]
    /\ nBare[s] \in {0, Len(nonces[s])}
    /\ \A n \in 1..Len(nonces[s]) : nonces[s][n].i = n - 1

NoPrefixCheck(p, s) ==
    /\ NoncesReadable(s)
    /\ Count(covered[p][s]) <= Len(nonces[s])
    /\ Len(source[s]) > 0

\* The checks before any nonce is minted: the nonce store covers the session's
\* row, and the items the row committed are still what the source begins with.
PrefixStillCommitted(p, s) ==
    /\ NoncesReadable(s)
    /\ Count(covered[p][s]) <= Len(nonces[s])
    /\ Len(source[s]) > 0
    /\ (0 < Count(covered[p][s]) /\ Count(covered[p][s]) < Len(source[s]))
         => /\ IsPrefixOf(covered[p][s].items, source[s])
            /\ IsPrefixOf(covered[p][s].nonces, nonces[s])

NeedsRowByNonces(p, s) == Len(nonces[s]) < Len(source[s])

\* An item without a nonce, or items a row does not cover: nonces of a scan
\* that died before its row count for nothing.
NeedsRow(p, s) ==
    \/ Count(covered[p][s]) < Len(source[s])
    \/ Len(nonces[s]) < Len(source[s])

Look(p, s) ==
    /\ pc[p] = "next" /\ s \in todo[p]
    /\ todo' = [todo EXCEPT ![p] = @ \ {s}]

TakeUp(p, s, label) ==
    /\ cur' = [cur EXCEPT ![p] = s]
    /\ items' = [items EXCEPT ![p] = source[s]]
    /\ known' = [known EXCEPT ![p] = nonces[s]]
    /\ Goto(p, label)
    /\ UNCHANGED <<source, a2, a3, a9, scanLock, covered, counters>>

\* New lines: they are committed under fresh nonces.
CaptureFile(p, s) ==
    /\ Look(p, s)
    /\ PrefixStillCommitted(p, s)
    /\ Len(nonces[s]) <= Len(source[s]) /\ NeedsRow(p, s)
    /\ TakeUp(p, s, "nonce")

\* Nothing new, or the source shrank below its nonces: only the archive is
\* brought up to the row, when there is one.
ArchiveOnly(p, s) ==
    /\ Look(p, s)
    /\ NoncesReadable(s) /\ Count(covered[p][s]) <= Len(nonces[s])
    /\ covered[p][s] # NoRow
    /\ \/ Len(source[s]) < Len(nonces[s])
       \/ Len(source[s]) > 0 /\ Len(source[s]) = Len(nonces[s]) /\ ~NeedsRow(p, s)
    /\ TakeUp(p, s, "archive")

SkipFile(p, s) ==
    /\ Look(p, s)
    /\ \/ ~NoncesReadable(s) \/ Len(nonces[s]) < Count(covered[p][s])
       \/ Len(source[s]) = 0 /\ Len(nonces[s]) = 0
       \/ Len(source[s]) < Len(nonces[s]) /\ covered[p][s] = NoRow
       \/ Len(source[s]) >= Len(nonces[s]) /\ NeedsRow(p, s) /\ ~PrefixStillCommitted(p, s)
    /\ UNCHANGED <<source, a2, a3, a9, scanLock, pc, cur, items, known, covered, counters>>

\* append_nonce reads the file again and writes the next row, which is then
\* synced, and its directory when the file is new.
WriteNonce(p) ==
    LET s == cur[p] IN
    /\ pc[p] = "nonce" /\ Len(known[p]) < Len(items[p])
    /\ NoncesReadable(s)
    /\ nonces' = [nonces EXCEPT ![s] = Append(@, [i |-> Len(@), era |-> crashes])]
    /\ known' = [known EXCEPT ![p] = Append(@, [i |-> Len(nonces[s]), era |-> crashes])]
    /\ Goto(p, "nonceSync")
    /\ UNCHANGED <<source, nSynced, nLinked, nTorn, nBare, a3, a9, scanLock, todo, cur, items,
                   covered, counters>>

\* It raises: the row before last had no newline and the last one, written by
\* this scan, is glued to it.
NonceRefused(p) ==
    /\ pc[p] = "nonce" /\ Len(known[p]) < Len(items[p])
    /\ ~NoncesReadable(cur[p])
    /\ Goto(p, "next")
    /\ UNCHANGED <<source, a2, a3, a9, scanLock, todo, cur, items, known, covered, counters>>

SyncNonce(p) ==
    LET s == cur[p] IN
    /\ pc[p] = "nonceSync"
    /\ nSynced' = [nSynced EXCEPT ![s] = Len(nonces[s])]
    /\ nLinked' = [nLinked EXCEPT ![s] = @ \/ Len(nonces[s]) = 1]
    /\ Goto(p, "nonce")
    /\ UNCHANGED <<source, nonces, nTorn, nBare, a3, a9, scanLock, todo, cur, items, known,
                   covered, counters>>

TrustNonceFile(p) ==
    /\ pc[p] = "nonce" /\ Len(known[p]) >= Len(items[p])
    /\ Goto(p, "row")
    /\ UNCHANGED <<source, a2, a3, a9, scanLock, todo, cur, items, known, covered, counters>>

\* ensure_durable: nonces an earlier scan wrote may not be on disk.
EnsureDurable(p) ==
    LET s == cur[p] IN
    /\ pc[p] = "nonce" /\ Len(known[p]) >= Len(items[p])
    /\ nSynced' = [nSynced EXCEPT ![s] = Len(nonces[s])]
    /\ nLinked' = [nLinked EXCEPT ![s] = TRUE]
    /\ Goto(p, "row")
    /\ UNCHANGED <<source, nonces, nTorn, nBare, a3, a9, scanLock, todo, cur, items, known,
                   covered, counters>>

RowFor(p) ==
    [session |-> cur[p], items |-> items[p],
     nonces |-> SubSeq(known[p], 1, Len(items[p]))]

\* append_session writes the row.
WriteRow(p) ==
    /\ pc[p] = "row" /\ ~ledgerTorn
    /\ ledger' = Append(ledger, RowFor(p))
    /\ Goto(p, "rowSync")
    /\ UNCHANGED <<source, a2, kept, ledgerTorn, a9, scanLock, todo, cur, items, known,
                   covered, counters>>

\* append_session raises on the torn tail another writer left.
RowRefused(p) ==
    /\ pc[p] = "row" /\ ledgerTorn
    /\ Goto(p, "next")
    /\ UNCHANGED <<source, a2, a3, a9, scanLock, todo, cur, items, known, covered, counters>>

\* append_session returns.
RowAppended(p) ==
    /\ pc[p] = "rowSync"
    /\ kept' = Len(ledger)
    /\ covered' = [covered EXCEPT ![p][cur[p]] = RowFor(p)]
    /\ Goto(p, "archive")
    /\ UNCHANGED <<source, a2, ledger, ledgerTorn, a9, scanLock, todo, cur, items, known, counters>>

-----------------------------------------------------------------------------
(* archive_session.                                                        *)

ArchiveComplete(s, row) == archive[s] = row.items /\ fragment[s] = NoItem

\* target.startswith(existing)
Extends(s, its) ==
    /\ IsPrefixOf(archive[s], its)
    /\ fragment[s] # NoItem =>
          Len(archive[s]) < Len(its) /\ its[Len(archive[s]) + 1] = fragment[s]

ArchiveAnySource(p) ==
    LET s == cur[p] IN
    /\ pc[p] = "archive"
    /\ ~ArchiveComplete(s, covered[p][s])
    /\ Extends(s, items[p])
    /\ archive' = [archive EXCEPT ![s] = items[p]]
    /\ fragment' = [fragment EXCEPT ![s] = NoItem]
    /\ Goto(p, "archiveSync")
    /\ UNCHANGED <<source, a2, a3, aSynced, scanLock, todo, cur, items, known, covered, counters>>

\* The lines read are the ones the row committed, all of them, and what is
\* archived is their beginning: the rest is appended.
WriteArchive(p) ==
    LET s == cur[p] IN
    /\ pc[p] = "archive"
    /\ ~ArchiveComplete(s, covered[p][s])
    /\ items[p] = covered[p][s].items
    /\ Extends(s, items[p])
    /\ archive' = [archive EXCEPT ![s] = items[p]]
    /\ fragment' = [fragment EXCEPT ![s] = NoItem]
    /\ Goto(p, "archiveSync")
    /\ UNCHANGED <<source, a2, a3, aSynced, scanLock, todo, cur, items, known, covered, counters>>

\* A complete archive is synced again: its writer may have died first.
ArchiveThere(p) ==
    /\ pc[p] = "archive" /\ ArchiveComplete(cur[p], covered[p][cur[p]])
    /\ Goto(p, "archiveSync")
    /\ UNCHANGED <<source, a2, a3, a9, scanLock, todo, cur, items, known, covered, counters>>

SyncArchive(p) ==
    /\ pc[p] = "archiveSync"
    /\ aSynced' = [aSynced EXCEPT ![cur[p]] = Len(archive[cur[p]])]
    /\ Goto(p, "next")
    /\ UNCHANGED <<source, a2, a3, archive, fragment, scanLock, todo, cur, items, known,
                   covered, counters>>

\* archive_session refuses, or the archive is not enabled.
NoArchive(p) ==
    /\ pc[p] = "archive"
    /\ Goto(p, "next")
    /\ UNCHANGED <<source, a2, a3, a9, scanLock, todo, cur, items, known, covered, counters>>

-----------------------------------------------------------------------------
(* Crashes.                                                                *)

Die(p) ==
    /\ crashes < MaxCrashes
    /\ crashes' = crashes + 1
    /\ Stop(p)
    /\ UNCHANGED <<source, rewrites>>

Kill(p) ==
    /\ pc[p] # "idle"
    /\ Die(p)
    /\ UNCHANGED <<a2, a3, a9>>

\* Part of a nonce row is written, or all of it but the newline.
KillMidNonce(p) ==
    LET s == cur[p] IN
    /\ pc[p] = "nonce" /\ Len(known[p]) < Len(items[p])
    /\ NoncesReadable(s)
    /\ Die(p)
    /\ \/ nTorn' = [nTorn EXCEPT ![s] = TRUE] /\ UNCHANGED <<nonces, nBare>>
       \/ /\ nonces' = [nonces EXCEPT ![s] = Append(@, [i |-> Len(@), era |-> crashes])]
          /\ nBare' = [nBare EXCEPT ![s] = IF @ = 0 THEN Len(nonces[s]) + 1 ELSE @]
          /\ UNCHANGED nTorn
    /\ UNCHANGED <<nSynced, nLinked, a3, a9>>

KillMidRow(p) ==
    /\ pc[p] = "row" /\ ~ledgerTorn
    /\ Die(p)
    /\ ledgerTorn' = TRUE
    /\ UNCHANGED <<a2, ledger, kept, a9>>

\* Part of the suffix is written: whole items, and perhaps part of the next.
KillMidArchive(p) ==
    LET s == cur[p] IN
    /\ pc[p] = "archive"
    /\ ~ArchiveComplete(s, covered[p][s])
    /\ items[p] = covered[p][s].items /\ Extends(s, items[p])
    /\ Die(p)
    /\ \E n \in Len(archive[s])..Len(items[p]) - 1, part \in BOOLEAN :
         /\ n = Len(archive[s]) => part
         /\ archive' = [archive EXCEPT ![s] = SubSeq(items[p], 1, n)]
         /\ fragment' = [fragment EXCEPT ![s] = IF part THEN items[p][n + 1] ELSE NoItem]
    /\ UNCHANGED <<a2, a3, aSynced>>

\* A hook's append is interrupted while the scan runs.
OtherWriterDies ==
    /\ crashes < MaxCrashes /\ ~ledgerTorn
    /\ crashes' = crashes + 1
    /\ ledgerTorn' = TRUE
    /\ UNCHANGED <<source, a2, ledger, kept, a9, scan, rewrites>>

\* Of the first n rows, one has no newline already, or the last loses it.
KeptBare(s, n) == IF nBare[s] <= n THEN nBare[s] ELSE 0
BecomesBare(s, n, bare, torn) ==
    bare = n /\ KeptBare(s, n) = 0 /\ nSynced[s] < n /\ ~torn

\* Files keep what was synced and a prefix of what was not; a nonce file with
\* no directory entry may be gone; the ledger keeps what it promised.
PowerLoss ==
    /\ crashes < MaxCrashes
    /\ crashes' = crashes + 1
    /\ \E n, bare \in [Session -> 0..MaxItems], torn \in [Session -> BOOLEAN],
          m \in kept..Len(ledger), tornRow \in BOOLEAN,
          k \in [Session -> 0..MaxItems], part \in [Session -> BOOLEAN] :
         /\ \A s \in Session :
              /\ n[s] <= Len(nonces[s])
              /\ nSynced[s] <= n[s] \/ (n[s] = 0 /\ ~nLinked[s])
              /\ torn[s] => nTorn[s] \/ n[s] < Len(nonces[s])
              /\ bare[s] = KeptBare(s, n[s]) \/ BecomesBare(s, n[s], bare[s], torn[s])
              /\ aSynced[s] <= k[s] /\ k[s] <= Len(archive[s])
         /\ tornRow => ledgerTorn \/ m < Len(ledger)
         /\ nonces' = [s \in Session |-> SubSeq(nonces[s], 1, n[s])]
         /\ nSynced' = n
         /\ nTorn' = torn
         /\ nBare' = bare
         /\ nLinked' = [s \in Session |-> n[s] > 0 \/ torn[s]]
         /\ ledger' = SubSeq(ledger, 1, m)
         /\ ledgerTorn' = tornRow
         /\ kept' = m
         /\ archive' = [s \in Session |-> SubSeq(archive[s], 1, k[s])]
         /\ fragment' = [s \in Session |->
                            IF ~part[s] THEN NoItem
                            ELSE IF k[s] < Len(archive[s]) THEN archive[s][k[s] + 1]
                            ELSE fragment[s]]
         /\ aSynced' = k
    /\ scanLock' = NoProc
    /\ pc' = [p \in Proc |-> "idle"]
    /\ todo' = [p \in Proc |-> {}]
    /\ cur' = [p \in Proc |-> CHOOSE s \in Session : TRUE]
    /\ items' = [p \in Proc |-> <<>>]
    /\ known' = [p \in Proc |-> <<>>]
    /\ covered' = [p \in Proc |-> [s \in Session |-> NoRow]]
    /\ UNCHANGED <<source, rewrites>>

-----------------------------------------------------------------------------
Step(p) ==
    \/ Recover(p) \/ ReadCovered(p) \/ EndScan(p)
    \/ \E s \in Session : CaptureFile(p, s) \/ ArchiveOnly(p, s) \/ SkipFile(p, s)
    \/ WriteNonce(p) \/ NonceRefused(p) \/ SyncNonce(p) \/ EnsureDurable(p)
    \/ WriteRow(p) \/ RowRefused(p) \/ RowAppended(p)
    \/ WriteArchive(p) \/ ArchiveThere(p) \/ SyncArchive(p) \/ NoArchive(p)

Crash ==
    \/ PowerLoss \/ OtherWriterDies
    \/ \E p \in Proc : Kill(p) \/ KillMidNonce(p) \/ KillMidRow(p) \/ KillMidArchive(p)

Agent == \E s \in Session : Rewrite(s) \/ \E x \in Fresh : Grow(s, x)

Next == Agent \/ Crash \/ \E p \in Proc : Begin(p) \/ Step(p)

Spec == Init /\ [][Next]_vars

\* A running scan goes on, and the scheduler keeps starting scans.
Fairness == \A p \in Proc : WF_vars(Step(p)) /\ SF_vars(Begin(p))

FairSpec == Spec /\ Fairness

-----------------------------------------------------------------------------
(* Properties.                                                             *)

TypeOK ==
    /\ source \in [Session -> Seq(Item)]
    /\ nonces \in [Session -> Seq(Nonce)]
    /\ nSynced \in [Session -> Nat]
    /\ nLinked \in [Session -> BOOLEAN] /\ nTorn \in [Session -> BOOLEAN]
    /\ nBare \in [Session -> Nat]
    /\ ledger \in Seq(Row) /\ kept \in 0..Len(ledger) /\ ledgerTorn \in BOOLEAN
    /\ archive \in [Session -> Seq(Item)]
    /\ fragment \in [Session -> Item \cup {NoItem}]
    /\ aSynced \in [Session -> Nat]
    /\ scanLock \in Proc \cup {NoProc}
    /\ pc \in [Proc -> PC]
    /\ todo \in [Proc -> SUBSET Session] /\ cur \in [Proc -> Session]
    /\ items \in [Proc -> Seq(Item)] /\ known \in [Proc -> Seq(Nonce)]
    /\ covered \in [Proc -> [Session -> Row \cup {NoRow}]]
    /\ rewrites \in Nat /\ crashes \in Nat

\* Every row anyone can read was computed with nonces whose bytes are already
\* on disk, as many as its items, the file's first: no crash takes them away.
\* load_nonces accepts the file too, unless a writer died inside its write of
\* a nonce row: a part of a row stays in its way, and so does a row that lost
\* only its newline once the next one is written behind it.
RowsBackedOnDisk ==
    \A n \in 1..Len(ledger) :
        LET s == ledger[n].session IN
        /\ nLinked[s]
        /\ IsPrefixOf(ledger[n].nonces, SubSeq(nonces[s], 1, nSynced[s]))
        /\ Len(ledger[n].nonces) = Len(ledger[n].items)
        /\ NoncesReadable(s) \/ nTorn[s] \/ nBare[s] # 0

\* A later row of a session commits to more items and to the same first ones:
\* rewriting a transcript, overlapping scans and retries after a crash change
\* nothing that was committed, and commit nothing twice.
HistoryOnlyGrows ==
    \A m, n \in 1..Len(ledger) :
        m < n /\ ledger[m].session = ledger[n].session =>
            /\ Len(ledger[m].items) < Len(ledger[n].items)
            /\ IsPrefixOf(ledger[m].items, ledger[n].items)

\* The archive holds only what a row committed: never a line that was edited
\* after capture, and half of a line only where the row has that line.
ArchiveIsCommitted ==
    \A s \in Session :
        \/ archive[s] = <<>> /\ fragment[s] = NoItem
        \/ \E n \in RowsOf(s) : Extends(s, ledger[n].items)

Committed(s, k) == \E n \in RowsOf(s) : Len(ledger[n].items) >= k

\* Every complete line of a transcript that is only appended to is committed
\* by some later scan, whatever crashes, unless the session's nonce file has
\* become one that load_nonces refuses.
LinesCaptured ==
    \A s \in Session : \A k \in 1..MaxItems :
        Len(source[s]) >= k ~> Committed(s, k) \/ rewrites > 0 \/ ~NoncesReadable(s)

\* The same, with nothing said of the nonce file: "a crash between nonce
\* writes and the row append [...] must produce a row on the next scan".
CrashNeverSilencesCapture ==
    \A s \in Session : \A k \in 1..MaxItems :
        Len(source[s]) >= k ~> Committed(s, k) \/ rewrites > 0
=============================================================================
