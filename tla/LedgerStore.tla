------------------------------- MODULE LedgerStore -------------------------------
(***************************************************************************)
(* ledger.py: the hash-chained row file (asset A3), appended to by several *)
(* processes (the capture scan, post-commit hooks, the reconcile sweep)    *)
(* that serialise on <ledger>.lock, may be killed between any two system   *)
(* calls, and may lose power.                                              *)
(*                                                                         *)
(* The file is its complete lines, rows, and whether an incomplete line    *)
(* follows them, tail.  Readers see both; a power loss keeps the first     *)
(* synced rows and any number of those written since.  A row's hash is     *)
(* the sequence of bodies from genesis to the row: two rows have the same  *)
(* hash only when they end the same history.                               *)
(***************************************************************************)
EXTENDS Naturals, Sequences

CONSTANTS
    Proc,        \* processes that write the ledger
    Scanner,     \* those of them that run the capture scan, and so recover()
    NoProc,      \* the lock's value when nobody holds it
    Key,         \* what an append is about: a session, a commit, an event
    NoKey,       \* the key of genesis and schema_version rows
    MaxOps,      \* bound: append calls begun
    MaxCrashes   \* bound: kills and power losses

ASSUME ScannerAssumption == Scanner \subseteq Proc
ASSUME NoProcAssumption == NoProc \notin Proc
ASSUME NoKeyAssumption == NoKey \notin Key

VARIABLES
    rows,        \* complete lines of the file, as any reader sees them
    tail,        \* TRUE: an interrupted append left a fragment after them
    synced,      \* the first rows that are on disk
    tailSynced,  \* TRUE: a fragment is on disk after them
    linked,      \* TRUE: the file's directory entry is on disk
    lock,        \* who holds <ledger>.lock
    pc,          \* where each process is in its call
    op,          \* the append each process is doing
    seen,        \* the rows each process read under the lock ("existing")
    quarantined, \* fragments written to <ledger>.quarantine
    acked,       \* history: the chain up to the last row an append returned, or
                 \*   all of it when recover() returned
    fragments,   \* history: fragments interrupted appends have left
    started,     \* append calls begun
    crashes,     \* kills and power losses
    powerLost    \* history: TRUE once the power failed

file == <<rows, tail, synced, tailSynced, linked>>
call == <<lock, pc, op, seen>>
history == <<acked, fragments, started, crashes, powerLost>>
vars == <<file, call, quarantined, history>>

-----------------------------------------------------------------------------
(* Rows and their hashes.                                                  *)

RowType == {"genesis", "schema_version", "session", "binding", "event"}
Body == [type : RowType, ver : 1..3, key : Key \cup {NoKey}]
Row == [i : Nat, prev : Seq(Body), body : Body]

\* What append_session, append_binding and append_event are asked to append;
\* prov: with an explicit provenance, the v3 shape.
Op == [type : {"session", "binding"}, prov : BOOLEAN, key : Key]
        \cup [type : {"event"}, prov : {FALSE}, key : Key]
NoOp == [type |-> "none", prov |-> FALSE, key |-> NoKey]

GenesisPrev == <<>>
RowHash(r) == Append(r.prev, r.body)

Genesis == [type |-> "genesis", ver |-> 1, key |-> NoKey]
Boundary == [type |-> "schema_version", ver |-> 3, key |-> NoKey]

\* The versions are frozen per row type: sessions and events are "2" and
\* bindings "1" unless the caller asked for provenance.
Evidence(o) ==
    [type |-> o.type,
     ver |-> IF o.prov THEN 3 ELSE IF o.type = "binding" THEN 1 ELSE 2,
     key |-> o.key]

Boundaries(s) == {n \in 1..Len(s) : s[n].body.type = "schema_version"}

\* The next row a call writes after s: genesis first, then the one
\* schema_version row a v3 append needs, then what was asked for.
NextBody(s, o) ==
    IF s = <<>> THEN Genesis
    ELSE IF o.prov /\ Boundaries(s) = {} THEN Boundary
    ELSE Evidence(o)

NextRowOffByOne(s, b) ==
    [i |-> Len(s) - 1,
     prev |-> IF s = <<>> THEN GenesisPrev ELSE RowHash(s[Len(s)]),
     body |-> b]

NextRow(s, b) ==
    [i |-> IF s = <<>> THEN 0 ELSE s[Len(s)].i + 1,
     prev |-> IF s = <<>> THEN GenesisPrev ELSE RowHash(s[Len(s)]),
     body |-> b]

-----------------------------------------------------------------------------
(* verify_chain: what makes a sequence of complete rows a valid chain.     *)

RowInPlace(s, n) ==
    /\ s[n].i = n - 1
    /\ (s[n].body.type = "genesis") <=> (n = 1)
    /\ s[n].prev = IF n = 1 THEN GenesisPrev ELSE RowHash(s[n - 1])

BoundaryBeforeV3(s, n) ==
    s[n].body.type # "schema_version" /\ s[n].body.ver = 3
        => \E m \in Boundaries(s) : m < n

ChainOK(s) ==
    /\ \A n \in 1..Len(s) : RowInPlace(s, n) /\ BoundaryBeforeV3(s, n)
    /\ \A m, n \in Boundaries(s) : m = n

\* append_event's replay key is already in the ledger.
Recorded(s, o) ==
    o.type = "event" /\ \E n \in 1..Len(s) : s[n].body = Evidence(o)

\* rows() parses, and _prepare_provenance_rows accepts what is there.
Readable(o) ==
    /\ ~tail
    /\ o.prov => /\ \A m, n \in Boundaries(rows) : m = n
                 /\ \A n \in 1..Len(rows) : BoundaryBeforeV3(rows, n)

Exists == rows # <<>> \/ tail

-----------------------------------------------------------------------------
(* Initial state: no ledger, nobody at work.                               *)

Init ==
    /\ rows = <<>> /\ tail = FALSE
    /\ synced = 0 /\ tailSynced = FALSE /\ linked = FALSE
    /\ lock = NoProc
    /\ pc = [p \in Proc |-> "idle"]
    /\ op = [p \in Proc |-> NoOp]
    /\ seen = [p \in Proc |-> <<>>]
    /\ quarantined = 0
    /\ acked = <<>> /\ fragments = 0 /\ started = 0 /\ crashes = 0
    /\ powerLost = FALSE

Goto(p, label) == pc' = [pc EXCEPT ![p] = label]

\* The call returns or raises; its locals are gone.
Unwind(p) ==
    /\ Goto(p, "idle")
    /\ op' = [op EXCEPT ![p] = NoOp]
    /\ seen' = [seen EXCEPT ![p] = <<>>]

LeaveHolding(p) == Unwind(p) /\ UNCHANGED lock

\* The call ends: closing the lock file's descriptor releases the lock.
Leave(p) == Unwind(p) /\ lock' = NoProc

-----------------------------------------------------------------------------
(* The append calls.                                                       *)

StartAppend(p, o) ==
    /\ pc[p] = "idle" /\ started < MaxOps
    /\ Goto(p, "lock")
    /\ op' = [op EXCEPT ![p] = o]
    /\ started' = started + 1
    /\ UNCHANGED <<file, lock, seen, quarantined, acked, fragments, crashes, powerLost>>

AcquireUnchecked(p) ==
    /\ pc[p] \in {"lock", "rlock"}
    /\ lock' = p
    /\ Goto(p, IF pc[p] = "lock" THEN "read" ELSE "verify")
    /\ UNCHANGED <<file, op, seen, quarantined, history>>

\* _writer_lock: blocks until the exclusive flock is granted.
Acquire(p) ==
    /\ pc[p] \in {"lock", "rlock"} /\ lock = NoProc
    /\ lock' = p
    /\ Goto(p, IF pc[p] = "lock" THEN "read" ELSE "verify")
    /\ UNCHANGED <<file, op, seen, quarantined, history>>

ReadTipNoReplayCheck(p) ==
    /\ pc[p] = "read" /\ Readable(op[p])
    /\ seen' = [seen EXCEPT ![p] = rows]
    /\ Goto(p, "write")
    /\ UNCHANGED <<file, lock, op, quarantined, history>>

\* existing = self.rows()
ReadTip(p) ==
    /\ pc[p] = "read" /\ Readable(op[p]) /\ ~Recorded(rows, op[p])
    /\ seen' = [seen EXCEPT ![p] = rows]
    /\ Goto(p, "write")
    /\ UNCHANGED <<file, lock, op, quarantined, history>>

\* rows() raised, or the event is a replay: nothing is written.
Refuse(p) ==
    /\ pc[p] = "read" /\ (~Readable(op[p]) \/ Recorded(rows, op[p]))
    /\ Leave(p)
    /\ UNCHANGED <<file, quarantined, history>>

\* The row p is writing.
RowOf(p) == NextRow(seen[p], NextBody(seen[p], op[p]))

\* os.write(fd, line) with O_APPEND
WriteRow(p) ==
    /\ pc[p] = "write"
    /\ rows' = Append(rows, RowOf(p))
    /\ Goto(p, "fsync")
    /\ UNCHANGED <<tail, synced, tailSynced, linked, lock, op, seen, quarantined, history>>

FsyncForgotten(p) ==
    /\ pc[p] = "fsync"
    /\ Goto(p, "fsyncdir")
    /\ UNCHANGED <<file, lock, op, seen, quarantined, history>>

FsyncRow(p) ==
    /\ pc[p] = "fsync"
    /\ synced' = Len(rows)
    /\ tailSynced' = tail
    /\ Goto(p, "fsyncdir")
    /\ UNCHANGED <<rows, tail, linked, lock, op, seen, quarantined, history>>

\* The directory is synced and _append_row returns the row.
RowReturned(p) ==
    /\ pc[p] = "fsyncdir"
    /\ linked' = TRUE
    /\ acked' = Append(seen[p], RowOf(p))
    /\ UNCHANGED <<rows, tail, synced, tailSynced, quarantined,
                   fragments, started, crashes, powerLost>>

\* It was the genesis or the schema_version row: the call goes on.
ReturnFirst(p) ==
    /\ RowReturned(p)
    /\ RowOf(p).body # Evidence(op[p])
    /\ Goto(p, "write")
    /\ seen' = [seen EXCEPT ![p] = Append(@, RowOf(p))]
    /\ UNCHANGED <<lock, op>>

ReturnRow(p) ==
    /\ RowReturned(p)
    /\ RowOf(p).body = Evidence(op[p])
    /\ Leave(p)

-----------------------------------------------------------------------------
(* recover().                                                              *)

StartRecover(p) ==
    /\ pc[p] = "idle" /\ Exists
    /\ Goto(p, "rlock")
    /\ UNCHANGED <<file, lock, op, seen, quarantined, history>>

VerifyTornRaises(p) ==
    /\ pc[p] = "verify" /\ tail
    /\ Leave(p)
    /\ UNCHANGED <<file, quarantined, history>>

\* verify_chain() reports a torn tail: it is repaired.
VerifyTorn(p) ==
    /\ pc[p] = "verify" /\ tail
    /\ Goto(p, "quarantine")
    /\ UNCHANGED <<file, lock, op, seen, quarantined, history>>

\* The chain is clean, or the error is not a torn tail and propagates.
Verify(p) ==
    /\ pc[p] = "verify" /\ ~tail
    /\ IF ChainOK(rows) THEN Goto(p, "rsync") /\ UNCHANGED <<lock, op, seen>> ELSE Leave(p)
    /\ UNCHANGED <<file, quarantined, history>>

QuarantineSkipped(p) ==
    /\ pc[p] = "quarantine"
    /\ Goto(p, "truncate")
    /\ UNCHANGED <<file, lock, op, seen, quarantined, history>>

\* The fragment's bytes are appended to the quarantine file and synced.
Quarantine(p) ==
    /\ pc[p] = "quarantine"
    /\ quarantined' = quarantined + 1
    /\ Goto(p, "truncate")
    /\ UNCHANGED <<file, lock, op, seen, history>>

TruncateLastRow(p) ==
    /\ pc[p] = "truncate"
    /\ tail' = FALSE
    /\ rows' = SubSeq(rows, 1, Len(rows) - 1)
    /\ synced' = IF synced < Len(rows) THEN synced ELSE Len(rows) - 1
    /\ Goto(p, "tsync")
    /\ UNCHANGED <<tailSynced, linked, lock, op, seen, quarantined, history>>

\* f.truncate(boundary): the boundary is after the last complete line.
Truncate(p) ==
    /\ pc[p] = "truncate"
    /\ tail' = FALSE
    /\ Goto(p, "tsync")
    /\ UNCHANGED <<rows, synced, tailSynced, linked, lock, op, seen, quarantined, history>>

TruncateSync(p) ==
    /\ pc[p] = "tsync"
    /\ synced' = Len(rows)
    /\ tailSynced' = FALSE
    /\ Goto(p, "verify")
    /\ UNCHANGED <<rows, tail, linked, lock, op, seen, quarantined, history>>

\* _ensure_storage_durable: the file, then its directory.
RecoverSync(p) ==
    /\ pc[p] = "rsync"
    /\ synced' = Len(rows)
    /\ tailSynced' = tail
    /\ Goto(p, "rdir")
    /\ UNCHANGED <<rows, tail, linked, lock, op, seen, quarantined, history>>

\* recover() returns: its caller trusts every row it then reads.
RecoverDone(p) ==
    /\ pc[p] = "rdir"
    /\ linked' = TRUE
    /\ acked' = rows
    /\ Leave(p)
    /\ UNCHANGED <<rows, tail, synced, tailSynced, quarantined,
                   fragments, started, crashes, powerLost>>

-----------------------------------------------------------------------------
(* Crashes.                                                                *)

Die(p) ==
    /\ Unwind(p)
    /\ lock' = IF lock = p THEN NoProc ELSE lock
    /\ crashes' = crashes + 1
    /\ UNCHANGED <<quarantined, acked, started, powerLost>>

\* SIGKILL between two system calls; the kernel closes the lock's descriptor.
Kill(p) ==
    /\ pc[p] # "idle" /\ crashes < MaxCrashes
    /\ Die(p)
    /\ UNCHANGED <<file, fragments>>

\* SIGKILL within the write: part of the line is in the file, on disk or not.
KillMidWrite(p) ==
    /\ pc[p] = "write" /\ crashes < MaxCrashes
    /\ Die(p)
    /\ tail' = TRUE
    /\ fragments' = fragments + 1
    /\ \/ UNCHANGED <<synced, tailSynced>>
       \/ synced' = Len(rows) /\ tailSynced' = TRUE
    /\ UNCHANGED <<rows, linked>>

\* Of what was not synced a power loss keeps a prefix of the bytes; a file
\* whose directory entry was never synced may be gone.
Survives(k, torn) ==
    \/ /\ ~linked /\ k = 0 /\ ~torn
    \/ /\ synced <= k
       /\ torn => tail \/ tailSynced \/ k < Len(rows)
       /\ ~torn => ~(tail /\ tailSynced)

PowerLoss ==
    /\ crashes < MaxCrashes
    /\ crashes' = crashes + 1
    /\ powerLost' = TRUE
    /\ \E k \in 0..Len(rows), torn \in BOOLEAN :
         /\ Survives(k, torn)
         /\ rows' = SubSeq(rows, 1, k)
         /\ synced' = k
         /\ tail' = torn /\ tailSynced' = torn
         /\ linked' = (k > 0 \/ torn)
         /\ fragments' = IF torn /\ ~tail THEN fragments + 1 ELSE fragments
    /\ lock' = NoProc
    /\ pc' = [p \in Proc |-> "idle"]
    /\ op' = [p \in Proc |-> NoOp]
    /\ seen' = [p \in Proc |-> <<>>]
    /\ UNCHANGED <<quarantined, acked, started>>

-----------------------------------------------------------------------------
Step(p) ==
    \/ Acquire(p) \/ ReadTip(p) \/ Refuse(p)
    \/ WriteRow(p) \/ FsyncRow(p) \/ ReturnFirst(p) \/ ReturnRow(p)
    \/ Verify(p) \/ VerifyTorn(p) \/ Quarantine(p) \/ Truncate(p) \/ TruncateSync(p)
    \/ RecoverSync(p) \/ RecoverDone(p)

Begin(p) ==
    \/ \E o \in Op : StartAppend(p, o)
    \/ p \in Scanner /\ StartRecover(p)

Crash == PowerLoss \/ \E p \in Proc : Kill(p) \/ KillMidWrite(p)

Next == Crash \/ \E p \in Proc : Begin(p) \/ Step(p)

Spec == Init /\ [][Next]_vars

\* A process the kernel schedules goes on, a waiter gets the lock if it is
\* released again and again, and the poll loop keeps starting scans.
Fairness ==
    /\ \A p \in Proc : WF_vars(Step(p)) /\ SF_vars(Acquire(p))
    /\ \A p \in Scanner : SF_vars(StartRecover(p))

FairSpec == Spec /\ Fairness

-----------------------------------------------------------------------------
(* The disk fills up: os.write returns fewer bytes than the line has, and  *)
(* _append_row, which ignores what it returns, goes on as if it had        *)
(* written the row.                                                        *)

WriteShort(p) ==
    /\ pc[p] = "write"
    /\ tail' = TRUE
    /\ fragments' = fragments + 1
    /\ Goto(p, "fsync")
    /\ UNCHANGED <<rows, synced, tailSynced, linked, lock, op, seen, quarantined,
                   acked, started, crashes, powerLost>>

SpecDiskFull == Init /\ [][Next \/ \E p \in Proc : WriteShort(p)]_vars

-----------------------------------------------------------------------------
(* Properties.                                                             *)

PC == {"idle", "lock", "read", "write", "fsync", "fsyncdir", "rlock",
       "verify", "quarantine", "truncate", "tsync", "rsync", "rdir"}

\* Every variable has its type.
TypeOK ==
    /\ rows \in Seq(Row) /\ tail \in BOOLEAN
    /\ synced \in Nat /\ tailSynced \in BOOLEAN /\ linked \in BOOLEAN
    /\ lock \in Proc \cup {NoProc}
    /\ pc \in [Proc -> PC] /\ op \in [Proc -> Op \cup {NoOp}] /\ seen \in [Proc -> Seq(Row)]
    /\ quarantined \in Nat
    /\ acked \in Seq(Row)
    /\ fragments \in Nat /\ started \in Nat /\ crashes \in Nat
    /\ powerLost \in BOOLEAN

IsPrefixOf(s, t) == Len(s) <= Len(t) /\ \A n \in 1..Len(s) : s[n] = t[n]

\* However the writers interleave and wherever they die, the complete rows
\* are a chain verify_chain accepts: no two rows share an index or a
\* predecessor, one genesis, one schema_version row and no v3 row before it.
ChainIntact == ChainOK(rows)

\* A row an append returned, and every row before it, is never lost or
\* changed: not by a kill, a power loss or another process's repair.
AckedKept == IsPrefixOf(acked, rows)

\* Two scans that replay the same observation record it once.
EventOnce ==
    \A m, n \in 1..Len(rows) :
        rows[m].body.type = "event" /\ rows[m].body = rows[n].body => m = n

\* The repair loses no evidence to a kill: every fragment an interrupted
\* append left is still in the ledger or is in the quarantine file.
FragmentsKept ==
    ~powerLost => fragments <= quarantined + (IF tail THEN 1 ELSE 0)

Links(s, r) ==
    /\ r.i = Len(s)
    /\ r.prev = IF s = <<>> THEN GenesisPrev ELSE RowHash(s[Len(s)])

Promised == INSTANCE AppendOnlyLedger WITH log <- rows, promised <- acked

\* The file, its lock and its repair implement the append-only ledger.
ImplementsLedger == Promised!Spec

\* A fragment is repaired by a later scan, whoever keeps writing.
TornRepaired == tail ~> ~tail

\* Every call ends: nobody waits for the lock for ever.
CallsEnd == \A p \in Proc : pc[p] # "idle" ~> pc[p] = "idle"
=============================================================================
