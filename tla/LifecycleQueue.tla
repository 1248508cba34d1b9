------------------------------ MODULE LifecycleQueue ------------------------------
(***************************************************************************)
(* hooks/lifecycle.py: lifecycle hooks append one line each to a private   *)
(* queue file; the next capture scan moves the lines into event rows of    *)
(* the ledger and compacts the file.  Hooks and the scan serialise on the  *)
(* queue file's flock; capture_scan_lock lets one scan run at a time       *)
(* (CaptureScan), so there is one flusher, which may die and start again.  *)
(*                                                                         *)
(* The events are those of one session, named by what makes a replay of    *)
(* them: (event_kind, ts).  Of a line only its event matters, or that it   *)
(* is Bad, nothing _parse_queue_line accepts, or Refused: an event to the  *)
(* queue, but with a trigger the ledger's schema does not allow its kind.  *)
(* Hooks write no such line; one record written over another may be one.   *)
(* The ledger is used as AppendOnlyLedger promises.                        *)
(***************************************************************************)
EXTENDS Naturals, Sequences

CONSTANTS
    Hook,        \* hook processes
    NoProc,      \* the flock's value when nobody holds it
    Scan,        \* the scan, as a holder of the flock
    Event,       \* replay keys
    KindOf,      \* the kind of each event
    Bad,         \* a complete line that is no event
    Refused,     \* a complete line that is one no ledger row can hold
    MaxCalls,    \* bound: hooks run
    MaxCrashes   \* bound: kills, short writes, power losses

\* "compact_start" is a SessionStart whose trigger is "compact".
Kind == {"session_start", "session_end", "compact_pre", "compact_start"}

ASSUME KindAssumption == KindOf \in [Event -> Kind]
ASSUME HolderAssumption == Scan \notin Hook /\ NoProc \notin Hook /\ Scan # NoProc
ASSUME BadAssumption == Bad \notin Event
ASSUME RefusedAssumption == Refused \notin Event /\ Refused # Bad

VARIABLES
    lines,       \* the complete lines of the queue file
    torn,        \* an incomplete line follows them
    disk,        \* the lines when the file was last synced
    linked,      \* the file's directory entry is on disk
    flock,       \* who holds the queue file's lock
    hpc,         \* where each hook is in enqueue_event
    hev,         \* the event it enqueues
    spc,         \* where the scan is
    batch,       \* the complete lines the flush read, those it has not done
    gen,         \* the generation it computed for the first of them
    rows,        \* event rows of the ledger, as readers see them
    kept,        \* how many of them the ledger has promised
    ledgerTorn,  \* the ledger's last line is torn
    accepted,    \* history: events whose enqueue_event returned
    glued,       \* history: events whose line was written after an incomplete one
    calls,       \* hooks run
    crashes      \* crashes so far

queue == <<lines, torn, disk, linked>>
hooks == <<hpc, hev>>
scan == <<spc, batch, gen>>
ledger == <<rows, kept, ledgerTorn>>
history == <<accepted, glued, calls, crashes>>
vars == <<queue, flock, hooks, scan, ledger, history>>

EventRow == [ev : Event, gen : Nat]
Line == Event \cup {Bad, Refused}

IsPrefixOf(s, t) == Len(s) <= Len(t) /\ s = SubSeq(t, 1, Len(s))

Recorded(e) == \E n \in 1..Len(rows) : rows[n].ev = e

-----------------------------------------------------------------------------
(* _context_generation.                                                    *)

Gens == {rows[n].gen : n \in 1..Len(rows)}
Current == IF rows = <<>> THEN 0 ELSE CHOOSE g \in Gens : \A h \in Gens : h <= g

GenerationNoSharing(e) ==
    IF KindOf[e] \in {"compact_pre", "compact_start"} THEN Current + 1 ELSE Current

\* A PreCompact starts a generation; the SessionStart(compact) right after it
\* shares it, and starts one when the PreCompact was not observed.
Generation(e) ==
    IF KindOf[e] = "compact_pre" THEN Current + 1
    ELSE IF KindOf[e] = "compact_start" THEN
        IF rows # <<>> /\ KindOf[rows[Len(rows)].ev] = "compact_pre"
        THEN rows[Len(rows)].gen ELSE Current + 1
    ELSE Current

-----------------------------------------------------------------------------
Init ==
    /\ lines = <<>> /\ torn = FALSE /\ disk = <<>> /\ linked = FALSE
    /\ flock = NoProc
    /\ hpc = [h \in Hook |-> "idle"]
    /\ hev = [h \in Hook |-> Bad]
    /\ spc = "idle" /\ batch = <<>> /\ gen = 0
    /\ rows = <<>> /\ kept = 0 /\ ledgerTorn = FALSE
    /\ accepted = {} /\ glued = {} /\ calls = 0 /\ crashes = 0

HookGoto(h, label) == hpc' = [hpc EXCEPT ![h] = label]

HookEnds(h) ==
    /\ HookGoto(h, "idle")
    /\ hev' = [hev EXCEPT ![h] = Bad]

-----------------------------------------------------------------------------
(* enqueue_event.                                                          *)

StartHook(h, e) ==
    /\ hpc[h] = "idle" /\ calls < MaxCalls
    /\ calls' = calls + 1
    /\ HookGoto(h, "lock")
    /\ hev' = [hev EXCEPT ![h] = e]
    /\ UNCHANGED <<queue, flock, scan, ledger, accepted, glued, crashes>>

LockQueueUnheld(h) ==
    /\ hpc[h] = "lock"
    /\ HookGoto(h, "write")
    /\ UNCHANGED <<queue, flock, hev, scan, ledger, history>>

LockQueue(h) ==
    /\ hpc[h] = "lock" /\ flock = NoProc
    /\ flock' = h
    /\ HookGoto(h, "write")
    /\ UNCHANGED <<queue, hev, scan, ledger, history>>

\* One os.write with O_APPEND.  After an incomplete line it completes that
\* one, which is then no event.
WriteLine(h) ==
    /\ hpc[h] = "write"
    /\ lines' = Append(lines, IF torn THEN Bad ELSE hev[h])
    /\ torn' = FALSE
    /\ glued' = IF torn THEN glued \cup {hev[h]} ELSE glued
    /\ HookGoto(h, "fsync")
    /\ UNCHANGED <<disk, linked, flock, hev, scan, ledger, accepted, calls, crashes>>

\* The file is synced and closed, which releases the lock.
SyncLine(h) ==
    /\ hpc[h] = "fsync"
    /\ disk' = lines
    /\ flock' = IF flock = h THEN NoProc ELSE flock
    /\ HookGoto(h, "dirsync")
    /\ UNCHANGED <<lines, torn, linked, hev, scan, ledger, history>>

\* The directory is synced and enqueue_event returns.
Enqueued(h) ==
    /\ hpc[h] = "dirsync"
    /\ linked' = TRUE
    /\ accepted' = accepted \cup {hev[h]}
    /\ HookEnds(h)
    /\ UNCHANGED <<lines, torn, disk, flock, scan, ledger, glued, calls, crashes>>

-----------------------------------------------------------------------------
(* The scan: recover(), then flush_queue().                                *)

StartScan ==
    /\ spc = "idle"
    /\ spc' = "recover"
    /\ UNCHANGED <<queue, flock, hooks, batch, gen, ledger, history>>

RecoverForgotten ==
    /\ spc = "recover"
    /\ spc' = "lock"
    /\ UNCHANGED <<queue, flock, hooks, batch, gen, ledger, history>>

Recover ==
    /\ spc = "recover"
    /\ kept' = Len(rows)
    /\ ledgerTorn' = FALSE
    /\ spc' = "lock"
    /\ UNCHANGED <<queue, flock, hooks, batch, gen, rows, history>>

\* The file's lock is released, the scan goes on to the transcripts.
FlushEnds ==
    /\ spc' = "idle" /\ batch' = <<>> /\ gen' = 0
    /\ flock' = IF flock = Scan THEN NoProc ELSE flock

\* flush_queue takes the lock and reads the file.
ReadQueue ==
    /\ spc = "lock" /\ flock = NoProc
    /\ IF lines = <<>> THEN FlushEnds
       ELSE /\ flock' = Scan
            /\ batch' = lines
            /\ spc' = "line"
            /\ UNCHANGED gen
    /\ UNCHANGED <<queue, hooks, ledger, history>>

RejectRaises ==
    /\ spc = "line" /\ batch # <<>> /\ batch[1] = Bad
    /\ FlushEnds
    /\ UNCHANGED <<queue, hooks, ledger, history>>

RejectInPlace ==
    /\ spc = "line" /\ batch # <<>> /\ batch[1] = Bad
    /\ UNCHANGED vars

\* A line that is no event is counted and passed over.
Reject ==
    /\ spc = "line" /\ batch # <<>> /\ batch[1] = Bad
    /\ batch' = Tail(batch)
    /\ UNCHANGED <<queue, flock, hooks, spc, gen, ledger, history>>

\* rows() is read, before append_event takes the ledger's lock.
ReadRows ==
    /\ spc = "line" /\ batch # <<>> /\ batch[1] # Bad
    /\ IF ledgerTorn THEN FlushEnds
       ELSE /\ gen' = IF batch[1] = Refused THEN 0 ELSE Generation(batch[1])
            /\ spc' = "append"
            /\ UNCHANGED <<batch, flock>>
    /\ UNCHANGED <<queue, hooks, ledger, history>>

AppendTwice ==
    /\ spc = "append" /\ ~ledgerTorn /\ batch[1] # Refused
    /\ rows' = Append(rows, [ev |-> batch[1], gen |-> gen])
    /\ spc' = "fsync"
    /\ UNCHANGED <<queue, flock, hooks, batch, gen, kept, ledgerTorn, history>>

\* append_event writes the row; a replay is not written again.
AppendEvent ==
    /\ spc = "append" /\ ~ledgerTorn /\ batch[1] # Refused
    /\ IF Recorded(batch[1])
       THEN /\ batch' = Tail(batch) /\ gen' = 0
            /\ spc' = "line"
            /\ UNCHANGED rows
       ELSE /\ rows' = Append(rows, [ev |-> batch[1], gen |-> gen])
            /\ spc' = "fsync"
            /\ UNCHANGED <<batch, gen>>
    /\ UNCHANGED <<queue, flock, hooks, kept, ledgerTorn, history>>

\* append_event raises: another writer left a torn tail, or the row does not
\* match the ledger's schema.  The queue stays.
AppendRaises ==
    /\ spc = "append"
    /\ ledgerTorn \/ batch[1] = Refused
    /\ FlushEnds
    /\ UNCHANGED <<queue, hooks, ledger, history>>

\* append_event returns.
EventAppended ==
    /\ spc = "fsync"
    /\ kept' = Len(rows)
    /\ batch' = Tail(batch) /\ gen' = 0
    /\ spc' = "line"
    /\ UNCHANGED <<queue, flock, hooks, rows, ledgerTorn, history>>

\* An incomplete tail written over a file that begins with the lines s: all of
\* them go, or the last one it reaches and the tail make one line.  Records have
\* their keys in one order and are almost equally long, so that line may be Bad
\* or a record no hook wrote, with the first keys of one and the last of another.
Overlaid(s) ==
    {<<>>} \cup UNION {{<<x>> \o SubSeq(s, n + 1, Len(s)) : x \in Line} : n \in 1..Len(s)}

WriteTail ==
    /\ spc = "line" /\ batch = <<>>
    /\ IF torn THEN lines' \in Overlaid(lines) ELSE UNCHANGED lines
    /\ spc' = "truncate"
    /\ UNCHANGED <<torn, disk, linked, flock, hooks, batch, gen, ledger, history>>

TruncateQueue ==
    /\ spc = "truncate"
    /\ lines' = <<>>
    /\ spc' = "qsync"
    /\ UNCHANGED <<torn, disk, linked, flock, hooks, batch, gen, ledger, history>>

SyncQueue ==
    /\ spc = "qsync"
    /\ disk' = lines
    /\ FlushEnds
    /\ UNCHANGED <<lines, torn, linked, hooks, ledger, history>>

-----------------------------------------------------------------------------
(* Crashes.                                                                *)

Crashing == crashes < MaxCrashes /\ crashes' = crashes + 1

\* The hook's one-second timeout kills it.
KillHook(h) ==
    /\ Crashing /\ hpc[h] # "idle"
    /\ HookEnds(h)
    /\ flock' = IF flock = h THEN NoProc ELSE flock
    /\ UNCHANGED <<queue, scan, ledger, accepted, glued, calls>>

\* os.write wrote part of the line: enqueue_event raises, the part stays.
ShortWrite(h) ==
    /\ Crashing /\ hpc[h] = "write"
    /\ torn' = TRUE
    /\ HookEnds(h)
    /\ flock' = IF flock = h THEN NoProc ELSE flock
    /\ UNCHANGED <<lines, disk, linked, scan, ledger, accepted, glued, calls>>

KillScan ==
    /\ Crashing /\ spc # "idle"
    /\ FlushEnds
    /\ UNCHANGED <<queue, hooks, ledger, accepted, glued, calls>>

\* Any writer of the ledger is killed within its write.
LedgerWriterDies ==
    /\ Crashing /\ ~ledgerTorn
    /\ ledgerTorn' = TRUE
    /\ UNCHANGED <<queue, flock, hooks, scan, rows, kept, accepted, glued, calls>>

\* The writes since the last sync only added lines.
OnlyAppended == IsPrefixOf(disk, lines)

Prefixes(s) == {SubSeq(s, 1, n) : n \in 0..Len(s)}

\* Of lines appended since the sync a prefix survives; of a compaction not
\* synced, a prefix of what was there before or of what it made, or the old
\* lines with the new beginning; a file whose directory entry was never synced may
\* be gone.
Survives(s, part) ==
    \/ s = <<>> /\ ~part /\ ~linked
    \/ IsPrefixOf(s, disk) /\ ~OnlyAppended
    \/ s \in Overlaid(disk) /\ ~OnlyAppended /\ (torn \/ lines # <<>>)
    \/ /\ IsPrefixOf(s, lines) /\ (OnlyAppended => IsPrefixOf(disk, s))
       /\ part => torn \/ Len(s) < Len(lines)

PowerLoss ==
    /\ Crashing
    /\ \E s \in Overlaid(disk) \cup Prefixes(disk) \cup Prefixes(lines),
          part \in BOOLEAN, m \in kept..Len(rows), tornRow \in BOOLEAN :
         /\ Survives(s, part)
         /\ lines' = s /\ disk' = s /\ torn' = part
         /\ linked' = (linked \/ s # <<>> \/ part)
         /\ tornRow => ledgerTorn \/ m < Len(rows)
         /\ rows' = SubSeq(rows, 1, m) /\ kept' = m /\ ledgerTorn' = tornRow
    /\ flock' = NoProc
    /\ hpc' = [h \in Hook |-> "idle"] /\ hev' = [h \in Hook |-> Bad]
    /\ spc' = "idle" /\ batch' = <<>> /\ gen' = 0
    /\ UNCHANGED <<accepted, glued, calls>>

-----------------------------------------------------------------------------
HookStep(h) == LockQueue(h) \/ WriteLine(h) \/ SyncLine(h) \/ Enqueued(h)

ScanStep ==
    \/ Recover \/ ReadQueue \/ Reject \/ ReadRows
    \/ AppendEvent \/ AppendRaises \/ EventAppended
    \/ WriteTail \/ TruncateQueue \/ SyncQueue

Crash ==
    \/ KillScan \/ LedgerWriterDies \/ PowerLoss
    \/ \E h \in Hook : KillHook(h) \/ ShortWrite(h)

Next ==
    \/ Crash
    \/ StartScan \/ ScanStep
    \/ \E h \in Hook : HookStep(h) \/ \E e \in Event : StartHook(h, e)

Spec == Init /\ [][Next]_vars

\* A running process goes on, a waiter gets a lock released again and again,
\* and the scheduler keeps starting scans.
Fairness ==
    /\ WF_vars(StartScan) /\ WF_vars(ScanStep) /\ SF_vars(ReadQueue)
    /\ \A h \in Hook : WF_vars(HookStep(h)) /\ SF_vars(LockQueue(h))

FairSpec == Spec /\ Fairness

-----------------------------------------------------------------------------
(* Properties.                                                             *)

TypeOK ==
    /\ lines \in Seq(Line) /\ torn \in BOOLEAN
    /\ disk \in Seq(Line) /\ linked \in BOOLEAN
    /\ flock \in Hook \cup {Scan, NoProc}
    /\ hpc \in [Hook -> {"idle", "lock", "write", "fsync", "dirsync"}]
    /\ hev \in [Hook -> Event \cup {Bad}]
    /\ spc \in {"idle", "recover", "lock", "line", "append", "fsync", "truncate", "qsync"}
    /\ batch \in Seq(Line) /\ gen \in Nat
    /\ rows \in Seq(EventRow) /\ kept \in 0..Len(rows) /\ ledgerTorn \in BOOLEAN
    /\ accepted \subseteq Event /\ glued \subseteq Event
    /\ calls \in Nat /\ crashes \in Nat

Promised(e) == \E n \in 1..kept : rows[n].ev = e
OnDisk(s, e) == \E n \in 1..Len(s) : s[n] = e

\* An event whose hook was told it is queued is, at every moment, in a ledger
\* row no crash takes back or in a line that survives one, unless it was
\* written after somebody's incomplete line: compaction, replay and crashes
\* between the ledger append and the compaction lose nothing.
AcceptedKept ==
    \A e \in accepted \ glued : Promised(e) \/ (linked /\ OnDisk(disk, e) /\ OnDisk(lines, e))

\* However often a line is replayed, the event has one row.
RecordedOnce ==
    \A m, n \in 1..Len(rows) : rows[m].ev = rows[n].ev => m = n

\* Replays and crashes do not disturb the generations: they never fall along
\* the rows, every PreCompact has one of its own, and a SessionStart(compact)
\* that follows it has the same.
GenerationsCount ==
    \A m, n \in 1..Len(rows) : m < n =>
        /\ rows[m].gen <= rows[n].gen
        /\ KindOf[rows[n].ev] = "compact_pre" => rows[m].gen < rows[n].gen
        /\ n = m + 1 /\ KindOf[rows[m].ev] = "compact_pre"
             /\ KindOf[rows[n].ev] = "compact_start" => rows[m].gen = rows[n].gen

\* A compaction that died left a line on which every later flush raises.
Stuck == OnDisk(lines, Refused)

\* A queued event reaches the ledger, whatever crashes, unless it was glued or
\* the queue is stuck.
EventsFlushed ==
    \A e \in Event : e \in accepted ~> Recorded(e) \/ e \in glued \/ Stuck

\* A hook waits for one append or one flush, never for ever.
HooksEnd == \A h \in Hook : hpc[h] # "idle" ~> hpc[h] = "idle"
=============================================================================
