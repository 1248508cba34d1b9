------------------------------ MODULE CommitBinding ------------------------------
(***************************************************************************)
(* hooks/binding.py: one repository's commits are bound to the ledger by   *)
(* the post-commit hook and, for those it missed, by reconcile(), which    *)
(* any scan or a user may run, beside hooks and other sweeps and under no  *)
(* lock.  Enrollment is three files: the hook, the marker in the worktree  *)
(* and the enrollment record with the point from which commits are live.   *)
(*                                                                         *)
(* History is linear and a commit is the sequence of changes it ends, so   *)
(* that its ancestors are its prefixes and a rewritten commit is another.  *)
(* The ledger is used as AppendOnlyLedger promises; of its rows only the   *)
(* binding rows of this repository are kept here.                          *)
(***************************************************************************)
EXTENDS Naturals, Sequences

CONSTANTS
    Hook,         \* post-commit hooks that may run at one time
    Sweep,        \* processes that run reconcile()
    Enroller,     \* processes that run enroll()
    NoRecord,     \* no enrollment record
    MaxCommits,   \* bound: commits made
    MaxFaults     \* bound: processes killed and unenroll() calls, together

VARIABLES
    head,       \* HEAD
    made,       \* commits made
    hookFile,   \* post-commit is installed
    marker,     \* .mybench/commit-binding-enabled is there
    record,     \* the enrollment record: its point, NoRecord, or the enroll()
                \* that has created it and not written it yet, or never will
    rows,       \* binding rows of the ledger
    torn,       \* the ledger's last line is torn
    hpc, commit,             \* each hook: where it is, the commit it read
    spc, historical, point,  \* each sweep: where it is, its mode, the record it read,
    todo, bound,             \*   its window, and how many rows it saw
    epc, stamp,              \* each enroll: where it is, the point it derived
    plan,       \* unenroll(): what it found and has still to remove
    kills,      \* processes killed
    unenrolls   \* unenroll() calls

enrollment == <<hookFile, marker, record>>
git == <<head, made>>
ledger == <<rows, torn>>
hooks == <<hpc, commit>>
sweeps == <<spc, historical, point, todo, bound>>
enrolls == <<epc, stamp>>
owner == <<plan, unenrolls>>
vars == <<git, enrollment, ledger, hooks, sweeps, enrolls, owner, kills>>

-----------------------------------------------------------------------------
(* Commits; <<>> is the enroll_commit "" of a repository with no history.  *)

Commit ==
    {c \in UNION {[1..n -> 1..MaxCommits] : n \in 1..MaxCommits} :
        \A i, j \in DOMAIN c : i < j => c[i] < c[j]}
Point == Commit \cup {<<>>}

ASSUME BoundAssumption == MaxCommits \in Nat /\ MaxFaults \in Nat
ASSUME NameAssumption ==
    /\ Hook \cap Sweep = {}
    /\ NoRecord \notin Point \cup Enroller /\ Enroller \cap Point = {}

Ancestor(c, d) == Len(c) <= Len(d) /\ c = SubSeq(d, 1, Len(c))

Reachable(d) == {SubSeq(d, 1, n) : n \in 1..Len(d)}

WindowOfAll(h, past, e) == IF past THEN Reachable(e) ELSE Reachable(h)

\* git rev-list e..HEAD, or git rev-list e for the historical mode.
Window(h, past, e) == IF past THEN Reachable(e) ELSE {c \in Reachable(h) : ~Ancestor(c, e)}

Provenance == {"live", "IMPORTED"}

\* A binding row; by and saw, which say who appended it and how many rows it
\* had read before, are there for the properties only.
Row == [commit : Commit, provenance : Provenance, by : Hook \cup Sweep, saw : Nat]

Bound(c) == \E n \in 1..Len(rows) : rows[n].commit = c

-----------------------------------------------------------------------------
Init ==
    /\ head = <<>> /\ made = 0
    /\ hookFile = FALSE /\ marker = FALSE /\ record = NoRecord
    /\ rows = <<>> /\ torn = FALSE
    /\ hpc = [h \in Hook |-> "idle"] /\ commit = [h \in Hook |-> <<>>]
    /\ spc = [s \in Sweep |-> "idle"] /\ historical = [s \in Sweep |-> FALSE]
    /\ point = [s \in Sweep |-> <<>>] /\ todo = [s \in Sweep |-> {}]
    /\ bound = [s \in Sweep |-> 0]
    /\ epc = [e \in Enroller |-> "idle"] /\ stamp = [e \in Enroller |-> <<>>]
    /\ plan = {} /\ kills = 0 /\ unenrolls = 0

-----------------------------------------------------------------------------
(* Git.                                                                    *)

\* git commit, or git commit --amend, runs the post-commit hook.
CommitHere(h) ==
    /\ made < MaxCommits /\ hpc[h] = "idle"
    /\ made' = made + 1
    /\ \/ head' = Append(head, made + 1)
       \/ /\ head # <<>>
          /\ head' = [head EXCEPT ![Len(head)] = made + 1]
    /\ hpc' = [hpc EXCEPT ![h] = IF hookFile THEN "read" ELSE "idle"]
    /\ UNCHANGED <<enrollment, ledger, commit, sweeps, enrolls, owner, kills>>

\* A pull, merge or rebase moves HEAD and runs no post-commit hook.
CommitElsewhere ==
    /\ made < MaxCommits
    /\ made' = made + 1
    /\ \E n \in 0..Len(head) : head' = Append(SubSeq(head, 1, n), made + 1)
    /\ UNCHANGED <<enrollment, ledger, hooks, sweeps, enrolls, owner, kills>>

-----------------------------------------------------------------------------
(* run(), the post-commit entry point.                                     *)

HookEnds(h) ==
    /\ hpc' = [hpc EXCEPT ![h] = "idle"]
    /\ commit' = [commit EXCEPT ![h] = <<>>]

\* The marker, then HEAD, which may have moved since the commit.
HookRead(h) ==
    /\ hpc[h] = "read"
    /\ IF marker
       THEN /\ commit' = [commit EXCEPT ![h] = head]
            /\ hpc' = [hpc EXCEPT ![h] = "append"]
       ELSE HookEnds(h)
    /\ UNCHANGED <<git, enrollment, ledger, sweeps, enrolls, owner, kills>>

\* append_binding, which asks nobody whether the commit is bound; an error,
\* such as a torn ledger, is logged and the commit left to the sweep.
HookAppend(h) ==
    /\ hpc[h] = "append"
    /\ rows' = IF torn THEN rows
               ELSE Append(rows, [commit |-> commit[h], provenance |-> "live",
                                  by |-> h, saw |-> 0])
    /\ HookEnds(h)
    /\ UNCHANGED <<git, enrollment, torn, sweeps, enrolls, owner, kills>>

-----------------------------------------------------------------------------
(* reconcile().                                                            *)

SweepEnds(s) ==
    /\ spc' = [spc EXCEPT ![s] = "idle"]
    /\ historical' = [historical EXCEPT ![s] = FALSE]
    /\ point' = [point EXCEPT ![s] = <<>>]
    /\ todo' = [todo EXCEPT ![s] = {}]
    /\ bound' = [bound EXCEPT ![s] = 0]

\* A scan calls recover() before it sweeps.
Recover ==
    /\ torn /\ torn' = FALSE
    /\ UNCHANGED <<git, enrollment, rows, hooks, sweeps, enrolls, owner, kills>>

\* Without marker or a readable record, or in the historical mode of a
\* repository with no history, nothing happens.
StartSweep(s, past) ==
    /\ spc[s] = "idle"
    /\ marker /\ record \in Point /\ (past => record # <<>>)
    /\ spc' = [spc EXCEPT ![s] = "range"]
    /\ historical' = [historical EXCEPT ![s] = past]
    /\ point' = [point EXCEPT ![s] = record]
    /\ UNCHANGED <<git, enrollment, ledger, hooks, todo, bound, enrolls, owner, kills>>

\* An empty window ends the sweep; so does rev-list when the point was
\* rewritten away and pruned.
ReadRange(s) ==
    /\ spc[s] = "range"
    /\ LET window == Window(head, historical[s], point[s]) IN
       \/ /\ window # {}
          /\ todo' = [todo EXCEPT ![s] = window]
          /\ spc' = [spc EXCEPT ![s] = "bound"]
          /\ UNCHANGED <<historical, point, bound>>
       \/ /\ window = {} \/ ~Ancestor(point[s], head)
          /\ SweepEnds(s)
    /\ UNCHANGED <<git, enrollment, ledger, hooks, enrolls, owner, kills>>

ReadNothing(s) ==
    /\ spc[s] = "bound" /\ ~torn
    /\ bound' = [bound EXCEPT ![s] = Len(rows)]
    /\ spc' = [spc EXCEPT ![s] = "append"]
    /\ UNCHANGED <<git, enrollment, ledger, hooks, historical, point, todo, enrolls, owner, kills>>

ReadDownToBound(s) ==
    /\ spc[s] = "bound" /\ ~torn
    /\ todo' = [todo EXCEPT ![s] = {c \in @ : \A d \in @ : Bound(d) => Len(d) < Len(c)}]
    /\ bound' = [bound EXCEPT ![s] = Len(rows)]
    /\ spc' = [spc EXCEPT ![s] = "append"]
    /\ UNCHANGED <<git, enrollment, ledger, hooks, historical, point, enrolls, owner, kills>>

\* The ledger is read once; commits it has a row for are left out.
ReadBound(s) ==
    /\ spc[s] = "bound"
    /\ IF torn THEN SweepEnds(s)
       ELSE /\ todo' = [todo EXCEPT ![s] = {c \in @ : ~Bound(c)}]
            /\ bound' = [bound EXCEPT ![s] = Len(rows)]
            /\ spc' = [spc EXCEPT ![s] = "append"]
            /\ UNCHANGED <<historical, point>>
    /\ UNCHANGED <<git, enrollment, ledger, hooks, enrolls, owner, kills>>

\* rev-list gives the newest commit first.
SweepAppend(s) ==
    /\ spc[s] = "append" /\ todo[s] # {} /\ ~torn
    /\ LET c == CHOOSE c \in todo[s] : \A d \in todo[s] : Len(d) <= Len(c) IN
       /\ rows' = Append(rows,
              [commit |-> c, by |-> s, saw |-> bound[s],
               provenance |-> IF historical[s] THEN "IMPORTED" ELSE "live"])
       /\ todo' = [todo EXCEPT ![s] = @ \ {c}]
    /\ UNCHANGED <<git, enrollment, torn, hooks, spc, historical, point, bound, enrolls,
                   owner, kills>>

\* Every commit is bound, or append_binding raised: the next sweep goes on.
SweepReturns(s) ==
    /\ spc[s] = "append" /\ (todo[s] = {} \/ torn)
    /\ SweepEnds(s)
    /\ UNCHANGED <<git, enrollment, ledger, hooks, enrolls, owner, kills>>

-----------------------------------------------------------------------------
(* enroll() and unenroll().                                                *)

EnrollGoto(e, label) == epc' = [epc EXCEPT ![e] = label]

EnrollEnds(e) ==
    /\ EnrollGoto(e, "idle")
    /\ stamp' = [stamp EXCEPT ![e] = <<>>]

InstallHook(e) ==
    /\ epc[e] = "idle"
    /\ hookFile' = TRUE
    /\ EnrollGoto(e, "marker")
    /\ UNCHANGED <<git, marker, record, ledger, hooks, sweeps, stamp, owner, kills>>

TouchMarker(e) ==
    /\ epc[e] = "marker"
    /\ marker' = TRUE
    /\ EnrollGoto(e, "look")
    /\ UNCHANGED <<git, hookFile, record, ledger, hooks, sweeps, stamp, owner, kills>>

EnrollAgainMovesPoint(e) ==
    /\ epc[e] = "look"
    /\ \E n \in 0..Len(head) :
        IF record = NoRecord
        THEN /\ stamp' = [stamp EXCEPT ![e] = SubSeq(head, 1, n)]
             /\ EnrollGoto(e, "create")
             /\ UNCHANGED record
        ELSE EnrollEnds(e) /\ record' = SubSeq(head, 1, n)
    /\ UNCHANGED <<git, hookFile, marker, ledger, hooks, sweeps, owner, kills>>

\* An existing record is returned as it is, or refused if it cannot be read
\* or has another point than the one asked for.  Otherwise the point is
\* derived: HEAD, or an ancestor of it (the parent of the commit that added a
\* tracked marker, or what --at names), or "" when there is none.
DerivePoint(e) ==
    /\ epc[e] = "look"
    /\ IF record # NoRecord THEN EnrollEnds(e)
       ELSE /\ \E n \in 0..Len(head) : stamp' = [stamp EXCEPT ![e] = SubSeq(head, 1, n)]
            /\ EnrollGoto(e, "create")
    /\ UNCHANGED <<git, enrollment, ledger, hooks, sweeps, owner, kills>>

\* O_EXCL: somebody else's record makes enroll raise.
CreateRecord(e) ==
    /\ epc[e] = "create"
    /\ IF record # NoRecord THEN EnrollEnds(e) /\ UNCHANGED record
       ELSE /\ record' = e
            /\ EnrollGoto(e, "fill")
            /\ UNCHANGED stamp
    /\ UNCHANGED <<git, hookFile, marker, ledger, hooks, sweeps, owner, kills>>

\* The file it created may have been unlinked meanwhile.
FillRecord(e) ==
    /\ epc[e] = "fill"
    /\ record' = IF record = e THEN stamp[e] ELSE record
    /\ EnrollEnds(e)
    /\ UNCHANGED <<git, hookFile, marker, ledger, hooks, sweeps, owner, kills>>

\* unenroll(): what is there, then an unlink of each.  One that is killed
\* goes no further, and the next call may find it anywhere.
PlanRemoval ==
    /\ kills + unenrolls < MaxFaults
    /\ unenrolls' = unenrolls + 1
    /\ plan' = (IF hookFile THEN {"hook"} ELSE {})
               \cup (IF marker THEN {"marker"} ELSE {})
               \cup (IF record # NoRecord THEN {"record"} ELSE {})
    /\ UNCHANGED <<git, enrollment, ledger, hooks, sweeps, enrolls, kills>>

RemoveHook ==
    /\ "hook" \in plan
    /\ hookFile' = FALSE
    /\ plan' = plan \ {"hook"}
    /\ UNCHANGED <<git, marker, record, ledger, hooks, sweeps, enrolls, unenrolls, kills>>

RemoveMarker ==
    /\ "marker" \in plan /\ "hook" \notin plan
    /\ marker' = FALSE
    /\ plan' = plan \ {"marker"}
    /\ UNCHANGED <<git, hookFile, record, ledger, hooks, sweeps, enrolls, unenrolls, kills>>

RemoveRecord ==
    /\ plan = {"record"}
    /\ record' = NoRecord
    /\ plan' = {}
    /\ UNCHANGED <<git, hookFile, marker, ledger, hooks, sweeps, enrolls, unenrolls, kills>>

-----------------------------------------------------------------------------
(* Kills.                                                                  *)

Killing == kills + unenrolls < MaxFaults /\ kills' = kills + 1

\* A hook, killed before or within its append.
KillHook(h) ==
    /\ Killing /\ hpc[h] # "idle"
    /\ HookEnds(h)
    /\ torn' \in {torn, hpc[h] = "append"}
    /\ UNCHANGED <<git, enrollment, rows, sweeps, enrolls, owner>>

KillSweep(s) ==
    /\ Killing /\ spc[s] # "idle"
    /\ SweepEnds(s)
    /\ torn' \in {torn, spc[s] = "append"}
    /\ UNCHANGED <<git, enrollment, rows, hooks, enrolls, owner>>

KillEnroll(e) ==
    /\ Killing /\ epc[e] # "idle"
    /\ EnrollEnds(e)
    /\ UNCHANGED <<git, enrollment, ledger, hooks, sweeps, owner>>

-----------------------------------------------------------------------------
HookStep(h) == HookRead(h) \/ HookAppend(h)
SweepStep(s) == ReadRange(s) \/ ReadBound(s) \/ SweepAppend(s) \/ SweepReturns(s)
EnrollStep(e) == TouchMarker(e) \/ DerivePoint(e) \/ CreateRecord(e) \/ FillRecord(e)

Next ==
    \/ CommitElsewhere \/ Recover
    \/ \E h \in Hook : CommitHere(h) \/ HookStep(h) \/ KillHook(h)
    \/ \E s \in Sweep : SweepStep(s) \/ KillSweep(s) \/ \E past \in BOOLEAN : StartSweep(s, past)
    \/ \E e \in Enroller : InstallHook(e) \/ EnrollStep(e) \/ KillEnroll(e)
    \/ PlanRemoval \/ RemoveHook \/ RemoveMarker \/ RemoveRecord

Spec == Init /\ [][Next]_vars

\* A running process goes on.  The scheduled scan recovers the ledger and
\* sweeps again and again; the sweeps a user starts, which here take turns
\* with its, do not stop it.
Fairness ==
    /\ WF_vars(Recover)
    /\ \A h \in Hook : WF_vars(HookStep(h))
    /\ \A e \in Enroller : WF_vars(EnrollStep(e))
    /\ \A s \in Sweep : WF_vars(SweepStep(s)) /\ SF_vars(StartSweep(s, FALSE))

FairSpec == Spec /\ Fairness
-----------------------------------------------------------------------------
(* Properties.                                                             *)

\* Every variable has its type.
TypeOK ==
    /\ head \in Point /\ made \in 0..MaxCommits
    /\ hookFile \in BOOLEAN /\ marker \in BOOLEAN
    /\ record \in Point \cup {NoRecord} \cup Enroller
    /\ rows \in Seq(Row) /\ torn \in BOOLEAN
    /\ hpc \in [Hook -> {"idle", "read", "append"}]
    /\ commit \in [Hook -> Point]
    /\ spc \in [Sweep -> {"idle", "range", "bound", "append"}]
    /\ historical \in [Sweep -> BOOLEAN] /\ point \in [Sweep -> Point]
    /\ todo \in [Sweep -> SUBSET Commit] /\ bound \in [Sweep -> Nat]
    /\ epc \in [Enroller -> {"idle", "marker", "look", "create", "fill"}]
    /\ stamp \in [Enroller -> Point]
    /\ plan \in SUBSET {"hook", "marker", "record"}
    /\ kills \in Nat /\ unenrolls \in Nat /\ kills + unenrolls <= MaxFaults

\* A commit is bound a second time only by somebody who could not see the
\* first row: a hook, which does not look, or a sweep that read the ledger
\* before that row was there; a sweep never repeats a row of its own.
\* reconcile() takes no lock, dies between appends and is run again.
RebindOnlyUnseen ==
    \A m, n \in 1..Len(rows) :
        m < n /\ rows[m].commit = rows[n].commit /\ rows[n].by \in Sweep
            => rows[n].saw < m /\ rows[m].by # rows[n].by

\* The sweeps agree with the enrollment point on which side a commit is:
\* what they import ended before it and what they bind as live after it,
\* although HEAD is rewritten and other enrolls run meanwhile.  unenroll
\* and a new enroll move the point and are left out, and so are the rows of
\* hooks: one may bind HEAD after the marker is there and before the point is
\* derived, which is then at or after that commit.
ImportedIsBeforeEnrollment ==
    unenrolls = 0 =>
        \A n \in 1..Len(rows) : rows[n].by \in Sweep =>
            /\ record \in Point
            /\ rows[n].provenance = "IMPORTED" <=> Ancestor(rows[n].commit, record)

\* First enrollment wins: whoever runs enroll() and at whatever HEAD, a
\* point that was recorded never moves; only unenroll() removes it.
EnrollmentPointFixed ==
    [][(record \in Point) =>
           \/ record' = record
           \/ record' = NoRecord /\ plan = {"record"}]_vars

\* A commit the live sweep owes a row to.
Owed(c) ==
    /\ marker /\ record \in Point /\ Ancestor(record, head)
    /\ c \in Window(head, FALSE, record)

\* The sweep guarantees completeness for everything since enrollment: a
\* commit after the point gets its row, whichever hooks were killed, not
\* installed or never run, and wherever earlier sweeps stopped, unless it
\* is rewritten away or the repository unenrolled first.
CommitsBound == \A c \in Commit : Owed(c) ~> (Bound(c) \/ ~Owed(c))
=============================================================================
