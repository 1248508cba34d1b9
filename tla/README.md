# mybench: TLA+ models and proofs

mybench commits to AI-agent transcripts and Git commits in a local, hash-chained
ledger and anchors that ledger in public.  What it promises rests on a few files
that several processes write without knowing of each other - a scheduled scan,
scans a user starts, Git's post-commit hook, Claude's lifecycle hooks - any of
which may be killed, and on a machine that may lose power.  This directory models
those files and their writers, and the pure functions that turn what was captured
into evidence; checks them with TLC on small instances; and proves with TLAPS every safety
property that a passing run checks, for every value of the constants.

Paths below are relative to `src/src/mybench/`.

## 1. The system

| Component | State | Operations | Meets |
|---|---|---|---|
| Ledger (A3), `ledger.py` | `ledger.jsonl`, its lock file, its quarantine file | `append_session`, `append_binding`, `append_event`, `append_anchor_receipt`, `verify_chain`, `recover` | everybody who appends: scan, hooks, sweep, anchor |
| Capture scan, `daemon/capture.py` | the scan lock; per scan: `covered`, the nonces it read | `scan_once` (recover, flush the queue, then each transcript: nonces, row, archive), `run` | nonces, ledger, archive, lifecycle queue, agents writing transcripts |
| Nonce store (A2), `nonces.py`, `nonce_generation.py`, `commitments.py` | one JSONL file a session | `append_nonce`, `ensure_durable`, `load_nonces` | capture scan |
| Transcript archive (A9), `archive.py` | one copy a session | `archive_session`, `read_verified_items`, `archive_stats` | capture scan |
| Lifecycle hooks and queue, `hooks/lifecycle.py`, `hooks/provenance.py` | `lifecycle-queue.jsonl`, Claude's settings | `handle_payload`, `enqueue_event`, `flush_queue`, install and uninstall | Claude (calls the handler, kills it after a second), capture scan, ledger |
| Commit binding, `hooks/binding.py` | `.git/hooks/post-commit`, the marker in the worktree, the enrollment record | `run`, `enroll`, `unenroll`, `reconcile` | Git, ledger, command line |
| Anchor, `anchor/` | staged events and proofs, the clone and remote of the log, receipts in the ledger | `cut`, `upgrade`, `publish` | ledger, OpenTimestamps, a Git remote |
| Verification, `verify/` | none | `verify` | the published log |
| Schedule, `scheduler.py` | `schedule.json` under a lock, launchd/systemd units | `enable`, `disable`, `record_run`, `inspect` | command line, the user's service manager |
| Scan health, `scan_health.py` | receipts of the last completed scans | `record_capture_success`, `record_full_success` | capture scan, command line |
| Command line, `cli.py` | none of its own | `init`, `scan`, `capture enable/disable`, `status`, ... | everything above |
| Merkle commitments, `commitment_tree.py` | none | roots, inclusion proofs | capture, anchor, verify |
| Data directory and keys, `paths.py`, `identity.py`; scan configuration, `scan_config.py` | directories, keys, one file | create, check, read, replace | everything |
| Evidence normalizer, `normalizer/`, `normalized_store.py` | corpora and phase artifacts, each a private file | from archive, ledger and Git to a corpus, a repository snapshot, timings; store; resolve pointers | archive, ledger, Git, scorer |
| Scorer, `scorer/`; claims, reports, registry, schemas | topologies and report bundles | pure functions; install | corpora |
| Status view, leak scan: `status.py`, `leakscan.py` | none | read and format; search | everything, publish |

What is hard in it, and what would make each part correct:

- **Ledger.**  Writers serialise on an advisory lock, but a writer may die inside
  its `write`, and a row is visible before it is on disk.  Correct: the chain never
  forks, a row whose append returned is never lost, an event replayed is recorded
  once, a repair loses no fragment and always ends.
- **Capture.**  Nonces, row and archive are three files written one after the other,
  while the transcript grows or is edited.  Correct: no row without its nonces on
  disk, nothing committed changes or is committed twice, the archive holds only
  what was committed, and each line is committed in the end.
- **Lifecycle queue.**  The queue is appended to by hooks that must not block and
  compacted in place by the scan.  Correct: an accepted event is at every moment
  durable somewhere, gets one row, and the generations count compactions.
- **Commit binding.**  The sweep reads what is bound once and takes no lock, while
  hooks bind and `HEAD` moves; the enrollment point may be set by two processes.
  Correct: the first enrollment wins, the sweep keeps to its side of it and leaves
  no commit out.
- **Anchor.**  Staging, receipt, commit and push are separate steps; row ranges must
  join without gaps or overlap, whichever step fails and is retried.
- **Schedule.**  A state file read, changed and written around calls to a service
  manager that fail; a failed `enable` must not leave less than there was.
  Correct: what an `enable` that returned says is so, whatever killed ones left; a
  recorded run is not forgotten; a success is shown only behind a scan's receipt.
- **Scan health.**  Two scans finish out of order: times must not go back.
- **Private files.**  Eight kinds of file or bundle are put in their place by as many
  protocols (`O_EXCL`, link, rename, truncate; with and without lock and syncs), by
  callers that overlap, die, and meet a full disk.  Correct: nobody reads half of one,
  what a call returned stays, callers agree on one key, leftovers refuse nobody.
- **Evidence.**  Adapters see records in every order, with repeated ids, cut-off calls
  and other people's text.  Correct: an adapter never returns what the
  validator of the store and of the consumers refuses - the owner would have no corpus
  at all -, its pointers resolve, episodes
  are what is linked, durations are not negative and coverage is earned, a Merkle root
  binds its leaves, and a repository's pointers survive merges, resets and pruning.

`PROJECT.json` lists each hazard at its line with the properties aimed at it.

## 2. Modules

| Module | Models | Checked by |
|---|---|---|
| `AppendOnlyLedger` | what the ledger promises: rows are appended, and promised up to some point, and a crash takes back only what was not promised | refined by `LedgerStore` |
| `LedgerStore` | `ledger.py` | `MCLedgerStore`, `LedgerStore_proofs` |
| `CaptureScan` | `daemon/capture.py` with `nonces.py` and `archive.py`, over a ledger as promised | `MCCaptureScan`, `CaptureScan_proofs` |
| `LifecycleQueue` | `hooks/lifecycle.py` and `append_event`, over a ledger as promised | `MCLifecycleQueue`, `LifecycleQueue_proofs` |
| `CommitBinding` | `hooks/binding.py`, over a ledger as promised | `MCCommitBinding`, `CommitBinding_proofs` |
| `AnchorLog` | `anchor/` with `append_anchor_receipt`, over a ledger that is only appended to | `MCAnchorLog`, `AnchorLog_proofs` |
| `ScanSchedule` | `scheduler.py`, `scan_health.py`, and of `cli.py` `capture enable`, `capture disable` and `scan` | `MCScanSchedule`, `ScanSchedule_proofs` |
| `FileInstall` | how keys, corpora, phase artifacts, topologies, report bundles and the configuration are put in place | `MCFileInstall`, `FileInstall_proofs` |
| `Corpus` | what both adapters share, and `validate_corpus_artifact` | through `Evidence`, `Evidence_proofs` |
| `ClaudeTranscript`, `CodexTranscript` | `normalizer/claude.py`, `normalizer/codex.py`: one session's records to its corpus, and the resolution of pointers | through `Evidence`, `Evidence_proofs` |
| `Episodes` | the stitching of sessions, outcomes, the loader's lifecycle observation, and what the validator derives again | through `Evidence`, `Evidence_proofs` |
| `SessionTiming` | `normalizer/session_timing.py`, `scorer/agent_hours.py` | through `Evidence`, `Evidence_proofs` |
| `CommitmentTree` | `commitment_tree.py` | through `Evidence`, `Evidence_proofs` |
| `RepoEvidence` | `normalizer/repo_loader.py`, `normalizer/repo.py` | through `Evidence`, `Evidence_proofs` |
| `Evidence` | what feeds these functions: transcripts that grow, sessions, ledger rows, a Git repository people work in | `MCEvidence`, `Evidence_proofs` |

### How a file is modelled

A file is its complete lines, whether an incomplete line follows them, and how
many of them are on disk.  `write` changes what readers see; `fsync` moves the
on-disk mark; an fsync of the directory makes a new file's name durable.  A kill
ends one process between two system calls, or inside a write, which leaves an
incomplete line.  A power loss ends all of them and keeps, of what was not synced,
any prefix.  Locks are `flock`s: the kernel releases them when the holder dies.
Each action is one system call that others can observe, with the computation around
it.

A hash is the history it ends; a commitment is the pair of items and nonces it was
computed from.  Two of them are equal only when these are, which is the collision
resistance the design assumes.

### LedgerStore

`rows`, `tail`, `synced`, `tailSynced` and `linked` are the file, `lock` is
`<ledger>.lock`, `pc`, `op` and `seen` each process's call and the rows it read
(`existing` in the code).  An append is `StartAppend`, `Acquire`
(`_writer_lock`), `ReadTip` (`self.rows()`, and in `append_event` the replay
check) or `Refuse`, `WriteRow`, `FsyncRow`, then `ReturnFirst` - genesis or the
`schema_version` row is written, the row asked for is next - or `ReturnRow`.
`recover()` is `StartRecover`, `Acquire`, `Verify` or `VerifyTorn`, `Quarantine`,
`Truncate`, `TruncateSync`, `RecoverSync`, `RecoverDone`.  `ChainOK` is
`verify_chain`.  `acked` and `fragments` are history variables.
`append_anchor_receipt`, an append with checks of its own, is in `AnchorLog`.  `SpecDiskFull` adds a disk that fills up.

### CaptureScan

Per session: the transcript (`source`), the nonce file (`nonces`, `nSynced`,
`nLinked`, `nTorn`, `nBare`) and the archive (`archive`, `fragment`, `aSynced`).  A scan
(`Begin`, `Recover`, `ReadCovered`, then for each session `TakeUp`, `CaptureFile`,
`WriteNonce` and `SyncNonce` for each new item, `EnsureDurable`, `WriteRow`,
`WriteArchive`, `SyncArchive`, and `EndScan`) follows `_scan_once_locked`,
`_capture_file` and `_archive_file`.  `RowRefused` and `SkipFile` are the errors
after which the file waits for the next scan.  The transcript grows (`Grow`) and is
edited or cut (`Rewrite`) at any time.  `historical` scans differ in the
provenance of their rows only, which `LedgerStore` has.

`load_nonces` reads the nonce file line by line.  Part of a row at its end (`nTorn`) makes
it raise.  A row that lost only its newline (`nBare`) parses: the next scan takes it for a
nonce, commits a ledger row on it and appends the next nonce, which glues to it.  From then
on the file is unreadable (`NoncesReadable`), within one scan (`NonceRefused`) or for
every later one.

### LifecycleQueue

The queue is `lines`, `torn`, `disk` and `linked`; a line is an event, or `Bad`, such as
an incomplete line and the one written after it make, or `Refused`, an event with a trigger
that the ledger's schema does not have for its kind.  No hook writes that one.  But the
flush writes an incomplete tail over the file's beginning before it cuts the rest off, and
records have their keys in one order and are almost equally long: a kill in between, or a
power loss, leaves a line made of two, which may be `Bad`, `Refused`, or an event that no
hook enqueued (`Overlaid`).  A hook is `StartHook`,
`LockQueue`, `WriteLine`, `SyncLine`, `Enqueued`; the scan's flush is `Recover`,
`ReadQueue`, then for each line `Reject`, `ReadRows`, `AppendEvent` and
`EventAppended`, and `WriteTail`, `TruncateQueue`, `SyncQueue`.  `gen` is the
context generation computed from rows read before the ledger's lock is taken.
`KillHook` is also the handler's one-second timeout.

### CommitBinding

History is linear: a commit is the sequence of changes it ends, its ancestors are
its prefixes, an amended commit is another sequence.  `hookFile`, `marker` and
`record` are the three files of an enrollment; `record` is the enroller's name
between `os.open(O_EXCL)` and `json.dump`, and for ever if it is killed in between.
`CommitHere` runs the hook (`HookRead`, `HookAppend`); `CommitElsewhere` is a pull,
merge or rebase.  `reconcile()` is `StartSweep`, `ReadRange`, `ReadBound`,
`SweepAppend` for each commit, `SweepReturns`, in its live and historical modes;
`enroll()` is `InstallHook`, `TouchMarker`, `DerivePoint`, `CreateRecord`,
`FillRecord`; `unenroll()` is `PlanRemoval` and three unlinks, any of which may be its
last.  The module takes one repository with one worktree; a checkout that adds or removes a tracked marker is
not modelled, nor is `dry_run`, which changes nothing.

### AnchorLog

Five trees, functions from paths to files: `staged` is `<data>/anchors`, `work`,
`index` and `head` are the clone (`<data>/anchors-repo`), `remote` is the log.  A
path is a day and whether it is the event or its proof.  An event is the range of
rows it covers; a proof is the root it stamps, which is the set of session rows in
the range, and how many calendars' Bitcoin attestations it has.  `cut()` is `Cut`
(existing events are read, the batch built), `Stamp` or `NoCalendar`, `StageEvent`,
`StageProof`, `AppendReceipt`; `upgrade_batch_proof()` is `UpgradeRead`,
`UpgradeCompare`, `UpgradeOpen` (`O_TRUNC`), `UpgradeWrite`; `publish()` is
`PublishGate`, `SyncClone`, then `PublishEvent` (the checks), `CopyEvent` (the staged file
is read again and copied) and `Commit` for each event, then `PublishProof`, `CopyProof`,
`Commit` and `UnlinkStaged` for each proof, and `Push`.
Kills, a failing `git commit`, an unreachable remote and commits of other identities
are actions.  Any number of cuts may run; `overlapped` is history, true once two did, and
`rewritten`, true once a cut wrote its event where one was staged already.
Taken as one step: writing a whole file, unless its writer is killed
or it is an upgrade's; but publish may find the file empty that a cut is about to write
again (`Found`).  Left out: identity records, signatures, the patterns the
leak gate looks for, the migration from the flat layout, and power losses (nothing
under `anchor/` is synced, so that a power loss may take any of it; the ledger's
receipt is then left without its event).

### ScanSchedule

`state` is `schedule.json`, `files` the unit files and the plist, `job` what the service
manager runs each day, `health` is `scan_health.json`.  A command is `Begin`, then for
`disable` `Preflight`, `Load` (the state, read without the lock, and the checks on the
files), `Unregister` and `RemoveFile`s of a schedule to take down, `WriteFile`s,
`Register` or `RegisterFails`, `Store`, `Enroll` or the disable that follows when that
fails, and `ClearState`; `WriteFails`, `Undo` and `UndoFile` are the exception handler of
`enable`.  A scan is `StartScan`, `ScanEnds`, `RecordHealth` (locked read, merge and
replace) and, if the manager started it, `RecordRun`.  `Inspect` is what `status` shows
of it.  Exit codes are success or failure, times are numbers; the state's lock covers one
store, which is one step.  A state file may come from a machine with the other
backend.  `solo` is history: no other command ran and nothing outside changed.

### FileInstall

`kind` chooses one of eight protocols.  `file` is what a reader sees under the name,
`after` every content a power loss may leave there: an entry that was created or renamed
adds to it, an fsync of the file takes the incomplete one out, one of the directory all
but the present one.  `temp` is the corpus store's temporary name, `pub` a key's public
half, `lock` the directory's flock.  Actions are system calls: `Lock`, `Recover`,
`LookAbsent`/`LookKey`/`LookExisting`, `Create` (`O_EXCL`), `Write`, `Fsync`,
`TruncatePub`, `WritePub`, `Stage`, `CreateTemp`, `WriteTemp`, `Install` (rename, link or
replace), `DirSync`, `UnlinkTemp`; `WriteFails` is a full disk, modelled for the files
that are written in place.

### Evidence and the pure functions

The normalizer reads and returns; what changes is what it reads.  `Evidence` therefore
has one stream of input per function (`stream`), which grows record by record, row by
row, or - for a repository - by what people do with Git: `Commit`, `Merge`, `Switch`,
`Reset`, `Prune`, `Enroll`, with `Capture`s of snapshots in between whose pointers are
resolved later.  The functions are operators of `ClaudeTranscript`, `CodexTranscript`,
`Episodes`, `SessionTiming`, `CommitmentTree` and `RepoEvidence`.  Reference definitions
stand beside them: `EpisodesAreComponents` says what an episode is without walking
parents, `RootBinds` and `ProofsAreSound` what a root means without building one,
`Introduced` which blobs a commit brought in, and `Remoded` which ones of a parent's it
gave another mode, without Git's diff, `CompleteIsEarned` when a session is fully dated.  Text is `plain`, `paste` (with the marker the adapter looks for),
`empty` or no string at all: that is what the adapters tell apart.  Hashes are terms.

## 3. Runs

| Run | Instance | Shows |
|---|---|---|
| `ledger_store` | a scan and a hook, one key, 3 appends, 2 crashes; 137 008 states | chain, acknowledged rows, events once, fragments, refinement of `AppendOnlyLedger`; torn tails are repaired and calls end |
| `ledger_short_write` | the same, 2 appends, no crash, a disk that fills up | *violation*: an acknowledged row is lost |
| `capture` | two overlapping scans, one session, 3 items of 2 values, of which agents add one, 1 rewrite, 2 crashes; 351 808 states | rows backed by durable nonces, history grows, archive is committed, lines are captured |
| `capture_torn_nonce` | one scan, one item, 1 crash | *violation*: a torn nonce row silences a session |
| `lifecycle` | two hooks and the scan, a PreCompact and the SessionStart after it, 3 calls, 2 crashes; 223 375 states | accepted events are kept, recorded once and flushed unless a line the ledger refuses is in the way, generations count, hooks end |
| `binding` | a hook, a sweep, an enroll, 2 commits, 1 kill or unenroll; 220 326 states | a commit is bound again only by who could not see its row; first enrollment wins, provenance, completeness |
| `anchor` | two cuts, an upgrade, publish, two days, 2 rows beside the receipts, 2 attestations, 1 fault; 1 376 183 states | staged events and the clone's join, nothing published changes, pending proofs are not published |
| `anchor_gap` | one cut and publish, 1 fault | *violation*: the public log has a gap |
| `schedule` | two commands and two scans, 2 calls, 2 instants, 2 locations of which a receipt keeps 1, 1 fault; 4 688 753 states | what enable says is so; no success without a receipt; only a race forgets a run; receipts never move back |
| `install` | three callers, 4 calls, 2 kills or full disks, 1 power loss, all eight kinds; 173 625 states | whole or absent, returned means kept, one key, nobody refused; calls end |
| `evidence` | 4 transcript records of 16 (Claude) or 21 (Codex), 3 sessions, 4 ledger rows, 3 dated records, 7 leaves, 3 commits over two paths, two blobs and two modes; 1 513 929 states | corpora are accepted, pointers resolve, episodes are stitched, times are honest, commitments bind, repository evidence holds |
| `evidence_reversed` | the same with 2 records, 3 rows | *violation*: a reversed pair of rows leaves an owner without a corpus |

Why the bounds are enough.

- `ledger_store`: three appends write genesis, a `schema_version` row and a replay, with a
  fourth and fifth row in between; two crashes are a crash and another during its
  repair, and a power loss after a kill left unsynced rows behind.
- `capture`: two items let a session grow after its first row, the third is the nonce that
  glues to a row without a newline on which a row was committed, and one rewrite touches
  committed or uncommitted ones.  That agents add lines of one content (`Fresh`) loses
  nothing: a rewrite makes any other.
- `lifecycle`: three calls and two events replay an event and put two in one batch.
- `binding`: two commits give a window of two, of which a sweep can bind one, and an
  amended commit; the one enroller enrolls again after `HEAD` moved.  That several enrolls,
  hooks and sweeps change nothing is proved.
- `anchor`: two days, cut in either order, are two events that must join; a second
  attestation changes a proof after it was published.  Two cuts overlap, on one day or on
  two.  The constraint `OverlapBound` explores overlapping cuts without faults and upgrades,
  and these with cuts that take turns; the proofs have all of them at once, with any number
  of cuts.
- `schedule`: two calls are a command that died, failed or raced and the one after or
  beside it; two scans and two instants read the clock in one order and write in the other;
  two locations for one place make a receipt drop one.
- `install`: three callers are one that died, one that comes meanwhile, one that comes
  later; two kills are one during the recovery from the other.
- `evidence`: four records hold a call, its result, a repeat and another's record; three
  sessions are the shortest cycle with an inferred link and two recorded ones; 7 leaves
  are every shape of tree up to three levels, odd levels included; three commits make a
  merge, which a reset and a prune then take away.

Every counter a bound caps (`started`, `crashes`, `rewrites`, `calls`, `made`, `kills`,
`unenrolls`, `faults`, `losses`, `now`) counts things the environment does, never steps of
the program.  `schedule` is symmetric in commands and scans, `anchor` in cuts, `evidence` in
paths (both have one class); none of them has liveness.  The deadlock check is off in
`MCLedgerStore`, `MCCommitBinding`, `MCAnchorLog`, `MCScanSchedule`, `MCFileInstall` and
`MCEvidence`: when the environment has used up its bounds there may be nothing left to
do (a ledger without a scanner at work; a repository nobody enrolls; both days cut
and published; every command ended; every call returned; no record left to read).

`TypeOK` is a property of a run in `LedgerStore` only.  Those of `CommitBinding`,
`FileInstall`, `ScanSchedule`, `CaptureScan` and `LifecycleQueue` are proved, as the first
part of the inductive invariants; for `AnchorLog` the shapes of the trees are proved with
`Sound`.

### Fairness

- A process that has begun a call goes on with it (`WF` on its steps): the operating
  system schedules it.  No fairness is assumed of kills, power losses, agents, Git or
  users.
- A waiter for an flock that is released again and again gets it (`SF` on `Acquire`,
  `LockQueue`, `ReadQueue`).  The kernel queues waiters.  `FileInstall` needs `WF` only: its
  calls are finitely many, so that the lock stays free in the end.
- The scheduler keeps starting scans (`StartRecover`, `Begin`, `StartScan`,
  `StartSweep` in live mode): `scheduler.py` installs a periodic timer.  In
  `CommitBinding` the sweeps of the scan and of users share a slot, so this is `SF`.

### Findings

1. `ledger.py:287`: `_append_row` ignores what `os.write` returns
   (`ledger_short_write`).  On a full disk part of a row is written, synced and
   returned as appended.
2. `nonces.py:126`: a crash that tears a nonce row makes the file unreadable for
   ever, so that the session is never committed, against the comment at
   `daemon/capture.py:331` (`capture_torn_nonce`).
3. `anchor/publish.py:223`: a file that publish wrote to the clone before it died
   counts as published for every later call, so that the events after it, and its own
   proof, go out without it, against the docstring's "continuity enforced at publish
   time" (`anchor_gap`).
4. `normalizer/claude.py:399`: a `session_end` row before its `session_start` makes
   `_check_input_sessions` raise, and the owner gets no corpus of any session, where
   `docs/episode-outcome-closure.md:41` has the outcome "unknown" (`evidence_reversed`).

`LinesCaptured`, `RebindOnlyUnseen`, `CloneJoins` and `CorpusAccepted` say what holds beside
these.

### Behaviours the models reach and no run reports

Read off the models, against no promise of the documents or beside a property that
leaves them out:

- *Binding.*  A hook and a sweep that overlap bind a commit twice (`hooks/binding.py:484`
  reads what is bound once, the hook asks nobody), although the module's docstring
  says "exactly one binding row"; `RebindOnlyUnseen` bounds who may.  An enroll killed
  between creating and writing its record leaves an empty one: later enrolls raise and
  no sweep runs.
- *Capture.*  A nonce row that lost only its newline is used like any other, and the next
  one glues to it (`nonces.py:86`): the file cannot be loaded any more, although ledger rows
  commit its nonces.  Their bytes are still there (`RowsBackedOnDisk`); no later line of the
  session is captured (`LinesCaptured` leaves it out).
- *Lifecycle.*  After a short write (`hooks/lifecycle.py:198`) the next event is appended
  to an incomplete line and the flush drops both (`hooks/lifecycle.py:364`);
  `AcceptedKept` leaves such an event out.  A compaction that dies between
  `hooks/lifecycle.py:408` and `:409` may leave a line made of two records: an event that
  nobody enqueued, which gets a row, or one the ledger's schema refuses, on which every
  later flush raises, so that nothing queued is flushed any more (`Stuck`, which
  `EventsFlushed` leaves out; the scan itself goes on, and what was accepted stays in the
  queue).
- *Anchor.*  Two cuts at one time may stage overlapping events of two days; publish keeps
  all but one of them out of the clone, and `CloneStaysJoined` proves it for any number.
  Two cuts of one day may both find it free (`anchor/event.py:124`), and the second writes
  its event over the first.  If that happens between publish's continuity check
  (`anchor/publish.py:227`) and its copy (`:235`), or the copy finds the file empty, the
  clone gets an event that was not checked; `CloneJoins` leaves such runs out
  (`rewritten`).  An event
  torn by a killed cut stops every later cut and publish; one whose cut was killed before
  its proof is never proved; an upgrade that truncates a proof between publish's two reads
  has an empty proof published; a push that failed is repeated only by a call that has
  something new to commit.
- *Schedule.*  An enable killed between the registration and the store leaves a job that
  runs, perhaps with `--archive`, of which the state knows nothing: `status` then shows
  `invalid`, or `manual`, and `record_run` refuses the job's results.  Two enables that
  were killed or raced may leave a job with another consent than the state's.
  `_unregister` looks at no answer.  `EnableDecides` says that the next enable that runs
  alone puts all of it right.
- *Private files.*  Keys are never synced.  A kill after `O_EXCL` leaves an empty key,
  topology or phase artifact, which every later call refuses; an empty signing key is
  returned as if it were one, and its public half is never derived again.  A report or
  phase artifact that is there is returned without a sync of its directory; a topology's
  entry is never synced.
- *Repository evidence.*  A commit of the subject that only changes the mode of another's
  file makes that file's blob a target (`normalizer/repo_loader.py:342`), with a pointer to
  it; `RepoEvidenceHolds` allows these (`Remoded`) and no others.  A `HEAD` that is not born
  yet is named by its zero id, which is taken out of the reflog only
  (`normalizer/repo_loader.py:458`): `git show` fails, and the whole capture is
  refused.  Clones are complete in the model.  In a shallow one the boundary
  commit passes for a root, with all of its tree as its own; pointers captured there
  are refused after a `fetch --unshallow`.

## 4. Proofs

Eight modules of theorems, each `THEOREM Spec => ...` for any set of processes and any
value of the bounds:

| Module | Theorem | States |
|---|---|---|
| `LedgerStore_proofs` | `TypeCorrect`, `ChainNeverForks`, `AcknowledgedRowsSurvive`, `ReplaysRecordedOnce`, `NoFragmentLost` | `[]TypeOK`, `[]ChainIntact`, `[]AckedKept`, `[]EventOnce`, `[]FragmentsKept` |
| | `Refinement` | `ImplementsLedger`, the abstract ledger |
| `CaptureScan_proofs` | `RowsBacked`, `HistoryGrows`, `ArchiveCommitted` | `[]RowsBackedOnDisk`, `[]HistoryOnlyGrows`, `[]ArchiveIsCommitted` |
| | `OneScan`, `TypeCorrect` | one scan at a time is past its start; `[]TypeOK` |
| `LifecycleQueue_proofs` | `OneRow`, `GenerationsHold`, `NothingAcceptedIsLost` | `[]RecordedOnce`, `[]GenerationsCount`, `[]AcceptedKept` |
| | `FileExclusive`, `TypeCorrect` | a hook that writes has the file for itself; `[]TypeOK` |
| `CommitBinding_proofs` | `EnrollmentFixed`, `NoBlindRebind`, `SidesKept` | `EnrollmentPointFixed`, `[]RebindOnlyUnseen`, `[]ImportedIsBeforeEnrollment` |
| | `TypeCorrect` | `[]TypeOK` |
| `AnchorLog_proofs` | `CloneStaysJoined`, `CutsStayJoined` | `[]CloneJoins`, `[]CutsJoin` |
| | `PublishedStays`, `PublicProofsBind` | `PublishedOnce`, `[]PendingNeverPublished` |
| | `OneReceipt` | `[]ReceiptOnce`: a range of rows gets one receipt |
| `FileInstall_proofs` | `NeverHalf`, `ReturnsHold`, `KeysAgree`, `LeftoversAccepted` | `[]WholeOrAbsent`, `[]ReturnedKept`, `[]OneKey`, `[]NeverRefused` |
| | `InvAlways` | the inductive invariant, `TypeOK` with it |
| `ScanSchedule_proofs` | `ReceiptFirst`, `LostOnlyByRace` | `[]SuccessHasReceipt`, `RunsForgottenOnlyByRace` |
| | `EnableIsDecisive`, `CompletionsOnlyAdvance` | `[]EnableDecides`, `HealthForward` |
| | `AlwaysLoads` | `[]TypeOK`: the state file passes its own validation whatever came before |
| `Evidence_proofs` | `RepositoryEvidence`, `TimesAreHonest` | `[]RepoEvidenceHolds`, `[]TimesHonest` |
| | `EpisodesAreStitched`, `CommitmentsBind` | `[]EpisodesStitched`, `[]CommitmentBinds` |
| | `CorporaAccepted`, `PointersFollow` | `[]CorpusAccepted`, `[]PointersResolve` |
| | `AnyClaudeCorpus`, `AnyCodexCorpus` | what these two say, of any sequence of records, for each adapter |
| | `AnySessionsStitched` | what `EpisodesStitched` says, of any finite set of sessions |
| | `AnySessionTiming` | what `TimesHonest` says, of any session whatever |
| | `RootDeterminesLeaves`, `RootsDiffer`, `OnlyMembersHaveProofs` | two lists of leaves with one root are one list; what `CommitmentBinds` says, of any list |

Assumptions, each named in the module that declares the constant and evaluated by the
module's run: `Scanner` is a subset of `Proc`; hooks are not sweeps; names that
stand for nobody, no key, no row, no session, no record or no file are none of the values
they stand beside; a refused line is neither an event nor a bad one, and the lines that
agents add are lines; bounds are natural numbers, `MaxTime` a positive one; dates are a set of
naturals that is not empty; locations are a finite set of naturals; `Kinds` are of the
eight; a repository has finitely many paths; `None` is no number and no count of changed
paths; no set of session ids, which is what an episode's id is here, is `None`; session
shapes and dated records have the fields that the order of sessions and the timing code
read, with values of their types; the lines of a transcript are the subject's or of unknown
authorship, have a sequence of blocks, and a generation that is a number where there is one;
`None` is no text, no place and no relation.

None of the properties is inductive; each proof finds what the code relies on.  Each
step lemma has a step for each action, or for each way actions change the state.

**LedgerStore.**  `ChainIntact` holds after `WriteRow` because
the row was computed from `seen`, and `seen` is still the file - which is not in
`ChainIntact`.  `IInv` adds three parts.  `LockInv`: a process is past `Acquire` and
before its release exactly when `lock` says so, hence at most one is (`OneHolder`).
`ViewInv`: for each process, what its place in the call implies - before its write
`seen = rows`, no fragment, and an event not recorded; after it, the rows are `seen`
and its own row; at the directory fsync, everything is on disk.  `DiskInv`: what was
acknowledged is a prefix of the rows and is synced, under a durable name.

`FragInv`, for `NoFragmentLost`: until a power loss there were as many fragments as were
quarantined, and one more if the file ends in one; when a repair is about to truncate,
all of them are in the quarantine.

The proof has four step lemmas (`StepType`, `StepLock`, `StepView`, `StepChain` with
`StepDisk`), each with a step for each action.  `BystanderView` takes care of the
processes that do not move: they are outside the lock, where `View` says nothing of
the file.  `StepKinds` sorts all actions into those that leave the rows alone,
those that promise, `WriteRow` and `PowerLoss`, so that `StepDisk`, `StepChain` and
`Refinement` have four cases.  On the data side, `ChainExtended` and
`OnceExtended` say what a row `NextRow` computed does to a valid chain, and
`ChainPrefix` and `OncePrefix` what a power loss does.

**CaptureScan.**  `RowsBacked` is about bytes on disk; that `load_nonces` also accepts the
file has the two exceptions of the property, which the code has.  The scan lock makes scans take turns (`LockInv`), which is what the row
relies on: `KnowsRows` says that what a scan has in `covered` is the session's widest row,
so that an item list that extends it extends every row (`Continues`).  `OnDisk` says that a
row is only written when there is a synced nonce for each item.  A power loss then keeps
that many, because nonces and rows are lost from the end and a row has at least one item
(`StoreInv`).  `ArchiveKept` is stronger than `ArchiveIsCommitted`: the archive is witnessed
by a row that is already promised, which no power loss takes away.

**LifecycleQueue.**  `LockInv` is the exclusion of hooks and flush.  `BatchInv` places the
flush: the lines it still has to do are the end of the file, those before them are done -
unreadable, or in a promised row - and the file is only cut when all are.  `Safe` says of
an accepted event where it is: in a promised row, or on disk, where what is on disk is a
beginning of the file; the compaction in place keeps this because every line is done by
then.  `gen` is right when the row is written, though it was
computed before the lock: only the flush writes such rows, so that what it counted still
holds.

**CommitBinding.**  `RebindOnlyUnseen` speaks of rows; a step of a sweep keeps it because
of what the sweep has read (`SeenInv`): whatever it still has to bind is in none of the
first `bound[s]` rows and in no row of its own.  `SideInv` says that until the first
`unenroll` a running sweep's point is the record's and its window on one side of it, which
needs that nobody is removing anything and that the record is a point while a sweep
runs.  It is about the rows of sweeps: a hook takes no notice of the point, and may bind
`HEAD` between `TouchMarker` and `DerivePoint`, so that its row stands for a commit
at or before it.  `EnrollmentFixed` rests on `RecordFixed`: only three steps write the record, and
two of them never find a point there.

**AnchorLog.**  `Sound` has the shapes of the trees and `Extent`: what is staged, cloned
or about to be staged covers at least one row and only rows the ledger has - without it
two events could share a start.  For the clone, `CloneInv` says, until a cut writes over
a staged event, that what publish has checked and is about to copy is still what is staged
and starts where the clone's last event ends, and that an event it has copied and not
committed is the clone's last, so that a copy cut short takes no other's predecessor
away.  For the staging tree, `CutInv` says that, while cuts take
turns, what the clone has is staged, the cut at work starts where the staged events end,
and its day is free when it comes to write.  `LogInv`: what is remote was committed, what
is committed was staged in the clone's index, what is there was copied to its working
tree, each with the same contents, and no step copies to a path that is there - hence
`PublishedStays`.  `BindInv`, while cuts take turns: a proof in the staging or the working
tree, unless it is cut short, stamps the event beside it; an upgrade at work is about to
write a proof with an attestation, of the event that is staged; a cut stages a proof only
where none is and no upgrade writes one.  So what publish reads the second time, when it
copies, is cut short or still has an attestation.

**FileInstall.**  `Fits` relates where a call is to what it will find: who created a file in
place finds it incomplete, who wrote it finds it complete, and there is one writer at a
time; `Comes` says which protocols come to which label.  Most steps leave the file as it
is and are cases of `Calm`; those that change it are cases of `Change`.

**ScanSchedule.**  `Backed` extends `SuccessHasReceipt` to what commands have read and
may write back (a race may restore an old state, never one without receipt) and to
scans about to record; `Loaded` says that what was read passed the validation, so that
what is stored does (`KeptFacts`, `NewResult`); `Placed` keeps a timer from being taken
for a job.  `LostOnlyByRace` compares each step that stores a state with the one before it.
`EnableIsDecisive` needs `AloneInv`: the files of the other backend are gone unless the
state is that backend's, and who goes on to install has removed them (`OthersGone`,
`Removing`); for a command that ran alone, the files, the job and the state are those its
place in the code implies (`Enabling`, `Settled`), and an enable that could not enroll is
on its way back to none (`Retreating`).
`CompletionsOnlyAdvance` ranks locations by recency and location: a receipt keeps the best
`MaxLocations` of them, so that a location is dropped only for as many better ones.

**Evidence.**  `RepoInv`: a commit's parents are older than it, what is named is there, and
the pointers of the last capture name commits of the subject and what those brought in or
gave another mode.  Commits are
only ever appended, so that what a pointer's commit changed against its first parent never
changes; what a prune takes away makes a pointer missing, not refused.  That a commit's
ancestors are no younger bounds the closure that `Git!Candidates` computes.

The timing theorem counts: each pair of neighbouring instants less than the idle gap apart
is an interval of its own within the session, so that the sum is at most the wall clock.

For the episodes, `ReachedLeast` replaces the walk along recorded parents by what it
computes: the least set that holds its start and that no edge leaves - either a round of
the walk adds an edge's end or the set is closed already, and there are no more rounds than
edges.  Then an inferred link to what does not lead back closes no cycle (`NoCycleClosed`),
and `LinksOk` is kept by each session that looks for its predecessor: at most one inferred
link to each child, so that the manifest, which has room for one, gives all of them back
(`LinksComeBack`).  `JoinedOk` is the invariant of the union-find: roots are one across
each edge joined so far, and only within what no partition along those edges separates;
when all are joined, one root is one component (`RootIsTogether`).  Nothing is assumed of
how many sessions there are, nor of the parents that they name.

For the tree, `RootsBind` splits equal roots until they are leaves, `SameRoot` says that a
part of a list has the root it would have as a list, and `PathLeads` that a path takes its leaf
up to the root; since no step of a path maps two hashes to one (`FoldBinds`), it takes
nothing else there.  Hashes are terms in this: the theorems are about how `commitment_tree.py`
uses SHA-256, not about SHA-256.

For a corpus, `CorpusInv` is what holds after each record, and gives the validator's rules
once the outcomes are joined (`CorpusDone`): events have the shape and the order asked for
(`Shaped`, `Placed`), a linked result has its call before it and a forge action stands right
after its call (`Bound`), generations increase up to the last one seen (`Dated`), and the
coverage counts at least what the validator counts again in the events (`Balanced`,
`Parses`).  The rule about results is about neighbours that may be far apart; it is kept
because `positions`, the adapter's table of call ids, only ever says where a call is
(`Located`), of an earlier record or of the record under way.  Inside a record `Taking` says
the same of the partial events so far, and is kept by each block (`TakingMore`,
`TakingStays`, `TakingCall`), for both adapters; what differs between them is which blocks
come to which of these.  `V` is the set of kinds and places that the resolver follows to
something: whoever emits a pointer has just looked at the block it leads to, so that every
pointer is in it.  A record is taken after all before it: `ClaudeKnown`, `CodexKnown`.

Several of these functions are recursive.  The induction theorems of the library cannot be
instantiated here, as they take an operator; a smallest counterexample does the same for a
given definition (`Smallest`): first that the recursion has a solution (`GrownExists`,
`SummedExists`, `MetExists`, `LinkingExists`, `JoiningExists`, `RootsExist`, `PathsExist`,
`FoldExists`, and `ClaudeRecordsExists`, `ClaudeBlocksExists`, `CodexRecordsExists` and
`CodexBlocksExists` for the adapters), then what the solution is.

Only model-checked is liveness (`TornRepaired`, `CallsEnd`, `LinesCaptured`,
`EventsFlushed`, `HooksEnd`, `CommitsBound`), which is out of the prover's reach, as is
`ENABLED`; and the four violations, each a behaviour that TLC exhibits.

## 5. Not modelled

`PROJECT.json` gives the reason for each component.

- Verification and leak scan read only: signatures and block headers are cryptography,
  the leak scan a search for byte patterns.  `Joined` in `AnchorLog` is the part of
  `verify` that asks for ranges without gaps.
- Of the normalizer: the reference join, the workflow phase classifier, canonical encoding,
  the contract's report; shallow clones.  Of the scorer: all but agent hours.  They
  are sums and tables over a corpus.
- Permissions, ownership and symbolic-link checks, formatting, JSON schemas, the rendering of
  unit files, previews and dry runs, which change nothing.
- Of the anchor: identity records, the migration from the flat layout, power losses.
- Of the hooks: how handlers are written into Claude's settings and into an existing
  `post-commit` file.
- A disk that fills up while a corpus is staged.

## 6. Plan

What is left, in the order of its value:

1. Shallow clones in `RepoEvidence`, whose boundary commits pass for roots.
2. The phase classifier, and the installation of hooks into files the user already has.
3. Identity records and the migration from the flat layout in `AnchorLog`.
