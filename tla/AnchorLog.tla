-------------------------------- MODULE AnchorLog --------------------------------
(***************************************************************************)
(* anchor/: rows of the ledger are covered by events, one a day, that are  *)
(* cut into a staging tree, published by way of a Git clone to a remote    *)
(* log, and followed by a proof once Bitcoin has confirmed it.  cut and    *)
(* upgrade may run beside publish; nothing here takes a lock but the       *)
(* receipt's append to the ledger.                                         *)
(*                                                                         *)
(* One identity and one clone are modelled; what other identities push to  *)
(* the log is only that the remote is ahead.  A tree is a function from    *)
(* paths to files.  A proof is the root it stamps, which is the set of     *)
(* session rows covered, and how many calendars' Bitcoin attestations are  *)
(* merged into it.  Identity records, which ride in a commit before the    *)
(* events', and times are left out.                                        *)
(***************************************************************************)
EXTENDS Naturals, Sequences, FiniteSets

CONSTANTS
    Cutter,     \* processes that run cut
    Date,       \* UTC days
    NoFile,     \* nothing at a path
    Torn,       \* a file whose writer was killed, or is still at work
    MaxRows,    \* bound: rows that others append to the ledger
    MaxAtt,     \* bound: attestations a proof can get
    MaxFaults   \* bound: kills, failed Git commands, pushes of others

ASSUME DateAssumption == Date \subseteq Nat /\ Date # {}

VARIABLES
    ledger,      \* the types of the ledger's rows
    receipts,    \* its anchor_receipt rows: the range each names, its index
    staged,      \* the staging tree, <data>/anchors
    work, index, head,  \* the clone: working tree, Git index, committed tree
    remote,      \* the tree of the remote's master, as far as it is ours
    foreign,     \* the remote has commits of others that the clone has not
    cpc, date, event,          \* each cut: where it is, the day, the event
    ppc, files, cur, pushed,   \* publish: where it is, the paths left to do, the one
                               \*   it is at, whether it has committed anything
    upc, got,                  \* upgrade: where it is, the new proof and its path
    overlapped,  \* history: two cuts ran at one time
    rewritten,   \* history: a cut wrote an event where one was staged already
    faults       \* kills, failed Git commands, pushes of others

store == <<ledger, receipts>>
clone == <<work, index, head>>
log == <<remote, foreign>>
history == <<overlapped, rewritten>>
cuts == <<cpc, date, event, history>>
publisher == <<ppc, files, cur, pushed>>
upgrader == <<upc, got>>
vars == <<store, staged, clone, log, cuts, publisher, upgrader, faults>>

-----------------------------------------------------------------------------
(* Files.                                                                  *)

E(d) == <<d, "event">>
P(d) == <<d, "proof">>
Path == Date \X {"event", "proof"}
DayOf(path) == path[1]
IsEvent(path) == path[2] = "event"

\* An event covers the rows start+1 .. end.
Event == [start : Nat, end : Nat]
Proof == [root : SUBSET Nat, att : Nat]
File == Event \cup Proof \cup {NoFile, Torn}

ASSUME FileAssumption ==
    NoFile \notin Event \cup Proof /\ Torn \notin Event \cup Proof /\ NoFile # Torn

Empty == [path \in Path |-> NoFile]
Paths(tree) == {path \in Path : tree[path] # NoFile}
Events(tree) == {d \in Date : tree[E(d)] \notin {NoFile, Torn}}
TornEvent(tree) == \E d \in Date : tree[E(d)] = Torn

\* day_root of the session rows covered.
Root(e) == {n \in (e.start + 1)..e.end : ledger[n] = "session"}

\* The largest row_end of the events in some trees, 0 if there is none.
LastEnd(trees) ==
    LET ends == {0} \cup UNION {{t[E(d)].end : d \in Events(t)} : t \in trees} IN
    CHOOSE m \in ends : \A n \in ends : n <= m

NoEvent == [start |-> 0, end |-> 0]

-----------------------------------------------------------------------------
Init ==
    /\ ledger = <<>> /\ receipts = <<>>
    /\ staged = Empty /\ work = Empty /\ index = Empty /\ head = Empty
    /\ remote = Empty /\ foreign = FALSE
    /\ cpc = [c \in Cutter |-> "idle"]
    /\ date = [c \in Cutter |-> CHOOSE d \in Date : TRUE]
    /\ event = [c \in Cutter |-> NoEvent]
    /\ ppc = "idle" /\ files = {} /\ cur = NoFile /\ pushed = FALSE
    /\ upc = "idle" /\ got = NoFile
    /\ overlapped = FALSE /\ rewritten = FALSE /\ faults = 0

\* A capture or a hook appends to the ledger.
AppendRow ==
    /\ Len(ledger) - Len(receipts) < MaxRows
    /\ \E type \in {"session", "other"} : ledger' = Append(ledger, type)
    /\ UNCHANGED <<receipts, staged, clone, log, cuts, publisher, upgrader, faults>>

-----------------------------------------------------------------------------
(* cut                                                                     *)

CutEnds(c) ==
    /\ cpc' = [cpc EXCEPT ![c] = "idle"]
    /\ date' = [date EXCEPT ![c] = CHOOSE d \in Date : TRUE]
    /\ event' = [event EXCEPT ![c] = NoEvent]

CutGoto(c, label) ==
    /\ cpc' = [cpc EXCEPT ![c] = label]
    /\ UNCHANGED <<date, event>>

\* What a cut on day d covers: the rows after the last event known, of which
\* one at least is a session.
CutRange(c, d, known) ==
    LET range == [start |-> LastEnd(known), end |-> Len(ledger)] IN
    /\ cpc[c] = "idle"
    /\ Root(range) # {}
    /\ cpc' = [cpc EXCEPT ![c] = "stamp"]
    /\ date' = [date EXCEPT ![c] = d]
    /\ event' = [event EXCEPT ![c] = range]
    /\ overlapped' = (overlapped \/ \E b \in Cutter : cpc[b] # "idle")
    /\ UNCHANGED <<store, staged, clone, log, rewritten, publisher, upgrader, faults>>

CutAfterPublished(c, d) ==
    /\ staged[E(d)] = NoFile /\ work[E(d)] = NoFile
    /\ ~TornEvent(work)
    /\ CutRange(c, d, {work})

\* One event a day; every event in staging and clone must be readable.
Cut(c, d) ==
    /\ staged[E(d)] = NoFile /\ work[E(d)] = NoFile
    /\ ~TornEvent(staged) /\ ~TornEvent(work)
    /\ CutRange(c, d, {staged, work})

\* The calendars are asked, then the day is looked at once more.
Stamp(c) ==
    /\ cpc[c] = "stamp"
    /\ IF staged[E(date[c])] = NoFile THEN CutGoto(c, "event") ELSE CutEnds(c)
    /\ UNCHANGED <<store, staged, clone, log, history, publisher, upgrader, faults>>

NoCalendar(c) ==
    /\ cpc[c] = "stamp"
    /\ CutEnds(c)
    /\ UNCHANGED <<store, staged, clone, log, history, publisher, upgrader, faults>>

StageEvent(c) ==
    /\ cpc[c] = "event"
    /\ staged' = [staged EXCEPT ![E(date[c])] = event[c]]
    /\ rewritten' = (rewritten \/ staged[E(date[c])] # NoFile)
    /\ CutGoto(c, "proof")
    /\ UNCHANGED <<store, clone, log, overlapped, publisher, upgrader, faults>>

StageProof(c) ==
    /\ cpc[c] = "proof"
    /\ staged' = [staged EXCEPT ![P(date[c])] = [root |-> Root(event[c]), att |-> 0]]
    /\ CutGoto(c, "receipt")
    /\ UNCHANGED <<store, clone, log, history, publisher, upgrader, faults>>

\* append_anchor_receipt, under the ledger's lock: a second receipt of a range
\* is a replay or a conflict, and not written.
AppendReceipt(c) ==
    /\ cpc[c] = "receipt"
    /\ IF \E n \in 1..Len(receipts) : receipts[n].range = event[c]
       THEN UNCHANGED store
       ELSE /\ receipts' = Append(receipts, [range |-> event[c], i |-> Len(ledger)])
            /\ ledger' = Append(ledger, "receipt")
    /\ CutEnds(c)
    /\ UNCHANGED <<staged, clone, log, history, publisher, upgrader, faults>>

-----------------------------------------------------------------------------
(* upgrade, of one staged proof                                            *)

\* The calendars have attestations the proof has not.
UpgradeRead(d) ==
    /\ upc = "idle"
    /\ staged[P(d)] \notin {NoFile, Torn}
    /\ \E att \in (staged[P(d)].att + 1)..MaxAtt :
           got' = [path |-> P(d), proof |-> [staged[P(d)] EXCEPT !.att = att]]
    /\ upc' = "compare"
    /\ UNCHANGED <<store, staged, clone, log, cuts, publisher, faults>>

\* The staged proof is read again, which fails if publish has unlinked it.
UpgradeCompare ==
    /\ upc = "compare"
    /\ IF staged[got.path] = NoFile
       THEN upc' = "idle" /\ got' = NoFile
       ELSE upc' = "open" /\ UNCHANGED got
    /\ UNCHANGED <<store, staged, clone, log, cuts, publisher, faults>>

\* O_CREAT and O_TRUNC: until it is written the proof is an empty file, and
\* one that was published and unlinked meanwhile is there again.
UpgradeOpen ==
    /\ upc = "open"
    /\ staged' = [staged EXCEPT ![got.path] = Torn]
    /\ upc' = "write"
    /\ UNCHANGED <<store, clone, log, cuts, publisher, got, faults>>

UpgradeWrite ==
    /\ upc = "write"
    /\ staged' = [staged EXCEPT ![got.path] = got.proof]
    /\ upc' = "idle" /\ got' = NoFile
    /\ UNCHANGED <<store, clone, log, cuts, publisher, faults>>

-----------------------------------------------------------------------------
(* publish                                                                 *)

PublishEnds ==
    /\ ppc' = "idle" /\ files' = {} /\ cur' = NoFile /\ pushed' = FALSE

\* gate(): every staged file can be read, and every proof binds the event
\* beside it.
GateOK ==
    /\ Paths(staged) # {} /\ ~TornEvent(staged)
    /\ \A d \in Events(staged) : staged[P(d)] # NoFile =>
           staged[P(d)] # Torn /\ staged[P(d)].root = Root(staged[E(d)])

PublishGate ==
    /\ ppc = "idle" /\ GateOK
    /\ files' = Paths(staged)
    /\ ppc' = "sync"
    /\ UNCHANGED <<store, staged, clone, log, cuts, cur, pushed, upgrader, faults>>

\* pull --ff-only fails when clone and remote have diverged.
SyncClone ==
    /\ ppc = "sync"
    /\ IF foreign /\ head # remote
       THEN PublishEnds /\ UNCHANGED foreign
       ELSE /\ foreign' = FALSE
            /\ ppc' = "events"
            /\ UNCHANGED <<files, cur, pushed>>
    /\ UNCHANGED <<store, staged, clone, remote, cuts, upgrader, faults>>

\* The first of the listed paths of one kind, by date.
Turn(path) ==
    /\ path \in files
    /\ \A other \in files : IsEvent(other) = IsEvent(path) => DayOf(path) <= DayOf(other)

\* What publish reads at a staged path.  A cut that overlapped another may be
\* writing the file again, which is empty then.
Found(path) ==
    {staged[path]} \cup {Torn : c \in {c \in Cutter : <<date[c], cpc[c]>> = path}}

\* The clone has the file already: done, or refused if it is another.
AlreadyThere(path, file) ==
    IF work[path] = file
    THEN files' = files \ {path} /\ UNCHANGED <<ppc, cur, pushed>>
    ELSE PublishEnds

\* The staged file is read once more, and copied.
CopyStaged(label) ==
    /\ ppc = label
    /\ \E file \in Found(cur) : work' = [work EXCEPT ![cur] = file]
    /\ ppc' = "commit"
    /\ UNCHANGED <<store, staged, index, head, log, cuts, upgrader, files, cur, pushed, faults>>

PublishAnyEvent(path) ==
    /\ ppc = "events" /\ IsEvent(path) /\ Turn(path)
    /\ \E file \in Found(path) :
         IF work[path] # NoFile
         THEN AlreadyThere(path, file)
         ELSE cur' = path /\ ppc' = "copyEvent" /\ UNCHANGED <<files, pushed>>
    /\ UNCHANGED <<store, staged, clone, log, cuts, upgrader, faults>>

\* Events are made public in the order of their dates, each from where the
\* clone's last one ends.
PublishEvent(path) ==
    /\ ppc = "events" /\ IsEvent(path) /\ Turn(path)
    /\ \E file \in Found(path) :
         IF work[path] # NoFile
         THEN AlreadyThere(path, file)
         ELSE IF TornEvent(work) \/ file = Torn \/ file.start # LastEnd({work})
         THEN PublishEnds
         ELSE cur' = path /\ ppc' = "copyEvent" /\ UNCHANGED <<files, pushed>>
    /\ UNCHANGED <<store, staged, clone, log, cuts, upgrader, faults>>

CopyEvent == CopyStaged("copyEvent")

EventsDone ==
    /\ ppc = "events" /\ \A path \in files : ~IsEvent(path)
    /\ ppc' = "proofs"
    /\ UNCHANGED <<store, staged, clone, log, cuts, files, cur, pushed, upgrader, faults>>

\* A staged proof that does not bind the clone's event of its day.
Unbound(path) ==
    LET public == work[E(DayOf(path))] IN
    \/ {public, staged[path]} \cap {NoFile, Torn} # {}
    \/ staged[path].root # Root(public)

PublishPendingProof(path) ==
    /\ ppc = "proofs" /\ Turn(path)
    /\ IF Unbound(path)
       THEN PublishEnds
       ELSE IF work[path] # NoFile
       THEN AlreadyThere(path, staged[path])
       ELSE cur' = path /\ ppc' = "copy" /\ UNCHANGED <<files, pushed>>
    /\ UNCHANGED <<store, staged, clone, log, cuts, upgrader, faults>>

PublishNewerProof(path) ==
    /\ ppc = "proofs" /\ Turn(path)
    /\ IF Unbound(path)
       THEN PublishEnds
       ELSE IF staged[path].att = 0 \/ work[path] = staged[path]
       THEN files' = files \ {path} /\ UNCHANGED <<ppc, cur, pushed>>
       ELSE cur' = path /\ ppc' = "copy" /\ UNCHANGED <<files, pushed>>
    /\ UNCHANGED <<store, staged, clone, log, cuts, upgrader, faults>>

\* A proof is looked at: it must bind the event in the clone; a pending one
\* stays staged; a confirmed one is copied if the clone has none.
PublishProof(path) ==
    /\ ppc = "proofs" /\ Turn(path)
    /\ IF Unbound(path)
       THEN PublishEnds
       ELSE IF staged[path].att = 0
       THEN files' = files \ {path} /\ UNCHANGED <<ppc, cur, pushed>>
       ELSE IF work[path] # NoFile
       THEN AlreadyThere(path, staged[path])
       ELSE cur' = path /\ ppc' = "copy" /\ UNCHANGED <<files, pushed>>
    /\ UNCHANGED <<store, staged, clone, log, cuts, upgrader, faults>>

CopyProof == CopyStaged("copy")

ProofsDone ==
    /\ ppc = "proofs" /\ files = {}
    /\ ppc' = "push"
    /\ UNCHANGED <<store, staged, clone, log, cuts, files, cur, pushed, upgrader, faults>>

\* git add of the path, git commit of the index.
Commit ==
    /\ ppc = "commit"
    /\ index' = [index EXCEPT ![cur] = work[cur]]
    /\ head' = index'
    /\ pushed' = TRUE
    /\ files' = files \ {cur}
    /\ IF IsEvent(cur) THEN ppc' = "events" /\ cur' = NoFile
       ELSE ppc' = "unlink" /\ UNCHANGED cur
    /\ UNCHANGED <<store, staged, work, log, cuts, upgrader, faults>>

UnlinkStaged ==
    /\ ppc = "unlink"
    /\ staged' = [staged EXCEPT ![cur] = NoFile]
    /\ ppc' = "proofs" /\ cur' = NoFile
    /\ UNCHANGED <<store, clone, log, cuts, files, pushed, upgrader, faults>>

\* Only what this call committed makes it push; a push that is not a fast
\* forward is rejected.
Push ==
    /\ ppc = "push"
    /\ remote' = IF pushed /\ ~foreign THEN head ELSE remote
    /\ PublishEnds
    /\ UNCHANGED <<store, staged, clone, foreign, cuts, upgrader, faults>>

-----------------------------------------------------------------------------
(* Faults.                                                                 *)

Fault == faults < MaxFaults /\ faults' = faults + 1

KillCut(c) ==
    /\ Fault /\ cpc[c] # "idle"
    /\ CutEnds(c)
    /\ staged' \in {staged}
           \cup (IF cpc[c] = "event" THEN {[staged EXCEPT ![E(date[c])] = Torn]} ELSE {})
           \cup (IF cpc[c] = "proof" THEN {[staged EXCEPT ![P(date[c])] = Torn]} ELSE {})
    /\ UNCHANGED <<store, clone, log, history, publisher, upgrader>>

KillUpgrade ==
    /\ Fault /\ upc # "idle"
    /\ upc' = "idle" /\ got' = NoFile
    /\ UNCHANGED <<store, staged, clone, log, cuts, publisher>>

\* Killed between two steps, or within its copy to the clone.
KillPublish ==
    /\ Fault /\ ppc # "idle"
    /\ PublishEnds
    /\ work' \in {work} \cup
           (IF ppc = "commit" THEN {[work EXCEPT ![cur] = Torn]} ELSE {})
    /\ UNCHANGED <<store, staged, index, head, log, cuts, upgrader>>

\* git commit fails, having added the file: no signing key, for one.
CommitFails ==
    /\ Fault /\ ppc = "commit"
    /\ index' = [index EXCEPT ![cur] = work[cur]]
    /\ PublishEnds
    /\ UNCHANGED <<store, staged, work, head, log, cuts, upgrader>>

\* The remote cannot be reached: pull or push fails.
RemoteFails ==
    /\ Fault /\ ppc \in {"sync", "push"}
    /\ PublishEnds
    /\ UNCHANGED <<store, staged, clone, log, cuts, upgrader>>

\* Somebody else publishes.
OthersPush ==
    /\ Fault /\ ~foreign
    /\ foreign' = TRUE
    /\ UNCHANGED <<store, staged, clone, remote, cuts, publisher, upgrader>>

-----------------------------------------------------------------------------
CutStep(c) ==
    \/ \E d \in Date : Cut(c, d)
    \/ Stamp(c) \/ NoCalendar(c) \/ StageEvent(c) \/ StageProof(c) \/ AppendReceipt(c)

UpgradeStep ==
    UpgradeCompare \/ UpgradeOpen \/ UpgradeWrite \/ \E d \in Date : UpgradeRead(d)

PublishStep ==
    \/ PublishGate \/ SyncClone \/ CopyEvent \/ EventsDone \/ CopyProof \/ ProofsDone
    \/ Commit \/ UnlinkStaged \/ Push
    \/ \E path \in Path : PublishEvent(path) \/ PublishProof(path)

Faults ==
    \/ KillUpgrade \/ KillPublish \/ CommitFails \/ RemoteFails \/ OthersPush
    \/ \E c \in Cutter : KillCut(c)

Next ==
    \/ AppendRow \/ UpgradeStep \/ PublishStep \/ Faults
    \/ \E c \in Cutter : CutStep(c)

Spec == Init /\ [][Next]_vars

-----------------------------------------------------------------------------
(* Properties.                                                             *)

\* Every variable has its type.
TypeOK ==
    /\ ledger \in Seq({"session", "other", "receipt"})
    /\ receipts \in Seq([range : Event, i : 0..(Len(ledger) - 1)])
    /\ \A tree \in {staged, work, index, head, remote} : \A path \in Path :
           tree[path] \in {NoFile, Torn} \cup (IF IsEvent(path) THEN Event ELSE Proof)
    /\ foreign \in BOOLEAN
    /\ cpc \in [Cutter -> {"idle", "stamp", "event", "proof", "receipt"}]
    /\ date \in [Cutter -> Date] /\ event \in [Cutter -> Event]
    /\ ppc \in {"idle", "sync", "events", "copyEvent", "proofs", "copy", "commit", "unlink",
                "push"}
    /\ files \subseteq Path /\ cur \in Path \cup {NoFile} /\ pushed \in BOOLEAN
    /\ upc \in {"idle", "compare", "open", "write"}
    /\ got \in [path : Path, proof : Proof] \cup {NoFile}
    /\ overlapped \in BOOLEAN /\ rewritten \in BOOLEAN /\ faults \in 0..MaxFaults

\* The events of a tree neither overlap nor leave a gap: one starts at row 0
\* and every other one where another ends.
Joined(tree) ==
    \A d \in Events(tree) :
        /\ tree[E(d)].start = 0 \/ \E b \in Events(tree) : tree[E(b)].end = tree[E(d)].start
        /\ \A b \in Events(tree) : b # d =>
               tree[E(b)].end <= tree[E(d)].start \/ tree[E(d)].end <= tree[E(b)].start

\* build_batch: coverage starts at the last row_end, "guaranteeing contiguous,
\* non-overlapping ranges", whatever of them is published and wherever cuts
\* were killed.  Nothing keeps two cuts from running at one time.
CutsJoin == ~overlapped => Joined(staged)

\* Whatever overlapping cuts staged, and however often publish failed or died,
\* the events in the clone join.  But publish looks at an event and then reads it
\* again: the later of two cuts of one day may have put another in its place.
CloneJoins == ~rewritten => Joined(work)

\* Published files are created once and never modified.
PublishedOnce ==
    [][\A path \in Path : remote[path] # NoFile => remote'[path] = remote[path]]_vars

\* Pending proofs never publish, and a published proof binds the event that the
\* clone has beside it - unless the proof is an empty file, which an upgrade at
\* the wrong moment makes it.  The event need not be public: see PublishedJoins.
\* Of two cuts at one time the later may put a pending proof back in the place of
\* one that publish has looked at.
PendingNeverPublished ==
    ~overlapped => \A d \in Date : remote[P(d)] \notin {NoFile, Torn} =>
        /\ remote[P(d)].att > 0
        /\ work[E(d)] \notin {NoFile, Torn}
        /\ remote[P(d)].root = Root(work[E(d)])

\* A range has at most one receipt, of rows before the receipt's own.
ReceiptOnce ==
    \A m, n \in 1..Len(receipts) :
        /\ receipts[m].range = receipts[n].range => m = n
        /\ receipts[n].range.end <= receipts[n].i

\* publish.py: "continuity enforced at publish time: a new event's row_start
\* must equal the identity's last published row_end".
PublishedJoins == Joined(remote)
=============================================================================
