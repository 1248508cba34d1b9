----------------------------- MODULE FileInstall -----------------------------
(***************************************************************************)
(* How mybench puts one private file, or one directory of files, in its    *)
(* place: keys, corpus and phase artifacts, report bundles, local          *)
(* topologies and the configuration.  Each has a protocol of its own; kind *)
(* says which one this behaviour is about.  Calls overlap, are killed      *)
(* between two system calls, meet a full disk, and lose power: file is     *)
(* what a reader sees, after is every content a power loss may leave.      *)
(***************************************************************************)
EXTENDS Integers, FiniteSets

CONSTANTS Proc, NoOne,
          Kinds,      \* the protocols a run chooses from
          MaxCalls,   \* bound: calls
          MaxKills,   \* bound: killed calls and full disks
          MaxLosses   \* bound: power losses

ASSUME ProcAssumption == NoOne \notin Proc
ASSUME BoundAssumption == MaxCalls \in Nat /\ MaxKills \in Nat /\ MaxLosses \in Nat

VARIABLES kind, file, after,
          pub,       \* the public half of a key pair
          temp,      \* the corpus store's temporary name
          lock,      \* flock on the corpus or phase directory
          proc,      \* each process: where it is, and the value it installs
          returned,  \* history: the values calls returned
          calls, kills, losses

vars == <<kind, file, after, pub, temp, lock, proc, returned, calls, kills, losses>>
bounds == <<calls, kills, losses>>

AllKinds == {"scope", "device", "signing", "corpus", "phase", "topology", "report", "config"}
Keys    == {"scope", "device", "signing"}   \* created once, every caller's own value
Fresh   == Keys \cup {"config"}             \* callers bring different values
Locked  == {"corpus", "phase"}
InPlace == Keys \cup {"phase", "topology"}  \* created and written under its name
Durable == {"corpus", "config"}             \* data and name are synced before a return

ASSUME KindAssumption == Kinds \subseteq AllKinds

None == 0      \* no such name
Part == -1     \* an empty or incomplete file
Contents == -1..MaxCalls
Idle == [pc |-> "idle", val |-> None]

(* What system calls do to the name.  A created or renamed entry may or may
   not survive until its directory is synced, and data may be incomplete
   until the file is. *)
Entry(v) == file' = v /\ after' = after \cup {v}
SyncFile == after' = after \ {Part}
DirectoryNotSynced == UNCHANGED after   \* mutant
SyncDirectory == after' = after \cap {file, Part}

At(p, l) == proc[p].pc = l
Busy(p) == proc[p].pc \notin {"idle", "failed"}
Goto(p, l) == proc' = [proc EXCEPT ![p].pc = l]
(* Mutant: the descriptor that holds the lock is not closed. *)
StillLocked(p) == lock
Unlocked(p) == IF lock = p THEN NoOne ELSE lock
Return(p, v) == /\ proc' = [proc EXCEPT ![p] = Idle]
                /\ returned' = returned \cup {v}
                /\ lock' = Unlocked(p)
Fail(p) == /\ proc' = [proc EXCEPT ![p] = [pc |-> "failed", val |-> None]]
           /\ lock' = Unlocked(p) /\ UNCHANGED returned
Continue(p, l) == Goto(p, l) /\ UNCHANGED <<lock, returned>>

Init ==
    /\ kind \in Kinds
    /\ file = None /\ after = {None} /\ pub = None
    /\ temp = "none" /\ lock = NoOne
    /\ proc = [p \in Proc |-> Idle] /\ returned = {}
    /\ calls = 0 /\ kills = 0 /\ losses = 0

----------------------------------------------------------------------------
Call(p) ==
    /\ ~Busy(p) /\ calls < MaxCalls
    /\ calls' = calls + 1
    /\ proc' = [proc EXCEPT ![p] =
                  [val |-> IF kind \in Fresh THEN calls + 1 ELSE 1,
                   pc  |-> IF kind \in Locked THEN "lock"
                           ELSE IF kind = "config" THEN "stage"
                           ELSE IF kind = "topology" THEN "create" ELSE "look"]]
    /\ UNCHANGED <<kind, file, after, pub, temp, lock, returned, kills, losses>>

Lock(p) ==
    /\ At(p, "lock") /\ lock = NoOne
    /\ lock' = p
    /\ Goto(p, IF kind = "corpus" THEN "recover" ELSE "look")
    /\ UNCHANGED <<kind, file, after, pub, temp, returned, bounds>>

(* The corpus store first removes what an interrupted install left. *)
Recover(p) ==
    /\ At(p, "recover")
    /\ temp' = "none"
    /\ IF temp = "none" THEN UNCHANGED after ELSE SyncDirectory
    /\ Goto(p, "look")
    /\ UNCHANGED <<kind, file, pub, lock, returned, bounds>>

(* Mutant: the corpus is written under its own name. *)
AbsentInPlace(p) ==
    /\ At(p, "look") /\ file = None
    /\ Continue(p, IF kind = "report" THEN "stage" ELSE "create")
    /\ UNCHANGED <<kind, file, after, pub, temp, bounds>>

(* Nothing is there yet: make it. *)
LookAbsent(p) ==
    /\ At(p, "look") /\ file = None
    /\ Continue(p, IF kind \in InPlace THEN "create"
                   ELSE IF kind = "corpus" THEN "temp" ELSE "stage")
    /\ UNCHANGED <<kind, file, after, pub, temp, bounds>>

(* A key is read, and the public half of the device and identity keys derived
   from it again.  The signing key is only seen to be there: neither half is
   looked at. *)
LookKey(p) ==
    /\ At(p, "look") /\ kind \in Keys /\ file # None
    /\ IF file = Part /\ kind # "signing" THEN Fail(p)
       ELSE IF kind = "device" /\ pub # file
       THEN /\ proc' = [proc EXCEPT ![p] = [pc |-> "pub", val |-> file]]
            /\ UNCHANGED <<lock, returned>>
       ELSE Return(p, file)
    /\ UNCHANGED <<kind, file, after, pub, temp, bounds>>

(* An artifact that is there must be the same.  The corpus store then syncs
   file and directory again, the phase store the file, the others nothing. *)
LookExisting(p) ==
    /\ \/ At(p, "look") /\ kind \notin Keys
       \/ At(p, "create") /\ kind = "topology"
    /\ file # None
    /\ IF file # proc[p].val THEN Fail(p)
       ELSE IF kind = "corpus" THEN Continue(p, "dirsync") ELSE Return(p, file)
    /\ IF kind \in Locked /\ file = proc[p].val THEN SyncFile ELSE UNCHANGED after
    /\ UNCHANGED <<kind, file, pub, temp, bounds>>

(* Mutant: without O_EXCL. *)
CreateOverwrites(p) ==
    /\ At(p, "create")
    /\ Entry(Part) /\ Continue(p, "write")
    /\ UNCHANGED <<kind, pub, temp, bounds>>

(* O_EXCL: a file that came meanwhile is an error to a key's caller. *)
Create(p) ==
    /\ At(p, "create")
    /\ IF file = None THEN Entry(Part) /\ Continue(p, "write")
       ELSE kind # "topology" /\ Fail(p) /\ UNCHANGED <<file, after>>
    /\ UNCHANGED <<kind, pub, temp, bounds>>

AfterWrite(p) == IF kind \in {"device", "signing"} THEN Continue(p, "pub")
                 ELSE IF kind = "scope" THEN Return(p, proc[p].val)
                 ELSE Continue(p, "fsync")
Write(p) ==
    /\ At(p, "write")
    /\ Entry(proc[p].val)
    /\ AfterWrite(p)
    /\ UNCHANGED <<kind, pub, temp, bounds>>

(* The disk is full: the phase store takes its file away again. *)
WriteFails(p) ==
    /\ At(p, "write") /\ kills < MaxKills
    /\ kills' = kills + 1
    /\ IF kind = "phase" THEN file' = None /\ after' = {None}
       ELSE UNCHANGED <<file, after>>
    /\ Fail(p)
    /\ UNCHANGED <<kind, pub, temp, calls, losses>>

(* A topology's directory entry is never synced. *)
Fsync(p) ==
    /\ At(p, "fsync")
    /\ SyncFile
    /\ IF kind = "topology" THEN Return(p, file) ELSE Continue(p, "dirsync")
    /\ UNCHANGED <<kind, file, pub, temp, bounds>>

(* write_bytes truncates the file and then writes it. *)
TruncatePub(p) ==
    /\ At(p, "pub")
    /\ pub' = Part
    /\ Continue(p, "pubwrite")
    /\ UNCHANGED <<kind, file, after, temp, bounds>>
WritePub(p) ==
    /\ At(p, "pubwrite")
    /\ pub' = proc[p].val
    /\ Return(p, proc[p].val)
    /\ UNCHANGED <<kind, file, after, temp, bounds>>

(* A temporary file or staging directory: complete and synced, or removed by
   the exception handler. *)
Stage(p) ==
    /\ At(p, "stage")
    /\ Continue(p, "install")
    /\ UNCHANGED <<kind, file, after, pub, temp, bounds>>
CreateTemp(p) ==
    /\ At(p, "temp")
    /\ temp' = "part"
    /\ Continue(p, "tempwrite")
    /\ UNCHANGED <<kind, file, after, pub, bounds>>
WriteTemp(p) ==
    /\ At(p, "tempwrite")
    /\ temp' = "whole"
    /\ Continue(p, "install")
    /\ UNCHANGED <<kind, file, after, pub, bounds>>

(* Mutant: a rename onto a bundle that came meanwhile is an error. *)
InstallOrFail(p) ==
    /\ At(p, "install")
    /\ IF kind = "report" /\ file # None
       THEN Fail(p) /\ UNCHANGED <<file, after>>
       ELSE Entry(proc[p].val) /\ Continue(p, "dirsync")
    /\ temp' = IF kind = "corpus" THEN "linked" ELSE temp
    /\ UNCHANGED <<kind, pub, bounds>>

(* os.replace, os.link or the rename of the bundle's directory; a bundle that
   came meanwhile is compared as an existing one. *)
Install(p) ==
    /\ At(p, "install")
    /\ IF kind = "report" /\ file # None
       THEN /\ IF file = proc[p].val THEN Return(p, file) ELSE Fail(p)
            /\ UNCHANGED <<file, after>>
       ELSE Entry(proc[p].val) /\ Continue(p, "dirsync")
    /\ temp' = IF kind = "corpus" THEN "linked" ELSE temp
    /\ UNCHANGED <<kind, pub, bounds>>

DirSync(p) ==
    /\ At(p, "dirsync")
    /\ SyncDirectory
    /\ IF temp = "linked" THEN Continue(p, "unlink") ELSE Return(p, proc[p].val)
    /\ UNCHANGED <<kind, file, pub, temp, bounds>>

UnlinkTemp(p) ==
    /\ At(p, "unlink")
    /\ temp' = "none"
    /\ Continue(p, "dirsync")
    /\ UNCHANGED <<kind, file, after, pub, bounds>>

----------------------------------------------------------------------------
Kill(p) ==
    /\ Busy(p) /\ kills < MaxKills
    /\ kills' = kills + 1
    /\ proc' = [proc EXCEPT ![p] = Idle] /\ lock' = Unlocked(p)
    /\ UNCHANGED <<kind, file, after, pub, temp, returned, calls, losses>>

(* The temporary name is lost, kept, or kept without its data; one that was
   linked stays so while its target does. *)
TempAfter(v) == {"none"} \cup (IF temp = "linked" /\ v # None THEN {"linked"} ELSE {})
                         \cup (IF temp \in {"part", "whole"} THEN {temp, "part"} ELSE {})
PowerLoss ==
    /\ losses < MaxLosses
    /\ losses' = losses + 1
    /\ \E v \in after : file' = v /\ after' = {v} /\ temp' \in TempAfter(v)
    /\ pub' \in {None, Part, pub}
    /\ proc' = [p \in Proc |-> Idle] /\ lock' = NoOne
    /\ UNCHANGED <<kind, returned, calls, kills>>

Step(p) == \/ Lock(p) \/ Recover(p) \/ LookAbsent(p) \/ LookKey(p) \/ LookExisting(p)
           \/ Create(p) \/ Write(p) \/ Fsync(p) \/ TruncatePub(p) \/ WritePub(p)
           \/ Stage(p) \/ CreateTemp(p) \/ WriteTemp(p) \/ Install(p) \/ DirSync(p)
           \/ UnlinkTemp(p)

Next == \/ \E p \in Proc : Call(p) \/ Step(p) \/ WriteFails(p) \/ Kill(p)
        \/ PowerLoss

(* A call that was begun goes on until it ends or is killed. *)
Spec == Init /\ [][Next]_vars /\ \A p \in Proc : WF_vars(Step(p))

----------------------------------------------------------------------------
TypeOK ==
    /\ kind \in Kinds /\ file \in Contents /\ after \subseteq Contents /\ file \in after
    /\ pub \in Contents /\ temp \in {"none", "part", "whole", "linked"}
    /\ lock \in Proc \cup {NoOne}
    /\ proc \in [Proc -> [val : Contents,
                          pc : {"idle", "failed", "lock", "recover", "look", "create",
                                "write", "fsync", "pub", "pubwrite", "stage", "temp",
                                "tempwrite", "install", "dirsync", "unlink"}]]
    /\ returned \subseteq Contents
    /\ calls \in 0..MaxCalls /\ kills \in 0..MaxKills /\ losses \in 0..MaxLosses

(* A corpus, a report bundle and a configuration are complete or absent, for
   every reader and after every crash. *)
WholeOrAbsent == kind \in {"corpus", "report", "config"} => Part \notin after

(* What a call returned is there for good: a corpus or a configuration also
   after a power loss, whoever wrote the file and however its writer ended;
   every other artifact and key as long as the machine stays up.  Callers of
   the signing key are told of an incomplete one too. *)
ReturnedKept ==
    returned \ {Part} # {} =>
        /\ kind \in Durable => after \cap {None, Part} = {}
        /\ kind \notin Durable /\ losses = 0 => file \notin {None, Part}

(* Callers agree on one key, however many create it at once and wherever they
   are killed, and a public half is never that of a key that lost the race.  A
   second key needs a power loss, which the code does not guard against, since
   it never syncs a key. *)
OneKey ==
    kind \in Keys /\ losses = 0 =>
        /\ returned \subseteq {file} \cup (IF kind = "signing" THEN {Part} ELSE {})
        /\ pub \in {None, Part, file}

(* What a killed or powerless call left behind never makes a later call of
   these stores fail. *)
NeverRefused == kind \in {"corpus", "report", "config"} =>
                    \A p \in Proc : ~At(p, "failed")

(* Every call ends: no lock or leftover makes one wait for ever. *)
CallsEnd == \A p \in Proc : Busy(p) ~> ~Busy(p)
=============================================================================
