---------------------------- MODULE RepoEvidence ----------------------------
(***************************************************************************)
(* Evidence from an enrolled Git repository                                *)
(* (src/mybench/normalizer/repo_loader.py, repo.py): what the loader reads *)
(* of a repository, what the normalizer makes of it, what the validator    *)
(* asks of that, and how a pointer is resolved later.                      *)
(*                                                                         *)
(* A repository is a record                                                *)
(*   commits   a sequence: commit n has parents, an author ("subject" or   *)
(*             "other") and a tree, a function from paths to entries or    *)
(*             None; an entry is a blob and its mode                       *)
(*   present   the commits whose objects are there                         *)
(*   branches, head, reflog   the commits that are named                   *)
(*   enrolled  the enrollment commit, 0 if there was none yet, or None     *)
(* The clone is complete: its history is not cut off anywhere.             *)
(* Counters that the validator only adds up again are left out, as is a    *)
(* change's kind: added, modified and deleted paths are all changed ones,  *)
(* those of another mode too.  So are submodules, which have no blob.      *)
(***************************************************************************)
EXTENDS Naturals, Sequences, FiniteSets

CONSTANTS None,
          ClassOf   \* the file class of each path

Paths == DOMAIN ClassOf
Classes == {ClassOf[p] : p \in Paths}

ParentsOf(repo, c) == repo.commits[c].parents

ParentSet(repo, c) ==
    LET parents == ParentsOf(repo, c) IN {parents[i] : i \in DOMAIN parents}

(* c and the commits before it; parents have smaller numbers. *)
Ancestry(repo, c) ==
    LET upTo[n \in 0 .. c] ==
          IF n = 0 THEN {c}
          ELSE upTo[n - 1] \cup UNION {ParentSet(repo, d) : d \in upTo[n - 1]}
    IN  upTo[c]

(* The zero id of a HEAD that is not born yet is taken for a name, too:     *)
(* it is removed from the reflog only.                                     *)
Named(repo) == repo.branches \cup (repo.reflog \ {0}) \cup {repo.head}

Candidates(repo) == UNION {Ancestry(repo, c) : c \in Named(repo)}

Admitted(repo) ==
    {c \in Candidates(repo) : repo.commits[c].author = "subject"}

Provenance(repo, c) ==
    CASE repo.enrolled = 0 -> "LIVE"
      [] repo.enrolled = c -> "IMPORTED"
      [] OTHER -> IF repo.enrolled \in Ancestry(repo, c) THEN "LIVE"
                                                         ELSE "IMPORTED"

TreeBefore(repo, c) ==
    IF ParentsOf(repo, c) = <<>> THEN [p \in Paths |-> None]
                                 ELSE repo.commits[ParentsOf(repo, c)[1]].tree

Changed(repo, c) ==
    {p \in Paths : repo.commits[c].tree[p] # TreeBefore(repo, c)[p]}

(* <<class, blob>> for the blobs at the paths that commit c changes. *)
Targets(repo, c) ==
    {<<ClassOf[p], repo.commits[c].tree[p].blob>> :
        p \in {q \in Changed(repo, c) : repo.commits[c].tree[q] # None}}

(* Mutant: a merge is taken for a change of its first parent. *)
MergesToo(repo, c) ==
    [status  |-> "observed",
     classes |-> [k \in Classes |->
                    Cardinality({p \in Changed(repo, c) : ClassOf[p] = k})],
     targets |-> Targets(repo, c)]

(* A merge shows another branch's content, so nothing is said of it; nor   *)
(* of a commit whose parent is gone.                                       *)
Structure(repo, c) ==
    IF \/ Len(ParentsOf(repo, c)) > 1
       \/ ~(ParentSet(repo, c) \subseteq repo.present)
      THEN [status |-> "unknown", classes |-> None, targets |-> {}]
      ELSE [status  |-> "observed",
            classes |-> [k \in Classes |->
                           Cardinality({p \in Changed(repo, c) :
                                          ClassOf[p] = k})],
            targets |-> Targets(repo, c)]

CommitEvidence(repo, c) ==
    [id         |-> c,
     provenance |-> Provenance(repo, c),
     parents    |-> ParentSet(repo, c) \cap Admitted(repo),
     structure  |-> Structure(repo, c)]

References(repo, kind, commits) ==
    {[kind |-> kind, commit |-> c, provenance |-> Provenance(repo, c)] :
        c \in commits \cap Admitted(repo)}

(* capture_enrolled_repo: None when the repository is not enrolled, its     *)
(* boundary is not there, or Git cannot show a commit that is named.       *)
CaptureEnrolled(repo) ==
    IF \/ repo.enrolled = None \/ repo.enrolled \notin repo.present \cup {0}
       \/ ~(Named(repo) \subseteq repo.present)
      THEN None
      ELSE [commits    |-> {CommitEvidence(repo, c) : c \in Admitted(repo)},
            references |-> References(repo, "branch-tip", repo.branches)
                             \cup References(repo, "reflog", repo.reflog)
                             \cup References(repo, "worktree", {repo.head})]

-----------------------------------------------------------------------------
(* What the normalizer refuses of a snapshot. *)

CommitIds(evidence) == {e.id : e \in evidence.commits}

TargetsCounted(e) ==
    e.structure.status = "observed" =>
        \A k \in Classes :
            Cardinality({t \in e.structure.targets : t[1] = k})
              <= e.structure.classes[k]

SnapshotChecked(snapshot) ==
    /\ \A e, f \in snapshot.commits : e.id = f.id => e = f
    /\ \A e \in snapshot.commits :
         /\ e.parents \subseteq CommitIds(snapshot)
         /\ TargetsCounted(e)
         /\ e.structure.status = "unknown" => e.structure.targets = {}
    /\ \A r \in snapshot.references : r.commit \in CommitIds(snapshot)
    /\ \A r, s \in snapshot.references :
         r.kind = s.kind /\ r.commit = s.commit => r = s

(* The events: one for each commit and each reference, and the coverage.   *)
NormalizeRepo(snapshot) ==
    [commits    |-> snapshot.commits,
     references |-> snapshot.references,
     live       |-> Cardinality({e \in snapshot.commits :
                                   e.provenance = "LIVE"}),
     imported   |-> Cardinality({e \in snapshot.commits :
                                   e.provenance = "IMPORTED"}),
     unknown    |-> Cardinality({e \in snapshot.commits :
                                   e.structure.status = "unknown"})]

(* What the validator asks beyond that: a reference is to a commit of the  *)
(* artifact and has that commit's provenance; the counts are right.        *)
RepoAccepted(artifact) ==
    /\ SnapshotChecked(artifact)
    /\ \A r \in artifact.references :
         \E e \in artifact.commits : /\ e.id = r.commit
                                     /\ e.provenance = r.provenance
    /\ artifact.live + artifact.imported = Cardinality(artifact.commits)
    /\ artifact.unknown =
         Cardinality({e \in artifact.commits : e.structure.classes = None})

-----------------------------------------------------------------------------
(* A pointer names the commit it was taken from and a blob, or None for    *)
(* the commit itself.                                                      *)

Pointers(artifact) ==
    {<<e.id, None>> : e \in artifact.commits}
      \cup UNION {{<<e.id, t[2]>> : t \in e.structure.targets} :
                    e \in artifact.commits}

(* resolve_repo_pointer: "unknown" when something is missing by now, and   *)
(* "refused" when the repository contradicts the pointer.                  *)
ResolveRepoPointer(repo, pointer) ==
    LET origin    == pointer[1]
        structure == Structure(repo, origin)
    IN  CASE origin \notin repo.present -> "unknown"
          [] origin \in repo.present
               /\ repo.commits[origin].author # "subject" -> "refused"
          [] origin \in repo.present
               /\ repo.commits[origin].author = "subject"
               /\ pointer[2] = None -> "resolved"
          [] OTHER ->
               CASE structure.status # "observed" -> "unknown"
                 [] pointer[2] \in {t[2] : t \in structure.targets} ->
                      "resolved"
                 [] OTHER -> "refused"

(* The paths at which commit c has an entry that no parent has there. *)
NewEntries(repo, c) ==
    {p \in Paths :
       /\ repo.commits[c].tree[p] # None
       /\ \A d \in ParentSet(repo, c) :
            repo.commits[d].tree[p] # repo.commits[c].tree[p]}

SameBlob(repo, c, d, p) ==
    /\ repo.commits[d].tree[p] # None
    /\ repo.commits[d].tree[p].blob = repo.commits[c].tree[p].blob

(* The blobs that no parent of commit c has at the same path. *)
Introduced(repo, c) ==
    {repo.commits[c].tree[p].blob :
        p \in {q \in NewEntries(repo, c) :
                 \A d \in ParentSet(repo, c) : ~SameBlob(repo, c, d, q)}}

(* The blobs of a parent that commit c gave another mode. *)
Remoded(repo, c) ==
    {repo.commits[c].tree[p].blob :
        p \in {q \in NewEntries(repo, c) :
                 \E d \in ParentSet(repo, c) : SameBlob(repo, c, d, q)}}
=============================================================================
