---------------------------- MODULE Evidence_proofs ----------------------------
(***************************************************************************)
(* What TLAPS proves of Evidence and of the functions it feeds.            *)
(*                                                                         *)
(* Where a definition is recursive, the argument is by a smallest          *)
(* counterexample (Smallest): the function is shown to exist up to every   *)
(* bound, and what it computes to have the property at every argument.     *)
(***************************************************************************)
EXTENDS Evidence, FiniteSetTheorems, SequenceTheorems, WellFoundedInduction, TLAPS

\* A set of natural numbers has a smallest member.
LEMMA Smallest ==
    ASSUME NEW D, D \subseteq Nat, D # {}
    PROVE  \E x \in D : \A y \in D : x <= y
<1>. DEFINE R == OpToRel(<, Nat)
<1>1. \E x \in D : \A y \in D : ~(<<y, x>> \in R)
  <2>1. IsWellFoundedOn(R, Nat)
    BY NatLessThanWellFounded
  <2>. HIDE DEF R
  <2>. QED BY <2>1, WFMin
<1>2. PICK x \in D : \A y \in D : ~(<<y, x>> \in R)
  BY <1>1
<1>3. \A y \in D : ~(y < x)
  BY <1>2 DEF OpToRel
<1>. QED BY <1>3

-----------------------------------------------------------------------------
(* The history of a repository. *)

\* f says what is reached from c in n steps, for n up to m.
Grown(r, c, m, f) ==
    f = [n \in 0 .. m |->
           IF n = 0 THEN {c}
           ELSE f[n - 1] \cup UNION {Git!ParentSet(r, d) : d \in f[n - 1]}]

\* The recursion of Ancestry has a solution.
LEMMA GrownExists ==
    ASSUME NEW r, NEW c \in Nat
    PROVE  \A m \in Nat : \E f : Grown(r, c, m, f)
<1>. DEFINE D == {m \in Nat : ~ \E f : Grown(r, c, m, f)}
<1>1. SUFFICES ASSUME D # {} PROVE FALSE
  OBVIOUS
<1>2. PICK m \in D : \A k \in D : m <= k
  BY <1>1, Smallest
<1>3. m # 0
  <2>1. Grown(r, c, 0, [n \in 0 .. 0 |-> {c}])
    BY DEF Grown
  <2>. QED BY <1>2, <2>1
<1>4. PICK f : Grown(r, c, m - 1, f)
  BY <1>2, <1>3
<1>. DEFINE last == f[m - 1] \cup UNION {Git!ParentSet(r, d) : d \in f[m - 1]}
            g == [n \in 0 .. m |-> IF n = m THEN last ELSE f[n]]
<1>5. Grown(r, c, m, g)
  <2>1. ASSUME NEW n \in 0 .. m
        PROVE  g[n] = IF n = 0 THEN {c}
                      ELSE g[n - 1] \cup UNION {Git!ParentSet(r, d) : d \in g[n - 1]}
    <3>1. CASE n = m
      BY <1>2, <1>3, <3>1
    <3>2. CASE n # m
      <4>1. n \in 0 .. m - 1 /\ g[n] = f[n] /\ n - 1 # m
        BY <1>2, <1>3, <3>2
      <4>2. n # 0 => g[n - 1] = f[n - 1]
        BY <1>2, <4>1
      <4>3. f[n] = IF n = 0 THEN {c}
                   ELSE f[n - 1] \cup UNION {Git!ParentSet(r, d) : d \in f[n - 1]}
        BY <1>4, <4>1 DEF Grown
      <4>. QED BY <4>1, <4>2, <4>3
    <3>. QED BY <3>1, <3>2
  <2>2. g = [n \in 0 .. m |->
           IF n = 0 THEN {c}
           ELSE g[n - 1] \cup UNION {Git!ParentSet(r, d) : d \in g[n - 1]}]
    <3>. HIDE DEF last
    <3>1. g = [n \in 0 .. m |-> g[n]]
      OBVIOUS
    <3>. HIDE DEF g
    <3>. QED BY <2>1, <3>1
  <2>. QED BY <2>2 DEF Grown
<1>. QED BY <1>2, <1>5

\* Parents have smaller numbers.
PastParents(r) ==
    \A d \in 1 .. Len(r.commits) :
        /\ r.commits[d].parents \in Seq(Nat)
        /\ \A i \in DOMAIN r.commits[d].parents :
              r.commits[d].parents[i] \in 1 .. d - 1

\* What comes before a commit is the commit or older than it.
LEMMA AncestryPast ==
    ASSUME NEW r, Len(r.commits) \in Nat,
           PastParents(r), NEW c \in 1 .. Len(r.commits)
    PROVE  Git!Ancestry(r, c) \subseteq 1 .. c
<1>. DEFINE upTo == CHOOSE f : Grown(r, c, c, f)
            D == {n \in 0 .. c : ~(upTo[n] \subseteq 1 .. c)}
<1>1. Git!Ancestry(r, c) = upTo[c]
  BY DEF Git!Ancestry, Grown
<1>2. Grown(r, c, c, upTo)
  <2>1. c \in Nat
    OBVIOUS
  <2>2. \E f : Grown(r, c, c, f)
    BY <2>1, GrownExists
  <2>. QED BY <2>2
<1>. HIDE DEF upTo
<1>3. ASSUME D # {} PROVE FALSE
  <2>0. D \subseteq Nat
    OBVIOUS
  <2>1. PICK n \in D : \A k \in D : n <= k
    BY <1>3, <2>0, Smallest
  <2>2. upTo[n] = IF n = 0 THEN {c}
                  ELSE upTo[n - 1] \cup UNION {Git!ParentSet(r, d) : d \in upTo[n - 1]}
    BY <1>2 DEF Grown
  <2>3. n # 0
    BY <2>1, <2>2
  <2>4. upTo[n - 1] \subseteq 1 .. c
    BY <2>1, <2>3
  <2>5. \A d \in 1 .. c : Git!ParentSet(r, d) \subseteq 1 .. c
    BY DEF Git!ParentSet, Git!ParentsOf, PastParents
  <2>. QED BY <2>1, <2>2, <2>3, <2>4, <2>5
<1>. QED BY <1>1, <1>3

\* The instances of the functions' modules have a Cardinality of their own.
LEMMA SameCardinality ==
    \A S : Git!Cardinality(S) = Cardinality(S)
BY DEF Git!Cardinality, Cardinality, Git!IsFiniteSet, IsFiniteSet

-----------------------------------------------------------------------------
(* What is captured of a repository. *)

Node == [parents : Seq(Nat), author : {"subject", "other"},
         tree : [DOMAIN ClassOf -> Entry \cup {None}]]

\* Histories grow: what is named is there, and before the first commit no
\* branch is.
RepoSound(r) ==
    /\ r \in [commits : Seq(Node), present : SUBSET Nat, branches : SUBSET Nat,
              head : Nat, reflog : SUBSET Nat, enrolled : Nat \cup {None}]
    /\ PastParents(r)
    /\ r.branches \subseteq 1 .. Len(r.commits)
    /\ r.reflog \subseteq 1 .. Len(r.commits)
    /\ r.head \in 0 .. Len(r.commits)
    /\ r.head = 0 => r.branches = {} /\ r.reflog = {}
    /\ 0 \notin r.present

\* Candidates and admitted commits are commits of the repository, finitely many,
\* once there is a head.
LEMMA CandidatesKnown ==
    ASSUME NEW r, RepoSound(r), r.head # 0
    PROVE  /\ Git!Candidates(r) \subseteq 1 .. Len(r.commits)
           /\ Git!Admitted(r) \subseteq 1 .. Len(r.commits)
           /\ \A S : IsFiniteSet(Git!Admitted(r) \cap S)
           /\ IsFiniteSet(Git!Admitted(r))
<1>1. Len(r.commits) \in Nat /\ PastParents(r)
  BY DEF RepoSound
<1>2. Git!Named(r) \subseteq 1 .. Len(r.commits)
  BY <1>1 DEF Git!Named, RepoSound
<1>3. \A c \in 1 .. Len(r.commits) : Git!Ancestry(r, c) \subseteq 1 .. c
  BY <1>1, AncestryPast
<1>4. Git!Candidates(r) \subseteq 1 .. Len(r.commits)
  BY <1>1, <1>2, <1>3 DEF Git!Candidates
<1>5. Git!Admitted(r) \subseteq 1 .. Len(r.commits)
  BY <1>4 DEF Git!Admitted
<1>6. IsFiniteSet(Git!Admitted(r))
  <2>1. IsFiniteSet(1 .. Len(r.commits))
    BY <1>1, FS_Interval
  <2>. QED BY <1>5, <2>1, FS_Subset
<1>7. \A S : IsFiniteSet(Git!Admitted(r) \cap S)
  BY <1>6, FS_Intersection
<1>. QED BY <1>4, <1>5, <1>6, <1>7

\* Of each class there are at most as many targets as changed paths.
LEMMA TargetsFewer ==
    ASSUME NEW r, NEW c
    PROVE  \A k : Cardinality({t \in Git!Targets(r, c) : t[1] = k})
                    <= Cardinality({p \in Git!Changed(r, c) : ClassOf[p] = k})
<1>. TAKE k
<1>. DEFINE C == {p \in Git!Changed(r, c) : ClassOf[p] = k}
            S == {p \in C : r.commits[c].tree[p] # None}
            T == {t \in Git!Targets(r, c) : t[1] = k}
            f == [p \in S |-> <<k, r.commits[c].tree[p].blob>>]
<1>1. IsFiniteSet(C)
  <2>1. C \subseteq DOMAIN ClassOf
    BY DEF Git!Changed, Git!Paths
  <2>. QED BY <2>1, EvidenceAssumption, FS_Subset
<1>2. IsFiniteSet(S) /\ Cardinality(S) <= Cardinality(C)
  <2>1. S \in SUBSET C
    OBVIOUS
  <2>. HIDE DEF S, C
  <2>. QED BY <1>1, <2>1, FS_Subset
<1>3. f \in Surjection(S, T)
  <2>1. ASSUME NEW p \in S PROVE f[p] \in T
    BY DEF Git!Targets
  <2>2. ASSUME NEW t \in T PROVE \E p \in S : f[p] = t
    <3>1. PICK p \in {q \in Git!Changed(r, c) : r.commits[c].tree[q] # None} :
               t = <<ClassOf[p], r.commits[c].tree[p].blob>>
      BY DEF Git!Targets
    <3>2. ClassOf[p] = k
      BY <3>1
    <3>. QED BY <3>1, <3>2
  <2>. QED BY <2>1, <2>2 DEF Surjection
<1>4. Cardinality(T) <= Cardinality(S)
  <2>. HIDE DEF S, T, f
  <2>. QED BY <1>2, <1>3, FS_Surjection
<1>5. Cardinality(T) \in Nat /\ Cardinality(S) \in Nat /\ Cardinality(C) \in Nat
  <2>1. IsFiniteSet(T)
    <3>. HIDE DEF S, T, f
    <3>. QED BY <1>2, <1>3, FS_Surjection
  <2>. HIDE DEF S, T, C
  <2>. QED BY <1>1, <1>2, <2>1, FS_CardinalityType
<1>. HIDE DEF S, T, C
<1>6. Cardinality(T) <= Cardinality(C)
  BY <1>2, <1>4, <1>5
<1>. QED BY <1>6 DEF T, C

\* A commit's structure is observed with counted classes, or unknown with none.
LEMMA StructureCases ==
    ASSUME NEW r, NEW c
    PROVE  LET s == Git!Structure(r, c)
           IN  \/ /\ s.status = "unknown" /\ s.classes = None /\ s.targets = {}
               \/ /\ s.status = "observed" /\ s.classes # None
                  /\ s.targets = Git!Targets(r, c)
                  /\ \A k \in Git!Classes :
                       s.classes[k] = Cardinality({p \in Git!Changed(r, c) : ClassOf[p] = k})
                  /\ ~(Len(r.commits[c].parents) > 1)
<1>. DEFINE counts == [k \in Git!Classes |->
                         Git!Cardinality({p \in Git!Changed(r, c) : ClassOf[p] = k})]
            poor == \/ Len(Git!ParentsOf(r, c)) > 1
                    \/ ~(Git!ParentSet(r, c) \subseteq r.present)
<1>1. counts # None
  <2>1. ASSUME NEW k \in Git!Classes
        PROVE  Cardinality({p \in Git!Changed(r, c) : ClassOf[p] = k}) \in Nat
    <3>1. {p \in Git!Changed(r, c) : ClassOf[p] = k} \subseteq DOMAIN ClassOf
      BY DEF Git!Changed, Git!Paths
    <3>2. IsFiniteSet({p \in Git!Changed(r, c) : ClassOf[p] = k})
      BY <3>1, EvidenceAssumption, FS_Subset
    <3>. QED BY <3>2, FS_CardinalityType
  <2>2. counts \in [Git!Classes -> Nat]
    BY <2>1, SameCardinality
  <2>. QED BY <2>2, EvidenceAssumption DEF Git!Classes, Git!Paths
<1>2. Git!Structure(r, c) =
        IF poor THEN [status |-> "unknown", classes |-> None, targets |-> {}]
        ELSE [status |-> "observed", classes |-> counts, targets |-> Git!Targets(r, c)]
  BY DEF Git!Structure
<1>3. ~poor => ~(Len(r.commits[c].parents) > 1)
  BY DEF Git!ParentsOf
<1>4. \A k \in Git!Classes :
        counts[k] = Cardinality({p \in Git!Changed(r, c) : ClassOf[p] = k})
  BY SameCardinality
<1>. HIDE DEF counts, poor
<1>5. CASE poor
  BY <1>2, <1>5
<1>6. CASE ~poor
  <2>1. Git!Structure(r, c) =
          [status |-> "observed", classes |-> counts, targets |-> Git!Targets(r, c)]
    BY <1>2, <1>6
  <2>2. PICK s : s = Git!Structure(r, c)
    OBVIOUS
  <2>3. s.status = "observed" /\ s.classes = counts /\ s.targets = Git!Targets(r, c)
    BY <2>1, <2>2
  <2>. QED BY <1>1, <1>3, <1>4, <1>6, <2>2, <2>3
<1>. QED BY <1>5, <1>6

\* What is captured has a head: the zero id is of no commit that is there.
LEMMA CapturedHead ==
    ASSUME NEW r, RepoSound(r), Git!CaptureEnrolled(r) # None
    PROVE  r.head # 0
<1>1. Git!Named(r) \subseteq r.present /\ r.head \in Git!Named(r)
  BY DEF Git!CaptureEnrolled, Git!Named
<1>. QED BY <1>1 DEF RepoSound

\* Whatever state the repository is in, the loader's snapshot of it passes the
\* normalizer's checks and the artifact the validator's.
LEMMA SnapshotHolds ==
    ASSUME NEW r, RepoSound(r), Git!CaptureEnrolled(r) # None
    PROVE  /\ Git!SnapshotChecked(Git!CaptureEnrolled(r))
           /\ Git!RepoAccepted(Git!NormalizeRepo(Git!CaptureEnrolled(r)))
<1>. DEFINE S == Git!CaptureEnrolled(r)
            A == Git!Admitted(r)
            E(c) == Git!CommitEvidence(r, c)
            N == Git!NormalizeRepo(S)
<1>1. /\ S.commits = {E(c) : c \in A}
      /\ S.references = Git!References(r, "branch-tip", r.branches)
                          \cup Git!References(r, "reflog", r.reflog)
                          \cup Git!References(r, "worktree", {r.head})
  BY DEF Git!CaptureEnrolled
<1>2. \A c : /\ E(c).id = c
             /\ E(c).provenance = Git!Provenance(r, c)
             /\ E(c).parents \subseteq A
             /\ E(c).structure = Git!Structure(r, c)
  BY DEF Git!CommitEvidence
<1>3. \A x \in S.references :
        /\ x.commit \in A
        /\ x.provenance = Git!Provenance(r, x.commit)
        /\ x = [kind |-> x.kind, commit |-> x.commit,
                provenance |-> Git!Provenance(r, x.commit)]
  BY <1>1 DEF Git!References
<1>4. Git!CommitIds(S) = A
  <2>. HIDE DEF S, A
  <2>. QED BY <1>1, <1>2 DEF Git!CommitIds
<1>5. \A c : Git!TargetsCounted(E(c)) /\ (E(c).structure.status = "unknown" =>
                                            E(c).structure.targets = {})
  <2>. TAKE c
  <2>. HIDE DEF E
  <2>1. CASE Git!Structure(r, c).status = "unknown"
    BY <1>2, <2>1, StructureCases DEF Git!TargetsCounted
  <2>2. CASE Git!Structure(r, c).status # "unknown"
    <3>1. /\ Git!Structure(r, c).targets = Git!Targets(r, c)
          /\ \A k \in Git!Classes : Git!Structure(r, c).classes[k]
                = Cardinality({p \in Git!Changed(r, c) : ClassOf[p] = k})
      BY <2>2, StructureCases
    <3>2. \A k \in Git!Classes :
            Cardinality({t \in Git!Structure(r, c).targets : t[1] = k})
              <= Git!Structure(r, c).classes[k]
      <4>1. \A k : Cardinality({t \in Git!Targets(r, c) : t[1] = k})
                     <= Cardinality({p \in Git!Changed(r, c) : ClassOf[p] = k})
        BY TargetsFewer
      <4>. QED BY <3>1, <4>1
    <3>. QED BY <1>2, <2>2, <3>2, SameCardinality DEF Git!TargetsCounted
  <2>. QED BY <2>1, <2>2
<1>6. Git!SnapshotChecked(S)
  <2>. HIDE DEF S, A, E
  <2>1. \A e, f \in S.commits : e.id = f.id => e = f
    BY <1>1, <1>2
  <2>2. \A e \in S.commits : e.parents \subseteq Git!CommitIds(S)
    BY <1>1, <1>2, <1>4
  <2>3. \A e \in S.commits : Git!TargetsCounted(e) /\ (e.structure.status = "unknown" =>
                                                         e.structure.targets = {})
    BY <1>1, <1>5
  <2>4. \A x \in S.references : x.commit \in Git!CommitIds(S)
    BY <1>3, <1>4
  <2>5. \A x, y \in S.references : x.kind = y.kind /\ x.commit = y.commit => x = y
    BY <1>3
  <2>. QED BY <2>1, <2>2, <2>3, <2>4, <2>5 DEF Git!SnapshotChecked
<1>7. /\ N.commits = S.commits /\ N.references = S.references
      /\ N.live = Cardinality({e \in S.commits : e.provenance = "LIVE"})
      /\ N.imported = Cardinality({e \in S.commits : e.provenance = "IMPORTED"})
      /\ N.unknown = Cardinality({e \in S.commits : e.structure.status = "unknown"})
  <2>. HIDE DEF S
  <2>. QED BY SameCardinality DEF Git!NormalizeRepo
<1>8. Git!SnapshotChecked(N)
  <2>. HIDE DEF S, N
  <2>. QED BY <1>6, <1>7 DEF Git!SnapshotChecked, Git!CommitIds
<1>9. \A x \in N.references : \E e \in N.commits :
        e.id = x.commit /\ e.provenance = x.provenance
  <2>. HIDE DEF S, N, A, E
  <2>. QED BY <1>1, <1>2, <1>3, <1>7
<1>10. N.live + N.imported = Cardinality(N.commits)
  <2>. DEFINE L == {e \in S.commits : e.provenance = "LIVE"}
              I == {e \in S.commits : e.provenance = "IMPORTED"}
  <2>1. IsFiniteSet(S.commits)
    <3>1. IsFiniteSet(A)
      BY CapturedHead, CandidatesKnown
    <3>. DEFINE f == [c \in A |-> E(c)]
    <3>2. f \in Surjection(A, S.commits)
      <4>. HIDE DEF S, A, E
      <4>. QED BY <1>1 DEF Surjection
    <3>. HIDE DEF f, S, A
    <3>. QED BY <3>1, <3>2, FS_Surjection
  <2>2. \A e \in S.commits : e.provenance \in {"LIVE", "IMPORTED"}
    <3>1. \A c : Git!Provenance(r, c) \in {"LIVE", "IMPORTED"}
      BY DEF Git!Provenance
    <3>. HIDE DEF S, A, E
    <3>. QED BY <1>1, <1>2, <3>1
  <2>. HIDE DEF S
  <2>3. L \cup I = S.commits /\ L \cap I = {}
    BY <2>2
  <2>4. IsFiniteSet(L) /\ IsFiniteSet(I)
    <3>1. L \subseteq S.commits /\ I \subseteq S.commits
      OBVIOUS
    <3>. HIDE DEF L, I
    <3>. QED BY <2>1, <3>1, FS_Subset
  <2>5. Cardinality(L \cup I) = Cardinality(L) + Cardinality(I)
    <3>. HIDE DEF L, I
    <3>1. Cardinality(L \cap I) = 0
      BY <2>3, FS_EmptySet
    <3>2. Cardinality(L) \in Nat /\ Cardinality(I) \in Nat
      BY <2>4, FS_CardinalityType
    <3>3. Cardinality(L \cup I) = Cardinality(L) + Cardinality(I) - Cardinality(L \cap I)
      BY <2>4, FS_Union
    <3>. QED BY <3>1, <3>2, <3>3
  <2>. QED BY <1>7, <2>3, <2>5
<1>11. N.unknown = Cardinality({e \in N.commits : e.structure.classes = None})
  <2>1. \A e \in S.commits : e.structure.status = "unknown" <=> e.structure.classes = None
    <3>. HIDE DEF S, A, E
    <3>1. \A c : Git!Structure(r, c).status = "unknown"
                   <=> Git!Structure(r, c).classes = None
      <4>. TAKE c
      <4>. QED BY StructureCases
    <3>. QED BY <1>1, <1>2, <3>1
  <2>. HIDE DEF S, N
  <2>2. {e \in S.commits : e.structure.status = "unknown"}
          = {e \in S.commits : e.structure.classes = None}
    BY <2>1
  <2>. QED BY <1>7, <2>2
<1>. HIDE DEF N
<1>12. Git!RepoAccepted(N)
  BY <1>8, <1>9, <1>10, <1>11, SameCardinality DEF Git!RepoAccepted
<1>. QED BY <1>6, <1>12 DEF N

-----------------------------------------------------------------------------
(* What was captured, while the repository goes on. *)

\* The pointer is to a commit of the subject and, if to a blob, to one that
\* the commit put at a path without a merge.
PointerKept(r, pointer) ==
    /\ pointer[1] \in 1 .. Len(r.commits)
    /\ r.commits[pointer[1]].author = "subject"
    /\ pointer[2] # None =>
         /\ ~(Len(r.commits[pointer[1]].parents) > 1)
         /\ pointer[2] \in {t[2] : t \in Git!Targets(r, pointer[1])}

\* A pointer of a fresh capture is one that a later resolution does not refuse.
LEMMA CapturedKept ==
    ASSUME NEW r, RepoSound(r), Git!CaptureEnrolled(r) # None,
           NEW pointer \in Git!Pointers(Git!CaptureEnrolled(r))
    PROVE  PointerKept(r, pointer)
<1>. DEFINE A == Git!Admitted(r)
            E(c) == Git!CommitEvidence(r, c)
            S == Git!CaptureEnrolled(r)
<1>1. S.commits = {E(c) : c \in A}
  BY DEF Git!CaptureEnrolled
<1>2. \A c : E(c).id = c /\ E(c).structure = Git!Structure(r, c)
  BY DEF Git!CommitEvidence
<1>3. \A c \in A : c \in 1 .. Len(r.commits) /\ r.commits[c].author = "subject"
  BY CapturedHead, CandidatesKnown DEF Git!Admitted
<1>4. PICK e \in S.commits :
        \/ pointer = <<e.id, None>>
        \/ pointer \in {<<e.id, t[2]>> : t \in e.structure.targets}
  <2>1. pointer \in Git!Pointers(S)
    OBVIOUS
  <2>. HIDE DEF S
  <2>. QED BY <2>1 DEF Git!Pointers
<1>5. PICK c \in A : e = E(c)
  <2>. HIDE DEF A, E, S
  <2>. QED BY <1>1
<1>6. e.id = c /\ e.structure = Git!Structure(r, c)
  BY <1>2, <1>5
<1>. HIDE DEF A, E, S
<1>7. CASE pointer = <<e.id, None>>
  BY <1>3, <1>5, <1>6, <1>7 DEF PointerKept
<1>8. CASE pointer \in {<<e.id, t[2]>> : t \in e.structure.targets}
  <2>1. PICK t \in Git!Structure(r, c).targets : pointer = <<c, t[2]>>
    BY <1>6, <1>8
  <2>2. t \in Git!Targets(r, c) /\ ~(Len(r.commits[c].parents) > 1)
    BY <2>1, StructureCases
  <2>. QED BY <1>3, <1>5, <2>1, <2>2 DEF PointerKept
<1>. QED BY <1>4, <1>7, <1>8

\* A repository that has more commits keeps its pointers.
LEMMA LaterKept ==
    ASSUME NEW r, RepoSound(r), NEW s, RepoSound(s),
           Len(r.commits) <= Len(s.commits),
           \A d \in 1 .. Len(r.commits) : s.commits[d] = r.commits[d],
           NEW pointer, PointerKept(r, pointer)
    PROVE  PointerKept(s, pointer)
<1>. DEFINE c == pointer[1]
<1>1. /\ c \in 1 .. Len(r.commits) /\ c \in 1 .. Len(s.commits)
      /\ s.commits[c] = r.commits[c]
  BY DEF PointerKept, RepoSound
<1>2. r.commits[c].parents # <<>> =>
        /\ r.commits[c].parents[1] \in 1 .. Len(r.commits)
        /\ s.commits[r.commits[c].parents[1]] = r.commits[r.commits[c].parents[1]]
  <2>1. r.commits[c].parents \in Seq(Nat)
    BY <1>1 DEF RepoSound, PastParents
  <2>2. r.commits[c].parents # <<>> => 1 \in DOMAIN r.commits[c].parents
    BY <2>1
  <2>3. \A i \in DOMAIN r.commits[c].parents : r.commits[c].parents[i] \in 1 .. c - 1
    BY <1>1 DEF RepoSound, PastParents
  <2>. QED BY <1>1, <2>2, <2>3 DEF RepoSound
<1>. HIDE DEF c
<1>3. Git!TreeBefore(s, c) = Git!TreeBefore(r, c)
  BY <1>1, <1>2 DEF Git!TreeBefore, Git!ParentsOf
<1>4. Git!Changed(s, c) = Git!Changed(r, c)
  BY <1>1, <1>3 DEF Git!Changed
<1>5. Git!Targets(s, c) = Git!Targets(r, c)
  BY <1>1, <1>4 DEF Git!Targets
<1>. QED BY <1>1, <1>5 DEF PointerKept, c

\* Such a pointer is resolved or not found, and its blob was not at its path in
\* the parent, or had another mode there.
LEMMA PointerHolds ==
    ASSUME NEW r, RepoSound(r), NEW pointer, PointerKept(r, pointer)
    PROVE  /\ r.commits[pointer[1]].author = "subject"
           /\ pointer[2] # None => pointer[2] \in Git!Introduced(r, pointer[1])
                                                    \cup Git!Remoded(r, pointer[1])
           /\ Git!ResolveRepoPointer(r, pointer) # "refused"
<1>. DEFINE c == pointer[1]
            s == Git!Structure(r, c)
<1>1. ASSUME pointer[2] # None
      PROVE  pointer[2] \in Git!Introduced(r, c) \cup Git!Remoded(r, c)
  <2>1. PICK t \in Git!Targets(r, c) : pointer[2] = t[2]
    BY <1>1 DEF PointerKept
  <2>2. PICK p \in Git!Changed(r, c) : /\ t = <<ClassOf[p], r.commits[c].tree[p].blob>>
                                       /\ r.commits[c].tree[p] # None
    BY <2>1 DEF Git!Targets
  <2>3. p \in Git!Paths /\ r.commits[c].tree[p] # Git!TreeBefore(r, c)[p]
    BY <2>2 DEF Git!Changed
  <2>4. r.commits[c].parents \in Seq(Nat) /\ ~(Len(r.commits[c].parents) > 1)
    BY <1>1 DEF PointerKept, RepoSound, PastParents
  <2>5. ASSUME NEW d \in Git!ParentSet(r, c)
        PROVE  r.commits[d].tree[p] # r.commits[c].tree[p]
    <3>1. PICK i \in DOMAIN r.commits[c].parents : d = r.commits[c].parents[i]
      BY DEF Git!ParentSet, Git!ParentsOf
    <3>2. i = 1 /\ r.commits[c].parents # <<>>
      BY <2>4, <3>1
    <3>3. Git!TreeBefore(r, c) = r.commits[r.commits[c].parents[1]].tree
      BY <3>2 DEF Git!TreeBefore, Git!ParentsOf
    <3>. QED BY <2>3, <3>1, <3>2, <3>3
  <2>6. pointer[2] = r.commits[c].tree[p].blob
    BY <2>1, <2>2
  <2>. HIDE DEF c
  <2>7. p \in Git!NewEntries(r, c)
    BY <2>2, <2>3, <2>5 DEF Git!NewEntries
  <2>. QED BY <2>6, <2>7 DEF Git!Introduced, Git!Remoded
<1>2. pointer[2] # None /\ s.status = "observed" =>
        pointer[2] \in {t[2] : t \in s.targets}
  <2>1. s.status = "observed" => s.targets = Git!Targets(r, c)
    BY StructureCases
  <2>. QED BY <2>1 DEF PointerKept
<1>3. r.commits[c].author = "subject"
  BY DEF PointerKept
<1>4. Git!ResolveRepoPointer(r, pointer) # "refused"
  <2>. HIDE DEF s, c
  <2>. QED BY <1>2, <1>3 DEF Git!ResolveRepoPointer, s, c
<1>. QED BY <1>1, <1>3, <1>4

-----------------------------------------------------------------------------
(* The steps of Git and of those who use it. *)

RepoInv == /\ RepoSound(repo)
           /\ \A pointer \in captured : PointerKept(repo, pointer)

\* RepoInv holds of an empty repository.
LEMMA InitRepo == Init => RepoInv
<1>1. <<>> \in Seq(Node)
  OBVIOUS
<1>. QED BY <1>1 DEF Init, RepoInv, RepoSound, EmptyRepo, PastParents

\* A new commit on known parents.
LEMMA CommitsSound ==
    ASSUME RepoInv,
           NEW parents \in Seq(1 .. Len(repo.commits)), NEW author \in {"subject", "other"},
           NEW tree \in [DOMAIN ClassOf -> Entry \cup {None}], NEW keep \in BOOLEAN,
           Commits(parents, author, tree, keep), captured' = captured
    PROVE  RepoInv'
<1>. DEFINE n == Len(repo.commits)
            new == [parents |-> parents, author |-> author, tree |-> tree]
<1>0. repo \in [commits : Seq(Node), present : SUBSET Nat, branches : SUBSET Nat,
                head : Nat, reflog : SUBSET Nat, enrolled : Nat \cup {None}]
  BY DEF RepoInv, RepoSound
<1>1. /\ repo.commits \in Seq(Node) /\ n \in Nat
      /\ repo'.commits = Append(repo.commits, new)
      /\ repo'.branches \subseteq repo.branches \cup {n + 1}
      /\ repo'.head = n + 1
      /\ repo'.reflog = repo.reflog \cup {n + 1}
      /\ repo'.present = repo.present \cup {n + 1}
      /\ repo'.enrolled = repo.enrolled
      /\ repo' = [commits |-> repo'.commits, present |-> repo'.present,
                  branches |-> repo'.branches, head |-> repo'.head,
                  reflog |-> repo'.reflog, enrolled |-> repo'.enrolled]
  <2>. DEFINE kept == IF keep THEN repo.branches ELSE repo.branches \ {repo.head}
  <2>1. /\ repo.commits \in Seq(Node)
        /\ DOMAIN repo = {"commits", "present", "branches", "head", "reflog", "enrolled"}
    BY <1>0
  <2>2. repo' = [repo EXCEPT !.commits  = Append(repo.commits, new),
                             !.present  = repo.present \cup {n + 1},
                             !.branches = kept \cup {n + 1},
                             !.head     = n + 1,
                             !.reflog   = repo.reflog \cup {n + 1}]
    BY DEF Commits
  <2>3. kept \subseteq repo.branches
    OBVIOUS
  <2>4. n \in Nat
    BY <2>1
  <2>. HIDE DEF kept, new, n
  <2>. QED BY <1>0, <2>1, <2>2, <2>3, <2>4
<1>2. new \in Node
  <2>1. parents \in Seq(Nat)
    BY <1>1
  <2>. QED BY <2>1 DEF Node
<1>. HIDE DEF new
<1>3. /\ repo'.commits \in Seq(Node) /\ Len(repo'.commits) = n + 1
      /\ repo'.commits[n + 1] = new
      /\ \A d \in 1 .. n : repo'.commits[d] = repo.commits[d]
  BY <1>1, <1>2
<1>4. PastParents(repo)'
  <2>1. \A d \in 1 .. n + 1 :
          /\ repo'.commits[d].parents \in Seq(Nat)
          /\ \A i \in DOMAIN repo'.commits[d].parents :
                repo'.commits[d].parents[i] \in 1 .. d - 1
    <3>. TAKE d \in 1 .. n + 1
    <3>1. CASE d = n + 1
      <4>1. repo'.commits[d].parents = parents
        BY <1>3, <3>1 DEF new
      <4>2. parents \in Seq(Nat) /\ \A i \in DOMAIN parents : parents[i] \in 1 .. n
        BY <1>1
      <4>. QED BY <1>1, <3>1, <4>1, <4>2
    <3>2. CASE d # n + 1
      <4>1. d \in 1 .. n /\ repo'.commits[d] = repo.commits[d]
        BY <1>1, <1>3, <3>2
      <4>. QED BY <4>1 DEF RepoInv, RepoSound, PastParents
    <3>. QED BY <3>1, <3>2
  <2>. QED BY <1>3, <2>1 DEF PastParents
<1>5. /\ repo'.branches \subseteq 1 .. n + 1 /\ repo'.reflog \subseteq 1 .. n + 1
      /\ repo'.head \in 0 .. n + 1 /\ repo'.head # 0 /\ 0 \notin repo'.present
  <2>1. n \in Nat /\ 0 \notin repo.present /\ repo.branches \subseteq 1 .. n /\ repo.reflog \subseteq 1 .. n
    BY <1>1 DEF RepoInv, RepoSound
  <2>2. 1 .. n \subseteq 1 .. n + 1 /\ n + 1 \in 1 .. n + 1
    BY <2>1
  <2>3. repo'.branches \subseteq 1 .. n + 1
    BY <1>1, <2>1, <2>2
  <2>4. repo'.reflog \subseteq 1 .. n + 1
    BY <1>1, <2>1, <2>2
  <2>. QED BY <1>1, <2>1, <2>3, <2>4
<1>6. /\ repo'.present \in SUBSET Nat /\ repo'.enrolled \in Nat \cup {None}
      /\ repo'.branches \in SUBSET Nat /\ repo'.reflog \in SUBSET Nat /\ repo'.head \in Nat
  BY <1>1, <1>5 DEF RepoInv, RepoSound
<1>7. RepoSound(repo)'
  BY <1>1, <1>3, <1>4, <1>5, <1>6 DEF RepoSound
<1>8. ASSUME NEW pointer \in captured PROVE PointerKept(repo, pointer)'
  <2>. HIDE DEF RepoSound, PointerKept
  <2>1. RepoSound(repo) /\ RepoSound(repo') /\ PointerKept(repo, pointer)
    BY <1>7, <1>8 DEF RepoInv
  <2>2. Len(repo.commits) <= Len(repo'.commits)
    BY <1>1, <1>3
  <2>3. PointerKept(repo', pointer)
    BY <1>3, <2>1, <2>2, LaterKept
  <2>. QED BY <2>3
<1>. QED BY <1>7, <1>8 DEF RepoInv

\* A step that makes no commit and names only commits that are there.
LEMMA NamesSound ==
    ASSUME RepoInv, NEW present \in SUBSET Nat, 0 \notin present, NEW branches \in SUBSET (1 .. Len(repo.commits)),
           NEW head \in 0 .. Len(repo.commits), NEW reflog \in SUBSET (1 .. Len(repo.commits)),
           NEW enrolled \in Nat \cup {None},
           head = 0 => branches = {} /\ reflog = {},
           repo' = [commits |-> repo.commits, present |-> present, branches |-> branches,
                    head |-> head, reflog |-> reflog, enrolled |-> enrolled],
           captured' = captured
    PROVE  RepoInv'
<1>1. repo.commits \in Seq(Node) /\ Len(repo.commits) \in Nat /\ PastParents(repo)
  BY DEF RepoInv, RepoSound
<1>2. /\ repo'.commits = repo.commits /\ repo'.branches = branches /\ repo'.head = head
      /\ repo'.reflog = reflog /\ repo'.present = present
  OBVIOUS
<1>3. RepoSound(repo')
  <2>1. PastParents(repo')
    BY <1>1, <1>2 DEF PastParents
  <2>2. branches \in SUBSET Nat /\ head \in Nat /\ reflog \in SUBSET Nat
    BY <1>1
  <2>3. repo' \in [commits : Seq(Node), present : SUBSET Nat, branches : SUBSET Nat,
                   head : Nat, reflog : SUBSET Nat, enrolled : Nat \cup {None}]
    BY <1>1, <2>2
  <2>. QED BY <1>2, <2>1, <2>3 DEF RepoSound
<1>4. ASSUME NEW pointer \in captured PROVE PointerKept(repo', pointer)
  <2>1. RepoSound(repo) /\ PointerKept(repo, pointer)
    BY <1>4 DEF RepoInv
  <2>2. Len(repo.commits) <= Len(repo'.commits)
    BY <1>1, <1>2
  <2>. QED BY <1>2, <1>3, <2>1, <2>2, LaterKept
<1>. QED BY <1>3, <1>4 DEF RepoInv

\* repo is what its fields are.
LEMMA RepoFields ==
    ASSUME RepoInv
    PROVE  /\ repo \in [commits : Seq(Node), present : SUBSET Nat, branches : SUBSET Nat,
                       head : Nat, reflog : SUBSET Nat, enrolled : Nat \cup {None}]
           /\ Len(repo.commits) \in Nat
           /\ repo.commits \in Seq(Node)
           /\ repo.present \in SUBSET Nat
           /\ repo.branches \in SUBSET (1 .. Len(repo.commits))
           /\ repo.head \in 0 .. Len(repo.commits)
           /\ repo.reflog \in SUBSET (1 .. Len(repo.commits))
           /\ repo.enrolled \in Nat \cup {None}
           /\ repo.head = 0 => repo.branches = {}
           /\ repo.head = 0 => repo.reflog = {}
           /\ 0 \notin repo.present
           /\ \A d \in 1 .. Len(repo.commits) :
                /\ repo.commits[d].tree \in [DOMAIN ClassOf -> Entry \cup {None}]
                /\ repo.commits[d].parents \in Seq(1 .. d - 1)
<1>1. RepoSound(repo)
  BY DEF RepoInv
<1>2. repo.commits \in Seq(Node)
  BY <1>1 DEF RepoSound
<1>3. ASSUME NEW d \in 1 .. Len(repo.commits)
      PROVE  /\ repo.commits[d].tree \in [DOMAIN ClassOf -> Entry \cup {None}]
             /\ repo.commits[d].parents \in Seq(1 .. d - 1)
  <2>1. repo.commits[d] \in Node
    BY <1>2
  <2>2. /\ repo.commits[d].parents \in Seq(Nat)
        /\ \A i \in DOMAIN repo.commits[d].parents :
              repo.commits[d].parents[i] \in 1 .. d - 1
    BY <1>1 DEF RepoSound, PastParents
  <2>3. repo.commits[d].parents \in Seq(1 .. d - 1)
    <3>1. PICK ps : ps = repo.commits[d].parents
      OBVIOUS
    <3>2. /\ ps \in Seq(Nat)
          /\ \A i \in 1 .. Len(ps) : ps[i] \in 1 .. d - 1
      BY <2>2, <3>1
    <3>3. Len(ps) \in Nat /\ ps \in [1 .. Len(ps) -> 1 .. d - 1]
      BY <3>2
    <3>4. ps \in UNION {[1 .. n -> 1 .. d - 1] : n \in Nat}
      BY <3>3
    <3>. QED BY <3>1, <3>4, SeqDef
  <2>. QED BY <2>1, <2>3 DEF Node
<1>4. repo \in [commits : Seq(Node), present : SUBSET Nat, branches : SUBSET Nat,
                head : Nat, reflog : SUBSET Nat, enrolled : Nat \cup {None}]
  BY <1>1 DEF RepoSound
<1>. QED BY <1>1, <1>2, <1>3, <1>4 DEF RepoSound

\* A commit keeps RepoInv.
LEMMA CommitRepo == RepoInv /\ Commit => RepoInv'
<1>. SUFFICES ASSUME RepoInv, Commit PROVE RepoInv'
  OBVIOUS
<1>1. PICK author \in {"subject", "other"}, keep \in BOOLEAN,
           p \in DOMAIN ClassOf, b \in Entry \cup {None} :
         Commits(IF repo.head = 0 THEN <<>> ELSE <<repo.head>>, author,
                 [TreeOf(repo.head) EXCEPT ![p] = b], keep)
  BY DEF Commit
<1>2. TreeOf(repo.head) \in [DOMAIN ClassOf -> Entry \cup {None}]
  BY RepoFields DEF TreeOf, NoTree
<1>3. [TreeOf(repo.head) EXCEPT ![p] = b] \in [DOMAIN ClassOf -> Entry \cup {None}]
  BY <1>2
<1>4. (IF repo.head = 0 THEN <<>> ELSE <<repo.head>>) \in Seq(1 .. Len(repo.commits))
  <2>1. repo.head # 0 => repo.head \in 1 .. Len(repo.commits)
    BY RepoFields
  <2>. DEFINE S == 1 .. Len(repo.commits)
  <2>2. repo.head # 0 => <<repo.head>> \in Seq(S)
    <3>. HIDE DEF S
    <3>1. repo.head # 0 => repo.head \in S
      BY <2>1 DEF S
    <3>. QED BY <3>1
  <2>3. <<>> \in Seq(S)
    OBVIOUS
  <2>. QED BY <2>2, <2>3
<1>5. captured' = captured
  BY DEF Commit
<1>. QED BY <1>1, <1>3, <1>4, <1>5, CommitsSound

\* A merge keeps it.
LEMMA MergeRepo == RepoInv /\ Merge => RepoInv'
<1>. SUFFICES ASSUME RepoInv, Merge PROVE RepoInv'
  OBVIOUS
<1>1. PICK author \in {"subject", "other"}, other \in repo.branches \ {repo.head},
           theirs \in SUBSET DOMAIN ClassOf :
         Commits(<<repo.head, other>>, author,
                 [p \in DOMAIN ClassOf |-> IF p \in theirs THEN TreeOf(other)[p]
                                           ELSE TreeOf(repo.head)[p]],
                 FALSE)
  BY DEF Merge
<1>2. repo.head \in 1 .. Len(repo.commits) /\ other \in 1 .. Len(repo.commits)
  BY RepoFields
<1>3. \A c \in 1 .. Len(repo.commits) : TreeOf(c) \in [DOMAIN ClassOf -> Entry \cup {None}]
  BY RepoFields DEF TreeOf
<1>4. [p \in DOMAIN ClassOf |-> IF p \in theirs THEN TreeOf(other)[p]
                                ELSE TreeOf(repo.head)[p]]
        \in [DOMAIN ClassOf -> Entry \cup {None}]
  BY <1>2, <1>3
<1>5. <<repo.head, other>> \in Seq(1 .. Len(repo.commits))
  BY <1>2
<1>6. captured' = captured /\ FALSE \in BOOLEAN
  BY DEF Merge
<1>. QED BY <1>1, <1>4, <1>5, <1>6, CommitsSound

\* What moves heads, drops commits or enrolls keeps it.
LEMMA MoveRepo == RepoInv /\ (Switch \/ Reset \/ Prune \/ Enroll) => RepoInv'
<1>. SUFFICES ASSUME RepoInv, Switch \/ Reset \/ Prune \/ Enroll PROVE RepoInv'
  OBVIOUS
<1>0. captured' = captured
  BY DEF Switch, Reset, Prune, Enroll
<1>. DEFINE Fields == [commits : Seq(Node), present : SUBSET Nat, branches : SUBSET Nat,
                       head : Nat, reflog : SUBSET Nat, enrolled : Nat \cup {None}]
<1>5. repo \in Fields
  BY RepoFields
<1>1. CASE Switch
  <2>1. PICK c \in repo.branches : repo' = [repo EXCEPT !.head = c]
    BY <1>1 DEF Switch
  <2>2. repo' = [commits |-> repo.commits, present |-> repo.present,
                 branches |-> repo.branches, head |-> c,
                 reflog |-> repo.reflog, enrolled |-> repo.enrolled]
    BY <1>5, <2>1
  <2>3. c \in 0 .. Len(repo.commits) /\ c # 0
    BY <2>1, RepoFields
  <2>. HIDE DEF Fields
  <2>. QED BY <1>0, <2>2, <2>3, RepoFields, NamesSound
<1>2. CASE Reset
  <2>. DEFINE parent == repo.commits[repo.head].parents[1]
              names  == (repo.branches \ {repo.head}) \cup {parent}
  <2>1. /\ repo.head # 0 /\ repo.commits[repo.head].parents # <<>>
        /\ repo' = [repo EXCEPT !.branches = names, !.head = parent]
    BY <1>2 DEF Reset, Git!ParentsOf
  <2>2. parent \in 1 .. Len(repo.commits)
    <3>1. repo.head \in 1 .. Len(repo.commits)
      BY <2>1, RepoFields
    <3>2. repo.commits[repo.head].parents \in Seq(1 .. repo.head - 1)
      BY <3>1, RepoFields
    <3>. DEFINE before == repo.commits[repo.head].parents
    <3>3. before \in Seq(1 .. repo.head - 1) /\ before # <<>>
      BY <2>1, <3>2
    <3>4. before[1] \in 1 .. repo.head - 1
      <4>. DEFINE S == 1 .. repo.head - 1
      <4>1. before \in Seq(S) /\ before # <<>>
        BY <3>3
      <4>. HIDE DEF before, S
      <4>2. before[1] \in S
        BY <4>1
      <4>. QED BY <4>2 DEF S
    <3>. QED BY <3>1, <3>4, RepoFields
  <2>. HIDE DEF parent
  <2>3. parent \in 0 .. Len(repo.commits) /\ parent # 0
        /\ names \in SUBSET (1 .. Len(repo.commits))
    BY <2>2, RepoFields
  <2>. HIDE DEF names
  <2>4. repo' = [commits |-> repo.commits, present |-> repo.present,
                 branches |-> names, head |-> parent,
                 reflog |-> repo.reflog, enrolled |-> repo.enrolled]
    BY <1>5, <2>1
  <2>. HIDE DEF Fields
  <2>. QED BY <1>0, <2>3, <2>4, RepoFields, NamesSound
<1>3. CASE Prune
  <2>0. PICK rest : rest = [repo EXCEPT !.reflog = {}]
    OBVIOUS
  <2>1. repo' = [rest EXCEPT !.present = Git!Candidates(rest)]
    BY <1>3, <2>0 DEF Prune
  <2>2. rest = [commits |-> repo.commits, present |-> repo.present,
                branches |-> repo.branches, head |-> repo.head,
                reflog |-> {}, enrolled |-> repo.enrolled]
    BY <1>5, <2>0
  <2>3. RepoSound(rest)
    <3>1. PastParents(rest) /\ repo \in [commits : Seq(Node), present : SUBSET Nat,
            branches : SUBSET Nat, head : Nat, reflog : SUBSET Nat, enrolled : Nat \cup {None}]
      BY <2>2 DEF RepoInv, RepoSound, PastParents
    <3>2. rest \in [commits : Seq(Node), present : SUBSET Nat,
            branches : SUBSET Nat, head : Nat, reflog : SUBSET Nat, enrolled : Nat \cup {None}]
      BY <2>2, <3>1
    <3>. QED BY <2>2, <3>1, <3>2, RepoFields DEF RepoSound
  <2>4. Git!Candidates(rest) \in SUBSET Nat /\ 0 \notin Git!Candidates(rest)
    <3>0. rest.head # 0
      BY <1>3, <2>2, RepoFields DEF Prune
    <3>1. Git!Candidates(rest) \subseteq 1 .. Len(rest.commits)
      BY <2>3, <3>0, CandidatesKnown
    <3>2. rest.commits = repo.commits
      BY <2>2
    <3>. HIDE DEF Fields
    <3>. QED BY <3>1, <3>2, RepoFields
  <2>. DEFINE left == Git!Candidates(rest)
  <2>. HIDE DEF left
  <2>5. repo' = [commits |-> repo.commits, present |-> left,
                 branches |-> repo.branches, head |-> repo.head,
                 reflog |-> {}, enrolled |-> repo.enrolled]
    BY <2>1, <2>2 DEF left
  <2>6. left \in SUBSET Nat /\ 0 \notin left /\ {} \in SUBSET (1 .. Len(repo.commits))
    BY <2>4 DEF left
  <2>. QED BY <1>0, <2>5, <2>6, RepoFields, NamesSound
<1>4. CASE Enroll
  <2>1. repo' = [repo EXCEPT !.enrolled = repo.head]
    BY <1>4 DEF Enroll
  <2>2. /\ repo' = [commits |-> repo.commits, present |-> repo.present,
                    branches |-> repo.branches, head |-> repo.head,
                    reflog |-> repo.reflog, enrolled |-> repo.head]
        /\ repo.head \in Nat \cup {None}
    BY <1>5, <2>1
  <2>. QED BY <1>0, <2>2, RepoFields, NamesSound
<1>. QED BY <1>1, <1>2, <1>3, <1>4

\* So every step keeps it.
LEMMA NextRepo == RepoInv /\ [Next]_vars => RepoInv'
<1>. SUFFICES ASSUME RepoInv, [Next]_vars PROVE RepoInv'
  OBVIOUS
<1>1. CASE UNCHANGED <<repo, captured>>
  BY <1>1 DEF RepoInv, RepoSound, PastParents, PointerKept
<1>2. CASE Capture
  <2>1. repo' = repo /\ Git!CaptureEnrolled(repo) # None
        /\ captured' = Git!Pointers(Git!CaptureEnrolled(repo))
    BY <1>2 DEF Capture
  <2>2. \A pointer \in captured' : PointerKept(repo', pointer)
    BY <2>1, CapturedKept DEF RepoInv
  <2>. QED BY <2>1, <2>2 DEF RepoInv
<1>3. ReadClaude \/ ReadCodex \/ AppendRow \/ AddLeaf \/ AdmitSession \/ ReadDated
        => UNCHANGED <<repo, captured>>
  BY DEF ReadClaude, ReadCodex, AppendRow, AddLeaf, AdmitSession, ReadDated, Read
<1>. QED BY <1>1, <1>2, <1>3, CommitRepo, MergeRepo, MoveRepo DEF Next, vars

\* At any moment a capture of an enrolled repository is one the normalizer takes
\* and its validator accepts, its blobs are those that the subject's commits
\* brought in or gave another mode, and its pointers are never refused later - for
\* any history, with any number of paths, merges, resets and prunes.
THEOREM RepositoryEvidence == Spec => []RepoEvidenceHolds
<1>1. RepoInv => RepoEvidenceHolds
  <2>. SUFFICES ASSUME RepoInv PROVE RepoEvidenceHolds
    OBVIOUS
  <2>1. ASSUME Git!CaptureEnrolled(repo) # None
        PROVE  /\ Git!SnapshotChecked(Git!CaptureEnrolled(repo))
               /\ Git!RepoAccepted(Git!NormalizeRepo(Git!CaptureEnrolled(repo)))
    BY <2>1, SnapshotHolds DEF RepoInv
  <2>2. ASSUME NEW pointer \in captured
        PROVE  /\ repo.commits[pointer[1]].author = "subject"
               /\ pointer[2] # None => pointer[2] \in Git!Introduced(repo, pointer[1])
                                                        \cup Git!Remoded(repo, pointer[1])
               /\ Git!ResolveRepoPointer(repo, pointer) # "refused"
    BY <2>2, PointerHolds DEF RepoInv
  <2>. QED BY <2>1, <2>2 DEF RepoEvidenceHolds
<1>. QED BY <1>1, InitRepo, NextRepo, PTL DEF Spec

-----------------------------------------------------------------------------
(* Time. *)

Record == [attribution : {"subject", "unknown"},
           marker : {"open", "close", "plain", "malformed"}, at : Int \cup {None}]

\* A session with its hooks' word in order.
SessionOk(s) ==
    /\ s \in [source : {"claude", "codex"}, started : Int \cup {None},
              ended : Int \cup {None}, records : Seq(Record)]
    /\ s.started # None /\ s.ended # None => s.started <= s.ended

\* The least of some numbers that have a lower bound.
LEMMA FirstIs ==
    ASSUME NEW S, S \subseteq Int, S # {}, NEW a \in Int, \A x \in S : a <= x
    PROVE  /\ Clock!First(S) \in S
           /\ \A y \in S : Clock!First(S) <= y
<1>. DEFINE D == {x - a : x \in S}
<1>0. \A x \in S : x - a \in Nat
  OBVIOUS
<1>1. D \subseteq Nat /\ D # {}
  BY <1>0
<1>2. PICK d \in D : \A y \in D : d <= y
  <2>. HIDE DEF D
  <2>. QED BY <1>1, Smallest
<1>3. PICK x \in S : d = x - a
  BY <1>2
<1>4. \A y \in S : x <= y
  <2>. TAKE y \in S
  <2>1. y - a \in D
    OBVIOUS
  <2>2. x - a <= y - a
    BY <1>2, <1>3, <2>1
  <2>. QED BY <2>2
<1>. QED BY <1>3, <1>4 DEF Clock!First

\* Final is the greatest member.
LEMMA FinalIs ==
    ASSUME NEW S, S \subseteq Int, S # {}, NEW z \in Int, \A x \in S : x <= z
    PROVE  /\ Clock!Final(S) \in S
           /\ \A y \in S : y <= Clock!Final(S)
<1>. DEFINE D == {z - x : x \in S}
<1>0. \A x \in S : z - x \in Nat
  OBVIOUS
<1>1. D \subseteq Nat /\ D # {}
  BY <1>0
<1>2. PICK d \in D : \A y \in D : d <= y
  <2>. HIDE DEF D
  <2>. QED BY <1>1, Smallest
<1>3. PICK x \in S : d = z - x
  BY <1>2
<1>4. \A y \in S : y <= x
  <2>. TAKE y \in S
  <2>1. z - y \in D
    OBVIOUS
  <2>2. z - x <= z - y
    BY <1>2, <1>3, <2>1
  <2>. QED BY <2>2
<1>. QED BY <1>3, <1>4 DEF Clock!Final

\* The fields of a session, with their types.
LEMMA SessionFields ==
    ASSUME NEW s, SessionOk(s)
    PROVE  /\ s.started \in Int \cup {None} /\ s.ended \in Int \cup {None}
           /\ Len(s.records) \in Nat /\ DOMAIN s.records = 1 .. Len(s.records)
           /\ \A n \in DOMAIN s.records :
                /\ s.records[n] \in Record
                /\ s.records[n].at \in Int \cup {None}
                /\ s.records[n].attribution \in {"subject", "unknown"}
<1>1. s.started \in Int \cup {None} /\ s.ended \in Int \cup {None} /\ s.records \in Seq(Record)
  BY DEF SessionOk
<1>2. Len(s.records) \in Nat /\ DOMAIN s.records = 1 .. Len(s.records)
  BY <1>1
<1>3. \A n \in DOMAIN s.records : s.records[n] \in Record
  BY <1>1
<1>4. \A r \in Record : r.at \in Int \cup {None} /\ r.attribution \in {"subject", "unknown"}
  BY DEF Record
<1>. HIDE DEF Record
<1>. QED BY <1>1, <1>2, <1>3, <1>4

\* A boundary has a time exactly when it has a status.
Boundary(b) == /\ b.at \in Int \cup {None}
               /\ b.at = None <=> b.status = "unknown"

\* The first and the last boundary of a kind are records that were decoded.
LEMMA MarksIn ==
    ASSUME NEW s, SessionOk(s), NEW m, Clock!Marked(s, m) # {}
    PROVE  /\ Clock!First(Clock!Marked(s, m)) \in Clock!Marked(s, m)
           /\ Clock!Final(Clock!Marked(s, m)) \in Clock!Marked(s, m)
           /\ Clock!Marked(s, m) \subseteq Clock!Decoded(s)
           /\ Clock!Decoded(s) \subseteq 1 .. Len(s.records)
<1>1. Len(s.records) \in Nat /\ DOMAIN s.records = 1 .. Len(s.records)
  BY DEF SessionOk
<1>2. /\ Clock!Marked(s, m) \subseteq Clock!Decoded(s)
      /\ Clock!Decoded(s) \subseteq 1 .. Len(s.records)
  BY <1>1 DEF Clock!Marked, Clock!Decoded
<1>3. /\ Clock!Marked(s, m) \subseteq Int
      /\ \A x \in Clock!Marked(s, m) : 1 <= x /\ x <= Len(s.records)
  BY <1>1, <1>2
<1>4. Clock!First(Clock!Marked(s, m)) \in Clock!Marked(s, m)
  <2>1. 1 \in Int
    OBVIOUS
  <2>. QED BY <1>3, <2>1, FirstIs
<1>5. Clock!Final(Clock!Marked(s, m)) \in Clock!Marked(s, m)
  <2>1. Len(s.records) \in Int
    BY <1>1
  <2>. QED BY <1>3, <2>1, FinalIs
<1>. QED BY <1>2, <1>4, <1>5

\* A session opens at its hook's time where there is one.
LEMMA OpenedIs ==
    ASSUME NEW s, SessionOk(s)
    PROVE  /\ Boundary(Clock!Opened(s))
           /\ s.started # None => Clock!Opened(s).at = s.started
<1>. DEFINE marks == Clock!Marked(s, "open")
            i == Clock!First(marks)
<1>1. /\ s.started \in Int \cup {None}
      /\ \A n \in DOMAIN s.records : s.records[n].at \in Int \cup {None}
  BY SessionFields
<1>2. Clock!MarkerStatus(s) \in {"observed", "scan-inferred"}
  BY DEF Clock!MarkerStatus
<1>3. i \in Clock!Dated(s) => s.records[i].at \in Int \cup {None} /\ s.records[i].at # None
  BY <1>1 DEF Clock!Dated
<1>4. CASE s.started # None
  BY <1>1, <1>4 DEF Clock!Opened, Boundary
<1>5. CASE s.started = None /\ marks # {} /\ i \in Clock!Dated(s)
  <2>1. Clock!Opened(s).at = s.records[i].at /\ Clock!Opened(s).status = Clock!MarkerStatus(s)
    BY <1>5 DEF Clock!Opened
  <2>. QED BY <1>2, <1>3, <1>5, <2>1 DEF Boundary
<1>6. CASE s.started = None /\ ~(marks # {} /\ i \in Clock!Dated(s))
  <2>1. Clock!Opened(s).at = None /\ Clock!Opened(s).status = "unknown"
    BY <1>6 DEF Clock!Opened
  <2>. QED BY <1>6, <2>1 DEF Boundary
<1>. QED BY <1>4, <1>5, <1>6

\* And closes at its hook's time where there is one.
LEMMA ClosedIs ==
    ASSUME NEW s, SessionOk(s)
    PROVE  /\ Boundary(Clock!Closed(s))
           /\ s.ended # None => Clock!Closed(s).at = s.ended
<1>. DEFINE marks == Clock!Marked(s, "close")
            i == Clock!Final(marks)
<1>1. /\ s.ended \in Int \cup {None}
      /\ \A n \in DOMAIN s.records : s.records[n].at \in Int \cup {None}
  BY SessionFields
<1>2. Clock!MarkerStatus(s) \in {"observed", "scan-inferred"}
  BY DEF Clock!MarkerStatus
<1>3. i \in Clock!Dated(s) => s.records[i].at \in Int \cup {None} /\ s.records[i].at # None
  BY <1>1 DEF Clock!Dated
<1>4. CASE s.ended # None
  BY <1>1, <1>4 DEF Clock!Closed, Boundary
<1>5. CASE s.ended = None /\ marks # {} /\ i \in Clock!Dated(s)
  <2>1. Clock!Closed(s).at = s.records[i].at /\ Clock!Closed(s).status = Clock!MarkerStatus(s)
    BY <1>5 DEF Clock!Closed
  <2>. QED BY <1>2, <1>3, <1>5, <2>1 DEF Boundary
<1>6. CASE s.ended = None /\ ~(marks # {} /\ i \in Clock!Dated(s))
  <2>1. Clock!Closed(s).at = None /\ Clock!Closed(s).status = "unknown"
    BY <1>6 DEF Clock!Closed
  <2>. QED BY <1>6, <2>1 DEF Boundary
<1>. QED BY <1>4, <1>5, <1>6

\* Boundaries are in order, or the close is not known.
LEMMA BoundariesAre ==
    ASSUME NEW s, SessionOk(s)
    PROVE  LET b == Clock!Boundaries(s)
           IN  /\ Boundary(b.open) /\ Boundary(b.close)
               /\ b.open.at # None /\ b.close.at # None => b.open.at <= b.close.at
<1>. DEFINE open  == Clock!Opened(s)
            close == Clock!Closed(s)
            reversed == open.at # None /\ close.at # None /\ open.at > close.at
<1>1. Boundary(open) /\ Boundary(close)
  BY OpenedIs, ClosedIs
<1>2. Clock!Boundaries(s) =
        [open |-> open, close |-> IF reversed
                                    THEN [close EXCEPT !.at = None, !.status = "unknown"]
                                    ELSE close]
  BY DEF Clock!Boundaries
<1>3. DOMAIN close = {"at", "status", "index"}
  BY DEF Clock!Closed
<1>. HIDE DEF open, close
<1>4. CASE reversed
  <2>. DEFINE cut == [close EXCEPT !.at = None, !.status = "unknown"]
  <2>0. cut.at = None /\ cut.status = "unknown"
    BY <1>3
  <2>. HIDE DEF cut
  <2>3. Clock!Boundaries(s) = [open |-> open, close |-> cut]
    BY <1>2, <1>4 DEF cut
  <2>1. /\ Clock!Boundaries(s).open = open
        /\ Clock!Boundaries(s).close.at = None /\ Clock!Boundaries(s).close.status = "unknown"
    BY <2>0, <2>3
  <2>. QED BY <1>1, <2>1 DEF Boundary
<1>5. CASE ~reversed
  <2>1. Clock!Boundaries(s).open = open /\ Clock!Boundaries(s).close = close
    BY <1>2, <1>5
  <2>. QED BY <1>1, <1>5, <2>1 DEF Boundary
<1>. QED BY <1>4, <1>5

\* The fields of a timing, and the dates it counts.
LEMMA TimingFields ==
    ASSUME NEW s
    PROVE  LET t == Clock!Timing(s)
               b == Clock!Boundaries(s)
               E == Clock!Eligible(s, b)
               C == Clock!Counted(s, b)
           IN  /\ t.open = b.open.status /\ t.close = b.close.status
               /\ t.openedAt = b.open.at /\ t.closedAt = b.close.at
               /\ t.observed = {s.records[i].at : i \in C}
               /\ t.coverage = "unknown" <=> E = {}
               /\ t.coverage = "complete" <=> E # {} /\ C = E
<1>. DEFINE b == Clock!Boundaries(s)
            E == Clock!Eligible(s, b)
            C == Clock!Counted(s, b)
<1>1. Clock!Timing(s) =
        [open     |-> b.open.status,
         close    |-> b.close.status,
         openedAt |-> b.open.at,
         closedAt |-> b.close.at,
         observed |-> {s.records[i].at : i \in C},
         coverage |-> CASE E = {} -> "unknown"
                        [] E # {} /\ C = E -> "complete"
                        [] OTHER -> "partial"]
  BY DEF Clock!Timing
<1>. HIDE DEF b, E, C
<1>2. CASE E = {}
  BY <1>1, <1>2 DEF b, E, C
<1>3. CASE E # {} /\ C = E
  BY <1>1, <1>3 DEF b, E, C
<1>4. CASE E # {} /\ C # E
  BY <1>1, <1>4 DEF b, E, C
<1>. QED BY <1>2, <1>3, <1>4

\* Records that count are dated ones of the subject within the boundaries.
LEMMA CountedIs ==
    ASSUME NEW s, SessionOk(s), NEW b
    PROVE  /\ Clock!Counted(s, b) \subseteq Clock!Eligible(s, b)
           /\ Clock!Eligible(s, b) \subseteq Clock!Decoded(s)
           /\ \A i \in Clock!Eligible(s, b) :
                i \in Clock!Counted(s, b) <=>
                  /\ i \in Clock!Dated(s)
                  /\ b.open.at # None => b.open.at <= s.records[i].at
                  /\ b.close.at # None => s.records[i].at <= b.close.at
           /\ \A i \in Clock!Counted(s, b) : s.records[i].at \in Int
<1>1. /\ Clock!Counted(s, b) \subseteq Clock!Eligible(s, b)
      /\ Clock!Eligible(s, b) \subseteq Clock!Decoded(s)
      /\ \A i \in Clock!Eligible(s, b) :
           i \in Clock!Counted(s, b) <=>
             /\ i \in Clock!Dated(s)
             /\ b.open.at # None => b.open.at <= s.records[i].at
             /\ b.close.at # None => s.records[i].at <= b.close.at
  BY DEF Clock!Counted, Clock!Eligible
<1>2. \A i \in Clock!Dated(s) : s.records[i].at \in Int
  BY SessionFields DEF Clock!Dated
<1>3. Clock!Counted(s, b) \subseteq Clock!Dated(s)
  BY DEF Clock!Counted
<1>. QED BY <1>1, <1>2, <1>3

\* A timing can be built of every session.
LEMMA TimingConstructible ==
    ASSUME NEW s, SessionOk(s)
    PROVE  Clock!Constructible(Clock!Timing(s))
<1>. DEFINE t == Clock!Timing(s)
            b == Clock!Boundaries(s)
<1>1. /\ t.open = b.open.status /\ t.close = b.close.status
      /\ t.openedAt = b.open.at /\ t.closedAt = b.close.at
      /\ t.observed = {s.records[i].at : i \in Clock!Counted(s, b)}
      /\ t.coverage = "unknown" => Clock!Eligible(s, b) = {}
  BY TimingFields
<1>2. /\ Boundary(b.open) /\ Boundary(b.close)
      /\ b.open.at # None /\ b.close.at # None => b.open.at <= b.close.at
  BY BoundariesAre
<1>3. Clock!Counted(s, b) \subseteq Clock!Eligible(s, b)
  BY CountedIs
<1>. HIDE DEF t, b
<1>4. t.coverage = "unknown" => t.observed = {}
  BY <1>1, <1>3
<1>5. Clock!Constructible(t)
  BY <1>1, <1>2, <1>4 DEF Clock!Constructible, Boundary
<1>. QED BY <1>5 DEF t

\* Full coverage is only given where all is dated (CompleteIsEarned).
LEMMA CompleteEarned ==
    ASSUME NEW s, SessionOk(s)
    PROVE  Clock!CompleteIsEarned(s)
<1>. DEFINE b == Clock!Boundaries(s)
            E == Clock!Eligible(s, b)
            C == Clock!Counted(s, b)
<1>1. Clock!Timing(s).coverage = "complete" <=> E # {} /\ C = E
  BY TimingFields
<1>2. /\ C \subseteq E
      /\ \A i \in E : i \in C <=>
           /\ i \in Clock!Dated(s)
           /\ b.open.at # None => b.open.at <= s.records[i].at
           /\ b.close.at # None => s.records[i].at <= b.close.at
  BY CountedIs
<1>. HIDE DEF C, b
<1>. QED BY <1>1, <1>2 DEF Clock!CompleteIsEarned, b

\* Records of another's authorship change nothing.
LEMMA UnknownIgnored ==
    ASSUME NEW s, SessionOk(s)
    PROVE  Clock!Timing(Clock!WithoutUnknown(s)) = Clock!Timing(s)
<1>. DEFINE blank == [attribution |-> "unknown", marker |-> "plain", at |-> None]
<1>0. PICK w : w = Clock!WithoutUnknown(s)
  OBVIOUS
<1>1. /\ w.source = s.source /\ w.started = s.started /\ w.ended = s.ended
      /\ w.records = [i \in DOMAIN s.records |->
                        IF s.records[i].attribution = "subject" THEN s.records[i] ELSE blank]
  BY <1>0 DEF Clock!WithoutUnknown, SessionOk
<1>2. /\ DOMAIN w.records = DOMAIN s.records
      /\ \A i \in DOMAIN s.records :
           w.records[i] = IF s.records[i].attribution = "subject" THEN s.records[i] ELSE blank
  BY <1>1
<1>3. Clock!Decoded(w) = Clock!Decoded(s)
  BY <1>2 DEF Clock!Decoded
<1>4. \A i \in Clock!Decoded(s) : i \in DOMAIN s.records /\ w.records[i] = s.records[i]
  BY <1>2 DEF Clock!Decoded
<1>5. \A m : Clock!Marked(w, m) = Clock!Marked(s, m)
  BY <1>3, <1>4 DEF Clock!Marked
<1>6. \A i \in Clock!Decoded(s) : i \in Clock!Dated(w) <=> i \in Clock!Dated(s)
  BY <1>2, <1>4 DEF Clock!Dated
<1>7. Clock!MarkerStatus(w) = Clock!MarkerStatus(s)
  BY <1>1 DEF Clock!MarkerStatus
<1>8. Clock!Opened(w) = Clock!Opened(s)
  <2>. DEFINE marks == Clock!Marked(s, "open")
  <2>1. marks # {} => Clock!First(marks) \in Clock!Decoded(s)
    BY MarksIn
  <2>2. marks # {} => /\ Clock!First(marks) \in Clock!Dated(w)
                           <=> Clock!First(marks) \in Clock!Dated(s)
                      /\ w.records[Clock!First(marks)] = s.records[Clock!First(marks)]
    BY <1>4, <1>6, <2>1
  <2>3. Clock!Marked(w, "open") = marks
    BY <1>5
  <2>. HIDE DEF marks
  <2>. QED BY <1>1, <1>7, <2>2, <2>3 DEF Clock!Opened, marks
<1>9. Clock!Closed(w) = Clock!Closed(s)
  <2>. DEFINE marks == Clock!Marked(s, "close")
  <2>1. marks # {} => Clock!Final(marks) \in Clock!Decoded(s)
    BY MarksIn
  <2>2. marks # {} => /\ Clock!Final(marks) \in Clock!Dated(w)
                           <=> Clock!Final(marks) \in Clock!Dated(s)
                      /\ w.records[Clock!Final(marks)] = s.records[Clock!Final(marks)]
    BY <1>4, <1>6, <2>1
  <2>3. Clock!Marked(w, "close") = marks
    BY <1>5
  <2>. HIDE DEF marks
  <2>. QED BY <1>1, <1>7, <2>2, <2>3 DEF Clock!Closed, marks
<1>10. Clock!Boundaries(w) = Clock!Boundaries(s)
  BY <1>8, <1>9 DEF Clock!Boundaries
<1>. DEFINE b == Clock!Boundaries(s)
            E == Clock!Eligible(s, b)
            C == Clock!Counted(s, b)
<1>11. Clock!Eligible(w, b) = E
  BY <1>3 DEF Clock!Eligible
<1>12. E \subseteq Clock!Decoded(s)
  BY DEF Clock!Eligible
<1>. HIDE DEF b, E
<1>13. Clock!Counted(w, b) = C
  BY <1>4, <1>6, <1>11, <1>12 DEF Clock!Counted, E
<1>14. {w.records[i].at : i \in C} = {s.records[i].at : i \in C}
  BY <1>4, <1>12 DEF Clock!Counted, E
<1>15. Clock!Timing(w) = Clock!Timing(s)
  <2>. HIDE DEF C
  <2>. QED BY <1>10, <1>11, <1>13, <1>14 DEF Clock!Timing, b, C, E
<1>. QED BY <1>0, <1>15

\* The instants of a timing, the next one, and what counts of the gap to it.
Points(t)  == {t.openedAt, t.closedAt} \cup t.observed
Earlier(t) == {p \in Points(t) : \E q \in Points(t) : p < q}
Next1(t, p) == Clock!First({q \in Points(t) : p < q})
Gap(t, p)  == IF Next1(t, p) - p <= IdleGap THEN Next1(t, p) - p ELSE 0

\* f sums the gaps over every set of the domain D, in the order of CHOOSE.
Summed(t, D, f) ==
    f = [s \in D |-> IF s = {} THEN 0
                     ELSE Gap(t, CHOOSE x \in s : TRUE) + f[s \ {CHOOSE x \in s : TRUE}]]

\* ActiveDuration is the sum that Summed describes.
LEMMA DurationIs ==
    ASSUME NEW t
    PROVE  Clock!ActiveDuration(t) =
             (CHOOSE f : Summed(t, SUBSET Earlier(t), f))[Earlier(t)]
BY DEF Clock!ActiveDuration, Clock!MapThenSumSet, Clock!MapThenFoldSet,
       Summed, Earlier, Points, Gap, Next1

Small(S, n) == {s \in SUBSET S : Cardinality(s) <= n}

\* The recursion has a solution.
LEMMA SummedExists ==
    ASSUME NEW t, NEW S, IsFiniteSet(S)
    PROVE  \E f : Summed(t, SUBSET S, f)
<1>. DEFINE D == {n \in Nat : ~ \E f : Summed(t, Small(S, n), f)}
<1>0. \A s \in SUBSET S : /\ IsFiniteSet(s) /\ Cardinality(s) \in Nat
                          /\ Cardinality(s) <= Cardinality(S)
                          /\ Cardinality(s) = 0 <=> s = {}
  BY FS_Subset, FS_CardinalityType, FS_EmptySet
<1>1. \A s \in SUBSET S : s # {} =>
        /\ (CHOOSE x \in s : TRUE) \in s
        /\ s \ {CHOOSE x \in s : TRUE} \in SUBSET S
        /\ Cardinality(s \ {CHOOSE x \in s : TRUE}) = Cardinality(s) - 1
  <2>. TAKE s \in SUBSET S
  <2>. SUFFICES ASSUME s # {}
                PROVE  /\ (CHOOSE x \in s : TRUE) \in s
                       /\ s \ {CHOOSE x \in s : TRUE} \in SUBSET S
                       /\ Cardinality(s \ {CHOOSE x \in s : TRUE}) = Cardinality(s) - 1
    OBVIOUS
  <2>1. PICK x : x = CHOOSE y \in s : TRUE
    OBVIOUS
  <2>2. x \in s
    BY <2>1
  <2>. QED BY <1>0, <2>1, <2>2, FS_RemoveElement
<1>2. ASSUME D # {} PROVE FALSE
  <2>0. D \subseteq Nat
    OBVIOUS
  <2>1. PICK m \in D : \A k \in D : m <= k
    <3>. HIDE DEF D
    <3>. QED BY <1>2, <2>0, Smallest
  <2>2. m # 0
    <3>1. Small(S, 0) = {{}}
      BY <1>0 DEF Small
    <3>2. Summed(t, {{}}, [s \in {{}} |-> 0])
      BY DEF Summed
    <3>. QED BY <2>1, <3>1, <3>2
  <2>3. PICK f : Summed(t, Small(S, m - 1), f)
    BY <2>1, <2>2
  <2>. DEFINE pick(s) == CHOOSE x \in s : TRUE
              body(g, s) == IF s = {} THEN 0 ELSE Gap(t, pick(s)) + g[s \ {pick(s)}]
              h == [s \in Small(S, m) |-> body(f, s)]
  <2>4. \A s \in Small(S, m) : s # {} => s \ {pick(s)} \in Small(S, m - 1)
    BY <1>0, <1>1, <2>1, <2>2 DEF Small
  <2>5. \A s \in Small(S, m - 1) : s \in Small(S, m) /\ f[s] = body(f, s)
    <3>1. \A s \in Small(S, m - 1) : s \in Small(S, m)
      BY <1>0, <2>1 DEF Small
    <3>2. \A s \in Small(S, m - 1) : f[s] = body(f, s)
      BY <2>3 DEF Summed
    <3>. QED BY <3>1, <3>2
  <2>6. \A s \in Small(S, m - 1) : h[s] = f[s]
    BY <2>5
  <2>7. \A s \in Small(S, m) : body(f, s) = body(h, s)
    <3>. HIDE DEF pick, h
    <3>. QED BY <2>4, <2>6
  <2>8. h = [s \in Small(S, m) |-> body(h, s)]
    <3>1. \A s \in Small(S, m) : h[s] = body(h, s)
      <4>. HIDE DEF body
      <4>. QED BY <2>7
    <3>2. h = [s \in Small(S, m) |-> h[s]]
      OBVIOUS
    <3>. HIDE DEF h, body
    <3>. QED BY <3>1, <3>2
  <2>9. Summed(t, Small(S, m), h)
    <3>. HIDE DEF h
    <3>. QED BY <2>8 DEF Summed
  <2>. QED BY <2>1, <2>9
<1>3. Small(S, Cardinality(S)) = SUBSET S
  BY <1>0 DEF Small
<1>4. Cardinality(S) \in Nat
  BY FS_CardinalityType
<1>5. Cardinality(S) \notin D
  BY <1>2
<1>6. \E f : Summed(t, Small(S, Cardinality(S)), f)
  BY <1>4, <1>5
<1>. QED BY <1>3, <1>6

\* Where an instant is between its own and the next, no other one is; what lies
\* between the instants of s and the next ones.
Between(t, p) == p .. Next1(t, p) - 1
Covered(t, s) == UNION {Between(t, p) : p \in s}

\* Between two instants are as many seconds as their difference.
LEMMA Interval ==
    ASSUME NEW a \in Int, NEW z \in Int, a <= z
    PROVE  IsFiniteSet(a .. z - 1) /\ Cardinality(a .. z - 1) = z - a
<1>1. PICK b \in Int : b = z - 1
  OBVIOUS
<1>2. IsFiniteSet(a .. b) /\ Cardinality(a .. b) = IF a > b THEN 0 ELSE b - a + 1
  BY FS_Interval
<1>3. (IF a > b THEN 0 ELSE b - a + 1) = z - a
  BY <1>1
<1>. QED BY <1>1, <1>2, <1>3

\* Activity is time within the session.
LEMMA DurationWithin ==
    ASSUME NEW t, NEW a \in Int, NEW z \in Int, a <= z,
           t.openedAt = a, t.closedAt = z, t.observed \subseteq a .. z
    PROVE  Clock!ActiveDuration(t) \in 0 .. z - a
<1>. DEFINE P == Points(t)
            S == Earlier(t)
            f == CHOOSE f : Summed(t, SUBSET S, f)
<1>1. P \subseteq a .. z /\ a \in P /\ z \in P
  BY DEF Points
<1>2. S \subseteq P /\ S \subseteq a .. z - 1 /\ IsFiniteSet(S)
  <2>1. S \subseteq P /\ S \subseteq a .. z - 1
    BY <1>1 DEF Earlier
  <2>2. IsFiniteSet(a .. z - 1)
    BY FS_Interval
  <2>. QED BY <2>1, <2>2, FS_Subset
<1>3. ASSUME NEW p \in S
      PROVE  /\ p \in Int /\ Next1(t, p) \in P /\ Next1(t, p) \in Int /\ p < Next1(t, p)
             /\ \A q \in P : p < q => Next1(t, p) <= q
             /\ Gap(t, p) \in 0 .. Next1(t, p) - p
  <2>. DEFINE L == {q \in P : p < q}
  <2>1. L \subseteq Int /\ L # {} /\ p \in Int /\ \A x \in L : p <= x
    BY <1>1, <1>2 DEF Earlier
  <2>2. Clock!First(L) \in L /\ \A y \in L : Clock!First(L) <= y
    <3>. HIDE DEF L
    <3>. QED BY <2>1, FirstIs
  <2>3. Next1(t, p) = Clock!First(L)
    BY DEF Next1
  <2>4. /\ Next1(t, p) \in P /\ Next1(t, p) \in Int /\ p < Next1(t, p)
        /\ \A q \in P : p < q => Next1(t, p) <= q
    BY <2>1, <2>2, <2>3
  <2>5. Gap(t, p) \in 0 .. Next1(t, p) - p
    BY <2>1, <2>4 DEF Gap
  <2>. QED BY <2>1, <2>4, <2>5
<1>4. Summed(t, SUBSET S, f)
  <2>1. \E g : Summed(t, SUBSET S, g)
    BY <1>2, SummedExists
  <2>. QED BY <2>1
<1>5. Clock!ActiveDuration(t) = f[S]
  BY DurationIs
<1>. HIDE DEF f, S, P
<1>6. \A s \in SUBSET S : /\ IsFiniteSet(s) /\ Cardinality(s) \in Nat
                          /\ Covered(t, s) \subseteq a .. z - 1
                          /\ IsFiniteSet(Covered(t, s)) /\ Cardinality(Covered(t, s)) \in Nat
  <2>. TAKE s \in SUBSET S
  <2>1. IsFiniteSet(s)
    BY <1>2, FS_Subset
  <2>2. Covered(t, s) \subseteq a .. z - 1
    <3>1. SUFFICES ASSUME NEW p \in s, NEW n \in Between(t, p) PROVE n \in a .. z - 1
      BY DEF Covered
    <3>2. p \in a .. z - 1 /\ Next1(t, p) \in a .. z
      BY <1>1, <1>2, <1>3
    <3>. QED BY <3>1, <3>2 DEF Between
  <2>3. IsFiniteSet(a .. z - 1)
    BY FS_Interval
  <2>4. IsFiniteSet(Covered(t, s))
    BY <2>2, <2>3, FS_Subset
  <2>. QED BY <2>1, <2>2, <2>4, FS_CardinalityType
<1>. DEFINE Fine(s) == f[s] \in Nat /\ f[s] <= Cardinality(Covered(t, s))
            D == {Cardinality(s) : s \in {r \in SUBSET S : ~Fine(r)}}
<1>7. ASSUME D # {} PROVE FALSE
  <2>0. D \subseteq Nat
    BY <1>6
  <2>1. PICK m \in D : \A k \in D : m <= k
    <3>. HIDE DEF D
    <3>. QED BY <1>7, <2>0, Smallest
  <2>2. PICK s \in SUBSET S : ~Fine(s) /\ m = Cardinality(s)
    OBVIOUS
  <2>3. \A r \in SUBSET S : Cardinality(r) < Cardinality(s) => Fine(r)
    <3>. TAKE r \in SUBSET S
    <3>1. ~Fine(r) => Cardinality(r) \in D
      OBVIOUS
    <3>. HIDE DEF D, Fine
    <3>. QED BY <1>6, <2>1, <2>2, <3>1
  <2>4. s # {}
    <3>1. f[{}] = 0
      BY <1>4 DEF Summed
    <3>2. CASE s = {}
      <4>1. Cardinality(Covered(t, s)) \in Nat /\ f[s] = 0
        BY <1>6, <3>1, <3>2
      <4>2. Fine(s)
        BY <4>1
      <4>. QED BY <2>2, <4>2
    <3>. QED BY <3>2
  <2>5. PICK x : x = CHOOSE y \in s : TRUE
    OBVIOUS
  <2>6. x \in s /\ x \in S
    BY <2>4, <2>5
  <2>7. f[s] = Gap(t, x) + f[s \ {x}]
    BY <1>4, <2>4, <2>5 DEF Summed
  <2>. DEFINE r == s \ {x}
  <2>8. r \in SUBSET S /\ Fine(r)
    <3>1. Cardinality(r) = Cardinality(s) - 1
      BY <1>6, <2>6, FS_RemoveElement
    <3>. HIDE DEF Fine
    <3>. QED BY <1>6, <2>3, <3>1
  <2>9. /\ Covered(t, s) = Covered(t, r) \cup Between(t, x)
        /\ Covered(t, r) \cap Between(t, x) = {}
    <3>1. Covered(t, s) = Covered(t, r) \cup Between(t, x)
      BY <2>6 DEF Covered
    <3>2. ASSUME NEW p \in r, NEW n \in Between(t, p), n \in Between(t, x) PROVE FALSE
      <4>1. p \in S /\ p # x /\ p \in P /\ x \in P
        BY <1>2, <2>6, <2>8
      <4>2. Next1(t, p) <= x \/ Next1(t, x) <= p
        BY <1>3, <2>6, <4>1
      <4>3. n \in Int /\ p <= n /\ n < Next1(t, p) /\ x <= n /\ n < Next1(t, x)
        BY <1>3, <2>6, <3>2, <4>1 DEF Between
      <4>. QED BY <1>3, <2>6, <4>1, <4>2, <4>3
    <3>. QED BY <3>1, <3>2 DEF Covered
  <2>10. IsFiniteSet(Between(t, x)) /\ Cardinality(Between(t, x)) = Next1(t, x) - x
    <3>1. x \in Int /\ Next1(t, x) \in Int /\ x <= Next1(t, x)
      BY <1>3, <2>6
    <3>. QED BY <3>1, Interval DEF Between
  <2>11. Cardinality(Covered(t, s)) = Cardinality(Covered(t, r)) + Next1(t, x) - x
    <3>1. IsFiniteSet(Covered(t, r)) /\ Cardinality(Covered(t, r)) \in Nat
      BY <1>6, <2>8
    <3>2. Cardinality(Covered(t, r) \cup Between(t, x)) =
            Cardinality(Covered(t, r)) + Cardinality(Between(t, x))
              - Cardinality(Covered(t, r) \cap Between(t, x))
      BY <2>10, <3>1, FS_Union
    <3>3. Cardinality(Covered(t, r) \cap Between(t, x)) = 0
      BY <2>9, FS_EmptySet
    <3>. QED BY <1>3, <2>6, <2>9, <2>10, <3>1, <3>2, <3>3
  <2>12. Gap(t, x) \in 0 .. Next1(t, x) - x /\ x \in Int /\ Next1(t, x) \in Int
    BY <1>3, <2>6
  <2>13. Fine(s)
    <3>. HIDE DEF r
    <3>1. f[s] = Gap(t, x) + f[r]
      BY <2>7 DEF r
    <3>2. f[r] \in Nat /\ f[r] <= Cardinality(Covered(t, r)) /\ Cardinality(Covered(t, r)) \in Nat
      BY <1>6, <2>8
    <3>. QED BY <2>11, <2>12, <3>1, <3>2
  <2>. QED BY <2>2, <2>13
<1>8. Fine(S)
  BY <1>7
<1>9. Cardinality(Covered(t, S)) <= z - a
  <2>1. IsFiniteSet(a .. z - 1) /\ Cardinality(a .. z - 1) = z - a
    BY Interval
  <2>2. S \in SUBSET S
    OBVIOUS
  <2>3. Covered(t, S) \in SUBSET (a .. z - 1)
    BY <1>6, <2>2
  <2>. QED BY <2>1, <2>3, FS_Subset
<1>10. Cardinality(Covered(t, S)) \in Nat
  BY <1>6
<1>. QED BY <1>5, <1>8, <1>9, <1>10

\* Of any session, however many records it has and however they are dated and
\* marked: its timing can be built, its activity is within its wall clock, nobody
\* else's records count, and full coverage is said only of what is fully dated.
THEOREM AnySessionTiming ==
    ASSUME NEW s, SessionOk(s)
    PROVE  Clock!TimingHonest(s) /\ Clock!CompleteIsEarned(s)
<1>. DEFINE t == Clock!Timing(s)
            b == Clock!Boundaries(s)
            C == Clock!Counted(s, b)
<1>1. ASSUME Clock!ActiveKnown(t)
      PROVE  Clock!ActiveDuration(t) \in 0 .. Clock!WallClock(t)
  <2>1. /\ t.openedAt = b.open.at /\ t.closedAt = b.close.at
        /\ t.observed = {s.records[i].at : i \in C}
    BY TimingFields
  <2>2. b.open.at # None /\ b.close.at # None
    BY <1>1, <2>1 DEF Clock!ActiveKnown, Clock!BoundaryKnown
  <2>3. b.open.at \in Int /\ b.close.at \in Int /\ b.open.at <= b.close.at
    BY <2>2, BoundariesAre DEF Boundary
  <2>4. \A i \in C : s.records[i].at \in b.open.at .. b.close.at
    <3>1. \A i \in C : /\ s.records[i].at \in Int
                       /\ b.open.at <= s.records[i].at /\ s.records[i].at <= b.close.at
      BY <2>2, CountedIs
    <3>. HIDE DEF C, b
    <3>. QED BY <2>3, <3>1
  <2>5. t.observed \subseteq b.open.at .. b.close.at
    <3>. HIDE DEF C, b, t
    <3>. QED BY <2>1, <2>4
  <2>. HIDE DEF t, b, C
  <2>6. Clock!ActiveDuration(t) \in 0 .. b.close.at - b.open.at
    BY <2>1, <2>3, <2>5, DurationWithin
  <2>. QED BY <2>1, <2>6 DEF Clock!WallClock
<1>2. Clock!ActiveWithinSession(t)
  BY <1>1 DEF Clock!ActiveWithinSession
<1>3. Clock!TimingHonest(s)
  BY <1>2, TimingConstructible, UnknownIgnored DEF Clock!TimingHonest
<1>. QED BY <1>3, CompleteEarned

TimesInv == stream = "times" => SessionOk(input)

\* TimesInv holds of the sessions hooks have begun.
LEMMA InitTimes == Init => TimesInv
<1>. SUFFICES ASSUME Init, stream = "times" PROVE SessionOk(input)
  BY DEF TimesInv
<1>1. input \in Hooked
  BY DEF Init, Empty
<1>2. <<>> \in Seq(Record)
  OBVIOUS
<1>3. PICK s \in {None, 1, 2}, e \in {None, 2, 3}, c \in {"claude", "codex"} :
        input = [source |-> c, started |-> s, ended |-> e, records |-> <<>>]
  BY <1>1 DEF Hooked
<1>. HIDE DEF Record
<1>. QED BY <1>2, <1>3, EvidenceAssumption DEF SessionOk

\* A record that is read keeps it.
LEMMA NextTimes == TimesInv /\ [Next]_vars => TimesInv'
<1>. SUFFICES ASSUME TimesInv, [Next]_vars, stream' = "times" PROVE SessionOk(input)'
  BY DEF TimesInv
<1>1. stream = "times"
  BY DEF Next, vars, ReadClaude, ReadCodex, AppendRow, AddLeaf, Read, AdmitSession, ReadDated,
         Working, Commit, Merge, Switch, Reset, Prune, Enroll, Capture
<1>2. SessionOk(input)
  BY <1>1 DEF TimesInv
<1>3. CASE ReadDated
  <2>1. PICK record \in DatedRecord :
          input' = [input EXCEPT !.records = Append(input.records, record)]
    BY <1>3 DEF ReadDated
  <2>2. record \in Record
    BY EvidenceAssumption DEF Record
  <2>. HIDE DEF Record
  <2>3. input.records \in Seq(Record)
    BY <1>2 DEF SessionOk
  <2>4. Append(input.records, record) \in Seq(Record)
    BY <2>2, <2>3
  <2>5. /\ input' \in [source : {"claude", "codex"}, started : Int \cup {None},
                       ended : Int \cup {None}, records : Seq(Record)]
        /\ input'.started = input.started /\ input'.ended = input.ended
    BY <1>2, <2>1, <2>4 DEF SessionOk
  <2>6. SessionOk(input')
    BY <1>2, <2>5 DEF SessionOk
  <2>. QED BY <2>6
<1>4. CASE ~ReadDated
  <2>1. input' = input
    BY <1>1, <1>4 DEF Next, vars, ReadClaude, ReadCodex, AppendRow, AddLeaf, Read, AdmitSession,
         Working, Commit, Merge, Switch, Reset, Prune, Enroll, Capture
  <2>. QED BY <1>2, <2>1 DEF SessionOk
<1>. QED BY <1>3, <1>4

\* Times are honest at every moment while records are read.
THEOREM TimesAreHonest == Spec => []TimesHonest
<1>1. TimesInv => TimesHonest
  BY AnySessionTiming DEF TimesInv, TimesHonest
<1>. QED BY <1>1, InitTimes, NextTimes, PTL DEF Spec

-----------------------------------------------------------------------------
(* Commitments.  Splitting and hashing recurse on how many hashes there are. *)

Powers(n, f) == f = [e \in 0 .. n |-> IF e = 0 THEN 1 ELSE 2 * f[e - 1]]

\* The recursion has a solution.
LEMMA PowersExist ==
    ASSUME NEW n \in Nat
    PROVE  \E f : Powers(n, f)
<1>. DEFINE D == {m \in Nat : ~ \E f : Powers(m, f)}
<1>1. SUFFICES ASSUME D # {} PROVE FALSE
  OBVIOUS
<1>2. PICK m \in D : \A k \in D : m <= k
  BY <1>1, Smallest
<1>3. m # 0
  <2>1. Powers(0, [e \in 0 .. 0 |-> 1])
    BY DEF Powers
  <2>. QED BY <1>2, <2>1
<1>4. PICK f : Powers(m - 1, f)
  BY <1>2, <1>3
<1>. DEFINE g == [e \in 0 .. m |-> IF e = m THEN 2 * f[m - 1] ELSE f[e]]
<1>5. Powers(m, g)
  <2>1. ASSUME NEW e \in 0 .. m
        PROVE  g[e] = IF e = 0 THEN 1 ELSE 2 * g[e - 1]
    <3>1. CASE e = m
      BY <1>2, <1>3, <3>1
    <3>2. CASE e # m
      <4>1. e \in 0 .. m - 1 /\ g[e] = f[e] /\ e - 1 # m
        BY <1>2, <1>3, <3>2
      <4>2. e # 0 => g[e - 1] = f[e - 1]
        BY <1>2, <4>1
      <4>3. f[e] = IF e = 0 THEN 1 ELSE 2 * f[e - 1]
        BY <1>4, <4>1 DEF Powers
      <4>. QED BY <4>1, <4>2, <4>3
    <3>. QED BY <3>1, <3>2
  <2>2. g = [e \in 0 .. m |-> IF e = 0 THEN 1 ELSE 2 * g[e - 1]]
    <3>1. g = [e \in 0 .. m |-> g[e]]
      OBVIOUS
    <3>. HIDE DEF g
    <3>. QED BY <2>1, <3>1
  <2>. QED BY <2>2 DEF Powers
<1>. QED BY <1>2, <1>5

\* Two hashes or more are split into two parts that are not empty.
LEMMA SplitWithin ==
    ASSUME NEW n \in Nat, n > 1
    PROVE  Tree!Split(n) \in 1 .. n - 1
<1>. DEFINE f == CHOOSE p : Powers(n, p)
            K == {f[e] : e \in 0 .. n}
<1>1. Tree!Split(n) = CHOOSE k \in K : k < n /\ n <= 2 * k
  BY DEF Tree!Split, Powers
<1>2. Powers(n, f)
  BY PowersExist
<1>. HIDE DEF f
<1>3. \A e \in 0 .. n : f[e] = IF e = 0 THEN 1 ELSE 2 * f[e - 1]
  BY <1>2 DEF Powers
<1>4. \A e \in 0 .. n : f[e] \in Nat /\ f[e] > e
  <2>. DEFINE D == {e \in 0 .. n : ~(f[e] \in Nat /\ f[e] > e)}
  <2>1. SUFFICES ASSUME D # {} PROVE FALSE
    OBVIOUS
  <2>2. PICK m \in D : \A k \in D : m <= k
    <3>1. D \subseteq Nat
      OBVIOUS
    <3>. HIDE DEF D
    <3>. QED BY <2>1, <3>1, Smallest
  <2>3. m # 0
    BY <1>3
  <2>4. m - 1 \in 0 .. n /\ m - 1 \notin D
    BY <2>2, <2>3
  <2>5. f[m - 1] \in Nat /\ f[m - 1] > m - 1
    BY <2>4
  <2>6. f[m] = 2 * f[m - 1]
    BY <1>3, <2>3
  <2>. QED BY <2>2, <2>3, <2>5, <2>6
<1>5. \E k \in K : k < n /\ n <= 2 * k
  <2>. DEFINE B == {e \in 0 .. n : n <= 2 * f[e]}
  <2>1. n \in B
    BY <1>4
  <2>2. PICK m \in B : \A k \in B : m <= k
    <3>1. B \subseteq Nat
      OBVIOUS
    <3>. HIDE DEF B
    <3>. QED BY <2>1, <3>1, Smallest
  <2>3. f[m] < n
    <3>1. CASE m = 0
      BY <1>3, <3>1
    <3>2. CASE m # 0
      <4>1. m - 1 \in 0 .. n /\ m - 1 \notin B
        BY <2>2, <3>2
      <4>2. f[m] = 2 * f[m - 1] /\ f[m - 1] \in Nat
        BY <1>3, <1>4, <3>2, <4>1
      <4>. QED BY <4>1, <4>2
    <3>. QED BY <3>1, <3>2
  <2>. QED BY <2>2, <2>3
<1>6. \A k \in K : k \in Nat /\ k > 0
  BY <1>4
<1>. HIDE DEF K
<1>7. /\ Tree!Split(n) \in K
      /\ Tree!Split(n) < n
  BY <1>1, <1>5
<1>. QED BY <1>6, <1>7

\* The roots over n hashes from i on, for the n of N.
Roots(h, N, f) ==
    f = [n \in N |->
           [i \in 1 .. Len(h) - n + 1 |->
              IF n = 1
                THEN h[i]
                ELSE Tree!NodeHash(f[Tree!Split(n)][i],
                                   f[n - Tree!Split(n)][i + Tree!Split(n)])]]

RootOf(h) == CHOOSE f : Roots(h, DOMAIN h, f)

Finite(h) == Len(h) \in Nat /\ DOMAIN h = 1 .. Len(h)

\* The recursion has a solution.
LEMMA RootsExist ==
    ASSUME NEW h, NEW l \in Nat
    PROVE  \E f : Roots(h, 1 .. l, f)
<1>. DEFINE D == {m \in Nat : ~ \E f : Roots(h, 1 .. m, f)}
<1>1. SUFFICES ASSUME D # {} PROVE FALSE
  OBVIOUS
<1>2. PICK m \in D : \A k \in D : m <= k
  BY <1>1, Smallest
<1>. DEFINE body(f, n) ==
              [i \in 1 .. Len(h) - n + 1 |->
                 IF n = 1
                   THEN h[i]
                   ELSE Tree!NodeHash(f[Tree!Split(n)][i],
                                      f[n - Tree!Split(n)][i + Tree!Split(n)])]
<1>3. m # 0
  <2>1. Roots(h, 1 .. 0, [n \in 1 .. 0 |-> 0])
    BY DEF Roots
  <2>. QED BY <1>2, <2>1
<1>4. PICK f : Roots(h, 1 .. m - 1, f)
  BY <1>2, <1>3
<1>5. \A n \in 1 .. m - 1 : f[n] = body(f, n)
  BY <1>4 DEF Roots
<1>. DEFINE g == [n \in 1 .. m |-> IF n = m THEN body(f, m) ELSE f[n]]
<1>6. \A n \in 1 .. m : g[n] = body(f, n)
  <2>1. \A n \in 1 .. m : n = m \/ n \in 1 .. m - 1
    BY <1>2, <1>3
  <2>. HIDE DEF body
  <2>. QED BY <1>5, <2>1
<1>7. \A n \in 1 .. m : body(f, n) = body(g, n)
  <2>. TAKE n \in 1 .. m
  <2>1. CASE n = 1
    BY <2>1
  <2>2. CASE n # 1
    <3>1. PICK k : k = Tree!Split(n)
      OBVIOUS
    <3>2. k \in 1 .. n - 1
      BY <3>1, <2>2, SplitWithin
    <3>3. k \in 1 .. m - 1 /\ n - k \in 1 .. m - 1 /\ k # m /\ n - k # m
      BY <3>2
    <3>4. g[k] = f[k] /\ g[n - k] = f[n - k]
      BY <3>3
    <3>. HIDE DEF g
    <3>. QED BY <3>1, <3>4
  <2>. QED BY <2>1, <2>2
<1>8. g = [n \in 1 .. m |-> body(g, n)]
  <2>1. g = [n \in 1 .. m |-> g[n]]
    OBVIOUS
  <2>. HIDE DEF body, g
  <2>. QED BY <1>6, <1>7, <2>1
<1>9. Roots(h, 1 .. m, g)
  <2>. HIDE DEF g
  <2>. QED BY <1>8 DEF Roots
<1>. QED BY <1>2, <1>9

\* What the recursion over subtrees gives.
LEMMA RootsAre ==
    ASSUME NEW h, NEW l, NEW f, Roots(h, 1 .. l, f)
    PROVE  \A n \in 1 .. l : \A i \in 1 .. Len(h) - n + 1 :
             f[n][i] = IF n = 1
                         THEN h[i]
                         ELSE Tree!NodeHash(f[Tree!Split(n)][i],
                                            f[n - Tree!Split(n)][i + Tree!Split(n)])
<1>. DEFINE body(n) ==
              [i \in 1 .. Len(h) - n + 1 |->
                 IF n = 1
                   THEN h[i]
                   ELSE Tree!NodeHash(f[Tree!Split(n)][i],
                                      f[n - Tree!Split(n)][i + Tree!Split(n)])]
<1>1. \A n \in 1 .. l : f[n] = body(n)
  <2>1. f = [n \in 1 .. l |-> body(n)]
    BY DEF Roots
  <2>. HIDE DEF body
  <2>. QED BY <2>1
<1>2. \A n \in 1 .. l : \A i \in 1 .. Len(h) - n + 1 : f[n][i] = body(n)[i]
  <2>. HIDE DEF body
  <2>. QED BY <1>1
<1>. QED BY <1>2

\* What merkle_root is: of one hash the hash, of more the node over two parts.
LEMMA RootIs ==
    ASSUME NEW h, Finite(h)
    PROVE  /\ Tree!MerkleRoot(h) = RootOf(h)[Len(h)][1]
           /\ \A n \in 1 .. Len(h) : \A i \in 1 .. Len(h) - n + 1 :
                RootOf(h)[n][i] =
                  IF n = 1
                    THEN h[i]
                    ELSE Tree!NodeHash(RootOf(h)[Tree!Split(n)][i],
                                       RootOf(h)[n - Tree!Split(n)][i + Tree!Split(n)])
<1>1. Tree!MerkleRoot(h) = RootOf(h)[Len(h)][1]
  BY DEF Tree!MerkleRoot, RootOf, Roots
<1>2. \E f : Roots(h, DOMAIN h, f)
  BY RootsExist DEF Finite
<1>3. Roots(h, 1 .. Len(h), RootOf(h))
  <2>1. Roots(h, DOMAIN h, RootOf(h))
    BY <1>2 DEF RootOf
  <2>. QED BY <2>1 DEF Finite
<1>. QED BY <1>1, <1>3, RootsAre

\* The parts that n > 1 hashes from i on are split into.
LEMMA Parts ==
    ASSUME NEW n \in Nat, n > 1, NEW l \in Nat, n <= l, NEW i \in 1 .. l - n + 1
    PROVE  /\ Tree!Split(n) \in 1 .. n - 1
           /\ n - Tree!Split(n) \in 1 .. n - 1
           /\ i \in 1 .. l - Tree!Split(n) + 1
           /\ i + Tree!Split(n) \in 1 .. l - (n - Tree!Split(n)) + 1
<1>1. PICK k : k = Tree!Split(n)
  OBVIOUS
<1>2. k \in 1 .. n - 1
  BY <1>1, SplitWithin
<1>3. /\ n - k \in 1 .. n - 1
      /\ i \in 1 .. l - k + 1
      /\ i + k \in 1 .. l - (n - k) + 1
  BY <1>2
<1>. QED BY <1>1, <1>2, <1>3

\* Equal hashes in a row have the same root, wherever they stand.
LEMMA SameRoot ==
    ASSUME NEW g, NEW h, Finite(g), Finite(h)
    PROVE  \A n \in 1 .. Len(g) :
             \A i \in 1 .. Len(g) - n + 1, j \in 1 .. Len(h) - n + 1 :
               (n <= Len(h) /\ \A k \in 0 .. n - 1 : g[i + k] = h[j + k]) =>
                 RootOf(g)[n][i] = RootOf(h)[n][j]
<1>. DEFINE Same(n) == \A i \in 1 .. Len(g) - n + 1, j \in 1 .. Len(h) - n + 1 :
                         (n <= Len(h) /\ \A k \in 0 .. n - 1 : g[i + k] = h[j + k]) =>
                           RootOf(g)[n][i] = RootOf(h)[n][j]
            D == {n \in 1 .. Len(g) : ~Same(n)}
<1>1. SUFFICES ASSUME D # {} PROVE FALSE
  OBVIOUS
<1>0. Len(g) \in Nat /\ Len(h) \in Nat
  BY DEF Finite
<1>2. PICK n \in D : \A k \in D : n <= k
  <2>1. D \subseteq Nat
    BY <1>0
  <2>. HIDE DEF D
  <2>. QED BY <1>1, <2>1, Smallest
<1>3. n \in 1 .. Len(g) /\ ~Same(n)
  OBVIOUS
<1>4. \A m \in 1 .. n - 1 : Same(m)
  <2>1. \A m \in 1 .. n - 1 : m \in 1 .. Len(g) /\ m < n
    BY <1>0, <1>3
  <2>. HIDE DEF Same
  <2>. QED BY <1>2, <2>1
<1>5. PICK i \in 1 .. Len(g) - n + 1, j \in 1 .. Len(h) - n + 1 :
         /\ n <= Len(h)
         /\ \A k \in 0 .. n - 1 : g[i + k] = h[j + k]
         /\ RootOf(g)[n][i] # RootOf(h)[n][j]
  BY <1>3
<1>. HIDE DEF D
<1>6. n \in 1 .. Len(h)
  BY <1>0, <1>3, <1>5
<1>9. /\ n \in Nat /\ n <= Len(g) /\ n <= Len(h) /\ n \in 1 .. Len(g)
      /\ i \in 1 .. Len(g) - n + 1
      /\ j \in 1 .. Len(h) - n + 1
  <2>. HIDE DEF Same
  <2>. QED BY <1>0, <1>3, <1>5
<1>10. \A k \in 0 .. n - 1 : g[i + k] = h[j + k]
  BY <1>5
<1>7. CASE n = 1
  <2>1. g[i + 0] = h[j + 0]
    BY <1>5, <1>7
  <2>2. g[i] = h[j]
    BY <2>1, <1>0, <1>7
  <2>3. RootOf(g)[n][i] = g[i] /\ RootOf(h)[n][j] = h[j]
    BY <1>3, <1>5, <1>6, <1>7, RootIs
  <2>. QED BY <1>5, <2>2, <2>3
<1>8. CASE n # 1
  <2>1. PICK s : s = Tree!Split(n)
    OBVIOUS
  <2>2. /\ s \in 1 .. n - 1 /\ n - s \in 1 .. n - 1
        /\ i \in 1 .. Len(g) - s + 1
        /\ i + s \in 1 .. Len(g) - (n - s) + 1
    <3>. HIDE DEF Same
    <3>. QED BY <1>0, <1>8, <1>9, <2>1, Parts
  <2>3. /\ j \in 1 .. Len(h) - s + 1
        /\ j + s \in 1 .. Len(h) - (n - s) + 1
    <3>. HIDE DEF Same
    <3>. QED BY <1>0, <1>8, <1>9, <2>1, Parts
  <2>4. RootOf(g)[s][i] = RootOf(h)[s][j]
    <3>1. Same(s)
      BY <1>4, <2>2
    <3>2. s <= Len(h) /\ \A k \in 0 .. s - 1 : g[i + k] = h[j + k]
      <4>1. \A k \in 0 .. s - 1 : k \in 0 .. n - 1
        BY <1>9, <2>2
      <4>2. s <= Len(h)
        <5>. HIDE DEF Same
        <5>. QED BY <1>0, <1>9, <2>2
      <4>. QED BY <1>10, <4>1, <4>2
    <3>. QED BY <2>2, <2>3, <3>1, <3>2
  <2>5. RootOf(g)[n - s][i + s] = RootOf(h)[n - s][j + s]
    <3>1. Same(n - s)
      BY <1>4, <2>2
    <3>2. n - s <= Len(h)
      <4>. HIDE DEF Same
      <4>. QED BY <1>0, <1>9, <2>2
    <3>3. \A k \in 0 .. n - s - 1 : g[(i + s) + k] = h[(j + s) + k]
      <4>. TAKE k \in 0 .. n - s - 1
      <4>1. s + k \in 0 .. n - 1
        BY <1>0, <1>3, <2>2
      <4>2. g[i + (s + k)] = h[j + (s + k)]
        BY <1>10, <4>1
      <4>3. i + (s + k) = (i + s) + k /\ j + (s + k) = (j + s) + k
        BY <1>0, <1>9, <2>2
      <4>. QED BY <4>2, <4>3
    <3>4. \A a \in 1 .. Len(g) - (n - s) + 1, b \in 1 .. Len(h) - (n - s) + 1 :
             (\A k \in 0 .. n - s - 1 : g[a + k] = h[b + k]) =>
               RootOf(g)[n - s][a] = RootOf(h)[n - s][b]
      BY <3>1, <3>2
    <3>. HIDE DEF Same
    <3>. QED BY <2>2, <2>3, <3>3, <3>4
  <2>6. /\ RootOf(g)[n][i] = Tree!NodeHash(RootOf(g)[s][i], RootOf(g)[n - s][i + s])
        /\ RootOf(h)[n][j] = Tree!NodeHash(RootOf(h)[s][j], RootOf(h)[n - s][j + s])
    <3>. HIDE DEF Same
    <3>1. n \in 1 .. Len(h)
      BY <1>0, <1>9
    <3>. QED BY <1>8, <1>9, <2>1, <3>1, RootIs
  <2>. QED BY <1>5, <2>4, <2>5, <2>6
<1>. QED BY <1>7, <1>8

\* A hash is that of one thing only.
LEMMA HashesBind ==
    /\ \A a, b, c, d : Tree!NodeHash(a, b) = Tree!NodeHash(c, d) => a = c /\ b = d
    /\ \A x, a, b : Tree!LeafCommitment(x) # Tree!NodeHash(a, b)
BY DEF Tree!NodeHash, Tree!LeafCommitment

Leafy(h) == \A i \in DOMAIN h : \E x : h[i] = Tree!LeafCommitment(x)

\* Equal roots are over as many leaves, and the same ones.
LEMMA RootsBind ==
    ASSUME NEW g, NEW h, Finite(g), Finite(h), Leafy(g), Leafy(h)
    PROVE  \A n \in 1 .. Len(g) : \A m \in 1 .. Len(h) :
             \A i \in 1 .. Len(g) - n + 1, j \in 1 .. Len(h) - m + 1 :
               RootOf(g)[n][i] = RootOf(h)[m][j] =>
                 n = m /\ \A k \in 0 .. n - 1 : g[i + k] = h[j + k]
<1>. DEFINE Alike(n, m, i, j) == n = m /\ \A k \in 0 .. n - 1 : g[i + k] = h[j + k]
            Binds(n) == \A m \in 1 .. Len(h) :
                          \A i \in 1 .. Len(g) - n + 1, j \in 1 .. Len(h) - m + 1 :
                            RootOf(g)[n][i] = RootOf(h)[m][j] => Alike(n, m, i, j)
            D == {n \in 1 .. Len(g) : ~Binds(n)}
<1>1. SUFFICES ASSUME D # {} PROVE FALSE
  OBVIOUS
<1>2. Len(g) \in Nat /\ Len(h) \in Nat
  BY DEF Finite
<1>3. PICK n \in D : \A k \in D : n <= k
  <2>1. D \subseteq Nat
    BY <1>2
  <2>. HIDE DEF D
  <2>. QED BY <1>1, <2>1, Smallest
<1>4. n \in 1 .. Len(g) /\ ~Binds(n)
  OBVIOUS
<1>5. \A k \in 1 .. n - 1 : Binds(k)
  <2>1. \A k \in 1 .. n - 1 : k \in 1 .. Len(g) /\ k < n
    BY <1>2, <1>4
  <2>. HIDE DEF Binds
  <2>. QED BY <1>3, <2>1
<1>6. PICK m \in 1 .. Len(h) :
        \E i \in 1 .. Len(g) - n + 1, j \in 1 .. Len(h) - m + 1 :
          RootOf(g)[n][i] = RootOf(h)[m][j] /\ ~Alike(n, m, i, j)
  <2>. HIDE DEF Alike
  <2>. QED BY <1>4
<1>7. PICK i \in 1 .. Len(g) - n + 1, j \in 1 .. Len(h) - m + 1 :
        RootOf(g)[n][i] = RootOf(h)[m][j] /\ ~Alike(n, m, i, j)
  BY <1>6
<1>8. /\ n \in Nat /\ n \in 1 .. Len(g) /\ n <= Len(g)
      /\ m \in Nat /\ m \in 1 .. Len(h) /\ m <= Len(h)
      /\ i \in 1 .. Len(g) - n + 1
      /\ j \in 1 .. Len(h) - m + 1
      /\ RootOf(g)[n][i] = RootOf(h)[m][j]
  <2>. HIDE DEF Alike, Binds
  <2>. QED BY <1>2, <1>4, <1>7
<1>9. ~Alike(n, m, i, j)
  BY <1>7
<1>. HIDE DEF D, Binds, Alike
<1>10. /\ n = 1 => /\ RootOf(g)[n][i] = g[i]
                   /\ \E x : RootOf(g)[n][i] = Tree!LeafCommitment(x)
       /\ m = 1 => /\ RootOf(h)[m][j] = h[j]
                   /\ \E x : RootOf(h)[m][j] = Tree!LeafCommitment(x)
  <2>1. n = 1 => RootOf(g)[n][i] = g[i] /\ i \in DOMAIN g
    BY <1>8, RootIs DEF Finite
  <2>2. m = 1 => RootOf(h)[m][j] = h[j] /\ j \in DOMAIN h
    BY <1>8, RootIs DEF Finite
  <2>. QED BY <2>1, <2>2 DEF Leafy
<1>. DEFINE s == Tree!Split(n)
            t == Tree!Split(m)
<1>11. /\ n # 1 => RootOf(g)[n][i] = Tree!NodeHash(RootOf(g)[s][i], RootOf(g)[n - s][i + s])
       /\ m # 1 => RootOf(h)[m][j] = Tree!NodeHash(RootOf(h)[t][j], RootOf(h)[m - t][j + t])
  BY <1>8, RootIs
<1>12. (n = 1) <=> (m = 1)
  BY <1>8, <1>10, <1>11, HashesBind
<1>13. CASE n = 1
  <2>1. g[i] = h[j]
    BY <1>8, <1>10, <1>12, <1>13
  <2>2. \A k \in 0 .. n - 1 : g[i + k] = h[j + k]
    <3>1. \A k \in 0 .. n - 1 : i + k = i /\ j + k = j
      BY <1>8, <1>13
    <3>. QED BY <2>1, <3>1
  <2>. QED BY <1>9, <1>12, <1>13, <2>2 DEF Alike
<1>14. CASE n # 1
  <2>1. /\ RootOf(g)[s][i] = RootOf(h)[t][j]
        /\ RootOf(g)[n - s][i + s] = RootOf(h)[m - t][j + t]
    BY <1>8, <1>11, <1>12, <1>14, HashesBind
  <2>. HIDE DEF s, t
  <2>a. /\ n \in Nat /\ n > 1 /\ n <= Len(g)
        /\ i \in 1 .. Len(g) - n + 1
    BY <1>2, <1>8, <1>14
  <2>b. /\ m \in Nat /\ m > 1 /\ m <= Len(h)
        /\ j \in 1 .. Len(h) - m + 1
    BY <1>2, <1>8, <1>12, <1>14
  <2>2. /\ s \in 1 .. n - 1
        /\ n - s \in 1 .. n - 1
        /\ i \in 1 .. Len(g) - s + 1
        /\ i + s \in 1 .. Len(g) - (n - s) + 1
    BY <1>2, <2>a, Parts DEF s
  <2>3. /\ t \in 1 .. m - 1
        /\ m - t \in 1 .. m - 1
        /\ j \in 1 .. Len(h) - t + 1
        /\ j + t \in 1 .. Len(h) - (m - t) + 1
    BY <1>2, <2>b, Parts DEF t
  <2>4. t \in 1 .. Len(h) /\ m - t \in 1 .. Len(h)
    BY <1>2, <2>b, <2>3
  <2>5. Alike(s, t, i, j)
    <3>1. Binds(s)
      BY <1>5, <2>2
    <3>. QED BY <2>1, <2>2, <2>3, <2>4, <3>1 DEF Binds
  <2>6. Alike(n - s, m - t, i + s, j + t)
    <3>1. Binds(n - s)
      BY <1>5, <2>2
    <3>. QED BY <2>1, <2>2, <2>3, <2>4, <3>1 DEF Binds
  <2>7. s = t /\ n - s = m - t
    BY <2>5, <2>6 DEF Alike
  <2>8. n = m
    BY <1>8, <2>2, <2>3, <2>7
  <2>9. \A k \in 0 .. n - 1 : g[i + k] = h[j + k]
    <3>. TAKE k \in 0 .. n - 1
    <3>1. CASE k < s
      <4>1. k \in 0 .. s - 1
        BY <1>8, <2>2, <3>1
      <4>. QED BY <2>5, <4>1 DEF Alike
    <3>2. CASE ~(k < s)
      <4>1. k - s \in 0 .. n - s - 1
        BY <1>8, <2>2, <3>2
      <4>2. g[(i + s) + (k - s)] = h[(j + t) + (k - s)]
        BY <2>6, <4>1 DEF Alike
      <4>3. (i + s) + (k - s) = i + k
        BY <1>8, <2>2
      <4>4. (j + t) + (k - s) = j + k
        BY <1>8, <2>2, <2>7
      <4>. QED BY <4>2, <4>3, <4>4
    <3>. QED BY <3>1, <3>2
  <2>. QED BY <1>9, <2>8, <2>9 DEF Alike
<1>. QED BY <1>13, <1>14

\* A sequence is finite and has members of its set.
LEMMA SequenceIsFinite ==
    ASSUME NEW S, NEW h \in Seq(S)
    PROVE  /\ Finite(h)
           /\ \A i \in 1 .. Len(h) : h[i] \in S
BY DEF Finite

\* For any leaves at all: a root determines the leaves under it, which they are,
\* their order and their number (merkle_root).
THEOREM RootDeterminesLeaves ==
    ASSUME NEW S, NEW g \in Seq(S), NEW h \in Seq(S), g # <<>>, h # <<>>,
           Leafy(g), Leafy(h)
    PROVE  Tree!MerkleRoot(g) = Tree!MerkleRoot(h) => g = h
<1>1. Finite(g) /\ Finite(h)
  BY SequenceIsFinite
<1>2. Len(g) \in Nat /\ Len(h) \in Nat /\ Len(g) > 0 /\ Len(h) > 0
  OBVIOUS
<1>3. SUFFICES ASSUME RootOf(g)[Len(g)][1] = RootOf(h)[Len(h)][1]
               PROVE  g = h
  BY <1>1, RootIs
<1>4. /\ Len(g) \in 1 .. Len(g) /\ Len(h) \in 1 .. Len(h)
      /\ 1 \in 1 .. Len(g) - Len(g) + 1 /\ 1 \in 1 .. Len(h) - Len(h) + 1
  BY <1>2
<1>5. Len(g) = Len(h) /\ \A k \in 0 .. Len(g) - 1 : g[1 + k] = h[1 + k]
  BY <1>1, <1>3, <1>4, RootsBind
<1>6. \A k \in 1 .. Len(g) : g[k] = h[k]
  <2>. TAKE k \in 1 .. Len(g)
  <2>1. k - 1 \in 0 .. Len(g) - 1 /\ 1 + (k - 1) = k
    BY <1>2
  <2>. QED BY <1>5, <2>1
<1>. QED BY <1>5, <1>6

PartRoot(h, i, n) == Tree!MerkleRoot(SubSeq(h, i, i + n - 1))

\* The paths to the hash at index, among the n hashes from i on.
Paths(h, index, N, f) ==
    f = [n \in N |->
           [i \in 1 .. Len(h) - n + 1 |->
              IF n = 1 THEN <<>>
              ELSE IF index < i + Tree!Split(n)
                     THEN Append(f[Tree!Split(n)][i],
                                 <<"R", PartRoot(h, i + Tree!Split(n),
                                                      n - Tree!Split(n))>>)
                     ELSE Append(f[n - Tree!Split(n)][i + Tree!Split(n)],
                                 <<"L", PartRoot(h, i, Tree!Split(n))>>)]]

PathOf(h, index) == CHOOSE f : Paths(h, index, DOMAIN h, f)

\* An inclusion proof is what PathOf says.
LEMMA PathIs ==
    ASSUME NEW h, NEW index
    PROVE  Tree!InclusionProof(h, index) = PathOf(h, index)[Len(h)][1]
BY DEF Tree!InclusionProof, PathOf, Paths, PartRoot

\* The recursion has a solution.
LEMMA PathsExist ==
    ASSUME NEW h, NEW index, NEW l \in Nat
    PROVE  \E f : Paths(h, index, 1 .. l, f)
<1>. DEFINE D == {m \in Nat : ~ \E f : Paths(h, index, 1 .. m, f)}
<1>1. SUFFICES ASSUME D # {} PROVE FALSE
  OBVIOUS
<1>2. PICK m \in D : \A k \in D : m <= k
  BY <1>1, Smallest
<1>. DEFINE
      Right(i, k, n) == <<"R", PartRoot(h, i + k, n - k)>>
      Left(i, k) == <<"L", PartRoot(h, i, k)>>
      row(n, near, far) ==
        [i \in 1 .. Len(h) - n + 1 |->
           IF n = 1 THEN <<>>
           ELSE IF index < i + Tree!Split(n)
                  THEN Append(near[i], Right(i, Tree!Split(n), n))
                  ELSE Append(far[i + Tree!Split(n)], Left(i, Tree!Split(n)))]
      body(f, n) == row(n, f[Tree!Split(n)], f[n - Tree!Split(n)])
<1>3. m # 0
  <2>1. Paths(h, index, 1 .. 0, [n \in 1 .. 0 |-> 0])
    BY DEF Paths
  <2>. QED BY <1>2, <2>1
<1>4. PICK f : Paths(h, index, 1 .. m - 1, f)
  BY <1>2, <1>3
<1>5. \A n \in 1 .. m - 1 : f[n] = body(f, n)
  <2>1. f = [n \in 1 .. m - 1 |-> body(f, n)]
    BY <1>4 DEF Paths
  <2>. HIDE DEF body
  <2>. QED BY <2>1
<1>. DEFINE g == [n \in 1 .. m |-> IF n = m THEN body(f, m) ELSE f[n]]
<1>6. \A n \in 1 .. m : g[n] = body(f, n)
  <2>1. \A n \in 1 .. m : n = m \/ n \in 1 .. m - 1
    BY <1>2, <1>3
  <2>. HIDE DEF body
  <2>. QED BY <1>5, <2>1
<1>7. \A n \in 1 .. m : body(f, n) = body(g, n)
  <2>. TAKE n \in 1 .. m
  <2>1. CASE n = 1
    <3>1. \A a, b : row(n, a, b) = [i \in 1 .. Len(h) - n + 1 |-> <<>>]
      BY <2>1
    <3>. HIDE DEF row
    <3>. QED BY <3>1
  <2>2. CASE n # 1
    <3>1. PICK k : k = Tree!Split(n)
      OBVIOUS
    <3>2. k \in 1 .. n - 1
      BY <3>1, <2>2, SplitWithin
    <3>3. k \in 1 .. m - 1 /\ n - k \in 1 .. m - 1 /\ k # m /\ n - k # m
      BY <3>2
    <3>4. g[k] = f[k] /\ g[n - k] = f[n - k]
      BY <3>3
    <3>. HIDE DEF g, row
    <3>. QED BY <3>1, <3>4
  <2>. QED BY <2>1, <2>2
<1>8. g = [n \in 1 .. m |-> body(g, n)]
  <2>1. g = [n \in 1 .. m |-> g[n]]
    OBVIOUS
  <2>. HIDE DEF body, g
  <2>. QED BY <1>6, <1>7, <2>1
<1>9. Paths(h, index, 1 .. m, g)
  <2>. HIDE DEF g
  <2>. QED BY <1>8 DEF Paths
<1>. QED BY <1>2, <1>9

\* The root over the n hashes from i on, as one of a part of the sequence.
LEMMA RootOver ==
    ASSUME NEW S, NEW h \in Seq(S), NEW n \in 1 .. Len(h), NEW i \in 1 .. Len(h) - n + 1
    PROVE  PartRoot(h, i, n) = RootOf(h)[n][i]
<1>. DEFINE g == SubSeq(h, i, i + n - 1)
<1>0. Len(h) \in Nat /\ n \in Nat /\ i \in Nat /\ i > 0 /\ i + n - 1 <= Len(h) /\ n > 0
  OBVIOUS
<1>1. g \in Seq(S) /\ Len(g) = n /\ \A k \in 1 .. n : g[k] = h[i + k - 1]
  BY <1>0
<1>. HIDE DEF g
<1>2. Finite(g) /\ Finite(h)
  BY <1>1, SequenceIsFinite
<1>3. \A k \in 0 .. n - 1 : g[1 + k] = h[i + k]
  <2>. TAKE k \in 0 .. n - 1
  <2>1. 1 + k \in 1 .. n /\ i + (1 + k) - 1 = i + k
    BY <1>0
  <2>. QED BY <1>1, <2>1
<1>4. n \in 1 .. Len(g) /\ 1 \in 1 .. Len(g) - n + 1 /\ n <= Len(h)
  BY <1>0, <1>1
<1>5. RootOf(g)[n][1] = RootOf(h)[n][i]
  BY <1>2, <1>3, <1>4, SameRoot
<1>6. Tree!MerkleRoot(g) = RootOf(g)[n][1]
  BY <1>1, <1>2, RootIs
<1>. QED BY <1>5, <1>6 DEF g, PartRoot

\* What inclusion_proof is: of one hash nothing, of more the path in the part
\* that index is in, and the root of the other part.
PathRule(h, index, n, i) ==
    /\ n = 1 => PathOf(h, index)[n][i] = <<>>
    /\ (n > 1 /\ index < i + Tree!Split(n)) =>
         PathOf(h, index)[n][i] =
           Append(PathOf(h, index)[Tree!Split(n)][i],
                  <<"R", RootOf(h)[n - Tree!Split(n)][i + Tree!Split(n)]>>)
    /\ (n > 1 /\ index >= i + Tree!Split(n)) =>
         PathOf(h, index)[n][i] =
           Append(PathOf(h, index)[n - Tree!Split(n)][i + Tree!Split(n)],
                  <<"L", RootOf(h)[Tree!Split(n)][i]>>)

\* PathOf obeys its rule for every part of the list.
LEMMA PathsAre ==
    ASSUME NEW S, NEW h \in Seq(S), h # <<>>, NEW index \in Nat
    PROVE  \A n \in 1 .. Len(h) : \A i \in 1 .. Len(h) - n + 1 : PathRule(h, index, n, i)
<1>0. Len(h) \in Nat /\ DOMAIN h = 1 .. Len(h) /\ Len(h) > 0
  OBVIOUS
<1>1. Paths(h, index, 1 .. Len(h), PathOf(h, index))
  <2>1. \E f : Paths(h, index, 1 .. Len(h), f)
    BY <1>0, PathsExist
  <2>. QED BY <1>0, <2>1 DEF PathOf
<1>2. PICK f : f = PathOf(h, index)
  OBVIOUS
<1>. DEFINE
      Right(i, k, n) == <<"R", PartRoot(h, i + k, n - k)>>
      Left(i, k) == <<"L", PartRoot(h, i, k)>>
      cell(n, i) ==
        IF n = 1 THEN <<>>
        ELSE IF index < i + Tree!Split(n)
               THEN Append(f[Tree!Split(n)][i], Right(i, Tree!Split(n), n))
               ELSE Append(f[n - Tree!Split(n)][i + Tree!Split(n)],
                           Left(i, Tree!Split(n)))
<1>3. \A n \in 1 .. Len(h) : \A i \in 1 .. Len(h) - n + 1 : f[n][i] = cell(n, i)
  <2>1. Paths(h, index, 1 .. Len(h), f)
    BY <1>1, <1>2
  <2>2. f = [n \in 1 .. Len(h) |-> [i \in 1 .. Len(h) - n + 1 |-> cell(n, i)]]
    BY <2>1 DEF Paths
  <2>. HIDE DEF cell
  <2>. QED BY <2>2
<1>4. \A n \in 1 .. Len(h) : \A i \in 1 .. Len(h) - n + 1 : n > 1 =>
        /\ Tree!Split(n) \in 1 .. n - 1
        /\ Right(i, Tree!Split(n), n) =
             <<"R", RootOf(h)[n - Tree!Split(n)][i + Tree!Split(n)]>>
        /\ Left(i, Tree!Split(n)) = <<"L", RootOf(h)[Tree!Split(n)][i]>>
  <2>. TAKE n \in 1 .. Len(h)
  <2>. TAKE i \in 1 .. Len(h) - n + 1
  <2>. SUFFICES ASSUME n > 1
                PROVE  /\ Tree!Split(n) \in 1 .. n - 1
                       /\ Right(i, Tree!Split(n), n) =
                            <<"R", RootOf(h)[n - Tree!Split(n)][i + Tree!Split(n)]>>
                       /\ Left(i, Tree!Split(n)) = <<"L", RootOf(h)[Tree!Split(n)][i]>>
    OBVIOUS
  <2>1. PICK k : k = Tree!Split(n)
    OBVIOUS
  <2>2. /\ k \in 1 .. n - 1
        /\ n - k \in 1 .. n - 1
        /\ i \in 1 .. Len(h) - k + 1
        /\ i + k \in 1 .. Len(h) - (n - k) + 1
    <3>1. n \in Nat /\ n <= Len(h)
      BY <1>0
    <3>. QED BY <1>0, <2>1, <3>1, Parts
  <2>3. k \in 1 .. Len(h) /\ n - k \in 1 .. Len(h)
    BY <1>0, <2>2
  <2>4. /\ PartRoot(h, i + k, n - k) = RootOf(h)[n - k][i + k]
        /\ PartRoot(h, i, k) = RootOf(h)[k][i]
    BY <2>2, <2>3, RootOver
  <2>. QED BY <2>1, <2>2, <2>4
<1>. HIDE DEF Right, Left
<1>5. \A n \in 1 .. Len(h) : \A i \in 1 .. Len(h) - n + 1 :
        /\ n = 1 => cell(n, i) = <<>>
        /\ (n > 1 /\ index < i + Tree!Split(n)) =>
             cell(n, i) = Append(f[Tree!Split(n)][i], Right(i, Tree!Split(n), n))
        /\ (n > 1 /\ index >= i + Tree!Split(n)) =>
             cell(n, i) = Append(f[n - Tree!Split(n)][i + Tree!Split(n)],
                                 Left(i, Tree!Split(n)))
  <2>. TAKE n \in 1 .. Len(h)
  <2>. TAKE i \in 1 .. Len(h) - n + 1
  <2>1. n > 1 => n # 1
    OBVIOUS
  <2>2. n > 1 => (index < i + Tree!Split(n) <=> ~(index >= i + Tree!Split(n)))
    <3>1. n > 1 => Tree!Split(n) \in 1 .. n - 1
      BY <1>4
    <3>2. PICK k : k = Tree!Split(n)
      OBVIOUS
    <3>. QED BY <1>0, <3>1, <3>2
  <2>. QED BY <2>1, <2>2
<1>. HIDE DEF cell
<1>6. \A n \in 1 .. Len(h) : \A i \in 1 .. Len(h) - n + 1 :
        /\ n = 1 => f[n][i] = <<>>
        /\ (n > 1 /\ index < i + Tree!Split(n)) =>
             f[n][i] = Append(f[Tree!Split(n)][i],
                              <<"R", RootOf(h)[n - Tree!Split(n)][i + Tree!Split(n)]>>)
        /\ (n > 1 /\ index >= i + Tree!Split(n)) =>
             f[n][i] = Append(f[n - Tree!Split(n)][i + Tree!Split(n)],
                              <<"L", RootOf(h)[Tree!Split(n)][i]>>)
  BY <1>3, <1>4, <1>5
<1>. QED BY <1>2, <1>6 DEF PathRule

\* What one side of a path adds to a hash, and what is added by the sides of s.
Joined(x, step) == IF step[1] = "R" THEN Tree!NodeHash(x, step[2])
                                    ELSE Tree!NodeHash(step[2], x)

Last(s) == CHOOSE x \in s : \A y \in s : x >= y

Folded(x, p, N, f) ==
    f = [s \in N |-> IF s = {} THEN x ELSE Joined(f[s \ {Last(s)}], p[Last(s)])]

\* Fold is the solution that Folded describes.
LEMMA FoldIs ==
    ASSUME NEW x, NEW p
    PROVE  Tree!Fold(x, p) = (CHOOSE f : Folded(x, p, SUBSET DOMAIN p, f))[DOMAIN p]
BY DEF Tree!Fold, Tree!FoldLeft, Tree!MapThenFoldSet, Tree!Max, Folded, Joined, Last

\* The last of a set up to m that has m is m.
LEMMA LastIs ==
    ASSUME NEW m \in Nat, NEW s \in SUBSET (1 .. m), m \in s
    PROVE  Last(s) = m
<1>1. \A y \in s : m >= y
  OBVIOUS
<1>2. \A x \in s : (\A y \in s : x >= y) => x = m
  OBVIOUS
<1>. QED BY <1>1, <1>2 DEF Last

\* The recursion has a solution.
LEMMA FoldExists ==
    ASSUME NEW x, NEW p, NEW l \in Nat
    PROVE  \E f : Folded(x, p, SUBSET (1 .. l), f)
<1>. DEFINE D == {m \in Nat : ~ \E f : Folded(x, p, SUBSET (1 .. m), f)}
<1>1. SUFFICES ASSUME D # {} PROVE FALSE
  OBVIOUS
<1>2. PICK m \in D : \A k \in D : m <= k
  BY <1>1, Smallest
<1>3. m # 0
  <2>1. SUBSET (1 .. 0) = {{}}
    OBVIOUS
  <2>2. Folded(x, p, {{}}, [s \in {{}} |-> x])
    BY DEF Folded
  <2>. QED BY <1>2, <2>1, <2>2
<1>4. PICK f : Folded(x, p, SUBSET (1 .. m - 1), f)
  <2>1. m - 1 \in Nat /\ m - 1 \notin D
    <3>1. m \in Nat
      OBVIOUS
    <3>. HIDE DEF D
    <3>. QED BY <1>2, <1>3, <3>1
  <2>. QED BY <2>1
<1>5. m \in Nat /\ m > 0
  BY <1>2, <1>3
<1>. DEFINE body(g, s) == IF s = {} THEN x ELSE Joined(g[s \ {Last(s)}], p[Last(s)])
            g == [s \in SUBSET (1 .. m) |-> body(f, s)]
<1>6. \A s \in SUBSET (1 .. m - 1) : f[s] = body(f, s) /\ s \in SUBSET (1 .. m)
  <2>1. f = [s \in SUBSET (1 .. m - 1) |-> body(f, s)]
    BY <1>4 DEF Folded
  <2>2. \A s \in SUBSET (1 .. m - 1) : s \in SUBSET (1 .. m)
    BY <1>5
  <2>. HIDE DEF body
  <2>. QED BY <2>1, <2>2
<1>7. \A s \in SUBSET (1 .. m) : s # {} => s \ {Last(s)} \in SUBSET (1 .. m - 1)
  <2>. TAKE s \in SUBSET (1 .. m)
  <2>1. CASE m \in s
    <3>1. Last(s) = m
      BY <1>5, <2>1, LastIs
    <3>. QED BY <1>5, <3>1
  <2>2. CASE m \notin s
    <3>1. s \subseteq 1 .. m - 1
      BY <1>5, <2>2
    <3>. QED BY <3>1
  <2>. QED BY <2>1, <2>2
<1>8. \A s \in SUBSET (1 .. m - 1) : g[s] = f[s]
  <2>. HIDE DEF body
  <2>. QED BY <1>6
<1>9. \A s \in SUBSET (1 .. m) : body(f, s) = body(g, s)
  <2>. HIDE DEF g
  <2>. QED BY <1>7, <1>8
<1>10. g = [s \in SUBSET (1 .. m) |-> body(g, s)]
  <2>1. g = [s \in SUBSET (1 .. m) |-> g[s]] /\ \A s \in SUBSET (1 .. m) : g[s] = body(f, s)
    <3>. HIDE DEF body
    <3>. QED OBVIOUS
  <2>. HIDE DEF body, g
  <2>. QED BY <1>9, <2>1
<1>11. Folded(x, p, SUBSET (1 .. m), g)
  <2>. HIDE DEF g
  <2>. QED BY <1>10 DEF Folded
<1>. QED BY <1>2, <1>11

FoldOf(x, p) == CHOOSE f : Folded(x, p, SUBSET DOMAIN p, f)

\* What _fold makes of a path: one side after the other.
LEMMA FoldSteps ==
    ASSUME NEW x, NEW p, Finite(p)
    PROVE  /\ Tree!Fold(x, p) = FoldOf(x, p)[1 .. Len(p)]
           /\ FoldOf(x, p)[1 .. 0] = x
           /\ \A m \in 1 .. Len(p) :
                FoldOf(x, p)[1 .. m] = Joined(FoldOf(x, p)[1 .. m - 1], p[m])
<1>1. DOMAIN p = 1 .. Len(p) /\ Len(p) \in Nat
  BY DEF Finite
<1>2. Tree!Fold(x, p) = FoldOf(x, p)[DOMAIN p]
  BY FoldIs DEF FoldOf
<1>3. Folded(x, p, SUBSET (1 .. Len(p)), FoldOf(x, p))
  <2>1. \E f : Folded(x, p, SUBSET (1 .. Len(p)), f)
    BY <1>1, FoldExists
  <2>. QED BY <1>1, <2>1 DEF FoldOf
<1>4. PICK f : f = FoldOf(x, p)
  OBVIOUS
<1>5. \A s \in SUBSET (1 .. Len(p)) :
         f[s] = IF s = {} THEN x ELSE Joined(f[s \ {Last(s)}], p[Last(s)])
  <2>1. Folded(x, p, SUBSET (1 .. Len(p)), f)
    BY <1>3, <1>4
  <2>. DEFINE body(s) == IF s = {} THEN x ELSE Joined(f[s \ {Last(s)}], p[Last(s)])
  <2>2. f = [s \in SUBSET (1 .. Len(p)) |-> body(s)]
    BY <2>1 DEF Folded
  <2>3. \A s \in SUBSET (1 .. Len(p)) : f[s] = body(s)
    <3>. HIDE DEF body
    <3>. QED BY <2>2
  <2>. QED BY <2>3
<1>6. f[1 .. 0] = x
  <2>1. 1 .. 0 = {}
    OBVIOUS
  <2>. QED BY <1>5, <2>1
<1>7. \A m \in 1 .. Len(p) : f[1 .. m] = Joined(f[1 .. m - 1], p[m])
  <2>. TAKE m \in 1 .. Len(p)
  <2>1. m \in Nat /\ 1 .. m \in SUBSET (1 .. Len(p)) /\ m \in 1 .. m
    BY <1>1
  <2>2. Last(1 .. m) = m
    BY <2>1, LastIs
  <2>3. (1 .. m) \ {m} = 1 .. m - 1
    BY <2>1
  <2>. QED BY <1>5, <2>1, <2>2, <2>3
<1>. QED BY <1>1, <1>2, <1>4, <1>6, <1>7

\* A path of one side more makes of a hash what it made, joined with that side.
LEMMA FoldAppend ==
    ASSUME NEW S, NEW p \in Seq(S), NEW step \in S, NEW x
    PROVE  Tree!Fold(x, Append(p, step)) = Joined(Tree!Fold(x, p), step)
<1>. DEFINE q == Append(p, step)
<1>1. /\ Finite(p) /\ Finite(q) /\ Len(p) \in Nat
      /\ Len(q) = Len(p) + 1 /\ q[Len(p) + 1] = step
      /\ \A m \in 1 .. Len(p) : q[m] = p[m]
  BY DEF Finite
<1>. HIDE DEF q
<1>2. FoldOf(x, q)[1 .. Len(p)] = FoldOf(x, p)[1 .. Len(p)]
  <2>. DEFINE D == {m \in 0 .. Len(p) : FoldOf(x, q)[1 .. m] # FoldOf(x, p)[1 .. m]}
  <2>1. SUFFICES ASSUME D # {} PROVE FALSE
    BY <1>1
  <2>2. PICK m \in D : \A k \in D : m <= k
    <3>1. D \subseteq Nat
      BY <1>1
    <3>. HIDE DEF D
    <3>. QED BY <2>1, <3>1, Smallest
  <2>3. m \in 0 .. Len(p) /\ FoldOf(x, q)[1 .. m] # FoldOf(x, p)[1 .. m]
    OBVIOUS
  <2>4. \A k \in 0 .. Len(p) : k < m => FoldOf(x, q)[1 .. k] = FoldOf(x, p)[1 .. k]
    <3>1. \A k \in 0 .. Len(p) : k \in D => m <= k
      BY <2>2
    <3>2. \A k \in 0 .. Len(p) : k < m => ~(m <= k)
      BY <1>1, <2>3
    <3>. QED BY <3>1, <3>2
  <2>. HIDE DEF D
  <2>5. m # 0
    BY <1>1, <2>3, FoldSteps
  <2>6. /\ m \in 1 .. Len(p) /\ m \in 1 .. Len(q)
        /\ m - 1 \in 0 .. Len(p) /\ m - 1 < m
    BY <1>1, <2>3, <2>5
  <2>7. /\ FoldOf(x, q)[1 .. m] = Joined(FoldOf(x, q)[1 .. m - 1], q[m])
        /\ FoldOf(x, p)[1 .. m] = Joined(FoldOf(x, p)[1 .. m - 1], p[m])
    BY <1>1, <2>6, FoldSteps
  <2>. QED BY <1>1, <2>3, <2>4, <2>6, <2>7
<1>3. Len(q) \in 1 .. Len(q) /\ Len(q) - 1 = Len(p)
  BY <1>1
<1>4. FoldOf(x, q)[1 .. Len(q)] = Joined(FoldOf(x, q)[1 .. Len(p)], step)
  <2>1. FoldOf(x, q)[1 .. Len(q)] = Joined(FoldOf(x, q)[1 .. Len(q) - 1], q[Len(q)])
    BY <1>1, <1>3, FoldSteps
  <2>. QED BY <1>1, <1>3, <2>1
<1>5. /\ Tree!Fold(x, q) = FoldOf(x, q)[1 .. Len(q)]
      /\ Tree!Fold(x, p) = FoldOf(x, p)[1 .. Len(p)]
  BY <1>1, FoldSteps
<1>. QED BY <1>2, <1>4, <1>5 DEF q

\* An empty path leads from a hash to itself.
LEMMA FoldEmpty ==
    ASSUME NEW x
    PROVE  Tree!Fold(x, <<>>) = x
<1>1. Finite(<<>>) /\ Len(<<>>) = 0
  BY DEF Finite
<1>. QED BY <1>1, FoldSteps

\* A path makes different things of different hashes.
LEMMA FoldBinds ==
    ASSUME NEW x, NEW y, NEW p, Finite(p), Tree!Fold(x, p) = Tree!Fold(y, p)
    PROVE  x = y
<1>1. Len(p) \in Nat
  BY DEF Finite
<1>. DEFINE B == {m \in 0 .. Len(p) : FoldOf(x, p)[1 .. m] = FoldOf(y, p)[1 .. m]}
<1>2. Len(p) \in B
  BY <1>1, FoldSteps
<1>3. PICK m \in B : \A k \in B : m <= k
  <2>1. B \subseteq Nat
    BY <1>1
  <2>. HIDE DEF B
  <2>. QED BY <1>2, <2>1, Smallest
<1>4. m \in 0 .. Len(p) /\ FoldOf(x, p)[1 .. m] = FoldOf(y, p)[1 .. m]
  OBVIOUS
<1>5. m # 0 => FALSE
  <2>1. SUFFICES ASSUME m # 0 PROVE FALSE
    OBVIOUS
  <2>2. m \in 1 .. Len(p) /\ m - 1 \in 0 .. Len(p) /\ ~(m <= m - 1)
    BY <1>1, <1>4, <2>1
  <2>3. /\ FoldOf(x, p)[1 .. m] = Joined(FoldOf(x, p)[1 .. m - 1], p[m])
        /\ FoldOf(y, p)[1 .. m] = Joined(FoldOf(y, p)[1 .. m - 1], p[m])
    BY <2>2, FoldSteps
  <2>4. \A a, b, s : Joined(a, s) = Joined(b, s) => a = b
    BY HashesBind DEF Joined
  <2>5. FoldOf(x, p)[1 .. m - 1] = FoldOf(y, p)[1 .. m - 1]
    BY <1>4, <2>3, <2>4
  <2>6. m - 1 \in B
    BY <2>2, <2>5
  <2>. HIDE DEF B
  <2>. QED BY <1>3, <2>2, <2>6
<1>6. FoldOf(x, p)[1 .. 0] = x /\ FoldOf(y, p)[1 .. 0] = y
  BY FoldSteps
<1>. QED BY <1>4, <1>5, <1>6

\* The path to a hash leads from it to the root.
LEMMA PathLeads ==
    ASSUME NEW S, NEW h \in Seq(S), h # <<>>, NEW index \in 1 .. Len(h)
    PROVE  /\ Finite(Tree!InclusionProof(h, index))
           /\ Tree!Fold(h[index], Tree!InclusionProof(h, index)) = Tree!MerkleRoot(h)
<1>0. Len(h) \in Nat /\ Len(h) > 0 /\ index \in Nat /\ Finite(h)
  BY SequenceIsFinite
<1>. DEFINE T == {"L", "R"} \X {RootOf(h)[c[1]][c[2]] : c \in (1 .. Len(h)) \X (1 .. Len(h))}
            path(n, i) == PathOf(h, index)[n][i]
            Leads(n) == \A i \in 1 .. Len(h) - n + 1 :
                          (i <= index /\ index < i + n) =>
                            /\ path(n, i) \in Seq(T)
                            /\ Tree!Fold(h[index], path(n, i)) = RootOf(h)[n][i]
            D == {n \in 1 .. Len(h) : ~Leads(n)}
<1>5. \A n \in 1 .. Len(h) : \A i \in 1 .. Len(h) - n + 1 : PathRule(h, index, n, i)
  BY <1>0, PathsAre
<1>1. ASSUME D # {} PROVE FALSE
  <2>1. PICK n \in D : \A k \in D : n <= k
    <3>1. D \subseteq Nat
      BY <1>0
    <3>. HIDE DEF D
    <3>. QED BY <1>1, <3>1, Smallest
  <2>2. n \in 1 .. Len(h) /\ ~Leads(n)
    OBVIOUS
  <2>3. \A k \in 1 .. n - 1 : Leads(k)
    <3>1. \A k \in 1 .. n - 1 : k \in 1 .. Len(h) /\ k < n
      BY <1>0, <2>2
    <3>. HIDE DEF Leads
    <3>. QED BY <2>1, <3>1
  <2>4. PICK i \in 1 .. Len(h) - n + 1 :
          /\ i <= index /\ index < i + n
          /\ ~ (/\ path(n, i) \in Seq(T)
                /\ Tree!Fold(h[index], path(n, i)) = RootOf(h)[n][i])
    <3>. HIDE DEF path, T
    <3>. QED BY <2>2
  <2>. HIDE DEF D
  <2>5. /\ n \in Nat /\ n > 0 /\ n <= Len(h) /\ n \in 1 .. Len(h)
        /\ i \in Nat /\ i \in 1 .. Len(h) - n + 1
        /\ i <= index /\ index < i + n
    <3>. HIDE DEF Leads, T, path
    <3>. QED BY <1>0, <2>2, <2>4
  <2>6. ~ (/\ path(n, i) \in Seq(T)
           /\ Tree!Fold(h[index], path(n, i)) = RootOf(h)[n][i])
    BY <2>4
  <2>. HIDE DEF Leads, T, path
  <2>7. CASE n = 1
    <3>1. i = index
      BY <1>0, <2>5, <2>7
    <3>2. path(n, i) = <<>>
      BY <1>5, <2>5, <2>7 DEF PathRule, path
    <3>3. RootOf(h)[n][i] = h[index]
      BY <1>0, <2>5, <2>7, <3>1, RootIs
    <3>4. <<>> \in Seq(T)
      OBVIOUS
    <3>. QED BY <2>6, <3>2, <3>3, <3>4, FoldEmpty
  <2>8. CASE n # 1
    <3>0. n > 1
      BY <2>5, <2>8
    <3>1. PICK k : k = Tree!Split(n)
      OBVIOUS
    <3>2. /\ k \in 1 .. n - 1
          /\ n - k \in 1 .. n - 1
          /\ i \in 1 .. Len(h) - k + 1
          /\ i + k \in 1 .. Len(h) - (n - k) + 1
      BY <1>0, <2>5, <3>0, <3>1, Parts
    <3>3. \A r \in Seq(T), t \in T : Append(r, t) \in Seq(T)
      OBVIOUS
    <3>4. \A c, d \in 1 .. Len(h) : /\ <<"L", RootOf(h)[c][d]>> \in T
                                    /\ <<"R", RootOf(h)[c][d]>> \in T
      <4>. TAKE c, d \in 1 .. Len(h)
      <4>1. <<c, d>> \in (1 .. Len(h)) \X (1 .. Len(h)) /\ <<c, d>>[1] = c /\ <<c, d>>[2] = d
        OBVIOUS
      <4>. QED BY <4>1 DEF T
    <3>5. /\ k \in 1 .. Len(h) /\ n - k \in 1 .. Len(h)
          /\ i \in 1 .. Len(h) /\ i + k \in 1 .. Len(h)
      BY <1>0, <2>5, <3>2
    <3>6. RootOf(h)[n][i] = Tree!NodeHash(RootOf(h)[k][i], RootOf(h)[n - k][i + k])
      BY <1>0, <2>5, <2>8, <3>1, RootIs
    <3>7. CASE index < i + k
      <4>1. path(n, i) = Append(path(k, i), <<"R", RootOf(h)[n - k][i + k]>>)
        BY <1>5, <2>5, <3>0, <3>1, <3>7 DEF PathRule, path
      <4>2. path(k, i) \in Seq(T) /\ Tree!Fold(h[index], path(k, i)) = RootOf(h)[k][i]
        BY <2>3, <2>5, <3>2, <3>7 DEF Leads
      <4>3. <<"R", RootOf(h)[n - k][i + k]>> \in T
        BY <3>4, <3>5
      <4>4. Tree!Fold(h[index], path(n, i)) =
              Joined(RootOf(h)[k][i], <<"R", RootOf(h)[n - k][i + k]>>)
        BY <4>1, <4>2, <4>3, FoldAppend
      <4>5. \A a, b : Joined(a, <<"R", b>>) = Tree!NodeHash(a, b)
        BY DEF Joined
      <4>. QED BY <2>6, <3>3, <3>6, <4>1, <4>2, <4>3, <4>4, <4>5
    <3>8. CASE ~(index < i + k)
      <4>0. index >= i + k
        BY <1>0, <2>5, <3>2, <3>8
      <4>1. path(n, i) = Append(path(n - k, i + k), <<"L", RootOf(h)[k][i]>>)
        BY <1>5, <2>5, <3>0, <3>1, <4>0 DEF PathRule, path
      <4>2. /\ path(n - k, i + k) \in Seq(T)
            /\ Tree!Fold(h[index], path(n - k, i + k)) = RootOf(h)[n - k][i + k]
        <5>1. Leads(n - k)
          BY <2>3, <3>2
        <5>2. i + k <= index /\ index < (i + k) + (n - k)
          BY <1>0, <2>5, <3>2, <4>0
        <5>. QED BY <3>2, <5>1, <5>2 DEF Leads
      <4>3. <<"L", RootOf(h)[k][i]>> \in T
        BY <3>4, <3>5
      <4>4. Tree!Fold(h[index], path(n, i)) =
              Joined(RootOf(h)[n - k][i + k], <<"L", RootOf(h)[k][i]>>)
        BY <4>1, <4>2, <4>3, FoldAppend
      <4>5. \A a, b : Joined(a, <<"L", b>>) = Tree!NodeHash(b, a)
        BY DEF Joined
      <4>. QED BY <2>6, <3>3, <3>6, <4>1, <4>2, <4>3, <4>4, <4>5
    <3>. QED BY <3>7, <3>8
  <2>. QED BY <2>7, <2>8
<1>2. /\ path(Len(h), 1) \in Seq(T)
      /\ Tree!Fold(h[index], path(Len(h), 1)) = RootOf(h)[Len(h)][1]
  <2>1. Len(h) \in 1 .. Len(h) /\ Leads(Len(h))
    <3>. HIDE DEF Leads
    <3>. QED BY <1>0, <1>1
  <2>2. 1 \in 1 .. Len(h) - Len(h) + 1 /\ 1 <= index /\ index < 1 + Len(h)
    BY <1>0
  <2>. HIDE DEF T, path
  <2>. QED BY <2>1, <2>2
<1>. HIDE DEF T
<1>3. Tree!InclusionProof(h, index) = path(Len(h), 1)
  BY PathIs
<1>4. Tree!MerkleRoot(h) = RootOf(h)[Len(h)][1]
  BY <1>0, RootIs
<1>. QED BY <1>2, <1>3, <1>4, SequenceIsFinite

\* For hashes of any kind: the proof of a position is accepted against the root
\* for what stands there and for nothing else; against the root of a session
\* likewise, and against that of a day never (inclusion_proof, verify_inclusion,
\* verify_session_inclusion).
THEOREM OnlyMembersHaveProofs ==
    ASSUME NEW S, NEW h \in Seq(S), h # <<>>, NEW others
    PROVE  Tree!ProofsAreSound(h, others)
<1>. SUFFICES ASSUME NEW i \in DOMAIN h, NEW x
              PROVE  /\ Tree!VerifyInclusion(x, Tree!InclusionProof(h, i), Tree!MerkleRoot(h))
                          <=> x = h[i]
                     /\ Tree!VerifySessionInclusion(x, Tree!InclusionProof(h, i),
                                                    Tree!SessionRoot(h))
                          <=> x = h[i]
                     /\ ~Tree!VerifySessionInclusion(x, Tree!InclusionProof(h, i),
                                                     Tree!DayRoot(h))
  BY DEF Tree!ProofsAreSound
<1>1. i \in 1 .. Len(h)
  OBVIOUS
<1>2. PICK p : p = Tree!InclusionProof(h, i)
  OBVIOUS
<1>3. Finite(p) /\ Tree!Fold(h[i], p) = Tree!MerkleRoot(h)
  BY <1>1, <1>2, PathLeads
<1>4. Tree!Fold(x, p) = Tree!MerkleRoot(h) <=> x = h[i]
  BY <1>3, FoldBinds
<1>5. \A a, b : /\ <<"session", a>> = <<"session", b>> <=> a = b
                /\ <<"session", a>> # <<"day", b>>
  OBVIOUS
<1>. QED BY <1>2, <1>4, <1>5 DEF Tree!VerifyInclusion, Tree!VerifySessionInclusion,
                                 Tree!SessionRoot, Tree!DayRoot

\* For any leaves at all: taking leaves away from the end, repeating one or
\* swapping two gives another root.
THEOREM RootsDiffer ==
    ASSUME NEW S, NEW h \in Seq(S), h # <<>>, Leafy(h)
    PROVE  Tree!RootBinds(h)
<1>1. ASSUME NEW n \in 1 .. Len(h) - 1
      PROVE  Tree!MerkleRoot(SubSeq(h, 1, n)) # Tree!MerkleRoot(h)
  <2>1. PICK g : g = SubSeq(h, 1, n)
    OBVIOUS
  <2>2. g \in Seq(S) /\ Len(g) = n /\ \A k \in 1 .. n : g[k] = h[k]
    BY <2>1
  <2>3. Leafy(g) /\ g # <<>> /\ g # h
    BY <2>2 DEF Leafy
  <2>. QED BY <2>1, <2>2, <2>3, RootDeterminesLeaves
<1>2. ASSUME NEW i \in DOMAIN h
      PROVE  Tree!MerkleRoot(Append(h, h[i])) # Tree!MerkleRoot(h)
  <2>1. PICK g : g = Append(h, h[i])
    OBVIOUS
  <2>2. /\ g \in Seq(S) /\ Len(g) = Len(h) + 1
        /\ Len(h) \in Nat /\ DOMAIN h = 1 .. Len(h) /\ DOMAIN g = 1 .. Len(h) + 1
        /\ g[Len(h) + 1] = h[i]
        /\ \A k \in 1 .. Len(h) : g[k] = h[k]
    BY <2>1
  <2>4. \A k \in DOMAIN g : \E m \in DOMAIN h : g[k] = h[m]
    <3>1. \A k \in 1 .. Len(h) + 1 : k = Len(h) + 1 \/ k \in 1 .. Len(h)
      BY <2>2
    <3>. QED BY <2>2, <3>1
  <2>3. Leafy(g) /\ g # <<>> /\ g # h
    BY <2>2, <2>4 DEF Leafy
  <2>. QED BY <2>1, <2>2, <2>3, RootDeterminesLeaves
<1>3. ASSUME NEW i \in DOMAIN h, NEW j \in DOMAIN h, h[i] # h[j]
      PROVE  Tree!MerkleRoot([h EXCEPT ![i] = h[j], ![j] = h[i]]) # Tree!MerkleRoot(h)
  <2>1. PICK g : g = [h EXCEPT ![i] = h[j], ![j] = h[i]]
    OBVIOUS
  <2>2. /\ Len(h) \in Nat /\ DOMAIN h = 1 .. Len(h)
        /\ \A k \in 1 .. Len(h) : h[k] \in S
    OBVIOUS
  <2>3. /\ g = [k \in 1 .. Len(h) |-> g[k]]
        /\ \A k \in 1 .. Len(h) : g[k] = IF k = j THEN h[i] ELSE IF k = i THEN h[j] ELSE h[k]
    BY <2>1, <2>2
  <2>4. \A k \in 1 .. Len(h) : g[k] \in S
    BY <2>2, <2>3
  <2>5. g \in [1 .. Len(h) -> S]
    BY <2>3, <2>4
  <2>6. g \in Seq(S) /\ Len(g) = Len(h)
    BY <2>2, <2>5
  <2>7. Leafy(g)
    <3>1. \A k \in 1 .. Len(h) : \E m \in 1 .. Len(h) : g[k] = h[m]
      BY <2>2, <2>3
    <3>2. DOMAIN g = 1 .. Len(h)
      BY <2>5
    <3>. QED BY <2>2, <3>1, <3>2 DEF Leafy
  <2>8. g[i] # h[i]
    <3>1. i \in 1 .. Len(h) /\ i # j
      BY <1>3, <2>2
    <3>. QED BY <1>3, <2>3, <3>1
  <2>9. g # <<>> /\ g # h
    BY <2>6, <2>8
  <2>. QED BY <2>1, <2>6, <2>7, <2>9, RootDeterminesLeaves
<1>. QED BY <1>1, <1>2, <1>3 DEF Tree!RootBinds

Leaf == {Tree!LeafCommitment(n) : n \in {1, 2}}

LeavesInv == stream = "leaves" => input \in Seq(Leaf)

\* There are no leaves at first.
LEMMA InitLeaves == Init => LeavesInv
<1>. SUFFICES ASSUME Init, stream = "leaves" PROVE input \in Seq(Leaf)
  BY DEF LeavesInv
<1>1. input = <<>>
  BY DEF Init, Empty
<1>. QED BY <1>1

\* A leaf that is added is a leaf commitment.
LEMMA NextLeaves == LeavesInv /\ [Next]_vars => LeavesInv'
<1>. SUFFICES ASSUME LeavesInv, [Next]_vars, stream' = "leaves" PROVE input' \in Seq(Leaf)
  BY DEF LeavesInv
<1>1. stream = "leaves"
  BY DEF Next, vars, ReadClaude, ReadCodex, AppendRow, AddLeaf, Read, AdmitSession, ReadDated,
         Working, Commit, Merge, Switch, Reset, Prune, Enroll, Capture
<1>2. input \in Seq(Leaf)
  BY <1>1 DEF LeavesInv
<1>3. CASE AddLeaf
  <2>1. PICK leaf \in Leaf : input' = Append(input, leaf)
    BY <1>3 DEF AddLeaf, Read, Leaf
  <2>. QED BY <1>2, <2>1
<1>4. CASE ~AddLeaf
  <2>1. input' = input
    BY <1>1, <1>4 DEF Next, vars, ReadClaude, ReadCodex, AppendRow, Read, AdmitSession,
         ReadDated, Working, Commit, Merge, Switch, Reset, Prune, Enroll, Capture
  <2>. QED BY <1>2, <2>1
<1>. QED BY <1>3, <1>4

\* At every moment, however many leaves there are: the root binds them, and
\* only what is among them has a proof.
THEOREM CommitmentsBind == Spec => []CommitmentBinds
<1>1. LeavesInv => CommitmentBinds
  <2>. SUFFICES ASSUME input \in Seq(Leaf), input # <<>>
                PROVE  /\ Tree!ProofsAreSound(input, {Tree!MerkleRoot(input)})
                       /\ Tree!RootBinds(input)
    BY DEF LeavesInv, CommitmentBinds
  <2>1. Leafy(input)
    BY DEF Leafy, Leaf
  <2>. QED BY <2>1, OnlyMembersHaveProofs, RootsDiffer
<1>. QED BY <1>1, InitLeaves, NextLeaves, PTL DEF Spec

-----------------------------------------------------------------------------
(* Episodes.  Sessions are ordered by when they began and ended. *)

SessionsOk(S) ==
    /\ IsFiniteSet(S)
    /\ \A s \in S : /\ s.id \in SessionId
                    /\ s.start \in Int \cup {None}
                    /\ s.end \in Int \cup {None}
    /\ Stitch!Admissible(S)

\* Temporal sessions have dates, and two of them are one before the other.
LEMMA BeforeOrders ==
    ASSUME NEW S, SessionsOk(S)
    PROVE  /\ Stitch!Temporal(S) \subseteq S
           /\ \A s \in Stitch!Temporal(S) : /\ s.id \in Nat /\ s.start \in Int /\ s.end \in Int
                                            /\ ~Stitch!Before(s, s)
           /\ \A s, t \in Stitch!Temporal(S) :
                s # t => Stitch!Before(s, t) \/ Stitch!Before(t, s)
           /\ \A s, t, u \in Stitch!Temporal(S) :
                Stitch!Before(s, t) /\ Stitch!Before(t, u) => Stitch!Before(s, u)
<1>1. Stitch!Temporal(S) \subseteq S
  BY DEF Stitch!Temporal
<1>2. \A s \in Stitch!Temporal(S) : s.id \in Nat /\ s.start \in Int /\ s.end \in Int
  BY EvidenceAssumption DEF Stitch!Temporal, SessionsOk
<1>3. \A s, t \in Stitch!Temporal(S) : s # t => s.id # t.id
  BY <1>1 DEF SessionsOk, Stitch!Admissible
<1>4. \A s \in Stitch!Temporal(S) : ~Stitch!Before(s, s)
  BY <1>2 DEF Stitch!Before
<1>5. \A s, t \in Stitch!Temporal(S) :
         s # t => Stitch!Before(s, t) \/ Stitch!Before(t, s)
  BY <1>2, <1>3 DEF Stitch!Before
<1>6. \A s, t, u \in Stitch!Temporal(S) :
         Stitch!Before(s, t) /\ Stitch!Before(t, u) => Stitch!Before(s, u)
  BY <1>2 DEF Stitch!Before
<1>. QED BY <1>1, <1>2, <1>4, <1>5, <1>6

\* Of some of them one is the latest.
LEMMA LatestIn ==
    ASSUME NEW S, SessionsOk(S), NEW some \in SUBSET Stitch!Temporal(S), some # {}
    PROVE  Stitch!Latest(some) \in some
<1>. DEFINE T == Stitch!Temporal(S)
            Has(s) == \E x \in s : \A t \in s \ {x} : Stitch!Before(t, x)
            Bad(s) == s # {} /\ ~Has(s)
            D == {Cardinality(s) : s \in {r \in SUBSET T : Bad(r)}}
<1>1. IsFiniteSet(T)
  <2>1. IsFiniteSet(S) /\ T \subseteq S
    BY BeforeOrders DEF SessionsOk
  <2>. QED BY <2>1, FS_Subset
<1>. HIDE DEF T
<1>2. \A s \in SUBSET T : IsFiniteSet(s) /\ Cardinality(s) \in Nat
  BY <1>1, FS_Subset, FS_CardinalityType
<1>3. ASSUME D # {} PROVE FALSE
  <2>1. D \subseteq Nat
    BY <1>2
  <2>2. PICK m \in D : \A k \in D : m <= k
    <3>. HIDE DEF D
    <3>. QED BY <1>3, <2>1, Smallest
  <2>3. PICK s \in SUBSET T : Bad(s) /\ m = Cardinality(s)
    <3>. HIDE DEF Bad
    <3>. QED OBVIOUS
  <2>4. \A r \in SUBSET T : Cardinality(r) < Cardinality(s) => ~Bad(r)
    <3>. TAKE r \in SUBSET T
    <3>1. Bad(r) => Cardinality(r) \in D
      OBVIOUS
    <3>. HIDE DEF D, Bad
    <3>. QED BY <1>2, <2>2, <2>3, <3>1
  <2>5. PICK x : x \in s
    BY <2>3
  <2>6. s \ {x} \in SUBSET T /\ Cardinality(s \ {x}) < Cardinality(s)
    <3>1. Cardinality(s \ {x}) = Cardinality(s) - 1
      BY <1>2, <2>3, <2>5, FS_RemoveElement
    <3>. QED BY <1>2, <2>3, <3>1
  <2>7. ~Bad(s \ {x})
    <3>. HIDE DEF Bad
    <3>. QED BY <2>4, <2>6
  <2>8. CASE s \ {x} = {}
    <3>1. Has(s)
      BY <2>5, <2>8
    <3>. QED BY <2>3, <3>1
  <2>9. CASE s \ {x} # {}
    <3>1. PICK y \in s \ {x} : \A t \in (s \ {x}) \ {y} : Stitch!Before(t, y)
      BY <2>7, <2>9
    <3>2. x \in T /\ y \in T /\ x # y /\ \A t \in s : t \in T
      BY <2>3, <2>5, <3>1
    <3>3. CASE Stitch!Before(x, y)
      <4>1. \A t \in s \ {y} : Stitch!Before(t, y)
        BY <3>1, <3>3
      <4>2. Has(s)
        BY <3>1, <4>1
      <4>. QED BY <2>3, <4>2
    <3>4. CASE ~Stitch!Before(x, y)
      <4>1. Stitch!Before(y, x)
        BY <3>2, <3>4, BeforeOrders DEF T
      <4>2. \A t \in s \ {x} : Stitch!Before(t, x)
        <5>. TAKE t \in s \ {x}
        <5>1. CASE t = y
          BY <4>1, <5>1
        <5>2. CASE t # y
          <6>1. Stitch!Before(t, y)
            BY <3>1, <5>2
          <6>. QED BY <3>2, <4>1, <6>1, BeforeOrders DEF T
        <5>. QED BY <5>1, <5>2
      <4>3. Has(s)
        BY <2>5, <4>2
      <4>. QED BY <2>3, <4>3
    <3>. QED BY <3>3, <3>4
  <2>. QED BY <2>8, <2>9
<1>4. Has(some)
  <2>1. some \in SUBSET T
    BY DEF T
  <2>2. ~Bad(some)
    <3>1. Bad(some) => Cardinality(some) \in D
      BY <2>1
    <3>. HIDE DEF D, Bad
    <3>. QED BY <1>3, <3>1
  <2>. QED BY <2>2
<1>. QED BY <1>4 DEF Stitch!Latest

\* Cardinality is the same in Episodes as here.
LEMMA StitchCardinality ==
    \A S : Stitch!Cardinality(S) = Cardinality(S)
BY DEF Stitch!Cardinality, Cardinality, Stitch!IsFiniteSet, IsFiniteSet

\* w says what is met from start in n steps along edges, for n up to m.
Met(edges, start, m, w) ==
    w = [n \in 0 .. m |->
           IF n = 0 THEN {start}
           ELSE w[n - 1] \cup {e[2] : e \in {f \in edges : f[1] \in w[n - 1]}}]

\* The recursion of Reached has a solution.
LEMMA MetExists ==
    ASSUME NEW edges, NEW start
    PROVE  \A m \in Nat : \E w : Met(edges, start, m, w)
<1>. DEFINE D == {m \in Nat : ~ \E w : Met(edges, start, m, w)}
<1>1. SUFFICES ASSUME D # {} PROVE FALSE
  OBVIOUS
<1>2. PICK m \in D : \A k \in D : m <= k
  BY <1>1, Smallest
<1>3. m # 0
  <2>1. Met(edges, start, 0, [n \in 0 .. 0 |-> {start}])
    BY DEF Met
  <2>. QED BY <1>2, <2>1
<1>4. PICK w : Met(edges, start, m - 1, w)
  BY <1>2, <1>3
<1>. DEFINE more(set) == set \cup {e[2] : e \in {f \in edges : f[1] \in set}}
            g == [n \in 0 .. m |-> IF n = m THEN more(w[m - 1]) ELSE w[n]]
<1>5. Met(edges, start, m, g)
  <2>0. \A n \in 0 .. m - 1 : w[n] = IF n = 0 THEN {start} ELSE more(w[n - 1])
    BY <1>4 DEF Met
  <2>. HIDE DEF more
  <2>1. ASSUME NEW n \in 0 .. m
        PROVE  g[n] = IF n = 0 THEN {start} ELSE more(g[n - 1])
    <3>1. CASE n = m
      BY <1>2, <1>3, <3>1
    <3>2. CASE n # m
      <4>1. n \in 0 .. m - 1 /\ g[n] = w[n] /\ n - 1 # m
        BY <1>2, <1>3, <3>2
      <4>2. n # 0 => g[n - 1] = w[n - 1]
        BY <1>2, <4>1
      <4>. QED BY <2>0, <4>1, <4>2
    <3>. QED BY <3>1, <3>2
  <2>2. g = [n \in 0 .. m |-> IF n = 0 THEN {start} ELSE more(g[n - 1])]
    <3>1. g = [n \in 0 .. m |-> g[n]]
      OBVIOUS
    <3>. HIDE DEF g
    <3>. QED BY <2>1, <3>1
  <2>. QED BY <2>2 DEF Met, more
<1>. QED BY <1>2, <1>5

\* What is reached is the least set that holds start and that no edge leaves.
Closed(edges, set) == \A e \in edges : e[1] \in set => e[2] \in set

\* Reached is the least closed set that holds its start (_episode_map: reaches).
LEMMA ReachedLeast ==
    ASSUME NEW edges, IsFiniteSet(edges), NEW start
    PROVE  /\ start \in Stitch!Reached(edges, start)
           /\ Closed(edges, Stitch!Reached(edges, start))
           /\ \A set : start \in set /\ Closed(edges, set) =>
                         Stitch!Reached(edges, start) \subseteq set
<1>. DEFINE N == Cardinality(edges)
            w == CHOOSE w : Met(edges, start, N, w)
            more(set) == set \cup {e[2] : e \in {f \in edges : f[1] \in set}}
<1>1. N \in Nat
  BY FS_CardinalityType
<1>2. Stitch!Reached(edges, start) = w[N]
  BY StitchCardinality DEF Stitch!Reached, Met
<1>3. Met(edges, start, N, w)
  <2>1. \E v : Met(edges, start, N, v)
    BY <1>1, MetExists
  <2>. QED BY <2>1
<1>. HIDE DEF w
<1>4. /\ w[0] = {start}
      /\ \A n \in 1 .. N : w[n] = more(w[n - 1])
  <2>1. \A n \in 0 .. N : w[n] = IF n = 0 THEN {start} ELSE more(w[n - 1])
    BY <1>3 DEF Met
  <2>2. 0 \in 0 .. N /\ \A n \in 1 .. N : n \in 0 .. N /\ n # 0
    BY <1>1
  <2>. HIDE DEF more, N
  <2>. QED BY <2>1, <2>2
<1>. DEFINE A(n) == {e \in edges : e[2] \in w[n]}
            Fine(n) == /\ start \in w[n]
                       /\ Closed(edges, w[n]) \/ n <= Cardinality(A(n))
                       /\ \A set : start \in set /\ Closed(edges, set) => w[n] \subseteq set
            D == {n \in 0 .. N : ~Fine(n)}
<1>5. \A n \in 0 .. N : IsFiniteSet(A(n)) /\ Cardinality(A(n)) \in Nat /\ Cardinality(A(n)) <= N
                        /\ (Cardinality(A(n)) = N => A(n) = edges)
  <2>. TAKE n \in 0 .. N
  <2>1. A(n) \in SUBSET edges
    OBVIOUS
  <2>. HIDE DEF A
  <2>. QED BY <2>1, FS_Subset, FS_CardinalityType
<1>6. Fine(0)
  <2>1. 0 <= Cardinality(A(0))
    <3>1. 0 \in 0 .. N
      BY <1>1
    <3>2. Cardinality(A(0)) \in Nat
      BY <1>5, <3>1
    <3>. HIDE DEF A
    <3>. QED BY <3>2
  <2>. QED BY <1>4, <2>1
<1>7. ASSUME NEW n \in 1 .. N, Fine(n - 1)
      PROVE  Fine(n)
  <2>0. n - 1 \in 0 .. N /\ n \in 0 .. N /\ n \in Nat
    BY <1>1
  <2>1. w[n] = more(w[n - 1])
    BY <1>4
  <2>2. start \in w[n] /\ w[n - 1] \subseteq w[n]
    BY <1>7, <2>1
  <2>3. \A set : start \in set /\ Closed(edges, set) => w[n] \subseteq set
    BY <1>7, <2>1 DEF Closed
  <2>4. CASE Closed(edges, w[n - 1])
    <3>1. w[n] = w[n - 1]
      BY <2>1, <2>4 DEF Closed
    <3>. QED BY <2>2, <2>3, <2>4, <3>1
  <2>5. CASE ~Closed(edges, w[n - 1])
    <3>1. PICK e \in edges : e[1] \in w[n - 1] /\ e[2] \notin w[n - 1]
      BY <2>5 DEF Closed
    <3>2. e \in A(n) /\ e \notin A(n - 1)
      BY <2>1, <3>1
    <3>3. A(n - 1) \in SUBSET A(n) /\ A(n - 1) # A(n)
      BY <2>2, <3>2
    <3>4. Cardinality(A(n - 1)) < Cardinality(A(n))
      <4>. HIDE DEF A
      <4>1. Cardinality(A(n - 1)) <= Cardinality(A(n)) /\ Cardinality(A(n - 1)) # Cardinality(A(n))
        BY <1>5, <2>0, <3>3, FS_Subset
      <4>. QED BY <1>5, <2>0, <4>1
    <3>5. n - 1 <= Cardinality(A(n - 1))
      BY <1>7, <2>5
    <3>6. n <= Cardinality(A(n))
      <4>. HIDE DEF A
      <4>. QED BY <1>5, <2>0, <3>4, <3>5
    <3>. QED BY <2>2, <2>3, <3>6
  <2>. QED BY <2>4, <2>5
<1>8. ASSUME D # {} PROVE FALSE
  <2>0. D \subseteq Nat
    BY <1>1
  <2>1. PICK n \in D : \A k \in D : n <= k
    <3>. HIDE DEF D
    <3>. QED BY <1>8, <2>0, Smallest
  <2>. HIDE DEF Fine
  <2>2. n # 0 /\ n \in 1 .. N
    BY <1>1, <1>6, <2>1
  <2>3. n - 1 \in 0 .. N /\ n - 1 < n
    BY <1>1, <2>2
  <2>4. Fine(n - 1)
    BY <2>0, <2>1, <2>3
  <2>. QED BY <1>7, <2>1, <2>2, <2>4
<1>9. Fine(N)
  <2>. HIDE DEF Fine
  <2>. QED BY <1>1, <1>8
<1>10. Closed(edges, w[N])
  <2>1. CASE N <= Cardinality(A(N))
    <3>1. A(N) = edges
      <4>. HIDE DEF A, N
      <4>. QED BY <1>1, <1>5, <2>1
    <3>. QED BY <3>1 DEF Closed
  <2>. QED BY <1>9, <2>1
<1>. QED BY <1>2, <1>9, <1>10

\* An edge to what does not lead back to it closes no cycle.
LEMMA NoCycleClosed ==
    ASSUME NEW edges, IsFiniteSet(edges), ~Stitch!Cyclic(edges), NEW c, NEW p,
           c \notin Stitch!Reached(edges, p)
    PROVE  ~Stitch!Cyclic(edges \cup {<<c, p>>})
<1>. DEFINE E == edges \cup {<<c, p>>}
            R(s) == Stitch!Reached(edges, s)
<1>0. IsFiniteSet(E)
  BY FS_AddElement
<1>1. \A s : /\ s \in R(s)
             /\ Closed(edges, R(s))
             /\ \A set : s \in set /\ Closed(edges, set) => R(s) \subseteq set
  BY ReachedLeast
<1>2. \A s : /\ s \in Stitch!Reached(E, s)
             /\ \A set : s \in set /\ Closed(E, set) => Stitch!Reached(E, s) \subseteq set
  <2>. HIDE DEF E
  <2>. QED BY <1>0, ReachedLeast
<1>3. ASSUME NEW s
      PROVE  Stitch!Reached(E, s) \subseteq IF c \in R(s) THEN R(s) \cup R(p) ELSE R(s)
  <2>. DEFINE T == IF c \in R(s) THEN R(s) \cup R(p) ELSE R(s)
  <2>. HIDE DEF R
  <2>1. s \in T
    BY <1>1
  <2>2. Closed(E, T)
    <3>1. ASSUME NEW e \in edges, e[1] \in T PROVE e[2] \in T
      BY <1>1, <3>1 DEF Closed
    <3>2. ASSUME c \in T PROVE p \in T
      BY <1>1, <3>2
    <3>. HIDE DEF T
    <3>. QED BY <3>1, <3>2 DEF Closed
  <2>. HIDE DEF T, E
  <2>3. Stitch!Reached(E, s) \subseteq T
    BY <1>2, <2>1, <2>2
  <2>. QED BY <2>3 DEF T
<1>4. ASSUME NEW e \in E, e[1] \in Stitch!Reached(E, e[2]) PROVE FALSE
  <2>1. CASE e \in edges
    <3>1. e[1] \notin R(e[2])
      BY <2>1 DEF Stitch!Cyclic
    <3>. HIDE DEF R, E
    <3>2. c \in R(e[2]) /\ e[1] \in R(p)
      BY <1>3, <1>4, <3>1
    <3>3. e[2] \in R(p)
      BY <1>1, <2>1, <3>2 DEF Closed
    <3>4. R(e[2]) \subseteq R(p)
      BY <1>1, <3>3
    <3>. QED BY <3>2, <3>4 DEF R
  <2>2. CASE e = <<c, p>>
    <3>1. c \in Stitch!Reached(E, p)
      BY <1>4, <2>2
    <3>. HIDE DEF E
    <3>. QED BY <1>3, <3>1
  <2>. QED BY <2>1, <2>2
<1>. QED BY <1>4 DEF Stitch!Cyclic

\* f holds the links that each set of the domain D of the sessions has made.
Linking(S, D, f) ==
    f = [s \in D |->
           IF s = {} THEN [edges |-> Stitch!RecordedParents(S), inferred |-> {}]
           ELSE Stitch!InferLink(f[s \ {Stitch!Latest(s)}], Stitch!Latest(s), S)]

LinksUpTo(S) == CHOOSE f : Linking(S, SUBSET Stitch!Temporal(S), f)

\* The inferred links are what the recursion over sessions gives.
LEMMA LinksAre ==
    ASSUME NEW S
    PROVE  Stitch!InferredLinks(S) = LinksUpTo(S)[Stitch!Temporal(S)].inferred
BY DEF Stitch!InferredLinks, Stitch!MapThenFoldSet, LinksUpTo, Linking

\* That recursion has a solution.
LEMMA LinkingExists ==
    ASSUME NEW S, SessionsOk(S)
    PROVE  \E f : Linking(S, SUBSET Stitch!Temporal(S), f)
<1>. DEFINE T == Stitch!Temporal(S)
            D == {n \in Nat : ~ \E f : Linking(S, Small(T, n), f)}
<1>0. IsFiniteSet(T)
  <2>1. IsFiniteSet(S) /\ T \subseteq S
    BY BeforeOrders DEF SessionsOk
  <2>. QED BY <2>1, FS_Subset
<1>1. \A s \in SUBSET T : s # {} => Stitch!Latest(s) \in s
  BY LatestIn
<1>. HIDE DEF T
<1>2. \A s \in SUBSET T : /\ IsFiniteSet(s) /\ Cardinality(s) \in Nat
                          /\ Cardinality(s) <= Cardinality(T)
                          /\ Cardinality(s) = 0 <=> s = {}
  BY <1>0, FS_Subset, FS_CardinalityType, FS_EmptySet
<1>3. \A s \in SUBSET T : s # {} =>
        /\ s \ {Stitch!Latest(s)} \in SUBSET T
        /\ Cardinality(s \ {Stitch!Latest(s)}) = Cardinality(s) - 1
  BY <1>1, <1>2, FS_RemoveElement
<1>4. ASSUME D # {} PROVE FALSE
  <2>0. D \subseteq Nat
    OBVIOUS
  <2>1. PICK m \in D : \A k \in D : m <= k
    <3>. HIDE DEF D
    <3>. QED BY <1>4, <2>0, Smallest
  <2>2. m # 0
    <3>1. Small(T, 0) = {{}}
      BY <1>2 DEF Small
    <3>2. Linking(S, {{}}, [s \in {{}} |->
                              [edges |-> Stitch!RecordedParents(S), inferred |-> {}]])
      BY DEF Linking
    <3>. QED BY <2>1, <3>1, <3>2
  <2>3. PICK f : Linking(S, Small(T, m - 1), f)
    BY <2>1, <2>2
  <2>. DEFINE pick(s) == Stitch!Latest(s)
              body(g, s) ==
                IF s = {} THEN [edges |-> Stitch!RecordedParents(S), inferred |-> {}]
                ELSE Stitch!InferLink(g[s \ {pick(s)}], pick(s), S)
              h == [s \in Small(T, m) |-> body(f, s)]
  <2>4. \A s \in Small(T, m) : s # {} => s \ {pick(s)} \in Small(T, m - 1)
    BY <1>2, <1>3, <2>1, <2>2 DEF Small
  <2>5. \A s \in Small(T, m - 1) : s \in Small(T, m) /\ f[s] = body(f, s)
    <3>1. \A s \in Small(T, m - 1) : s \in Small(T, m)
      BY <1>2, <2>1 DEF Small
    <3>2. \A s \in Small(T, m - 1) : f[s] = body(f, s)
      BY <2>3 DEF Linking
    <3>. QED BY <3>1, <3>2
  <2>6. \A s \in Small(T, m - 1) : h[s] = f[s]
    BY <2>5
  <2>7. \A s \in Small(T, m) : body(f, s) = body(h, s)
    <3>. HIDE DEF pick, h
    <3>. QED BY <2>4, <2>6
  <2>8. h = [s \in Small(T, m) |-> body(h, s)]
    <3>1. \A s \in Small(T, m) : h[s] = body(h, s)
      <4>. HIDE DEF body
      <4>. QED BY <2>7
    <3>2. h = [s \in Small(T, m) |-> h[s]]
      OBVIOUS
    <3>. HIDE DEF h, body
    <3>. QED BY <3>1, <3>2
  <2>9. Linking(S, Small(T, m), h)
    <3>. HIDE DEF h
    <3>. QED BY <2>8 DEF Linking
  <2>. QED BY <2>1, <2>9
<1>5. Small(T, Cardinality(T)) = SUBSET T
  BY <1>2 DEF Small
<1>6. Cardinality(T) \in Nat
  BY <1>0, FS_CardinalityType
<1>7. \E f : Linking(S, Small(T, Cardinality(T)), f)
  BY <1>4, <1>6
<1>. QED BY <1>5, <1>7 DEF T

\* What the links made by the sessions s are: links of distinct sessions of the
\* input, at most one to each child, that with the recorded ones close no cycle.
LinksOk(S, s, acc) ==
    /\ acc.edges = Stitch!RecordedParents(S) \cup acc.inferred
    /\ ~Stitch!Cyclic(acc.edges)
    /\ \A e \in acc.inferred :
         \E a \in s, b \in Stitch!Temporal(S) : e = <<a.id, b.id>> /\ a.id # b.id
    /\ \A d, e \in acc.inferred : d[1] = e[1] => d = e

\* All of their endpoints are ids of the input.
LEMMA LinksFinite ==
    ASSUME NEW S, SessionsOk(S), NEW s \in SUBSET Stitch!Temporal(S), NEW acc,
           LinksOk(S, s, acc)
    PROVE  /\ acc.edges \subseteq Stitch!Ids(S) \X Stitch!Ids(S)
           /\ IsFiniteSet(acc.edges)
<1>1. acc.inferred \subseteq Stitch!Ids(S) \X Stitch!Ids(S)
  <2>1. Stitch!Temporal(S) \subseteq S
    BY DEF Stitch!Temporal
  <2>. QED BY <2>1 DEF LinksOk, Stitch!Ids
<1>2. Stitch!RecordedParents(S) \subseteq Stitch!Ids(S) \X Stitch!Ids(S)
  BY DEF Stitch!RecordedParents, Stitch!Ids
<1>3. IsFiniteSet(Stitch!Ids(S))
  <2>. DEFINE g == [x \in S |-> x.id]
  <2>1. g \in Surjection(S, Stitch!Ids(S))
    BY DEF Surjection, Stitch!Ids
  <2>2. IsFiniteSet(S)
    BY DEF SessionsOk
  <2>. HIDE DEF g
  <2>. QED BY <2>1, <2>2, FS_Surjection
<1>4. IsFiniteSet(Stitch!Ids(S) \X Stitch!Ids(S))
  BY <1>3, FS_Product
<1>5. acc.edges \subseteq Stitch!Ids(S) \X Stitch!Ids(S)
  BY <1>1, <1>2 DEF LinksOk
<1>. QED BY <1>4, <1>5, FS_Subset

\* One more session keeps it so.
LEMMA LinkAdded ==
    ASSUME NEW S, SessionsOk(S), NEW s \in SUBSET Stitch!Temporal(S), s # {},
           NEW acc, LinksOk(S, s \ {Stitch!Latest(s)}, acc)
    PROVE  LinksOk(S, s, Stitch!InferLink(acc, Stitch!Latest(s), S))
<1>. DEFINE later == Stitch!Latest(s)
            C == {t \in Stitch!Temporal(S) : /\ Stitch!Continues(later, t)
                                             /\ later.id \notin Stitch!Reached(acc.edges, t.id)}
            pred == Stitch!Latest(C)
            edge == <<later.id, pred.id>>
            next == Stitch!InferLink(acc, later, S)
<1>1. later \in s
  BY LatestIn
<1>2. CASE C = {}
  <2>1. next = acc
    BY <1>2 DEF Stitch!InferLink
  <2>. QED BY <2>1 DEF LinksOk
<1>3. CASE C # {}
  <2>1. pred \in C
    <3>1. C \in SUBSET Stitch!Temporal(S)
      OBVIOUS
    <3>. HIDE DEF C
    <3>. QED BY <1>3, <3>1, LatestIn
  <2>2. next = [edges    |-> acc.edges \cup {edge},
                inferred |-> IF edge \in Stitch!RecordedParents(S)
                               THEN acc.inferred
                               ELSE acc.inferred \cup {edge}]
    BY <1>3 DEF Stitch!InferLink
  <2>3. pred \in Stitch!Temporal(S) /\ later.id \notin Stitch!Reached(acc.edges, pred.id)
    BY <2>1
  <2>. HIDE DEF pred, later, C, next
  <2>4. IsFiniteSet(acc.edges) /\ ~Stitch!Cyclic(acc.edges)
    <3>1. s \ {later} \in SUBSET Stitch!Temporal(S)
      OBVIOUS
    <3>. QED BY <3>1, LinksFinite DEF LinksOk, later
  <2>5. ~Stitch!Cyclic(acc.edges \cup {edge})
    BY <2>3, <2>4, NoCycleClosed
  <2>6. later.id # pred.id
    BY <2>3, <2>4, ReachedLeast
  <2>7. \A e \in acc.inferred : e[1] # later.id
    <3>1. ASSUME NEW e \in acc.inferred PROVE e[1] # later.id
      <4>1. PICK a \in s \ {later} : e[1] = a.id
        BY DEF LinksOk, later
      <4>2. a \in S /\ later \in S /\ a # later
        BY <1>1, <4>1, BeforeOrders
      <4>. QED BY <4>1, <4>2 DEF SessionsOk, Stitch!Admissible
    <3>. QED BY <3>1
  <2>8. next.edges = acc.edges \cup {edge}
    BY <2>2
  <2>9. next.inferred = IF edge \in Stitch!RecordedParents(S) THEN acc.inferred
                                                           ELSE acc.inferred \cup {edge}
    BY <2>2
  <2>10. /\ acc.edges = Stitch!RecordedParents(S) \cup acc.inferred
         /\ \A e \in acc.inferred :
              \E a \in s \ {later}, b \in Stitch!Temporal(S) : e = <<a.id, b.id>> /\ a.id # b.id
         /\ \A d, e \in acc.inferred : d[1] = e[1] => d = e
    BY DEF LinksOk, later
  <2>11. next.edges = Stitch!RecordedParents(S) \cup next.inferred
    BY <2>8, <2>9, <2>10
  <2>12. \A e \in next.inferred :
           \E a \in s, b \in Stitch!Temporal(S) : e = <<a.id, b.id>> /\ a.id # b.id
    BY <1>1, <2>3, <2>6, <2>9, <2>10
  <2>13. \A d, e \in next.inferred : d[1] = e[1] => d = e
    BY <2>7, <2>9, <2>10
  <2>14. ~Stitch!Cyclic(next.edges)
    BY <2>5, <2>8
  <2>15. LinksOk(S, s, next)
    BY <2>11, <2>12, <2>13, <2>14 DEF LinksOk
  <2>. QED BY <2>15 DEF next, later
<1>. QED BY <1>2, <1>3

\* So inferred links are, when the recorded ones close no cycle.
LEMMA InferredOk ==
    ASSUME NEW S, SessionsOk(S), ~Stitch!Cyclic(Stitch!RecordedParents(S))
    PROVE  LinksOk(S, Stitch!Temporal(S),
                   [edges    |-> Stitch!RecordedParents(S) \cup Stitch!InferredLinks(S),
                    inferred |-> Stitch!InferredLinks(S)])
<1>. DEFINE T == Stitch!Temporal(S)
            f == LinksUpTo(S)
<1>1. Linking(S, SUBSET T, f)
  <2>1. \E g : Linking(S, SUBSET T, g)
    BY LinkingExists
  <2>. QED BY <2>1 DEF LinksUpTo
<1>2. IsFiniteSet(T)
  <2>1. IsFiniteSet(S) /\ T \subseteq S
    BY BeforeOrders DEF SessionsOk
  <2>. QED BY <2>1, FS_Subset
<1>3. Stitch!InferredLinks(S) = f[T].inferred
  BY LinksAre
<1>. HIDE DEF f
<1>4. \A s \in SUBSET T : IsFiniteSet(s) /\ Cardinality(s) \in Nat
  <2>. HIDE DEF T
  <2>. QED BY <1>2, FS_Subset, FS_CardinalityType
<1>. DEFINE Fine(s) == LinksOk(S, s, f[s])
            D == {Cardinality(s) : s \in {r \in SUBSET T : ~Fine(r)}}
<1>5. ASSUME D # {} PROVE FALSE
  <2>0. D \subseteq Nat
    BY <1>4
  <2>1. PICK m \in D : \A k \in D : m <= k
    <3>. HIDE DEF D
    <3>. QED BY <1>5, <2>0, Smallest
  <2>2. PICK s \in SUBSET T : ~Fine(s) /\ m = Cardinality(s)
    <3>. HIDE DEF Fine
    <3>. QED OBVIOUS
  <2>3. \A r \in SUBSET T : Cardinality(r) < Cardinality(s) => Fine(r)
    <3>. TAKE r \in SUBSET T
    <3>1. ~Fine(r) => Cardinality(r) \in D
      OBVIOUS
    <3>. HIDE DEF D, Fine
    <3>. QED BY <1>4, <2>1, <2>2, <3>1
  <2>4. s # {}
    <3>1. f[{}] = [edges |-> Stitch!RecordedParents(S), inferred |-> {}]
      BY <1>1 DEF Linking
    <3>2. Fine({})
      BY <3>1 DEF LinksOk
    <3>. QED BY <2>2, <3>2
  <2>5. f[s] = Stitch!InferLink(f[s \ {Stitch!Latest(s)}], Stitch!Latest(s), S)
    BY <1>1, <2>4 DEF Linking
  <2>6. Fine(s \ {Stitch!Latest(s)})
    <3>1. Stitch!Latest(s) \in s
      BY <2>4, LatestIn
    <3>2. Cardinality(s \ {Stitch!Latest(s)}) = Cardinality(s) - 1
      <4>. HIDE DEF T
      <4>. QED BY <1>4, <3>1, FS_RemoveElement
    <3>. HIDE DEF T, Fine
    <3>. QED BY <1>4, <2>3, <3>2
  <2>7. Fine(s)
    BY <2>4, <2>5, <2>6, LinkAdded
  <2>. QED BY <2>2, <2>7
<1>6. LinksOk(S, T, f[T])
  BY <1>5
<1>7. f[T].edges = Stitch!RecordedParents(S) \cup f[T].inferred
  BY <1>6 DEF LinksOk
<1>. QED BY <1>3, <1>6, <1>7 DEF LinksOk

\* f holds the roots once each set of the domain D of the edges has been joined.
Joining(ids, D, f) ==
    f = [s \in D |-> IF s = {} THEN [k \in ids |-> k]
                     ELSE Stitch!Union(f[s \ {CHOOSE x \in s : TRUE}],
                                       CHOOSE x \in s : TRUE)]

UnionRoots(ids, edges) == CHOOSE f : Joining(ids, SUBSET edges, f)

\* The roots are what the recursion over edges gives.
LEMMA UnionRootsAre ==
    ASSUME NEW ids, NEW edges
    PROVE  Stitch!Roots(ids, edges) = UnionRoots(ids, edges)[edges]
BY DEF Stitch!Roots, Stitch!FoldSet, Stitch!MapThenFoldSet, UnionRoots, Joining

\* That recursion has a solution.
LEMMA JoiningExists ==
    ASSUME NEW ids, NEW S, IsFiniteSet(S)
    PROVE  \E f : Joining(ids, SUBSET S, f)
<1>. DEFINE D == {n \in Nat : ~ \E f : Joining(ids, Small(S, n), f)}
<1>0. \A s \in SUBSET S : /\ IsFiniteSet(s) /\ Cardinality(s) \in Nat
                          /\ Cardinality(s) <= Cardinality(S)
                          /\ Cardinality(s) = 0 <=> s = {}
  BY FS_Subset, FS_CardinalityType, FS_EmptySet
<1>1. \A s \in SUBSET S : s # {} =>
        /\ s \ {CHOOSE x \in s : TRUE} \in SUBSET S
        /\ Cardinality(s \ {CHOOSE x \in s : TRUE}) = Cardinality(s) - 1
  <2>. TAKE s \in SUBSET S
  <2>. SUFFICES ASSUME s # {}
                PROVE  /\ s \ {CHOOSE x \in s : TRUE} \in SUBSET S
                       /\ Cardinality(s \ {CHOOSE x \in s : TRUE}) = Cardinality(s) - 1
    OBVIOUS
  <2>1. PICK x : x = CHOOSE y \in s : TRUE
    OBVIOUS
  <2>2. x \in s
    BY <2>1
  <2>. QED BY <1>0, <2>1, <2>2, FS_RemoveElement
<1>2. ASSUME D # {} PROVE FALSE
  <2>0. D \subseteq Nat
    OBVIOUS
  <2>1. PICK m \in D : \A k \in D : m <= k
    <3>. HIDE DEF D
    <3>. QED BY <1>2, <2>0, Smallest
  <2>2. m # 0
    <3>1. Small(S, 0) = {{}}
      BY <1>0 DEF Small
    <3>2. Joining(ids, {{}}, [s \in {{}} |-> [k \in ids |-> k]])
      BY DEF Joining
    <3>. QED BY <2>1, <3>1, <3>2
  <2>3. PICK f : Joining(ids, Small(S, m - 1), f)
    BY <2>1, <2>2
  <2>. DEFINE pick(s) == CHOOSE x \in s : TRUE
              body(g, s) == IF s = {} THEN [k \in ids |-> k]
                            ELSE Stitch!Union(g[s \ {pick(s)}], pick(s))
              h == [s \in Small(S, m) |-> body(f, s)]
  <2>4. \A s \in Small(S, m) : s # {} => s \ {pick(s)} \in Small(S, m - 1)
    BY <1>0, <1>1, <2>1, <2>2 DEF Small
  <2>5. \A s \in Small(S, m - 1) : s \in Small(S, m) /\ f[s] = body(f, s)
    <3>1. \A s \in Small(S, m - 1) : s \in Small(S, m)
      BY <1>0, <2>1 DEF Small
    <3>2. \A s \in Small(S, m - 1) : f[s] = body(f, s)
      BY <2>3 DEF Joining
    <3>. QED BY <3>1, <3>2
  <2>6. \A s \in Small(S, m - 1) : h[s] = f[s]
    BY <2>5
  <2>7. \A s \in Small(S, m) : body(f, s) = body(h, s)
    <3>. HIDE DEF pick, h
    <3>. QED BY <2>4, <2>6
  <2>8. h = [s \in Small(S, m) |-> body(h, s)]
    <3>1. \A s \in Small(S, m) : h[s] = body(h, s)
      <4>. HIDE DEF body
      <4>. QED BY <2>7
    <3>2. h = [s \in Small(S, m) |-> h[s]]
      OBVIOUS
    <3>. HIDE DEF h, body
    <3>. QED BY <3>1, <3>2
  <2>9. Joining(ids, Small(S, m), h)
    <3>. HIDE DEF h
    <3>. QED BY <2>8 DEF Joining
  <2>. QED BY <2>1, <2>9
<1>3. Small(S, Cardinality(S)) = SUBSET S
  BY <1>0 DEF Small
<1>4. Cardinality(S) \in Nat
  BY FS_CardinalityType
<1>5. \E f : Joining(ids, Small(S, Cardinality(S)), f)
  BY <1>2, <1>4
<1>. QED BY <1>3, <1>5

\* A part of the ids that no edge of s leaves or enters; roots that are one
\* across each edge of s, and only within what every such part keeps together.
Uncut(s, part) == \A e \in s : e[1] \in part <=> e[2] \in part

JoinedOk(ids, s, root) ==
    /\ DOMAIN root = ids
    /\ \A e \in s : root[e[1]] = root[e[2]]
    /\ \A part \in SUBSET ids : Uncut(s, part) =>
         \A k, l \in ids : root[k] = root[l] => (k \in part <=> l \in part)

\* A union keeps JoinedOk.
LEMMA EdgeJoined ==
    ASSUME NEW ids, NEW s \in SUBSET (ids \X ids), NEW x \in s, NEW root,
           JoinedOk(ids, s \ {x}, root)
    PROVE  JoinedOk(ids, s, Stitch!Union(root, x))
<1>. DEFINE a == root[x[1]]
            b == root[x[2]]
            first == IF a < b THEN a ELSE b
            next == Stitch!Union(root, x)
<1>0. x[1] \in ids /\ x[2] \in ids
  OBVIOUS
<1>1. DOMAIN root = ids
  BY DEF JoinedOk
<1>2. DOMAIN next = ids
  BY <1>1 DEF Stitch!Union
<1>3. \A k \in ids : next[k] = IF root[k] \in {a, b} THEN first ELSE root[k]
  BY <1>1 DEF Stitch!Union
<1>4. first \in {a, b}
  OBVIOUS
<1>. HIDE DEF first, next
<1>5. ASSUME NEW e \in s PROVE next[e[1]] = next[e[2]]
  <2>0. e[1] \in ids /\ e[2] \in ids
    OBVIOUS
  <2>1. CASE e = x
    <3>1. next[x[1]] = first /\ next[x[2]] = first
      BY <1>0, <1>3
    <3>. QED BY <2>1, <3>1
  <2>2. CASE e # x
    <3>1. root[e[1]] = root[e[2]]
      BY <2>2 DEF JoinedOk
    <3>. QED BY <1>3, <2>0, <3>1
  <2>. QED BY <2>1, <2>2
<1>6. ASSUME NEW part \in SUBSET ids, Uncut(s, part), NEW k \in ids, NEW l \in ids,
             next[k] = next[l]
      PROVE  k \in part <=> l \in part
  <2>1. Uncut(s \ {x}, part) /\ (x[1] \in part <=> x[2] \in part)
    BY <1>6 DEF Uncut
  <2>2. \A i, j \in ids : root[i] = root[j] => (i \in part <=> j \in part)
    BY <2>1 DEF JoinedOk
  <2>3. \A i \in ids : root[i] \in {a, b} => (i \in part <=> x[1] \in part)
    BY <1>0, <2>1, <2>2
  <2>. HIDE DEF a, b
  <2>4. CASE root[k] \in {a, b}
    <3>1. root[l] \in {a, b}
      BY <1>3, <1>4, <1>6, <2>4
    <3>. QED BY <2>3, <2>4, <3>1
  <2>5. CASE root[k] \notin {a, b}
    <3>1. root[l] = root[k]
      BY <1>3, <1>4, <1>6, <2>5
    <3>. QED BY <2>2, <3>1
  <2>. QED BY <2>4, <2>5
<1>7. JoinedOk(ids, s, next)
  BY <1>2, <1>5, <1>6 DEF JoinedOk
<1>. QED BY <1>7 DEF next

\* When all edges are joined, JoinedOk holds of the roots.
LEMMA RootsJoined ==
    ASSUME NEW ids, NEW edges \in SUBSET (ids \X ids), IsFiniteSet(edges)
    PROVE  JoinedOk(ids, edges, Stitch!Roots(ids, edges))
<1>. DEFINE f == UnionRoots(ids, edges)
<1>1. Joining(ids, SUBSET edges, f)
  <2>1. \E g : Joining(ids, SUBSET edges, g)
    BY JoiningExists
  <2>. QED BY <2>1 DEF UnionRoots
<1>2. Stitch!Roots(ids, edges) = f[edges]
  BY UnionRootsAre
<1>. HIDE DEF f
<1>3. \A s \in SUBSET edges : IsFiniteSet(s) /\ Cardinality(s) \in Nat
  BY FS_Subset, FS_CardinalityType
<1>. DEFINE Fine(s) == JoinedOk(ids, s, f[s])
            D == {Cardinality(s) : s \in {r \in SUBSET edges : ~Fine(r)}}
<1>4. ASSUME D # {} PROVE FALSE
  <2>0. D \subseteq Nat
    BY <1>3
  <2>1. PICK m \in D : \A k \in D : m <= k
    <3>. HIDE DEF D
    <3>. QED BY <1>4, <2>0, Smallest
  <2>2. PICK s \in SUBSET edges : ~Fine(s) /\ m = Cardinality(s)
    <3>. HIDE DEF Fine
    <3>. QED OBVIOUS
  <2>3. \A r \in SUBSET edges : Cardinality(r) < Cardinality(s) => Fine(r)
    <3>. TAKE r \in SUBSET edges
    <3>1. ~Fine(r) => Cardinality(r) \in D
      OBVIOUS
    <3>. HIDE DEF D, Fine
    <3>. QED BY <1>3, <2>1, <2>2, <3>1
  <2>4. s # {}
    <3>1. f[{}] = [k \in ids |-> k]
      BY <1>1 DEF Joining
    <3>2. Fine({})
      BY <3>1 DEF JoinedOk
    <3>. QED BY <2>2, <3>2
  <2>5. PICK x : x = CHOOSE y \in s : TRUE
    OBVIOUS
  <2>6. x \in s
    BY <2>4, <2>5
  <2>7. f[s] = Stitch!Union(f[s \ {x}], x)
    BY <1>1, <2>4, <2>5 DEF Joining
  <2>8. Fine(s \ {x})
    <3>1. Cardinality(s \ {x}) = Cardinality(s) - 1
      BY <1>3, <2>6, FS_RemoveElement
    <3>. HIDE DEF Fine
    <3>. QED BY <1>3, <2>3, <3>1
  <2>9. Fine(s)
    <3>1. s \in SUBSET (ids \X ids)
      OBVIOUS
    <3>. QED BY <2>6, <2>7, <2>8, <3>1, EdgeJoined
  <2>. QED BY <2>2, <2>9
<1>. QED BY <1>2, <1>4

\* What the artifact says of one session.
Said(S, s) ==
    [id          |-> s.id,
     parent      |-> s.parent,
     predecessor |-> Stitch!Predecessor(Stitch!InferredLinks(S), s.id),
     episode     |-> Stitch!EpisodeMap(Stitch!Ids(S), Stitch!RecordedParents(S)
                                         \cup Stitch!InferredLinks(S))[s.id],
     started     |-> s.start,
     earliest    |-> s.earliest,
     closure     |-> Stitch!GitClosureEvidence(s)]

\* The manifest says of each session what Said says.
LEMMA ManifestIs ==
    ASSUME NEW S
    PROVE  Stitch!ManifestSessions(S) = {Said(S, s) : s \in S}
BY DEF Stitch!ManifestSessions, Said

\* The fields of what the manifest says of a session.
LEMMA SaidIs ==
    ASSUME NEW S, NEW s
    PROVE  /\ Said(S, s).id = s.id
           /\ Said(S, s).parent = s.parent
           /\ Said(S, s).predecessor = Stitch!Predecessor(Stitch!InferredLinks(S), s.id)
           /\ Said(S, s).episode =
                Stitch!EpisodeMap(Stitch!Ids(S), Stitch!RecordedParents(S)
                                                   \cup Stitch!InferredLinks(S))[s.id]
BY DEF Said

\* The links come back from the manifest: the validator has what the normalizer
\* had.
LEMMA LinksComeBack ==
    ASSUME NEW S, SessionsOk(S), ~Stitch!Cyclic(Stitch!RecordedParents(S))
    PROVE  /\ Stitch!Ids(Stitch!ManifestSessions(S)) = Stitch!Ids(S)
           /\ Stitch!ManifestEdges(Stitch!ManifestSessions(S)) =
                Stitch!RecordedParents(S) \cup Stitch!InferredLinks(S)
           /\ Stitch!LineageResolved(Stitch!ManifestSessions(S))
<1>. DEFINE M == Stitch!ManifestSessions(S)
            I == Stitch!InferredLinks(S)
            RP == Stitch!RecordedParents(S)
            ids == Stitch!Ids(S)
            pred(k) == Stitch!Predecessor(I, k)
<1>1. M = {Said(S, s) : s \in S}
  BY ManifestIs
<1>2. \A s : /\ Said(S, s).id = s.id /\ Said(S, s).parent = s.parent
             /\ Said(S, s).predecessor = pred(s.id)
  BY SaidIs
<1>3. /\ \A e \in I : /\ e[1] \in ids /\ e[2] \in ids /\ e[1] # e[2] /\ e = <<e[1], e[2]>>
      /\ \A d, e \in I : d[1] = e[1] => d = e
  <2>1. LinksOk(S, Stitch!Temporal(S), [edges |-> RP \cup I, inferred |-> I])
    BY InferredOk
  <2>2. /\ \A e \in I : \E a \in Stitch!Temporal(S), b \in Stitch!Temporal(S) :
             e = <<a.id, b.id>> /\ a.id # b.id
        /\ \A d, e \in I : d[1] = e[1] => d = e
    <3>. HIDE DEF I, RP
    <3>. QED BY <2>1 DEF LinksOk
  <2>3. Stitch!Temporal(S) \subseteq S
    BY DEF Stitch!Temporal
  <2>. HIDE DEF I
  <2>. QED BY <2>2, <2>3 DEF Stitch!Ids
<1>4. ids \subseteq Nat /\ None \notin ids
  <2>1. \A s \in S : s.id \in Nat
    BY EvidenceAssumption DEF SessionsOk
  <2>2. None \notin Nat
    BY EvidenceAssumption
  <2>. QED BY <2>1, <2>2 DEF Stitch!Ids
<1>. HIDE DEF M, I
<1>5. Stitch!Ids(M) = ids
  <2>1. \A m \in M : m.id \in ids
    BY <1>1, <1>2 DEF Stitch!Ids
  <2>2. \A k \in ids : \E m \in M : m.id = k
    <3>. TAKE k \in ids
    <3>1. PICK s \in S : s.id = k
      BY DEF Stitch!Ids
    <3>2. Said(S, s) \in M /\ Said(S, s).id = k
      BY <1>1, <1>2, <3>1
    <3>. QED BY <3>2
  <2>. HIDE DEF ids
  <2>. QED BY <2>1, <2>2 DEF Stitch!Ids
<1>6. \A k : \/ pred(k) = None /\ \A e \in I : e[1] # k
             \/ pred(k) # None /\ <<k, pred(k)>> \in I
  <2>. TAKE k
  <2>. DEFINE found == {e[2] : e \in {f \in I : f[1] = k}}
  <2>1. CASE found = {}
    <3>1. \A e \in I : e[1] # k
      BY <2>1
    <3>2. pred(k) = None
      BY <2>1 DEF Stitch!Predecessor
    <3>. QED BY <3>1, <3>2
  <2>2. CASE found # {}
    <3>1. pred(k) = CHOOSE p \in found : TRUE
      BY <2>2 DEF Stitch!Predecessor
    <3>2. pred(k) \in found
      <4>. HIDE DEF found, pred
      <4>. QED BY <2>2, <3>1
    <3>. HIDE DEF pred
    <3>3. PICK e \in I : e[1] = k /\ e[2] = pred(k)
      BY <3>2
    <3>4. pred(k) \in ids /\ e = <<k, pred(k)>>
      BY <1>3, <3>3
    <3>. QED BY <1>4, <3>3, <3>4
  <2>. QED BY <2>1, <2>2
<1>. HIDE DEF pred
<1>7. Stitch!ManifestEdges(M) = RP \cup I
  <2>. DEFINE recorded == {<<m.id, m.parent>> : m \in {n \in M : n.parent \in ids}}
              guessed  == {<<m.id, m.predecessor>> : m \in {n \in M : n.predecessor # None}}
  <2>1. Stitch!ManifestEdges(M) = recorded \cup guessed
    BY <1>5 DEF Stitch!ManifestEdges
  <2>2. recorded = RP
    <3>0. RP = {<<s.id, s.parent>> : s \in {t \in S : t.parent \in ids}}
      BY DEF Stitch!RecordedParents
    <3>. HIDE DEF RP, ids
    <3>1. ASSUME NEW e \in recorded PROVE e \in RP
      <4>1. PICK m \in M : m.parent \in ids /\ e = <<m.id, m.parent>>
        OBVIOUS
      <4>2. PICK s \in S : m = Said(S, s)
        BY <1>1
      <4>3. s.parent \in ids /\ e = <<s.id, s.parent>>
        BY <1>2, <4>1, <4>2
      <4>. QED BY <3>0, <4>3
    <3>2. ASSUME NEW e \in RP PROVE e \in recorded
      <4>1. PICK s \in S : s.parent \in ids /\ e = <<s.id, s.parent>>
        BY <3>0
      <4>2. PICK m \in M : m = Said(S, s)
        BY <1>1
      <4>3. m.parent \in ids /\ e = <<m.id, m.parent>>
        BY <1>2, <4>1, <4>2
      <4>. QED BY <4>3
    <3>. HIDE DEF recorded
    <3>. QED BY <3>1, <3>2
  <2>3. guessed = I
    <3>. HIDE DEF RP, ids
    <3>1. ASSUME NEW e \in guessed PROVE e \in I
      <4>1. PICK m \in M : m.predecessor # None /\ e = <<m.id, m.predecessor>>
        OBVIOUS
      <4>2. PICK s \in S : m = Said(S, s)
        BY <1>1
      <4>3. pred(s.id) # None /\ e = <<s.id, pred(s.id)>>
        BY <1>2, <4>1, <4>2
      <4>. QED BY <1>6, <4>3
    <3>2. ASSUME NEW e \in I PROVE e \in guessed
      <4>1. PICK s \in S : s.id = e[1]
        BY <1>3 DEF ids, Stitch!Ids
      <4>2. pred(e[1]) # None /\ <<e[1], pred(e[1])>> \in I
        BY <1>6
      <4>3. e = <<e[1], pred(e[1])>>
        <5>1. <<e[1], pred(e[1])>>[1] = e[1]
          OBVIOUS
        <5>. QED BY <1>3, <4>2, <5>1
      <4>4. PICK m \in M : m = Said(S, s)
        BY <1>1
      <4>5. m.predecessor # None /\ e = <<m.id, m.predecessor>>
        BY <1>2, <4>1, <4>2, <4>3, <4>4
      <4>. QED BY <4>5
    <3>. HIDE DEF guessed
    <3>. QED BY <3>1, <3>2
  <2>. QED BY <2>1, <2>2, <2>3
<1>8. Stitch!LineageResolved(M)
  <2>1. ASSUME NEW m \in M
        PROVE  /\ m.parent # m.id
               /\ m.predecessor # None => m.predecessor # m.id /\ m.predecessor \in ids
    <3>1. PICK s \in S : m = Said(S, s)
      BY <1>1
    <3>2. m.id = s.id /\ m.parent = s.parent /\ m.predecessor = pred(s.id)
      BY <1>2, <3>1
    <3>3. s.parent # s.id
      BY DEF SessionsOk, Stitch!Admissible
    <3>4. pred(s.id) # None => pred(s.id) # s.id /\ pred(s.id) \in ids
      <4>1. SUFFICES ASSUME pred(s.id) # None
                     PROVE  pred(s.id) # s.id /\ pred(s.id) \in ids
        OBVIOUS
      <4>2. <<s.id, pred(s.id)>> \in I
        BY <1>6, <4>1
      <4>3. <<s.id, pred(s.id)>>[1] = s.id /\ <<s.id, pred(s.id)>>[2] = pred(s.id)
        OBVIOUS
      <4>. HIDE DEF ids
      <4>. QED BY <1>3, <4>2, <4>3
    <3>. QED BY <3>2, <3>3, <3>4
  <2>. QED BY <1>5, <2>1 DEF Stitch!LineageResolved
<1>. QED BY <1>5, <1>7, <1>8 DEF M, I

\* Two sessions have one episode exactly when they have one root.
LEMMA EpisodeIsRoot ==
    ASSUME NEW ids \in SUBSET SessionId, IsFiniteSet(ids), NEW edges,
           NEW k \in ids, NEW l \in ids, k # l
    PROVE  Stitch!Roots(ids, edges)[k] = Stitch!Roots(ids, edges)[l]
             <=> /\ Stitch!EpisodeMap(ids, edges)[k] # None
                 /\ Stitch!EpisodeMap(ids, edges)[k] = Stitch!EpisodeMap(ids, edges)[l]
<1>. DEFINE root == Stitch!Roots(ids, edges)
            members(j) == {i \in ids : root[i] = root[j]}
            E == Stitch!EpisodeMap(ids, edges)
<1>1. \A j \in ids : E[j] = IF Cardinality(members(j)) < 2 THEN None ELSE members(j)
  BY StitchCardinality DEF Stitch!EpisodeMap
<1>. HIDE DEF E, root
<1>2. \A j \in ids : members(j) # None /\ j \in members(j)
  BY EvidenceAssumption
<1>3. ASSUME root[k] = root[l] PROVE E[k] # None /\ E[k] = E[l]
  <2>1. members(k) = members(l)
    BY <1>3
  <2>2. {k, l} \in SUBSET members(k)
    BY <1>3
  <2>3. IsFiniteSet(members(k))
    BY FS_Subset
  <2>4. Cardinality({k, l}) = 2
    <3>1. {k, l} = {k} \cup {l}
      OBVIOUS
    <3>2. IsFiniteSet({k}) /\ Cardinality({k}) = 1
      BY FS_Singleton
    <3>3. l \notin {k}
      OBVIOUS
    <3>4. Cardinality({k} \cup {l}) = Cardinality({k}) + 1
      BY <3>2, <3>3, FS_AddElement
    <3>. QED BY <3>1, <3>2, <3>4
  <2>. HIDE DEF members
  <2>5. Cardinality(members(k)) \in Nat /\ 2 <= Cardinality(members(k))
    BY <2>2, <2>3, <2>4, FS_Subset, FS_CardinalityType
  <2>6. E[k] = members(k) /\ E[l] = members(l)
    BY <1>1, <2>1, <2>5
  <2>. QED BY <1>2, <2>1, <2>6
<1>4. ASSUME E[k] # None, E[k] = E[l] PROVE root[k] = root[l]
  <2>1. E[k] = members(k) /\ E[l] = members(l)
    <3>. HIDE DEF members
    <3>. QED BY <1>1, <1>4
  <2>2. k \in members(l)
    BY <1>2, <1>4, <2>1
  <2>. QED BY <2>2
<1>. QED BY <1>3, <1>4 DEF E, root

\* And one root exactly when no way of parting the sessions parts them.
LEMMA RootIsTogether ==
    ASSUME NEW artifact, NEW ids, Stitch!Ids(artifact.sessions) = ids,
           NEW edges \in SUBSET (ids \X ids), IsFiniteSet(edges),
           Stitch!ManifestEdges(artifact.sessions) = edges,
           NEW k \in ids, NEW l \in ids
    PROVE  Stitch!Roots(ids, edges)[k] = Stitch!Roots(ids, edges)[l]
             <=> Stitch!Together(artifact, k, l)
<1>. DEFINE root == Stitch!Roots(ids, edges)
<1>0. JoinedOk(ids, edges, root)
  BY RootsJoined
<1>. HIDE DEF root
<1>1. Stitch!Together(artifact, k, l) <=>
        \A part \in SUBSET ids : k \in part /\ l \notin part => ~Uncut(edges, part)
  <2>1. ASSUME NEW part \in SUBSET ids
        PROVE  (\E x \in part, y \in ids \ part : <<x, y>> \in edges \/ <<y, x>> \in edges)
                 <=> ~Uncut(edges, part)
    <3>1. ASSUME NEW x \in part, NEW y \in ids \ part,
                 <<x, y>> \in edges \/ <<y, x>> \in edges
          PROVE  ~Uncut(edges, part)
      BY <3>1 DEF Uncut
    <3>2. ASSUME ~Uncut(edges, part)
          PROVE  \E x \in part, y \in ids \ part : <<x, y>> \in edges \/ <<y, x>> \in edges
      <4>1. PICK e \in edges : ~(e[1] \in part <=> e[2] \in part)
        BY <3>2 DEF Uncut
      <4>2. PICK i \in ids, j \in ids : e = <<i, j>>
        OBVIOUS
      <4>3. CASE i \in part /\ j \notin part
        BY <4>2, <4>3
      <4>4. CASE j \in part /\ i \notin part
        BY <4>2, <4>4
      <4>. QED BY <4>1, <4>2, <4>3, <4>4
    <3>. QED BY <3>1, <3>2
  <2>. QED BY <2>1 DEF Stitch!Together, Stitch!Linked
<1>2. ASSUME root[k] = root[l], NEW part \in SUBSET ids, k \in part, l \notin part,
             Uncut(edges, part)
      PROVE  FALSE
  BY <1>0, <1>2 DEF JoinedOk
<1>3. ASSUME root[k] # root[l]
      PROVE  \E part \in SUBSET ids : k \in part /\ l \notin part /\ Uncut(edges, part)
  <2>. DEFINE part == {i \in ids : root[i] = root[k]}
  <2>1. Uncut(edges, part)
    <3>1. ASSUME NEW e \in edges PROVE e[1] \in part <=> e[2] \in part
      <4>1. root[e[1]] = root[e[2]] /\ e[1] \in ids /\ e[2] \in ids
        BY <1>0 DEF JoinedOk
      <4>. QED BY <4>1
    <3>. HIDE DEF part
    <3>. QED BY <3>1 DEF Uncut
  <2>2. part \in SUBSET ids /\ k \in part /\ l \notin part
    BY <1>3
  <2>. QED BY <2>1, <2>2
<1>. QED BY <1>1, <1>2, <1>3 DEF root

\* As many parents are unknown in the manifest as in the input.
LEMMA UnresolvedIs ==
    ASSUME NEW S, SessionsOk(S), NEW ids
    PROVE  Stitch!Cardinality({s \in S : s.parent # None /\ s.parent \notin ids}) =
             Stitch!Cardinality({m \in Stitch!ManifestSessions(S) :
                                   m.parent # None /\ m.parent \notin ids})
<1>. DEFINE A == {s \in S : s.parent # None /\ s.parent \notin ids}
            M == Stitch!ManifestSessions(S)
            B == {m \in M : m.parent # None /\ m.parent \notin ids}
            g == [s \in A |-> Said(S, s)]
<1>1. M = {Said(S, s) : s \in S}
  BY ManifestIs
<1>2. \A s : Said(S, s).id = s.id /\ Said(S, s).parent = s.parent
  BY SaidIs
<1>3. \A s, t \in S : s.id = t.id => s = t
  BY DEF SessionsOk, Stitch!Admissible
<1>. HIDE DEF M
<1>4. g \in Bijection(A, B)
  <2>1. ASSUME NEW s \in A PROVE g[s] \in B
    BY <1>1, <1>2
  <2>2. ASSUME NEW s \in A, NEW t \in A, g[s] = g[t] PROVE s = t
    BY <1>2, <1>3, <2>2
  <2>3. ASSUME NEW m \in B PROVE \E s \in A : g[s] = m
    <3>1. PICK s \in S : m = Said(S, s)
      BY <1>1
    <3>2. s \in A
      BY <1>2, <3>1
    <3>. QED BY <3>1, <3>2
  <2>4. g \in [A -> B]
    <3>1. \A s \in A : g[s] \in B
      BY <2>1
    <3>2. g = [s \in A |-> g[s]]
      OBVIOUS
    <3>. HIDE DEF g, A, B
    <3>. QED BY <3>1, <3>2
  <2>. HIDE DEF g, A, B
  <2>. QED BY <2>2, <2>3, <2>4 DEF Bijection, Injection, Surjection, IsInjective
<1>5. IsFiniteSet(A)
  <2>1. IsFiniteSet(S)
    BY DEF SessionsOk
  <2>. QED BY <2>1, FS_Subset
<1>. HIDE DEF g, A, B
<1>6. Cardinality(B) = Cardinality(A)
  <2>1. ExistsBijection(A, B)
    BY <1>4 DEF ExistsBijection
  <2>. QED BY <1>5, <2>1, FS_Bijection
<1>. QED BY <1>6, StitchCardinality DEF A, B, M

\* Sessions, whatever fields they have, are stitched into episodes that the
\* validator stitches again from the manifest, that close no cycle, and that
\* are what is linked (_episode_map, _validate_identity_semantics): for any
\* finite input, of any size.
THEOREM AnySessionsStitched ==
    ASSUME NEW S, IsFiniteSet(S),
           \A s \in S : /\ s.id \in SessionId
                        /\ s.start \in Int \cup {None}
                        /\ s.end \in Int \cup {None},
           Stitch!Normalize(S) # None
    PROVE  /\ Stitch!ManifestAccepted(Stitch!Normalize(S))
           /\ Stitch!EpisodesAreComponents(Stitch!Normalize(S))
<1>. DEFINE M == Stitch!ManifestSessions(S)
            artifact == Stitch!Normalize(S)
            ids == Stitch!Ids(S)
            edges == Stitch!RecordedParents(S) \cup Stitch!InferredLinks(S)
<1>1. /\ SessionsOk(S)
      /\ ~Stitch!Cyclic(Stitch!RecordedParents(S))
  BY DEF SessionsOk, Stitch!Normalize
<1>2. artifact = [sessions   |-> M,
                  episodes   |-> Stitch!EpisodeOutputs(M),
                  unresolved |-> Stitch!Unresolved(S)]
  BY <1>1 DEF Stitch!Normalize, SessionsOk
<1>3. /\ artifact.sessions = M
      /\ artifact.episodes = Stitch!EpisodeOutputs(M)
      /\ artifact.unresolved = Stitch!Unresolved(S)
  <2>. HIDE DEF artifact, M
  <2>. QED BY <1>2
<1>4. /\ Stitch!Ids(M) = ids
      /\ Stitch!ManifestEdges(M) = edges
      /\ Stitch!LineageResolved(M)
  BY <1>1, LinksComeBack
<1>5. ~Stitch!Cyclic(edges) /\ edges \subseteq ids \X ids /\ IsFiniteSet(edges)
  <2>. DEFINE acc == [edges |-> edges, inferred |-> Stitch!InferredLinks(S)]
  <2>1. LinksOk(S, Stitch!Temporal(S), acc)
    BY <1>1, InferredOk
  <2>2. acc.edges = edges
    OBVIOUS
  <2>. HIDE DEF acc, edges, ids
  <2>3. acc.edges \subseteq Stitch!Ids(S) \X Stitch!Ids(S) /\ IsFiniteSet(acc.edges)
    BY <1>1, <2>1, LinksFinite
  <2>. QED BY <2>1, <2>2, <2>3 DEF LinksOk, ids
<1>6. ids \in SUBSET SessionId /\ IsFiniteSet(ids)
  <2>1. ids \in SUBSET SessionId
    BY DEF Stitch!Ids
  <2>. DEFINE g == [s \in S |-> s.id]
  <2>2. g \in Surjection(S, ids)
    BY DEF Surjection, Stitch!Ids
  <2>. HIDE DEF g, ids
  <2>. QED BY <2>1, <2>2, FS_Surjection
<1>7. \A m \in M : /\ m.id \in ids
                   /\ m.episode = Stitch!EpisodeMap(ids, edges)[m.id]
  <2>1. M = {Said(S, s) : s \in S}
    BY ManifestIs
  <2>2. \A s \in S : /\ Said(S, s).id \in ids /\ Said(S, s).id = s.id
                     /\ Said(S, s).episode = Stitch!EpisodeMap(ids, edges)[s.id]
    <3>1. \A s \in S : s.id \in ids
      BY DEF Stitch!Ids
    <3>2. \A s : /\ Said(S, s).id = s.id
                 /\ Said(S, s).episode = Stitch!EpisodeMap(ids, edges)[s.id]
      BY SaidIs
    <3>. HIDE DEF ids, edges
    <3>. QED BY <3>1, <3>2
  <2>. HIDE DEF M, ids, edges
  <2>. QED BY <2>1, <2>2
<1>8. \A m, n \in M : m # n => m.id # n.id
  <2>1. M = {Said(S, s) : s \in S}
    BY ManifestIs
  <2>2. \A s, t \in S : s.id = t.id => s = t
    BY <1>1 DEF SessionsOk, Stitch!Admissible
  <2>3. \A s : Said(S, s).id = s.id
    BY SaidIs
  <2>. HIDE DEF M
  <2>. QED BY <2>1, <2>2, <2>3
<1>9. Stitch!Unresolved(S) =
        Stitch!Cardinality({m \in M : m.parent # None /\ m.parent \notin ids})
  BY <1>1, UnresolvedIs DEF Stitch!Unresolved
<1>. HIDE DEF artifact, M, ids, edges
<1>10. Stitch!ManifestAccepted(artifact)
  BY <1>3, <1>4, <1>5, <1>7, <1>9 DEF Stitch!ManifestAccepted
<1>11. Stitch!EpisodesAreComponents(artifact)
  <2>1. ASSUME NEW m \in M, NEW n \in M, m # n
        PROVE  Stitch!Together(artifact, m.id, n.id) <=>
                 m.episode # None /\ m.episode = n.episode
    <3>1. m.id \in ids /\ n.id \in ids /\ m.id # n.id
      BY <1>7, <1>8, <2>1
    <3>2. Stitch!Roots(ids, edges)[m.id] = Stitch!Roots(ids, edges)[n.id]
            <=> Stitch!Together(artifact, m.id, n.id)
      <4>1. edges \in SUBSET (ids \X ids)
        BY <1>5
      <4>. QED BY <1>3, <1>4, <1>5, <3>1, <4>1, RootIsTogether
    <3>3. Stitch!Roots(ids, edges)[m.id] = Stitch!Roots(ids, edges)[n.id]
            <=> /\ Stitch!EpisodeMap(ids, edges)[m.id] # None
                /\ Stitch!EpisodeMap(ids, edges)[m.id] = Stitch!EpisodeMap(ids, edges)[n.id]
      BY <1>6, <3>1, EpisodeIsRoot
    <3>. QED BY <1>7, <3>2, <3>3
  <2>. QED BY <1>3, <2>1 DEF Stitch!EpisodesAreComponents
<1>. QED BY <1>10, <1>11 DEF artifact

\* What has been admitted is sessions, as many as there are ids.
SessionsInv ==
    stream = "sessions" =>
      /\ IsFiniteSet(input)
      /\ \A s \in input : /\ s.id \in SessionId
                          /\ s.start \in Int \cup {None}
                          /\ s.end \in Int \cup {None}

\* Whatever is admitted, SessionsInv holds (AdmitSession).
THEOREM SessionsAdmitted == Spec => []SessionsInv
<1>1. Init => SessionsInv
  BY FS_EmptySet DEF Init, SessionsInv, Empty
<1>2. SessionsInv /\ [Next]_vars => SessionsInv'
  <2>. SUFFICES ASSUME SessionsInv, [Next]_vars, stream' = "sessions"
                PROVE  SessionsInv'
    BY DEF SessionsInv
  <2>1. CASE AdmitSession
    <3>1. PICK id \in SessionId, shape \in SessionShape :
            input' = input \cup {[shape EXCEPT !.id = id]}
      BY <2>1 DEF AdmitSession
    <3>. DEFINE s == [shape EXCEPT !.id = id]
    <3>2. s.id = id /\ s.start = shape.start /\ s.end = shape.end
      BY EvidenceAssumption
    <3>. HIDE DEF s
    <3>3. stream = "sessions"
      BY <2>1 DEF AdmitSession
    <3>4. IsFiniteSet(input')
      BY <3>1, <3>3, FS_AddElement DEF SessionsInv, s
    <3>5. \A x \in input' : /\ x.id \in SessionId
                            /\ x.start \in Int \cup {None}
                            /\ x.end \in Int \cup {None}
      BY <3>1, <3>2, <3>3, EvidenceAssumption DEF SessionsInv, s
    <3>. QED BY <3>4, <3>5 DEF SessionsInv
  <2>2. CASE ~AdmitSession
    <3>1. stream' = stream /\ input' = input
      BY <2>2 DEF Next, vars, ReadClaude, ReadCodex, AppendRow, AddLeaf, Read, ReadDated,
                  Working, Commit, Merge, Switch, Reset, Prune, Enroll, Capture
    <3>. QED BY <3>1 DEF SessionsInv
  <2>. QED BY <2>1, <2>2
<1>. QED BY <1>1, <1>2, PTL DEF Spec

\* Of every input that sessions add up to (_episode_map in normalize_claude, and
\* validate_corpus_artifact).
THEOREM EpisodesAreStitched == Spec => []EpisodesStitched
<1>1. SessionsInv => EpisodesStitched
  BY AnySessionsStitched DEF SessionsInv, EpisodesStitched
<1>. QED BY <1>1, SessionsAdmitted, PTL

-----------------------------------------------------------------------------
(* The corpus of a session: sequences, and what is counted of them. *)

\* s is a sequence, of whatever members it has.
Serial(s) == s \in Seq({s[i] : i \in DOMAIN s})

\* A sequence has the positions 1 .. Len.
LEMMA SerialIs ==
    ASSUME NEW s, Serial(s)
    PROVE  Len(s) \in Nat /\ DOMAIN s = 1 .. Len(s)
BY LenProperties DEF Serial

\* A function on 1 .. n is a sequence of length n.
LEMMA SerialOf ==
    ASSUME NEW n \in Nat, NEW f, DOMAIN f = 1 .. n, f = [i \in 1 .. n |-> f[i]]
    PROVE  Serial(f) /\ Len(f) = n
<1>. DEFINE S == {f[i] : i \in DOMAIN f}
<1>1. f \in [1 .. n -> S]
  BY Zenon
<1>2. f \in Seq(S)
  BY <1>1, SeqDef
<1>3. Len(f) = n
  BY <1>2, LenProperties
<1>. QED BY <1>2, <1>3 DEF Serial

\* One sequence after another.
LEMMA After ==
    ASSUME NEW a, NEW b, Serial(a), Serial(b)
    PROVE  /\ Serial(a \o b)
           /\ Len(a \o b) = Len(a) + Len(b)
           /\ DOMAIN (a \o b) = 1 .. Len(a) + Len(b)
           /\ \A i \in 1 .. Len(a) : (a \o b)[i] = a[i]
           /\ \A i \in 1 .. Len(b) : (a \o b)[Len(a) + i] = b[i]
<1>. DEFINE S == {a[i] : i \in DOMAIN a} \cup {b[i] : i \in DOMAIN b}
            c == a \o b
<1>1. a \in Seq(S) /\ b \in Seq(S)
  BY SeqMonotonic DEF Serial
<1>2. Len(a) \in Nat /\ Len(b) \in Nat
  BY SerialIs
<1>. HIDE DEF S
<1>3. /\ c \in Seq(S)
      /\ Len(c) = Len(a) + Len(b)
      /\ \A i \in 1 .. Len(a) + Len(b) : c[i] = IF i <= Len(a) THEN a[i] ELSE b[i - Len(a)]
  BY <1>1, ConcatProperties
<1>. HIDE DEF c
<1>4. DOMAIN c = 1 .. Len(c) /\ c \in [1 .. Len(c) -> S]
  BY <1>3, LenProperties
<1>5. Serial(c)
  <2>1. c = [i \in 1 .. Len(c) |-> c[i]]
    BY <1>4
  <2>. QED BY <1>2, <1>3, <1>4, <2>1, SerialOf
<1>6. \A i \in 1 .. Len(a) : c[i] = a[i]
  BY <1>2, <1>3
<1>7. \A i \in 1 .. Len(b) : c[Len(a) + i] = b[i]
  <2>. TAKE i \in 1 .. Len(b)
  <2>1. Len(a) + i \in 1 .. Len(a) + Len(b) /\ ~(Len(a) + i <= Len(a))
    BY <1>2
  <2>2. (Len(a) + i) - Len(a) = i
    BY <1>2
  <2>. QED BY <1>3, <2>1, <2>2
<1>. QED BY <1>3, <1>4, <1>5, <1>6, <1>7 DEF c

\* Sequences of one, and of none.
LEMMA Alone ==
    /\ Serial(<<>>) /\ Len(<<>>) = 0
    /\ \A x : Serial(<<x>>) /\ Len(<<x>>) = 1 /\ <<x>>[1] = x
<1>1. Serial(<<>>) /\ Len(<<>>) = 0
  BY EmptySeq DEF Serial
<1>2. ASSUME NEW x PROVE Serial(<<x>>) /\ Len(<<x>>) = 1 /\ <<x>>[1] = x
  <2>1. <<x>> \in Seq({x}) /\ Len(<<x>>) = 1 /\ <<x>>[1] = x /\ DOMAIN <<x>> = {1}
    OBVIOUS
  <2>2. {x} = {<<x>>[i] : i \in DOMAIN <<x>>}
    BY <2>1
  <2>. QED BY <2>1, <2>2 DEF Serial
<1>. QED BY <1>1, <1>2

\* The instances have a Cardinality of their own.
LEMMA CorpusCardinality ==
    \A S : /\ Corp!Cardinality(S) = Cardinality(S)
           /\ Claude!Cardinality(S) = Cardinality(S)
           /\ Codex!Cardinality(S) = Cardinality(S)
BY DEF Corp!Cardinality, Claude!Cardinality, Codex!Cardinality, Cardinality,
       Corp!IsFiniteSet, Claude!IsFiniteSet, Codex!IsFiniteSet, IsFiniteSet

\* C are the positions in a and b together that A and B are in each.
Selects(a, b, A, B, C) ==
    /\ A \subseteq DOMAIN a
    /\ B \subseteq DOMAIN b
    /\ C \subseteq DOMAIN (a \o b)
    /\ \A i \in DOMAIN a : i \in C <=> i \in A
    /\ \A i \in DOMAIN b : Len(a) + i \in C <=> i \in B

\* What is counted of two sequences is counted of their concatenation.
LEMMA Selected ==
    ASSUME NEW a, NEW b, Serial(a), Serial(b), NEW A, NEW B, NEW C,
           Selects(a, b, A, B, C)
    PROVE  /\ Cardinality(A) \in Nat /\ Cardinality(B) \in Nat
           /\ Cardinality(C) = Cardinality(A) + Cardinality(B)
<1>1. /\ Len(a) \in Nat /\ DOMAIN a = 1 .. Len(a)
      /\ Len(b) \in Nat /\ DOMAIN b = 1 .. Len(b)
      /\ DOMAIN (a \o b) = 1 .. Len(a) + Len(b)
  BY SerialIs, After
<1>. DEFINE m == Len(a)
            T == {m + i : i \in B}
            f == [i \in B |-> m + i]
<1>2. ASSUME NEW i \in C PROVE i \in A \cup T
  <2>1. i \in 1 .. Len(a) + Len(b)
    BY <1>1 DEF Selects
  <2>2. CASE i <= Len(a)
    BY <1>1, <2>1, <2>2 DEF Selects
  <2>3. CASE i > Len(a)
    <3>1. PICK j \in Int : j = i - Len(a)
      BY <1>1, <2>1
    <3>2. j \in DOMAIN b /\ i = Len(a) + j
      BY <1>1, <2>1, <2>3, <3>1
    <3>. QED BY <3>2 DEF Selects
  <2>. QED BY <1>1, <2>1, <2>2, <2>3
<1>3. ASSUME NEW i \in A \cup T PROVE i \in C
  BY DEF Selects
<1>4. C = A \cup T
  BY <1>2, <1>3
<1>5. A \subseteq 1 .. Len(a) /\ B \subseteq 1 .. Len(b)
  BY <1>1 DEF Selects
<1>6. IsFiniteSet(A) /\ IsFiniteSet(B)
  <2>1. IsFiniteSet(1 .. Len(a)) /\ IsFiniteSet(1 .. Len(b))
    BY <1>1, FS_Interval
  <2>. QED BY <1>5, <2>1, FS_Subset
<1>7. f \in Surjection(B, T) /\ f \in Injection(B, T)
  <2>1. m \in Nat /\ B \subseteq Nat
    BY <1>1, <1>5
  <2>. HIDE DEF m
  <2>. QED BY <2>1 DEF Surjection, Injection, IsInjective
<1>. HIDE DEF f
<1>8. IsFiniteSet(T) /\ Cardinality(T) = Cardinality(B)
  <2>. HIDE DEF T
  <2>. QED BY <1>6, <1>7, FS_Surjection
<1>9. A \cap T = {}
  BY <1>1, <1>5
<1>. HIDE DEF T
<1>10. Cardinality(A) \in Nat /\ Cardinality(B) \in Nat
  BY <1>6, FS_CardinalityType
<1>11. Cardinality(A \cup T) = Cardinality(A) + Cardinality(T) - Cardinality({})
  BY <1>6, <1>8, <1>9, FS_Union
<1>12. Cardinality({}) = 0
  BY FS_EmptySet
<1>13. Cardinality(C) = Cardinality(A \cup T)
  BY <1>4
<1>. QED BY <1>8, <1>10, <1>11, <1>12, <1>13

\* What is counted of a sequence and the one after it.
LEMMA Tallied ==
    ASSUME NEW a, NEW b, Serial(a), Serial(b)
    PROVE  /\ Corp!References(a) \in Nat /\ Corp!References(b) \in Nat
           /\ Corp!PrimaryEvents(a) \in Nat /\ Corp!PrimaryEvents(b) \in Nat
           /\ Corp!UnknownContent(a) \in Nat /\ Corp!UnknownContent(b) \in Nat
           /\ Corp!References(a \o b) = Corp!References(a) + Corp!References(b)
           /\ Corp!PrimaryEvents(a \o b)
                = Corp!PrimaryEvents(a) + Corp!PrimaryEvents(b)
           /\ Corp!UnknownContent(a \o b)
                = Corp!UnknownContent(a) + Corp!UnknownContent(b)
<1>. DEFINE c == a \o b
            Pointed(s) == {i \in DOMAIN s : s[i].pointer # None}
            Primary(s) == {i \in DOMAIN s : s[i].kind \in {"turn", "pasted-span",
                                                   "tool-call", "tool-result"}}
            Unknown(s) == {i \in DOMAIN s :
                             \/ s[i].kind \in {"pasted-span", "tool-result"}
                             \/ s[i].kind = "turn" /\ s[i].pointer = None}
<1>1. /\ Len(a) \in Nat /\ DOMAIN a = 1 .. Len(a)
      /\ Len(b) \in Nat /\ DOMAIN b = 1 .. Len(b)
      /\ DOMAIN c = 1 .. Len(a) + Len(b)
      /\ \A i \in 1 .. Len(a) : c[i] = a[i]
      /\ \A i \in 1 .. Len(b) : c[Len(a) + i] = b[i]
  BY SerialIs, After
<1>2. /\ \A i \in DOMAIN a : i \in DOMAIN c /\ c[i] = a[i]
      /\ \A i \in DOMAIN b : Len(a) + i \in DOMAIN c /\ c[Len(a) + i] = b[i]
  <2>. HIDE DEF c
  <2>1. ASSUME NEW i \in DOMAIN a PROVE i \in DOMAIN c /\ c[i] = a[i]
    BY <1>1
  <2>2. ASSUME NEW i \in DOMAIN b
        PROVE  Len(a) + i \in DOMAIN c /\ c[Len(a) + i] = b[i]
    BY <1>1
  <2>. QED BY <2>1, <2>2
<1>3. \A s : /\ Corp!References(s) = Cardinality(Pointed(s))
             /\ Corp!PrimaryEvents(s) = Cardinality(Primary(s))
             /\ Corp!UnknownContent(s) = Cardinality(Unknown(s))
  BY CorpusCardinality DEF Corp!References, Corp!PrimaryEvents, Corp!UnknownContent
<1>. HIDE DEF c
<1>4. Selects(a, b, Pointed(a), Pointed(b), Pointed(c))
  <2>1. /\ Pointed(a) \subseteq DOMAIN a
        /\ Pointed(b) \subseteq DOMAIN b
        /\ Pointed(c) \subseteq DOMAIN c
        /\ \A i \in DOMAIN a : i \in Pointed(c) <=> i \in Pointed(a)
        /\ \A i \in DOMAIN b : Len(a) + i \in Pointed(c) <=> i \in Pointed(b)
    BY <1>2
  <2>. HIDE DEF Pointed
  <2>. QED BY <2>1 DEF Selects, c
<1>5. Selects(a, b, Primary(a), Primary(b), Primary(c))
  <2>1. /\ Primary(a) \subseteq DOMAIN a
        /\ Primary(b) \subseteq DOMAIN b
        /\ Primary(c) \subseteq DOMAIN c
        /\ \A i \in DOMAIN a : i \in Primary(c) <=> i \in Primary(a)
        /\ \A i \in DOMAIN b : Len(a) + i \in Primary(c) <=> i \in Primary(b)
    BY <1>2
  <2>. HIDE DEF Primary
  <2>. QED BY <2>1 DEF Selects, c
<1>6. Selects(a, b, Unknown(a), Unknown(b), Unknown(c))
  <2>1. /\ Unknown(a) \subseteq DOMAIN a
        /\ Unknown(b) \subseteq DOMAIN b
        /\ Unknown(c) \subseteq DOMAIN c
        /\ \A i \in DOMAIN a : i \in Unknown(c) <=> i \in Unknown(a)
        /\ \A i \in DOMAIN b : Len(a) + i \in Unknown(c) <=> i \in Unknown(b)
    BY <1>2
  <2>. HIDE DEF Unknown
  <2>. QED BY <2>1 DEF Selects, c
<1>. HIDE DEF Pointed, Primary, Unknown
<1>7. /\ Cardinality(Pointed(a)) \in Nat /\ Cardinality(Pointed(b)) \in Nat
      /\ Cardinality(Pointed(c)) = Cardinality(Pointed(a)) + Cardinality(Pointed(b))
  BY <1>4, Selected
<1>8. /\ Cardinality(Primary(a)) \in Nat /\ Cardinality(Primary(b)) \in Nat
      /\ Cardinality(Primary(c)) = Cardinality(Primary(a)) + Cardinality(Primary(b))
  BY <1>5, Selected
<1>9. /\ Cardinality(Unknown(a)) \in Nat /\ Cardinality(Unknown(b)) \in Nat
      /\ Cardinality(Unknown(c)) = Cardinality(Unknown(a)) + Cardinality(Unknown(b))
  BY <1>6, Selected
<1>. QED BY <1>3, <1>7, <1>8, <1>9 DEF c

\* Both adapters have what the corpus module defines.
LEMMA ClaudeShares ==
    /\ Claude!NothingCovered = Corp!NothingCovered
    /\ \A c, keys : Claude!Count(c, keys) = Corp!Count(c, keys)
    /\ \A c, key, n : Claude!CountMany(c, key, n) = Corp!CountMany(c, key, n)
    /\ \A kind : Claude!Partial(kind) = Corp!Partial(kind)
    /\ \A kind, p : Claude!Pointing(kind, p) = Corp!Pointing(kind, p)
    /\ \A id, counts, positions :
          Claude!ToolRelation(id, counts, positions)
            = Corp!ToolRelation(id, counts, positions)
    /\ \A call, p, at : Claude!CallPartials(call, p, at) = Corp!CallPartials(call, p, at)
    /\ \A ps : Claude!References(ps) = Corp!References(ps)
    /\ \A r, parent, ps : Claude!EventsOf(r, parent, ps) = Corp!EventsOf(r, parent, ps)
<1>1. /\ Claude!NothingCovered = Corp!NothingCovered
      /\ \A c, keys : Claude!Count(c, keys) = Corp!Count(c, keys)
      /\ \A c, key, n : Claude!CountMany(c, key, n) = Corp!CountMany(c, key, n)
  BY DEF Claude!NothingCovered, Corp!NothingCovered, Claude!CoverageKeys,
         Corp!CoverageKeys, Claude!Count, Corp!Count, Claude!CountMany, Corp!CountMany
<1>2. /\ \A kind : Claude!Partial(kind) = Corp!Partial(kind)
      /\ \A kind, p : Claude!Pointing(kind, p) = Corp!Pointing(kind, p)
  BY DEF Claude!Partial, Corp!Partial, Claude!Pointing, Corp!Pointing
<1>3. \A id, counts, positions :
          Claude!ToolRelation(id, counts, positions)
            = Corp!ToolRelation(id, counts, positions)
  BY DEF Claude!ToolRelation, Corp!ToolRelation, Claude!Linked, Corp!Linked
<1>4. \A call, p, at : Claude!CallPartials(call, p, at) = Corp!CallPartials(call, p, at)
  BY <1>2, Zenon DEF Claude!CallPartials, Corp!CallPartials, Claude!Linked, Corp!Linked
<1>5. \A ps : Claude!References(ps) = Corp!References(ps)
  BY CorpusCardinality DEF Claude!References, Corp!References
<1>6. \A r, parent, ps : Claude!EventsOf(r, parent, ps) = Corp!EventsOf(r, parent, ps)
  BY DEF Claude!EventsOf, Corp!EventsOf
<1>. QED BY <1>1, <1>2, <1>3, <1>4, <1>5, <1>6

\* The Codex adapter's copies of the shared operators are the shared operators.
LEMMA CodexShares ==
    /\ Codex!NothingCovered = Corp!NothingCovered
    /\ \A c, keys : Codex!Count(c, keys) = Corp!Count(c, keys)
    /\ \A c, key, n : Codex!CountMany(c, key, n) = Corp!CountMany(c, key, n)
    /\ \A kind : Codex!Partial(kind) = Corp!Partial(kind)
    /\ \A kind, p : Codex!Pointing(kind, p) = Corp!Pointing(kind, p)
    /\ \A id, counts, positions :
          Codex!ToolRelation(id, counts, positions)
            = Corp!ToolRelation(id, counts, positions)
    /\ \A call, p, at : Codex!CallPartials(call, p, at) = Corp!CallPartials(call, p, at)
    /\ \A ps : Codex!References(ps) = Corp!References(ps)
    /\ \A r, parent, ps : Codex!EventsOf(r, parent, ps) = Corp!EventsOf(r, parent, ps)
<1>1. /\ Codex!NothingCovered = Corp!NothingCovered
      /\ \A c, keys : Codex!Count(c, keys) = Corp!Count(c, keys)
      /\ \A c, key, n : Codex!CountMany(c, key, n) = Corp!CountMany(c, key, n)
  BY DEF Codex!NothingCovered, Corp!NothingCovered, Codex!CoverageKeys,
         Corp!CoverageKeys, Codex!Count, Corp!Count, Codex!CountMany, Corp!CountMany
<1>2. /\ \A kind : Codex!Partial(kind) = Corp!Partial(kind)
      /\ \A kind, p : Codex!Pointing(kind, p) = Corp!Pointing(kind, p)
  BY DEF Codex!Partial, Corp!Partial, Codex!Pointing, Corp!Pointing
<1>3. \A id, counts, positions :
          Codex!ToolRelation(id, counts, positions)
            = Corp!ToolRelation(id, counts, positions)
  BY DEF Codex!ToolRelation, Corp!ToolRelation, Codex!Linked, Corp!Linked
<1>4. \A call, p, at : Codex!CallPartials(call, p, at) = Corp!CallPartials(call, p, at)
  BY <1>2, Zenon DEF Codex!CallPartials, Corp!CallPartials, Codex!Linked, Corp!Linked
<1>5. \A ps : Codex!References(ps) = Corp!References(ps)
  BY CorpusCardinality DEF Codex!References, Corp!References
<1>6. \A r, parent, ps : Codex!EventsOf(r, parent, ps) = Corp!EventsOf(r, parent, ps)
  BY DEF Codex!EventsOf, Corp!EventsOf
<1>. QED BY <1>1, <1>2, <1>3, <1>4, <1>5, <1>6

\* The forge actions of the artifact have the outcomes that their results
\* give them; whichever adapter joins them.
LEMMA JoinIsShared ==
    \A events : /\ Claude!JoinForgeOutcomes(events) = Corp!JoinForgeOutcomes(events)
                /\ Codex!JoinForgeOutcomes(events) = Corp!JoinForgeOutcomes(events)
<1>1. \A events, at : /\ Claude!ResultsFor(events, at) = Corp!ResultsFor(events, at)
                      /\ Codex!ResultsFor(events, at) = Corp!ResultsFor(events, at)
  BY DEF Claude!ResultsFor, Codex!ResultsFor, Corp!ResultsFor, Claude!Linked,
         Codex!Linked, Corp!Linked
<1>2. \A events, at : /\ Claude!OutcomeFor(events, at) = Corp!OutcomeFor(events, at)
                      /\ Codex!OutcomeFor(events, at) = Corp!OutcomeFor(events, at)
  <2>. TAKE events, at
  <2>1. /\ Claude!ResultsFor(events, at) = Corp!ResultsFor(events, at)
        /\ Codex!ResultsFor(events, at) = Corp!ResultsFor(events, at)
    BY <1>1
  <2>. QED BY <2>1, CorpusCardinality DEF Claude!OutcomeFor, Codex!OutcomeFor, Corp!OutcomeFor
<1>. QED BY <1>2 DEF Claude!JoinForgeOutcomes, Codex!JoinForgeOutcomes, Corp!JoinForgeOutcomes

-----------------------------------------------------------------------------
(* What holds of the partial events of a record, and of the coverage.      *)
(* V has the pointers that lead somewhere, with the kinds of their events. *)

\* The coverage for n references, p events that stand for a block and u with
\* content that is unknown.
Balanced(cov, n, p, u) ==
    /\ cov \in [Corp!CoverageKeys -> Int]
    /\ cov["content_references"] = n
    /\ p <= cov["blocks_seen"]
    /\ cov["blocks_unsupported"] <= cov["blocks_seen"]
    /\ u <= cov["content_unknown"]
    /\ cov["content_unknown"] <= cov["blocks_seen"]
    /\ cov["user_turns_ambiguous"] <= cov["content_unknown"]

RecordsOf(events) == {events[i].at[1] : i \in DOMAIN events}

\* k records have been read, and those with events were parsed.
Parses(cov, k, events) ==
    /\ cov["records_parsed"] + cov["records_malformed"]
         + cov["records_unsupported"] = k
    /\ cov["records_parsed"] >= Cardinality(RecordsOf(events))

PartialOk(p, r, V) ==
    /\ p.pointer # None =>
         /\ <<p.kind, p.pointer>> \in V
         /\ p.pointer[1] = r
         /\ p.kind \in {"turn", "tool-call", "reference", "test", "forge-action"}
    /\ p.kind \in {"reference", "forge-action"} => p.pointer # None
    /\ p.relation # None <=> p.kind \in {"tool-result", "forge-action"}
    /\ p.generation # None => p.kind = "context-boundary"

\* A call stands at `at`, among the events or the first m partials of record r.
Called(events, r, ps, m, at) ==
    \/ \E i \in DOMAIN events : /\ events[i].at = at
                                /\ events[i].kind = "tool-call"
    \/ \E n \in 1 .. m : /\ at = <<r, n>>
                         /\ ps[n].kind = "tool-call"

PartialsGood(events, r, ps, V) ==
    /\ Serial(ps)
    /\ \A n \in DOMAIN ps : PartialOk(ps[n], r, V)
    /\ \A n \in DOMAIN ps :
          ps[n].kind = "tool-result" /\ ps[n].relation[1] = "linked" =>
            Called(events, r, ps, n - 1, ps[n].relation[2])
    /\ \A n \in DOMAIN ps :
          ps[n].kind = "forge-action" =>
            /\ n > 1
            /\ ps[n].relation = <<"linked", <<r, n - 1>>>>
            /\ ps[n - 1].kind = "tool-call"
            /\ ps[n - 1].pointer = ps[n].pointer

Undated(ps) == \A n \in DOMAIN ps : ps[n].generation = None

\* The partials qs can come after ps.
Follows(events, r, ps, qs, V) ==
    /\ Serial(qs)
    /\ Undated(qs)
    /\ \A n \in DOMAIN qs : PartialOk(qs[n], r, V)
    /\ \A n \in DOMAIN qs :
          qs[n].kind = "tool-result" /\ qs[n].relation[1] = "linked" =>
            Called(events, r, ps, Len(ps), qs[n].relation[2])
    /\ \A n \in DOMAIN qs :
          qs[n].kind = "forge-action" =>
            /\ n > 1
            /\ qs[n].relation = <<"linked", <<r, Len(ps) + (n - 1)>>>>
            /\ qs[n - 1].kind = "tool-call"
            /\ qs[n - 1].pointer = qs[n].pointer

\* Good partials that are followed by good ones are good together.
LEMMA PartialsAdded ==
    ASSUME NEW events, NEW r, NEW ps, NEW qs, NEW V,
           PartialsGood(events, r, ps, V), Undated(ps),
           Follows(events, r, ps, qs, V)
    PROVE  PartialsGood(events, r, ps \o qs, V) /\ Undated(ps \o qs)
<1>. DEFINE c == ps \o qs
            m == Len(ps)
<1>1. /\ Serial(ps) /\ Serial(qs)
      /\ m \in Nat /\ DOMAIN ps = 1 .. m
      /\ Len(qs) \in Nat /\ DOMAIN qs = 1 .. Len(qs)
  BY SerialIs DEF PartialsGood, Follows
<1>2. /\ Serial(c) /\ DOMAIN c = 1 .. m + Len(qs)
      /\ \A i \in 1 .. m : c[i] = ps[i]
      /\ \A i \in 1 .. Len(qs) : c[m + i] = qs[i]
  BY <1>1, After
<1>. HIDE DEF c, m
<1>3. ASSUME NEW n \in DOMAIN c
      PROVE  \/ n \in 1 .. m /\ c[n] = ps[n] /\ n \in DOMAIN ps
             \/ \E j \in 1 .. Len(qs) : n = m + j /\ c[n] = qs[j] /\ j \in DOMAIN qs
  <2>1. n \in 1 .. m + Len(qs)
    BY <1>2
  <2>2. CASE n <= m
    BY <1>1, <1>2, <2>1, <2>2
  <2>3. CASE n > m
    <3>1. PICK j \in Int : j = n - m
      BY <1>1, <2>1
    <3>2. j \in 1 .. Len(qs) /\ n = m + j
      BY <1>1, <2>1, <2>3, <3>1
    <3>. QED BY <1>1, <1>2, <3>2
  <2>. QED BY <1>1, <2>1, <2>2, <2>3
<1>4. \A n \in DOMAIN c : PartialOk(c[n], r, V) /\ c[n].generation = None
  BY <1>3 DEF PartialsGood, Follows, Undated
<1>5. ASSUME NEW n \in DOMAIN c, c[n].kind = "tool-result", c[n].relation[1] = "linked"
      PROVE  Called(events, r, c, n - 1, c[n].relation[2])
  <2>1. ASSUME NEW k \in 0 .. m, NEW l \in Int, k <= l, NEW at,
               Called(events, r, ps, k, at)
        PROVE  Called(events, r, c, l, at)
    <3>1. \A i \in 1 .. k : i \in 1 .. l /\ c[i] = ps[i]
      BY <1>1, <1>2, <2>1
    <3>. QED BY <2>1, <3>1 DEF Called
  <2>2. CASE n \in 1 .. m /\ c[n] = ps[n] /\ n \in DOMAIN ps
    <3>1. Called(events, r, ps, n - 1, c[n].relation[2])
      BY <1>5, <2>2 DEF PartialsGood
    <3>2. n - 1 \in 0 .. m /\ n - 1 \in Int
      BY <1>1, <2>2
    <3>. QED BY <2>1, <3>1, <3>2
  <2>3. ASSUME NEW j \in 1 .. Len(qs), n = m + j, c[n] = qs[j], j \in DOMAIN qs
        PROVE  Called(events, r, c, n - 1, c[n].relation[2])
    <3>1. Called(events, r, ps, m, c[n].relation[2])
      BY <1>5, <2>3 DEF Follows, m
    <3>2. m \in 0 .. m /\ n - 1 \in Int /\ m <= n - 1
      BY <1>1, <2>3
    <3>. QED BY <2>1, <3>1, <3>2
  <2>. QED BY <1>3, <2>2, <2>3
<1>6. ASSUME NEW n \in DOMAIN c, c[n].kind = "forge-action"
      PROVE  /\ n > 1
             /\ c[n].relation = <<"linked", <<r, n - 1>>>>
             /\ c[n - 1].kind = "tool-call"
             /\ c[n - 1].pointer = c[n].pointer
  <2>2. CASE n \in 1 .. m /\ c[n] = ps[n] /\ n \in DOMAIN ps
    <3>1. /\ n > 1
          /\ c[n].relation = <<"linked", <<r, n - 1>>>>
          /\ ps[n - 1].kind = "tool-call"
          /\ ps[n - 1].pointer = c[n].pointer
      BY <1>6, <2>2 DEF PartialsGood
    <3>2. c[n - 1] = ps[n - 1]
      BY <1>1, <1>2, <2>2, <3>1
    <3>. QED BY <3>1, <3>2
  <2>3. ASSUME NEW j \in 1 .. Len(qs), n = m + j, c[n] = qs[j], j \in DOMAIN qs
        PROVE  /\ n > 1
               /\ c[n].relation = <<"linked", <<r, n - 1>>>>
               /\ c[n - 1].kind = "tool-call"
               /\ c[n - 1].pointer = c[n].pointer
    <3>1. /\ j > 1
          /\ c[n].relation = <<"linked", <<r, m + (j - 1)>>>>
          /\ qs[j - 1].kind = "tool-call"
          /\ qs[j - 1].pointer = c[n].pointer
      BY <1>6, <2>3 DEF Follows, m
    <3>2. n - 1 = m + (j - 1) /\ n > 1 /\ j - 1 \in 1 .. Len(qs)
      BY <1>1, <2>3, <3>1
    <3>3. c[n - 1] = qs[j - 1]
      BY <1>2, <3>2
    <3>. QED BY <3>1, <3>2, <3>3
  <2>. QED BY <1>3, <2>2, <2>3
<1>7. PartialsGood(events, r, c, V)
  BY <1>2, <1>4, <1>5, <1>6 DEF PartialsGood
<1>8. Undated(c)
  BY <1>4 DEF Undated
<1>. QED BY <1>7, <1>8 DEF c

-----------------------------------------------------------------------------
(* A record's events come after those of the records before it.            *)

EventOk(e, k, V) ==
    /\ e = [at |-> e.at, parent |-> e.parent, kind |-> e.kind,
            pointer |-> e.pointer, relation |-> e.relation,
            status |-> e.status, generation |-> e.generation]
    /\ e.at = <<e.at[1], e.at[2]>> /\ e.at[1] \in 1 .. k /\ e.at[2] \in Nat \ {0}
    /\ PartialOk(e, e.at[1], V)
    /\ e.parent # None => e.parent \in Nat /\ e.parent < e.at[1]

Placed(events) ==
    /\ \A i, j \in DOMAIN events :
          i < j => Corp!Precedes(events[i].at, events[j].at)
    /\ \A i, j \in DOMAIN events :
          events[i].at[1] = events[j].at[1] => events[i].parent = events[j].parent
    /\ \A i \in DOMAIN events :
          events[i].at[2] =
            Cardinality({j \in 1 .. i : events[j].at[1] = events[i].at[1]})

\* A linked result has its call before it, a forge action just before it.
Bound(events) ==
    /\ \A i \in DOMAIN events :
          events[i].kind = "tool-result" /\ events[i].relation[1] = "linked" =>
            \E j \in DOMAIN events : /\ j < i
                                     /\ events[j].at = events[i].relation[2]
                                     /\ events[j].kind = "tool-call"
    /\ \A i \in DOMAIN events :
          events[i].kind = "forge-action" =>
            /\ i - 1 \in DOMAIN events
            /\ events[i].relation = <<"linked", events[i - 1].at>>
            /\ events[i - 1].kind = "tool-call"
            /\ events[i - 1].pointer = events[i].pointer

\* Generations increase, up to gen.
Dated(events, gen) ==
    /\ gen \in Int
    /\ \A i \in DOMAIN events :
          events[i].generation # None =>
            events[i].generation \in Int /\ events[i].generation <= gen
    /\ \A i, j \in DOMAIN events :
          i < j /\ events[i].generation # None /\ events[j].generation # None =>
            events[i].generation < events[j].generation

PartialsDated(ps, low, high) ==
    /\ low \in Int /\ high \in Int /\ low <= high
    /\ \A n \in DOMAIN ps :
          ps[n].generation # None =>
            /\ Len(ps) = 1
            /\ ps[n].generation \in Int
            /\ low < ps[n].generation /\ ps[n].generation <= high

\* Every position that is known is that of a call.
Located(events, r, ps, positions) ==
    \A id \in DOMAIN positions :
        positions[id] # None => Called(events, r, ps, Len(ps), positions[id])

Shaped(events, k, V) ==
    /\ k \in Nat
    /\ Serial(events)
    /\ \A i \in DOMAIN events : EventOk(events[i], k, V)

\* What EventsOf makes of partials, field by field.
LEMMA EventsOfIs ==
    ASSUME NEW r, NEW parent, NEW ps, Serial(ps)
    PROVE  LET b == Corp!EventsOf(r, parent, ps)
           IN  /\ Serial(b) /\ Len(b) = Len(ps) /\ DOMAIN b = 1 .. Len(ps)
               /\ \A n \in 1 .. Len(ps) :
                    b[n] = [at |-> <<r, n>>, parent |-> parent,
                            kind |-> ps[n].kind, pointer |-> ps[n].pointer,
                            relation |-> ps[n].relation,
                            status |-> ps[n].status,
                            generation |-> ps[n].generation]
<1>. DEFINE b == Corp!EventsOf(r, parent, ps)
<1>1. Len(ps) \in Nat
  BY SerialIs
<1>2. /\ b = [n \in 1 .. Len(ps) |-> b[n]]
      /\ DOMAIN b = 1 .. Len(ps)
      /\ \A n \in 1 .. Len(ps) :
                    b[n] = [at |-> <<r, n>>, parent |-> parent,
                            kind |-> ps[n].kind, pointer |-> ps[n].pointer,
                            relation |-> ps[n].relation,
                            status |-> ps[n].status,
                            generation |-> ps[n].generation]
  BY DEF Corp!EventsOf
<1>. HIDE DEF b
<1>3. Serial(b) /\ Len(b) = Len(ps)
  BY <1>1, <1>2, SerialOf
<1>. QED BY <1>2, <1>3 DEF b

\* What is at each position once a record's events have been added.
Appended(events, r, parent, ps, c) ==
    /\ Serial(c) /\ Len(c) = Len(events) + Len(ps)
    /\ DOMAIN c = 1 .. Len(events) + Len(ps)
    /\ \A i \in 1 .. Len(events) : c[i] = events[i]
    /\ \A n \in 1 .. Len(ps) :
          c[Len(events) + n] = [at |-> <<r, n>>, parent |-> parent,
                                kind |-> ps[n].kind, pointer |-> ps[n].pointer,
                                relation |-> ps[n].relation,
                                status |-> ps[n].status,
                                generation |-> ps[n].generation]
    /\ \A i \in DOMAIN c : \/ i \in 1 .. Len(events)
                           \/ \E n \in 1 .. Len(ps) : i = Len(events) + n

\* The corpus with a record's events at its end is Appended, as the proofs use it.
LEMMA AppendedIs ==
    ASSUME NEW events, NEW r, NEW parent, NEW ps, Serial(events), Serial(ps)
    PROVE  Appended(events, r, parent, ps, events \o Corp!EventsOf(r, parent, ps))
<1>. DEFINE b == Corp!EventsOf(r, parent, ps)
            c == events \o b
            m == Len(events)
<1>1. /\ m \in Nat /\ DOMAIN events = 1 .. m
      /\ Len(ps) \in Nat /\ DOMAIN ps = 1 .. Len(ps)
  BY SerialIs
<1>2. /\ Serial(b) /\ Len(b) = Len(ps) /\ DOMAIN b = 1 .. Len(ps)
      /\ \A n \in 1 .. Len(ps) :
                    b[n] = [at |-> <<r, n>>, parent |-> parent,
                            kind |-> ps[n].kind, pointer |-> ps[n].pointer,
                            relation |-> ps[n].relation,
                            status |-> ps[n].status,
                            generation |-> ps[n].generation]
  BY EventsOfIs
<1>. HIDE DEF b
<1>3. /\ Serial(c) /\ Len(c) = m + Len(b) /\ DOMAIN c = 1 .. m + Len(b)
      /\ \A i \in 1 .. m : c[i] = events[i]
      /\ \A i \in 1 .. Len(b) : c[m + i] = b[i]
  BY <1>2, After
<1>. HIDE DEF c
<1>4. ASSUME NEW i \in DOMAIN c
      PROVE  i \in 1 .. m \/ \E n \in 1 .. Len(ps) : i = m + n
  <2>1. i \in 1 .. m + Len(ps)
    BY <1>2, <1>3
  <2>. HIDE DEF m
  <2>2. CASE i <= m
    BY <1>1, <2>1, <2>2
  <2>3. CASE i > m
    <3>1. PICK n \in Int : n = i - m
      BY <1>1, <2>1
    <3>2. n \in 1 .. Len(ps) /\ i = m + n
      BY <1>1, <2>1, <2>3, <3>1
    <3>. QED BY <3>2
  <2>. QED BY <1>1, <2>1, <2>2, <2>3
<1>. QED BY <1>2, <1>3, <1>4 DEF Appended, b, c

\* A record's events have the shape the validator asks for (_validate_event).
LEMMA RecordShaped ==
    ASSUME NEW events, NEW r \in Nat, NEW parent, NEW ps, NEW c, NEW k \in Nat, NEW V,
           Shaped(events, k, V), r = k + 1, PartialsGood(events, r, ps, V),
           parent # None => parent \in Nat /\ parent < r,
           Appended(events, r, parent, ps, c)
    PROVE  Shaped(c, r, V)
<1>1. /\ Len(events) \in Nat /\ DOMAIN events = 1 .. Len(events)
      /\ Len(ps) \in Nat /\ DOMAIN ps = 1 .. Len(ps)
  BY SerialIs DEF Shaped, PartialsGood
<1>2. ASSUME NEW i \in 1 .. Len(events) PROVE EventOk(c[i], r, V)
  <2>1. c[i] = events[i] /\ EventOk(events[i], k, V)
    BY <1>1 DEF Appended, Shaped
  <2>2. \A x \in 1 .. k : x \in 1 .. r
    OBVIOUS
  <2>. QED BY <2>1, <2>2 DEF EventOk
<1>3. ASSUME NEW n \in 1 .. Len(ps) PROVE EventOk(c[Len(events) + n], r, V)
  <2>. DEFINE e == c[Len(events) + n]
  <2>1. e = [at |-> <<r, n>>, parent |-> parent,
                                kind |-> ps[n].kind, pointer |-> ps[n].pointer,
                                relation |-> ps[n].relation,
                                status |-> ps[n].status,
                                generation |-> ps[n].generation]
    BY DEF Appended
  <2>. HIDE DEF e
  <2>2. PartialOk(ps[n], r, V)
    BY <1>1 DEF PartialsGood
  <2>3. e.at[1] = r /\ e.at[2] = n /\ e.at = <<r, n>> /\ e.parent = parent
    BY <2>1
  <2>4. /\ e.kind = ps[n].kind /\ e.pointer = ps[n].pointer
        /\ e.relation = ps[n].relation /\ e.generation = ps[n].generation
        /\ e.status = ps[n].status
    BY <2>1
  <2>5. PartialOk(e, r, V)
    BY <2>2, <2>4 DEF PartialOk
  <2>6. r \in 1 .. r /\ n \in Nat \ {0}
    BY <1>1
  <2>7. e = [at |-> e.at, parent |-> e.parent, kind |-> e.kind,
            pointer |-> e.pointer, relation |-> e.relation,
            status |-> e.status, generation |-> e.generation]
    BY <2>1, <2>3, <2>4
  <2>. QED BY <2>3, <2>5, <2>6, <2>7 DEF EventOk, e
<1>. QED BY <1>2, <1>3 DEF Shaped, Appended

\* A record's subevents are contiguous and in order, and agree on their parent.
LEMMA RecordPlaced ==
    ASSUME NEW events, NEW r \in Nat, NEW parent, NEW ps, NEW c, NEW k \in Nat, NEW V,
           Shaped(events, k, V), r = k + 1, Serial(ps), Placed(events),
           Appended(events, r, parent, ps, c)
    PROVE  Placed(c)
<1>. DEFINE m == Len(events)
<1>1. /\ m \in Nat /\ DOMAIN events = 1 .. m
      /\ Len(ps) \in Nat /\ DOMAIN ps = 1 .. Len(ps)
      /\ DOMAIN c = 1 .. m + Len(ps)
  BY SerialIs DEF Shaped, Appended
<1>2. \A i \in 1 .. m : /\ c[i] = events[i] /\ c[i].at[1] \in 1 .. k
                        /\ c[i].at[1] # r /\ i \in DOMAIN events
  <2>. TAKE i \in 1 .. m
  <2>1. c[i] = events[i] /\ EventOk(events[i], k, V)
    BY <1>1 DEF Appended, Shaped
  <2>2. \A x \in 1 .. k : x # r
    OBVIOUS
  <2>. QED BY <1>1, <2>1, <2>2 DEF EventOk
<1>3. \A n \in 1 .. Len(ps) : /\ c[m + n].at = <<r, n>> /\ c[m + n].at[1] = r
                              /\ c[m + n].at[2] = n /\ c[m + n].parent = parent
  <2>. TAKE n \in 1 .. Len(ps)
  <2>. DEFINE e == c[m + n]
  <2>1. e = [at |-> <<r, n>>, parent |-> parent,
             kind |-> ps[n].kind, pointer |-> ps[n].pointer,
             relation |-> ps[n].relation, status |-> ps[n].status,
             generation |-> ps[n].generation]
    BY DEF Appended
  <2>. HIDE DEF e
  <2>2. e.at = <<r, n>> /\ e.at[1] = r /\ e.at[2] = n /\ e.parent = parent
    BY <2>1
  <2>. QED BY <2>2 DEF e
<1>4. \A i \in DOMAIN c : i \in 1 .. m \/ \E n \in 1 .. Len(ps) : i = m + n
  BY DEF Appended
<1>. HIDE DEF m
<1>5. ASSUME NEW i \in DOMAIN c, NEW j \in DOMAIN c, i < j
      PROVE  Corp!Precedes(c[i].at, c[j].at)
  <2>1. CASE j \in 1 .. m
    <3>1. i \in 1 .. m
      BY <1>1, <1>5, <2>1
    <3>. QED BY <1>2, <1>5, <2>1, <3>1 DEF Placed
  <2>2. ASSUME NEW n \in 1 .. Len(ps), j = m + n
        PROVE  Corp!Precedes(c[i].at, c[j].at)
    <3>1. CASE i \in 1 .. m
      <4>1. c[i].at[1] < r
        BY <1>2, <3>1
      <4>. QED BY <1>3, <2>2, <4>1 DEF Corp!Precedes
    <3>2. ASSUME NEW l \in 1 .. Len(ps), i = m + l
          PROVE  Corp!Precedes(c[i].at, c[j].at)
      <4>1. l < n
        BY <1>1, <1>5, <2>2, <3>2
      <4>. QED BY <1>3, <2>2, <3>2, <4>1 DEF Corp!Precedes
    <3>. QED BY <1>4, <3>1, <3>2
  <2>. QED BY <1>4, <2>1, <2>2
<1>6. ASSUME NEW i \in DOMAIN c, NEW j \in DOMAIN c, c[i].at[1] = c[j].at[1]
      PROVE  c[i].parent = c[j].parent
  <2>1. CASE i \in 1 .. m /\ j \in 1 .. m
    BY <1>2, <1>6, <2>1 DEF Placed
  <2>2. CASE ~(i \in 1 .. m /\ j \in 1 .. m)
    <3>1. c[i].at[1] = r /\ c[j].at[1] = r
      BY <1>3, <1>4, <1>6, <2>2
    <3>2. ~(i \in 1 .. m) /\ ~(j \in 1 .. m)
      BY <1>2, <3>1
    <3>. QED BY <1>3, <1>4, <3>2
  <2>. QED BY <2>1, <2>2
<1>7. ASSUME NEW i \in DOMAIN c
      PROVE  c[i].at[2] = Cardinality({j \in 1 .. i : c[j].at[1] = c[i].at[1]})
  <2>1. CASE i \in 1 .. m
    <3>1. \A j \in 1 .. i : j \in 1 .. m
      BY <1>1, <2>1
    <3>2. {j \in 1 .. i : c[j].at[1] = c[i].at[1]}
            = {j \in 1 .. i : events[j].at[1] = events[i].at[1]}
      BY <1>2, <2>1, <3>1
    <3>. QED BY <1>2, <2>1, <3>2 DEF Placed
  <2>2. ASSUME NEW n \in 1 .. Len(ps), i = m + n
        PROVE  c[i].at[2] = Cardinality({j \in 1 .. i : c[j].at[1] = c[i].at[1]})
    <3>1. c[i].at[1] = r /\ c[i].at[2] = n
      BY <1>3, <2>2
    <3>2. ASSUME NEW j \in 1 .. i PROVE c[j].at[1] = r <=> j \in m + 1 .. m + n
      <4>1. j \in 1 .. m \/ j \in m + 1 .. m + n
        BY <1>1, <2>2
      <4>2. CASE j \in 1 .. m
        BY <1>1, <1>2, <4>2
      <4>3. CASE j \in m + 1 .. m + n
        <5>1. PICK l \in Int : l = j - m
          BY <1>1, <4>3
        <5>2. l \in 1 .. Len(ps) /\ j = m + l
          BY <1>1, <4>3, <5>1
        <5>. QED BY <1>3, <4>3, <5>2
      <4>. QED BY <4>1, <4>2, <4>3
    <3>3. \A j \in m + 1 .. m + n : j \in 1 .. i
      BY <1>1, <2>2
    <3>4. {j \in 1 .. i : c[j].at[1] = c[i].at[1]} = m + 1 .. m + n
      BY <3>1, <3>2, <3>3
    <3>5. Cardinality(m + 1 .. m + n) = n
      <4>1. m + 1 \in Int /\ m + n \in Int /\ ~(m + 1 > m + n)
        BY <1>1
      <4>2. Cardinality(m + 1 .. m + n) = (m + n) - (m + 1) + 1
        BY <4>1, FS_Interval
      <4>. QED BY <1>1, <4>2
    <3>. QED BY <3>1, <3>4, <3>5
  <2>. QED BY <1>4, <2>1, <2>2
<1>. QED BY <1>5, <1>6, <1>7 DEF Placed

\* The fields of an event that has been added are those of its partial.
LEMMA AppendedFields ==
    ASSUME NEW events, NEW r, NEW parent, NEW ps, NEW c,
           Appended(events, r, parent, ps, c), NEW n \in 1 .. Len(ps)
    PROVE  /\ c[Len(events) + n].at = <<r, n>>
           /\ c[Len(events) + n].kind = ps[n].kind
           /\ c[Len(events) + n].pointer = ps[n].pointer
           /\ c[Len(events) + n].relation = ps[n].relation
           /\ c[Len(events) + n].generation = ps[n].generation
<1>. DEFINE e == c[Len(events) + n]
<1>1. e = [at |-> <<r, n>>, parent |-> parent,
           kind |-> ps[n].kind, pointer |-> ps[n].pointer,
           relation |-> ps[n].relation, status |-> ps[n].status,
           generation |-> ps[n].generation]
  BY DEF Appended
<1>. HIDE DEF e
<1>2. /\ e.at = <<r, n>> /\ e.kind = ps[n].kind /\ e.pointer = ps[n].pointer
      /\ e.relation = ps[n].relation /\ e.generation = ps[n].generation
  BY <1>1
<1>. QED BY <1>2 DEF e

\* A call that is known stands before what is added.
LEMMA CalledThere ==
    ASSUME NEW events, NEW r, NEW parent, NEW ps, NEW c,
           Serial(events), Serial(ps), Appended(events, r, parent, ps, c),
           NEW n \in 0 .. Len(ps), NEW at, Called(events, r, ps, n, at)
    PROVE  \E j \in DOMAIN c : /\ j <= Len(events) + n
                               /\ c[j].at = at
                               /\ c[j].kind = "tool-call"
<1>1. /\ Len(events) \in Nat /\ DOMAIN events = 1 .. Len(events)
      /\ Len(ps) \in Nat /\ DOMAIN ps = 1 .. Len(ps)
      /\ DOMAIN c = 1 .. Len(events) + Len(ps)
  BY SerialIs DEF Appended
<1>2. ASSUME NEW i \in DOMAIN events, events[i].at = at, events[i].kind = "tool-call"
      PROVE  \E j \in DOMAIN c : /\ j <= Len(events) + n
                                 /\ c[j].at = at
                                 /\ c[j].kind = "tool-call"
  <2>1. i \in DOMAIN c /\ i <= Len(events) + n
    BY <1>1
  <2>2. c[i] = events[i]
    BY <1>1 DEF Appended
  <2>. QED BY <1>2, <2>1, <2>2
<1>3. ASSUME NEW l \in 1 .. n, at = <<r, l>>, ps[l].kind = "tool-call"
      PROVE  \E j \in DOMAIN c : /\ j <= Len(events) + n
                                 /\ c[j].at = at
                                 /\ c[j].kind = "tool-call"
  <2>1. /\ l \in 1 .. Len(ps) /\ Len(events) + l \in DOMAIN c
        /\ Len(events) + l <= Len(events) + n
    BY <1>1
  <2>2. c[Len(events) + l].at = at /\ c[Len(events) + l].kind = "tool-call"
    BY <1>3, <2>1, AppendedFields
  <2>. QED BY <2>1, <2>2
<1>. QED BY <1>2, <1>3 DEF Called

\* Results of a record answer calls before them, and forge actions go with a call.
LEMMA RecordBound ==
    ASSUME NEW events, NEW r, NEW parent, NEW ps, NEW c, NEW V,
           Serial(events), Bound(events), PartialsGood(events, r, ps, V),
           Appended(events, r, parent, ps, c)
    PROVE  Bound(c)
<1>. DEFINE m == Len(events)
<1>1. /\ m \in Nat /\ DOMAIN events = 1 .. m /\ Serial(ps)
      /\ Len(ps) \in Nat /\ DOMAIN ps = 1 .. Len(ps)
      /\ DOMAIN c = 1 .. m + Len(ps)
      /\ \A i \in 1 .. m : c[i] = events[i]
  BY SerialIs DEF PartialsGood, Appended
<1>2. \A n \in 1 .. Len(ps) : /\ c[m + n].at = <<r, n>>
                              /\ c[m + n].kind = ps[n].kind
                              /\ c[m + n].pointer = ps[n].pointer
                              /\ c[m + n].relation = ps[n].relation
  BY AppendedFields
<1>3. \A i \in DOMAIN c : i \in 1 .. m \/ \E n \in 1 .. Len(ps) : i = m + n
  BY DEF Appended
<1>4. \A n \in 0 .. Len(ps) : \A at :
          Called(events, r, ps, n, at) =>
             \E j \in DOMAIN c : /\ j <= m + n
                                 /\ c[j].at = at
                                 /\ c[j].kind = "tool-call"
  BY <1>1, CalledThere
<1>. HIDE DEF m
<1>5. ASSUME NEW i \in DOMAIN c,
             c[i].kind = "tool-result", c[i].relation[1] = "linked"
      PROVE  \E j \in DOMAIN c : /\ j < i
                                 /\ c[j].at = c[i].relation[2]
                                 /\ c[j].kind = "tool-call"
  <2>1. CASE i \in 1 .. m
    <3>1. \E j \in DOMAIN events : /\ j < i
                                   /\ events[j].at = events[i].relation[2]
                                   /\ events[j].kind = "tool-call"
      BY <1>1, <1>5, <2>1 DEF Bound
    <3>2. \A j \in DOMAIN events : j \in DOMAIN c /\ c[j] = events[j]
      BY <1>1
    <3>. QED BY <1>1, <2>1, <3>1, <3>2
  <2>2. ASSUME NEW n \in 1 .. Len(ps), i = m + n
        PROVE  \E j \in DOMAIN c : /\ j < i
                                   /\ c[j].at = c[i].relation[2]
                                   /\ c[j].kind = "tool-call"
    <3>1. Called(events, r, ps, n - 1, c[i].relation[2])
      BY <1>1, <1>2, <1>5, <2>2 DEF PartialsGood
    <3>2. n - 1 \in 0 .. Len(ps)
      BY <1>1
    <3>3. PICK j \in DOMAIN c : /\ j <= m + (n - 1)
                                /\ c[j].at = c[i].relation[2]
                                /\ c[j].kind = "tool-call"
      BY <1>4, <3>1, <3>2
    <3>4. j < i
      BY <1>1, <2>2, <3>3
    <3>. QED BY <3>3, <3>4
  <2>. QED BY <1>3, <2>1, <2>2
<1>6. ASSUME NEW i \in DOMAIN c, c[i].kind = "forge-action"
      PROVE  /\ i - 1 \in DOMAIN c
             /\ c[i].relation = <<"linked", c[i - 1].at>>
             /\ c[i - 1].kind = "tool-call"
             /\ c[i - 1].pointer = c[i].pointer
  <2>1. CASE i \in 1 .. m
    <3>1. /\ i - 1 \in 1 .. m
          /\ events[i].relation = <<"linked", events[i - 1].at>>
          /\ events[i - 1].kind = "tool-call"
          /\ events[i - 1].pointer = events[i].pointer
      BY <1>1, <1>6, <2>1 DEF Bound
    <3>2. i - 1 \in DOMAIN c
      BY <1>1, <3>1
    <3>. QED BY <1>1, <2>1, <3>1, <3>2
  <2>2. ASSUME NEW n \in 1 .. Len(ps), i = m + n
        PROVE  /\ i - 1 \in DOMAIN c
               /\ c[i].relation = <<"linked", c[i - 1].at>>
               /\ c[i - 1].kind = "tool-call"
               /\ c[i - 1].pointer = c[i].pointer
    <3>1. /\ n > 1
          /\ ps[n].relation = <<"linked", <<r, n - 1>>>>
          /\ ps[n - 1].kind = "tool-call"
          /\ ps[n - 1].pointer = ps[n].pointer
      BY <1>1, <1>2, <1>6, <2>2 DEF PartialsGood
    <3>2. n - 1 \in 1 .. Len(ps) /\ i - 1 = m + (n - 1) /\ i - 1 \in DOMAIN c
      <4>1. n > 1 /\ i = m + n /\ n \in 1 .. Len(ps)
        BY <2>2, <3>1
      <4>2. n - 1 \in 1 .. Len(ps) /\ i - 1 = m + (n - 1)
        BY <1>1, <4>1
      <4>3. i - 1 \in 1 .. m + Len(ps)
        BY <1>1, <4>1
      <4>. QED BY <1>1, <4>2, <4>3
    <3>3. /\ c[i - 1].at = <<r, n - 1>> /\ c[i - 1].kind = ps[n - 1].kind
          /\ c[i - 1].pointer = ps[n - 1].pointer
      BY <1>2, <3>2
    <3>4. c[i].relation = ps[n].relation /\ c[i].pointer = ps[n].pointer
      BY <1>2, <2>2
    <3>. QED BY <3>1, <3>2, <3>3, <3>4
  <2>. QED BY <1>3, <2>1, <2>2
<1>. QED BY <1>5, <1>6 DEF Bound

\* A record's generations follow those of the records before it.
LEMMA RecordDated ==
    ASSUME NEW events, NEW r, NEW parent, NEW ps, NEW c, NEW low, NEW high,
           Serial(events), Serial(ps), Dated(events, low),
           PartialsDated(ps, low, high), Appended(events, r, parent, ps, c)
    PROVE  Dated(c, high)
<1>. DEFINE m == Len(events)
<1>1. /\ m \in Nat /\ DOMAIN events = 1 .. m
      /\ Len(ps) \in Nat /\ DOMAIN ps = 1 .. Len(ps)
      /\ DOMAIN c = 1 .. m + Len(ps)
      /\ \A i \in 1 .. m : c[i] = events[i]
  BY SerialIs DEF Appended
<1>2. \A n \in 1 .. Len(ps) : c[m + n].generation = ps[n].generation
  BY AppendedFields
<1>3. \A i \in DOMAIN c : i \in 1 .. m \/ \E n \in 1 .. Len(ps) : i = m + n
  BY DEF Appended
<1>. HIDE DEF m
<1>4. ASSUME NEW i \in 1 .. m, c[i].generation # None
      PROVE  c[i].generation \in Int /\ c[i].generation <= low
  BY <1>1, <1>4 DEF Dated
<1>5. ASSUME NEW i \in DOMAIN c, ~(i \in 1 .. m), c[i].generation # None
      PROVE  /\ c[i].generation \in Int
             /\ low < c[i].generation /\ c[i].generation <= high
             /\ i = m + 1 /\ Len(ps) = 1
  <2>1. PICK n \in 1 .. Len(ps) : i = m + n
    BY <1>3, <1>5
  <2>2. ps[n].generation # None /\ ps[n].generation = c[i].generation
    BY <1>2, <1>5, <2>1
  <2>3. n = 1
    BY <1>1, <2>2 DEF PartialsDated
  <2>. QED BY <1>1, <2>1, <2>2, <2>3 DEF PartialsDated
<1>6. low \in Int /\ high \in Int /\ low <= high
  BY DEF PartialsDated
<1>7. ASSUME NEW i \in DOMAIN c, c[i].generation # None
      PROVE  c[i].generation \in Int /\ c[i].generation <= high
  <2>1. CASE i \in 1 .. m
    BY <1>4, <1>6, <1>7, <2>1
  <2>2. CASE ~(i \in 1 .. m)
    BY <1>5, <1>7, <2>2
  <2>. QED BY <2>1, <2>2
<1>8. ASSUME NEW i \in DOMAIN c, NEW j \in DOMAIN c, i < j,
             c[i].generation # None, c[j].generation # None
      PROVE  c[i].generation < c[j].generation
  <2>1. CASE j \in 1 .. m
    <3>1. i \in 1 .. m
      BY <1>1, <1>8, <2>1
    <3>. QED BY <1>1, <1>8, <2>1, <3>1 DEF Dated
  <2>2. CASE ~(j \in 1 .. m)
    <3>1. low < c[j].generation /\ j = m + 1 /\ c[j].generation \in Int
      BY <1>5, <1>8, <2>2
    <3>2. i \in 1 .. m
      BY <1>1, <1>8, <3>1
    <3>3. c[i].generation \in Int /\ c[i].generation <= low
      BY <1>4, <1>8, <3>2
    <3>. QED BY <1>6, <3>1, <3>3
  <2>. QED BY <2>1, <2>2
<1>. QED BY <1>6, <1>7, <1>8 DEF Dated

\* One more record has events.
LEMMA RecordParsed ==
    ASSUME NEW events, NEW r \in Nat, NEW parent, NEW ps, NEW c, NEW k \in Nat, NEW V,
           Shaped(events, k, V), Serial(ps), Appended(events, r, parent, ps, c)
    PROVE  /\ Cardinality(RecordsOf(events)) \in Nat /\ Cardinality(RecordsOf(c)) \in Nat
           /\ Cardinality(RecordsOf(c)) <= Cardinality(RecordsOf(events)) + 1
<1>. DEFINE old == RecordsOf(events)
            new == RecordsOf(c)
<1>1. /\ Len(events) \in Nat /\ DOMAIN events = 1 .. Len(events)
  BY SerialIs DEF Shaped
<1>2. IsFiniteSet(old)
  <2>1. old \subseteq 1 .. k
    BY DEF Shaped, EventOk, RecordsOf
  <2>2. IsFiniteSet(1 .. k)
    BY FS_Interval
  <2>. QED BY <2>1, <2>2, FS_Subset
<1>3. ASSUME NEW i \in DOMAIN c PROVE c[i].at[1] \in old \cup {r}
  <2>1. CASE i \in 1 .. Len(events)
    BY <1>1, <2>1 DEF Appended, RecordsOf
  <2>2. ASSUME NEW n \in 1 .. Len(ps), i = Len(events) + n
        PROVE  c[i].at[1] = r
    <3>1. c[Len(events) + n].at = <<r, n>>
      BY AppendedFields
    <3>2. c[i].at = <<r, n>>
      BY <2>2, <3>1, Zenon
    <3>. QED BY <3>2
  <2>. QED BY <2>1, <2>2 DEF Appended
<1>4. new \in SUBSET (old \cup {r})
  BY <1>3 DEF RecordsOf
<1>. HIDE DEF old, new
<1>5. IsFiniteSet(old \cup {r}) /\ Cardinality(old \cup {r}) <= Cardinality(old) + 1
      /\ Cardinality(old) \in Nat /\ Cardinality(old \cup {r}) \in Nat
  <2>1. /\ IsFiniteSet(old \cup {r})
        /\ Cardinality(old \cup {r}) =
             IF r \in old THEN Cardinality(old) ELSE Cardinality(old) + 1
    BY <1>2, FS_AddElement
  <2>2. Cardinality(old) \in Nat /\ Cardinality(old \cup {r}) \in Nat
    BY <1>2, <2>1, FS_CardinalityType
  <2>. QED BY <2>1, <2>2
<1>6. IsFiniteSet(new) /\ Cardinality(new) <= Cardinality(old \cup {r})
  BY <1>4, <1>5, FS_Subset
<1>7. Cardinality(new) \in Nat
  BY <1>6, FS_CardinalityType
<1>8. Cardinality(new) <= Cardinality(old) + 1
  BY <1>5, <1>6, <1>7
<1>. QED BY <1>5, <1>7, <1>8 DEF old, new

\* What the adapters keep, record after record.
CorpusInv(events, cov, positions, k, gen, V) ==
    /\ Shaped(events, k, V)
    /\ Placed(events)
    /\ Bound(events)
    /\ Dated(events, gen)
    /\ Balanced(cov, Corp!References(events), Corp!PrimaryEvents(events),
                Corp!UnknownContent(events))
    /\ Parses(cov, k, events)
    /\ Located(events, 0, <<>>, positions)

\* A record under way: ps are its partials so far, cov counts them too.
Underway(events, cov, r, ps, V) ==
    /\ PartialsGood(events, r, ps, V)
    /\ Balanced(cov, Corp!References(events) + Corp!References(ps),
                Corp!PrimaryEvents(events) + Corp!PrimaryEvents(ps),
                Corp!UnknownContent(events) + Corp!UnknownContent(ps))
    /\ Parses(cov, r - 1, events)

\* Events weigh what the partials they were made from weigh.
LEMMA EventsWeighed ==
    ASSUME NEW r, NEW parent, NEW ps, Serial(ps)
    PROVE  LET b == Corp!EventsOf(r, parent, ps)
           IN  /\ Corp!References(b) = Corp!References(ps)
               /\ Corp!PrimaryEvents(b) = Corp!PrimaryEvents(ps)
               /\ Corp!UnknownContent(b) = Corp!UnknownContent(ps)
<1>. DEFINE b == Corp!EventsOf(r, parent, ps)
<1>1. Len(ps) \in Nat /\ DOMAIN ps = 1 .. Len(ps)
  BY SerialIs
<1>2. DOMAIN b = DOMAIN ps /\ \A n \in DOMAIN ps : b[n].kind = ps[n].kind
                                         /\ b[n].pointer = ps[n].pointer
  BY <1>1 DEF Corp!EventsOf
<1>. HIDE DEF b
<1>3. {n \in DOMAIN b : b[n].pointer # None} = {n \in DOMAIN ps : ps[n].pointer # None}
  BY <1>2
<1>4. {n \in DOMAIN b : b[n].kind \in {"turn", "pasted-span", "tool-call", "tool-result"}}
        = {n \in DOMAIN ps :
             ps[n].kind \in {"turn", "pasted-span", "tool-call", "tool-result"}}
  BY <1>2
<1>5. {n \in DOMAIN b : \/ b[n].kind \in {"pasted-span", "tool-result"}
                        \/ b[n].kind = "turn" /\ b[n].pointer = None}
        = {n \in DOMAIN ps : \/ ps[n].kind \in {"pasted-span", "tool-result"}
                             \/ ps[n].kind = "turn" /\ ps[n].pointer = None}
  BY <1>2
<1>. QED BY <1>3, <1>4, <1>5 DEF b, Corp!References, Corp!PrimaryEvents, Corp!UnknownContent

\* The events of a record join those of the records before it.
LEMMA RecordAdded ==
    ASSUME NEW events, NEW cov0, NEW positions0, NEW k \in Nat, NEW low, NEW high, NEW V,
           NEW r \in Nat, r = k + 1, NEW parent, NEW ps, NEW cov, NEW positions,
           CorpusInv(events, cov0, positions0, k, low, V),
           Underway(events, cov, r, ps, V),
           PartialsDated(ps, low, high),
           Located(events, r, ps, positions),
           parent # None => parent \in Nat /\ parent < r
    PROVE  CorpusInv(events \o Corp!EventsOf(r, parent, ps),
                     Corp!Count(cov, {"records_parsed"}), positions, r, high, V)
<1>. DEFINE b == Corp!EventsOf(r, parent, ps)
            c == events \o b
            cov1 == Corp!Count(cov, {"records_parsed"})
<1>1. Serial(events) /\ Serial(ps)
  BY DEF CorpusInv, Shaped, Underway, PartialsGood
<1>2. Appended(events, r, parent, ps, c)
  BY <1>1, AppendedIs
<1>3. Serial(b)
  BY <1>1, EventsOfIs
<1>4. /\ Corp!References(c) = Corp!References(events) + Corp!References(ps)
      /\ Corp!PrimaryEvents(c) = Corp!PrimaryEvents(events) + Corp!PrimaryEvents(ps)
      /\ Corp!UnknownContent(c) = Corp!UnknownContent(events) + Corp!UnknownContent(ps)
  <2>1. /\ Corp!References(b) = Corp!References(ps)
        /\ Corp!PrimaryEvents(b) = Corp!PrimaryEvents(ps)
        /\ Corp!UnknownContent(b) = Corp!UnknownContent(ps)
    BY <1>1, EventsWeighed
  <2>. HIDE DEF b
  <2>2. /\ Corp!References(c) = Corp!References(events) + Corp!References(b)
        /\ Corp!PrimaryEvents(c) = Corp!PrimaryEvents(events) + Corp!PrimaryEvents(b)
        /\ Corp!UnknownContent(c) = Corp!UnknownContent(events) + Corp!UnknownContent(b)
    BY <1>1, <1>3, Tallied
  <2>. QED BY <2>1, <2>2
<1>. HIDE DEF b, c
<1>5. Shaped(c, r, V)
  BY <1>2, RecordShaped DEF CorpusInv, Underway
<1>6. Placed(c)
  BY <1>1, <1>2, RecordPlaced DEF CorpusInv
<1>7. Bound(c)
  BY <1>1, <1>2, RecordBound DEF CorpusInv, Underway
<1>8. Dated(c, high)
  BY <1>1, <1>2, RecordDated DEF CorpusInv
<1>9. /\ Balanced(cov, Corp!References(c), Corp!PrimaryEvents(c), Corp!UnknownContent(c))
      /\ Parses(cov, k, events)
  <2>1. r - 1 = k
    OBVIOUS
  <2>. QED BY <1>4, <2>1 DEF Underway
<1>10. cov1 = [cov EXCEPT !["records_parsed"] = @ + 1]
       /\ "records_parsed" \in Corp!CoverageKeys
  BY <1>9 DEF Corp!Count, Corp!CoverageKeys, Balanced
<1>. HIDE DEF cov1
<1>11. Balanced(cov1, Corp!References(c), Corp!PrimaryEvents(c), Corp!UnknownContent(c))
  <2>1. /\ cov1 \in [Corp!CoverageKeys -> Int]
        /\ \A x \in Corp!CoverageKeys \ {"records_parsed"} : cov1[x] = cov[x]
    BY <1>9, <1>10 DEF Balanced
  <2>2. {"content_references", "blocks_seen", "blocks_unsupported",
         "content_unknown", "user_turns_ambiguous"}
          \subseteq Corp!CoverageKeys \ {"records_parsed"}
    BY DEF Corp!CoverageKeys
  <2>. QED BY <1>9, <2>1, <2>2 DEF Balanced
<1>12. Parses(cov1, r, c)
  <2>. DEFINE old == Cardinality(RecordsOf(events))
              new == Cardinality(RecordsOf(c))
  <2>1. old \in Nat /\ new \in Nat /\ new <= old + 1
    <3>1. Shaped(events, k, V)
      BY DEF CorpusInv
    <3>. QED BY <1>1, <1>2, <3>1, RecordParsed
  <2>2. /\ cov1["records_parsed"] = cov["records_parsed"] + 1
        /\ cov1["records_malformed"] = cov["records_malformed"]
        /\ cov1["records_unsupported"] = cov["records_unsupported"]
        /\ cov["records_parsed"] \in Int /\ cov["records_malformed"] \in Int
        /\ cov["records_unsupported"] \in Int
    BY <1>9, <1>10 DEF Balanced, Corp!CoverageKeys
  <2>3. /\ cov["records_parsed"] + cov["records_malformed"]
             + cov["records_unsupported"] = k
        /\ cov["records_parsed"] >= old
    BY <1>9 DEF Parses
  <2>. HIDE DEF old, new
  <2>4. cov1["records_parsed"] + cov1["records_malformed"]
             + cov1["records_unsupported"] = r
    BY <2>2, <2>3
  <2>5. cov1["records_parsed"] >= new
    BY <2>1, <2>2, <2>3
  <2>. QED BY <2>4, <2>5 DEF Parses, new
<1>13. Located(c, 0, <<>>, positions)
  <2>1. ASSUME NEW id \in DOMAIN positions, positions[id] # None
        PROVE  Called(c, 0, <<>>, 0, positions[id])
    <3>1. Called(events, r, ps, Len(ps), positions[id])
      BY <2>1 DEF Located
    <3>2. Len(ps) \in 0 .. Len(ps)
      BY <1>1, SerialIs
    <3>3. \E j \in DOMAIN c : c[j].at = positions[id] /\ c[j].kind = "tool-call"
      BY <1>1, <1>2, <3>1, <3>2, CalledThere
    <3>. QED BY <3>3 DEF Called
  <2>2. Len(<<>>) = 0
    BY Alone
  <2>. QED BY <2>1, <2>2 DEF Located
<1>14. CorpusInv(c, cov1, positions, r, high, V)
  BY <1>5, <1>6, <1>7, <1>8, <1>11, <1>12, <1>13 DEF CorpusInv
<1>. QED BY <1>14 DEF b, c, cov1

\* A record that has no events.
LEMMA RecordSkipped ==
    ASSUME NEW events, NEW cov0, NEW positions, NEW k \in Nat, NEW gen, NEW V,
           NEW r \in Nat, r = k + 1, NEW cov,
           CorpusInv(events, cov0, positions, k, gen, V),
           Underway(events, cov, r, <<>>, V),
           NEW key \in {"records_malformed", "records_unsupported"}
    PROVE  CorpusInv(events, Corp!Count(cov, {key}), positions, r, gen, V)
<1>. DEFINE cov1 == Corp!Count(cov, {key})
<1>1. /\ Balanced(cov, Corp!References(events), Corp!PrimaryEvents(events),
                  Corp!UnknownContent(events))
      /\ Parses(cov, k, events)
  <2>1. Serial(events) /\ Serial(<<>>) /\ events \o <<>> = events
    BY Alone, ConcatEmptySeq DEF CorpusInv, Shaped, Serial
  <2>2. /\ Corp!References(events \o <<>>) = Corp!References(events) + Corp!References(<<>>)
        /\ Corp!PrimaryEvents(events \o <<>>)
             = Corp!PrimaryEvents(events) + Corp!PrimaryEvents(<<>>)
        /\ Corp!UnknownContent(events \o <<>>)
             = Corp!UnknownContent(events) + Corp!UnknownContent(<<>>)
    BY <2>1, Tallied
  <2>3. r - 1 = k
    OBVIOUS
  <2>. QED BY <2>1, <2>2, <2>3 DEF Underway
<1>2. cov1 = [cov EXCEPT ![key] = @ + 1] /\ key \in Corp!CoverageKeys
  BY <1>1 DEF Corp!Count, Corp!CoverageKeys, Balanced
<1>. HIDE DEF cov1
<1>3. /\ cov1 \in [Corp!CoverageKeys -> Int]
      /\ \A x \in Corp!CoverageKeys \ {key} : cov1[x] = cov[x]
      /\ cov1[key] = cov[key] + 1
      /\ \A x \in Corp!CoverageKeys : cov[x] \in Int
  BY <1>1, <1>2 DEF Balanced
<1>4. /\ {"content_references", "blocks_seen", "blocks_unsupported",
         "content_unknown", "user_turns_ambiguous", "records_parsed"}
          \subseteq Corp!CoverageKeys \ {key}
      /\ "records_malformed" \in Corp!CoverageKeys
      /\ "records_unsupported" \in Corp!CoverageKeys
  BY DEF Corp!CoverageKeys
<1>5. Balanced(cov1, Corp!References(events), Corp!PrimaryEvents(events),
               Corp!UnknownContent(events))
  BY <1>1, <1>3, <1>4 DEF Balanced
<1>6. Parses(cov1, r, events)
  <2>1. cov1["records_parsed"] + cov1["records_malformed"]
          + cov1["records_unsupported"] = r
    <3>1. cov["records_parsed"] + cov["records_malformed"]
            + cov["records_unsupported"] = k
      BY <1>1 DEF Parses
    <3>2. /\ cov1["records_parsed"] = cov["records_parsed"]
          /\ cov["records_parsed"] \in Int /\ cov["records_malformed"] \in Int
          /\ cov["records_unsupported"] \in Int
      BY <1>3, <1>4
    <3>3. CASE key = "records_malformed"
      <4>1. /\ cov1["records_malformed"] = cov["records_malformed"] + 1
            /\ cov1["records_unsupported"] = cov["records_unsupported"]
        BY <1>3, <1>4, <3>3
      <4>. QED BY <3>1, <3>2, <4>1
    <3>4. CASE key = "records_unsupported"
      <4>1. /\ cov1["records_unsupported"] = cov["records_unsupported"] + 1
            /\ cov1["records_malformed"] = cov["records_malformed"]
        BY <1>3, <1>4, <3>4
      <4>. QED BY <3>1, <3>2, <4>1
    <3>. QED BY <3>3, <3>4
  <2>2. cov1["records_parsed"] = cov["records_parsed"]
    BY <1>3, <1>4
  <2>. QED BY <1>1, <2>1, <2>2 DEF Parses
<1>7. Shaped(events, r, V)
  <2>1. Shaped(events, k, V)
    BY DEF CorpusInv
  <2>2. \A x \in 1 .. k : x \in 1 .. r
    OBVIOUS
  <2>. QED BY <2>1, <2>2 DEF Shaped, EventOk
<1>8. CorpusInv(events, cov1, positions, r, gen, V)
  BY <1>5, <1>6, <1>7 DEF CorpusInv
<1>. QED BY <1>8 DEF cov1

-----------------------------------------------------------------------------
(* A corpus whose records were taken so is one the validator accepts.      *)

\* The events with their outcomes: only the status of a forge action changes.
Outcomes(events, j) ==
    /\ DOMAIN j = DOMAIN events
    /\ \A i \in DOMAIN events :
          /\ j[i].at = events[i].at
          /\ j[i].parent = events[i].parent
          /\ j[i].kind = events[i].kind
          /\ j[i].pointer = events[i].pointer
          /\ j[i].relation = events[i].relation
          /\ j[i].generation = events[i].generation
          /\ j[i].status = IF events[i].kind = "forge-action"
                             THEN Corp!OutcomeFor(events, events[i].relation[2])
                             ELSE events[i].status

\* The join of outcomes changes the status of forge actions and nothing else.
LEMMA JoinedIs ==
    ASSUME NEW events, NEW k, NEW V, Shaped(events, k, V)
    PROVE  Outcomes(events, Corp!JoinForgeOutcomes(events))
<1>. DEFINE j == Corp!JoinForgeOutcomes(events)
<1>1. DOMAIN j = DOMAIN events
  BY DEF Corp!JoinForgeOutcomes
<1>2. ASSUME NEW i \in DOMAIN events
      PROVE  /\ j[i].at = events[i].at
             /\ j[i].parent = events[i].parent
             /\ j[i].kind = events[i].kind
             /\ j[i].pointer = events[i].pointer
             /\ j[i].relation = events[i].relation
             /\ j[i].generation = events[i].generation
             /\ j[i].status = IF events[i].kind = "forge-action"
                                THEN Corp!OutcomeFor(events, events[i].relation[2])
                                ELSE events[i].status
  <2>. DEFINE e == events[i]
              o == Corp!OutcomeFor(events, e.relation[2])
  <2>1. j[i] = IF e.kind = "forge-action" THEN [e EXCEPT !.status = o] ELSE e
    BY DEF Corp!JoinForgeOutcomes
  <2>2. e = [at |-> e.at, parent |-> e.parent, kind |-> e.kind,
             pointer |-> e.pointer, relation |-> e.relation,
             status |-> e.status, generation |-> e.generation]
    BY DEF Shaped, EventOk
  <2>. HIDE DEF e, o
  <2>3. [e EXCEPT !.status = o]
          = [at |-> e.at, parent |-> e.parent, kind |-> e.kind,
             pointer |-> e.pointer, relation |-> e.relation,
             status |-> o, generation |-> e.generation]
    BY <2>2
  <2>4. CASE e.kind = "forge-action"
    <3>1. j[i] = [at |-> e.at, parent |-> e.parent, kind |-> e.kind,
             pointer |-> e.pointer, relation |-> e.relation,
             status |-> o, generation |-> e.generation]
      BY <2>1, <2>3, <2>4
    <3>. HIDE DEF j
    <3>2. /\ j[i].at = e.at /\ j[i].parent = e.parent /\ j[i].kind = e.kind
          /\ j[i].pointer = e.pointer /\ j[i].relation = e.relation
          /\ j[i].generation = e.generation /\ j[i].status = o
      BY <3>1
    <3>. QED BY <2>4, <3>2 DEF e, o
  <2>5. CASE e.kind # "forge-action"
    BY <2>1, <2>5 DEF e
  <2>. QED BY <2>4, <2>5
<1>. QED BY <1>1, <1>2 DEF Outcomes

\* The outcome of a call is the same once it has been given to its actions.
LEMMA OutcomesStay ==
    ASSUME NEW events, NEW j, Outcomes(events, j), NEW at
    PROVE  Corp!OutcomeFor(j, at) = Corp!OutcomeFor(events, at)
<1>. DEFINE R == Corp!ResultsFor(events, at)
            i == CHOOSE x \in R : TRUE
<1>1. Corp!ResultsFor(j, at) = R
  BY DEF Outcomes, Corp!ResultsFor
<1>2. CASE Cardinality(R) = 1
  <2>1. R # {}
    BY <1>2, FS_EmptySet
  <2>2. i \in R
    BY <2>1
  <2>3. i \in DOMAIN events /\ events[i].kind = "tool-result"
    BY <2>2 DEF Corp!ResultsFor
  <2>4. j[i].status = events[i].status
    BY <2>3 DEF Outcomes
  <2>5. Corp!OutcomeFor(j, at) = j[i].status
    BY <1>1, <1>2, CorpusCardinality DEF Corp!OutcomeFor
  <2>6. Corp!OutcomeFor(events, at) = events[i].status
    BY <1>2, CorpusCardinality DEF Corp!OutcomeFor
  <2>. QED BY <2>4, <2>5, <2>6
<1>3. CASE Cardinality(R) # 1
  BY <1>1, <1>3, CorpusCardinality DEF Corp!OutcomeFor
<1>. QED BY <1>2, <1>3

\* The events are in order, so that each place is that of one event.
LEMMA OnePlace ==
    ASSUME NEW events, NEW k, NEW V, Shaped(events, k, V), Placed(events),
           NEW i \in DOMAIN events, NEW j \in DOMAIN events,
           events[i].at = events[j].at
    PROVE  i = j
<1>1. i \in Nat /\ j \in Nat
  BY SerialIs DEF Shaped
<1>2. \A x \in DOMAIN events : ~Corp!Precedes(events[x].at, events[x].at)
  <2>. TAKE x \in DOMAIN events
  <2>1. events[x].at[1] \in Nat /\ events[x].at[2] \in Nat
    BY DEF Shaped, EventOk
  <2>. QED BY <2>1 DEF Corp!Precedes
<1>3. ~(i < j) /\ ~(j < i)
  BY <1>2 DEF Placed
<1>. QED BY <1>1, <1>3

\* Once outcomes are joined, forge actions have those of their calls.
LEMMA ForgesBound ==
    ASSUME NEW events, NEW k, NEW V, Shaped(events, k, V), Placed(events), Bound(events),
           NEW j, Outcomes(events, j), NEW corpus, corpus.events = j
    PROVE  Corp!ForgeBound(corpus)
<1>. DEFINE E == DOMAIN events
<1>1. DOMAIN j = E /\ E \subseteq Int
  BY SerialIs DEF Outcomes, Shaped
<1>2. \A i \in E : /\ j[i].at = events[i].at /\ j[i].kind = events[i].kind
                   /\ j[i].pointer = events[i].pointer
                   /\ j[i].relation = events[i].relation
  BY DEF Outcomes
<1>3. ASSUME NEW i \in E, j[i].kind = "forge-action"
      PROVE  /\ i - 1 \in E
             /\ j[i].relation[1] = "linked"
             /\ j[i].relation[2] = j[i - 1].at
             /\ j[i - 1].kind = "tool-call"
             /\ j[i - 1].pointer = j[i].pointer
             /\ j[i].status = Corp!OutcomeFor(j, j[i].relation[2])
  <2>1. /\ i - 1 \in E
        /\ events[i].relation = <<"linked", events[i - 1].at>>
        /\ events[i - 1].kind = "tool-call"
        /\ events[i - 1].pointer = events[i].pointer
    BY <1>2, <1>3 DEF Bound
  <2>2. j[i].status = Corp!OutcomeFor(events, events[i].relation[2])
    BY <1>2, <1>3 DEF Outcomes
  <2>3. Corp!OutcomeFor(j, j[i].relation[2]) = Corp!OutcomeFor(events, j[i].relation[2])
    BY OutcomesStay
  <2>4. j[i].relation = events[i].relation
    BY <1>2
  <2>5. /\ j[i].relation[1] = "linked" /\ j[i].relation[2] = events[i - 1].at
    BY <2>1, <2>4
  <2>. QED BY <1>2, <2>1, <2>2, <2>3, <2>4, <2>5
<1>4. ASSUME NEW i \in E, NEW x \in E, j[i].at = j[x].at
      PROVE  i = x
  BY <1>2, <1>4, OnePlace
<1>5. ASSUME NEW i \in E, NEW x \in E, i < x
      PROVE  Corp!Precedes(j[i].at, j[x].at)
  BY <1>2, <1>5 DEF Placed
<1>6. ASSUME NEW i \in E, j[i].kind = "forge-action"
      PROVE  /\ Corp!IsCallBefore(corpus, j[i], j[i].relation[2])
             /\ \A x \in E : j[x].at = j[i].relation[2] => j[x].pointer = j[i].pointer
  <2>1. /\ i - 1 \in E
        /\ j[i].relation[2] = j[i - 1].at
        /\ j[i - 1].kind = "tool-call"
        /\ j[i - 1].pointer = j[i].pointer
    BY <1>3, <1>6
  <2>2. Corp!Precedes(j[i - 1].at, j[i].at)
    <3>1. i - 1 < i
      BY <1>1
    <3>. QED BY <1>5, <2>1, <3>1
  <2>3. Corp!IsCallBefore(corpus, j[i], j[i].relation[2])
    <3>1. \E x \in DOMAIN j : /\ j[x].at = j[i].relation[2]
                              /\ j[x].kind = "tool-call"
                              /\ Corp!Precedes(j[i].relation[2], j[i].at)
      BY <1>1, <2>1, <2>2, Zenon
    <3>. QED BY <3>1 DEF Corp!IsCallBefore
  <2>4. \A x \in E : j[x].at = j[i].relation[2] => j[x].pointer = j[i].pointer
    BY <1>4, <2>1
  <2>. QED BY <2>3, <2>4
<1>7. ASSUME NEW i \in E, NEW x \in E, j[i].kind = "forge-action",
             j[x].kind = "forge-action", j[i].relation = j[x].relation
      PROVE  i = x
  <2>1. i - 1 \in E /\ x - 1 \in E /\ j[i - 1].at = j[x - 1].at
    BY <1>3, <1>7
  <2>2. i - 1 = x - 1
    BY <1>4, <2>1
  <2>. QED BY <1>1, <2>2
<1>. QED BY <1>1, <1>3, <1>6, <1>7 DEF Corp!ForgeBound

\* A corpus built within CorpusInv is accepted once its outcomes are joined.
LEMMA CorpusDone ==
    ASSUME NEW events, NEW cov, NEW positions, NEW k \in Nat, NEW gen, NEW V,
           CorpusInv(events, cov, positions, k, gen, V)
    PROVE  LET j == Corp!JoinForgeOutcomes(events)
           IN  /\ Corp!Accepted([events |-> j, coverage |-> cov, admitted |-> k])
               /\ \A i \in DOMAIN j :
                    j[i].pointer # None => <<j[i].kind, j[i].pointer>> \in V
<1>. DEFINE j == Corp!JoinForgeOutcomes(events)
            corpus == [events |-> j, coverage |-> cov, admitted |-> k]
<1>1. Shaped(events, k, V) /\ Placed(events) /\ Bound(events) /\ Dated(events, gen)
  BY DEF CorpusInv
<1>2. Outcomes(events, j)
  BY <1>1, JoinedIs
<1>. HIDE DEF j
<1>3. /\ corpus.events = j /\ corpus.coverage = cov /\ corpus.admitted = k
  OBVIOUS
<1>. HIDE DEF corpus
<1>4. /\ DOMAIN j = DOMAIN events
      /\ \A i \in DOMAIN events :
          /\ j[i].at = events[i].at
          /\ j[i].parent = events[i].parent
          /\ j[i].kind = events[i].kind
          /\ j[i].pointer = events[i].pointer
          /\ j[i].relation = events[i].relation
          /\ j[i].generation = events[i].generation
  BY <1>2 DEF Outcomes
<1>5. \A i \in DOMAIN events : PartialOk(j[i], j[i].at[1], V)
  BY <1>1, <1>4 DEF Shaped, EventOk, PartialOk
<1>6. Corp!KindsValid(corpus)
  BY <1>3, <1>4, <1>5 DEF Corp!KindsValid, PartialOk
<1>7. Corp!ParseCounted(corpus)
  BY <1>3 DEF Corp!ParseCounted, CorpusInv, Parses
<1>8. /\ Corp!References(j) = Corp!References(events)
      /\ Corp!PrimaryEvents(j) = Corp!PrimaryEvents(events)
      /\ Corp!UnknownContent(j) = Corp!UnknownContent(events)
  <2>1. {n \in DOMAIN j : j[n].pointer # None}
          = {n \in DOMAIN events : events[n].pointer # None}
    BY <1>4
  <2>2. {n \in DOMAIN j : j[n].kind \in {"turn", "pasted-span", "tool-call", "tool-result"}}
          = {n \in DOMAIN events :
               events[n].kind \in {"turn", "pasted-span", "tool-call", "tool-result"}}
    BY <1>4
  <2>3. {n \in DOMAIN j : \/ j[n].kind \in {"pasted-span", "tool-result"}
                          \/ j[n].kind = "turn" /\ j[n].pointer = None}
          = {n \in DOMAIN events : \/ events[n].kind \in {"pasted-span", "tool-result"}
                                   \/ events[n].kind = "turn" /\ events[n].pointer = None}
    BY <1>4
  <2>. QED BY <2>1, <2>2, <2>3 DEF Corp!References, Corp!PrimaryEvents, Corp!UnknownContent
<1>9. Balanced(cov, Corp!References(events), Corp!PrimaryEvents(events),
               Corp!UnknownContent(events))
      /\ Parses(cov, k, events)
  BY DEF CorpusInv
<1>10. Corp!ReferencesCounted(corpus)
  BY <1>3, <1>8, <1>9 DEF Corp!ReferencesCounted, Balanced
<1>11. Corp!ParentsPrecede(corpus)
  <2>1. \A i \in DOMAIN events : /\ events[i].at[1] <= k
                                 /\ events[i].parent # None =>
                                      events[i].parent < events[i].at[1]
    BY <1>1 DEF Shaped, EventOk
  <2>. QED BY <1>3, <1>4, <2>1 DEF Corp!ParentsPrecede
<1>12. Corp!SameRecordAgrees(corpus)
  <2>1. ASSUME NEW i \in DOMAIN events, NEW x \in DOMAIN events,
               j[i].at[1] = j[x].at[1]
        PROVE  /\ j[i].parent = j[x].parent
               /\ j[i].pointer # None /\ j[x].pointer # None =>
                    j[i].pointer[1] = j[x].pointer[1]
    <3>1. j[i].parent = j[x].parent
      BY <1>1, <1>4, <2>1 DEF Placed
    <3>2. \A y \in DOMAIN events : j[y].pointer # None => j[y].pointer[1] = j[y].at[1]
      BY <1>5 DEF PartialOk
    <3>. QED BY <2>1, <3>1, <3>2
  <2>. QED BY <1>3, <1>4, <2>1 DEF Corp!SameRecordAgrees
<1>13. Corp!SubeventsContiguous(corpus)
  <2>1. ASSUME NEW i \in DOMAIN events
        PROVE  j[i].at[2] = Cardinality({x \in 1 .. i : j[x].at[1] = j[i].at[1]})
    <3>1. 1 .. i \subseteq DOMAIN events
      <4>1. DOMAIN events = 1 .. Len(events) /\ Len(events) \in Nat
        BY <1>1, SerialIs DEF Shaped
      <4>. QED BY <4>1
    <3>2. {x \in 1 .. i : j[x].at[1] = j[i].at[1]}
            = {x \in 1 .. i : events[x].at[1] = events[i].at[1]}
      BY <1>4, <3>1
    <3>. QED BY <1>1, <1>4, <3>2 DEF Placed
  <2>. QED BY <1>3, <1>4, <2>1, CorpusCardinality DEF Corp!SubeventsContiguous
<1>14. Corp!GenerationsIncrease(corpus)
  BY <1>1, <1>3, <1>4 DEF Corp!GenerationsIncrease, Dated
<1>15. Corp!InOrder(corpus)
  BY <1>1, <1>3, <1>4 DEF Corp!InOrder, Placed
<1>16. Corp!ResultsAnswerCalls(corpus)
  <2>1. ASSUME NEW i \in DOMAIN events,
               j[i].kind = "tool-result", j[i].relation[1] = "linked"
        PROVE  Corp!IsCallBefore(corpus, j[i], j[i].relation[2])
    <3>1. PICK x \in DOMAIN events : /\ x < i
                                     /\ events[x].at = events[i].relation[2]
                                     /\ events[x].kind = "tool-call"
      BY <1>1, <1>4, <2>1 DEF Bound
    <3>2. Corp!Precedes(j[x].at, j[i].at)
      BY <1>1, <1>4, <3>1 DEF Placed
    <3>3. j[x].at = j[i].relation[2] /\ j[x].kind = "tool-call"
      BY <1>4, <3>1
    <3>. QED BY <1>3, <1>4, <3>2, <3>3 DEF Corp!IsCallBefore
  <2>. QED BY <1>3, <1>4, <2>1 DEF Corp!ResultsAnswerCalls
<1>17. Corp!ForgeBound(corpus)
  BY <1>1, <1>2, <1>3, ForgesBound
<1>18. Corp!BlocksCounted(corpus)
  <2>1. {j[i].at[1] : i \in DOMAIN j} = RecordsOf(events)
    BY <1>4 DEF RecordsOf
  <2>2. cov["records_parsed"] >= Cardinality({j[i].at[1] : i \in DOMAIN j})
    BY <1>9, <2>1 DEF Parses
  <2>. QED BY <1>3, <1>8, <1>9, <2>2, CorpusCardinality DEF Corp!BlocksCounted, Balanced
<1>19. Corp!Accepted(corpus)
  BY <1>6, <1>7, <1>10, <1>11, <1>12, <1>13, <1>14, <1>15, <1>16, <1>17, <1>18
     DEF Corp!Accepted
<1>20. \A i \in DOMAIN j : j[i].pointer # None => <<j[i].kind, j[i].pointer>> \in V
  BY <1>4, <1>5 DEF PartialOk
<1>. QED BY <1>19, <1>20 DEF corpus, j

-----------------------------------------------------------------------------
(* The steps by which either adapter takes a record.                       *)

\* From cov to cov1: n more references, room for p more events that stand for
\* a block and for u more whose content is unknown.
Grows(cov, cov1, n, p, u) ==
    /\ cov1 \in [Corp!CoverageKeys -> Int]
    /\ cov1["content_references"] = cov["content_references"] + n
    /\ cov1["blocks_seen"] - cov["blocks_seen"] >= p
    /\ cov1["blocks_unsupported"] - cov["blocks_unsupported"]
         <= cov1["blocks_seen"] - cov["blocks_seen"]
    /\ cov1["content_unknown"] - cov["content_unknown"] >= u
    /\ cov1["content_unknown"] - cov["content_unknown"]
         <= cov1["blocks_seen"] - cov["blocks_seen"]
    /\ cov1["user_turns_ambiguous"] - cov["user_turns_ambiguous"]
         <= cov1["content_unknown"] - cov["content_unknown"]
    /\ cov1["records_parsed"] = cov["records_parsed"]
    /\ cov1["records_malformed"] = cov["records_malformed"]
    /\ cov1["records_unsupported"] = cov["records_unsupported"]

\* Count adds one to each of the keys.
LEMMA CountIs ==
    ASSUME NEW cov \in [Corp!CoverageKeys -> Int], NEW keys
    PROVE  LET c == Corp!Count(cov, keys)
           IN  /\ c \in [Corp!CoverageKeys -> Int]
               /\ \A k \in {"records_parsed", "records_malformed", "records_unsupported",
                            "user_turns_ambiguous", "blocks_seen", "blocks_unsupported",
                            "content_references", "content_unknown"} :
                    c[k] = IF k \in keys THEN cov[k] + 1 ELSE cov[k]
BY DEF Corp!Count, Corp!CoverageKeys

\* How the coverage grows with what is taken.
LEMMA CoverageGrows ==
    ASSUME NEW cov \in [Corp!CoverageKeys -> Int]
    PROVE  /\ Grows(cov, cov, 0, 0, 0)
           /\ Grows(cov, Corp!Count(cov, {}), 0, 0, 0)
           /\ Grows(cov, Corp!Count(cov, {"blocks_seen", "content_unknown"}), 0, 1, 1)
           /\ Grows(cov, Corp!Count(cov, {"blocks_seen", "content_unknown"}), 0, 0, 0)
           /\ Grows(cov, Corp!Count(cov, {"blocks_seen", "content_references"}), 1, 1, 0)
           /\ Grows(cov, Corp!Count(cov, {"blocks_seen", "blocks_unsupported"}), 0, 0, 0)
<1>. DEFINE Names == {"records_parsed", "records_malformed", "records_unsupported",
                      "user_turns_ambiguous", "blocks_seen", "blocks_unsupported",
                      "content_references", "content_unknown"}
<1>1. \A k \in Names : cov[k] \in Int
  BY DEF Corp!CoverageKeys
<1>2. Grows(cov, cov, 0, 0, 0)
  BY <1>1 DEF Grows
<1>3. Grows(cov, Corp!Count(cov, {}), 0, 0, 0)
  <2>. DEFINE c == Corp!Count(cov, {})
  <2>1. c \in [Corp!CoverageKeys -> Int] /\ \A k \in Names : c[k] = cov[k]
    BY CountIs
  <2>. HIDE DEF c
  <2>2. Grows(cov, c, 0, 0, 0)
    BY <1>1, <2>1 DEF Grows
  <2>. QED BY <2>2 DEF c
<1>4. /\ Grows(cov, Corp!Count(cov, {"blocks_seen", "content_unknown"}), 0, 1, 1)
      /\ Grows(cov, Corp!Count(cov, {"blocks_seen", "content_unknown"}), 0, 0, 0)
  <2>. DEFINE c == Corp!Count(cov, {"blocks_seen", "content_unknown"})
  <2>1. /\ c \in [Corp!CoverageKeys -> Int]
        /\ c["blocks_seen"] = cov["blocks_seen"] + 1
        /\ c["content_unknown"] = cov["content_unknown"] + 1
        /\ \A k \in Names \ {"blocks_seen", "content_unknown"} : c[k] = cov[k]
    BY CountIs
  <2>. HIDE DEF c
  <2>2. Grows(cov, c, 0, 1, 1) /\ Grows(cov, c, 0, 0, 0)
    BY <1>1, <2>1 DEF Grows
  <2>. QED BY <2>2 DEF c
<1>5. Grows(cov, Corp!Count(cov, {"blocks_seen", "content_references"}), 1, 1, 0)
  <2>. DEFINE c == Corp!Count(cov, {"blocks_seen", "content_references"})
  <2>1. /\ c \in [Corp!CoverageKeys -> Int]
        /\ c["blocks_seen"] = cov["blocks_seen"] + 1
        /\ c["content_references"] = cov["content_references"] + 1
        /\ \A k \in Names \ {"blocks_seen", "content_references"} : c[k] = cov[k]
    BY CountIs
  <2>. HIDE DEF c
  <2>2. Grows(cov, c, 1, 1, 0)
    BY <1>1, <2>1 DEF Grows
  <2>. QED BY <2>2 DEF c
<1>6. Grows(cov, Corp!Count(cov, {"blocks_seen", "blocks_unsupported"}), 0, 0, 0)
  <2>. DEFINE c == Corp!Count(cov, {"blocks_seen", "blocks_unsupported"})
  <2>1. /\ c \in [Corp!CoverageKeys -> Int]
        /\ c["blocks_seen"] = cov["blocks_seen"] + 1
        /\ c["blocks_unsupported"] = cov["blocks_unsupported"] + 1
        /\ \A k \in Names \ {"blocks_seen", "blocks_unsupported"} : c[k] = cov[k]
    BY CountIs
  <2>. HIDE DEF c
  <2>2. Grows(cov, c, 0, 0, 0)
    BY <1>1, <2>1 DEF Grows
  <2>. QED BY <2>2 DEF c
<1>. QED BY <1>2, <1>3, <1>4, <1>5, <1>6

\* The Claude adapter first counts the block, then what it comes to.
LEMMA BlockGrows ==
    ASSUME NEW cov \in [Corp!CoverageKeys -> Int], NEW n \in Int
    PROVE  LET seen == Corp!Count(cov, {"blocks_seen"})
           IN  /\ seen \in [Corp!CoverageKeys -> Int]
               /\ Grows(cov, Corp!Count(seen, {"content_unknown"}), 0, 1, 1)
               /\ Grows(cov, Corp!Count(seen, {"content_references"}), 1, 1, 0)
               /\ Grows(cov, Corp!Count(seen, {"blocks_unsupported"}), 0, 0, 0)
               /\ Grows(cov, Corp!Count(seen, {"user_turns_ambiguous",
                                               "content_unknown"}), 0, 0, 0)
               /\ Grows(cov, Corp!CountMany(seen, "content_references", n), n, 1, 0)
<1>. DEFINE Names == {"records_parsed", "records_malformed", "records_unsupported",
                      "user_turns_ambiguous", "blocks_seen", "blocks_unsupported",
                      "content_references", "content_unknown"}
            seen == Corp!Count(cov, {"blocks_seen"})
<1>1. \A k \in Names : cov[k] \in Int
  BY DEF Corp!CoverageKeys
<1>2. /\ seen \in [Corp!CoverageKeys -> Int]
      /\ seen["blocks_seen"] = cov["blocks_seen"] + 1
      /\ \A k \in Names \ {"blocks_seen"} : seen[k] = cov[k]
  BY CountIs
<1>. HIDE DEF seen
<1>3. Grows(cov, Corp!Count(seen, {"content_unknown"}), 0, 1, 1)
  <2>. DEFINE c == Corp!Count(seen, {"content_unknown"})
  <2>1. /\ c \in [Corp!CoverageKeys -> Int]
        /\ c["content_unknown"] = seen["content_unknown"] + 1
        /\ \A k \in Names \ {"content_unknown"} : c[k] = seen[k]
    BY <1>2, CountIs
  <2>. HIDE DEF c
  <2>2. Grows(cov, c, 0, 1, 1)
    BY <1>1, <1>2, <2>1 DEF Grows
  <2>. QED BY <2>2 DEF c
<1>4. Grows(cov, Corp!Count(seen, {"content_references"}), 1, 1, 0)
  <2>. DEFINE c == Corp!Count(seen, {"content_references"})
  <2>1. /\ c \in [Corp!CoverageKeys -> Int]
        /\ c["content_references"] = seen["content_references"] + 1
        /\ \A k \in Names \ {"content_references"} : c[k] = seen[k]
    BY <1>2, CountIs
  <2>. HIDE DEF c
  <2>2. Grows(cov, c, 1, 1, 0)
    BY <1>1, <1>2, <2>1 DEF Grows
  <2>. QED BY <2>2 DEF c
<1>5. Grows(cov, Corp!Count(seen, {"blocks_unsupported"}), 0, 0, 0)
  <2>. DEFINE c == Corp!Count(seen, {"blocks_unsupported"})
  <2>1. /\ c \in [Corp!CoverageKeys -> Int]
        /\ c["blocks_unsupported"] = seen["blocks_unsupported"] + 1
        /\ \A k \in Names \ {"blocks_unsupported"} : c[k] = seen[k]
    BY <1>2, CountIs
  <2>. HIDE DEF c
  <2>2. Grows(cov, c, 0, 0, 0)
    BY <1>1, <1>2, <2>1 DEF Grows
  <2>. QED BY <2>2 DEF c
<1>6. Grows(cov, Corp!Count(seen, {"user_turns_ambiguous", "content_unknown"}), 0, 0, 0)
  <2>. DEFINE c == Corp!Count(seen, {"user_turns_ambiguous", "content_unknown"})
  <2>1. /\ c \in [Corp!CoverageKeys -> Int]
        /\ c["user_turns_ambiguous"] = seen["user_turns_ambiguous"] + 1
        /\ c["content_unknown"] = seen["content_unknown"] + 1
        /\ \A k \in Names \ {"user_turns_ambiguous", "content_unknown"} : c[k] = seen[k]
    BY <1>2, CountIs
  <2>. HIDE DEF c
  <2>2. Grows(cov, c, 0, 0, 0)
    BY <1>1, <1>2, <2>1 DEF Grows
  <2>. QED BY <2>2 DEF c
<1>7. Grows(cov, Corp!CountMany(seen, "content_references", n), n, 1, 0)
  <2>. DEFINE c == Corp!CountMany(seen, "content_references", n)
  <2>1. /\ c \in [Corp!CoverageKeys -> Int]
        /\ c["content_references"] = seen["content_references"] + n
        /\ \A k \in Names \ {"content_references"} : c[k] = seen[k]
    BY <1>2 DEF Corp!CountMany, Corp!CoverageKeys
  <2>. HIDE DEF c
  <2>2. Grows(cov, c, n, 1, 0)
    BY <1>1, <1>2, <2>1 DEF Grows
  <2>. QED BY <2>2 DEF c
<1>. QED BY <1>2, <1>3, <1>4, <1>5, <1>6, <1>7 DEF seen

\* What the partials qs count for.
Weighs(qs, n, p, u) ==
    /\ Corp!References(qs) = n
    /\ Corp!PrimaryEvents(qs) = p
    /\ Corp!UnknownContent(qs) = u

\* What one partial adds to the counts that the validator compares.
LEMMA OneWeighs ==
    ASSUME NEW x
    PROVE  Weighs(<<x>>, IF x.pointer # None THEN 1 ELSE 0,
                  IF x.kind \in {"turn", "pasted-span", "tool-call", "tool-result"}
                    THEN 1 ELSE 0,
                  IF \/ x.kind \in {"pasted-span", "tool-result"}
                     \/ x.kind = "turn" /\ x.pointer = None
                    THEN 1 ELSE 0)
<1>1. DOMAIN <<x>> = {1} /\ <<x>>[1] = x
  OBVIOUS
<1>2. Cardinality({1}) = 1 /\ Cardinality({}) = 0
  BY FS_Singleton, FS_EmptySet
<1>3. {n \in DOMAIN <<x>> : <<x>>[n].pointer # None}
        = IF x.pointer # None THEN {1} ELSE {}
  BY <1>1
<1>4. {n \in DOMAIN <<x>> : <<x>>[n].kind \in {"turn", "pasted-span", "tool-call",
                                               "tool-result"}}
        = IF x.kind \in {"turn", "pasted-span", "tool-call", "tool-result"}
            THEN {1} ELSE {}
  BY <1>1
<1>5. {n \in DOMAIN <<x>> : \/ <<x>>[n].kind \in {"pasted-span", "tool-result"}
                            \/ <<x>>[n].kind = "turn" /\ <<x>>[n].pointer = None}
        = IF \/ x.kind \in {"pasted-span", "tool-result"}
             \/ x.kind = "turn" /\ x.pointer = None
            THEN {1} ELSE {}
  BY <1>1
<1>6. Corp!References(<<x>>) = IF x.pointer # None THEN 1 ELSE 0
  BY <1>2, <1>3, CorpusCardinality DEF Corp!References
<1>7. Corp!PrimaryEvents(<<x>>)
        = IF x.kind \in {"turn", "pasted-span", "tool-call", "tool-result"} THEN 1 ELSE 0
  BY <1>2, <1>4, CorpusCardinality DEF Corp!PrimaryEvents
<1>8. Corp!UnknownContent(<<x>>)
        = IF \/ x.kind \in {"pasted-span", "tool-result"}
             \/ x.kind = "turn" /\ x.pointer = None
            THEN 1 ELSE 0
  BY <1>2, <1>5, CorpusCardinality DEF Corp!UnknownContent
<1>. QED BY <1>6, <1>7, <1>8 DEF Weighs

\* Events that stand for no block count for nothing.
LEMMA LightWeighs ==
    ASSUME NEW qs,
           \A n \in DOMAIN qs :
              /\ qs[n].pointer = None
              /\ qs[n].kind \notin {"turn", "pasted-span", "tool-call", "tool-result"}
    PROVE  Weighs(qs, 0, 0, 0)
<1>1. /\ {n \in DOMAIN qs : qs[n].pointer # None} = {}
      /\ {n \in DOMAIN qs : qs[n].kind \in {"turn", "pasted-span", "tool-call",
                                            "tool-result"}} = {}
      /\ {n \in DOMAIN qs : \/ qs[n].kind \in {"pasted-span", "tool-result"}
                            \/ qs[n].kind = "turn" /\ qs[n].pointer = None} = {}
  OBVIOUS
<1>. QED BY <1>1, FS_EmptySet, CorpusCardinality DEF Weighs, Corp!References,
            Corp!PrimaryEvents, Corp!UnknownContent

\* More partials, counted by the coverage.
LEMMA Advanced ==
    ASSUME NEW events, Serial(events), NEW cov, NEW cov1, NEW r, NEW ps, NEW qs, NEW V,
           NEW n \in Int, NEW p \in Int, NEW u \in Int,
           Underway(events, cov, r, ps, V), Undated(ps),
           Follows(events, r, ps, qs, V), Weighs(qs, n, p, u), Grows(cov, cov1, n, p, u)
    PROVE  Underway(events, cov1, r, ps \o qs, V) /\ Undated(ps \o qs)
<1>1. PartialsGood(events, r, ps \o qs, V) /\ Undated(ps \o qs)
  BY PartialsAdded DEF Underway
<1>2. Serial(ps) /\ Serial(qs)
  BY DEF Underway, PartialsGood, Follows
<1>3. /\ Corp!References(ps) \in Nat /\ Corp!References(events) \in Nat
      /\ Corp!PrimaryEvents(ps) \in Nat /\ Corp!PrimaryEvents(events) \in Nat
      /\ Corp!UnknownContent(ps) \in Nat /\ Corp!UnknownContent(events) \in Nat
  BY <1>2, Tallied
<1>4. /\ Corp!References(ps \o qs) = Corp!References(ps) + n
      /\ Corp!PrimaryEvents(ps \o qs) = Corp!PrimaryEvents(ps) + p
      /\ Corp!UnknownContent(ps \o qs) = Corp!UnknownContent(ps) + u
  BY <1>2, Tallied DEF Weighs
<1>5. \A k \in {"user_turns_ambiguous", "blocks_seen", "blocks_unsupported",
                "content_references", "content_unknown"} :
          cov[k] \in Int /\ cov1[k] \in Int
  BY DEF Underway, Balanced, Grows, Corp!CoverageKeys
<1>6. Balanced(cov1, Corp!References(events) + Corp!References(ps \o qs),
               Corp!PrimaryEvents(events) + Corp!PrimaryEvents(ps \o qs),
               Corp!UnknownContent(events) + Corp!UnknownContent(ps \o qs))
  BY <1>3, <1>4, <1>5 DEF Underway, Balanced, Grows
<1>7. Parses(cov1, r - 1, events)
  BY DEF Parses, Underway, Grows
<1>. QED BY <1>1, <1>6, <1>7 DEF Underway

\* The coverage alone changes.
LEMMA Stayed ==
    ASSUME NEW events, Serial(events), NEW cov, NEW cov1, NEW r, NEW ps, NEW V,
           Underway(events, cov, r, ps, V), Grows(cov, cov1, 0, 0, 0)
    PROVE  Underway(events, cov1, r, ps, V)
<1>2. Serial(ps)
  BY DEF Underway, PartialsGood
<1>3. /\ Corp!References(ps) \in Nat /\ Corp!References(events) \in Nat
      /\ Corp!PrimaryEvents(ps) \in Nat /\ Corp!PrimaryEvents(events) \in Nat
      /\ Corp!UnknownContent(ps) \in Nat /\ Corp!UnknownContent(events) \in Nat
  BY <1>2, Tallied
<1>5. \A k \in {"user_turns_ambiguous", "blocks_seen", "blocks_unsupported",
                "content_references", "content_unknown"} :
          cov[k] \in Int /\ cov1[k] \in Int
  BY DEF Underway, Balanced, Grows, Corp!CoverageKeys
<1>6. Balanced(cov1, Corp!References(events) + Corp!References(ps),
               Corp!PrimaryEvents(events) + Corp!PrimaryEvents(ps),
               Corp!UnknownContent(events) + Corp!UnknownContent(ps))
  BY <1>3, <1>5 DEF Underway, Balanced, Grows
<1>7. Parses(cov1, r - 1, events)
  BY DEF Parses, Underway, Grows
<1>. QED BY <1>6, <1>7 DEF Underway

\* A record is about to be taken.
LEMMA RecordStarts ==
    ASSUME NEW events, NEW cov, NEW positions, NEW k \in Nat, NEW gen, NEW V,
           NEW r \in Nat, r = k + 1,
           CorpusInv(events, cov, positions, k, gen, V)
    PROVE  /\ Serial(events)
           /\ Underway(events, cov, r, <<>>, V)
           /\ Undated(<<>>)
           /\ PartialsDated(<<>>, gen, gen)
           /\ Located(events, r, <<>>, positions)
<1>1. Serial(events) /\ Serial(<<>>) /\ DOMAIN <<>> = {}
  BY Alone DEF CorpusInv, Shaped
<1>2. Weighs(<<>>, 0, 0, 0)
  BY <1>1, LightWeighs
<1>3. /\ Corp!References(events) \in Nat /\ Corp!PrimaryEvents(events) \in Nat
      /\ Corp!UnknownContent(events) \in Nat
  BY <1>1, Tallied
<1>4. PartialsGood(events, r, <<>>, V)
  BY <1>1 DEF PartialsGood
<1>5. r - 1 = k
  OBVIOUS
<1>6. Underway(events, cov, r, <<>>, V)
  <2>1. /\ Corp!References(events) + Corp!References(<<>>) = Corp!References(events)
        /\ Corp!PrimaryEvents(events) + Corp!PrimaryEvents(<<>>)
             = Corp!PrimaryEvents(events)
        /\ Corp!UnknownContent(events) + Corp!UnknownContent(<<>>)
             = Corp!UnknownContent(events)
    BY <1>2, <1>3 DEF Weighs
  <2>. QED BY <1>4, <1>5, <2>1 DEF Underway, CorpusInv
<1>7. Undated(<<>>) /\ PartialsDated(<<>>, gen, gen)
  BY <1>1 DEF Undated, PartialsDated, CorpusInv, Dated
<1>8. Located(events, r, <<>>, positions)
  BY <1>1, Alone DEF Located, CorpusInv, Called
<1>. QED BY <1>1, <1>6, <1>7, <1>8

\* A known position stays one as partials are added.
LEMMA CalledStays ==
    ASSUME NEW events, NEW r, NEW ps, NEW qs, Serial(ps), Serial(qs), NEW at,
           Called(events, r, ps, Len(ps), at)
    PROVE  Called(events, r, ps \o qs, Len(ps \o qs), at)
<1>1. /\ Len(ps) \in Nat /\ Len(qs) \in Nat
      /\ Len(ps \o qs) = Len(ps) + Len(qs)
      /\ \A i \in 1 .. Len(ps) : (ps \o qs)[i] = ps[i]
  BY SerialIs, After
<1>2. \A i \in 1 .. Len(ps) : i \in 1 .. Len(ps \o qs)
  BY <1>1
<1>. QED BY <1>1, <1>2 DEF Called

\* Calls that were located stay where they are when partials are added.
LEMMA LocatedStays ==
    ASSUME NEW events, NEW r, NEW ps, NEW qs, Serial(ps), Serial(qs), NEW positions,
           Located(events, r, ps, positions)
    PROVE  Located(events, r, ps \o qs, positions)
BY CalledStays DEF Located

\* A call that is added becomes the position of its id.
LEMMA LocatedCall ==
    ASSUME NEW events, NEW r, NEW ps, NEW qs, Serial(ps), Serial(qs), NEW positions,
           Located(events, r, ps, positions),
           1 \in DOMAIN qs, qs[1].kind = "tool-call", NEW id,
           NEW at, at = <<r, Len(ps) + 1>>
    PROVE  Located(events, r, ps \o qs, [positions EXCEPT ![id] = at])
<1>. DEFINE c == ps \o qs
            f == [positions EXCEPT ![id] = at]
<1>1. /\ Len(ps) \in Nat /\ Len(qs) \in Nat /\ DOMAIN qs = 1 .. Len(qs)
      /\ Len(c) = Len(ps) + Len(qs)
      /\ \A i \in 1 .. Len(qs) : c[Len(ps) + i] = qs[i]
  BY SerialIs, After
<1>2. Called(events, r, c, Len(c), at)
  <2>1. 1 \in 1 .. Len(qs) /\ Len(ps) + 1 \in 1 .. Len(c)
    BY <1>1
  <2>2. c[Len(ps) + 1].kind = "tool-call"
    BY <1>1, <2>1
  <2>. QED BY <2>1, <2>2 DEF Called
<1>3. Located(events, r, c, positions)
  BY LocatedStays
<1>. HIDE DEF c
<1>4. DOMAIN f = DOMAIN positions
      /\ \A x \in DOMAIN f : f[x] = IF x = id THEN at ELSE positions[x]
  OBVIOUS
<1>5. Located(events, r, c, f)
  <2>. HIDE DEF f
  <2>. QED BY <1>2, <1>3, <1>4 DEF Located
<1>. QED BY <1>5 DEF c

\* Places are pairs of numbers, so None is not one.
LEMMA CalledPlace ==
    ASSUME NEW events, NEW k \in Nat, NEW V, Shaped(events, k, V), NEW r \in Nat,
           NEW ps, Serial(ps), NEW at, Called(events, r, ps, Len(ps), at)
    PROVE  at \in Place /\ at # None
<1>1. ASSUME NEW i \in DOMAIN events, events[i].at = at PROVE at \in Place
  <2>0. EventOk(events[i], k, V)
    BY DEF Shaped
  <2>1. at = <<at[1], at[2]>> /\ at[1] \in 1 .. k /\ at[2] \in Nat
    BY <1>1, <2>0 DEF EventOk
  <2>. QED BY <2>1 DEF Place
<1>2. ASSUME NEW n \in 1 .. Len(ps), at = <<r, n>> PROVE at \in Place
  BY <1>2, SerialIs DEF Place
<1>3. at \in Place
  BY <1>1, <1>2 DEF Called
<1>. QED BY <1>3, EvidenceAssumption

\* A result is linked to a call that was met, or to none.
LEMMA ResultFollows ==
    ASSUME NEW events, NEW k \in Nat, NEW V, Shaped(events, k, V), NEW r \in Nat,
           NEW ps, Serial(ps), NEW positions, Located(events, r, ps, positions),
           NEW id, NEW counts, NEW status,
           id # None => id \in DOMAIN positions /\ counts[id] \in Int
    PROVE  LET x == [Corp!Partial("tool-result") EXCEPT
                       !.relation = Corp!ToolRelation(id, counts, positions),
                       !.status   = status]
           IN  Follows(events, r, ps, <<x>>, V) /\ Weighs(<<x>>, 0, 1, 1)
<1>. DEFINE rel == Corp!ToolRelation(id, counts, positions)
            x == [Corp!Partial("tool-result") EXCEPT !.relation = rel, !.status = status]
<1>1. \/ rel \in {<<"missing", None>>, <<"ambiguous", None>>, <<"dangling", None>>}
      \/ id # None /\ positions[id] # None /\ rel = <<"linked", positions[id]>>
  <2>1. CASE id = None
    BY <2>1 DEF Corp!ToolRelation
  <2>2. CASE id # None /\ counts[id] > 1
    BY <2>2 DEF Corp!ToolRelation
  <2>3. CASE id # None /\ ~(counts[id] > 1) /\ positions[id] = None
    <3>1. counts[id] <= 1
      BY <2>3
    <3>. QED BY <2>3, <3>1 DEF Corp!ToolRelation
  <2>4. CASE id # None /\ ~(counts[id] > 1) /\ positions[id] # None
    BY <2>4 DEF Corp!ToolRelation, Corp!Linked
  <2>. QED BY <2>1, <2>2, <2>3, <2>4
<1>. HIDE DEF rel
<1>2. x = [kind |-> "tool-result", pointer |-> None, relation |-> rel,
           status |-> status, generation |-> None]
  <2>. DEFINE y == Corp!Partial("tool-result")
  <2>1. y = [kind |-> "tool-result", pointer |-> None, relation |-> None,
             status |-> "unknown", generation |-> None]
    BY DEF Corp!Partial
  <2>. HIDE DEF y
  <2>. DEFINE z == [y EXCEPT !.relation = rel]
  <2>2. z = [kind |-> "tool-result", pointer |-> None, relation |-> rel,
             status |-> "unknown", generation |-> None]
    BY <2>1
  <2>. HIDE DEF z
  <2>3. [z EXCEPT !.status = status]
          = [kind |-> "tool-result", pointer |-> None, relation |-> rel,
             status |-> status, generation |-> None]
    BY <2>2
  <2>4. [y EXCEPT !.relation = rel, !.status = status] = [z EXCEPT !.status = status]
    BY Zenon DEF z
  <2>5. x = [y EXCEPT !.relation = rel, !.status = status]
    BY Zenon DEF y
  <2>. QED BY <2>3, <2>4, <2>5
<1>. HIDE DEF x
<1>3. /\ x.kind = "tool-result" /\ x.pointer = None /\ x.relation = rel
      /\ x.generation = None
  BY <1>2
<1>4. /\ rel # None
      /\ rel[1] = "linked" => Called(events, r, ps, Len(ps), rel[2])
  <2>1. CASE rel \in {<<"missing", None>>, <<"ambiguous", None>>, <<"dangling", None>>}
    <3>1. rel # None
      BY <2>1, EvidenceAssumption
    <3>2. rel[1] # "linked"
      BY <2>1
    <3>. QED BY <3>1, <3>2
  <2>2. CASE id # None /\ positions[id] # None /\ rel = <<"linked", positions[id]>>
    <3>1. Called(events, r, ps, Len(ps), positions[id])
      BY <2>2 DEF Located
    <3>2. positions[id] \in Place
      BY <3>1, CalledPlace
    <3>3. rel \in {"linked"} \X Place
      BY <2>2, <3>2
    <3>4. rel # None
      BY <3>3, EvidenceAssumption
    <3>. QED BY <2>2, <3>1, <3>4
  <2>. QED BY <1>1, <2>1, <2>2
<1>5. PartialOk(x, r, V)
  BY <1>3, <1>4 DEF PartialOk
<1>6. Serial(<<x>>) /\ DOMAIN <<x>> = {1} /\ <<x>>[1] = x
  BY Alone
<1>7. Follows(events, r, ps, <<x>>, V)
  BY <1>3, <1>4, <1>5, <1>6 DEF Follows, Undated
<1>8. Weighs(<<x>>, 0, 1, 1)
  BY <1>3, OneWeighs
<1>. QED BY <1>7, <1>8 DEF x, rel

\* The events of one call: the call, and what its input is evidence of.
CallSeq(s, pointer, at) ==
    /\ Serial(s)
    /\ 1 \in DOMAIN s /\ s[1].kind = "tool-call" /\ s[1].relation = None
    /\ \A n \in DOMAIN s : s[n].generation = None /\ s[n].pointer = pointer
    /\ \A n \in DOMAIN s :
          n > 1 => /\ pointer # None
                   /\ \/ s[n].kind \in {"reference", "test"} /\ s[n].relation = None
                      \/ /\ n = 2
                         /\ s[n].kind = "forge-action"
                         /\ s[n].relation = <<"linked", at>>

\* What may come after s in it.
CallMore(s, t, pointer, at) ==
    /\ Serial(t)
    /\ \A n \in DOMAIN t :
          /\ t[n].generation = None /\ t[n].pointer = pointer /\ pointer # None
          /\ \/ t[n].kind \in {"reference", "test"} /\ t[n].relation = None
             \/ /\ Len(s) + n = 2
                /\ t[n].kind = "forge-action"
                /\ t[n].relation = <<"linked", at>>

\* What a call leads to stays a call's sequence when more of it is added.
LEMMA CallGrows ==
    ASSUME NEW s, NEW t, NEW pointer, NEW at,
           CallSeq(s, pointer, at), CallMore(s, t, pointer, at)
    PROVE  CallSeq(s \o t, pointer, at)
<1>. DEFINE c == s \o t
            m == Len(s)
<1>1. /\ Serial(s) /\ Serial(t)
      /\ m \in Nat /\ DOMAIN s = 1 .. m
      /\ Len(t) \in Nat /\ DOMAIN t = 1 .. Len(t)
  BY SerialIs DEF CallSeq, CallMore
<1>2. /\ Serial(c) /\ DOMAIN c = 1 .. m + Len(t)
      /\ \A i \in 1 .. m : c[i] = s[i]
      /\ \A i \in 1 .. Len(t) : c[m + i] = t[i]
  BY <1>1, After
<1>. HIDE DEF c, m
<1>3. 1 \in 1 .. m /\ 1 \in 1 .. m + Len(t) /\ c[1] = s[1]
  BY <1>1, <1>2 DEF CallSeq
<1>4. ASSUME NEW n \in DOMAIN c
      PROVE  /\ c[n].generation = None /\ c[n].pointer = pointer
             /\ n > 1 =>
                  /\ pointer # None
                  /\ \/ c[n].kind \in {"reference", "test"} /\ c[n].relation = None
                     \/ /\ n = 2
                        /\ c[n].kind = "forge-action"
                        /\ c[n].relation = <<"linked", at>>
  <2>1. n \in 1 .. m + Len(t)
    BY <1>2
  <2>2. CASE n <= m
    <3>1. c[n] = s[n] /\ n \in DOMAIN s
      BY <1>1, <1>2, <2>1, <2>2
    <3>. QED BY <3>1 DEF CallSeq
  <2>3. CASE n > m
    <3>1. PICK j \in Int : j = n - m
      BY <1>1, <2>1
    <3>2. j \in 1 .. Len(t) /\ n = m + j
      BY <1>1, <2>1, <2>3, <3>1
    <3>3. c[n] = t[j] /\ j \in DOMAIN t
      BY <1>1, <1>2, <3>2
    <3>. QED BY <3>2, <3>3 DEF CallMore, m
  <2>. QED BY <1>1, <2>1, <2>2, <2>3
<1>5. CallSeq(c, pointer, at)
  BY <1>2, <1>3, <1>4 DEF CallSeq
<1>. QED BY <1>5 DEF c

\* The fields of a partial that points to something.
LEMMA PointingIs ==
    ASSUME NEW kind, NEW pointer
    PROVE  LET x == Corp!Pointing(kind, pointer)
           IN  /\ x = [kind |-> kind, pointer |-> pointer, relation |-> None,
                       status |-> "unknown", generation |-> None]
               /\ x.kind = kind /\ x.pointer = pointer /\ x.relation = None
               /\ x.generation = None
BY DEF Corp!Pointing, Corp!Partial

\* A call is a tool-call, then its forge action, a reference or a test if it is one.
LEMMA CallPartialsIs ==
    ASSUME NEW call, NEW pointer, NEW at
    PROVE  CallSeq(Corp!CallPartials(call, pointer, at), pointer, at)
<1>. DEFINE derived(name) == name \in call.derives /\ pointer # None
            x == Corp!Pointing("tool-call", pointer)
            f == [Corp!Pointing("forge-action", pointer) EXCEPT !.relation = Corp!Linked(at)]
            g == Corp!Pointing("reference", pointer)
            h == Corp!Pointing("test", pointer)
            F == IF derived("forge") THEN <<f>> ELSE <<>>
            G == IF derived("reference") THEN <<g>> ELSE <<>>
            H == IF derived("test") THEN <<h>> ELSE <<>>
<1>1. /\ x.kind = "tool-call" /\ x.pointer = pointer /\ x.relation = None
      /\ x.generation = None
      /\ g.kind = "reference" /\ g.pointer = pointer /\ g.relation = None
      /\ g.generation = None
      /\ h.kind = "test" /\ h.pointer = pointer /\ h.relation = None
      /\ h.generation = None
  BY PointingIs
<1>2. /\ f.kind = "forge-action" /\ f.pointer = pointer
      /\ f.relation = <<"linked", at>> /\ f.generation = None
  BY PointingIs DEF Corp!Linked
<1>3. Corp!CallPartials(call, pointer, at) = ((<<x>> \o F) \o G) \o H
  BY Zenon DEF Corp!CallPartials
<1>. HIDE DEF x, f, g, h
<1>4. CallSeq(<<x>>, pointer, at) /\ Len(<<x>>) = 1
  <2>1. Serial(<<x>>) /\ DOMAIN <<x>> = {1} /\ <<x>>[1] = x /\ Len(<<x>>) = 1
    BY Alone
  <2>. HIDE DEF x
  <2>2. \A n \in {1} : ~(n > 1)
    OBVIOUS
  <2>. QED BY <1>1, <2>1, <2>2 DEF CallSeq
<1>5. CallMore(<<x>>, F, pointer, at)
  <2>1. CASE derived("forge")
    <3>1. Serial(<<f>>) /\ DOMAIN <<f>> = {1} /\ <<f>>[1] = f
      BY Alone
    <3>2. Len(<<x>>) + 1 = 2
      BY <1>4
    <3>3. CallMore(<<x>>, <<f>>, pointer, at)
      BY <1>2, <2>1, <3>1, <3>2 DEF CallMore
    <3>. QED BY <2>1, <3>3
  <2>2. CASE ~derived("forge")
    BY <2>2, Alone DEF CallMore
  <2>. QED BY <2>1, <2>2
<1>6. ASSUME NEW s PROVE CallMore(s, G, pointer, at)
  <2>1. CASE derived("reference")
    <3>1. Serial(<<g>>) /\ DOMAIN <<g>> = {1} /\ <<g>>[1] = g
      BY Alone
    <3>3. CallMore(s, <<g>>, pointer, at)
      BY <1>1, <2>1, <3>1 DEF CallMore
    <3>. QED BY <2>1, <3>3
  <2>2. CASE ~derived("reference")
    BY <2>2, Alone DEF CallMore
  <2>. QED BY <2>1, <2>2
<1>7. ASSUME NEW s PROVE CallMore(s, H, pointer, at)
  <2>1. CASE derived("test")
    <3>1. Serial(<<h>>) /\ DOMAIN <<h>> = {1} /\ <<h>>[1] = h
      BY Alone
    <3>3. CallMore(s, <<h>>, pointer, at)
      BY <1>1, <2>1, <3>1 DEF CallMore
    <3>. QED BY <2>1, <3>3
  <2>2. CASE ~derived("test")
    BY <2>2, Alone DEF CallMore
  <2>. QED BY <2>1, <2>2
<1>. HIDE DEF F, G, H
<1>8. CallSeq(<<x>> \o F, pointer, at)
  BY <1>4, <1>5, CallGrows
<1>9. CallSeq((<<x>> \o F) \o G, pointer, at)
  BY <1>6, <1>8, CallGrows
<1>10. CallSeq(((<<x>> \o F) \o G) \o H, pointer, at)
  BY <1>7, <1>9, CallGrows
<1>. QED BY <1>3, <1>10

\* A call may follow whatever partials a record has so far.
LEMMA CallFollows ==
    ASSUME NEW events, NEW r \in Nat, NEW ps, Serial(ps), NEW V, NEW pointer, NEW at, NEW qs,
           at = <<r, Len(ps) + 1>>, CallSeq(qs, pointer, at),
           pointer # None =>
             /\ pointer[1] = r
             /\ \A k \in {"tool-call", "reference", "test", "forge-action"} :
                   <<k, pointer>> \in V
    PROVE  /\ Follows(events, r, ps, qs, V)
           /\ Corp!References(qs) \in Nat
           /\ Weighs(qs, Corp!References(qs), 1, 0)
<1>0. Len(ps) \in Nat
  BY SerialIs
<1>1. at \in Place /\ <<"linked", at>> # None
  <2>1. Len(ps) + 1 \in Nat
    BY <1>0
  <2>2. at \in Place
    BY <2>1 DEF Place
  <2>3. <<"linked", at>> \in {"linked"} \X Place
    BY <2>2
  <2>. QED BY <2>2, <2>3, EvidenceAssumption
<1>2. Serial(qs) /\ Undated(qs)
  BY DEF CallSeq, Undated
<1>3. ASSUME NEW n \in DOMAIN qs
      PROVE  \/ n = 1 /\ qs[n].kind = "tool-call" /\ qs[n].relation = None
             \/ /\ n > 1 /\ pointer # None
                /\ \/ qs[n].kind \in {"reference", "test"} /\ qs[n].relation = None
                   \/ /\ n = 2
                      /\ qs[n].kind = "forge-action"
                      /\ qs[n].relation = <<"linked", at>>
  <2>1. n \in Nat /\ n >= 1
    BY <1>2, SerialIs
  <2>. QED BY <2>1 DEF CallSeq
<1>4. ASSUME NEW n \in DOMAIN qs PROVE PartialOk(qs[n], r, V)
  <2>1. qs[n].pointer = pointer /\ qs[n].generation = None
    BY DEF CallSeq
  <2>. QED BY <1>1, <1>3, <2>1 DEF PartialOk
<1>5. \A n \in DOMAIN qs : qs[n].kind # "tool-result"
  BY <1>3
<1>6. ASSUME NEW n \in DOMAIN qs, qs[n].kind = "forge-action"
      PROVE  /\ n > 1
             /\ qs[n].relation = <<"linked", <<r, Len(ps) + (n - 1)>>>>
             /\ qs[n - 1].kind = "tool-call"
             /\ qs[n - 1].pointer = qs[n].pointer
  <2>1. n = 2 /\ qs[n].relation = <<"linked", at>>
    BY <1>3, <1>6
  <2>2. n - 1 = 1 /\ n > 1
    BY <2>1
  <2>3. qs[1].kind = "tool-call" /\ qs[1].pointer = pointer /\ qs[n].pointer = pointer
    BY DEF CallSeq
  <2>. QED BY <2>1, <2>2, <2>3
<1>7. Follows(events, r, ps, qs, V)
  BY <1>2, <1>4, <1>5, <1>6 DEF Follows
<1>8. Corp!References(qs) \in Nat
  BY <1>2, Tallied
<1>9. {n \in DOMAIN qs : qs[n].kind \in {"turn", "pasted-span", "tool-call",
                                        "tool-result"}} = {1}
  BY <1>3 DEF CallSeq
<1>10. {n \in DOMAIN qs : \/ qs[n].kind \in {"pasted-span", "tool-result"}
                          \/ qs[n].kind = "turn" /\ qs[n].pointer = None} = {}
  BY <1>3
<1>11. Corp!PrimaryEvents(qs) = 1
  BY <1>9, FS_Singleton, CorpusCardinality DEF Corp!PrimaryEvents
<1>12. Corp!UnknownContent(qs) = 0
  BY <1>10, FS_EmptySet, CorpusCardinality DEF Corp!UnknownContent
<1>. QED BY <1>7, <1>8, <1>11, <1>12 DEF Weighs

\* The fields of a partial that points to nothing.
LEMMA PartialIs ==
    ASSUME NEW kind
    PROVE  LET x == Corp!Partial(kind)
           IN  /\ x.kind = kind /\ x.pointer = None /\ x.relation = None
               /\ x.generation = None
BY DEF Corp!Partial

\* An event whose content is unknown.
LEMMA UnknownFollows ==
    ASSUME NEW events, NEW r, NEW ps, NEW V, NEW kind \in {"turn", "pasted-span"}
    PROVE  LET qs == <<Corp!Partial(kind)>>
           IN  Follows(events, r, ps, qs, V) /\ Weighs(qs, 0, 1, 1)
<1>. DEFINE x == Corp!Partial(kind)
<1>1. x.kind = kind /\ x.pointer = None /\ x.relation = None /\ x.generation = None
  BY PartialIs
<1>. HIDE DEF x
<1>2. Serial(<<x>>) /\ DOMAIN <<x>> = {1} /\ <<x>>[1] = x
  BY Alone
<1>3. PartialOk(x, r, V)
  BY <1>1 DEF PartialOk
<1>4. Follows(events, r, ps, <<x>>, V)
  BY <1>1, <1>2, <1>3 DEF Follows, Undated
<1>5. Weighs(<<x>>, 0, 1, 1)
  BY <1>1, OneWeighs
<1>. QED BY <1>4, <1>5 DEF x

\* A turn that points to its text.
LEMMA TurnFollows ==
    ASSUME NEW events, NEW r \in Nat, NEW b \in Nat, NEW ps, NEW V,
           <<"turn", <<r, b>>>> \in V
    PROVE  LET qs == <<Corp!Pointing("turn", <<r, b>>)>>
           IN  Follows(events, r, ps, qs, V) /\ Weighs(qs, 1, 1, 0)
<1>. DEFINE x == Corp!Pointing("turn", <<r, b>>)
<1>1. /\ x.kind = "turn" /\ x.pointer = <<r, b>> /\ x.relation = None
      /\ x.generation = None
  BY PointingIs
<1>. HIDE DEF x
<1>2. Serial(<<x>>) /\ DOMAIN <<x>> = {1} /\ <<x>>[1] = x
  BY Alone
<1>3. x.pointer # None
  <2>1. <<r, b>> \in Place
    BY DEF Place
  <2>. QED BY <1>1, <2>1, EvidenceAssumption
<1>4. PartialOk(x, r, V)
  BY <1>1, <1>3 DEF PartialOk
<1>5. Follows(events, r, ps, <<x>>, V)
  BY <1>1, <1>2, <1>4 DEF Follows, Undated
<1>6. Weighs(<<x>>, 1, 1, 0)
  BY <1>1, <1>3, OneWeighs
<1>. QED BY <1>5, <1>6 DEF x

\* Events that stand for no block.
LEMMA LightFollows ==
    ASSUME NEW events, NEW r, NEW ps, NEW V, NEW qs, Serial(qs),
           \A n \in DOMAIN qs : \E kind :
              /\ qs[n] = Corp!Partial(kind)
              /\ kind \notin {"turn", "pasted-span", "tool-call", "tool-result",
                              "forge-action", "reference"}
    PROVE  Follows(events, r, ps, qs, V) /\ Weighs(qs, 0, 0, 0)
<1>1. ASSUME NEW n \in DOMAIN qs
      PROVE  /\ qs[n].pointer = None /\ qs[n].relation = None
             /\ qs[n].generation = None
             /\ qs[n].kind \notin {"turn", "pasted-span", "tool-call", "tool-result",
                                   "forge-action", "reference"}
  <2>1. PICK kind : /\ qs[n] = Corp!Partial(kind)
                    /\ kind \notin {"turn", "pasted-span", "tool-call", "tool-result",
                                    "forge-action", "reference"}
    OBVIOUS
  <2>2. /\ Corp!Partial(kind).kind = kind /\ Corp!Partial(kind).pointer = None
        /\ Corp!Partial(kind).relation = None /\ Corp!Partial(kind).generation = None
    BY PartialIs
  <2>. QED BY <2>1, <2>2
<1>2. \A n \in DOMAIN qs : PartialOk(qs[n], r, V)
  BY <1>1 DEF PartialOk
<1>3. Follows(events, r, ps, qs, V)
  BY <1>1, <1>2 DEF Follows, Undated
<1>4. Weighs(qs, 0, 0, 0)
  BY <1>1, LightWeighs
<1>. QED BY <1>3, <1>4

\* To append is to concatenate one.
LEMMA Appending ==
    ASSUME NEW s, Serial(s), NEW x
    PROVE  Append(s, x) = s \o <<x>>
<1>. DEFINE S == {s[i] : i \in DOMAIN s} \cup {x}
<1>1. s \in Seq({s[i] : i \in DOMAIN s})
  BY DEF Serial
<1>2. Len(s) \in Nat /\ DOMAIN s = 1 .. Len(s) /\ \A i \in 1 .. Len(s) : s[i] \in S
  BY SerialIs
<1>3. s = [i \in 1 .. Len(s) |-> s[i]]
  BY <1>1
<1>4. s \in Seq(S) /\ x \in S
  <2>. HIDE DEF S
  <2>1. s \in [1 .. Len(s) -> S]
    BY <1>2, <1>3
  <2>2. s \in Seq(S)
    BY <1>2, <2>1, SeqDef
  <2>. QED BY <2>2 DEF S
<1>. HIDE DEF S
<1>. QED BY <1>4, AppendIsConcat

\* The empty sequence adds nothing.
LEMMA Nothing ==
    ASSUME NEW s, Serial(s)
    PROVE  <<>> \o s = s
BY ConcatEmptySeq DEF Serial

\* A compaction, which may have a generation, is alone in its record.
LEMMA BoundaryTaken ==
    ASSUME NEW events, Serial(events), NEW cov, NEW cov1, NEW r, NEW V, NEW x,
           Underway(events, cov, r, <<>>, V), Grows(cov, cov1, 0, 0, 0),
           x.kind = "context-boundary", x.pointer = None, x.relation = None
    PROVE  Underway(events, cov1, r, <<x>>, V)
<1>1. Serial(<<x>>) /\ DOMAIN <<x>> = {1} /\ <<x>>[1] = x
  BY Alone
<1>2. PartialOk(x, r, V)
  BY DEF PartialOk
<1>3. PartialsGood(events, r, <<x>>, V)
  BY <1>1, <1>2 DEF PartialsGood
<1>4. Weighs(<<x>>, 0, 0, 0) /\ Weighs(<<>>, 0, 0, 0)
  <2>1. DOMAIN <<>> = {}
    OBVIOUS
  <2>. QED BY <1>1, <2>1, LightWeighs
<1>5. Underway(events, cov1, r, <<>>, V)
  BY Stayed
<1>6. /\ Corp!References(<<x>>) = Corp!References(<<>>)
      /\ Corp!PrimaryEvents(<<x>>) = Corp!PrimaryEvents(<<>>)
      /\ Corp!UnknownContent(<<x>>) = Corp!UnknownContent(<<>>)
  BY <1>4 DEF Weighs
<1>. QED BY <1>3, <1>5, <1>6 DEF Underway

-----------------------------------------------------------------------------
(* One message of either adapter, block after block: its partials so far,  *)
(* the positions of the calls and the coverage, after which more follow.   *)

Taking(ps, positions, cov, events, r, ids, V) ==
    /\ Underway(events, cov, r, ps, V)
    /\ Undated(ps)
    /\ Located(events, r, ps, positions)
    /\ DOMAIN positions = ids

\* A block whose partials and counts agree may be taken.
LEMMA TakingMore ==
    ASSUME NEW ps, NEW positions, NEW cov, NEW events, Serial(events), NEW r, NEW ids,
           NEW V, Taking(ps, positions, cov, events, r, ids, V), NEW qs,
           NEW n \in Int, NEW p \in Int, NEW u \in Int, NEW cov1,
           Follows(events, r, ps, qs, V), Weighs(qs, n, p, u), Grows(cov, cov1, n, p, u)
    PROVE  Taking(ps \o qs, positions, cov1, events, r, ids, V)
<1>1. Underway(events, cov, r, ps, V) /\ Undated(ps) /\ Located(events, r, ps, positions)
  BY DEF Taking
<1>2. Underway(events, cov1, r, ps \o qs, V) /\ Undated(ps \o qs)
  BY <1>1, Advanced
<1>3. Serial(ps) /\ Serial(qs)
  BY <1>1 DEF Underway, PartialsGood, Follows
<1>4. Located(events, r, ps \o qs, positions)
  BY <1>1, <1>3, LocatedStays
<1>. QED BY <1>2, <1>4 DEF Taking

\* A block that only counts may be taken.
LEMMA TakingStays ==
    ASSUME NEW ps, NEW positions, NEW cov, NEW events, Serial(events), NEW r, NEW ids,
           NEW V, Taking(ps, positions, cov, events, r, ids, V), NEW cov1,
           Grows(cov, cov1, 0, 0, 0)
    PROVE  Taking(ps, positions, cov1, events, r, ids, V)
BY Stayed DEF Taking

\* A call: its events, and its position if that is known by its id.
LEMMA TakingCall ==
    ASSUME NEW ps, NEW positions, NEW cov, NEW events, Serial(events), NEW r \in Nat,
           NEW ids, NEW V, Taking(ps, positions, cov, events, r, ids, V), NEW cov1,
           NEW pointer, NEW at, at = <<r, Len(ps) + 1>>, NEW qs, CallSeq(qs, pointer, at),
           pointer # None =>
             /\ pointer[1] = r
             /\ \A k \in {"tool-call", "reference", "test", "forge-action"} :
                   <<k, pointer>> \in V,
           Grows(cov, cov1, Corp!References(qs), 1, 0), NEW id
    PROVE  /\ Taking(ps \o qs, positions, cov1, events, r, ids, V)
           /\ Taking(ps \o qs, [positions EXCEPT ![id] = at], cov1, events, r, ids, V)
<1>1. Located(events, r, ps, positions) /\ Serial(ps) /\ Serial(qs)
  BY DEF Taking, Underway, PartialsGood, CallSeq
<1>2. /\ Follows(events, r, ps, qs, V)
      /\ Corp!References(qs) \in Nat
      /\ Weighs(qs, Corp!References(qs), 1, 0)
  BY <1>1, CallFollows
<1>3. Taking(ps \o qs, positions, cov1, events, r, ids, V)
  <2>1. Corp!References(qs) \in Int
    BY <1>2
  <2>. QED BY <1>2, <2>1, TakingMore
<1>4. 1 \in DOMAIN qs /\ qs[1].kind = "tool-call"
  BY DEF CallSeq
<1>5. Located(events, r, ps \o qs, [positions EXCEPT ![id] = at])
  BY <1>1, <1>4, LocatedCall
<1>6. DOMAIN [positions EXCEPT ![id] = at] = DOMAIN positions
  OBVIOUS
<1>. QED BY <1>3, <1>5, <1>6 DEF Taking

-----------------------------------------------------------------------------
(* The Claude adapter.                                                     *)

ClaudeTaking(acc, events, r, ids, V) ==
    /\ acc = [partials |-> acc.partials, positions |-> acc.positions,
              coverage |-> acc.coverage]
    /\ Taking(acc.partials, acc.positions, acc.coverage, events, r, ids, V)

\* What a block of a record must be for its pointer to lead somewhere, and the
\* id it carries to be known.
BlockReady(record, r, b, counts, ids, V) ==
    /\ r \in Nat /\ b \in Nat
    /\ /\ record.type = "assistant"
       /\ \A c \in DOMAIN record.content : record.content[c].type = "text"
       /\ record.content[b].text \in {"plain", "paste"}
       => <<"turn", <<r, b>>>> \in V
    /\ /\ record.type = "assistant"
       /\ record.content[b].type = "tool_use"
       /\ record.content[b].input
       => \A k \in {"tool-call", "reference", "test", "forge-action"} :
             <<k, <<r, b>>>> \in V
    /\ record.content[b].id # None =>
         record.content[b].id \in ids /\ counts[record.content[b].id] \in Int

\* Emit adds one partial and its counts.
LEMMA EmitIs ==
    ASSUME NEW ps, Serial(ps), NEW positions, NEW cov, NEW x, NEW keys
    PROVE  Claude!Emit([partials |-> ps, positions |-> positions, coverage |-> cov], x, keys)
             = [partials |-> ps \o <<x>>, positions |-> positions,
                coverage |-> Corp!Count(cov, keys)]
<1>. DEFINE y == [partials |-> ps, positions |-> positions, coverage |-> cov]
            c == Corp!Count(cov, keys)
            z == [y EXCEPT !.partials = Append(ps, x)]
<1>1. z = [partials |-> Append(ps, x), positions |-> positions, coverage |-> cov]
  OBVIOUS
<1>2. y.partials = ps /\ y.coverage = cov
  OBVIOUS
<1>3. Claude!Count(cov, keys) = c
  BY ClaudeShares
<1>. HIDE DEF y, c
<1>4. Claude!Emit(y, x, keys) = [z EXCEPT !.coverage = c]
  BY <1>2, <1>3, Zenon DEF Claude!Emit, z
<1>. HIDE DEF z
<1>5. [z EXCEPT !.coverage = c]
        = [partials |-> Append(ps, x), positions |-> positions, coverage |-> c]
  BY <1>1
<1>6. Append(ps, x) = ps \o <<x>>
  BY Appending
<1>. QED BY <1>4, <1>5, <1>6 DEF y, c

\* A text block keeps the invariant of a message (_message_events).
LEMMA TextTaken ==
    ASSUME NEW ps, NEW positions, NEW cov \in [Corp!CoverageKeys -> Int],
           NEW events, Serial(events),
           NEW r \in Nat, NEW ids, NEW V, Taking(ps, positions, cov, events, r, ids, V),
           NEW record, NEW side, NEW counts, NEW b,
           BlockReady(record, r, b, counts, ids, V), NEW seen,
           seen = [partials |-> ps, positions |-> positions,
                   coverage |-> Corp!Count(cov, {"blocks_seen"})]
    PROVE  ClaudeTaking(Claude!TakeText(seen, record, side, record.content[b], <<r, b>>),
                        events, r, ids, V)
<1>. DEFINE v == Claude!TakeText(seen, record, side, record.content[b], <<r, b>>)
            c == Corp!Count(cov, {"blocks_seen"})
            more(x, keys) == [partials |-> ps \o <<x>>, positions |-> positions,
                              coverage |-> Corp!Count(c, keys)]
            less(keys) == [partials |-> ps, positions |-> positions,
                           coverage |-> Corp!Count(c, keys)]
            turn == Corp!Pointing("turn", <<r, b>>)
            textOnly == \A d \in DOMAIN record.content : record.content[d].type = "text"
<1>0. Serial(ps)
  BY DEF Taking, Underway, PartialsGood
<1>1. \A x, keys : Claude!Emit(seen, x, keys) = more(x, keys)
  BY <1>0, EmitIs
<1>2. \A keys : [seen EXCEPT !.coverage = Claude!Count(@, keys)] = less(keys)
  <2>. TAKE keys
  <2>1. Claude!Count(seen.coverage, keys) = Corp!Count(c, keys)
    BY ClaudeShares
  <2>. DEFINE d == Corp!Count(c, keys)
  <2>. HIDE DEF d, c
  <2>2. [seen EXCEPT !.coverage = d]
          = [partials |-> ps, positions |-> positions, coverage |-> d]
    BY DEF c
  <2>. QED BY <2>1, <2>2 DEF d, c
<1>. HIDE DEF more, less, c
<1>3. \/ v = less({"blocks_unsupported"})
      \/ v = less({"user_turns_ambiguous", "content_unknown"})
      \/ v = more(Corp!Partial("pasted-span"), {"content_unknown"})
      \/ /\ record.content[b].text \in {"plain", "paste"} /\ record.type = "assistant"
         /\ textOnly
         /\ v = more(turn, {"content_references"})
      \/ v = more(Corp!Partial("turn"), {"content_unknown"})
  <2>1. /\ [seen EXCEPT !.coverage = Claude!Count(@, {"blocks_unsupported"})]
             = less({"blocks_unsupported"})
        /\ [seen EXCEPT !.coverage = Claude!Count(@, {"user_turns_ambiguous",
                                                      "content_unknown"})]
             = less({"user_turns_ambiguous", "content_unknown"})
    BY <1>2
  <2>2. /\ Claude!Partial("pasted-span") = Corp!Partial("pasted-span")
        /\ Claude!Partial("turn") = Corp!Partial("turn")
        /\ Claude!Pointing("turn", <<r, b>>) = turn
    BY ClaudeShares
  <2>. DEFINE A == record.content[b].text \in {"plain", "paste"}
                     /\ record.type = "assistant" /\ textOnly
  <2>3. \/ v = less({"blocks_unsupported"})
        \/ v = less({"user_turns_ambiguous", "content_unknown"})
        \/ v = Claude!Emit(seen, Claude!Partial("pasted-span"), {"content_unknown"})
        \/ A /\ v = Claude!Emit(seen, Claude!Pointing("turn", <<r, b>>),
                                {"content_references"})
        \/ v = Claude!Emit(seen, Claude!Partial("turn"), {"content_unknown"})
    BY <2>1 DEF Claude!TakeText
  <2>. QED BY <1>1, <2>2, <2>3
<1>. DEFINE Fine(w) == ClaudeTaking(w, events, r, ids, V)
<1>4. ASSUME NEW x, NEW keys, NEW n \in Int, NEW p \in Int, NEW u \in Int,
             Follows(events, r, ps, <<x>>, V), Weighs(<<x>>, n, p, u),
             Grows(cov, Corp!Count(c, keys), n, p, u)
      PROVE  Fine(more(x, keys))
  <2>. DEFINE d == Corp!Count(c, keys)
  <2>1. Taking(ps \o <<x>>, positions, d, events, r, ids, V)
    BY <1>4, TakingMore
  <2>. HIDE DEF d
  <2>2. more(x, keys) = [partials |-> ps \o <<x>>, positions |-> positions,
                         coverage |-> d]
    BY DEF more, d
  <2>. QED BY <2>1, <2>2 DEF ClaudeTaking
<1>5. ASSUME NEW keys, Grows(cov, Corp!Count(c, keys), 0, 0, 0)
      PROVE  Fine(less(keys))
  <2>. DEFINE d == Corp!Count(c, keys)
  <2>1. Taking(ps, positions, d, events, r, ids, V)
    BY <1>5, TakingStays
  <2>. HIDE DEF d
  <2>2. less(keys) = [partials |-> ps, positions |-> positions, coverage |-> d]
    BY DEF less, d
  <2>. QED BY <2>1, <2>2 DEF ClaudeTaking
<1>6. /\ Grows(cov, Corp!Count(c, {"content_unknown"}), 0, 1, 1)
      /\ Grows(cov, Corp!Count(c, {"content_references"}), 1, 1, 0)
      /\ Grows(cov, Corp!Count(c, {"blocks_unsupported"}), 0, 0, 0)
      /\ Grows(cov, Corp!Count(c, {"user_turns_ambiguous", "content_unknown"}), 0, 0, 0)
  BY BlockGrows DEF c
<1>. HIDE DEF Fine
<1>7. Fine(less({"blocks_unsupported"}))
  BY <1>5, <1>6
<1>8. Fine(less({"user_turns_ambiguous", "content_unknown"}))
  BY <1>5, <1>6
<1>9. /\ Fine(more(Corp!Partial("pasted-span"), {"content_unknown"}))
      /\ Fine(more(Corp!Partial("turn"), {"content_unknown"}))
  <2>1. ASSUME NEW kind \in {"turn", "pasted-span"}
        PROVE  Fine(more(Corp!Partial(kind), {"content_unknown"}))
    <3>1. /\ Follows(events, r, ps, <<Corp!Partial(kind)>>, V)
          /\ Weighs(<<Corp!Partial(kind)>>, 0, 1, 1)
      BY UnknownFollows
    <3>. QED BY <1>4, <1>6, <3>1
  <2>. QED BY <2>1
<1>10. ASSUME record.content[b].text \in {"plain", "paste"}, record.type = "assistant",
              textOnly
       PROVE  Fine(more(turn, {"content_references"}))
  <2>1. <<"turn", <<r, b>>>> \in V /\ b \in Nat
    BY <1>10 DEF BlockReady
  <2>2. Follows(events, r, ps, <<turn>>, V) /\ Weighs(<<turn>>, 1, 1, 0)
    BY <2>1, TurnFollows
  <2>. QED BY <1>4, <1>6, <2>2
<1>11. Fine(v)
  <2>. HIDE DEF v, turn, textOnly
  <2>. QED BY <1>3, <1>7, <1>8, <1>9, <1>10
<1>. QED BY <1>11 DEF Fine

\* So does a tool_use block, which locates its id.
LEMMA CallTaken ==
    ASSUME NEW ps, NEW positions, NEW cov \in [Corp!CoverageKeys -> Int],
           NEW events, Serial(events),
           NEW r \in Nat, NEW ids, NEW V, Taking(ps, positions, cov, events, r, ids, V),
           NEW record, NEW counts, NEW b, record.type = "assistant",
           record.content[b].type = "tool_use",
           BlockReady(record, r, b, counts, ids, V), NEW seen,
           seen = [partials |-> ps, positions |-> positions,
                   coverage |-> Corp!Count(cov, {"blocks_seen"})]
    PROVE  ClaudeTaking(Claude!TakeCall(seen, r, counts, record.content[b], <<r, b>>),
                        events, r, ids, V)
<1>. DEFINE block == record.content[b]
            at == <<r, Len(ps) + 1>>
            pointer == IF block.input THEN <<r, b>> ELSE None
            calls == Corp!CallPartials(block, pointer, at)
            c == Corp!CountMany(Corp!Count(cov, {"blocks_seen"}), "content_references",
                                Corp!References(calls))
            q == IF block.id # None /\ counts[block.id] = 1
                   THEN [positions EXCEPT ![block.id] = at] ELSE positions
            v == Claude!TakeCall(seen, r, counts, block, <<r, b>>)
<1>1. v = [partials |-> ps \o calls, coverage |-> c, positions |-> q]
  <2>1. Claude!CallPartials(block, pointer, at) = calls
    BY ClaudeShares
  <2>2. Claude!References(calls) = Corp!References(calls)
    BY ClaudeShares
  <2>3. Claude!CountMany(Corp!Count(cov, {"blocks_seen"}), "content_references",
                         Corp!References(calls)) = c
    BY ClaudeShares
  <2>4. /\ seen.partials = ps /\ seen.positions = positions
        /\ seen.coverage = Corp!Count(cov, {"blocks_seen"})
    OBVIOUS
  <2>. HIDE DEF calls, c
  <2>. QED BY <2>1, <2>2, <2>3, <2>4, Zenon DEF Claude!TakeCall
<1>2. CallSeq(calls, pointer, at)
  BY CallPartialsIs
<1>3. pointer # None =>
        /\ pointer[1] = r
        /\ \A k \in {"tool-call", "reference", "test", "forge-action"} :
              <<k, pointer>> \in V
  BY DEF BlockReady
<1>4. Corp!References(calls) \in Int
  <2>1. Serial(calls)
    BY <1>2 DEF CallSeq
  <2>. HIDE DEF calls
  <2>2. Corp!References(calls) \in Nat
    BY <2>1, Tallied
  <2>. QED BY <2>2
<1>. HIDE DEF calls, pointer
<1>5. Grows(cov, c, Corp!References(calls), 1, 0)
  BY <1>4, BlockGrows
<1>. HIDE DEF c
<1>6. /\ Taking(ps \o calls, positions, c, events, r, ids, V)
      /\ Taking(ps \o calls, [positions EXCEPT ![block.id] = at], c, events, r, ids, V)
  BY <1>2, <1>3, <1>5, TakingCall
<1>7. Taking(ps \o calls, q, c, events, r, ids, V)
  BY <1>6
<1>. HIDE DEF q
<1>8. ClaudeTaking([partials |-> ps \o calls, coverage |-> c, positions |-> q],
                   events, r, ids, V)
  BY <1>7 DEF ClaudeTaking
<1>. QED BY <1>1, <1>8

\* So does a tool_result block, linked to a call only when the id is unique.
LEMMA ResultTaken ==
    ASSUME NEW ps, NEW positions, NEW cov \in [Corp!CoverageKeys -> Int],
           NEW events, NEW k \in Nat, NEW r \in Nat, NEW ids, NEW V, Shaped(events, k, V),
           Taking(ps, positions, cov, events, r, ids, V),
           NEW record, NEW counts, NEW b,
           BlockReady(record, r, b, counts, ids, V), NEW seen,
           seen = [partials |-> ps, positions |-> positions,
                   coverage |-> Corp!Count(cov, {"blocks_seen"})]
    PROVE  ClaudeTaking(Claude!TakeResult(seen, counts, record.content[b]),
                        events, r, ids, V)
<1>. DEFINE block == record.content[b]
            x == [Corp!Partial("tool-result") EXCEPT
                    !.relation = Corp!ToolRelation(block.id, counts, positions),
                    !.status   = block.status]
            c == Corp!Count(Corp!Count(cov, {"blocks_seen"}), {"content_unknown"})
            v == Claude!TakeResult(seen, counts, block)
<1>0. Serial(ps) /\ Serial(events) /\ Located(events, r, ps, positions)
  BY DEF Taking, Underway, PartialsGood, Shaped
<1>1. v = [partials |-> ps \o <<x>>, positions |-> positions, coverage |-> c]
  <2>1. v = Claude!Emit(seen, x, {"content_unknown"})
    <3>1. /\ Claude!Partial("tool-result") = Corp!Partial("tool-result")
          /\ Claude!ToolRelation(block.id, counts, positions)
               = Corp!ToolRelation(block.id, counts, positions)
      BY ClaudeShares
    <3>2. seen.positions = positions
      OBVIOUS
    <3>. QED BY <3>1, <3>2, Zenon DEF Claude!TakeResult
  <2>. HIDE DEF x, v
  <2>. QED BY <1>0, <2>1, EmitIs
<1>2. Follows(events, r, ps, <<x>>, V) /\ Weighs(<<x>>, 0, 1, 1)
  <2>1. block.id # None => block.id \in DOMAIN positions /\ counts[block.id] \in Int
    BY DEF BlockReady, Taking
  <2>. QED BY <1>0, <2>1, ResultFollows
<1>3. Grows(cov, c, 0, 1, 1)
  BY BlockGrows
<1>. HIDE DEF x, c
<1>4. Taking(ps \o <<x>>, positions, c, events, r, ids, V)
  BY <1>0, <1>2, <1>3, TakingMore
<1>5. ClaudeTaking([partials |-> ps \o <<x>>, positions |-> positions, coverage |-> c],
                   events, r, ids, V)
  BY <1>4 DEF ClaudeTaking
<1>. QED BY <1>1, <1>5

\* So does any block.
LEMMA BlockTaken ==
    ASSUME NEW acc, NEW events, NEW k \in Nat, NEW r \in Nat, NEW ids, NEW V,
           Shaped(events, k, V), ClaudeTaking(acc, events, r, ids, V),
           NEW record, NEW side, NEW counts, NEW b,
           BlockReady(record, r, b, counts, ids, V)
    PROVE  ClaudeTaking(Claude!TakeBlock(acc, r, record, side, counts, b),
                        events, r, ids, V)
<1>. DEFINE ps == acc.partials
            positions == acc.positions
            cov == acc.coverage
            c == Corp!Count(cov, {"blocks_seen"})
            d == Corp!Count(c, {"blocks_unsupported"})
            seen == [acc EXCEPT !.coverage = Claude!Count(@, {"blocks_seen"})]
            v == Claude!TakeBlock(acc, r, record, side, counts, b)
            block == record.content[b]
<1>1. /\ acc = [partials |-> ps, positions |-> positions, coverage |-> cov]
      /\ Taking(ps, positions, cov, events, r, ids, V)
      /\ Serial(events)
  BY DEF ClaudeTaking, Shaped
<1>2. cov \in [Corp!CoverageKeys -> Int]
  BY <1>1 DEF Taking, Underway, Balanced
<1>3. Claude!Count(cov, {"blocks_seen"}) = c /\ Claude!Count(c, {"blocks_unsupported"}) = d
  BY ClaudeShares
<1>. HIDE DEF ps, positions, cov, c, d
<1>4. seen = [partials |-> ps, positions |-> positions, coverage |-> c]
  <2>1. acc.coverage = cov
    BY DEF cov
  <2>. QED BY <1>1, <1>3, <2>1
<1>. HIDE DEF seen
<1>5. seen.coverage = c
  BY <1>4
<1>6. [seen EXCEPT !.coverage = Claude!Count(@, {"blocks_unsupported"})]
        = [partials |-> ps, positions |-> positions, coverage |-> d]
  BY <1>3, <1>4, <1>5
<1>7. \/ v = Claude!TakeText(seen, record, side, block, <<r, b>>)
      \/ /\ record.type = "assistant" /\ block.type = "tool_use"
         /\ v = Claude!TakeCall(seen, r, counts, block, <<r, b>>)
      \/ v = Claude!TakeResult(seen, counts, block)
      \/ v = [seen EXCEPT !.coverage = Claude!Count(@, {"blocks_unsupported"})]
  BY DEF Claude!TakeBlock, seen
<1>8. ClaudeTaking(Claude!TakeText(seen, record, side, block, <<r, b>>), events, r, ids, V)
  BY <1>1, <1>2, <1>4, TextTaken DEF c
<1>9. ASSUME record.type = "assistant", block.type = "tool_use"
      PROVE  ClaudeTaking(Claude!TakeCall(seen, r, counts, block, <<r, b>>),
                          events, r, ids, V)
  BY <1>1, <1>2, <1>4, <1>9, CallTaken DEF c
<1>10. ClaudeTaking(Claude!TakeResult(seen, counts, block), events, r, ids, V)
  BY <1>1, <1>2, <1>4, ResultTaken DEF c
<1>11. ClaudeTaking([partials |-> ps, positions |-> positions, coverage |-> d],
                    events, r, ids, V)
  <2>1. Grows(cov, d, 0, 0, 0)
    BY <1>2, BlockGrows DEF c, d
  <2>2. Taking(ps, positions, d, events, r, ids, V)
    BY <1>1, <2>1, TakingStays
  <2>. QED BY <2>2 DEF ClaudeTaking
<1>. HIDE DEF v
<1>12. ClaudeTaking(v, events, r, ids, V)
  BY <1>6, <1>7, <1>8, <1>9, <1>10, <1>11
<1>. QED BY <1>12 DEF v

\* A message under way begins with its metadata.
ClaudeStart(acc, record) ==
    [partials  |-> IF record.type = "assistant"
                     THEN [n \in DOMAIN record.metadata |->
                             Claude!Partial(record.metadata[n])]
                     ELSE <<>>,
     positions |-> acc.positions,
     coverage  |-> acc.coverage]

\* What is known of a message after each of its blocks.
ClaudeBlocks(acc, r, record, side, counts, m, f) ==
    f = [b \in 0 .. m |-> IF b = 0 THEN ClaudeStart(acc, record)
                          ELSE Claude!TakeBlock(f[b - 1], r, record, side, counts, b)]

\* The recursion over the blocks of a message has a solution.
LEMMA ClaudeBlocksExists ==
    ASSUME NEW acc, NEW r, NEW record, NEW side, NEW counts
    PROVE  \A m \in Nat : \E f : ClaudeBlocks(acc, r, record, side, counts, m, f)
<1>. DEFINE D == {m \in Nat : ~ \E f : ClaudeBlocks(acc, r, record, side, counts, m, f)}
            start == ClaudeStart(acc, record)
            more(old, b) == Claude!TakeBlock(old, r, record, side, counts, b)
<1>1. SUFFICES ASSUME D # {} PROVE FALSE
  OBVIOUS
<1>2. PICK m \in D : \A k \in D : m <= k
  BY <1>1, Smallest
<1>3. m # 0
  <2>1. ClaudeBlocks(acc, r, record, side, counts, 0, [b \in 0 .. 0 |-> start])
    BY DEF ClaudeBlocks
  <2>. QED BY <1>2, <2>1
<1>4. PICK f : ClaudeBlocks(acc, r, record, side, counts, m - 1, f)
  BY <1>2, <1>3
<1>. DEFINE g == [b \in 0 .. m |-> IF b = m THEN more(f[m - 1], m) ELSE f[b]]
<1>5. ClaudeBlocks(acc, r, record, side, counts, m, g)
  <2>0. \A b \in 0 .. m - 1 : f[b] = IF b = 0 THEN start ELSE more(f[b - 1], b)
    BY <1>4 DEF ClaudeBlocks
  <2>. HIDE DEF more, start
  <2>1. ASSUME NEW b \in 0 .. m
        PROVE  g[b] = IF b = 0 THEN start ELSE more(g[b - 1], b)
    <3>1. CASE b = m
      BY <1>2, <1>3, <3>1
    <3>2. CASE b # m
      <4>1. b \in 0 .. m - 1 /\ g[b] = f[b] /\ b - 1 # m
        BY <1>2, <1>3, <3>2
      <4>2. b # 0 => g[b - 1] = f[b - 1]
        BY <1>2, <4>1
      <4>. QED BY <2>0, <4>1, <4>2
    <3>. QED BY <3>1, <3>2
  <2>2. g = [b \in 0 .. m |-> IF b = 0 THEN start ELSE more(g[b - 1], b)]
    <3>1. g = [b \in 0 .. m |-> g[b]]
      OBVIOUS
    <3>. HIDE DEF g
    <3>. QED BY <2>1, <3>1
  <2>. QED BY <2>2 DEF ClaudeBlocks, more, start
<1>. QED BY <1>2, <1>5

\* The model and token metadata of a message come first and keep the invariant.
LEMMA StartTaken ==
    ASSUME NEW acc, NEW events, Serial(events), NEW r \in Nat, NEW ids, NEW V,
           Taking(<<>>, acc.positions, acc.coverage, events, r, ids, V), NEW record,
           record.metadata \in Seq({"model", "token-usage"})
    PROVE  ClaudeTaking(ClaudeStart(acc, record), events, r, ids, V)
<1>. DEFINE meta == record.metadata
            qs == [n \in DOMAIN meta |-> Claude!Partial(meta[n])]
            some == IF record.type = "assistant" THEN qs ELSE <<>>
<1>1. Len(meta) \in Nat /\ DOMAIN meta = 1 .. Len(meta)
      /\ \A n \in DOMAIN meta : meta[n] \in {"model", "token-usage"}
  OBVIOUS
<1>2. DOMAIN qs = 1 .. Len(meta) /\ qs = [n \in 1 .. Len(meta) |-> qs[n]]
      /\ \A n \in DOMAIN meta : qs[n] = Corp!Partial(meta[n])
  BY <1>1, ClaudeShares
<1>3. Serial(qs)
  <2>. HIDE DEF qs
  <2>. QED BY <1>1, <1>2, SerialOf
<1>4. Serial(some) /\ \A n \in DOMAIN some : \E kind :
         /\ some[n] = Corp!Partial(kind)
         /\ kind \notin {"turn", "pasted-span", "tool-call", "tool-result",
                         "forge-action", "reference"}
  <2>1. ASSUME NEW n \in DOMAIN qs
        PROVE  \E kind :
                 /\ qs[n] = Corp!Partial(kind)
                 /\ kind \notin {"turn", "pasted-span", "tool-call", "tool-result",
                                 "forge-action", "reference"}
    <3>1. qs[n] = Corp!Partial(meta[n]) /\ meta[n] \in {"model", "token-usage"}
      BY <1>1, <1>2
    <3>. HIDE DEF qs
    <3>. QED BY <3>1
  <2>2. Serial(<<>>) /\ DOMAIN <<>> = {}
    BY Alone
  <2>. HIDE DEF qs
  <2>. QED BY <1>3, <2>1, <2>2
<1>. HIDE DEF some
<1>5. Follows(events, r, <<>>, some, V) /\ Weighs(some, 0, 0, 0)
  BY <1>4, LightFollows
<1>6. acc.coverage \in [Corp!CoverageKeys -> Int]
  BY DEF Taking, Underway, Balanced
<1>7. Grows(acc.coverage, acc.coverage, 0, 0, 0)
  BY <1>6, CoverageGrows
<1>8. Taking(<<>> \o some, acc.positions, acc.coverage, events, r, ids, V)
  <2>. DEFINE none == <<>>
  <2>1. /\ Taking(none, acc.positions, acc.coverage, events, r, ids, V)
        /\ Follows(events, r, none, some, V) /\ Weighs(some, 0, 0, 0)
    BY <1>5
  <2>. HIDE DEF none
  <2>2. Taking(none \o some, acc.positions, acc.coverage, events, r, ids, V)
    BY <1>7, <2>1, TakingMore
  <2>. QED BY <2>2 DEF none
<1>9. <<>> \o some = some
  BY <1>4, Nothing
<1>10. ClaudeStart(acc, record) = [partials |-> some, positions |-> acc.positions,
                                   coverage |-> acc.coverage]
  BY DEF ClaudeStart, some
<1>. QED BY <1>8, <1>9, <1>10 DEF ClaudeTaking

\* A message is taken as a whole.
LEMMA MessageTaken ==
    ASSUME NEW acc, NEW events, NEW k \in Nat, NEW r \in Nat, NEW ids, NEW V,
           Shaped(events, k, V),
           Taking(<<>>, acc.positions, acc.coverage, events, r, ids, V),
           NEW record, NEW side, NEW counts, Serial(record.content),
           record.metadata \in Seq({"model", "token-usage"}),
           \A b \in DOMAIN record.content : BlockReady(record, r, b, counts, ids, V)
    PROVE  ClaudeTaking(Claude!MessageEvents(acc, r, record, side, counts),
                        events, r, ids, V)
<1>. DEFINE m == Len(record.content)
            f == CHOOSE f : ClaudeBlocks(acc, r, record, side, counts, m, f)
            Fine(n) == ClaudeTaking(f[n], events, r, ids, V)
            D == {n \in 0 .. m : ~Fine(n)}
<1>0. m \in Nat /\ DOMAIN record.content = 1 .. m
  BY SerialIs
<1>1. Claude!MessageEvents(acc, r, record, side, counts) = f[m]
  BY DEF Claude!MessageEvents, ClaudeBlocks, ClaudeStart
<1>2. ClaudeBlocks(acc, r, record, side, counts, m, f)
  <2>1. \E g : ClaudeBlocks(acc, r, record, side, counts, m, g)
    BY <1>0, ClaudeBlocksExists
  <2>. QED BY <2>1
<1>. HIDE DEF f
<1>3. /\ f[0] = ClaudeStart(acc, record)
      /\ \A n \in 1 .. m : f[n] = Claude!TakeBlock(f[n - 1], r, record, side, counts, n)
  <2>1. \A n \in 0 .. m : f[n] = IF n = 0 THEN ClaudeStart(acc, record)
                          ELSE Claude!TakeBlock(f[n - 1], r, record, side, counts, n)
    BY <1>2 DEF ClaudeBlocks
  <2>2. 0 \in 0 .. m /\ \A n \in 1 .. m : n \in 0 .. m /\ n # 0
    BY <1>0
  <2>. HIDE DEF m
  <2>. QED BY <2>1, <2>2
<1>4. Fine(0)
  <2>1. Serial(events)
    BY DEF Shaped
  <2>2. ClaudeTaking(ClaudeStart(acc, record), events, r, ids, V)
    BY <2>1, StartTaken
  <2>. QED BY <1>3, <2>2
<1>5. ASSUME NEW n \in 1 .. m, Fine(n - 1) PROVE Fine(n)
  <2>1. BlockReady(record, r, n, counts, ids, V)
    BY <1>0
  <2>2. ClaudeTaking(Claude!TakeBlock(f[n - 1], r, record, side, counts, n),
                     events, r, ids, V)
    BY <1>5, <2>1, BlockTaken
  <2>. QED BY <1>3, <2>2
<1>. HIDE DEF Fine, m
<1>6. ASSUME D # {} PROVE FALSE
  <2>1. D \subseteq Nat
    BY <1>0
  <2>2. PICK n \in D : \A l \in D : n <= l
    <3>. HIDE DEF D
    <3>. QED BY <1>6, <2>1, Smallest
  <2>3. n \in 1 .. m
    BY <1>0, <1>4, <2>2
  <2>4. n - 1 \in 0 .. m /\ ~(n <= n - 1)
    BY <1>0, <2>3
  <2>5. Fine(n - 1)
    BY <2>2, <2>4
  <2>. QED BY <1>5, <2>2, <2>3, <2>5
<1>7. Fine(m)
  BY <1>0, <1>6
<1>. QED BY <1>1, <1>7 DEF Fine

\* A block of a message that may not be the subject's.
LEMMA UnknownBlockTaken ==
    ASSUME NEW acc, NEW events, Serial(events), NEW r, NEW ids, NEW V,
           ClaudeTaking(acc, events, r, ids, V), NEW record, NEW b
    PROVE  ClaudeTaking(Claude!TakeUnknownBlock(acc, record, b), events, r, ids, V)
<1>. DEFINE ps == acc.partials
            positions == acc.positions
            cov == acc.coverage
            c == Corp!Count(cov, {"blocks_seen", "content_unknown"})
            d == Corp!Count(cov, {"blocks_seen", "blocks_unsupported"})
            x == Corp!Partial("pasted-span")
            v == Claude!TakeUnknownBlock(acc, record, b)
<1>1. /\ acc = [partials |-> ps, positions |-> positions, coverage |-> cov]
      /\ Taking(ps, positions, cov, events, r, ids, V)
  BY DEF ClaudeTaking
<1>2. cov \in [Corp!CoverageKeys -> Int] /\ Serial(ps)
  BY <1>1 DEF Taking, Underway, Balanced, PartialsGood
<1>3. Claude!Partial("pasted-span") = x
      /\ Claude!Count(cov, {"blocks_seen", "blocks_unsupported"}) = d
  BY ClaudeShares
<1>4. acc.coverage = cov
  OBVIOUS
<1>. HIDE DEF ps, positions, cov, x, c, d
<1>5. Claude!Emit(acc, x, {"blocks_seen", "content_unknown"})
        = [partials |-> ps \o <<x>>, positions |-> positions, coverage |-> c]
  BY <1>1, <1>2, EmitIs DEF c
<1>6. [acc EXCEPT !.coverage = Claude!Count(@, {"blocks_seen", "blocks_unsupported"})]
        = [partials |-> ps, positions |-> positions, coverage |-> d]
  BY <1>1, <1>3, <1>4
<1>7. \/ v = Claude!Emit(acc, x, {"blocks_seen", "content_unknown"})
      \/ v = [acc EXCEPT !.coverage = Claude!Count(@, {"blocks_seen", "blocks_unsupported"})]
  BY <1>3 DEF Claude!TakeUnknownBlock
<1>8. Grows(cov, c, 0, 1, 1) /\ Grows(cov, d, 0, 0, 0)
  BY <1>2, CoverageGrows DEF c, d
<1>9. Follows(events, r, ps, <<x>>, V) /\ Weighs(<<x>>, 0, 1, 1)
  BY UnknownFollows DEF x
<1>10. Taking(ps \o <<x>>, positions, c, events, r, ids, V)
  BY <1>1, <1>8, <1>9, TakingMore
<1>11. Taking(ps, positions, d, events, r, ids, V)
  BY <1>1, <1>8, TakingStays
<1>. HIDE DEF v
<1>12. ClaudeTaking(v, events, r, ids, V)
  <2>1. ClaudeTaking([partials |-> ps \o <<x>>, positions |-> positions, coverage |-> c],
                     events, r, ids, V)
    BY <1>10 DEF ClaudeTaking
  <2>2. ClaudeTaking([partials |-> ps, positions |-> positions, coverage |-> d],
                     events, r, ids, V)
    BY <1>11 DEF ClaudeTaking
  <2>. QED BY <1>5, <1>6, <1>7, <2>1, <2>2
<1>. QED BY <1>12 DEF v

\* Such a message begins with nothing.
ClaudeBlank(acc) ==
    [partials |-> <<>>, positions |-> acc.positions, coverage |-> acc.coverage]

\* What is known of such a message after each of its blocks.
ClaudeUnknown(acc, record, m, f) ==
    f = [b \in 0 .. m |-> IF b = 0 THEN ClaudeBlank(acc)
                          ELSE Claude!TakeUnknownBlock(f[b - 1], record, b)]

\* So has the one over blocks of unknown authorship.
LEMMA ClaudeUnknownExists ==
    ASSUME NEW acc, NEW record
    PROVE  \A m \in Nat : \E f : ClaudeUnknown(acc, record, m, f)
<1>. DEFINE D == {m \in Nat : ~ \E f : ClaudeUnknown(acc, record, m, f)}
            start == ClaudeBlank(acc)
            more(old, b) == Claude!TakeUnknownBlock(old, record, b)
<1>1. SUFFICES ASSUME D # {} PROVE FALSE
  OBVIOUS
<1>2. PICK m \in D : \A k \in D : m <= k
  BY <1>1, Smallest
<1>3. m # 0
  <2>1. ClaudeUnknown(acc, record, 0, [b \in 0 .. 0 |-> start])
    BY DEF ClaudeUnknown
  <2>. QED BY <1>2, <2>1
<1>4. PICK f : ClaudeUnknown(acc, record, m - 1, f)
  BY <1>2, <1>3
<1>. DEFINE g == [b \in 0 .. m |-> IF b = m THEN more(f[m - 1], m) ELSE f[b]]
<1>5. ClaudeUnknown(acc, record, m, g)
  <2>0. \A b \in 0 .. m - 1 : f[b] = IF b = 0 THEN start ELSE more(f[b - 1], b)
    BY <1>4 DEF ClaudeUnknown
  <2>. HIDE DEF more, start
  <2>1. ASSUME NEW b \in 0 .. m
        PROVE  g[b] = IF b = 0 THEN start ELSE more(g[b - 1], b)
    <3>1. CASE b = m
      BY <1>2, <1>3, <3>1
    <3>2. CASE b # m
      <4>1. b \in 0 .. m - 1 /\ g[b] = f[b] /\ b - 1 # m
        BY <1>2, <1>3, <3>2
      <4>2. b # 0 => g[b - 1] = f[b - 1]
        BY <1>2, <4>1
      <4>. QED BY <2>0, <4>1, <4>2
    <3>. QED BY <3>1, <3>2
  <2>2. g = [b \in 0 .. m |-> IF b = 0 THEN start ELSE more(g[b - 1], b)]
    <3>1. g = [b \in 0 .. m |-> g[b]]
      OBVIOUS
    <3>. HIDE DEF g
    <3>. QED BY <2>1, <3>1
  <2>. QED BY <2>2 DEF ClaudeUnknown, more, start
<1>. QED BY <1>2, <1>5

\* A record of unknown authorship keeps it as well (_unknown_authorship_events).
LEMMA UnknownTaken ==
    ASSUME NEW acc, NEW events, Serial(events), NEW r, NEW ids, NEW V,
           Taking(<<>>, acc.positions, acc.coverage, events, r, ids, V),
           NEW record, Serial(record.content)
    PROVE  ClaudeTaking(Claude!UnknownAuthorshipEvents(acc, record), events, r, ids, V)
<1>. DEFINE m == Len(record.content)
            f == CHOOSE f : ClaudeUnknown(acc, record, m, f)
            Fine(n) == ClaudeTaking(f[n], events, r, ids, V)
            D == {n \in 0 .. m : ~Fine(n)}
<1>0. m \in Nat
  BY SerialIs
<1>1. Claude!UnknownAuthorshipEvents(acc, record) = f[m]
  BY DEF Claude!UnknownAuthorshipEvents, ClaudeUnknown, ClaudeBlank
<1>2. ClaudeUnknown(acc, record, m, f)
  <2>1. \E g : ClaudeUnknown(acc, record, m, g)
    BY <1>0, ClaudeUnknownExists
  <2>. QED BY <2>1
<1>. HIDE DEF f
<1>3. /\ f[0] = ClaudeBlank(acc)
      /\ \A n \in 1 .. m : f[n] = Claude!TakeUnknownBlock(f[n - 1], record, n)
  <2>1. \A n \in 0 .. m : f[n] = IF n = 0 THEN ClaudeBlank(acc)
                          ELSE Claude!TakeUnknownBlock(f[n - 1], record, n)
    BY <1>2 DEF ClaudeUnknown
  <2>2. 0 \in 0 .. m /\ \A n \in 1 .. m : n \in 0 .. m /\ n # 0
    BY <1>0
  <2>. HIDE DEF m
  <2>. QED BY <2>1, <2>2
<1>4. Fine(0)
  <2>1. ClaudeTaking(ClaudeBlank(acc), events, r, ids, V)
    <3>. DEFINE none == <<>>
    <3>1. Taking(none, acc.positions, acc.coverage, events, r, ids, V)
      OBVIOUS
    <3>. HIDE DEF none
    <3>2. ClaudeTaking([partials |-> none, positions |-> acc.positions,
                        coverage |-> acc.coverage], events, r, ids, V)
      BY <3>1 DEF ClaudeTaking
    <3>. QED BY <3>2 DEF none, ClaudeBlank
  <2>. QED BY <1>3, <2>1
<1>5. ASSUME NEW n \in 1 .. m, Fine(n - 1) PROVE Fine(n)
  <2>2. ClaudeTaking(Claude!TakeUnknownBlock(f[n - 1], record, n), events, r, ids, V)
    BY <1>5, UnknownBlockTaken
  <2>. QED BY <1>3, <2>2
<1>. HIDE DEF Fine, m
<1>6. ASSUME D # {} PROVE FALSE
  <2>1. D \subseteq Nat
    BY <1>0
  <2>2. PICK n \in D : \A l \in D : n <= l
    <3>. HIDE DEF D
    <3>. QED BY <1>6, <2>1, Smallest
  <2>3. n \in 1 .. m
    BY <1>0, <1>4, <2>2
  <2>4. n - 1 \in 0 .. m /\ ~(n <= n - 1)
    BY <1>0, <2>3
  <2>5. Fine(n - 1)
    BY <2>2, <2>4
  <2>. QED BY <1>5, <2>2, <2>3, <2>5
<1>7. Fine(m)
  BY <1>0, <1>6
<1>. QED BY <1>1, <1>7 DEF Fine

\* What has a pointer that the resolver follows, to something.
ClaudeV(records) ==
    {v \in {"turn", "tool-call", "reference", "test", "forge-action"} \X Place :
       Claude!ClaudeTarget(records, [kind |-> v[1], pointer |-> v[2]])
         \notin {None, "empty"}}

\* What is known after k records.
ClaudeKnown(acc, records, k) ==
    /\ acc = [events |-> acc.events, positions |-> acc.positions,
              coverage |-> acc.coverage, generation |-> acc.generation]
    /\ CorpusInv(acc.events, acc.coverage, acc.positions, k, acc.generation,
                 ClaudeV(records))
    /\ DOMAIN acc.positions = Claude!ToolIds(records)

\* A record that a record answers is an earlier one.
LEMMA ParentEarlier ==
    ASSUME NEW records, Serial(records), NEW r
    PROVE  LET p == Claude!ParentLink(records, r)
           IN  p # None => p \in Nat /\ p < r
<1>. DEFINE p == Claude!ParentLink(records, r)
            holders == {q \in Claude!SubjectDecoded(records) :
                          /\ records[q].uuid # None
                          /\ records[q].uuid = records[r].parentUuid}
<1>1. holders \subseteq Nat
  BY SerialIs DEF Claude!SubjectDecoded
<1>2. ASSUME p # None
      PROVE  Cardinality(holders) = 1 /\ (\A q \in holders : q < r)
             /\ p = CHOOSE q \in holders : TRUE
  BY <1>2, CorpusCardinality DEF Claude!ParentLink
<1>. HIDE DEF holders, p
<1>3. ASSUME p # None PROVE p \in Nat /\ p < r
  <2>1. holders # {}
    BY <1>2, <1>3, FS_EmptySet
  <2>. QED BY <1>1, <1>2, <1>3, <2>1
<1>. QED BY <1>3 DEF p

\* How often a session uses an id is a number.
LEMMA ToolIdsCounted ==
    ASSUME NEW records, Serial(records),
           \A r \in DOMAIN records : Serial(records[r].content),
           NEW id \in Claude!ToolIds(records)
    PROVE  Claude!ToolIdCounts(records)[id] \in Int
<1>. DEFINE R == {q \in Claude!SubjectDecoded(records) : records[q].type = "assistant"}
            f == [r \in R |-> {r} \X DOMAIN records[r].content]
            T == {{r} \X DOMAIN records[r].content : r \in R}
            S == {p \in UNION T : /\ records[p[1]].content[p[2]].type = "tool_use"
                                  /\ records[p[1]].content[p[2]].id = id}
<1>1. Len(records) \in Nat /\ DOMAIN records = 1 .. Len(records)
  BY SerialIs
<1>2. R \in SUBSET DOMAIN records
  BY DEF Claude!SubjectDecoded
<1>3. IsFiniteSet(R)
  <2>1. IsFiniteSet(1 .. Len(records))
    BY <1>1, FS_Interval
  <2>. HIDE DEF R
  <2>. QED BY <1>1, <1>2, <2>1, FS_Subset
<1>4. ASSUME NEW t \in T PROVE IsFiniteSet(t)
  <2>1. PICK r \in R : t = {r} \X DOMAIN records[r].content
    OBVIOUS
  <2>2. Serial(records[r].content)
    BY <1>2
  <2>3. /\ Len(records[r].content) \in Nat
        /\ DOMAIN records[r].content = 1 .. Len(records[r].content)
    BY <2>2, SerialIs
  <2>4. IsFiniteSet(1 .. Len(records[r].content))
    BY <2>3, FS_Interval
  <2>5. IsFiniteSet({r})
    BY FS_Singleton
  <2>. QED BY <2>1, <2>3, <2>4, <2>5, FS_Product
<1>5. IsFiniteSet(T)
  <2>1. f \in Surjection(R, T)
    BY DEF Surjection
  <2>. HIDE DEF f, R, T
  <2>. QED BY <1>3, <2>1, FS_Surjection
<1>6. IsFiniteSet(UNION T)
  <2>. HIDE DEF T
  <2>. QED BY <1>4, <1>5, FS_UNION
<1>7. Cardinality(S) \in Nat
  <2>1. S \in SUBSET UNION T
    OBVIOUS
  <2>. HIDE DEF S, T
  <2>. QED BY <1>6, <2>1, FS_Subset, FS_CardinalityType
<1>8. Claude!ToolIdCounts(records)[id] = Cardinality(S)
  BY CorpusCardinality DEF Claude!ToolIdCounts
<1>. HIDE DEF S
<1>9. Cardinality(S) \in Int
  BY <1>7
<1>. QED BY <1>8, <1>9, Zenon

\* The blocks of a subject's message are as BlockTaken needs them.
LEMMA BlocksReady ==
    ASSUME NEW records, Serial(records),
           \A r \in DOMAIN records : Serial(records[r].content),
           NEW r \in Claude!SubjectDecoded(records), records[r].message,
           NEW b \in DOMAIN records[r].content
    PROVE  BlockReady(records[r], r, b, Claude!ToolIdCounts(records),
                      Claude!ToolIds(records), ClaudeV(records))
<1>. DEFINE record == records[r]
            e(kind) == [kind |-> kind, pointer |-> <<r, b>>]
<1>1. /\ r \in DOMAIN records /\ record.attribution = "subject"
      /\ r \in Nat
  BY SerialIs DEF Claude!SubjectDecoded
<1>2. b \in Nat
  <2>1. Serial(record.content)
    BY <1>1
  <2>. QED BY <2>1, SerialIs
<1>3. <<r, b>> \in Place
  BY <1>1, <1>2 DEF Place
<1>4. ASSUME NEW kind \in {"turn", "tool-call", "reference", "test", "forge-action"},
             Claude!ClaudeTarget(records, e(kind)) \notin {None, "empty"}
      PROVE  <<kind, <<r, b>>>> \in ClaudeV(records)
  <2>. DEFINE v == <<kind, <<r, b>>>>
  <2>1. v \in {"turn", "tool-call", "reference", "test", "forge-action"} \X Place
    BY <1>3
  <2>2. v[1] = kind /\ v[2] = <<r, b>>
    OBVIOUS
  <2>. HIDE DEF v
  <2>3. v \in ClaudeV(records)
    BY <1>4, <2>1, <2>2 DEF ClaudeV
  <2>. QED BY <2>3 DEF v
<1>5. ASSUME record.type = "assistant",
             \A c \in DOMAIN record.content : record.content[c].type = "text",
             record.content[b].text \in {"plain", "paste"}
      PROVE  <<"turn", <<r, b>>>> \in ClaudeV(records)
  <2>1. Claude!ClaudeTarget(records, e("turn")) = record.content[b].text
    BY <1>1, <1>5 DEF Claude!ClaudeTarget
  <2>2. record.content[b].text \notin {None, "empty"}
    BY <1>5, EvidenceAssumption
  <2>. QED BY <1>4, <2>1, <2>2
<1>6. ASSUME record.type = "assistant", record.content[b].type = "tool_use",
             record.content[b].input,
             NEW kind \in {"tool-call", "reference", "test", "forge-action"}
      PROVE  <<kind, <<r, b>>>> \in ClaudeV(records)
  <2>1. Claude!ClaudeTarget(records, e(kind)) = "input"
    BY <1>1, <1>6 DEF Claude!ClaudeTarget
  <2>2. "input" \notin {None, "empty"}
    BY EvidenceAssumption
  <2>. QED BY <1>4, <2>1, <2>2
<1>7. ASSUME record.content[b].id # None
      PROVE  /\ record.content[b].id \in Claude!ToolIds(records)
             /\ Claude!ToolIdCounts(records)[record.content[b].id] \in Int
  <2>1. record.content[b].id \in Claude!ToolIds(records)
    BY <1>1, <1>7 DEF Claude!ToolIds
  <2>. QED BY <2>1, ToolIdsCounted
<1>. QED BY <1>1, <1>2, <1>5, <1>6, <1>7 DEF BlockReady

\* A record whose partials were taken is parsed.
LEMMA ParsedKnown ==
    ASSUME NEW acc, NEW records, NEW k \in Nat, NEW r \in Nat, r = k + 1,
           ClaudeKnown(acc, records, k), NEW parent,
           parent # None => parent \in Nat /\ parent < r, NEW taken,
           ClaudeTaking(taken, acc.events, r, Claude!ToolIds(records), ClaudeV(records))
    PROVE  ClaudeKnown(Claude!Parsed(acc, r, parent, taken), records, r)
<1>. DEFINE V == ClaudeV(records)
            gen == acc.generation
            events == acc.events \o Corp!EventsOf(r, parent, taken.partials)
            cov == Corp!Count(taken.coverage, {"records_parsed"})
<1>1. CorpusInv(acc.events, acc.coverage, acc.positions, k, gen, V)
  BY DEF ClaudeKnown
<1>2. /\ Underway(acc.events, taken.coverage, r, taken.partials, V)
      /\ Undated(taken.partials)
      /\ Located(acc.events, r, taken.partials, taken.positions)
      /\ DOMAIN taken.positions = Claude!ToolIds(records)
  BY DEF ClaudeTaking, Taking
<1>3. gen \in Int
  BY <1>1 DEF CorpusInv, Dated
<1>4. PartialsDated(taken.partials, gen, gen)
  BY <1>2, <1>3 DEF PartialsDated, Undated
<1>. HIDE DEF V, gen
<1>5. CorpusInv(events, cov, taken.positions, r, gen, V)
  BY <1>1, <1>2, <1>4, RecordAdded
<1>6. /\ Claude!EventsOf(r, parent, taken.partials) = Corp!EventsOf(r, parent, taken.partials)
      /\ Claude!Count(taken.coverage, {"records_parsed"}) = cov
  BY ClaudeShares
<1>7. Claude!Parsed(acc, r, parent, taken)
        = [events |-> events, positions |-> taken.positions, coverage |-> cov,
           generation |-> gen]
  BY <1>6, Zenon DEF Claude!Parsed, gen
<1>. HIDE DEF events, cov
<1>8. ClaudeKnown([events |-> events, positions |-> taken.positions, coverage |-> cov,
                   generation |-> gen], records, r)
  BY <1>2, <1>5 DEF ClaudeKnown, V
<1>. QED BY <1>7, <1>8

\* A record that counts for nothing.
LEMMA UncountedKnown ==
    ASSUME NEW acc, NEW records, NEW k \in Nat, NEW r \in Nat, r = k + 1,
           ClaudeKnown(acc, records, k), NEW cov,
           Underway(acc.events, cov, r, <<>>, ClaudeV(records)),
           NEW key \in {"records_malformed", "records_unsupported"}
    PROVE  ClaudeKnown(Claude!Uncounted(acc, cov, key), records, r)
<1>. DEFINE c == Corp!Count(cov, {key})
<1>1. CorpusInv(acc.events, acc.coverage, acc.positions, k, acc.generation,
                ClaudeV(records))
  BY DEF ClaudeKnown
<1>2. CorpusInv(acc.events, c, acc.positions, r, acc.generation, ClaudeV(records))
  BY <1>1, RecordSkipped
<1>3. Claude!Uncounted(acc, cov, key) = [acc EXCEPT !.coverage = c]
  BY ClaudeShares, Zenon DEF Claude!Uncounted
<1>. HIDE DEF c
<1>4. [acc EXCEPT !.coverage = c]
        = [events |-> acc.events, positions |-> acc.positions, coverage |-> c,
           generation |-> acc.generation]
  BY DEF ClaudeKnown
<1>5. DOMAIN acc.positions = Claude!ToolIds(records)
  BY DEF ClaudeKnown
<1>6. ClaudeKnown([events |-> acc.events, positions |-> acc.positions, coverage |-> c,
                   generation |-> acc.generation], records, r)
  BY <1>2, <1>5 DEF ClaudeKnown
<1>. QED BY <1>3, <1>4, <1>6

\* A compaction or a start of the session.
LEMMA LifecycleKnown ==
    ASSUME NEW acc, NEW records, NEW k \in Nat, NEW r \in Nat, r = k + 1,
           ClaudeKnown(acc, records, k), NEW parent,
           parent # None => parent \in Nat /\ parent < r, NEW record,
           record.type \in {"compact_boundary", "session_start"},
           record.generation \in Int \cup {None}
    PROVE  ClaudeKnown(Claude!TakeLifecycle(acc, r, parent, record), records, r)
<1>. DEFINE V == ClaudeV(records)
            gen == acc.generation
            x == Claude!LifecycleEvent(acc, record)
            high == IF x.generation # None THEN x.generation ELSE gen
            events == acc.events \o Corp!EventsOf(r, parent, <<x>>)
            cov == Corp!Count(acc.coverage, {"records_parsed"})
<1>1. /\ CorpusInv(acc.events, acc.coverage, acc.positions, k, gen, V)
      /\ DOMAIN acc.positions = Claude!ToolIds(records)
  BY DEF ClaudeKnown
<1>2. gen \in Int /\ acc.coverage \in [Corp!CoverageKeys -> Int]
  BY <1>1 DEF CorpusInv, Dated, Balanced
<1>3. /\ Serial(acc.events)
      /\ Underway(acc.events, acc.coverage, r, <<>>, V)
      /\ Located(acc.events, r, <<>>, acc.positions)
  BY <1>1, RecordStarts
<1>4. Grows(acc.coverage, acc.coverage, 0, 0, 0)
  BY <1>2, CoverageGrows
<1>. HIDE DEF V
<1>5. /\ Underway(acc.events, acc.coverage, r, <<x>>, V)
      /\ x.generation # None => x.generation \in Int /\ x.generation > gen
  <2>1. CASE record.type = "compact_boundary"
    <3>. DEFINE g == IF record.generation # None /\ record.generation > gen
                       THEN record.generation ELSE None
                y == [Corp!Partial("context-boundary") EXCEPT !.generation = g]
    <3>1. x = y
      BY <2>1, ClaudeShares DEF Claude!LifecycleEvent
    <3>2. y.kind = "context-boundary" /\ y.pointer = None /\ y.relation = None
          /\ y.generation = g
      BY DEF Corp!Partial
    <3>3. g # None => g \in Int /\ g > gen
      BY EvidenceAssumption
    <3>. HIDE DEF x, y, g
    <3>4. Underway(acc.events, acc.coverage, r, <<x>>, V)
      BY <1>3, <1>4, <3>1, <3>2, BoundaryTaken
    <3>. QED BY <3>1, <3>2, <3>3, <3>4
  <2>2. CASE record.type = "session_start"
    <3>1. x = Corp!Partial("session_start")
      BY <2>2, ClaudeShares DEF Claude!LifecycleEvent
    <3>2. x.generation = None
      BY <3>1, PartialIs
    <3>. DEFINE qs == <<x>>
                none == <<>>
    <3>3. Serial(qs) /\ DOMAIN qs = {1} /\ qs[1] = x
      BY Alone
    <3>. HIDE DEF qs, x
    <3>4. Follows(acc.events, r, none, qs, V) /\ Weighs(qs, 0, 0, 0)
      BY <3>1, <3>3, LightFollows
    <3>5. Undated(none) /\ Underway(acc.events, acc.coverage, r, none, V)
      BY <1>3 DEF Undated
    <3>6. none \o qs = qs
      BY <3>3, Nothing
    <3>. HIDE DEF none
    <3>7. Underway(acc.events, acc.coverage, r, none \o qs, V)
      BY <1>3, <1>4, <3>4, <3>5, Advanced
    <3>. QED BY <3>2, <3>6, <3>7 DEF qs
  <2>. QED BY <2>1, <2>2
<1>. HIDE DEF x
<1>6. DOMAIN <<x>> = {1} /\ <<x>>[1] = x /\ Len(<<x>>) = 1 /\ Serial(<<x>>)
  BY Alone
<1>7. PartialsDated(<<x>>, gen, high)
  BY <1>2, <1>5, <1>6 DEF PartialsDated
<1>8. Located(acc.events, r, <<x>>, acc.positions)
  <2>. DEFINE none == <<>>
  <2>1. Serial(none) /\ Located(acc.events, r, none, acc.positions) /\ none \o <<x>> = <<x>>
    BY <1>3, <1>6, Alone, Nothing
  <2>. HIDE DEF none
  <2>2. Located(acc.events, r, none \o <<x>>, acc.positions)
    BY <1>6, <2>1, LocatedStays
  <2>. QED BY <2>1, <2>2
<1>. HIDE DEF high, gen
<1>9. CorpusInv(events, cov, acc.positions, r, high, V)
  BY <1>1, <1>5, <1>7, <1>8, RecordAdded
<1>10. Claude!TakeLifecycle(acc, r, parent, record)
         = [events |-> events, positions |-> acc.positions, coverage |-> cov,
            generation |-> high]
  <2>. DEFINE taken == [partials |-> <<x>>, positions |-> acc.positions,
                        coverage |-> acc.coverage]
              y == Claude!Parsed(acc, r, parent, taken)
  <2>1. /\ Claude!EventsOf(r, parent, <<x>>) = Corp!EventsOf(r, parent, <<x>>)
        /\ Claude!Count(acc.coverage, {"records_parsed"}) = cov
    BY ClaudeShares
  <2>2. taken.partials = <<x>> /\ taken.positions = acc.positions
        /\ taken.coverage = acc.coverage
    OBVIOUS
  <2>. HIDE DEF taken, cov, events
  <2>3. y = [events |-> events, positions |-> acc.positions, coverage |-> cov,
             generation |-> gen]
    BY <2>1, <2>2, Zenon DEF Claude!Parsed, events, gen
  <2>4. Claude!TakeLifecycle(acc, r, parent, record)
          = [y EXCEPT !.generation =
               IF x.generation # None THEN x.generation ELSE @]
    BY Zenon DEF Claude!TakeLifecycle, x, taken, y
  <2>. HIDE DEF y
  <2>5. y.generation = gen
    BY <2>3
  <2>6. [y EXCEPT !.generation = high]
          = [events |-> events, positions |-> acc.positions, coverage |-> cov,
             generation |-> high]
    BY <2>3
  <2>. QED BY <2>4, <2>5, <2>6 DEF high
<1>. HIDE DEF events, cov
<1>11. ClaudeKnown([events |-> events, positions |-> acc.positions, coverage |-> cov,
                    generation |-> high], records, r)
  BY <1>1, <1>9 DEF ClaudeKnown, V
<1>. QED BY <1>10, <1>11

\* The record that may not be the subject's.
LEMMA UnknownKnown ==
    ASSUME NEW acc, NEW records, NEW k \in Nat, NEW r \in Nat, r = k + 1,
           ClaudeKnown(acc, records, k), NEW record, Serial(record.content)
    PROVE  ClaudeKnown(Claude!TakeUnknown(acc, r, record), records, r)
<1>. DEFINE V == ClaudeV(records)
            taken == Claude!UnknownAuthorshipEvents(acc, record)
            v == Claude!TakeUnknown(acc, r, record)
            key == "records_unsupported"
<1>1. /\ CorpusInv(acc.events, acc.coverage, acc.positions, k, acc.generation, V)
      /\ DOMAIN acc.positions = Claude!ToolIds(records)
  BY DEF ClaudeKnown
<1>2. /\ Serial(acc.events)
      /\ Underway(acc.events, acc.coverage, r, <<>>, V)
      /\ Undated(<<>>)
      /\ Located(acc.events, r, <<>>, acc.positions)
  BY <1>1, RecordStarts
<1>3. Taking(<<>>, acc.positions, acc.coverage, acc.events, r, Claude!ToolIds(records), V)
  BY <1>1, <1>2 DEF Taking
<1>4. ClaudeTaking(taken, acc.events, r, Claude!ToolIds(records), V)
  BY <1>2, <1>3, UnknownTaken
<1>5. Underway(acc.events, taken.coverage, r, taken.partials, V)
  BY <1>4 DEF ClaudeTaking, Taking
<1>. HIDE DEF taken
<1>6. \/ v = Claude!Parsed(acc, r, None, taken)
      \/ taken.partials = <<>> /\ v = Claude!Uncounted(acc, taken.coverage, key)
      \/ v = Claude!Uncounted(acc, acc.coverage, key)
  BY DEF Claude!TakeUnknown, taken
<1>7. ClaudeKnown(Claude!Parsed(acc, r, None, taken), records, r)
  BY <1>4, ParsedKnown
<1>8. ASSUME taken.partials = <<>>
      PROVE  ClaudeKnown(Claude!Uncounted(acc, taken.coverage, key), records, r)
  <2>1. Underway(acc.events, taken.coverage, r, <<>>, V)
    BY <1>5, <1>8
  <2>. QED BY <2>1, UncountedKnown
<1>9. ClaudeKnown(Claude!Uncounted(acc, acc.coverage, key), records, r)
  BY <1>2, UncountedKnown
<1>. HIDE DEF v
<1>10. ClaudeKnown(v, records, r)
  BY <1>6, <1>7, <1>8, <1>9
<1>. QED BY <1>10 DEF v

\* One more Claude record keeps ClaudeKnown, whichever kind it is.
LEMMA RecordKnown ==
    ASSUME NEW records \in Seq(ClaudeLine), NEW acc, NEW k \in Nat, NEW r \in Nat,
           r = k + 1, r \in DOMAIN records, ClaudeKnown(acc, records, k), NEW side
    PROVE  ClaudeKnown(Claude!TakeRecord(acc, r, records, side,
                                         Claude!ToolIdCounts(records)), records, r)
<1>. DEFINE V == ClaudeV(records)
            ids == Claude!ToolIds(records)
            counts == Claude!ToolIdCounts(records)
            record == records[r]
            parent == Claude!ParentLink(records, r)
            blank == [partials |-> <<>>, positions |-> acc.positions,
                      coverage |-> acc.coverage]
            taken == Claude!MessageEvents(acc, r, record, side, counts)
            v == Claude!TakeRecord(acc, r, records, side, counts)
<1>0. Serial(records)
  <2>1. \A i \in DOMAIN records : records[i] \in {records[j] : j \in DOMAIN records}
    OBVIOUS
  <2>2. Len(records) \in Nat /\ DOMAIN records = 1 .. Len(records)
        /\ records = [i \in 1 .. Len(records) |-> records[i]]
    OBVIOUS
  <2>. QED BY <2>2, SerialOf
<1>1. \A q \in DOMAIN records :
         /\ Serial(records[q].content)
         /\ records[q].generation \in Int \cup {None}
         /\ records[q].metadata \in Seq({"model", "token-usage"})
  <2>1. \A q \in DOMAIN records : records[q] \in ClaudeLine
    OBVIOUS
  <2>. QED BY <2>1, EvidenceAssumption DEF LineForm, Serial
<1>2. /\ CorpusInv(acc.events, acc.coverage, acc.positions, k, acc.generation, V)
      /\ DOMAIN acc.positions = ids
  BY DEF ClaudeKnown
<1>3. /\ Serial(acc.events)
      /\ Underway(acc.events, acc.coverage, r, <<>>, V)
      /\ Undated(<<>>)
      /\ Located(acc.events, r, <<>>, acc.positions)
      /\ Shaped(acc.events, k, V)
  BY <1>2, RecordStarts DEF CorpusInv
<1>4. Taking(<<>>, acc.positions, acc.coverage, acc.events, r, ids, V)
  BY <1>2, <1>3 DEF Taking
<1>5. parent # None => parent \in Nat /\ parent < r
  BY <1>0, ParentEarlier
<1>. HIDE DEF parent
<1>6. \/ v = Claude!Uncounted(acc, acc.coverage, "records_malformed")
      \/ v = Claude!TakeUnknown(acc, r, record)
      \/ v = Claude!Uncounted(acc, acc.coverage, "records_unsupported")
      \/ /\ r \in Claude!SubjectDecoded(records) /\ record.message
         /\ v = Claude!Parsed(acc, r, parent, taken)
      \/ /\ record.type \in {"compact_boundary", "session_start"}
         /\ v = Claude!TakeLifecycle(acc, r, parent, record)
      \/ v = Claude!Parsed(acc, r, parent, blank)
  BY DEF Claude!TakeRecord, parent
<1>7. \A key \in {"records_malformed", "records_unsupported"} :
         ClaudeKnown(Claude!Uncounted(acc, acc.coverage, key), records, r)
  BY <1>3, UncountedKnown
<1>8. ClaudeKnown(Claude!TakeUnknown(acc, r, record), records, r)
  <2>1. Serial(record.content)
    BY <1>1
  <2>. QED BY <2>1, UnknownKnown
<1>9. ASSUME r \in Claude!SubjectDecoded(records), record.message
      PROVE  ClaudeKnown(Claude!Parsed(acc, r, parent, taken), records, r)
  <2>1. \A b \in DOMAIN record.content : BlockReady(record, r, b, counts, ids, V)
    BY <1>0, <1>1, <1>9, BlocksReady
  <2>2. Serial(record.content) /\ record.metadata \in Seq({"model", "token-usage"})
    BY <1>1
  <2>. HIDE DEF counts, ids, V
  <2>3. ClaudeTaking(taken, acc.events, r, ids, V)
    BY <1>3, <1>4, <2>1, <2>2, MessageTaken
  <2>. HIDE DEF taken
  <2>. QED BY <1>5, <2>3, ParsedKnown DEF ids, V
<1>10. ASSUME record.type \in {"compact_boundary", "session_start"}
       PROVE  ClaudeKnown(Claude!TakeLifecycle(acc, r, parent, record), records, r)
  <2>1. record.generation \in Int \cup {None}
    BY <1>1
  <2>2. record.type \in {"compact_boundary", "session_start"}
    BY <1>10
  <2>. HIDE DEF record
  <2>. QED BY <1>5, <2>1, <2>2, LifecycleKnown
<1>11. ClaudeKnown(Claude!Parsed(acc, r, parent, blank), records, r)
  <2>. DEFINE none == <<>>
  <2>1. Taking(none, acc.positions, acc.coverage, acc.events, r, ids, V)
    BY <1>4
  <2>. HIDE DEF none
  <2>2. ClaudeTaking([partials |-> none, positions |-> acc.positions,
                      coverage |-> acc.coverage], acc.events, r, ids, V)
    BY <2>1 DEF ClaudeTaking
  <2>3. ClaudeTaking(blank, acc.events, r, ids, V)
    BY <2>2 DEF none
  <2>. HIDE DEF blank
  <2>. QED BY <1>5, <2>3, ParsedKnown
<1>. HIDE DEF v
<1>12. ClaudeKnown(v, records, r)
  BY <1>6, <1>7, <1>8, <1>9, <1>10, <1>11
<1>. QED BY <1>12 DEF v

\* Nothing is known at first.
ClaudeOrigin(records) ==
    [events     |-> <<>>,
     positions  |-> [id \in Claude!ToolIds(records) |-> None],
     coverage   |-> Claude!NothingCovered,
     generation |-> -1]

\* An empty corpus is within CorpusInv.
LEMMA CorpusBegins ==
    ASSUME NEW positions, \A id \in DOMAIN positions : positions[id] = None, NEW V
    PROVE  CorpusInv(<<>>, Corp!NothingCovered, positions, 0, -1, V)
<1>. DEFINE none == <<>>
            cov == Corp!NothingCovered
<1>1. Serial(none) /\ DOMAIN none = {}
  BY Alone
<1>2. /\ cov \in [Corp!CoverageKeys -> Int]
      /\ \A key \in {"records_parsed", "records_malformed", "records_unsupported",
                     "user_turns_ambiguous", "blocks_seen", "blocks_unsupported",
                     "content_references", "content_unknown"} : cov[key] = 0
  BY DEF Corp!NothingCovered, Corp!CoverageKeys
<1>. HIDE DEF none, cov
<1>3. Weighs(none, 0, 0, 0)
  BY <1>1, LightWeighs
<1>4. Balanced(cov, 0, 0, 0)
  BY <1>2 DEF Balanced
<1>5. Parses(cov, 0, none)
  <2>1. RecordsOf(none) = {}
    BY <1>1 DEF RecordsOf
  <2>2. Cardinality(RecordsOf(none)) = 0
    BY <2>1, FS_EmptySet
  <2>. QED BY <1>2, <2>2 DEF Parses
<1>6. Shaped(none, 0, V) /\ Placed(none) /\ Bound(none) /\ Dated(none, -1)
  <2>1. Shaped(none, 0, V)
    BY <1>1 DEF Shaped
  <2>2. Placed(none) /\ Bound(none)
    BY <1>1 DEF Placed, Bound
  <2>3. Dated(none, -1)
    BY <1>1 DEF Dated
  <2>. QED BY <2>1, <2>2, <2>3
<1>7. Located(none, 0, <<>>, positions)
  BY DEF Located
<1>8. CorpusInv(none, cov, positions, 0, -1, V)
  BY <1>3, <1>4, <1>5, <1>6, <1>7 DEF CorpusInv, Weighs
<1>. QED BY <1>8 DEF none, cov

\* What is known after each of the first m records.
ClaudeRecords(records, side, counts, m, f) ==
    f = [b \in 0 .. m |-> IF b = 0 THEN ClaudeOrigin(records)
                          ELSE Claude!TakeRecord(f[b - 1], b, records, side, counts)]

\* The recursion over a session's records has a solution.
LEMMA ClaudeRecordsExists ==
    ASSUME NEW records, NEW side, NEW counts
    PROVE  \A m \in Nat : \E f : ClaudeRecords(records, side, counts, m, f)
<1>. DEFINE D == {m \in Nat : ~ \E f : ClaudeRecords(records, side, counts, m, f)}
            start == ClaudeOrigin(records)
            more(old, b) == Claude!TakeRecord(old, b, records, side, counts)
<1>1. SUFFICES ASSUME D # {} PROVE FALSE
  OBVIOUS
<1>2. PICK m \in D : \A k \in D : m <= k
  BY <1>1, Smallest
<1>3. m # 0
  <2>1. ClaudeRecords(records, side, counts, 0, [b \in 0 .. 0 |-> start])
    BY DEF ClaudeRecords
  <2>. QED BY <1>2, <2>1
<1>4. PICK f : ClaudeRecords(records, side, counts, m - 1, f)
  BY <1>2, <1>3
<1>. DEFINE g == [b \in 0 .. m |-> IF b = m THEN more(f[m - 1], m) ELSE f[b]]
<1>5. ClaudeRecords(records, side, counts, m, g)
  <2>0. \A b \in 0 .. m - 1 : f[b] = IF b = 0 THEN start ELSE more(f[b - 1], b)
    BY <1>4 DEF ClaudeRecords
  <2>. HIDE DEF more, start
  <2>1. ASSUME NEW b \in 0 .. m
        PROVE  g[b] = IF b = 0 THEN start ELSE more(g[b - 1], b)
    <3>1. CASE b = m
      BY <1>2, <1>3, <3>1
    <3>2. CASE b # m
      <4>1. b \in 0 .. m - 1 /\ g[b] = f[b] /\ b - 1 # m
        BY <1>2, <1>3, <3>2
      <4>2. b # 0 => g[b - 1] = f[b - 1]
        BY <1>2, <4>1
      <4>. QED BY <2>0, <4>1, <4>2
    <3>. QED BY <3>1, <3>2
  <2>2. g = [b \in 0 .. m |-> IF b = 0 THEN start ELSE more(g[b - 1], b)]
    <3>1. g = [b \in 0 .. m |-> g[b]]
      OBVIOUS
    <3>. HIDE DEF g
    <3>. QED BY <2>1, <3>1
  <2>. QED BY <2>2 DEF ClaudeRecords, more, start
<1>. QED BY <1>2, <1>5

\* Of whatever records there are, the Claude adapter makes a corpus that the
\* validator accepts and whose pointers all lead somewhere.
THEOREM AnyClaudeCorpus ==
    ASSUME NEW records \in Seq(ClaudeLine)
    PROVE  LET corpus == Claude!NormalizeClaude(records)
           IN  /\ Corp!Accepted(corpus)
               /\ \A i \in DOMAIN corpus.events :
                    corpus.events[i].pointer # None =>
                      Claude!ClaudeTarget(records, corpus.events[i]) \notin {None, "empty"}
<1>. DEFINE m == Len(records)
            side == Claude!SidechainMode(records)
            counts == Claude!ToolIdCounts(records)
            f == CHOOSE f : ClaudeRecords(records, side, counts, m, f)
            Fine(n) == ClaudeKnown(f[n], records, n)
            D == {n \in 0 .. m : ~Fine(n)}
            all == f[m]
            V == ClaudeV(records)
            corpus == Claude!NormalizeClaude(records)
<1>0. m \in Nat /\ DOMAIN records = 1 .. m
  OBVIOUS
<1>1. corpus = [events |-> Claude!JoinForgeOutcomes(all.events),
                coverage |-> all.coverage, admitted |-> m]
  BY DEF Claude!NormalizeClaude, ClaudeRecords, ClaudeOrigin
<1>2. ClaudeRecords(records, side, counts, m, f)
  <2>. HIDE DEF side, counts
  <2>1. \E g : ClaudeRecords(records, side, counts, m, g)
    BY <1>0, ClaudeRecordsExists
  <2>. QED BY <2>1
<1>. HIDE DEF f, side
<1>3. /\ f[0] = ClaudeOrigin(records)
      /\ \A n \in 1 .. m : f[n] = Claude!TakeRecord(f[n - 1], n, records, side, counts)
  <2>1. \A n \in 0 .. m : f[n] = IF n = 0 THEN ClaudeOrigin(records)
                          ELSE Claude!TakeRecord(f[n - 1], n, records, side, counts)
    BY <1>2 DEF ClaudeRecords
  <2>2. 0 \in 0 .. m /\ \A n \in 1 .. m : n \in 0 .. m /\ n # 0
    BY <1>0
  <2>. HIDE DEF m, counts
  <2>. QED BY <2>1, <2>2
<1>4. Fine(0)
  <2>. DEFINE none == <<>>
              cov == Corp!NothingCovered
              positions == [id \in Claude!ToolIds(records) |-> None]
  <2>1. DOMAIN positions = Claude!ToolIds(records)
        /\ \A id \in DOMAIN positions : positions[id] = None
    OBVIOUS
  <2>2. ClaudeOrigin(records) = [events |-> none, positions |-> positions,
                                 coverage |-> cov, generation |-> -1]
    BY ClaudeShares DEF ClaudeOrigin
  <2>. HIDE DEF positions, V
  <2>3. CorpusInv(none, cov, positions, 0, -1, V)
    BY <2>1, CorpusBegins
  <2>. HIDE DEF none, cov
  <2>4. ClaudeKnown([events |-> none, positions |-> positions, coverage |-> cov,
                     generation |-> -1], records, 0)
    BY <2>1, <2>3 DEF ClaudeKnown, V
  <2>. QED BY <1>3, <2>2, <2>4
<1>5. ASSUME NEW n \in 1 .. m, Fine(n - 1) PROVE Fine(n)
  <2>1. n - 1 \in Nat /\ n \in Nat /\ n = (n - 1) + 1 /\ n \in DOMAIN records
    BY <1>0
  <2>2. ClaudeKnown(Claude!TakeRecord(f[n - 1], n, records, side, counts), records, n)
    BY <1>5, <2>1, RecordKnown
  <2>. QED BY <1>3, <2>2
<1>. HIDE DEF Fine, m
<1>6. ASSUME D # {} PROVE FALSE
  <2>1. D \subseteq Nat
    BY <1>0
  <2>2. PICK n \in D : \A l \in D : n <= l
    <3>. HIDE DEF D
    <3>. QED BY <1>6, <2>1, Smallest
  <2>3. n \in 1 .. m
    BY <1>0, <1>4, <2>2
  <2>4. n - 1 \in 0 .. m /\ ~(n <= n - 1)
    BY <1>0, <2>3
  <2>5. Fine(n - 1)
    BY <2>2, <2>4
  <2>. QED BY <1>5, <2>2, <2>3, <2>5
<1>7. Fine(m)
  BY <1>0, <1>6
<1>8. CorpusInv(all.events, all.coverage, all.positions, m, all.generation, V)
  BY <1>7 DEF Fine, ClaudeKnown
<1>. DEFINE j == Corp!JoinForgeOutcomes(all.events)
<1>. HIDE DEF all
<1>9. /\ Corp!Accepted([events |-> j, coverage |-> all.coverage, admitted |-> m])
      /\ \A i \in DOMAIN j : j[i].pointer # None => <<j[i].kind, j[i].pointer>> \in V
  BY <1>0, <1>8, CorpusDone
<1>10. corpus = [events |-> j, coverage |-> all.coverage, admitted |-> m]
  BY <1>1, JoinIsShared
<1>. HIDE DEF j, corpus
<1>11. Corp!Accepted(corpus) /\ corpus.events = j
  BY <1>9, <1>10
<1>12. ASSUME NEW i \in DOMAIN corpus.events, corpus.events[i].pointer # None
       PROVE  Claude!ClaudeTarget(records, corpus.events[i]) \notin {None, "empty"}
  <2>. DEFINE e == corpus.events[i]
              w == <<e.kind, e.pointer>>
              d == [kind |-> w[1], pointer |-> w[2]]
  <2>1. w \in V
    BY <1>9, <1>11, <1>12
  <2>2. Claude!ClaudeTarget(records, d) \notin {None, "empty"}
    <3>. HIDE DEF w
    <3>. QED BY <2>1 DEF ClaudeV
  <2>3. d.kind = e.kind /\ d.pointer = e.pointer
    OBVIOUS
  <2>. HIDE DEF e, d
  <2>4. Claude!ClaudeTarget(records, d) = Claude!ClaudeTarget(records, e)
    BY <2>3, Zenon DEF Claude!ClaudeTarget
  <2>. QED BY <2>2, <2>4 DEF e
<1>. QED BY <1>11, <1>12 DEF corpus

-----------------------------------------------------------------------------
(* The Codex adapter.                                                      *)

CodexTaking(acc, positions, events, r, ids, V) ==
    /\ acc = [partials |-> acc.partials, coverage |-> acc.coverage]
    /\ Taking(acc.partials, positions, acc.coverage, events, r, ids, V)

\* Codex: a partial whose counts agree may be taken.
LEMMA PutTaken ==
    ASSUME NEW acc, NEW positions, NEW events, Serial(events), NEW r, NEW ids, NEW V,
           CodexTaking(acc, positions, events, r, ids, V), NEW x, NEW keys,
           NEW n \in Int, NEW p \in Int, NEW u \in Int,
           Follows(events, r, acc.partials, <<x>>, V), Weighs(<<x>>, n, p, u),
           Grows(acc.coverage, Corp!Count(acc.coverage, keys), n, p, u)
    PROVE  CodexTaking(Codex!Put(acc, x, keys), positions, events, r, ids, V)
<1>. DEFINE ps == acc.partials
            cov == acc.coverage
            c == Corp!Count(cov, keys)
<1>1. Taking(ps, positions, cov, events, r, ids, V)
  BY DEF CodexTaking
<1>2. Serial(ps)
  BY <1>1 DEF Taking, Underway, PartialsGood
<1>3. Taking(ps \o <<x>>, positions, c, events, r, ids, V)
  BY <1>1, TakingMore
<1>4. Append(ps, x) = ps \o <<x>> /\ Codex!Count(cov, keys) = c
  BY <1>2, Appending, CodexShares
<1>. HIDE DEF c
<1>5. Codex!Put(acc, x, keys) = [partials |-> ps \o <<x>>, coverage |-> c]
  BY <1>4, Zenon DEF Codex!Put
<1>. HIDE DEF ps, cov
<1>6. CodexTaking([partials |-> ps \o <<x>>, coverage |-> c], positions, events, r, ids, V)
  BY <1>3 DEF CodexTaking
<1>. QED BY <1>5, <1>6

\* Codex: a block that only counts may be taken.
LEMMA CoverTaken ==
    ASSUME NEW acc, NEW positions, NEW events, Serial(events), NEW r, NEW ids, NEW V,
           CodexTaking(acc, positions, events, r, ids, V), NEW keys,
           Grows(acc.coverage, Corp!Count(acc.coverage, keys), 0, 0, 0)
    PROVE  CodexTaking(Codex!Cover(acc, keys), positions, events, r, ids, V)
<1>. DEFINE ps == acc.partials
            cov == acc.coverage
            c == Corp!Count(cov, keys)
<1>1. Taking(ps, positions, cov, events, r, ids, V)
  BY DEF CodexTaking
<1>3. Taking(ps, positions, c, events, r, ids, V)
  BY <1>1, TakingStays
<1>4. Codex!Count(cov, keys) = c
  BY CodexShares
<1>. HIDE DEF c
<1>5. Codex!Cover(acc, keys) = [acc EXCEPT !.coverage = c]
  BY <1>4, Zenon DEF Codex!Cover
<1>6. [acc EXCEPT !.coverage = c] = [partials |-> ps, coverage |-> c]
  BY DEF CodexTaking
<1>. HIDE DEF ps, cov
<1>7. CodexTaking([partials |-> ps, coverage |-> c], positions, events, r, ids, V)
  BY <1>3 DEF CodexTaking
<1>. QED BY <1>5, <1>6, <1>7

\* Codex: a record begins with no partials.
LEMMA NothingTaken ==
    ASSUME NEW cov, NEW positions, NEW events, NEW r, NEW ids, NEW V,
           Taking(<<>>, positions, cov, events, r, ids, V)
    PROVE  CodexTaking(Codex!Nothing(cov), positions, events, r, ids, V)
<1>. DEFINE none == <<>>
<1>1. Taking(none, positions, cov, events, r, ids, V)
  OBVIOUS
<1>. HIDE DEF none
<1>2. CodexTaking([partials |-> none, coverage |-> cov], positions, events, r, ids, V)
  BY <1>1 DEF CodexTaking
<1>. QED BY <1>2 DEF none, Codex!Nothing

\* What a text of a message is, and a text of one that may not be the subject's.
LEMMA UnknownPut ==
    ASSUME NEW acc, NEW positions, NEW events, Serial(events), NEW r, NEW ids, NEW V,
           CodexTaking(acc, positions, events, r, ids, V),
           NEW kind \in {"turn", "pasted-span"}
    PROVE  CodexTaking(Codex!Put(acc, Codex!Partial(kind), {"blocks_seen", "content_unknown"}),
                       positions, events, r, ids, V)
<1>. DEFINE cov == acc.coverage
            x == Corp!Partial(kind)
<1>1. cov \in [Corp!CoverageKeys -> Int]
  BY DEF CodexTaking, Taking, Underway, Balanced
<1>2. Grows(cov, Corp!Count(cov, {"blocks_seen", "content_unknown"}), 0, 1, 1)
  BY <1>1, CoverageGrows
<1>3. Follows(events, r, acc.partials, <<x>>, V) /\ Weighs(<<x>>, 0, 1, 1)
  BY UnknownFollows
<1>4. Codex!Partial(kind) = x
  BY CodexShares
<1>. HIDE DEF x
<1>5. CodexTaking(Codex!Put(acc, x, {"blocks_seen", "content_unknown"}),
                  positions, events, r, ids, V)
  BY <1>2, <1>3, PutTaken
<1>. QED BY <1>4, <1>5

\* Codex: an unsupported block may be taken.
LEMMA UnsupportedCover ==
    ASSUME NEW acc, NEW positions, NEW events, Serial(events), NEW r, NEW ids, NEW V,
           CodexTaking(acc, positions, events, r, ids, V)
    PROVE  CodexTaking(Codex!Cover(acc, {"blocks_seen", "blocks_unsupported"}),
                       positions, events, r, ids, V)
<1>. DEFINE cov == acc.coverage
<1>1. cov \in [Corp!CoverageKeys -> Int]
  BY DEF CodexTaking, Taking, Underway, Balanced
<1>2. Grows(cov, Corp!Count(cov, {"blocks_seen", "blocks_unsupported"}), 0, 0, 0)
  BY <1>1, CoverageGrows
<1>. QED BY <1>2, CoverTaken

\* A text of the assistant that a pointer leads to.
TurnReady(record, r, b, V) ==
    /\ r \in Nat /\ b \in Nat
    /\ /\ record.role = "assistant"
       /\ record.content[b].type = "output_text"
       /\ record.content[b].text \in {"plain", "paste"}
       => <<"turn", <<r, b>>>> \in V

\* Codex: a block of a message keeps the invariant (_message_partials).
LEMMA MessageBlockTaken ==
    ASSUME NEW acc, NEW positions, NEW events, Serial(events), NEW r, NEW ids, NEW V,
           CodexTaking(acc, positions, events, r, ids, V), NEW record, NEW b,
           TurnReady(record, r, b, V)
    PROVE  CodexTaking(Codex!MessageBlock(acc, r, record, b), positions, events, r, ids, V)
<1>. DEFINE v == Codex!MessageBlock(acc, r, record, b)
            block == record.content[b]
            x == Corp!Pointing("turn", <<r, b>>)
            cov == acc.coverage
            pointed == Codex!Put(acc, x, {"blocks_seen", "content_references"})
<1>0. Codex!Pointing("turn", <<r, b>>) = x
  BY CodexShares
<1>1. \/ v = Codex!Cover(acc, {"blocks_seen", "blocks_unsupported"})
      \/ v = Codex!Put(acc, Codex!Partial("pasted-span"), {"blocks_seen", "content_unknown"})
      \/ /\ record.role = "assistant" /\ block.type = "output_text"
         /\ block.text \in {"plain", "paste"}
         /\ v = pointed
      \/ v = Codex!Put(acc, Codex!Partial("turn"), {"blocks_seen", "content_unknown"})
  BY <1>0 DEF Codex!MessageBlock
<1>2. CodexTaking(Codex!Cover(acc, {"blocks_seen", "blocks_unsupported"}),
                  positions, events, r, ids, V)
  BY UnsupportedCover
<1>3. \A kind \in {"turn", "pasted-span"} :
         CodexTaking(Codex!Put(acc, Codex!Partial(kind), {"blocks_seen", "content_unknown"}),
                     positions, events, r, ids, V)
  BY UnknownPut
<1>4. ASSUME record.role = "assistant", block.type = "output_text",
             block.text \in {"plain", "paste"}
      PROVE  CodexTaking(pointed, positions, events, r, ids, V)
  <2>1. cov \in [Corp!CoverageKeys -> Int]
    BY DEF CodexTaking, Taking, Underway, Balanced
  <2>2. Grows(cov, Corp!Count(cov, {"blocks_seen", "content_references"}), 1, 1, 0)
    BY <2>1, CoverageGrows
  <2>3. r \in Nat /\ b \in Nat /\ <<"turn", <<r, b>>>> \in V
    BY <1>4 DEF TurnReady
  <2>4. Follows(events, r, acc.partials, <<x>>, V) /\ Weighs(<<x>>, 1, 1, 0)
    BY <2>3, TurnFollows
  <2>. HIDE DEF x
  <2>. QED BY <2>2, <2>4, PutTaken
<1>. HIDE DEF v, pointed
<1>5. CodexTaking(v, positions, events, r, ids, V)
  BY <1>1, <1>2, <1>3, <1>4
<1>. QED BY <1>5 DEF v

\* Codex: so does a block of unknown authorship (_unknown_partials).
LEMMA UnknownBlockPut ==
    ASSUME NEW acc, NEW positions, NEW events, Serial(events), NEW r, NEW ids, NEW V,
           CodexTaking(acc, positions, events, r, ids, V), NEW record, NEW b
    PROVE  CodexTaking(Codex!UnknownBlock(acc, record, b), positions, events, r, ids, V)
<1>. DEFINE v == Codex!UnknownBlock(acc, record, b)
<1>1. \/ v = Codex!Cover(acc, {"blocks_seen", "blocks_unsupported"})
      \/ v = Codex!Put(acc, Codex!Partial("pasted-span"), {"blocks_seen", "content_unknown"})
  BY DEF Codex!UnknownBlock
<1>2. CodexTaking(Codex!Cover(acc, {"blocks_seen", "blocks_unsupported"}),
                  positions, events, r, ids, V)
  BY UnsupportedCover
<1>3. \A kind \in {"turn", "pasted-span"} :
         CodexTaking(Codex!Put(acc, Codex!Partial(kind), {"blocks_seen", "content_unknown"}),
                     positions, events, r, ids, V)
  BY UnknownPut
<1>. HIDE DEF v
<1>4. CodexTaking(v, positions, events, r, ids, V)
  BY <1>1, <1>2, <1>3
<1>. QED BY <1>4 DEF v

\* What is known of a message after each of its blocks.
CodexBlocks(coverage, r, record, m, f) ==
    f = [b \in 0 .. m |-> IF b = 0 THEN Codex!Nothing(coverage)
                          ELSE Codex!MessageBlock(f[b - 1], r, record, b)]

\* The recursion over the blocks of a message has a solution.
LEMMA CodexBlocksExists ==
    ASSUME NEW coverage, NEW r, NEW record
    PROVE  \A m \in Nat : \E f : CodexBlocks(coverage, r, record, m, f)
<1>. DEFINE D == {m \in Nat : ~ \E f : CodexBlocks(coverage, r, record, m, f)}
            start == Codex!Nothing(coverage)
            more(old, b) == Codex!MessageBlock(old, r, record, b)
<1>1. SUFFICES ASSUME D # {} PROVE FALSE
  OBVIOUS
<1>2. PICK m \in D : \A k \in D : m <= k
  BY <1>1, Smallest
<1>3. m # 0
  <2>1. CodexBlocks(coverage, r, record, 0, [b \in 0 .. 0 |-> start])
    BY DEF CodexBlocks
  <2>. QED BY <1>2, <2>1
<1>4. PICK f : CodexBlocks(coverage, r, record, m - 1, f)
  BY <1>2, <1>3
<1>. DEFINE g == [b \in 0 .. m |-> IF b = m THEN more(f[m - 1], m) ELSE f[b]]
<1>5. CodexBlocks(coverage, r, record, m, g)
  <2>0. \A b \in 0 .. m - 1 : f[b] = IF b = 0 THEN start ELSE more(f[b - 1], b)
    BY <1>4 DEF CodexBlocks
  <2>. HIDE DEF more, start
  <2>1. ASSUME NEW b \in 0 .. m
        PROVE  g[b] = IF b = 0 THEN start ELSE more(g[b - 1], b)
    <3>1. CASE b = m
      BY <1>2, <1>3, <3>1
    <3>2. CASE b # m
      <4>1. b \in 0 .. m - 1 /\ g[b] = f[b] /\ b - 1 # m
        BY <1>2, <1>3, <3>2
      <4>2. b # 0 => g[b - 1] = f[b - 1]
        BY <1>2, <4>1
      <4>. QED BY <2>0, <4>1, <4>2
    <3>. QED BY <3>1, <3>2
  <2>2. g = [b \in 0 .. m |-> IF b = 0 THEN start ELSE more(g[b - 1], b)]
    <3>1. g = [b \in 0 .. m |-> g[b]]
      OBVIOUS
    <3>. HIDE DEF g
    <3>. QED BY <2>1, <3>1
  <2>. QED BY <2>2 DEF CodexBlocks, more, start
<1>. QED BY <1>2, <1>5

\* A message keeps the invariant.
LEMMA CodexBlocksTaken ==
    ASSUME NEW coverage, NEW positions, NEW events, Serial(events), NEW r, NEW ids, NEW V,
           Taking(<<>>, positions, coverage, events, r, ids, V),
           NEW record, Serial(record.content),
           \A b \in DOMAIN record.content : TurnReady(record, r, b, V)
    PROVE  CodexTaking(Codex!MessagePartials(coverage, r, record), positions, events, r, ids, V)
<1>. DEFINE m == Len(record.content)
            f == CHOOSE f : CodexBlocks(coverage, r, record, m, f)
            Fine(n) == CodexTaking(f[n], positions, events, r, ids, V)
            D == {n \in 0 .. m : ~Fine(n)}
<1>0. m \in Nat /\ DOMAIN record.content = 1 .. m
  BY SerialIs
<1>1. Codex!MessagePartials(coverage, r, record) = f[m]
  BY DEF Codex!MessagePartials, CodexBlocks
<1>2. CodexBlocks(coverage, r, record, m, f)
  <2>1. \E g : CodexBlocks(coverage, r, record, m, g)
    BY <1>0, CodexBlocksExists
  <2>. QED BY <2>1
<1>. HIDE DEF f
<1>3. /\ f[0] = Codex!Nothing(coverage)
      /\ \A n \in 1 .. m : f[n] = Codex!MessageBlock(f[n - 1], r, record, n)
  <2>1. \A n \in 0 .. m : f[n] = IF n = 0 THEN Codex!Nothing(coverage)
                          ELSE Codex!MessageBlock(f[n - 1], r, record, n)
    BY <1>2 DEF CodexBlocks
  <2>2. 0 \in 0 .. m /\ \A n \in 1 .. m : n \in 0 .. m /\ n # 0
    BY <1>0
  <2>. HIDE DEF m
  <2>. QED BY <2>1, <2>2
<1>4. Fine(0)
  <2>1. CodexTaking(Codex!Nothing(coverage), positions, events, r, ids, V)
    BY NothingTaken
  <2>. QED BY <1>3, <2>1
<1>5. ASSUME NEW n \in 1 .. m, Fine(n - 1) PROVE Fine(n)
  <2>1. TurnReady(record, r, n, V)
    BY <1>0
  <2>2. CodexTaking(Codex!MessageBlock(f[n - 1], r, record, n), positions, events, r, ids, V)
    BY <1>5, <2>1, MessageBlockTaken
  <2>. QED BY <1>3, <2>2
<1>. HIDE DEF Fine, m
<1>6. ASSUME D # {} PROVE FALSE
  <2>1. D \subseteq Nat
    BY <1>0
  <2>2. PICK n \in D : \A l \in D : n <= l
    <3>. HIDE DEF D
    <3>. QED BY <1>6, <2>1, Smallest
  <2>3. n \in 1 .. m
    BY <1>0, <1>4, <2>2
  <2>4. n - 1 \in 0 .. m /\ ~(n <= n - 1)
    BY <1>0, <2>3
  <2>5. Fine(n - 1)
    BY <2>2, <2>4
  <2>. QED BY <1>5, <2>2, <2>3, <2>5
<1>7. Fine(m)
  BY <1>0, <1>6
<1>. QED BY <1>1, <1>7 DEF Fine

\* And of one that may not be the subject's.
CodexUnknown(coverage, record, m, f) ==
    f = [b \in 0 .. m |-> IF b = 0 THEN Codex!Nothing(coverage)
                          ELSE Codex!UnknownBlock(f[b - 1], record, b)]

\* The recursion over blocks of unknown authorship has a solution.
LEMMA CodexUnknownExists ==
    ASSUME NEW coverage, NEW record
    PROVE  \A m \in Nat : \E f : CodexUnknown(coverage, record, m, f)
<1>. DEFINE D == {m \in Nat : ~ \E f : CodexUnknown(coverage, record, m, f)}
            start == Codex!Nothing(coverage)
            more(old, b) == Codex!UnknownBlock(old, record, b)
<1>1. SUFFICES ASSUME D # {} PROVE FALSE
  OBVIOUS
<1>2. PICK m \in D : \A k \in D : m <= k
  BY <1>1, Smallest
<1>3. m # 0
  <2>1. CodexUnknown(coverage, record, 0, [b \in 0 .. 0 |-> start])
    BY DEF CodexUnknown
  <2>. QED BY <1>2, <2>1
<1>4. PICK f : CodexUnknown(coverage, record, m - 1, f)
  BY <1>2, <1>3
<1>. DEFINE g == [b \in 0 .. m |-> IF b = m THEN more(f[m - 1], m) ELSE f[b]]
<1>5. CodexUnknown(coverage, record, m, g)
  <2>0. \A b \in 0 .. m - 1 : f[b] = IF b = 0 THEN start ELSE more(f[b - 1], b)
    BY <1>4 DEF CodexUnknown
  <2>. HIDE DEF more, start
  <2>1. ASSUME NEW b \in 0 .. m
        PROVE  g[b] = IF b = 0 THEN start ELSE more(g[b - 1], b)
    <3>1. CASE b = m
      BY <1>2, <1>3, <3>1
    <3>2. CASE b # m
      <4>1. b \in 0 .. m - 1 /\ g[b] = f[b] /\ b - 1 # m
        BY <1>2, <1>3, <3>2
      <4>2. b # 0 => g[b - 1] = f[b - 1]
        BY <1>2, <4>1
      <4>. QED BY <2>0, <4>1, <4>2
    <3>. QED BY <3>1, <3>2
  <2>2. g = [b \in 0 .. m |-> IF b = 0 THEN start ELSE more(g[b - 1], b)]
    <3>1. g = [b \in 0 .. m |-> g[b]]
      OBVIOUS
    <3>. HIDE DEF g
    <3>. QED BY <2>1, <3>1
  <2>. QED BY <2>2 DEF CodexUnknown, more, start
<1>. QED BY <1>2, <1>5

\* A message of unknown authorship keeps the invariant.
LEMMA CodexUnknownTaken ==
    ASSUME NEW coverage, NEW positions, NEW events, Serial(events), NEW r, NEW ids, NEW V,
           Taking(<<>>, positions, coverage, events, r, ids, V),
           NEW record, Serial(record.content)
    PROVE  CodexTaking(Codex!UnknownMessage(coverage, record), positions, events, r, ids, V)
<1>. DEFINE m == Len(record.content)
            f == CHOOSE f : CodexUnknown(coverage, record, m, f)
            Fine(n) == CodexTaking(f[n], positions, events, r, ids, V)
            D == {n \in 0 .. m : ~Fine(n)}
<1>0. m \in Nat /\ DOMAIN record.content = 1 .. m
  BY SerialIs
<1>1. Codex!UnknownMessage(coverage, record) = f[m]
  BY DEF Codex!UnknownMessage, CodexUnknown
<1>2. CodexUnknown(coverage, record, m, f)
  <2>1. \E g : CodexUnknown(coverage, record, m, g)
    BY <1>0, CodexUnknownExists
  <2>. QED BY <2>1
<1>. HIDE DEF f
<1>3. /\ f[0] = Codex!Nothing(coverage)
      /\ \A n \in 1 .. m : f[n] = Codex!UnknownBlock(f[n - 1], record, n)
  <2>1. \A n \in 0 .. m : f[n] = IF n = 0 THEN Codex!Nothing(coverage)
                          ELSE Codex!UnknownBlock(f[n - 1], record, n)
    BY <1>2 DEF CodexUnknown
  <2>2. 0 \in 0 .. m /\ \A n \in 1 .. m : n \in 0 .. m /\ n # 0
    BY <1>0
  <2>. HIDE DEF m
  <2>. QED BY <2>1, <2>2
<1>4. Fine(0)
  <2>1. CodexTaking(Codex!Nothing(coverage), positions, events, r, ids, V)
    BY NothingTaken
  <2>. QED BY <1>3, <2>1
<1>5. ASSUME NEW n \in 1 .. m, Fine(n - 1) PROVE Fine(n)
  <2>2. CodexTaking(Codex!UnknownBlock(f[n - 1], record, n), positions, events, r, ids, V)
    BY <1>5, UnknownBlockPut
  <2>. QED BY <1>3, <2>2
<1>. HIDE DEF Fine, m
<1>6. ASSUME D # {} PROVE FALSE
  <2>1. D \subseteq Nat
    BY <1>0
  <2>2. PICK n \in D : \A l \in D : n <= l
    <3>. HIDE DEF D
    <3>. QED BY <1>6, <2>1, Smallest
  <2>3. n \in 1 .. m
    BY <1>0, <1>4, <2>2
  <2>4. n - 1 \in 0 .. m /\ ~(n <= n - 1)
    BY <1>0, <2>3
  <2>5. Fine(n - 1)
    BY <2>2, <2>4
  <2>. QED BY <1>5, <2>2, <2>3, <2>5
<1>7. Fine(m)
  BY <1>0, <1>6
<1>. QED BY <1>1, <1>7 DEF Fine

\* What has a pointer that the Codex resolver follows, to something.
CodexV(records) ==
    {v \in {"turn", "tool-call", "reference", "test", "forge-action"} \X Place :
       Codex!CodexTarget(records, [kind |-> v[1], pointer |-> v[2]])
         \notin {None, "empty"}}

\* What is known after k records.
CodexKnown(acc, records, k) ==
    /\ acc = [events |-> acc.events, coverage |-> acc.coverage,
              positions |-> acc.positions, model |-> acc.model,
              generation |-> acc.generation]
    /\ CorpusInv(acc.events, acc.coverage, acc.positions, k, acc.generation,
                 CodexV(records))
    /\ DOMAIN acc.positions = Codex!CallIds(records)

\* What a record comes to, when it leaves these positions and this generation.
CodexTaken(taken, acc, r, positions, high, ids, V) ==
    /\ Underway(acc.events, taken.coverage, r, taken.partials, V)
    /\ PartialsDated(taken.partials, acc.generation, high)
    /\ Located(acc.events, r, taken.partials, positions)
    /\ DOMAIN positions = ids

\* How often a session uses a call id is a number.
LEMMA CallIdsCounted ==
    ASSUME NEW records, Serial(records), NEW id \in Codex!CallIds(records)
    PROVE  Codex!CallIdCounts(records)[id] \in Int
<1>. DEFINE S == {r \in Codex!Subjects(records) : /\ records[r].type = "call"
                                                  /\ records[r].id = id}
<1>1. Len(records) \in Nat /\ DOMAIN records = 1 .. Len(records)
  BY SerialIs
<1>2. S \in SUBSET (1 .. Len(records))
  BY <1>1 DEF Codex!Subjects
<1>3. IsFiniteSet(1 .. Len(records))
  BY <1>1, FS_Interval
<1>4. Codex!CallIdCounts(records)[id] = Cardinality(S)
  BY CorpusCardinality DEF Codex!CallIdCounts
<1>. HIDE DEF S
<1>5. Cardinality(S) \in Nat
  BY <1>2, <1>3, FS_Subset, FS_CardinalityType
<1>. QED BY <1>4, <1>5

\* What the resolver follows to something that is not empty is in CodexV.
LEMMA CodexPointed ==
    ASSUME NEW records, NEW r \in Nat, NEW b \in Nat,
           NEW kind \in {"turn", "tool-call", "reference", "test", "forge-action"},
           Codex!CodexTarget(records, [kind |-> kind, pointer |-> <<r, b>>])
             \notin {None, "empty"}
    PROVE  <<kind, <<r, b>>>> \in CodexV(records)
<1>. DEFINE v == <<kind, <<r, b>>>>
<1>1. v \in {"turn", "tool-call", "reference", "test", "forge-action"} \X Place
  BY DEF Place
<1>2. v[1] = kind /\ v[2] = <<r, b>>
  OBVIOUS
<1>. HIDE DEF v
<1>3. v \in CodexV(records)
  BY <1>1, <1>2 DEF CodexV
<1>. QED BY <1>3 DEF v

\* The blocks of a subject's message are as MessageBlockTaken needs them.
LEMMA TurnsReady ==
    ASSUME NEW records, NEW r \in Nat, records[r].attribution = "subject",
           records[r].type = "message", Serial(records[r].content),
           NEW b \in DOMAIN records[r].content
    PROVE  TurnReady(records[r], r, b, CodexV(records))
<1>. DEFINE record == records[r]
<1>1. b \in Nat
  BY SerialIs
<1>2. ASSUME record.role = "assistant", record.content[b].type = "output_text",
             record.content[b].text \in {"plain", "paste"}
      PROVE  <<"turn", <<r, b>>>> \in CodexV(records)
  <2>1. Codex!CodexTarget(records, [kind |-> "turn", pointer |-> <<r, b>>])
          = record.content[b].text
    BY <1>2 DEF Codex!CodexTarget
  <2>2. record.content[b].text \notin {None, "empty"}
    BY <1>2, EvidenceAssumption
  <2>. QED BY <1>1, <2>1, <2>2, CodexPointed
<1>. QED BY <1>1, <1>2 DEF TurnReady

\* The input of a subject's call is one that the resolver finds.
LEMMA CallReady ==
    ASSUME NEW records, NEW r \in Nat, records[r].attribution = "subject",
           records[r].type = "call", records[r].input,
           NEW kind \in {"tool-call", "reference", "test", "forge-action"}
    PROVE  <<kind, <<r, 1>>>> \in CodexV(records)
<1>1. Codex!CodexTarget(records, [kind |-> kind, pointer |-> <<r, 1>>]) = "input"
  BY DEF Codex!CodexTarget
<1>2. "input" \notin {None, "empty"}
  BY EvidenceAssumption
<1>. QED BY <1>1, <1>2, CodexPointed

\* Most records have no generation and move no position.
LEMMA UndatedTaken ==
    ASSUME NEW acc, acc.generation \in Int, NEW taken, NEW positions, NEW r, NEW ids, NEW V,
           CodexTaking(taken, positions, acc.events, r, ids, V)
    PROVE  CodexTaken(taken, acc, r, positions, acc.generation, ids, V)
<1>1. PartialsDated(taken.partials, acc.generation, acc.generation)
  BY DEF CodexTaking, Taking, PartialsDated, Undated
<1>. QED BY <1>1 DEF CodexTaking, Taking, CodexTaken

\* A call keeps the invariant, whether its id is then located or not.
LEMMA CodexCallTaken ==
    ASSUME NEW acc, acc.generation \in Int, Serial(acc.events), NEW r \in Nat,
           NEW ids, NEW V,
           Taking(<<>>, acc.positions, acc.coverage, acc.events, r, ids, V),
           NEW record, NEW id,
           record.input =>
             \A k \in {"tool-call", "reference", "test", "forge-action"} :
                 <<k, <<r, 1>>>> \in V
    PROVE  LET taken == Codex!CodexCall(acc.coverage, r, record)
           IN  /\ CodexTaken(taken, acc, r, acc.positions, acc.generation, ids, V)
               /\ CodexTaken(taken, acc, r, [acc.positions EXCEPT ![id] = <<r, 1>>],
                             acc.generation, ids, V)
<1>. DEFINE none == <<>>
            at == <<r, 1>>
            pointer == IF record.input THEN <<r, 1>> ELSE None
            qs == Corp!CallPartials(record, pointer, at)
            cov == acc.coverage
            c == Corp!CountMany(Corp!Count(cov, {"blocks_seen"}), "content_references",
                                Corp!References(qs))
            moved == [acc.positions EXCEPT ![id] = at]
<1>1. Codex!CodexCall(cov, r, record) = [partials |-> qs, coverage |-> c]
  <2>1. Codex!CallPartials(record, pointer, at) = qs
    BY CodexShares
  <2>2. Codex!References(qs) = Corp!References(qs)
    BY CodexShares
  <2>3. Codex!CountMany(Codex!Count(cov, {"blocks_seen"}), "content_references",
                        Corp!References(qs)) = c
    BY CodexShares
  <2>. HIDE DEF qs, c
  <2>. QED BY <2>1, <2>2, <2>3, Zenon DEF Codex!CodexCall
<1>2. CallSeq(qs, pointer, at)
  BY CallPartialsIs
<1>3. pointer # None =>
        /\ pointer[1] = r
        /\ \A k \in {"tool-call", "reference", "test", "forge-action"} :
              <<k, pointer>> \in V
  OBVIOUS
<1>4. Serial(qs) /\ Corp!References(qs) \in Int
  <2>1. Serial(qs)
    BY <1>2 DEF CallSeq
  <2>. HIDE DEF qs
  <2>2. Corp!References(qs) \in Nat
    BY <2>1, Tallied
  <2>. QED BY <2>1, <2>2
<1>. HIDE DEF qs, pointer
<1>5. cov \in [Corp!CoverageKeys -> Int]
  BY DEF Taking, Underway, Balanced
<1>6. Grows(cov, c, Corp!References(qs), 1, 0)
  BY <1>4, <1>5, BlockGrows
<1>. HIDE DEF c
<1>7. Len(none) = 0 /\ Taking(none, acc.positions, cov, acc.events, r, ids, V)
      /\ none \o qs = qs
  BY <1>4, Alone, Nothing
<1>. HIDE DEF none
<1>8. at = <<r, Len(none) + 1>>
  BY <1>7
<1>. HIDE DEF at
<1>9. /\ Taking(none \o qs, acc.positions, c, acc.events, r, ids, V)
      /\ Taking(none \o qs, moved, c, acc.events, r, ids, V)
  BY <1>2, <1>3, <1>6, <1>7, <1>8, TakingCall
<1>. HIDE DEF cov, moved
<1>10. /\ CodexTaking([partials |-> qs, coverage |-> c], acc.positions, acc.events, r, ids, V)
       /\ CodexTaking([partials |-> qs, coverage |-> c], moved, acc.events, r, ids, V)
  BY <1>7, <1>9 DEF CodexTaking
<1>. DEFINE taken == [partials |-> qs, coverage |-> c]
<1>. HIDE DEF taken
<1>11. /\ CodexTaking(taken, acc.positions, acc.events, r, ids, V)
       /\ CodexTaking(taken, moved, acc.events, r, ids, V)
  BY <1>10 DEF taken
<1>12. /\ CodexTaken(taken, acc, r, acc.positions, acc.generation, ids, V)
       /\ CodexTaken(taken, acc, r, moved, acc.generation, ids, V)
  BY <1>11, UndatedTaken
<1>13. Codex!CodexCall(acc.coverage, r, record) = taken
  BY <1>1 DEF taken, cov
<1>. QED BY <1>12, <1>13 DEF moved, at

\* The results of calls.
LEMMA OutputTaken ==
    ASSUME NEW cov, NEW positions, NEW events, NEW k \in Nat, NEW r \in Nat, NEW ids, NEW V,
           Shaped(events, k, V), Taking(<<>>, positions, cov, events, r, ids, V),
           NEW record, NEW counts,
           record.id # None => record.id \in ids /\ counts[record.id] \in Int
    PROVE  CodexTaking(Codex!OutputPartials(cov, record, counts, positions),
                       positions, events, r, ids, V)
<1>. DEFINE none == Codex!Nothing(cov)
            x == [Corp!Partial("tool-result") EXCEPT
                    !.relation = Corp!ToolRelation(record.id, counts, positions),
                    !.status   = record.status]
<1>1. Serial(events) /\ Located(events, r, <<>>, positions) /\ DOMAIN positions = ids
      /\ cov \in [Corp!CoverageKeys -> Int]
  BY DEF Shaped, Taking, Underway, Balanced
<1>2. Codex!OutputPartials(cov, record, counts, positions)
        = Codex!Put(none, x, {"blocks_seen", "content_unknown"})
  <2>1. /\ Codex!Partial("tool-result") = Corp!Partial("tool-result")
        /\ Codex!ToolRelation(record.id, counts, positions)
             = Corp!ToolRelation(record.id, counts, positions)
    BY CodexShares
  <2>. QED BY <2>1, Zenon DEF Codex!OutputPartials
<1>3. none.partials = <<>> /\ none.coverage = cov
  BY DEF Codex!Nothing
<1>4. CodexTaking(none, positions, events, r, ids, V)
  BY NothingTaken
<1>5. Follows(events, r, <<>>, <<x>>, V) /\ Weighs(<<x>>, 0, 1, 1)
  <2>1. Serial(<<>>)
    BY Alone
  <2>. QED BY <1>1, <2>1, ResultFollows
<1>6. Grows(cov, Corp!Count(cov, {"blocks_seen", "content_unknown"}), 0, 1, 1)
  BY <1>1, CoverageGrows
<1>. HIDE DEF none, x
<1>7. /\ Follows(events, r, none.partials, <<x>>, V)
      /\ Grows(none.coverage, Corp!Count(none.coverage, {"blocks_seen", "content_unknown"}),
               0, 1, 1)
  BY <1>3, <1>5, <1>6
<1>8. CodexTaking(Codex!Put(none, x, {"blocks_seen", "content_unknown"}),
                  positions, events, r, ids, V)
  BY <1>1, <1>4, <1>5, <1>7, PutTaken
<1>. QED BY <1>2, <1>8

\* Events that stand for no block, one after the other.
Light(qs) ==
    /\ Serial(qs)
    /\ \A n \in DOMAIN qs : \E kind :
          /\ qs[n] = Corp!Partial(kind)
          /\ kind \notin {"turn", "pasted-span", "tool-call", "tool-result",
                          "forge-action", "reference"}

\* Session starts, models and token counts weigh nothing.
LEMMA LightOnes ==
    /\ Light(<<>>)
    /\ \A kind \in {"session_start", "model", "model-change", "token-usage"} :
         Light(<<Corp!Partial(kind)>>)
<1>1. Serial(<<>>) /\ DOMAIN <<>> = {}
  BY Alone
<1>2. ASSUME NEW kind \in {"session_start", "model", "model-change", "token-usage"}
      PROVE  Light(<<Corp!Partial(kind)>>)
  <2>. DEFINE x == Corp!Partial(kind)
              qs == <<x>>
  <2>1. Serial(qs) /\ DOMAIN qs = {1} /\ qs[1] = x
    BY Alone
  <2>. HIDE DEF qs
  <2>2. Light(qs)
    BY <2>1 DEF Light
  <2>. QED BY <2>2 DEF qs
<1>. QED BY <1>1, <1>2 DEF Light

\* Two sequences that weigh nothing weigh nothing together.
LEMMA LightMore ==
    ASSUME NEW a, NEW b, Light(a), Light(b)
    PROVE  Light(a \o b)
<1>. DEFINE c == a \o b
            m == Len(a)
<1>1. /\ Serial(a) /\ Serial(b) /\ m \in Nat /\ DOMAIN a = 1 .. m
      /\ Len(b) \in Nat /\ DOMAIN b = 1 .. Len(b)
  BY SerialIs DEF Light
<1>2. /\ Serial(c) /\ DOMAIN c = 1 .. m + Len(b)
      /\ \A i \in 1 .. m : c[i] = a[i]
      /\ \A i \in 1 .. Len(b) : c[m + i] = b[i]
  BY <1>1, After
<1>. HIDE DEF c, m
<1>3. ASSUME NEW n \in DOMAIN c
      PROVE  \E kind :
               /\ c[n] = Corp!Partial(kind)
               /\ kind \notin {"turn", "pasted-span", "tool-call", "tool-result",
                               "forge-action", "reference"}
  <2>1. n \in 1 .. m + Len(b)
    BY <1>2
  <2>2. CASE n <= m
    <3>1. n \in DOMAIN a /\ c[n] = a[n]
      BY <1>1, <1>2, <2>1, <2>2
    <3>. QED BY <3>1 DEF Light
  <2>3. CASE n > m
    <3>1. PICK j \in Int : j = n - m
      BY <1>1, <2>1
    <3>2. j \in 1 .. Len(b) /\ n = m + j
      BY <1>1, <2>1, <2>3, <3>1
    <3>3. j \in DOMAIN b /\ c[n] = b[j]
      BY <1>1, <1>2, <3>2
    <3>. QED BY <3>3 DEF Light
  <2>. QED BY <1>1, <2>1, <2>2, <2>3
<1>4. Light(c)
  BY <1>2, <1>3 DEF Light
<1>. QED BY <1>4 DEF c

\* What weighs nothing may be taken.
LEMMA LightTaken ==
    ASSUME NEW cov, NEW positions, NEW events, Serial(events), NEW r, NEW ids, NEW V,
           Taking(<<>>, positions, cov, events, r, ids, V), NEW qs, Light(qs)
    PROVE  CodexTaking([partials |-> qs, coverage |-> cov], positions, events, r, ids, V)
<1>. DEFINE none == <<>>
<1>1. cov \in [Corp!CoverageKeys -> Int] /\ Serial(qs)
  BY DEF Taking, Underway, Balanced, Light
<1>2. Follows(events, r, none, qs, V) /\ Weighs(qs, 0, 0, 0)
  BY LightFollows DEF Light
<1>3. Grows(cov, cov, 0, 0, 0)
  BY <1>1, CoverageGrows
<1>4. none \o qs = qs
  BY <1>1, Nothing
<1>5. Taking(none, positions, cov, events, r, ids, V)
  OBVIOUS
<1>. HIDE DEF none
<1>6. Taking(none \o qs, positions, cov, events, r, ids, V)
  BY <1>2, <1>3, <1>5, TakingMore
<1>. QED BY <1>4, <1>6 DEF CodexTaking

\* Settings keep the invariant (_metadata_partials).
LEMMA MetadataTaken ==
    ASSUME NEW acc, Serial(acc.events), NEW r, NEW ids, NEW V,
           Taking(<<>>, acc.positions, acc.coverage, acc.events, r, ids, V), NEW record
    PROVE  CodexTaking(Codex!MetadataPartials(acc, record), acc.positions, acc.events,
                       r, ids, V)
<1>. DEFINE a == IF record.type = "session_meta" THEN <<Corp!Partial("session_start")>>
                                                 ELSE <<>>
            b == IF record.model # None \/ record.provider
                   THEN <<Corp!Partial("model")>> ELSE <<>>
            c == IF record.model # None /\ acc.model # None /\ record.model # acc.model
                   THEN <<Corp!Partial("model-change")>> ELSE <<>>
<1>1. Light(a) /\ Light(b) /\ Light(c)
  <2>1. /\ Light(<<>>) /\ Light(<<Corp!Partial("session_start")>>)
        /\ Light(<<Corp!Partial("model")>>) /\ Light(<<Corp!Partial("model-change")>>)
    BY LightOnes
  <2>. QED BY <2>1
<1>2. /\ Codex!Partial("session_start") = Corp!Partial("session_start")
      /\ Codex!Partial("model") = Corp!Partial("model")
      /\ Codex!Partial("model-change") = Corp!Partial("model-change")
  BY CodexShares
<1>3. Codex!MetadataPartials(acc, record)
        = [partials |-> (a \o b) \o c, coverage |-> acc.coverage]
  BY <1>2, Zenon DEF Codex!MetadataPartials
<1>. HIDE DEF a, b, c
<1>4. Light(a \o b)
  BY <1>1, LightMore
<1>5. Light((a \o b) \o c)
  BY <1>1, <1>4, LightMore
<1>. QED BY <1>3, <1>5, LightTaken

\* Token counts keep it (_token_partial).
LEMMA TokensTaken ==
    ASSUME NEW cov, NEW positions, NEW events, Serial(events), NEW r, NEW ids, NEW V,
           Taking(<<>>, positions, cov, events, r, ids, V)
    PROVE  CodexTaking(Codex!Put(Codex!Nothing(cov), Codex!Partial("token-usage"), {}),
                       positions, events, r, ids, V)
<1>. DEFINE none == Codex!Nothing(cov)
            x == Corp!Partial("token-usage")
<1>1. none.partials = <<>> /\ none.coverage = cov
  BY DEF Codex!Nothing
<1>2. cov \in [Corp!CoverageKeys -> Int]
  BY DEF Taking, Underway, Balanced
<1>3. CodexTaking(none, positions, events, r, ids, V)
  BY NothingTaken
<1>4. Follows(events, r, <<>>, <<x>>, V) /\ Weighs(<<x>>, 0, 0, 0)
  <2>. DEFINE qs == <<x>>
  <2>1. Light(qs)
    BY LightOnes
  <2>. HIDE DEF qs
  <2>2. Follows(events, r, <<>>, qs, V) /\ Weighs(qs, 0, 0, 0)
    BY <2>1, LightFollows DEF Light
  <2>. QED BY <2>2 DEF qs
<1>5. Grows(cov, Corp!Count(cov, {}), 0, 0, 0)
  BY <1>2, CoverageGrows
<1>6. Codex!Partial("token-usage") = x
  BY CodexShares
<1>. HIDE DEF none, x
<1>7. /\ Follows(events, r, none.partials, <<x>>, V)
      /\ Grows(none.coverage, Corp!Count(none.coverage, {}), 0, 0, 0)
  BY <1>1, <1>4, <1>5
<1>8. CodexTaking(Codex!Put(none, x, {}), positions, events, r, ids, V)
  BY <1>3, <1>4, <1>7, PutTaken
<1>. QED BY <1>6, <1>8 DEF none

\* The generation after a compaction.
CodexGeneration(acc, record) ==
    IF record.generation # None /\ record.generation > acc.generation
      THEN record.generation ELSE acc.generation

\* A compaction keeps it, with a generation past the others (_compaction_partials).
LEMMA CompactionTaken ==
    ASSUME NEW acc, acc.generation \in Int, Serial(acc.events), NEW r, NEW ids, NEW V,
           Taking(<<>>, acc.positions, acc.coverage, acc.events, r, ids, V), NEW record,
           record.generation \in Int \cup {None}
    PROVE  CodexTaken(Codex!CompactionPartials(acc, record), acc, r, acc.positions,
                      CodexGeneration(acc, record), ids, V)
<1>. DEFINE gen == acc.generation
            high == CodexGeneration(acc, record)
            g == IF record.generation # None /\ record.generation > gen
                   THEN record.generation ELSE None
            x == [Corp!Partial("context-boundary") EXCEPT !.generation = g]
            keys == IF record.text THEN {"blocks_seen", "content_unknown"} ELSE {}
            cov == acc.coverage
            c == Corp!Count(cov, keys)
            none == <<>>
<1>1. /\ Underway(acc.events, cov, r, <<>>, V) /\ Located(acc.events, r, <<>>, acc.positions)
      /\ DOMAIN acc.positions = ids
      /\ cov \in [Corp!CoverageKeys -> Int]
  BY DEF Taking, Underway, Balanced
<1>2. x.kind = "context-boundary" /\ x.pointer = None /\ x.relation = None
      /\ x.generation = g
  BY DEF Corp!Partial
<1>3. /\ high \in Int /\ gen <= high
      /\ g # None => g \in Int /\ gen < g /\ g <= high
  BY EvidenceAssumption DEF CodexGeneration
<1>4. Grows(cov, c, 0, 0, 0)
  BY <1>1, CoverageGrows
<1>5. Codex!CompactionPartials(acc, record)
        = [partials |-> Append(<<>>, x), coverage |-> c]
  <2>1. Codex!Partial("context-boundary") = Corp!Partial("context-boundary")
    BY CodexShares
  <2>2. Codex!Count(cov, keys) = c
    BY CodexShares
  <2>3. Codex!Nothing(cov).partials = <<>> /\ Codex!Nothing(cov).coverage = cov
    BY DEF Codex!Nothing
  <2>4. Codex!CompactionPartials(acc, record) = Codex!Put(Codex!Nothing(cov), x, keys)
    BY <2>1, Zenon DEF Codex!CompactionPartials
  <2>. HIDE DEF x, keys, c, cov
  <2>. QED BY <2>2, <2>3, <2>4, Zenon DEF Codex!Put
<1>. HIDE DEF x, g, c, high
<1>6. /\ Append(none, x) = none \o <<x>> /\ none \o <<x>> = <<x>>
      /\ DOMAIN <<x>> = {1} /\ <<x>>[1] = x /\ Len(<<x>>) = 1 /\ Serial(<<x>>)
  BY Alone, Appending, Nothing
<1>7. Underway(acc.events, c, r, <<x>>, V)
  BY <1>1, <1>2, <1>4, BoundaryTaken
<1>8. PartialsDated(<<x>>, gen, high)
  BY <1>2, <1>3, <1>6 DEF PartialsDated
<1>9. Located(acc.events, r, <<x>>, acc.positions)
  <2>1. Serial(none) /\ Located(acc.events, r, none, acc.positions)
    BY <1>1, Alone
  <2>. HIDE DEF none
  <2>2. Located(acc.events, r, none \o <<x>>, acc.positions)
    BY <1>6, <2>1, LocatedStays
  <2>. QED BY <1>6, <2>2
<1>. DEFINE taken == Codex!CompactionPartials(acc, record)
<1>10. taken.partials = <<x>> /\ taken.coverage = c
  BY <1>5, <1>6
<1>. HIDE DEF taken
<1>11. CodexTaken(taken, acc, r, acc.positions, high, ids, V)
  BY <1>1, <1>7, <1>8, <1>9, <1>10 DEF CodexTaken
<1>. QED BY <1>11 DEF taken, high

\* What a record of the subject comes to, the positions and the generation.
CodexPositions(acc, r, record, counts) ==
    IF record.type = "call" /\ record.id # None /\ counts[record.id] = 1
      THEN [acc.positions EXCEPT ![record.id] = <<r, 1>>]
      ELSE acc.positions

CodexHigh(acc, record) ==
    IF record.type = "compacted" THEN CodexGeneration(acc, record) ELSE acc.generation

\* Of the records of a rollout.
LEMMA CodexLines ==
    ASSUME NEW records \in Seq(CodexLine)
    PROVE  /\ Serial(records)
           /\ Len(records) \in Nat /\ DOMAIN records = 1 .. Len(records)
           /\ \A q \in DOMAIN records :
                /\ Serial(records[q].content)
                /\ records[q].generation \in Int \cup {None}
                /\ records[q].attribution \in {"subject", "unknown"}
<1>1. Len(records) \in Nat /\ DOMAIN records = 1 .. Len(records)
      /\ records = [i \in 1 .. Len(records) |-> records[i]]
  OBVIOUS
<1>2. Serial(records)
  BY <1>1, SerialOf
<1>3. \A q \in DOMAIN records : records[q] \in CodexLine
  OBVIOUS
<1>. QED BY <1>1, <1>2, <1>3, EvidenceAssumption DEF LineForm, Serial

\* Any record of the subject keeps it (_record_partials).
LEMMA SubjectTaken ==
    ASSUME NEW records \in Seq(CodexLine), NEW acc, NEW k \in Nat, NEW r \in Nat,
           r = k + 1, r \in DOMAIN records, CodexKnown(acc, records, k),
           records[r].attribution = "subject"
    PROVE  LET counts == Codex!CallIdCounts(records)
               taken  == Codex!SubjectPartials(acc, r, records[r], counts)
           IN  /\ CodexTaken(taken, acc, r, CodexPositions(acc, r, records[r], counts),
                             CodexHigh(acc, records[r]), Codex!CallIds(records),
                             CodexV(records))
               /\ records[r].type = "other" => taken.partials = <<>>
<1>. DEFINE V == CodexV(records)
            ids == Codex!CallIds(records)
            counts == Codex!CallIdCounts(records)
            record == records[r]
            taken == Codex!SubjectPartials(acc, r, record, counts)
            Fine(t) == CodexTaken(t, acc, r, CodexPositions(acc, r, record, counts),
                                  CodexHigh(acc, record), ids, V)
            gen == acc.generation
<1>1. /\ Serial(records) /\ Serial(record.content)
      /\ record.generation \in Int \cup {None}
  BY CodexLines
<1>2. /\ CorpusInv(acc.events, acc.coverage, acc.positions, k, gen, V)
      /\ DOMAIN acc.positions = ids
  BY DEF CodexKnown
<1>3. /\ Serial(acc.events)
      /\ Underway(acc.events, acc.coverage, r, <<>>, V)
      /\ Undated(<<>>)
      /\ Located(acc.events, r, <<>>, acc.positions)
      /\ Shaped(acc.events, k, V)
      /\ gen \in Int
  BY <1>2, RecordStarts DEF CorpusInv, Dated
<1>4. Taking(<<>>, acc.positions, acc.coverage, acc.events, r, ids, V)
  BY <1>2, <1>3 DEF Taking
<1>5. ASSUME NEW t, record.type \notin {"call", "compacted"},
             CodexTaking(t, acc.positions, acc.events, r, ids, V)
      PROVE  Fine(t)
  <2>1. CodexTaken(t, acc, r, acc.positions, gen, ids, V)
    BY <1>3, <1>5, UndatedTaken
  <2>. QED BY <1>5, <2>1 DEF CodexPositions, CodexHigh
<1>. HIDE DEF V, ids, counts
<1>6. CASE record.type = "compacted"
  <2>1. taken = Codex!CompactionPartials(acc, record)
    BY <1>6 DEF Codex!SubjectPartials
  <2>2. CodexTaken(Codex!CompactionPartials(acc, record), acc, r, acc.positions,
                   CodexGeneration(acc, record), ids, V)
    <3>. HIDE DEF record
    <3>. QED BY <1>1, <1>3, <1>4, CompactionTaken
  <2>3. Fine(taken)
    BY <1>6, <2>1, <2>2 DEF CodexPositions, CodexHigh
  <2>. QED BY <1>6, <2>3 DEF V, ids, counts
<1>7. CASE record.type = "call"
  <2>1. taken = Codex!CodexCall(acc.coverage, r, record)
    BY <1>7 DEF Codex!SubjectPartials
  <2>2. record.input =>
          \A kind \in {"tool-call", "reference", "test", "forge-action"} :
              <<kind, <<r, 1>>>> \in V
    BY <1>7, CallReady DEF V
  <2>. DEFINE call == Codex!CodexCall(acc.coverage, r, record)
              id == record.id
              moved == [acc.positions EXCEPT ![id] = <<r, 1>>]
  <2>3. /\ CodexTaken(call, acc, r, acc.positions, gen, ids, V)
        /\ CodexTaken(call, acc, r, moved, gen, ids, V)
    <3>. HIDE DEF record, id
    <3>. QED BY <1>3, <1>4, <2>2, CodexCallTaken
  <2>4. CodexHigh(acc, record) = gen
    BY <1>7 DEF CodexHigh
  <2>5. CodexPositions(acc, r, record, counts) \in {moved, acc.positions}
    BY DEF CodexPositions
  <2>. HIDE DEF moved, call
  <2>6. Fine(call)
    BY <2>3, <2>4, <2>5
  <2>. QED BY <1>7, <2>1, <2>6 DEF call, V, ids, counts
<1>8. CASE record.type \in {"session_meta", "settings"}
  <2>1. taken = Codex!MetadataPartials(acc, record)
    BY <1>8 DEF Codex!SubjectPartials
  <2>2. CodexTaking(Codex!MetadataPartials(acc, record), acc.positions, acc.events,
                    r, ids, V)
    BY <1>3, <1>4, MetadataTaken
  <2>3. Fine(taken)
    BY <1>5, <1>8, <2>1, <2>2
  <2>. QED BY <1>8, <2>3 DEF V, ids, counts
<1>9. CASE record.type = "message"
  <2>1. taken = Codex!MessagePartials(acc.coverage, r, record)
    BY <1>9 DEF Codex!SubjectPartials
  <2>2. \A b \in DOMAIN record.content : TurnReady(record, r, b, V)
    BY <1>1, <1>9, TurnsReady DEF V
  <2>3. CodexTaking(Codex!MessagePartials(acc.coverage, r, record), acc.positions,
                    acc.events, r, ids, V)
    <3>. HIDE DEF record
    <3>. QED BY <1>1, <1>3, <1>4, <2>2, CodexBlocksTaken
  <2>4. Fine(taken)
    BY <1>5, <1>9, <2>1, <2>3
  <2>. QED BY <1>9, <2>4 DEF V, ids, counts
<1>10. CASE record.type = "output"
  <2>1. taken = Codex!OutputPartials(acc.coverage, record, counts, acc.positions)
    BY <1>10 DEF Codex!SubjectPartials
  <2>2. record.id # None => record.id \in ids /\ counts[record.id] \in Int
    <3>1. record.id # None => record.id \in Codex!CallIds(records)
      BY DEF Codex!CallIds
    <3>. QED BY <1>1, <3>1, CallIdsCounted DEF ids, counts
  <2>3. CodexTaking(Codex!OutputPartials(acc.coverage, record, counts, acc.positions),
                    acc.positions, acc.events, r, ids, V)
    <3>. HIDE DEF record
    <3>. QED BY <1>3, <1>4, <2>2, OutputTaken
  <2>4. Fine(taken)
    BY <1>5, <1>10, <2>1, <2>3
  <2>. QED BY <1>10, <2>4 DEF V, ids, counts
<1>11. CASE record.type = "token_count"
  <2>1. taken = Codex!Put(Codex!Nothing(acc.coverage), Codex!Partial("token-usage"), {})
    BY <1>11 DEF Codex!SubjectPartials
  <2>2. CodexTaking(Codex!Put(Codex!Nothing(acc.coverage), Codex!Partial("token-usage"), {}),
                    acc.positions, acc.events, r, ids, V)
    BY <1>3, <1>4, TokensTaken
  <2>3. Fine(taken)
    BY <1>5, <1>11, <2>1, <2>2
  <2>. QED BY <1>11, <2>3 DEF V, ids, counts
<1>12. CASE record.type \notin {"compacted", "session_meta", "settings", "message", "call",
                                "output", "token_count"}
  <2>1. taken = Codex!Nothing(acc.coverage)
    BY <1>12 DEF Codex!SubjectPartials
  <2>2. CodexTaking(Codex!Nothing(acc.coverage), acc.positions, acc.events, r, ids, V)
    BY <1>4, NothingTaken
  <2>3. Codex!Nothing(acc.coverage).partials = <<>>
    BY DEF Codex!Nothing
  <2>4. Fine(taken) /\ taken.partials = <<>>
    BY <1>5, <1>12, <2>1, <2>2, <2>3
  <2>. QED BY <2>4 DEF V, ids, counts
<1>. QED BY <1>6, <1>7, <1>8, <1>9, <1>10, <1>11, <1>12

\* A record that may not be the subject's.
LEMMA UnknownPartialsTaken ==
    ASSUME NEW cov, NEW positions, NEW events, Serial(events), NEW r, NEW ids, NEW V,
           Taking(<<>>, positions, cov, events, r, ids, V), NEW record,
           Serial(record.content)
    PROVE  CodexTaking(Codex!UnknownPartials(cov, record), positions, events, r, ids, V)
<1>. DEFINE none == Codex!Nothing(cov)
            v == Codex!UnknownPartials(cov, record)
            put == Codex!Put(none, Codex!Partial("pasted-span"),
                             {"blocks_seen", "content_unknown"})
            covered == Codex!Cover(none, {"blocks_seen", "blocks_unsupported"})
            message == Codex!UnknownMessage(cov, record)
<1>1. v \in {none, put, covered, message}
  BY DEF Codex!UnknownPartials
<1>2. CodexTaking(none, positions, events, r, ids, V)
  BY NothingTaken
<1>3. CodexTaking(message, positions, events, r, ids, V)
  BY CodexUnknownTaken
<1>. HIDE DEF none
<1>4. CodexTaking(put, positions, events, r, ids, V)
  BY <1>2, UnknownPut
<1>5. CodexTaking(covered, positions, events, r, ids, V)
  BY <1>2, UnsupportedCover
<1>. HIDE DEF put, covered, message, v
<1>6. CodexTaking(v, positions, events, r, ids, V)
  BY <1>1, <1>2, <1>3, <1>4, <1>5
<1>. QED BY <1>6 DEF v

\* One more Codex record keeps CodexKnown, whoever wrote it.
LEMMA CodexRecordKnown ==
    ASSUME NEW records \in Seq(CodexLine), NEW acc, NEW k \in Nat, NEW r \in Nat,
           r = k + 1, r \in DOMAIN records, CodexKnown(acc, records, k)
    PROVE  CodexKnown(Codex!CodexRecord(acc, r, records, Codex!CallIdCounts(records)),
                      records, r)
<1>. DEFINE V == CodexV(records)
            ids == Codex!CallIds(records)
            counts == Codex!CallIdCounts(records)
            record == records[r]
            gen == acc.generation
            taken == IF record.attribution = "unknown"
                       THEN Codex!UnknownPartials(acc.coverage, record)
                       ELSE Codex!SubjectPartials(acc, r, record, counts)
            mine == record.attribution = "subject"
            parsed == Codex!IsParsed(record, taken)
            positions == IF mine THEN CodexPositions(acc, r, record, counts)
                                 ELSE acc.positions
            high == IF mine THEN CodexHigh(acc, record) ELSE gen
            parent == Codex!PriorRecord(r)
            v == Codex!CodexRecord(acc, r, records, counts)
<1>1. /\ Serial(records) /\ Serial(record.content)
      /\ record.attribution \in {"subject", "unknown"}
  BY CodexLines
<1>2. /\ CorpusInv(acc.events, acc.coverage, acc.positions, k, gen, V)
      /\ DOMAIN acc.positions = ids
      /\ acc = [events |-> acc.events, coverage |-> acc.coverage,
                positions |-> acc.positions, model |-> acc.model,
                generation |-> gen]
  BY DEF CodexKnown
<1>3. /\ Serial(acc.events)
      /\ Underway(acc.events, acc.coverage, r, <<>>, V)
      /\ Undated(<<>>)
      /\ Located(acc.events, r, <<>>, acc.positions)
      /\ gen \in Int
  BY <1>2, RecordStarts DEF CorpusInv, Dated
<1>4. Taking(<<>>, acc.positions, acc.coverage, acc.events, r, ids, V)
  BY <1>2, <1>3 DEF Taking
<1>5. parent # None => parent \in Nat /\ parent < r
  BY DEF Codex!PriorRecord
<1>6. CASE record.type = "malformed"
  <2>. DEFINE c == Corp!Count(acc.coverage, {"records_malformed"})
  <2>1. v = [acc EXCEPT !.coverage = c]
    BY <1>6, CodexShares DEF Codex!CodexRecord
  <2>2. CorpusInv(acc.events, c, acc.positions, r, gen, V)
    BY <1>2, <1>3, RecordSkipped
  <2>. HIDE DEF c
  <2>3. [acc EXCEPT !.coverage = c]
          = [events |-> acc.events, coverage |-> c, positions |-> acc.positions,
             model |-> acc.model, generation |-> gen]
    BY <1>2
  <2>4. CodexKnown([events |-> acc.events, coverage |-> c, positions |-> acc.positions,
                    model |-> acc.model, generation |-> gen], records, r)
    BY <1>2, <2>2 DEF CodexKnown
  <2>. HIDE DEF v
  <2>5. CodexKnown(v, records, r)
    BY <2>1, <2>3, <2>4
  <2>. QED BY <2>5 DEF v
<1>7. CASE record.type # "malformed"
  <2>1. CodexTaken(taken, acc, r, positions, high, ids, V)
        /\ (~parsed => /\ taken.partials = <<>>
                       /\ positions = acc.positions /\ high = gen)
    <3>1. CASE record.attribution = "unknown"
      <4>. DEFINE t == Codex!UnknownPartials(acc.coverage, record)
      <4>1. CodexTaking(t, acc.positions, acc.events, r, ids, V)
        <5>. HIDE DEF record, ids, V
        <5>. QED BY <1>1, <1>3, <1>4, UnknownPartialsTaken
      <4>. HIDE DEF t
      <4>2. CodexTaken(t, acc, r, acc.positions, gen, ids, V)
        <5>. HIDE DEF ids, V
        <5>. QED BY <1>3, <4>1, UndatedTaken
      <4>3. taken = t
        BY <3>1 DEF t
      <4>4. positions = acc.positions /\ high = gen
        BY <3>1
      <4>5. ~parsed => taken.partials = <<>>
        BY <3>1 DEF Codex!IsParsed
      <4>. HIDE DEF taken, positions, high, parsed
      <4>. QED BY <4>2, <4>3, <4>4, <4>5
    <3>2. CASE record.attribution = "subject"
      <4>. DEFINE t == Codex!SubjectPartials(acc, r, record, counts)
      <4>1. /\ CodexTaken(t, acc, r, CodexPositions(acc, r, record, counts),
                          CodexHigh(acc, record), ids, V)
            /\ record.type = "other" => t.partials = <<>>
        BY <3>2, SubjectTaken
      <4>. HIDE DEF t
      <4>2. taken = t
        BY <3>2 DEF t
      <4>3. /\ positions = CodexPositions(acc, r, record, counts)
            /\ high = CodexHigh(acc, record)
        BY <3>2
      <4>4. ~parsed => record.type = "other"
        BY <3>2 DEF Codex!IsParsed
      <4>5. record.type = "other" => CodexPositions(acc, r, record, counts) = acc.positions
                                     /\ CodexHigh(acc, record) = gen
        BY DEF CodexPositions, CodexHigh
      <4>. HIDE DEF taken, positions, high, parsed
      <4>. QED BY <4>1, <4>2, <4>3, <4>4, <4>5
    <3>. QED BY <1>1, <3>1, <3>2
  <2>2. \E m : v = [events |-> acc.events
                                 \o (IF parsed THEN Corp!EventsOf(r, parent, taken.partials)
                                               ELSE <<>>),
                    coverage |-> Corp!Count(taken.coverage,
                                   {IF parsed THEN "records_parsed"
                                              ELSE "records_unsupported"}),
                    positions |-> positions,
                    model |-> m,
                    generation |-> high]
    <3>. DEFINE m == IF /\ mine
                        /\ record.type = "settings"
                        /\ record.model # None
                       THEN record.model
                       ELSE acc.model
                oldPositions == IF /\ mine
                                   /\ record.type = "call"
                                   /\ record.id # None
                                   /\ counts[record.id] = 1
                                  THEN [acc.positions EXCEPT ![record.id] = <<r, 1>>]
                                  ELSE acc.positions
                newHigh == IF /\ mine
                              /\ record.type = "compacted"
                              /\ record.generation # None
                              /\ record.generation > acc.generation
                             THEN record.generation
                             ELSE acc.generation
    <3>1. oldPositions = positions
      BY DEF CodexPositions
    <3>2. newHigh = high
      BY DEF CodexHigh, CodexGeneration
    <3>3. /\ Codex!EventsOf(r, parent, taken.partials) = Corp!EventsOf(r, parent, taken.partials)
          /\ Codex!Count(taken.coverage, {IF parsed THEN "records_parsed"
                                                    ELSE "records_unsupported"})
               = Corp!Count(taken.coverage, {IF parsed THEN "records_parsed"
                                                       ELSE "records_unsupported"})
      <4>. HIDE DEF taken, parsed, parent
      <4>. QED BY CodexShares
    <3>4. v = [events |-> acc.events
                            \o (IF parsed THEN Codex!EventsOf(r, parent, taken.partials)
                                          ELSE <<>>),
               coverage |-> Codex!Count(taken.coverage,
                                   {IF parsed THEN "records_parsed"
                                              ELSE "records_unsupported"}),
               positions |-> oldPositions,
               model |-> m,
               generation |-> newHigh]
      BY <1>7, Zenon DEF Codex!CodexRecord
    <3>. HIDE DEF v, parsed, taken, positions, oldPositions, newHigh, high, m, parent
    <3>. QED BY <3>1, <3>2, <3>3, <3>4
  <2>3. PICK m : v = [events |-> acc.events
                                 \o (IF parsed THEN Corp!EventsOf(r, parent, taken.partials)
                                               ELSE <<>>),
                    coverage |-> Corp!Count(taken.coverage,
                                   {IF parsed THEN "records_parsed"
                                              ELSE "records_unsupported"}),
                    positions |-> positions,
                    model |-> m,
                    generation |-> high]
    BY <2>2
  <2>. HIDE DEF v, parsed, taken, positions, high, parent, V, ids, gen
  <2>4. /\ Underway(acc.events, taken.coverage, r, taken.partials, V)
        /\ PartialsDated(taken.partials, gen, high)
        /\ Located(acc.events, r, taken.partials, positions)
        /\ DOMAIN positions = ids
    BY <2>1 DEF CodexTaken, gen
  <2>5. CASE parsed
    <3>. DEFINE events == acc.events \o Corp!EventsOf(r, parent, taken.partials)
                c == Corp!Count(taken.coverage, {"records_parsed"})
    <3>1. v = [events |-> events, coverage |-> c, positions |-> positions, model |-> m,
               generation |-> high]
      BY <2>3, <2>5
    <3>2. CorpusInv(events, c, positions, r, high, V)
      BY <1>2, <1>5, <2>4, RecordAdded
    <3>. HIDE DEF events, c
    <3>3. CodexKnown([events |-> events, coverage |-> c, positions |-> positions,
                      model |-> m, generation |-> high], records, r)
      BY <2>4, <3>2 DEF CodexKnown, V, ids
    <3>. QED BY <3>1, <3>3 DEF v
  <2>6. CASE ~parsed
    <3>. DEFINE c == Corp!Count(taken.coverage, {"records_unsupported"})
                events == acc.events \o <<>>
    <3>1. v = [events |-> events, coverage |-> c, positions |-> positions,
               model |-> m, generation |-> high]
      BY <2>3, <2>6
    <3>2. events = acc.events
      BY <1>3, ConcatEmptySeq DEF Serial
    <3>3. Underway(acc.events, taken.coverage, r, <<>>, V)
      BY <2>1, <2>4, <2>6
    <3>4. CorpusInv(acc.events, c, acc.positions, r, gen, V)
      BY <1>2, <3>3, RecordSkipped
    <3>. HIDE DEF events, c
    <3>5. CorpusInv(events, c, positions, r, high, V)
      BY <2>1, <2>6, <3>2, <3>4
    <3>6. CodexKnown([events |-> events, coverage |-> c, positions |-> positions,
                      model |-> m, generation |-> high], records, r)
      BY <2>4, <3>5 DEF CodexKnown, V, ids
    <3>. QED BY <3>1, <3>6 DEF v
  <2>. QED BY <2>5, <2>6
<1>. QED BY <1>6, <1>7

\* Nothing is known at first.
CodexOrigin(records) ==
    [events     |-> <<>>,
     coverage   |-> Codex!NothingCovered,
     positions  |-> [id \in Codex!CallIds(records) |-> None],
     model      |-> None,
     generation |-> -1]

\* What is known after each of the first m records.
CodexRecords(records, counts, m, f) ==
    f = [b \in 0 .. m |-> IF b = 0 THEN CodexOrigin(records)
                          ELSE Codex!CodexRecord(f[b - 1], b, records, counts)]

\* The recursion over a session's records has a solution.
LEMMA CodexRecordsExists ==
    ASSUME NEW records, NEW counts
    PROVE  \A m \in Nat : \E f : CodexRecords(records, counts, m, f)
<1>. DEFINE D == {m \in Nat : ~ \E f : CodexRecords(records, counts, m, f)}
            start == CodexOrigin(records)
            more(old, b) == Codex!CodexRecord(old, b, records, counts)
<1>1. SUFFICES ASSUME D # {} PROVE FALSE
  OBVIOUS
<1>2. PICK m \in D : \A k \in D : m <= k
  BY <1>1, Smallest
<1>3. m # 0
  <2>1. CodexRecords(records, counts, 0, [b \in 0 .. 0 |-> start])
    BY DEF CodexRecords
  <2>. QED BY <1>2, <2>1
<1>4. PICK f : CodexRecords(records, counts, m - 1, f)
  BY <1>2, <1>3
<1>. DEFINE g == [b \in 0 .. m |-> IF b = m THEN more(f[m - 1], m) ELSE f[b]]
<1>5. CodexRecords(records, counts, m, g)
  <2>0. \A b \in 0 .. m - 1 : f[b] = IF b = 0 THEN start ELSE more(f[b - 1], b)
    BY <1>4 DEF CodexRecords
  <2>. HIDE DEF more, start
  <2>1. ASSUME NEW b \in 0 .. m
        PROVE  g[b] = IF b = 0 THEN start ELSE more(g[b - 1], b)
    <3>1. CASE b = m
      BY <1>2, <1>3, <3>1
    <3>2. CASE b # m
      <4>1. b \in 0 .. m - 1 /\ g[b] = f[b] /\ b - 1 # m
        BY <1>2, <1>3, <3>2
      <4>2. b # 0 => g[b - 1] = f[b - 1]
        BY <1>2, <4>1
      <4>. QED BY <2>0, <4>1, <4>2
    <3>. QED BY <3>1, <3>2
  <2>2. g = [b \in 0 .. m |-> IF b = 0 THEN start ELSE more(g[b - 1], b)]
    <3>1. g = [b \in 0 .. m |-> g[b]]
      OBVIOUS
    <3>. HIDE DEF g
    <3>. QED BY <2>1, <3>1
  <2>. QED BY <2>2 DEF CodexRecords, more, start
<1>. QED BY <1>2, <1>5

\* Of whatever records there are, the Codex adapter makes a corpus that the
\* validator accepts and whose pointers all lead somewhere.
THEOREM AnyCodexCorpus ==
    ASSUME NEW records \in Seq(CodexLine)
    PROVE  LET corpus == Codex!NormalizeCodex(records)
           IN  /\ Corp!Accepted(corpus)
               /\ \A i \in DOMAIN corpus.events :
                    corpus.events[i].pointer # None =>
                      Codex!CodexTarget(records, corpus.events[i]) \notin {None, "empty"}
<1>. DEFINE m == Len(records)
            counts == Codex!CallIdCounts(records)
            f == CHOOSE f : CodexRecords(records, counts, m, f)
            Fine(n) == CodexKnown(f[n], records, n)
            D == {n \in 0 .. m : ~Fine(n)}
            all == f[m]
            V == CodexV(records)
            corpus == Codex!NormalizeCodex(records)
<1>0. m \in Nat /\ DOMAIN records = 1 .. m
  OBVIOUS
<1>1. corpus = [events |-> Codex!JoinForgeOutcomes(all.events),
                coverage |-> all.coverage, admitted |-> m]
  BY DEF Codex!NormalizeCodex, CodexRecords, CodexOrigin
<1>2. CodexRecords(records, counts, m, f)
  <2>. HIDE DEF counts
  <2>1. \E g : CodexRecords(records, counts, m, g)
    BY <1>0, CodexRecordsExists
  <2>. QED BY <2>1
<1>. HIDE DEF f
<1>3. /\ f[0] = CodexOrigin(records)
      /\ \A n \in 1 .. m : f[n] = Codex!CodexRecord(f[n - 1], n, records, counts)
  <2>1. \A n \in 0 .. m : f[n] = IF n = 0 THEN CodexOrigin(records)
                          ELSE Codex!CodexRecord(f[n - 1], n, records, counts)
    BY <1>2 DEF CodexRecords
  <2>2. 0 \in 0 .. m /\ \A n \in 1 .. m : n \in 0 .. m /\ n # 0
    BY <1>0
  <2>. HIDE DEF m, counts
  <2>. QED BY <2>1, <2>2
<1>4. Fine(0)
  <2>. DEFINE none == <<>>
              cov == Corp!NothingCovered
              positions == [id \in Codex!CallIds(records) |-> None]
  <2>1. DOMAIN positions = Codex!CallIds(records)
        /\ \A id \in DOMAIN positions : positions[id] = None
    OBVIOUS
  <2>2. CodexOrigin(records) = [events |-> none, coverage |-> cov,
                                positions |-> positions, model |-> None,
                                generation |-> -1]
    BY CodexShares DEF CodexOrigin
  <2>. HIDE DEF positions, V
  <2>3. CorpusInv(none, cov, positions, 0, -1, V)
    BY <2>1, CorpusBegins
  <2>. HIDE DEF none, cov
  <2>4. CodexKnown([events |-> none, coverage |-> cov, positions |-> positions,
                    model |-> None, generation |-> -1], records, 0)
    BY <2>1, <2>3 DEF CodexKnown, V
  <2>. QED BY <1>3, <2>2, <2>4
<1>5. ASSUME NEW n \in 1 .. m, Fine(n - 1) PROVE Fine(n)
  <2>1. n - 1 \in Nat /\ n \in Nat /\ n = (n - 1) + 1 /\ n \in DOMAIN records
    BY <1>0
  <2>2. CodexKnown(Codex!CodexRecord(f[n - 1], n, records, counts), records, n)
    BY <1>5, <2>1, CodexRecordKnown
  <2>. QED BY <1>3, <2>2
<1>. HIDE DEF Fine, m
<1>6. ASSUME D # {} PROVE FALSE
  <2>1. D \subseteq Nat
    BY <1>0
  <2>2. PICK n \in D : \A l \in D : n <= l
    <3>. HIDE DEF D
    <3>. QED BY <1>6, <2>1, Smallest
  <2>3. n \in 1 .. m
    BY <1>0, <1>4, <2>2
  <2>4. n - 1 \in 0 .. m /\ ~(n <= n - 1)
    BY <1>0, <2>3
  <2>5. Fine(n - 1)
    BY <2>2, <2>4
  <2>. QED BY <1>5, <2>2, <2>3, <2>5
<1>7. Fine(m)
  BY <1>0, <1>6
<1>8. CorpusInv(all.events, all.coverage, all.positions, m, all.generation, V)
  BY <1>7 DEF Fine, CodexKnown
<1>. DEFINE j == Corp!JoinForgeOutcomes(all.events)
<1>. HIDE DEF all
<1>9. /\ Corp!Accepted([events |-> j, coverage |-> all.coverage, admitted |-> m])
      /\ \A i \in DOMAIN j : j[i].pointer # None => <<j[i].kind, j[i].pointer>> \in V
  BY <1>0, <1>8, CorpusDone
<1>10. corpus = [events |-> j, coverage |-> all.coverage, admitted |-> m]
  BY <1>1, JoinIsShared
<1>. HIDE DEF j, corpus
<1>11. Corp!Accepted(corpus) /\ corpus.events = j
  BY <1>9, <1>10
<1>12. ASSUME NEW i \in DOMAIN corpus.events, corpus.events[i].pointer # None
       PROVE  Codex!CodexTarget(records, corpus.events[i]) \notin {None, "empty"}
  <2>. DEFINE e == corpus.events[i]
              w == <<e.kind, e.pointer>>
              d == [kind |-> w[1], pointer |-> w[2]]
  <2>1. w \in V
    BY <1>9, <1>11, <1>12
  <2>2. Codex!CodexTarget(records, d) \notin {None, "empty"}
    <3>. HIDE DEF w
    <3>. QED BY <2>1 DEF CodexV
  <2>3. d.kind = e.kind /\ d.pointer = e.pointer
    OBVIOUS
  <2>. HIDE DEF e, d
  <2>4. Codex!CodexTarget(records, d) = Codex!CodexTarget(records, e)
    BY <2>3, Zenon DEF Codex!CodexTarget
  <2>. QED BY <2>2, <2>4 DEF e
<1>. QED BY <1>11, <1>12 DEF corpus

-----------------------------------------------------------------------------
(* The transcripts that are read. *)

TranscriptInv == /\ stream = "claude" => input \in Seq(ClaudeLine)
                 /\ stream = "codex" => input \in Seq(CodexLine)

\* Nothing has been read at first.
LEMMA InitTranscript == Init => TranscriptInv
<1>1. ASSUME Init, stream \in {"claude", "codex"} PROVE input = <<>>
  BY <1>1 DEF Init, Empty
<1>2. <<>> \in Seq(ClaudeLine) /\ <<>> \in Seq(CodexLine)
  OBVIOUS
<1>. QED BY <1>1, <1>2 DEF TranscriptInv

\* What is read is added at the end, one line at a time.
LEMMA NextTranscript == TranscriptInv /\ [Next]_vars => TranscriptInv'
<1>. SUFFICES ASSUME TranscriptInv, [Next]_vars PROVE TranscriptInv'
  OBVIOUS
<1>1. stream' = stream
  BY DEF Next, vars, ReadClaude, ReadCodex, AppendRow, AddLeaf, Read, AdmitSession, ReadDated,
         Working, Commit, Merge, Switch, Reset, Prune, Enroll, Capture
<1>2. CASE ReadClaude
  <2>1. stream = "claude" /\ input \in Seq(ClaudeLine)
    BY <1>2 DEF ReadClaude, Read, TranscriptInv
  <2>2. PICK line \in ClaudeLine : input' = Append(input, line)
    BY <1>2 DEF ReadClaude, Read
  <2>3. input' \in Seq(ClaudeLine)
    BY <2>1, <2>2
  <2>. QED BY <1>1, <2>1, <2>3 DEF TranscriptInv
<1>3. CASE ReadCodex
  <2>1. stream = "codex" /\ input \in Seq(CodexLine)
    BY <1>3 DEF ReadCodex, Read, TranscriptInv
  <2>2. PICK line \in CodexLine : input' = Append(input, line)
    BY <1>3 DEF ReadCodex, Read
  <2>3. input' \in Seq(CodexLine)
    BY <2>1, <2>2
  <2>. QED BY <1>1, <2>1, <2>3 DEF TranscriptInv
<1>4. CASE stream \in {"claude", "codex"} /\ ~ReadClaude /\ ~ReadCodex
  <2>1. input' = input
    BY <1>4 DEF Next, vars, AppendRow, AddLeaf, Read, AdmitSession, ReadDated,
           Working, Commit, Merge, Switch, Reset, Prune, Enroll, Capture
  <2>. QED BY <1>1, <2>1 DEF TranscriptInv
<1>5. CASE stream \notin {"claude", "codex"}
  BY <1>1, <1>5 DEF TranscriptInv
<1>. QED BY <1>2, <1>3, <1>4, <1>5

\* What has been read of a transcript is a sequence of its lines.
THEOREM TranscriptsAreLines == Spec => []TranscriptInv
<1>. QED BY InitTranscript, NextTranscript, PTL DEF Spec

\* However long a transcript grows, what either adapter makes of it is a
\* corpus that the validator accepts (normalize_claude and normalize_codex, whose
\* bytes go to validate_corpus_artifact in the store and in the consumers).
THEOREM CorporaAccepted == Spec => []CorpusAccepted
<1>1. TranscriptInv => CorpusAccepted
  BY AnyClaudeCorpus, AnyCodexCorpus DEF TranscriptInv, CorpusAccepted
<1>. QED BY <1>1, TranscriptsAreLines, PTL

\* However long a transcript grows, every pointer into it that either adapter
\* emits leads to a text or an input (resolve_content_pointer).
THEOREM PointersFollow == Spec => []PointersResolve
<1>1. TranscriptInv => PointersResolve
  BY AnyClaudeCorpus, AnyCodexCorpus DEF TranscriptInv, PointersResolve
<1>. QED BY <1>1, TranscriptsAreLines, PTL
================================================================================
