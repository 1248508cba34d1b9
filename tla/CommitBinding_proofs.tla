-------------------------- MODULE CommitBinding_proofs --------------------------
(***************************************************************************)
(* Proofs about CommitBinding, for any number of hooks, sweeps, enrolls,   *)
(* commits and faults.                                                     *)
(***************************************************************************)
EXTENDS CommitBinding, SequenceTheorems, WellFoundedInduction, TLAPS

-----------------------------------------------------------------------------
(* Commits, their ancestors and the newest of several.                     *)

Increasing(c) == \A i, j \in 1..Len(c) : i < j => c[i] < c[j]

LEMMA CommitFacts ==
    ASSUME NEW c
    PROVE  c \in Commit <=> /\ c \in Seq(1..MaxCommits)
                            /\ Len(c) \in 1..MaxCommits
                            /\ Increasing(c)
<1>1. ASSUME c \in Commit
      PROVE  c \in Seq(1..MaxCommits) /\ Len(c) \in 1..MaxCommits /\ Increasing(c)
  <2>1. PICK n \in 1..MaxCommits : c \in [1..n -> 1..MaxCommits]
    BY <1>1 DEF Commit
  <2>2. n \in Nat /\ n > 0
    BY BoundAssumption
  <2>3. c \in Seq(1..MaxCommits)
    BY <2>1, <2>2, SeqDef
  <2>4. DOMAIN c = 1..n /\ DOMAIN c = 1..Len(c) /\ Len(c) \in Nat
    BY <2>1, <2>3, LenProperties
  <2>5. Len(c) = n
    BY <2>2, <2>4
  <2>6. \A i, j \in DOMAIN c : i < j => c[i] < c[j]
    BY <1>1 DEF Commit
  <2>. QED BY <2>3, <2>4, <2>5, <2>6 DEF Increasing
<1>2. ASSUME c \in Seq(1..MaxCommits), Len(c) \in 1..MaxCommits, Increasing(c)
      PROVE  c \in Commit
  <2>1. c \in [1..Len(c) -> 1..MaxCommits] /\ DOMAIN c = 1..Len(c)
    BY <1>2, LenProperties
  <2>2. \A i, j \in DOMAIN c : i < j => c[i] < c[j]
    BY <1>2, <2>1 DEF Increasing
  <2>3. c \in UNION {[1..n -> 1..MaxCommits] : n \in 1..MaxCommits}
    BY <1>2, <2>1
  <2>. QED BY <2>2, <2>3 DEF Commit
<1>. QED BY <1>1, <1>2

\* A point is a commit or the empty history.
LEMMA PointFacts ==
    ASSUME NEW p \in Point
    PROVE  /\ p \in Seq(1..MaxCommits)
           /\ Len(p) \in Nat /\ Len(p) <= MaxCommits
           /\ \A i \in 1..Len(p) : p[i] \in Nat
           /\ Increasing(p)
           /\ p # <<>> => p \in Commit /\ Len(p) > 0
<1>1. CASE p \in Commit
  <2>1. /\ p \in Seq(1..MaxCommits) /\ Len(p) \in 1..MaxCommits
        /\ Increasing(p)
    BY <1>1, CommitFacts
  <2>2. \A i \in 1..Len(p) : p[i] \in 1..MaxCommits
    BY <2>1, ElementOfSeq
  <2>. QED BY <1>1, <2>1, <2>2, BoundAssumption
<1>2. CASE p = <<>>
  <2>1. p \in Seq(1..MaxCommits) /\ Len(p) = 0
    BY <1>2, EmptySeq
  <2>. QED BY <1>2, <2>1, BoundAssumption DEF Increasing
<1>. QED BY <1>1, <1>2 DEF Point

\* The prefixes of a point are points, and its ancestors.
LEMMA PrefixFacts ==
    ASSUME NEW p \in Point, NEW n \in 0..Len(p)
    PROVE  /\ SubSeq(p, 1, n) \in Point
           /\ n > 0 => SubSeq(p, 1, n) \in Commit
           /\ Len(SubSeq(p, 1, n)) = n
           /\ \A i \in 1..n : SubSeq(p, 1, n)[i] = p[i]
           /\ Ancestor(SubSeq(p, 1, n), p)
<1> DEFINE q == SubSeq(p, 1, n)
<1>1. /\ p \in Seq(1..MaxCommits) /\ Increasing(p)
      /\ Len(p) \in Nat /\ Len(p) <= MaxCommits /\ n \in Nat /\ n <= Len(p)
  BY PointFacts
<1>2. ASSUME NEW i \in 1..n
      PROVE  p[i] \in 1..MaxCommits
  <2>1. i \in 1..Len(p)
    BY <1>1
  <2>. QED BY <1>1, <2>1, ElementOfSeq
<1>3. q \in Seq(1..MaxCommits) /\ Len(q) = n /\ \A i \in 1..n : q[i] = p[i]
  BY <1>1, <1>2, SubSeqProperties
<1>4. Ancestor(q, p)
  BY <1>1, <1>3 DEF Ancestor
<1> HIDE DEF q
<1>5. Increasing(q)
  <2> SUFFICES ASSUME NEW i \in 1..Len(q), NEW j \in 1..Len(q), i < j
               PROVE  q[i] < q[j]
    BY DEF Increasing
  <2>1. i \in 1..n /\ j \in 1..n /\ i \in 1..Len(p) /\ j \in 1..Len(p)
    BY <1>1, <1>3
  <2>. QED BY <1>1, <1>3, <2>1 DEF Increasing
<1>6. n > 0 => q \in Commit
  BY <1>1, <1>3, <1>5, CommitFacts, BoundAssumption
<1>7. n = 0 => q = <<>>
  BY <1>3, EmptySeq
<1>8. q \in Point
  BY <1>1, <1>6, <1>7 DEF Point
<1>. QED BY <1>3, <1>4, <1>6, <1>8 DEF q

\* A commit that is made after the others, on top of a point.
LEMMA NewCommit ==
    ASSUME NEW p \in Point, NEW m \in Nat, m < MaxCommits,
           Len(p) <= m, \A i \in 1..Len(p) : p[i] <= m
    PROVE  /\ Append(p, m + 1) \in Commit
           /\ Len(Append(p, m + 1)) <= m + 1
           /\ \A i \in 1..Len(Append(p, m + 1)) : Append(p, m + 1)[i] <= m + 1
<1> DEFINE q == Append(p, m + 1)
<1>1. /\ p \in Seq(1..MaxCommits) /\ Increasing(p) /\ Len(p) \in Nat
      /\ \A i \in 1..Len(p) : p[i] \in Nat
  BY PointFacts
<1>2. m + 1 \in 1..MaxCommits
  BY BoundAssumption
<1>3. /\ q \in Seq(1..MaxCommits) /\ Len(q) = Len(p) + 1
      /\ \A i \in 1..Len(p) : q[i] = p[i]
      /\ q[Len(p) + 1] = m + 1
  BY <1>1, <1>2
<1> HIDE DEF q
<1>4. ASSUME NEW i \in 1..Len(q)
      PROVE  i \in 1..Len(p) \/ i = Len(p) + 1
  BY <1>1, <1>3
<1>5. Increasing(q)
  <2> SUFFICES ASSUME NEW i \in 1..Len(q), NEW j \in 1..Len(q), i < j
               PROVE  q[i] < q[j]
    BY DEF Increasing
  <2>1. i \in 1..Len(p)
    BY <1>1, <1>3
  <2>2. CASE j \in 1..Len(p)
    BY <1>1, <1>3, <2>1, <2>2 DEF Increasing
  <2>3. CASE j = Len(p) + 1
    BY <1>1, <1>3, <2>1, <2>3
  <2>. QED BY <1>4, <2>2, <2>3
<1>6. Len(q) \in 1..MaxCommits
  BY <1>1, <1>3, BoundAssumption
<1>7. \A i \in 1..Len(q) : q[i] <= m + 1
  BY <1>1, <1>3, <1>4
<1>8. q \in Commit
  BY <1>3, <1>5, <1>6, CommitFacts
<1>. QED BY <1>1, <1>3, <1>7, <1>8 DEF q

\* A commit that takes the place of the last one.
LEMMA AmendedCommit ==
    ASSUME NEW p \in Point, p # <<>>, NEW m \in Nat, m < MaxCommits,
           Len(p) <= m, \A i \in 1..Len(p) : p[i] <= m
    PROVE  LET q == [p EXCEPT ![Len(p)] = m + 1] IN
           q \in Commit /\ Len(q) = Len(p) /\ \A i \in 1..Len(q) : q[i] <= m + 1
<1> DEFINE q == [p EXCEPT ![Len(p)] = m + 1]
<1>1. /\ p \in Seq(1..MaxCommits) /\ Increasing(p)
      /\ Len(p) \in Nat /\ Len(p) > 0 /\ Len(p) <= MaxCommits
      /\ \A i \in 1..Len(p) : p[i] \in Nat
  BY PointFacts
<1>2. m + 1 \in 1..MaxCommits /\ Len(p) \in 1..Len(p)
  BY <1>1, BoundAssumption
<1>3. /\ q \in Seq(1..MaxCommits) /\ Len(q) = Len(p)
      /\ \A i \in 1..Len(p) : q[i] = IF i = Len(p) THEN m + 1 ELSE p[i]
  BY <1>1, <1>2, ExceptSeq
<1> HIDE DEF q
<1>4. Increasing(q)
  <2> SUFFICES ASSUME NEW i \in 1..Len(q), NEW j \in 1..Len(q), i < j
               PROVE  q[i] < q[j]
    BY DEF Increasing
  <2>1. i \in 1..Len(p) /\ j \in 1..Len(p) /\ i # Len(p) /\ p[i] < p[j]
    BY <1>1, <1>3 DEF Increasing
  <2>. QED BY <1>1, <1>3, <2>1
<1>5. q \in Commit
  BY <1>1, <1>3, <1>4, CommitFacts, BoundAssumption
<1>6. \A i \in 1..Len(q) : q[i] <= m + 1
  BY <1>1, <1>3
<1>. QED BY <1>3, <1>5, <1>6 DEF q

\* What a sweep may look at are commits, on the side of the point that its
\* mode is about.
LEMMA WindowFacts ==
    ASSUME NEW h \in Point, NEW e \in Point, NEW past \in BOOLEAN
    PROVE  /\ Window(h, past, e) \subseteq Commit
           /\ \A c \in Window(h, past, e) : past <=> Ancestor(c, e)
<1>1. ASSUME NEW d \in Point, NEW c \in Reachable(d)
      PROVE  c \in Commit /\ Ancestor(c, d)
  <2>1. PICK n \in 1..Len(d) : c = SubSeq(d, 1, n)
    BY DEF Reachable
  <2>2. n \in 0..Len(d) /\ n > 0
    BY PointFacts
  <2>. QED BY <2>1, <2>2, PrefixFacts
<1>. QED BY <1>1 DEF Window

\* Of any commits there is a newest, the one that CHOOSE takes.
LEMMA NewestExists ==
    ASSUME NEW T \in SUBSET Commit, T # {}
    PROVE  (CHOOSE c \in T : \A d \in T : Len(d) <= Len(c)) \in T
<1> DEFINE D == {MaxCommits - Len(c) : c \in T}
           R == OpToRel(<, Nat)
<1>1. \A c \in T : Len(c) \in 1..MaxCommits
  BY CommitFacts
<1>2. D \subseteq Nat /\ D # {}
  BY <1>1, BoundAssumption
<1>3. \E x \in D : \A y \in D : ~(<<y, x>> \in R)
  <2>1. IsWellFoundedOn(R, Nat)
    BY NatLessThanWellFounded
  <2> HIDE DEF R, D
  <2>. QED BY <1>2, <2>1, WFMin
<1>4. PICK x \in D : \A y \in D : ~(y < x)
  BY <1>2, <1>3 DEF OpToRel
<1>5. PICK c \in T : x = MaxCommits - Len(c)
  OBVIOUS
<1>6. \A d \in T : Len(d) <= Len(c)
  <2> SUFFICES ASSUME NEW d \in T PROVE Len(d) <= Len(c)
    OBVIOUS
  <2>1. ~(MaxCommits - Len(d) < MaxCommits - Len(c))
    BY <1>4, <1>5
  <2>2. Len(d) \in Nat /\ Len(c) \in Nat
    BY <1>1
  <2>. QED BY <2>1, <2>2, BoundAssumption
<1>. QED BY <1>6
-----------------------------------------------------------------------------
(* Types; and what holds of HEAD and of the commits that hooks read.       *)

HeadInv == Len(head) <= made /\ \A i \in 1..Len(head) : head[i] <= made

HookInv == \A h \in Hook : /\ hpc[h] = "read" => head # <<>>
                           /\ hpc[h] = "append" => commit[h] # <<>>

Basic == TypeOK /\ HeadInv /\ HookInv

LEMMA EmptyPoint == <<>> \in Point
BY DEF Point

LEMMA InitBasic == Init => Basic
<1> SUFFICES ASSUME Init PROVE Basic
  OBVIOUS
<1>1. TypeOK
  <2>1. rows \in Seq(Row)
    BY DEF Init
  <2>2. made \in 0..MaxCommits /\ kills + unenrolls <= MaxFaults
    BY BoundAssumption DEF Init
  <2>. QED BY <2>1, <2>2, EmptyPoint DEF Init, TypeOK
<1>2. HeadInv
  BY DEF Init, HeadInv
<1>3. HookInv
  BY DEF Init, HookInv
<1>. QED BY <1>1, <1>2, <1>3 DEF Basic

LEMMA TornType ==
    ASSUME torn \in BOOLEAN, NEW b \in BOOLEAN, torn' \in {torn, b}
    PROVE  torn' \in BOOLEAN
OBVIOUS

\* A sweep that ends has its variables as at first.
LEMMA SweepEndsType ==
    ASSUME Basic, NEW s \in Sweep, SweepEnds(s)
    PROVE  /\ spc' \in [Sweep -> {"idle", "range", "bound", "append"}]
           /\ historical' \in [Sweep -> BOOLEAN] /\ point' \in [Sweep -> Point]
           /\ todo' \in [Sweep -> SUBSET Commit] /\ bound' \in [Sweep -> Nat]
BY EmptyPoint DEF SweepEnds, Basic, TypeOK

\* A commit, by whichever command.
LEMMA HeadMoves ==
    ASSUME Basic, NEW p \in Point, made < MaxCommits,
           Len(p) <= made, \A i \in 1..Len(p) : p[i] <= made,
           made' = made + 1, head' = Append(p, made + 1)
    PROVE  head' \in Point /\ head' # <<>> /\ HeadInv' /\ made' \in 0..MaxCommits
<1>1. made \in Nat /\ made' \in 0..MaxCommits
  BY BoundAssumption DEF Basic, TypeOK
<1>2. /\ head' \in Commit /\ Len(head') <= made'
      /\ \A i \in 1..Len(head') : head'[i] <= made'
  BY <1>1, NewCommit
<1>3. head' # <<>>
  BY <1>2, CommitFacts, EmptySeq
<1>. QED BY <1>1, <1>2, <1>3 DEF HeadInv, Point

LEMMA CommitHereBasic ==
    ASSUME Basic, NEW h \in Hook, CommitHere(h)
    PROVE  Basic'
<1>1. head' \in Point /\ head' # <<>> /\ HeadInv' /\ made' \in 0..MaxCommits
  <2>1. CASE head' = Append(head, made + 1)
    BY <2>1, HeadMoves DEF CommitHere, Basic, TypeOK, HeadInv
  <2>2. CASE head # <<>> /\ head' = [head EXCEPT ![Len(head)] = made + 1]
    <3>1. made \in Nat /\ made < MaxCommits /\ made' = made + 1 /\ head \in Point
      BY DEF CommitHere, Basic, TypeOK
    <3>2. /\ head' \in Commit /\ Len(head') = Len(head)
          /\ \A i \in 1..Len(head') : head'[i] <= made + 1
      BY <2>2, <3>1, AmendedCommit DEF Basic, HeadInv
    <3>3. Len(head) \in Nat /\ Len(head) > 0
      BY <2>2, <3>1, PointFacts
    <3>4. head' # <<>>
      BY <3>2, <3>3, EmptySeq
    <3>5. Len(head') <= made'
      BY <3>1, <3>2, <3>3 DEF Basic, HeadInv
    <3>. QED BY <3>1, <3>2, <3>4, <3>5, BoundAssumption DEF HeadInv, Point
  <2>. QED BY <2>1, <2>2 DEF CommitHere
<1>2. TypeOK'
  BY <1>1 DEF CommitHere, Basic, TypeOK, enrollment, ledger, sweeps, enrolls, owner
<1>3. HookInv'
  BY <1>1 DEF CommitHere, Basic, TypeOK, HookInv
<1>. QED BY <1>1, <1>2, <1>3 DEF Basic

LEMMA CommitElsewhereBasic ==
    ASSUME Basic, CommitElsewhere
    PROVE  Basic'
<1>1. PICK n \in 0..Len(head) : head' = Append(SubSeq(head, 1, n), made + 1)
  BY DEF CommitElsewhere
<1> DEFINE p == SubSeq(head, 1, n)
<1>2. /\ made \in Nat /\ made < MaxCommits /\ made' = made + 1 /\ head \in Point
      /\ Len(head) \in Nat
  BY PointFacts DEF CommitElsewhere, Basic, TypeOK
<1>3. p \in Point /\ Len(p) = n /\ \A i \in 1..n : p[i] = head[i]
  BY <1>2, PrefixFacts
<1>4. Len(p) <= made /\ \A i \in 1..Len(p) : p[i] <= made
  BY <1>2, <1>3 DEF Basic, HeadInv
<1> HIDE DEF p
<1>5. head' \in Point /\ head' # <<>> /\ HeadInv' /\ made' \in 0..MaxCommits
  BY <1>1, <1>2, <1>3, <1>4, HeadMoves DEF p
<1>6. TypeOK'
  BY <1>5 DEF CommitElsewhere, Basic, TypeOK, enrollment, ledger, hooks, sweeps, enrolls, owner
<1>7. HookInv'
  BY <1>5 DEF CommitElsewhere, Basic, HookInv, hooks
<1>. QED BY <1>5, <1>6, <1>7 DEF Basic

LEMMA HookBasic ==
    ASSUME Basic, NEW h \in Hook, HookStep(h) \/ KillHook(h)
    PROVE  Basic'
<1> USE DEF Basic, TypeOK, HeadInv, HookInv, enrollment, git, ledger, sweeps, enrolls, owner
<1>1. CASE HookRead(h)
  BY <1>1, EmptyPoint DEF HookRead, HookEnds
<1>2. CASE HookAppend(h)
  <2>1. commit[h] \in Commit
    BY <1>2, PointFacts DEF HookAppend
  <2>2. rows' \in Seq(Row)
    <3> DEFINE r == [commit |-> commit[h], provenance |-> "live", by |-> h, saw |-> 0]
    <3>1. r \in Row
      BY <2>1 DEF Row, Provenance
    <3>. QED BY <1>2, <3>1 DEF HookAppend
  <2>. QED BY <1>2, <2>2, EmptyPoint DEF HookAppend, HookEnds
<1>3. CASE KillHook(h)
  <2>1. torn' \in BOOLEAN
    BY <1>3, TornType DEF KillHook
  <2>2. HookEnds(h) /\ kills' \in Nat /\ kills' + unenrolls <= MaxFaults
    BY <1>3, BoundAssumption DEF KillHook, Killing
  <2>. QED BY <1>3, <2>1, <2>2, EmptyPoint DEF KillHook, HookEnds
<1>. QED BY <1>1, <1>2, <1>3 DEF HookStep

LEMMA SweepBasic ==
    ASSUME Basic, NEW s \in Sweep,
           SweepStep(s) \/ KillSweep(s) \/ \E past \in BOOLEAN : StartSweep(s, past)
    PROVE  Basic'
<1> USE DEF Basic, TypeOK, HeadInv, HookInv, enrollment, git, ledger, hooks, enrolls, owner
<1>1. ASSUME NEW past \in BOOLEAN, StartSweep(s, past)
      PROVE  Basic'
  BY <1>1 DEF StartSweep
<1>2. CASE ReadRange(s)
  <2>1. Window(head, historical[s], point[s]) \subseteq Commit
    BY WindowFacts
  <2>2. CASE SweepEnds(s)
    BY <1>2, <2>2, SweepEndsType DEF ReadRange
  <2>3. CASE ~SweepEnds(s)
    <3> DEFINE window == Window(head, historical[s], point[s])
    <3>1. todo' = [todo EXCEPT ![s] = window] /\ spc' = [spc EXCEPT ![s] = "bound"]
      BY <1>2, <2>3 DEF ReadRange
    <3>2. UNCHANGED <<historical, point, bound>>
      BY <1>2, <2>3 DEF ReadRange
    <3>3. window \subseteq Commit
      BY <2>1
    <3> HIDE DEF window
    <3>4. todo' \in [Sweep -> SUBSET Commit]
      BY <3>1, <3>3
    <3>5. spc' \in [Sweep -> {"idle", "range", "bound", "append"}]
      BY <3>1
    <3>. QED BY <1>2, <3>2, <3>4, <3>5 DEF ReadRange
  <2>. QED BY <2>2, <2>3
<1>3. CASE ReadBound(s)
  <2>1. Len(rows) \in Nat
    OBVIOUS
  <2>2. CASE torn
    BY <1>3, <2>2, SweepEndsType DEF ReadBound
  <2>3. CASE ~torn
    <3> DEFINE left == {c \in todo[s] : ~Bound(c)}
    <3>1. left \in SUBSET Commit
      OBVIOUS
    <3>2. todo' = [todo EXCEPT ![s] = left]
      BY <1>3, <2>3 DEF ReadBound
    <3> HIDE DEF left
    <3>. QED BY <1>3, <2>1, <2>3, <3>1, <3>2 DEF ReadBound
  <2>. QED BY <2>2, <2>3
<1>4. CASE SweepAppend(s)
  <2> DEFINE c == CHOOSE c \in todo[s] : \A d \in todo[s] : Len(d) <= Len(c)
             r == [commit |-> c, by |-> s, saw |-> bound[s],
                   provenance |-> IF historical[s] THEN "IMPORTED" ELSE "live"]
  <2>1. c \in Commit
    BY <1>4, NewestExists DEF SweepAppend
  <2> HIDE DEF c
  <2>2. r \in Row
    BY <2>1 DEF Row, Provenance
  <2>3. rows' = Append(rows, r) /\ todo' = [todo EXCEPT ![s] = @ \ {c}]
    BY <1>4 DEF SweepAppend, c
  <2> HIDE DEF r
  <2>4. rows' \in Seq(Row)
    BY <2>2, <2>3
  <2>5. todo' \in [Sweep -> SUBSET Commit]
    BY <2>3
  <2>. QED BY <1>4, <2>4, <2>5 DEF SweepAppend
<1>5. CASE SweepReturns(s)
  BY <1>5, SweepEndsType DEF SweepReturns
<1>6. CASE KillSweep(s)
  <2>1. torn' \in BOOLEAN
    BY <1>6, TornType DEF KillSweep
  <2>2. SweepEnds(s) /\ kills' \in Nat /\ kills' + unenrolls <= MaxFaults
    BY <1>6, BoundAssumption DEF KillSweep, Killing
  <2>. QED BY <1>6, <2>1, <2>2, SweepEndsType DEF KillSweep
<1>. QED BY <1>1, <1>2, <1>3, <1>4, <1>5, <1>6 DEF SweepStep

LEMMA EnrollBasic ==
    ASSUME Basic, NEW e \in Enroller, InstallHook(e) \/ EnrollStep(e) \/ KillEnroll(e)
    PROVE  Basic'
<1> USE DEF Basic, TypeOK, HeadInv, HookInv, enrollment, git, ledger, hooks, sweeps, owner,
            EnrollGoto, EnrollEnds
<1>1. CASE InstallHook(e)
  BY <1>1 DEF InstallHook
<1>2. CASE TouchMarker(e)
  BY <1>2 DEF TouchMarker
<1>3. CASE DerivePoint(e)
  <2>1. \A n \in 0..Len(head) : SubSeq(head, 1, n) \in Point
    BY PrefixFacts
  <2>2. CASE record # NoRecord
    BY <1>3, <2>2, EmptyPoint DEF DerivePoint
  <2>3. CASE record = NoRecord
    <3>1. PICK n \in 0..Len(head) : stamp' = [stamp EXCEPT ![e] = SubSeq(head, 1, n)]
      BY <1>3, <2>3 DEF DerivePoint
    <3>2. stamp' \in [Enroller -> Point]
      BY <2>1, <3>1
    <3>3. epc' \in [Enroller -> {"idle", "marker", "look", "create", "fill"}]
      BY <1>3, <2>3 DEF DerivePoint
    <3>. QED BY <1>3, <3>2, <3>3 DEF DerivePoint
  <2>. QED BY <2>2, <2>3
<1>4. CASE CreateRecord(e)
  BY <1>4, EmptyPoint DEF CreateRecord
<1>5. CASE FillRecord(e)
  BY <1>5, EmptyPoint DEF FillRecord
<1>6. CASE KillEnroll(e)
  BY <1>6, EmptyPoint, BoundAssumption DEF KillEnroll, Killing
<1>. QED BY <1>1, <1>2, <1>3, <1>4, <1>5, <1>6 DEF EnrollStep

LEMMA OwnerBasic ==
    ASSUME Basic, Recover \/ PlanRemoval \/ RemoveHook \/ RemoveMarker \/ RemoveRecord
    PROVE  Basic'
<1> USE DEF Basic, TypeOK, HeadInv, HookInv, enrollment, git, ledger, hooks, sweeps,
            enrolls, owner
<1>1. CASE Recover
  BY <1>1 DEF Recover
<1>2. CASE PlanRemoval
  BY <1>2, BoundAssumption DEF PlanRemoval
<1>3. CASE RemoveHook
  BY <1>3 DEF RemoveHook
<1>4. CASE RemoveMarker
  BY <1>4 DEF RemoveMarker
<1>5. CASE RemoveRecord
  BY <1>5 DEF RemoveRecord
<1>. QED BY <1>1, <1>2, <1>3, <1>4, <1>5

LEMMA NextBasic == Basic /\ [Next]_vars => Basic'
<1> SUFFICES ASSUME Basic, [Next]_vars PROVE Basic'
  OBVIOUS
<1>1. CASE UNCHANGED vars
  BY <1>1 DEF Basic, TypeOK, HeadInv, HookInv, vars, git, enrollment, ledger, hooks, sweeps,
              enrolls, owner
<1>2. CASE Next
  BY <1>2, CommitElsewhereBasic, CommitHereBasic, HookBasic, SweepBasic, EnrollBasic, OwnerBasic
     DEF Next
<1>. QED BY <1>1, <1>2

\* Every variable keeps its type: what is bound are commits of the
\* repository, and the record is a point of its history.
THEOREM TypeCorrect == Spec => []TypeOK
<1>1. Basic => TypeOK
  BY DEF Basic
<1>. QED BY <1>1, InitBasic, NextBasic, PTL DEF Spec
-----------------------------------------------------------------------------
(* The enrollment point.                                                   *)

\* Only three steps write the record, and of those only the removal finds a
\* point there: a new file is created where there is none, and filled by the
\* enroll() that created it.
LEMMA RecordFixed ==
    ASSUME Basic, [Next]_vars, record \in Point
    PROVE  record' = record \/ (record' = NoRecord /\ plan = {"record"})
<1>1. record # NoRecord /\ \A e \in Enroller : record # e
  BY NameAssumption
<1>2. CASE UNCHANGED vars
  BY <1>2 DEF vars, enrollment
<1>3. ASSUME NEW h \in Hook, CommitHere(h) \/ HookStep(h) \/ KillHook(h)
      PROVE  record' = record
  BY <1>3 DEF CommitHere, HookStep, HookRead, HookAppend, KillHook, enrollment
<1>4. ASSUME NEW s \in Sweep,
             SweepStep(s) \/ KillSweep(s) \/ \E past \in BOOLEAN : StartSweep(s, past)
      PROVE  record' = record
  BY <1>4 DEF SweepStep, ReadRange, ReadBound, SweepAppend, SweepReturns, KillSweep,
              StartSweep, enrollment
<1>5. ASSUME NEW e \in Enroller, InstallHook(e) \/ EnrollStep(e) \/ KillEnroll(e)
      PROVE  record' = record
  <2>1. CASE CreateRecord(e)
    BY <1>1, <2>1 DEF CreateRecord
  <2>2. CASE FillRecord(e)
    BY <1>1, <2>2 DEF FillRecord
  <2>3. CASE InstallHook(e) \/ TouchMarker(e) \/ DerivePoint(e) \/ KillEnroll(e)
    BY <2>3 DEF InstallHook, TouchMarker, DerivePoint, KillEnroll, enrollment
  <2>. QED BY <1>5, <2>1, <2>2, <2>3 DEF EnrollStep
<1>6. CASE CommitElsewhere \/ Recover \/ PlanRemoval \/ RemoveHook \/ RemoveMarker
  BY <1>6 DEF CommitElsewhere, Recover, PlanRemoval, RemoveHook, RemoveMarker, enrollment
<1>7. CASE RemoveRecord
  BY <1>7 DEF RemoveRecord
<1>. QED BY <1>2, <1>3, <1>4, <1>5, <1>6, <1>7 DEF Next

\* First enrollment wins, whoever enrolls and at whatever HEAD.
THEOREM EnrollmentFixed == Spec => EnrollmentPointFixed
<1>1. Basic /\ [Next]_vars =>
          [(record \in Point) => \/ record' = record
                                 \/ record' = NoRecord /\ plan = {"record"}]_vars
  BY RecordFixed
<1>. QED BY <1>1, InitBasic, NextBasic, PTL DEF Spec, EnrollmentPointFixed
-----------------------------------------------------------------------------
(* What sweeps bind.                                                       *)

\* The steps that touch a sweep or the rows.
LEMMA StepCases ==
    ASSUME [Next]_vars
    PROVE  \/ UNCHANGED <<sweeps, rows>>
           \/ \E h \in Hook : HookAppend(h)
           \/ \E s \in Sweep : \/ \E past \in BOOLEAN : StartSweep(s, past)
                               \/ ReadRange(s) \/ ReadBound(s) \/ SweepAppend(s)
                               \/ SweepEnds(s) /\ UNCHANGED rows
<1>1. CASE UNCHANGED vars
  BY <1>1 DEF vars, ledger
<1>2. ASSUME NEW h \in Hook, CommitHere(h) \/ HookRead(h) \/ KillHook(h)
      PROVE  UNCHANGED <<sweeps, rows>>
  BY <1>2 DEF CommitHere, HookRead, KillHook, ledger
<1>3. ASSUME NEW s \in Sweep, SweepReturns(s) \/ KillSweep(s)
      PROVE  SweepEnds(s) /\ UNCHANGED rows
  BY <1>3 DEF SweepReturns, KillSweep, ledger
<1>4. ASSUME NEW e \in Enroller, InstallHook(e) \/ EnrollStep(e) \/ KillEnroll(e)
      PROVE  UNCHANGED <<sweeps, rows>>
  BY <1>4 DEF InstallHook, EnrollStep, TouchMarker, DerivePoint, CreateRecord, FillRecord,
              KillEnroll, ledger
<1>5. CASE \/ CommitElsewhere \/ Recover
           \/ PlanRemoval \/ RemoveHook \/ RemoveMarker \/ RemoveRecord
  BY <1>5 DEF CommitElsewhere, Recover, PlanRemoval, RemoveHook, RemoveMarker, RemoveRecord,
              ledger
<1>. QED BY <1>1, <1>2, <1>3, <1>4, <1>5 DEF Next, HookStep, SweepStep

\* The commit a sweep appends next, and its row.
Newest(s) == CHOOSE c \in todo[s] : \A d \in todo[s] : Len(d) <= Len(c)

SweepRow(s) == [commit |-> Newest(s), by |-> s, saw |-> bound[s],
                provenance |-> IF historical[s] THEN "IMPORTED" ELSE "live"]

LEMMA AppendFacts ==
    ASSUME Basic, NEW s \in Sweep, SweepAppend(s)
    PROVE  /\ Newest(s) \in todo[s] /\ todo[s] \subseteq Commit
           /\ todo' = [todo EXCEPT ![s] = @ \ {Newest(s)}]
           /\ rows' = Append(rows, SweepRow(s))
           /\ Len(rows') = Len(rows) + 1 /\ Len(rows) \in Nat
           /\ rows'[Len(rows) + 1] = SweepRow(s)
           /\ \A n \in 1..Len(rows) : rows'[n] = rows[n]
<1>1. todo[s] \subseteq Commit /\ todo[s] # {} /\ rows \in Seq(Row)
  BY DEF SweepAppend, Basic, TypeOK
<1>2. Newest(s) \in todo[s]
  BY <1>1, NewestExists DEF Newest
<1>3. /\ todo' = [todo EXCEPT ![s] = @ \ {Newest(s)}]
      /\ rows' = Append(rows, SweepRow(s))
  BY DEF SweepAppend, Newest, SweepRow
<1>. QED BY <1>1, <1>2, <1>3

LEMMA HookAppendFacts ==
    ASSUME Basic, NEW h \in Hook, HookAppend(h)
    PROVE  /\ UNCHANGED sweeps
           /\ Len(rows) \in Nat /\ Len(rows') \in Nat /\ Len(rows) <= Len(rows')
           /\ \A n \in 1..Len(rows') :
                  \/ n \in 1..Len(rows) /\ rows'[n] = rows[n]
                  \/ n = Len(rows) + 1 /\ rows'[n].by = h
<1>1. rows \in Seq(Row)
  BY DEF Basic, TypeOK
<1> DEFINE r == [commit |-> commit[h], provenance |-> "live", by |-> h, saw |-> 0]
<1>2. rows' = (IF torn THEN rows ELSE Append(rows, r)) /\ UNCHANGED sweeps /\ r.by = h
  BY DEF HookAppend
<1> HIDE DEF r
<1>. QED BY <1>1, <1>2

-----------------------------------------------------------------------------
\* A sweep that is about to append has seen the first bound[s] rows: what it
\* still has to append is in none of them, and not in a row of its own.
SeenInv ==
    \A s \in Sweep : spc[s] = "append" =>
        /\ bound[s] <= Len(rows)
        /\ \A m \in 1..Len(rows) : rows[m].commit \in todo[s] =>
               bound[s] < m /\ rows[m].by # s

LEMMA SeenStep == Basic /\ SeenInv /\ RebindOnlyUnseen /\ [Next]_vars =>
                      SeenInv' /\ RebindOnlyUnseen'
<1> SUFFICES ASSUME Basic, SeenInv, RebindOnlyUnseen, [Next]_vars
             PROVE  SeenInv' /\ RebindOnlyUnseen'
  OBVIOUS
<1>0. /\ spc \in [Sweep -> {"idle", "range", "bound", "append"}] /\ bound \in [Sweep -> Nat]
      /\ todo \in [Sweep -> SUBSET Commit] /\ rows \in Seq(Row) /\ Len(rows) \in Nat
  BY DEF Basic, TypeOK
<1>1. CASE UNCHANGED <<sweeps, rows>>
  BY <1>1 DEF SeenInv, RebindOnlyUnseen, sweeps
<1>2. ASSUME NEW h \in Hook, HookAppend(h)
      PROVE  SeenInv' /\ RebindOnlyUnseen'
  <2>1. /\ UNCHANGED sweeps
        /\ Len(rows') \in Nat /\ Len(rows) <= Len(rows')
        /\ \A n \in 1..Len(rows') :
               \/ n \in 1..Len(rows) /\ rows'[n] = rows[n]
               \/ n = Len(rows) + 1 /\ rows'[n].by = h
    BY <1>2, HookAppendFacts
  <2>2. h \notin Sweep
    BY NameAssumption
  <2>3. SeenInv'
    <3> SUFFICES ASSUME NEW s \in Sweep, spc[s] = "append"
                 PROVE  /\ bound[s] <= Len(rows')
                        /\ \A m \in 1..Len(rows') : rows'[m].commit \in todo[s] =>
                               bound[s] < m /\ rows'[m].by # s
      BY <2>1 DEF SeenInv, sweeps
    <3>1. bound[s] \in Nat /\ bound[s] <= Len(rows)
      BY <1>0 DEF SeenInv
    <3>. QED BY <1>0, <2>1, <2>2, <3>1 DEF SeenInv
  <2>4. RebindOnlyUnseen'
    <3> SUFFICES ASSUME NEW m \in 1..Len(rows'), NEW n \in 1..Len(rows'),
                        m < n, rows'[m].commit = rows'[n].commit, rows'[n].by \in Sweep
                 PROVE  rows'[n].saw < m /\ rows'[m].by # rows'[n].by
      BY DEF RebindOnlyUnseen
    <3>1. n \in 1..Len(rows) /\ rows'[n] = rows[n]
      BY <2>1, <2>2
    <3>2. m \in 1..Len(rows) /\ rows'[m] = rows[m]
      BY <1>0, <2>1, <3>1
    <3>. QED BY <3>1, <3>2 DEF RebindOnlyUnseen
  <2>. QED BY <2>3, <2>4
<1>3. ASSUME NEW s \in Sweep,
             \/ \E past \in BOOLEAN : StartSweep(s, past)
             \/ ReadRange(s) \/ ReadBound(s)
             \/ SweepEnds(s) /\ UNCHANGED rows
      PROVE  SeenInv' /\ RebindOnlyUnseen'
  <2>1. UNCHANGED rows
    BY <1>3 DEF StartSweep, ReadRange, ReadBound, ledger
  <2>2. \A r \in Sweep \ {s} : spc'[r] = spc[r] /\ bound'[r] = bound[r] /\ todo'[r] = todo[r]
    BY <1>0, <1>3 DEF StartSweep, ReadRange, ReadBound, SweepEnds
  <2>3. spc'[s] = "append" => /\ bound'[s] = Len(rows)
                              /\ \A c \in todo'[s] : ~Bound(c)
    <3>1. CASE ReadBound(s) /\ ~torn
      <4> DEFINE left == {c \in todo[s] : ~Bound(c)}
      <4>1. todo' = [todo EXCEPT ![s] = left] /\ bound' = [bound EXCEPT ![s] = Len(rows)]
        BY <3>1 DEF ReadBound
      <4>2. todo'[s] = left /\ bound'[s] = Len(rows)
        BY <1>0, <4>1
      <4>. QED BY <4>2
    <3>2. CASE ~(ReadBound(s) /\ ~torn)
      BY <1>0, <1>3, <3>2 DEF StartSweep, ReadRange, ReadBound, SweepEnds
    <3>. QED BY <3>1, <3>2
  <2>4. SeenInv'
    <3> SUFFICES ASSUME NEW r \in Sweep, spc'[r] = "append"
                 PROVE  /\ bound'[r] <= Len(rows)
                        /\ \A m \in 1..Len(rows) : rows[m].commit \in todo'[r] =>
                               bound'[r] < m /\ rows[m].by # r
      BY <2>1 DEF SeenInv
    <3>1. CASE r = s
      BY <1>0, <2>3, <3>1 DEF Bound
    <3>2. CASE r # s
      BY <2>2, <3>2 DEF SeenInv
    <3>. QED BY <3>1, <3>2
  <2>. QED BY <2>1, <2>4 DEF RebindOnlyUnseen
<1>4. ASSUME NEW s \in Sweep, SweepAppend(s)
      PROVE  SeenInv' /\ RebindOnlyUnseen'
  <2>1. /\ Newest(s) \in todo[s]
        /\ todo' = [todo EXCEPT ![s] = @ \ {Newest(s)}]
        /\ Len(rows') = Len(rows) + 1
        /\ rows'[Len(rows) + 1] = SweepRow(s)
        /\ \A n \in 1..Len(rows) : rows'[n] = rows[n]
    BY <1>4, AppendFacts
  <2>2. UNCHANGED <<spc, bound>> /\ spc[s] = "append"
    BY <1>4 DEF SweepAppend
  <2>3. /\ SweepRow(s).commit = Newest(s) /\ SweepRow(s).by = s
        /\ SweepRow(s).saw = bound[s]
    BY DEF SweepRow
  <2>4. SeenInv'
    <3> SUFFICES ASSUME NEW r \in Sweep, spc[r] = "append"
                 PROVE  /\ bound[r] <= Len(rows')
                        /\ \A m \in 1..Len(rows') : rows'[m].commit \in todo'[r] =>
                               bound[r] < m /\ rows'[m].by # r
      BY <2>2 DEF SeenInv
    <3>1. bound[r] \in Nat /\ bound[r] <= Len(rows) /\ todo'[r] \subseteq todo[r]
      BY <1>0, <2>1 DEF SeenInv
    <3>2. r = s => Newest(s) \notin todo'[r]
      BY <1>0, <2>1
    <3>3. ASSUME NEW m \in 1..Len(rows'), rows'[m].commit \in todo'[r]
          PROVE  bound[r] < m /\ rows'[m].by # r
      <4>1. CASE m \in 1..Len(rows)
        BY <2>1, <3>1, <3>3, <4>1 DEF SeenInv
      <4>2. CASE m = Len(rows) + 1
        BY <1>0, <2>1, <2>3, <3>1, <3>2, <3>3, <4>2
      <4>. QED BY <1>0, <2>1, <4>1, <4>2
    <3>. QED BY <1>0, <2>1, <3>1, <3>3
  <2>5. RebindOnlyUnseen'
    <3> SUFFICES ASSUME NEW m \in 1..Len(rows'), NEW n \in 1..Len(rows'),
                        m < n, rows'[m].commit = rows'[n].commit, rows'[n].by \in Sweep
                 PROVE  rows'[n].saw < m /\ rows'[m].by # rows'[n].by
      BY DEF RebindOnlyUnseen
    <3>0. n \in 1..Len(rows) \/ n = Len(rows) + 1
      <4>1. Len(rows) \in Nat /\ n \in 1..(Len(rows) + 1)
        BY <1>0, <2>1
      <4>. QED BY <4>1
    <3>1. m \in 1..Len(rows) /\ rows'[m] = rows[m]
      BY <1>0, <2>1
    <3>2. CASE n \in 1..Len(rows)
      BY <2>1, <3>1, <3>2 DEF RebindOnlyUnseen
    <3>3. CASE n = Len(rows) + 1
      BY <2>1, <2>2, <2>3, <3>1, <3>3 DEF SeenInv
    <3>. QED BY <3>0, <3>2, <3>3
  <2>. QED BY <2>4, <2>5
<1>. QED BY <1>1, <1>2, <1>3, <1>4, StepCases

\* A commit gets a second row only from somebody who could not see the first,
\* and no sweep repeats a row of its own.
THEOREM NoBlindRebind == Spec => []RebindOnlyUnseen
<1>1. Init => SeenInv /\ RebindOnlyUnseen
  BY DEF Init, SeenInv, RebindOnlyUnseen
<1>. QED BY <1>1, InitBasic, NextBasic, SeenStep, PTL DEF Spec

-----------------------------------------------------------------------------
\* Until the first unenroll(), nobody is removing anything, a running sweep
\* has read the record that is there, and its window is on one side of it.
SideInv ==
    unenrolls = 0 =>
        /\ plan = {}
        /\ \A s \in Sweep :
               /\ spc[s] # "idle" => record \in Point /\ point[s] = record
               /\ spc[s] \in {"bound", "append"} =>
                      \A c \in todo[s] : historical[s] <=> Ancestor(c, record)

SideBoth == SideInv /\ ImportedIsBeforeEnrollment

LEMMA PlanFixed ==
    ASSUME [Next]_vars, Basic, unenrolls' = 0, SideInv
    PROVE  unenrolls = 0 /\ plan = {} /\ plan' = {}
<1>0. unenrolls \in Nat
  BY DEF Basic, TypeOK
<1>1. CASE UNCHANGED vars
  BY <1>1 DEF vars, owner, SideInv
<1>2. ASSUME NEW h \in Hook, CommitHere(h) \/ HookStep(h) \/ KillHook(h)
      PROVE  UNCHANGED owner
  BY <1>2 DEF CommitHere, HookStep, HookRead, HookAppend, KillHook
<1>3. ASSUME NEW s \in Sweep,
             SweepStep(s) \/ KillSweep(s) \/ \E past \in BOOLEAN : StartSweep(s, past)
      PROVE  UNCHANGED owner
  BY <1>3 DEF SweepStep, ReadRange, ReadBound, SweepAppend, SweepReturns, KillSweep, StartSweep
<1>4. ASSUME NEW e \in Enroller, InstallHook(e) \/ EnrollStep(e) \/ KillEnroll(e)
      PROVE  UNCHANGED owner
  BY <1>4 DEF InstallHook, EnrollStep, TouchMarker, DerivePoint, CreateRecord, FillRecord,
              KillEnroll
<1>5. CASE CommitElsewhere \/ Recover
  BY <1>5 DEF CommitElsewhere, Recover, owner, SideInv
<1>6. CASE PlanRemoval
  BY <1>0, <1>6 DEF PlanRemoval
<1>7. CASE RemoveHook \/ RemoveMarker \/ RemoveRecord
  BY <1>7 DEF RemoveHook, RemoveMarker, RemoveRecord, SideInv
<1>8. CASE UNCHANGED owner
  BY <1>8 DEF owner, SideInv
<1>. QED BY <1>1, <1>2, <1>3, <1>4, <1>5, <1>6, <1>7, <1>8 DEF Next

LEMMA SideStep == Basic /\ SideBoth /\ [Next]_vars => SideBoth'
<1> SUFFICES ASSUME Basic, SideBoth, [Next]_vars, unenrolls' = 0
             PROVE  SideBoth'
  BY DEF SideBoth, SideInv, ImportedIsBeforeEnrollment
<1>0. /\ spc \in [Sweep -> {"idle", "range", "bound", "append"}]
      /\ historical \in [Sweep -> BOOLEAN] /\ point \in [Sweep -> Point]
      /\ todo \in [Sweep -> SUBSET Commit] /\ rows \in Seq(Row) /\ Len(rows) \in Nat
      /\ head \in Point
  BY DEF Basic, TypeOK
<1>1. unenrolls = 0 /\ plan = {} /\ plan' = {}
  BY PlanFixed DEF SideBoth
<1>2. record \in Point => record' = record
  BY <1>1, RecordFixed
<1>3. \A s \in Sweep :
          /\ spc[s] # "idle" => record \in Point /\ point[s] = record
          /\ spc[s] \in {"bound", "append"} =>
                 \A c \in todo[s] : historical[s] <=> Ancestor(c, record)
  BY <1>1 DEF SideBoth, SideInv
<1>4. \A n \in 1..Len(rows) : rows[n].by \in Sweep =>
          record \in Point /\ (rows[n].provenance = "IMPORTED" <=> Ancestor(rows[n].commit, record))
  BY <1>1 DEF SideBoth, ImportedIsBeforeEnrollment
<1>5. ASSUME UNCHANGED sweeps
      PROVE  SideInv'
  BY <1>1, <1>2, <1>3, <1>5 DEF SideInv, sweeps
<1>6. ASSUME UNCHANGED rows
      PROVE  ImportedIsBeforeEnrollment'
  BY <1>2, <1>4, <1>6 DEF ImportedIsBeforeEnrollment
<1>7. CASE UNCHANGED <<sweeps, rows>>
  BY <1>5, <1>6, <1>7 DEF SideBoth
<1>8. ASSUME NEW h \in Hook, HookAppend(h)
      PROVE  SideBoth'
  <2>1. UNCHANGED sweeps /\ \A n \in 1..Len(rows') :
            \/ n \in 1..Len(rows) /\ rows'[n] = rows[n]
            \/ n = Len(rows) + 1 /\ rows'[n].by = h
    BY <1>8, HookAppendFacts
  <2>2. h \notin Sweep
    BY NameAssumption
  <2>. QED BY <1>2, <1>4, <1>5, <2>1, <2>2 DEF SideBoth, ImportedIsBeforeEnrollment
<1>9. ASSUME NEW s \in Sweep,
             \/ \E past \in BOOLEAN : StartSweep(s, past)
             \/ ReadRange(s) \/ ReadBound(s)
             \/ SweepEnds(s) /\ UNCHANGED rows
      PROVE  SideBoth'
  <2>1. UNCHANGED rows
    BY <1>9 DEF StartSweep, ReadRange, ReadBound, ledger
  <2>2. \A r \in Sweep \ {s} : /\ spc'[r] = spc[r] /\ historical'[r] = historical[r]
                               /\ point'[r] = point[r] /\ todo'[r] = todo[r]
    BY <1>0, <1>9 DEF StartSweep, ReadRange, ReadBound, SweepEnds
  <2>3. /\ spc'[s] # "idle" => record' \in Point /\ point'[s] = record'
        /\ spc'[s] \in {"bound", "append"} =>
               \A c \in todo'[s] : historical'[s] <=> Ancestor(c, record')
    <3>1. CASE SweepEnds(s)
      BY <1>0, <3>1 DEF SweepEnds
    <3>2. ASSUME NEW past \in BOOLEAN, StartSweep(s, past)
          PROVE  <2>3!1 /\ <2>3!2
      BY <1>0, <1>2, <3>2 DEF StartSweep, enrollment
    <3>3. CASE ReadRange(s) /\ ~SweepEnds(s)
      <4>1. /\ todo' = [todo EXCEPT ![s] = Window(head, historical[s], point[s])]
            /\ UNCHANGED <<historical, point>> /\ spc[s] = "range"
        BY <3>3 DEF ReadRange
      <4>2. \A c \in Window(head, historical[s], point[s]) : historical[s] <=> Ancestor(c, point[s])
        BY <1>0, WindowFacts
      <4>3. record \in Point /\ point[s] = record
        BY <1>3, <4>1
      <4>. QED BY <1>0, <1>2, <4>1, <4>2, <4>3
    <3>4. CASE ReadBound(s) /\ ~torn
      <4> DEFINE left == {c \in todo[s] : ~Bound(c)}
      <4>1. /\ todo' = [todo EXCEPT ![s] = left]
            /\ UNCHANGED <<historical, point>> /\ spc[s] = "bound"
        BY <3>4 DEF ReadBound
      <4>2. left \subseteq todo[s]
        OBVIOUS
      <4> HIDE DEF left
      <4>. QED BY <1>0, <1>2, <1>3, <4>1, <4>2
    <3>. QED BY <1>9, <3>1, <3>2, <3>3, <3>4 DEF ReadBound
  <2>4. ASSUME NEW r \in Sweep
        PROVE  /\ spc'[r] # "idle" => record' \in Point /\ point'[r] = record'
               /\ spc'[r] \in {"bound", "append"} =>
                      \A c \in todo'[r] : historical'[r] <=> Ancestor(c, record')
    <3>1. CASE r = s
      BY <2>3, <3>1
    <3>2. CASE r # s
      BY <1>0, <1>2, <1>3, <2>2, <3>2
    <3>. QED BY <3>1, <3>2
  <2>5. SideInv'
    BY <1>1, <2>4 DEF SideInv
  <2>. QED BY <1>6, <2>1, <2>5 DEF SideBoth
<1>10. ASSUME NEW s \in Sweep, SweepAppend(s)
       PROVE  SideBoth'
  <2>1. /\ Newest(s) \in todo[s]
        /\ todo' = [todo EXCEPT ![s] = @ \ {Newest(s)}]
        /\ Len(rows') = Len(rows) + 1
        /\ rows'[Len(rows) + 1] = SweepRow(s)
        /\ \A n \in 1..Len(rows) : rows'[n] = rows[n]
    BY <1>10, AppendFacts
  <2>2. UNCHANGED <<spc, historical, point>> /\ spc[s] = "append"
    BY <1>10 DEF SweepAppend
  <2>3. /\ SweepRow(s).commit = Newest(s)
        /\ SweepRow(s).provenance = "IMPORTED" <=> historical[s]
    BY <1>0 DEF SweepRow
  <2>4. record \in Point /\ record' = record /\ (historical[s] <=> Ancestor(Newest(s), record))
    BY <1>2, <1>3, <2>1, <2>2
  <2>5. \A r \in Sweep : todo'[r] \subseteq todo[r]
    BY <1>0, <2>1
  <2>6. SideInv'
    BY <1>1, <1>3, <2>2, <2>4, <2>5 DEF SideInv
  <2>7. ASSUME NEW n \in 1..Len(rows'), rows'[n].by \in Sweep
        PROVE  rows'[n].provenance = "IMPORTED" <=> Ancestor(rows'[n].commit, record')
    <3>1. CASE n \in 1..Len(rows)
      BY <1>4, <2>1, <2>4, <2>7, <3>1
    <3>2. CASE n = Len(rows) + 1
      BY <2>1, <2>3, <2>4, <3>2
    <3>. QED BY <1>0, <2>1, <3>1, <3>2
  <2>8. ImportedIsBeforeEnrollment'
    BY <2>4, <2>7 DEF ImportedIsBeforeEnrollment
  <2>. QED BY <2>6, <2>8 DEF SideBoth
<1>. QED BY <1>7, <1>8, <1>9, <1>10, StepCases

\* Until the first unenroll, a sweep's row is imported exactly if its commit is
\* the enrollment point or before it: what historical sweeps bind is, what live
\* ones bind is not, however HEAD is rewritten and whoever enrolls beside them.
\* Of hooks it says nothing: one may bind HEAD between the marker and the point
\* that is derived from HEAD after it (enroll, _derive_enroll_commit).
THEOREM SidesKept == Spec => []ImportedIsBeforeEnrollment
<1>1. Init => SideBoth
  BY DEF Init, SideBoth, SideInv, ImportedIsBeforeEnrollment
<1>2. SideBoth => ImportedIsBeforeEnrollment
  BY DEF SideBoth
<1>. QED BY <1>1, <1>2, InitBasic, NextBasic, SideStep, PTL DEF Spec
=============================================================================
