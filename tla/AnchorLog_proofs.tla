---------------------------- MODULE AnchorLog_proofs ----------------------------
(***************************************************************************)
(* Proofs about AnchorLog, for any number of cuts, days, rows, attestations *)
(* and faults.                                                             *)
(***************************************************************************)
EXTENDS AnchorLog, SequenceTheorems, WellFoundedInduction, TLAPS

-----------------------------------------------------------------------------
(* Paths, and the last row that some trees cover.                          *)

LEMMA PathFacts ==
    /\ \A d \in Date : E(d) \in Path /\ P(d) \in Path
    /\ \A d, b : E(d) = E(b) => d = b
    /\ \A d, b : E(d) # P(b)
    /\ \A d : IsEvent(E(d)) /\ ~IsEvent(P(d)) /\ DayOf(E(d)) = d /\ DayOf(P(d)) = d
    /\ \A path \in Path : /\ DayOf(path) \in Date
                          /\ IF IsEvent(path) THEN path = E(DayOf(path))
                                              ELSE path = P(DayOf(path))
BY DEF Path, E, P, IsEvent, DayOf

\* If no event ends after row N, some event ends last, or there is none.
LEMMA LastEndFacts ==
    ASSUME NEW trees, NEW N \in Nat,
           \A t \in trees : \A d \in Events(t) : t[E(d)].end \in Nat /\ t[E(d)].end <= N
    PROVE  /\ LastEnd(trees) \in Nat /\ LastEnd(trees) <= N
           /\ \/ LastEnd(trees) = 0
              \/ \E t \in trees : \E d \in Events(t) : t[E(d)].end = LastEnd(trees)
           /\ \A t \in trees : \A d \in Events(t) : t[E(d)].end <= LastEnd(trees)
<1> DEFINE ends == {0} \cup UNION {{t[E(d)].end : d \in Events(t)} : t \in trees}
           R == OpToRel(<, Nat)
<1>1. /\ 0 \in ends
      /\ \A m \in ends : \/ m = 0
                         \/ \E t \in trees : \E d \in Events(t) : t[E(d)].end = m
      /\ \A t \in trees : \A d \in Events(t) : t[E(d)].end \in ends
  OBVIOUS
<1>2. \A m \in ends : m \in Nat /\ m <= N
  OBVIOUS
<1>3. LastEnd(trees) = CHOOSE m \in ends : \A n \in ends : n <= m
  BY DEF LastEnd
<1> HIDE DEF ends
<1> DEFINE D == {N - m : m \in ends}
<1>4. D \subseteq Nat /\ D # {}
  BY <1>1, <1>2
<1>5. \E x \in D : \A y \in D : ~(<<y, x>> \in R)
  <2>1. IsWellFoundedOn(R, Nat)
    BY NatLessThanWellFounded
  <2> HIDE DEF R, D
  <2>. QED BY <1>4, <2>1, WFMin
<1>6. PICK x \in D : \A y \in D : ~(y < x)
  BY <1>4, <1>5 DEF OpToRel
<1>7. PICK m \in ends : x = N - m
  OBVIOUS
<1>8. \A n \in ends : n <= m
  <2> SUFFICES ASSUME NEW n \in ends PROVE n <= m
    OBVIOUS
  <2>1. ~(N - n < N - m)
    BY <1>6, <1>7
  <2>. QED BY <1>2, <2>1
<1>9. LastEnd(trees) \in ends /\ \A n \in ends : n <= LastEnd(trees)
  BY <1>3, <1>8
<1>. QED BY <1>1, <1>2, <1>9

-----------------------------------------------------------------------------
(* Types, as far as the proofs need them.                                  *)

Type == {"session", "other", "receipt"}

IsTree(tree) ==
    /\ tree \in [Path -> File]
    /\ \A d \in Date : /\ tree[E(d)] \in Event \cup {NoFile, Torn}
                       /\ tree[P(d)] \in Proof \cup {NoFile, Torn}

\* The events that publish has to do are staged; once it is at the proofs, it has
\* no event left to do.
Publisher ==
    /\ files \subseteq Path
    /\ \A path \in files : IsEvent(path) => staged[path] # NoFile
    /\ ppc = "copyEvent" => cur \in files /\ IsEvent(cur)
    /\ ppc \in {"copy", "unlink"} => \E d \in Date : cur = P(d)
    /\ ppc = "commit" => cur \in Path
    /\ ppc \in {"proofs", "copy", "unlink"} \/ (ppc = "commit" /\ ~IsEvent(cur)) =>
           \A path \in files : ~IsEvent(path)

Basic ==
    /\ ledger \in Seq(Type)
    /\ IsTree(staged) /\ IsTree(work)
    /\ cpc \in [Cutter -> {"idle", "stamp", "event", "proof", "receipt"}]
    /\ date \in [Cutter -> Date] /\ event \in [Cutter -> Event]
    /\ Publisher
    /\ upc # "idle" => /\ \E d \in Date : got.path = P(d)
                       /\ got.proof \in Proof

\* What is staged, in the clone or about to be staged covers a row at least,
\* and only rows that the ledger has.
Extent ==
    /\ \A d \in Date : \A tree \in {staged, work} : d \in Events(tree) =>
           tree[E(d)].start < tree[E(d)].end /\ tree[E(d)].end <= Len(ledger)
    /\ \A c \in Cutter : cpc[c] # "idle" =>
           event[c].start < event[c].end /\ event[c].end <= Len(ledger)

Sound == Basic /\ Extent

LEMMA TreeWrite ==
    ASSUME NEW tree, IsTree(tree), NEW path \in Path,
           NEW new \in [Path -> File],
           new[path] \in {NoFile, Torn} \cup (IF IsEvent(path) THEN Event ELSE Proof),
           \A other \in Path \ {path} : new[other] = tree[other]
    PROVE  IsTree(new)
<1>1. \A d \in Date : /\ tree[E(d)] \in Event \cup {NoFile, Torn}
                      /\ tree[P(d)] \in Proof \cup {NoFile, Torn}
  BY DEF IsTree
<1>4. ASSUME NEW d \in Date
      PROVE  /\ new[E(d)] \in Event \cup {NoFile, Torn}
             /\ new[P(d)] \in Proof \cup {NoFile, Torn}
  <2>1. E(d) \in Path /\ P(d) \in Path /\ IsEvent(E(d)) /\ ~IsEvent(P(d))
    BY PathFacts
  <2>2. new[E(d)] \in Event \cup {NoFile, Torn}
    BY <1>1, <2>1
  <2>3. new[P(d)] \in Proof \cup {NoFile, Torn}
    BY <1>1, <2>1
  <2>. QED BY <2>2, <2>3
<1>. QED BY <1>4 DEF IsTree

\* The same of the staging tree and of the clone.
LEMMA StagedWrite ==
    ASSUME Basic, NEW path \in Path, NEW file,
           file \in {NoFile, Torn} \cup (IF IsEvent(path) THEN Event ELSE Proof),
           staged' = [staged EXCEPT ![path] = file]
    PROVE  /\ IsTree(staged') /\ staged'[path] = file
           /\ \A other \in Path \ {path} : staged'[other] = staged[other]
<1>1. IsTree(staged) /\ staged \in [Path -> File] /\ file \in File
  BY DEF Basic, IsTree, File
<1>2. /\ staged' \in [Path -> File] /\ staged'[path] = file
      /\ \A other \in Path \ {path} : staged'[other] = staged[other]
  BY <1>1
<1>3. IsTree(staged')
  BY <1>1, <1>2, TreeWrite
<1>. QED BY <1>2, <1>3

LEMMA WorkWrite ==
    ASSUME Basic, NEW path \in Path, NEW file,
           file \in {NoFile, Torn} \cup (IF IsEvent(path) THEN Event ELSE Proof),
           work' = [work EXCEPT ![path] = file]
    PROVE  /\ IsTree(work') /\ work'[path] = file
           /\ \A other \in Path \ {path} : work'[other] = work[other]
<1>1. IsTree(work) /\ work \in [Path -> File] /\ file \in File
  BY DEF Basic, IsTree, File
<1>2. /\ work' \in [Path -> File] /\ work'[path] = file
      /\ \A other \in Path \ {path} : work'[other] = work[other]
  BY <1>1
<1>3. IsTree(work')
  BY <1>1, <1>2, TreeWrite
<1>. QED BY <1>2, <1>3

\* No cut takes a staged event away.
LEMMA PublisherStays ==
    ASSUME Publisher, UNCHANGED publisher,
           \A d \in Date : staged'[E(d)] = NoFile => staged[E(d)] = NoFile
    PROVE  Publisher'
<1>1. \A path \in files : IsEvent(path) => staged'[path] # NoFile
  BY PathFacts DEF Publisher
<1>. QED BY <1>1 DEF Publisher, publisher

\* What a tree has at a path may be copied to that path of another.
LEMMA TreeRead ==
    ASSUME NEW tree, IsTree(tree), NEW path \in Path
    PROVE  tree[path] \in {NoFile, Torn} \cup (IF IsEvent(path) THEN Event ELSE Proof)
BY PathFacts DEF IsTree

\* A copy to the clone is of what is staged, or torn.
LEMMA Copied ==
    ASSUME Basic, NEW label, CopyStaged(label), cur \in Path
    PROVE  /\ ppc = label /\ ppc' = "commit" /\ cur' = cur /\ files' = files
           /\ UNCHANGED <<store, cuts, upgrader, staged, index, head, remote>>
           /\ IsTree(work') /\ work'[cur] \in {staged[cur], Torn}
           /\ \A other \in Path \ {cur} : work'[other] = work[other]
<1>1. PICK file \in {staged[cur], Torn} : work' = [work EXCEPT ![cur] = file]
  BY DEF CopyStaged, Found
<1>2. IsTree(staged)
  BY DEF Basic
<1>3. file \in {NoFile, Torn} \cup (IF IsEvent(cur) THEN Event ELSE Proof)
  BY <1>2, TreeRead
<1>4. /\ IsTree(work') /\ work'[cur] = file
      /\ \A other \in Path \ {cur} : work'[other] = work[other]
  BY <1>1, <1>3, WorkWrite
<1>5. /\ ppc = label /\ ppc' = "commit" /\ cur' = cur /\ files' = files
      /\ UNCHANGED <<store, cuts, upgrader, staged, index, head, remote>>
  BY DEF CopyStaged, log
<1>. QED BY <1>4, <1>5

LEMMA RootType ==
    ASSUME NEW e \in Event
    PROVE  [root |-> Root(e), att |-> 0] \in Proof
BY DEF Root, Event, Proof

LEMMA InitSound == Init => Sound
<1> SUFFICES ASSUME Init PROVE Sound
  OBVIOUS
<1>1. IsTree(Empty) /\ \A d \in Date : Empty[E(d)] = NoFile
  BY PathFacts DEF IsTree, Empty, File
<1>2. ledger \in Seq(Type) /\ NoEvent \in Event
  BY DEF Init, NoEvent, Event
<1>3. date \in [Cutter -> Date]
  BY DateAssumption DEF Init
<1>4. Basic
  BY <1>1, <1>2, <1>3 DEF Init, Basic, Publisher
<1>5. Extent
  BY <1>1 DEF Init, Extent, Events
<1>. QED BY <1>4, <1>5 DEF Sound

\* Most steps stage nothing new but what the clone or nobody has.
LEMMA ExtentFrame ==
    ASSUME Sound, Len(ledger') \in Nat, Len(ledger) <= Len(ledger'),
           \A d \in Date : /\ staged'[E(d)] \in {NoFile, Torn, staged[E(d)]}
                           /\ work'[E(d)] \in {NoFile, Torn, work[E(d)], staged[E(d)]},
           \A c \in Cutter : cpc'[c] # "idle" => cpc[c] # "idle" /\ event'[c] = event[c]
    PROVE  Extent'
<1>1. Len(ledger) \in Nat
  BY DEF Sound, Basic
<1>2. ASSUME NEW file, file \notin {NoFile, Torn},
             NEW d \in Date, file \in {staged[E(d)], work[E(d)]}
      PROVE  file.start < file.end /\ file.end <= Len(ledger) /\ file.end \in Nat
  <2>1. /\ staged[E(d)] \in Event \cup {NoFile, Torn}
        /\ work[E(d)] \in Event \cup {NoFile, Torn}
    BY DEF Sound, Basic, IsTree
  <2>2. file \in Event
    BY <1>2, <2>1
  <2>3. file.end \in Nat
    BY <2>2 DEF Event
  <2>. QED BY <1>2, <2>3 DEF Sound, Extent, Events
<1>3. ASSUME NEW d \in Date, NEW tree \in {staged', work'}, tree[E(d)] \notin {NoFile, Torn}
      PROVE  tree[E(d)].start < tree[E(d)].end /\ tree[E(d)].end <= Len(ledger')
  <2>1. tree[E(d)] \in {staged[E(d)], work[E(d)]}
    BY <1>3
  <2>2. /\ tree[E(d)].start < tree[E(d)].end /\ tree[E(d)].end <= Len(ledger)
        /\ tree[E(d)].end \in Nat
    BY <1>2, <1>3, <2>1
  <2>. QED BY <1>1, <2>2
<1>4. ASSUME NEW c \in Cutter, cpc'[c] # "idle"
      PROVE  event'[c].start < event'[c].end /\ event'[c].end <= Len(ledger')
  <2>1. event[c] \in Event
    BY DEF Sound, Basic
  <2>2. event[c].end \in Nat
    BY <2>1 DEF Event
  <2>. QED BY <1>1, <1>4, <2>2 DEF Sound, Extent
<1>. QED BY <1>3, <1>4 DEF Extent, Events

LEMMA CutEndsType ==
    ASSUME Basic, NEW c \in Cutter, CutEnds(c)
    PROVE  /\ cpc' \in [Cutter -> {"idle", "stamp", "event", "proof", "receipt"}]
           /\ date' \in [Cutter -> Date] /\ event' \in [Cutter -> Event]
           /\ \A b \in Cutter : cpc'[b] # "idle" => cpc[b] # "idle" /\ event'[b] = event[b]
BY DateAssumption DEF CutEnds, Basic, NoEvent, Event

\* What a cut covers starts where the last event known ends.
LEMMA CutFacts ==
    ASSUME Sound, NEW c \in Cutter, NEW d \in Date, Cut(c, d)
    PROVE  LET range == [start |-> LastEnd({staged, work}), end |-> Len(ledger)] IN
           /\ range \in Event /\ range.start < range.end
           /\ event' = [event EXCEPT ![c] = range]
           /\ cpc' = [cpc EXCEPT ![c] = "stamp"] /\ date' = [date EXCEPT ![c] = d]
           /\ \/ range.start = 0
              \/ \E t \in {staged, work} : \E b \in Events(t) : t[E(b)].end = range.start
           /\ \A t \in {staged, work} : \A b \in Events(t) : t[E(b)].end <= range.start
<1> DEFINE range == [start |-> LastEnd({staged, work}), end |-> Len(ledger)]
<1>1. Len(ledger) \in Nat
  BY DEF Sound, Basic
<1>2. \A t \in {staged, work} : \A b \in Events(t) :
          t[E(b)].end \in Nat /\ t[E(b)].end <= Len(ledger)
  <2> SUFFICES ASSUME NEW t \in {staged, work}, NEW b \in Events(t)
               PROVE  t[E(b)].end \in Nat /\ t[E(b)].end <= Len(ledger)
    OBVIOUS
  <2>1. b \in Date /\ t[E(b)] \in Event
    BY DEF Events, Sound, Basic, IsTree
  <2>. QED BY <2>1 DEF Event, Sound, Extent
<1>3. /\ range.start = LastEnd({staged, work}) /\ range.end = Len(ledger)
      /\ LastEnd({staged, work}) \in Nat
      /\ \/ LastEnd({staged, work}) = 0
         \/ \E t \in {staged, work} : \E b \in Events(t) : t[E(b)].end = LastEnd({staged, work})
      /\ \A t \in {staged, work} : \A b \in Events(t) : t[E(b)].end <= LastEnd({staged, work})
  <2> DEFINE trees == {staged, work}
  <2>1. \A t \in trees : \A b \in Events(t) : t[E(b)].end \in Nat /\ t[E(b)].end <= Len(ledger)
    BY <1>2
  <2> HIDE DEF trees
  <2>2. /\ LastEnd(trees) \in Nat
        /\ \/ LastEnd(trees) = 0
           \/ \E t \in trees : \E b \in Events(t) : t[E(b)].end = LastEnd(trees)
        /\ \A t \in trees : \A b \in Events(t) : t[E(b)].end <= LastEnd(trees)
    BY <1>1, <2>1, LastEndFacts
  <2>. QED BY <2>2 DEF trees
<1>4. range \in Event
  BY <1>1, <1>3 DEF Event
<1> HIDE DEF range
<1>5. /\ Root(range) # {}
      /\ event' = [event EXCEPT ![c] = range]
      /\ cpc' = [cpc EXCEPT ![c] = "stamp"] /\ date' = [date EXCEPT ![c] = d]
  BY DEF Cut, CutRange, range
<1>6. range.start < range.end
  <2>1. PICK n \in (range.start + 1)..range.end : TRUE
    BY <1>5 DEF Root
  <2>2. range.start \in Nat /\ range.end \in Nat
    BY <1>4 DEF Event
  <2>. QED BY <2>1, <2>2
<1>. QED BY <1>3, <1>4, <1>5, <1>6 DEF range

LEMMA CutSound ==
    ASSUME Sound, NEW c \in Cutter, CutStep(c) \/ KillCut(c)
    PROVE  Sound'
<1>0. /\ Basic /\ Len(ledger) \in Nat
      /\ IsTree(staged) /\ date[c] \in Date /\ event[c] \in Event
  BY DEF Sound, Basic
<1> DEFINE Cuts == /\ cpc \in [Cutter -> {"idle", "stamp", "event", "proof", "receipt"}]
                   /\ date \in [Cutter -> Date] /\ event \in [Cutter -> Event]
           Going == \A b \in Cutter :
                        cpc'[b] # "idle" => cpc[b] # "idle" /\ event'[b] = event[b]
<1>1. ASSUME UNCHANGED <<clone, publisher, upgrader>>, ledger' \in Seq(Type), IsTree(staged'),
             Cuts', \A d \in Date : staged'[E(d)] = NoFile => staged[E(d)] = NoFile
      PROVE  Basic'
  <2>1. Publisher'
    BY <1>0, <1>1, PublisherStays DEF Basic
  <2>. QED BY <1>0, <1>1, <2>1 DEF Basic, clone, upgrader
<1>2. ASSUME NEW d \in Date, Cut(c, d)
      PROVE  Sound'
  <2> DEFINE range == [start |-> LastEnd({staged, work}), end |-> Len(ledger)]
  <2>1. /\ range \in Event /\ range.start < range.end
        /\ event' = [event EXCEPT ![c] = range]
        /\ cpc' = [cpc EXCEPT ![c] = "stamp"] /\ date' = [date EXCEPT ![c] = d]
    BY <1>2, CutFacts
  <2>2. range.end <= Len(ledger)
    BY <1>0
  <2> HIDE DEF range
  <2>3. UNCHANGED <<store, staged, clone, publisher, upgrader>>
    BY <1>2 DEF Cut, CutRange
  <2>4. Cuts'
    BY <1>0, <2>1 DEF Basic
  <2>5. Basic'
    BY <1>0, <1>1, <2>3, <2>4 DEF Basic, store
  <2>6. ASSUME NEW b \in Cutter, cpc'[b] # "idle"
        PROVE  event'[b].start < event'[b].end /\ event'[b].end <= Len(ledger')
    <3>1. CASE b = c
      BY <1>0, <2>1, <2>3, <2>2, <3>1 DEF Basic, store
    <3>2. CASE b # c
      BY <1>0, <2>1, <2>3, <2>6, <3>2 DEF Basic, Sound, Extent, store
    <3>. QED BY <3>1, <3>2
  <2>7. Extent'
    BY <2>3, <2>6 DEF Sound, Extent, Events, store, clone
  <2>. QED BY <2>5, <2>7 DEF Sound
<1>3. CASE Stamp(c) \/ NoCalendar(c)
  <2>1. UNCHANGED <<store, staged, clone, publisher, upgrader>>
    BY <1>3 DEF Stamp, NoCalendar
  <2>2. Cuts' /\ Going
    <3>1. CASE CutEnds(c)
      BY <1>0, <3>1, CutEndsType
    <3>2. CASE Stamp(c) /\ ~CutEnds(c)
      BY <1>0, <3>2 DEF Stamp, CutGoto, Basic
    <3>. QED BY <1>3, <3>1, <3>2 DEF NoCalendar
  <2>3. Basic'
    BY <1>0, <1>1, <2>1, <2>2 DEF Basic, store
  <2>4. Extent'
    BY <1>0, <2>1, <2>2, ExtentFrame DEF store, clone
  <2>. QED BY <2>3, <2>4 DEF Sound
<1>4. CASE StageEvent(c)
  <2>1. /\ staged' = [staged EXCEPT ![E(date[c])] = event[c]]
        /\ cpc' = [cpc EXCEPT ![c] = "proof"] /\ UNCHANGED <<date, event>>
        /\ UNCHANGED <<store, clone, publisher, upgrader>>
        /\ cpc[c] = "event"
    BY <1>4 DEF StageEvent, CutGoto
  <2>2. E(date[c]) \in Path /\ IsEvent(E(date[c]))
    BY <1>0, PathFacts
  <2>3. /\ IsTree(staged') /\ staged'[E(date[c])] = event[c]
        /\ \A other \in Path \ {E(date[c])} : staged'[other] = staged[other]
    BY <1>0, <2>1, <2>2, StagedWrite
  <2>0. ASSUME NEW d \in Date, staged'[E(d)] = NoFile PROVE staged[E(d)] = NoFile
    <3>1. CASE d = date[c]
      BY <1>0, <2>0, <2>3, <3>1, FileAssumption
    <3>2. CASE d # date[c]
      BY <2>0, <2>3, <3>2, PathFacts
    <3>. QED BY <3>1, <3>2
  <2>8. Cuts'
    BY <1>0, <2>1 DEF Basic
  <2>4. Basic'
    BY <1>0, <1>1, <2>0, <2>1, <2>3, <2>8 DEF Basic, store
  <2>5. ASSUME NEW d \in Date, staged'[E(d)] \notin {NoFile, Torn}
        PROVE  staged'[E(d)].start < staged'[E(d)].end /\ staged'[E(d)].end <= Len(ledger)
    <3>1. CASE d = date[c]
      BY <2>1, <2>3, <3>1 DEF Sound, Extent
    <3>2. CASE d # date[c]
      <4>1. E(d) \in Path \ {E(date[c])}
        BY <3>2, PathFacts
      <4>. QED BY <2>3, <2>5, <4>1 DEF Sound, Extent, Events
    <3>. QED BY <3>1, <3>2
  <2>6. Extent'
    BY <1>0, <2>1, <2>5 DEF Sound, Basic, Extent, Events, store, clone
  <2>. QED BY <2>4, <2>6 DEF Sound
<1>5. CASE StageProof(c)
  <2> DEFINE proof == [root |-> Root(event[c]), att |-> 0]
  <2>1. /\ staged' = [staged EXCEPT ![P(date[c])] = proof]
        /\ cpc' = [cpc EXCEPT ![c] = "receipt"] /\ UNCHANGED <<date, event>>
        /\ UNCHANGED <<store, clone, publisher, upgrader>>
        /\ cpc[c] = "proof"
    BY <1>5 DEF StageProof, CutGoto
  <2>2. P(date[c]) \in Path /\ ~IsEvent(P(date[c])) /\ proof \in Proof
    BY <1>0, PathFacts, RootType
  <2> HIDE DEF proof
  <2>3. /\ IsTree(staged')
        /\ \A other \in Path \ {P(date[c])} : staged'[other] = staged[other]
    BY <1>0, <2>1, <2>2, StagedWrite
  <2>4. Cuts' /\ Going
    BY <1>0, <2>1 DEF Basic
  <2>6. \A d \in Date : staged'[E(d)] = staged[E(d)]
    BY <2>3, PathFacts
  <2>5. Basic'
    BY <1>0, <1>1, <2>1, <2>3, <2>4, <2>6 DEF Basic, store
  <2>7. Extent'
    BY <1>0, <2>1, <2>4, <2>6, ExtentFrame DEF store, clone
  <2>. QED BY <2>5, <2>7 DEF Sound
<1>6. CASE AppendReceipt(c)
  <2>1. CutEnds(c) /\ UNCHANGED <<staged, clone, publisher, upgrader>>
    BY <1>6 DEF AppendReceipt
  <2>2. ledger' = ledger \/ ledger' = Append(ledger, "receipt")
    BY <1>6 DEF AppendReceipt, store
  <2>3. ledger' \in Seq(Type) /\ Len(ledger') \in Nat /\ Len(ledger) <= Len(ledger')
    BY <1>0, <2>2 DEF Basic, Type
  <2>4. Cuts' /\ Going
    BY <1>0, <2>1, CutEndsType
  <2>5. Basic'
    BY <1>0, <1>1, <2>1, <2>3, <2>4 DEF Basic
  <2>6. Extent'
    BY <2>1, <2>3, <2>4, ExtentFrame DEF clone
  <2>. QED BY <2>5, <2>6 DEF Sound
<1>7. CASE KillCut(c)
  <2>1. CutEnds(c) /\ UNCHANGED <<store, clone, publisher, upgrader>>
    BY <1>7 DEF KillCut
  <2>2. \/ staged' = staged
        \/ staged' = [staged EXCEPT ![E(date[c])] = Torn]
        \/ staged' = [staged EXCEPT ![P(date[c])] = Torn]
    BY <1>7 DEF KillCut
  <2>3. E(date[c]) \in Path /\ P(date[c]) \in Path
    BY <1>0, PathFacts
  <2>4. IsTree(staged') /\ \A path \in Path : staged'[path] \in {staged[path], Torn}
    BY <1>0, <2>2, <2>3, StagedWrite
  <2>5. Cuts' /\ Going
    BY <1>0, <2>1, CutEndsType
  <2>7. \A d \in Date : staged'[E(d)] \in {staged[E(d)], Torn}
    BY <2>4, PathFacts
  <2>6. Basic'
    BY <1>0, <1>1, <2>1, <2>4, <2>5, <2>7, FileAssumption DEF Basic, store
  <2>8. Extent'
    BY <1>0, <2>1, <2>5, <2>7, ExtentFrame DEF store, clone
  <2>. QED BY <2>6, <2>8 DEF Sound
<1>. QED BY <1>2, <1>3, <1>4, <1>5, <1>6, <1>7 DEF CutStep

LEMMA UpgradeSound ==
    ASSUME Sound, AppendRow \/ UpgradeStep \/ KillUpgrade
    PROVE  /\ Sound' /\ UNCHANGED <<work, publisher, cuts, receipts>>
           /\ \A d \in Date : staged'[E(d)] = staged[E(d)]
<1>0. Basic /\ Len(ledger) \in Nat
  BY DEF Sound, Basic
<1>1. /\ UNCHANGED <<clone, publisher, cuts, receipts>>
      /\ ledger' \in Seq(Type) /\ Len(ledger') \in Nat /\ Len(ledger) <= Len(ledger')
  <2>1. UNCHANGED <<clone, publisher, cuts, receipts>>
    BY DEF AppendRow, UpgradeStep, UpgradeRead, UpgradeCompare, UpgradeOpen, UpgradeWrite,
           KillUpgrade, store
  <2>2. ledger' = ledger \/ \E type \in {"session", "other"} : ledger' = Append(ledger, type)
    BY DEF AppendRow, UpgradeStep, UpgradeRead, UpgradeCompare, UpgradeOpen, UpgradeWrite,
           KillUpgrade, store
  <2>3. CASE ledger' = ledger
    BY <1>0, <2>1, <2>3 DEF Basic
  <2>4. ASSUME NEW type \in Type, ledger' = Append(ledger, type)
        PROVE  ledger' \in Seq(Type) /\ Len(ledger') \in Nat /\ Len(ledger) <= Len(ledger')
    <3>1. ledger \in Seq(Type)
      BY <1>0 DEF Basic
    <3>. QED BY <2>4, <3>1
  <2>. QED BY <2>1, <2>2, <2>3, <2>4 DEF Type
<1> DEFINE StagedWell == IsTree(staged') /\ \A d \in Date : staged'[E(d)] = staged[E(d)]
           UpgradeWell ==
               /\ StagedWell
               /\ upc' # "idle" => (\E d \in Date : got'.path = P(d)) /\ got'.proof \in Proof
<1>2. UpgradeWell
  <2>1. CASE AppendRow
    BY <1>0, <2>1 DEF AppendRow, Basic, upgrader
  <2>2. ASSUME NEW d \in Date, UpgradeRead(d)
        PROVE  UpgradeWell
    <3>1. staged[P(d)] \in Proof
      BY <1>0, <2>2 DEF UpgradeRead, Basic, IsTree
    <3>2. PICK att \in (staged[P(d)].att + 1)..MaxAtt :
              got' = [path |-> P(d), proof |-> [staged[P(d)] EXCEPT !.att = att]]
      BY <2>2 DEF UpgradeRead
    <3>3. att \in Nat
      BY <3>1 DEF Proof
    <3>4. got'.path = P(d) /\ got'.proof \in Proof
      BY <3>1, <3>2, <3>3 DEF Proof
    <3>. QED BY <1>0, <2>2, <3>4 DEF UpgradeRead, Basic
  <2>3. CASE UpgradeCompare \/ KillUpgrade
    BY <1>0, <2>3 DEF UpgradeCompare, KillUpgrade, Basic
  <2>4. ASSUME NEW file, file = Torn \/ file = got.proof,
               upc # "idle", staged' = [staged EXCEPT ![got.path] = file]
        PROVE  StagedWell
    <3>1. PICK d \in Date : got.path = P(d)
      BY <1>0, <2>4 DEF Basic
    <3>2. got.path \in Path /\ ~IsEvent(got.path)
      BY <3>1, PathFacts
    <3>3. file \in Proof \cup {Torn}
      BY <1>0, <2>4 DEF Basic
    <3>4. IsTree(staged') /\ \A other \in Path \ {got.path} : staged'[other] = staged[other]
      BY <1>0, <2>4, <3>2, <3>3, StagedWrite
    <3>. QED BY <3>1, <3>4, PathFacts
  <2>5. CASE UpgradeOpen
    BY <1>0, <2>4, <2>5 DEF UpgradeOpen, Basic
  <2>6. CASE UpgradeWrite
    BY <2>4, <2>6 DEF UpgradeWrite
  <2>. QED BY <2>1, <2>2, <2>3, <2>5, <2>6 DEF UpgradeStep
<1>5. Publisher'
  BY <1>0, <1>1, <1>2, PublisherStays DEF Basic
<1>3. Basic'
  BY <1>0, <1>1, <1>2, <1>5 DEF Basic, clone, cuts
<1>4. Extent'
  BY <1>1, <1>2, ExtentFrame DEF clone, cuts
<1>. QED BY <1>1, <1>2, <1>3, <1>4 DEF Sound, clone

\* publish leaves ledger and cuts alone, and staged events too.
LEMMA PublishSound ==
    ASSUME Sound,
           PublishStep \/ KillPublish \/ CommitFails \/ RemoteFails \/ OthersPush
    PROVE  /\ Sound' /\ UNCHANGED <<store, cuts>>
           /\ \A d \in Date : /\ staged'[E(d)] = staged[E(d)]
                              /\ work'[E(d)] \in {Torn, work[E(d)], staged[E(d)]}
<1> DEFINE Kept == /\ Sound' /\ UNCHANGED <<store, cuts>>
                   /\ \A d \in Date : /\ staged'[E(d)] = staged[E(d)]
                                      /\ work'[E(d)] \in {Torn, work[E(d)], staged[E(d)]}
<1>0. Basic /\ Len(ledger) \in Nat /\ Publisher
  BY DEF Sound, Basic
<1>1. ASSUME UNCHANGED <<store, cuts, upgrader>>, IsTree(staged'), IsTree(work'), Publisher',
             \A d \in Date : staged'[E(d)] = staged[E(d)],
             \A path \in Path : work'[path] \in {Torn, work[path], staged[path]}
      PROVE  Kept
  <2>1. Basic'
    BY <1>0, <1>1 DEF Basic, store, cuts, upgrader
  <2>2. \A d \in Date : work'[E(d)] \in {Torn, work[E(d)], staged[E(d)]}
    BY <1>1, PathFacts
  <2>3. Extent'
    BY <1>0, <1>1, <2>2, ExtentFrame DEF store, cuts
  <2>. QED BY <1>1, <2>1, <2>2, <2>3 DEF Sound
<1>2. ASSUME UNCHANGED <<store, cuts, upgrader, staged, work>>, Publisher'
      PROVE  Kept
  BY <1>0, <1>1, <1>2 DEF Basic
<1>3. ASSUME NEW label, CopyStaged(label), cur \in Path,
             IsEvent(cur) \/ \A path \in files : ~IsEvent(path)
      PROVE  Kept
  <2>1. /\ ppc' = "commit" /\ cur' = cur /\ files' = files
        /\ UNCHANGED <<store, cuts, upgrader, staged, index, head, remote>>
        /\ IsTree(work') /\ work'[cur] \in {staged[cur], Torn}
        /\ \A other \in Path \ {cur} : work'[other] = work[other]
    BY <1>0, <1>3, Copied
  <2>2. Publisher'
    BY <1>0, <1>3, <2>1 DEF Publisher
  <2>3. \A other \in Path : work'[other] \in {Torn, work[other], staged[other]}
    BY <2>1
  <2>. QED BY <1>0, <1>1, <2>1, <2>2, <2>3 DEF Basic
<1>4. ASSUME PublishEnds, UNCHANGED <<store, cuts, upgrader, staged, work>>
      PROVE  Kept
  BY <1>2, <1>4 DEF PublishEnds, Publisher
<1>5. CASE PublishGate
  <2>1. Publisher'
    BY <1>5 DEF PublishGate, Paths, Publisher
  <2>. QED BY <1>2, <1>5, <2>1 DEF PublishGate, clone
<1>6. CASE SyncClone \/ EventsDone \/ ProofsDone \/ Push \/ CommitFails \/ RemoteFails \/ OthersPush
  <2>1. UNCHANGED <<store, cuts, upgrader, staged, work>>
    BY <1>6 DEF SyncClone, EventsDone, ProofsDone, Push, CommitFails, RemoteFails, OthersPush, clone
  <2>2. Publisher'
    BY <1>0, <1>6 DEF SyncClone, EventsDone, ProofsDone, Push, CommitFails, RemoteFails, OthersPush,
                      PublishEnds, Publisher, publisher
  <2>. QED BY <1>2, <2>1, <2>2
<1>7. ASSUME NEW path \in Path, PublishEvent(path)
      PROVE  Kept
  <2>1. /\ UNCHANGED <<store, cuts, upgrader, staged, work>> /\ ppc = "events"
        /\ IsEvent(path) /\ path \in files
    BY <1>7 DEF PublishEvent, Turn, clone
  <2>2. \/ PublishEnds \/ \E file : AlreadyThere(path, file)
        \/ cur' = path /\ ppc' = "copyEvent" /\ UNCHANGED <<files, pushed>>
    BY <1>7 DEF PublishEvent
  <2>3. Publisher'
    BY <1>0, <2>1, <2>2 DEF PublishEnds, AlreadyThere, Publisher
  <2>. QED BY <1>2, <2>1, <2>3
<1>8. ASSUME NEW path \in Path, PublishProof(path)
      PROVE  Kept
  <2>1. UNCHANGED <<store, cuts, upgrader, staged, work>> /\ ppc = "proofs" /\ path \in files
    BY <1>8 DEF PublishProof, Turn, clone
  <2>2. DayOf(path) \in Date /\ path = P(DayOf(path))
    BY <1>0, <2>1, PathFacts DEF Publisher
  <2>3. Publisher'
    BY <1>0, <1>8, <2>1, <2>2 DEF PublishProof, PublishEnds, AlreadyThere, Publisher
  <2>. QED BY <1>2, <2>1, <2>3
<1>9. CASE CopyEvent \/ CopyProof
  <2>1. CASE CopyEvent
    BY <1>0, <1>3, <2>1 DEF CopyEvent, CopyStaged, Publisher
  <2>2. CASE CopyProof
    <3>1. ppc = "copy" /\ CopyStaged("copy")
      BY <2>2 DEF CopyProof, CopyStaged
    <3>2. cur \in Path /\ ~IsEvent(cur) /\ \A path \in files : ~IsEvent(path)
      BY <1>0, <3>1, PathFacts DEF Publisher
    <3>. QED BY <1>3, <3>1, <3>2
  <2>. QED BY <1>9, <2>1, <2>2
<1>10. CASE Commit
  <2>1. UNCHANGED <<store, cuts, upgrader, staged, work>> /\ ppc = "commit" /\ cur \in Path
    BY <1>0, <1>10 DEF Commit, Publisher
  <2>2. ~IsEvent(cur) => DayOf(cur) \in Date /\ cur = P(DayOf(cur))
    BY <2>1, PathFacts
  <2>3. Publisher'
    BY <1>0, <1>10, <2>1, <2>2 DEF Commit, Publisher
  <2>. QED BY <1>2, <2>1, <2>3
<1>11. CASE UnlinkStaged
  <2>1. /\ UNCHANGED <<store, cuts, upgrader, work>> /\ ppc = "unlink"
        /\ staged' = [staged EXCEPT ![cur] = NoFile]
    BY <1>11 DEF UnlinkStaged, clone
  <2>2. PICK d \in Date : cur = P(d)
    BY <1>0, <2>1 DEF Publisher
  <2>3. /\ IsTree(staged')
        /\ \A other \in Path \ {cur} : staged'[other] = staged[other]
    BY <1>0, <2>1, <2>2, StagedWrite, PathFacts
  <2>4. \A b \in Date : staged'[E(b)] = staged[E(b)]
    BY <2>2, <2>3, PathFacts
  <2>5. Publisher'
    BY <1>0, <1>11 DEF UnlinkStaged, Publisher
  <2>. QED BY <1>0, <1>1, <2>1, <2>3, <2>4, <2>5 DEF Basic
<1>12. CASE KillPublish
  <2>1. UNCHANGED <<store, cuts, upgrader, staged>> /\ PublishEnds
    BY <1>12 DEF KillPublish
  <2>2. Publisher'
    BY <2>1 DEF PublishEnds, Publisher
  <2>3. CASE UNCHANGED work
    BY <1>2, <2>1, <2>2, <2>3
  <2>4. CASE ppc = "commit" /\ work' = [work EXCEPT ![cur] = Torn]
    <3>1. cur \in Path
      BY <1>0, <2>4 DEF Publisher
    <3>2. /\ IsTree(work') /\ work'[cur] = Torn
          /\ \A other \in Path \ {cur} : work'[other] = work[other]
      BY <1>0, <2>4, <3>1, WorkWrite
    <3>. QED BY <1>0, <1>1, <2>1, <2>2, <3>2 DEF Basic
  <2>. QED BY <1>12, <2>3, <2>4 DEF KillPublish
<1>. QED BY <1>5, <1>6, <1>7, <1>8, <1>9, <1>10, <1>11, <1>12 DEF PublishStep


LEMMA NextSound == Sound /\ [Next]_vars => Sound'
<1> SUFFICES ASSUME Sound, [Next]_vars PROVE Sound'
  OBVIOUS
<1>1. CASE UNCHANGED vars
  BY <1>1 DEF Sound, Basic, Publisher, Extent, Events, vars, store, clone, cuts, publisher,
              upgrader
<1>2. CASE Next
  BY <1>2, CutSound, UpgradeSound, PublishSound DEF Next, Faults
<1>. QED BY <1>1, <1>2

-----------------------------------------------------------------------------
(* The clone's events join.                                                *)

\* While publish is about to copy an event, the one it will read still starts where
\* the clone's last one ends, unless a cut is writing it.  An event that publish has
\* copied and not committed yet is the clone's last: if the copy is cut short, no
\* other event loses the one it starts from.
CloneInv ==
    ~rewritten =>
        /\ Joined(work)
        /\ ppc = "copyEvent" =>
               /\ work[cur] = NoFile
               /\ staged[cur] # Torn => staged[cur].start = LastEnd({work})
        /\ ppc = "commit" /\ IsEvent(cur) => \A b \in Events(work) :
               DayOf(cur) \in Events(work) /\ b # DayOf(cur) =>
                   work[E(b)].end <= work[cur].start

LEMMA SameEvents ==
    ASSUME NEW t, NEW u, Joined(t), Events(u) = Events(t),
           \A d \in Events(t) : u[E(d)] = t[E(d)]
    PROVE  Joined(u)
BY DEF Joined

\* The event types of the clone, and that none is empty.
LEMMA WorkEvents ==
    ASSUME Sound, NEW d \in Events(work)
    PROVE  /\ d \in Date /\ work[E(d)] \in Event
           /\ work[E(d)].start \in Nat /\ work[E(d)].end \in Nat
           /\ work[E(d)].start < work[E(d)].end
           /\ work[E(d)].end <= Len(ledger)
<1>1. d \in Date /\ work[E(d)] \in Event
  BY DEF Events, Sound, Basic, IsTree
<1>. QED BY <1>1 DEF Event, Sound, Extent

LEMMA CloneFrame ==
    ASSUME CloneInv, ~rewritten' => ~rewritten, \A d \in Date : work'[E(d)] = work[E(d)],
           ppc' = "commit" /\ IsEvent(cur') => ppc = "commit" /\ cur' = cur /\ cur \in Path,
           ppc' = "copyEvent" /\ ~rewritten' =>
               /\ ppc = "copyEvent" /\ cur' = cur /\ work' = work
               /\ staged'[cur] \in {staged[cur], Torn}
    PROVE  CloneInv'
<1> SUFFICES ASSUME ~rewritten', ~rewritten PROVE CloneInv'
  BY DEF CloneInv
<1>1. Events(work') = Events(work) /\ \A d \in Events(work) : d \in Date /\ work'[E(d)] = work[E(d)]
  BY DEF Events
<1>2. Joined(work')
  BY <1>1 DEF CloneInv, Joined
<1>3. ASSUME ppc' = "commit", IsEvent(cur'), NEW b \in Events(work'),
             DayOf(cur') \in Events(work'), b # DayOf(cur')
      PROVE  work'[E(b)].end <= work'[cur'].start
  <2>1. cur' = cur /\ cur = E(DayOf(cur)) /\ DayOf(cur) \in Date
    BY <1>3, PathFacts
  <2>. QED BY <1>1, <1>3, <2>1 DEF CloneInv
<1>4. ASSUME ppc' = "copyEvent"
      PROVE  /\ work'[cur'] = NoFile
             /\ staged'[cur'] # Torn => staged'[cur'].start = LastEnd({work'})
  BY <1>4 DEF CloneInv
<1>. QED BY <1>2, <1>3, <1>4 DEF CloneInv

\* A new event starts where the clone's last one ends.
LEMMA EventJoins ==
    ASSUME Sound, CloneInv, CopyEvent
    PROVE  CloneInv'
<1> SUFFICES ASSUME ~rewritten PROVE CloneInv'
  BY DEF CloneInv, CopyEvent, CopyStaged, cuts, history
<1> DEFINE day == DayOf(cur)
           new == work'[cur]
           last == LastEnd({work})
<1>0. Basic /\ Publisher /\ Len(ledger) \in Nat
  BY DEF Sound, Basic
<1>11. /\ cur \in Path /\ IsEvent(cur) /\ work[cur] = NoFile /\ ppc = "copyEvent"
       /\ staged[cur] # Torn => staged[cur].start = last
  BY <1>0 DEF CopyEvent, CopyStaged, CloneInv, Publisher
<1>1. day \in Date /\ cur = E(day)
  BY <1>11, PathFacts
<1>2. /\ new \in {staged[cur], Torn} /\ \A other \in Path \ {cur} : work'[other] = work[other]
      /\ cur' = cur /\ ppc' = "commit"
  BY <1>0, <1>11, Copied DEF CopyEvent
<1>12. new = Torn \/ new.start = last
  BY <1>2, <1>11
<1>3. /\ work'[E(day)] = new /\ work[E(day)] = NoFile
      /\ \A d \in Date \ {day} : work'[E(d)] = work[E(d)]
  BY <1>1, <1>2, <1>11, PathFacts
<1>13. CASE new = Torn
  <2>1. /\ Events(work') = Events(work)
        /\ \A d \in Events(work) : work'[E(d)] = work[E(d)]
        /\ day \notin Events(work')
    BY <1>3, <1>13, FileAssumption DEF Events
  <2>2. Joined(work)
    BY DEF CloneInv
  <2>3. Joined(work')
    BY <2>1, <2>2, SameEvents
  <2>. QED BY <1>2, <2>1, <2>3 DEF CloneInv
<1>4. /\ last \in Nat
      /\ last = 0 \/ \E d \in Events(work) : work[E(d)].end = last
      /\ \A d \in Events(work) : work[E(d)].end <= last
  <2> DEFINE trees == {work}
  <2>1. \A t \in trees : \A d \in Events(t) : t[E(d)].end \in Nat /\ t[E(d)].end <= Len(ledger)
    BY WorkEvents
  <2> HIDE DEF trees
  <2>2. /\ LastEnd(trees) \in Nat
        /\ \/ LastEnd(trees) = 0
           \/ \E t \in trees : \E d \in Events(t) : t[E(d)].end = LastEnd(trees)
        /\ \A t \in trees : \A d \in Events(t) : t[E(d)].end <= LastEnd(trees)
    BY <1>0, <2>1, LastEndFacts
  <2>. QED BY <2>2 DEF trees
<1> SUFFICES ASSUME new # Torn PROVE CloneInv'
  BY <1>13
<1>5. new.start = last
  BY <1>12
<1>14. ppc' = "commit" /\ cur' = E(day) /\ DayOf(cur') = day /\ work'[cur'] = new
  BY <1>1, <1>2, PathFacts
<1> HIDE DEF day, new, last
<1>6. /\ Events(work) \subseteq Events(work') /\ Events(work') \subseteq Events(work) \cup {day}
      /\ day \notin Events(work)
      /\ \A d \in Events(work) : work'[E(d)] = work[E(d)]
  BY <1>1, <1>3 DEF Events
<1>7. ASSUME NEW d \in Events(work')
      PROVE  /\ work'[E(d)].start = 0 \/ \E b \in Events(work') : work'[E(b)].end = work'[E(d)].start
             /\ \A b \in Events(work') : b # d =>
                    \/ work'[E(b)].end <= work'[E(d)].start
                    \/ work'[E(d)].end <= work'[E(b)].start
  <2>1. CASE d = day
    BY <1>3, <1>4, <1>5, <1>6, <2>1
  <2>2. CASE d \in Events(work)
    BY <1>3, <1>4, <1>5, <1>6, <2>2 DEF CloneInv, Joined
  <2>. QED BY <1>6, <1>7, <2>1, <2>2
<1>8. \A b \in Events(work') : b # day => work'[E(b)].end <= work'[E(day)].start
  BY <1>3, <1>4, <1>5, <1>6
<1>9. Joined(work')
  BY <1>7 DEF Joined
<1>. QED BY <1>8, <1>9, <1>14 DEF CloneInv

\* A copy that is cut short takes the clone's last event with it.
LEMMA KillJoins ==
    ASSUME Sound, CloneInv, ppc = "commit", ppc' = "idle", rewritten' = rewritten,
           work' = [work EXCEPT ![cur] = Torn]
    PROVE  CloneInv'
<1> SUFFICES ASSUME ~rewritten PROVE CloneInv'
  BY DEF CloneInv
<1>0. Basic /\ cur \in Path
  BY DEF Sound, Basic, Publisher
<1>1. work'[cur] = Torn /\ \A other \in Path \ {cur} : work'[other] = work[other]
  BY <1>0, WorkWrite
<1>2. CASE ~IsEvent(cur)
  <2>1. \A d \in Date : work'[E(d)] = work[E(d)]
    BY <1>0, <1>1, <1>2, PathFacts
  <2>. QED BY <2>1, CloneFrame
<1>3. CASE IsEvent(cur)
  <2> DEFINE day == DayOf(cur)
  <2>1. day \in Date /\ cur = E(day)
    BY <1>0, <1>3, PathFacts
  <2> HIDE DEF day
  <2>2. /\ work'[E(day)] = Torn /\ \A d \in Date \ {day} : work'[E(d)] = work[E(d)]
    BY <1>1, <2>1, PathFacts
  <2>3. /\ Events(work') = Events(work) \ {day}
        /\ \A d \in Events(work') : work'[E(d)] = work[E(d)]
    BY <2>2 DEF Events
  <2>4. ASSUME NEW d \in Events(work'), day \in Events(work)
        PROVE  work[E(day)].end # work[E(d)].start
    <3>1. work[E(d)].end <= work[E(day)].start
      BY <1>3, <2>1, <2>3, <2>4 DEF CloneInv, day
    <3>2. /\ work[E(d)].start \in Nat /\ work[E(d)].end \in Nat
          /\ work[E(d)].start < work[E(d)].end
      BY <2>3, WorkEvents
    <3>3. /\ work[E(day)].start \in Nat /\ work[E(day)].end \in Nat
          /\ work[E(day)].start < work[E(day)].end
      BY <2>4, WorkEvents
    <3>. QED BY <3>1, <3>2, <3>3
  <2>5. ASSUME NEW d \in Events(work')
        PROVE  /\ work'[E(d)].start = 0 \/ \E b \in Events(work') : work'[E(b)].end = work'[E(d)].start
               /\ \A b \in Events(work') : b # d =>
                      \/ work'[E(b)].end <= work'[E(d)].start
                      \/ work'[E(d)].end <= work'[E(b)].start
    <3>1. d \in Events(work)
      BY <2>3
    <3>2. work[E(d)].start = 0 \/ \E b \in Events(work) : work[E(b)].end = work[E(d)].start
      BY <3>1 DEF CloneInv, Joined
    <3>3. work'[E(d)].start = 0 \/ \E b \in Events(work') : work'[E(b)].end = work'[E(d)].start
      BY <2>3, <2>4, <3>2
    <3>4. \A b \in Events(work) : b # d => \/ work[E(b)].end <= work[E(d)].start
                                           \/ work[E(d)].end <= work[E(b)].start
      BY <3>1 DEF CloneInv, Joined
    <3>. QED BY <2>3, <3>3, <3>4
  <2>. QED BY <2>5 DEF CloneInv, Joined
<1>. QED BY <1>2, <1>3

LEMMA CloneStep == Sound /\ CloneInv /\ [Next]_vars => CloneInv'
<1> SUFFICES ASSUME Sound, CloneInv, [Next]_vars PROVE CloneInv'
  OBVIOUS
<1>0. Publisher
  BY DEF Sound, Basic
<1>1. ASSUME UNCHANGED work, ~rewritten' => ~rewritten,
             ppc' = "commit" => ppc = "commit" /\ cur' = cur,
             ppc' = "copyEvent" /\ ~rewritten' =>
                 ppc = "copyEvent" /\ cur' = cur /\ staged'[cur] \in {staged[cur], Torn}
      PROVE  CloneInv'
  BY <1>0, <1>1, CloneFrame DEF Publisher
<1>9. ASSUME ppc = "copyEvent", \A d \in Date : staged'[E(d)] = staged[E(d)]
      PROVE  staged'[cur] = staged[cur]
  BY <1>0, <1>9, PathFacts DEF Publisher
<1>2. CASE UNCHANGED vars
  BY <1>1, <1>2 DEF vars, clone, publisher, cuts, history
<1>3. CASE AppendRow \/ UpgradeStep \/ KillUpgrade
  <2>1. /\ UNCHANGED <<work, publisher, cuts>>
        /\ \A d \in Date : staged'[E(d)] = staged[E(d)]
    BY <1>3, UpgradeSound
  <2>2. UNCHANGED <<rewritten, ppc, cur>>
    BY <2>1 DEF publisher, cuts, history
  <2>. QED BY <1>1, <1>9, <2>1, <2>2
<1>4. ASSUME NEW c \in Cutter, CutStep(c) \/ KillCut(c)
      PROVE  CloneInv'
  <2>1. UNCHANGED <<work, ppc, cur>>
    BY <1>4 DEF CutStep, Cut, CutRange, Stamp, NoCalendar, StageEvent, StageProof,
                AppendReceipt, KillCut, clone, publisher
  <2>3. ~rewritten' => ~rewritten
    <3>1. CASE StageEvent(c)
      BY <3>1 DEF StageEvent
    <3>2. rewritten' = rewritten \/ StageEvent(c)
      BY <1>4 DEF CutStep, Cut, CutRange, Stamp, NoCalendar, StageProof, AppendReceipt,
                  KillCut, history
    <3>. QED BY <3>1, <3>2
  <2>2. ASSUME ppc = "copyEvent", ~rewritten'
        PROVE  staged'[cur] \in {staged[cur], Torn}
    <3>1. cur \in Path /\ IsEvent(cur) /\ staged[cur] # NoFile /\ staged \in [Path -> File]
      BY <1>0, <2>2 DEF Publisher, Sound, Basic, IsTree
    <3>2. cur # P(date[c])
      BY <3>1, PathFacts
    <3>3. CASE staged' = staged
      BY <3>3
    <3>4. CASE StageEvent(c)
      <4>1. staged[E(date[c])] = NoFile /\ staged' = [staged EXCEPT ![E(date[c])] = event[c]]
        BY <2>2, <3>4 DEF StageEvent
      <4>2. cur # E(date[c])
        BY <3>1, <4>1
      <4>. QED BY <3>1, <4>1, <4>2
    <3>5. CASE StageProof(c)
      BY <3>1, <3>2, <3>5 DEF StageProof
    <3>6. CASE KillCut(c)
      <4>1. \/ staged' = staged
            \/ staged' = [staged EXCEPT ![E(date[c])] = Torn]
            \/ staged' = [staged EXCEPT ![P(date[c])] = Torn]
        BY <3>6 DEF KillCut
      <4>. QED BY <3>1, <4>1
    <3>7. staged' = staged \/ StageEvent(c) \/ StageProof(c) \/ KillCut(c)
      BY <1>4 DEF CutStep, Cut, CutRange, Stamp, NoCalendar, AppendReceipt
    <3>. QED BY <3>3, <3>4, <3>5, <3>6, <3>7
  <2>. QED BY <1>1, <2>1, <2>2, <2>3
<1>5. CASE \/ PublishGate \/ SyncClone \/ EventsDone \/ ProofsDone \/ Commit \/ UnlinkStaged \/ Push
           \/ CommitFails \/ RemoteFails \/ OthersPush
           \/ \E path \in Path : PublishProof(path)
  <2>1. UNCHANGED <<work, rewritten>>
    BY <1>5 DEF PublishGate, SyncClone, EventsDone, ProofsDone, Commit, UnlinkStaged, Push,
                CommitFails, RemoteFails, OthersPush, PublishProof, clone, cuts, history
  <2>2. ppc' \in {"commit", "copyEvent"} => ppc' = ppc /\ cur' = cur /\ staged' = staged
    BY <1>5 DEF PublishGate, SyncClone, EventsDone, ProofsDone, Commit, UnlinkStaged, Push,
                CommitFails, RemoteFails, OthersPush, PublishProof, publisher, PublishEnds,
                AlreadyThere
  <2>. QED BY <1>1, <2>1, <2>2
<1>6. ASSUME NEW path \in Path, PublishEvent(path)
      PROVE  CloneInv'
  <2>1. UNCHANGED <<work, rewritten, staged>> /\ ppc = "events"
    BY <1>6 DEF PublishEvent, clone, cuts, history
  <2>2. CASE PublishEnds \/ \E file : AlreadyThere(path, file)
    <3>1. ppc' \notin {"commit", "copyEvent"}
      BY <2>1, <2>2 DEF PublishEnds, AlreadyThere
    <3>. QED BY <1>1, <2>1, <3>1
  <2>3. ASSUME NEW file \in Found(path), work[path] = NoFile,
               file # Torn, file.start = LastEnd({work}), cur' = path, ppc' = "copyEvent"
        PROVE  CloneInv'
    <3>1. file = staged[path]
      BY <2>3 DEF Found
    <3>. QED BY <2>1, <2>3, <3>1 DEF CloneInv, Joined, Events
  <2>. QED BY <1>6, <2>2, <2>3 DEF PublishEvent
<1>10. CASE CopyEvent
  BY <1>10, EventJoins
<1>7. CASE CopyProof
  <2>1. ppc = "copy" /\ CopyStaged("copy") /\ rewritten' = rewritten
    BY <1>7 DEF CopyProof, CopyStaged, cuts, history
  <2>2. PICK d \in Date : cur = P(d)
    BY <1>0, <2>1 DEF Publisher
  <2>3. /\ cur' = cur /\ ppc' = "commit"
        /\ \A other \in Path \ {cur} : work'[other] = work[other]
    BY <2>1, <2>2, PathFacts, Copied DEF Sound
  <2>4. \A b \in Date : work'[E(b)] = work[E(b)]
    BY <2>2, <2>3, PathFacts
  <2>5. ~IsEvent(cur')
    BY <2>2, <2>3, PathFacts
  <2>. QED BY <2>1, <2>3, <2>4, <2>5, CloneFrame
<1>8. CASE KillPublish
  <2>1. ppc' = "idle" /\ rewritten' = rewritten
    BY <1>8 DEF KillPublish, PublishEnds, cuts, history
  <2>2. CASE UNCHANGED work
    BY <1>1, <2>1, <2>2
  <2>3. CASE ppc = "commit" /\ work' = [work EXCEPT ![cur] = Torn]
    BY <2>1, <2>3, KillJoins
  <2>. QED BY <1>8, <2>2, <2>3 DEF KillPublish
<1>. QED BY <1>2, <1>3, <1>4, <1>5, <1>6, <1>7, <1>8, <1>10 DEF Next, PublishStep, Faults

\* However many cuts overlap, and however often publish failed or died, the events
\* in the clone join, unless one cut wrote its event over another's: publish checks
\* an event and then reads it again to copy it.
THEOREM CloneStaysJoined == Spec => []CloneJoins
<1>1. Init => CloneInv
  BY PathFacts DEF Init, CloneInv, Joined, Events, Empty
<1>2. CloneInv => CloneJoins
  BY DEF CloneInv, CloneJoins
<1>. QED BY <1>1, <1>2, InitSound, NextSound, CloneStep, PTL DEF Spec

-----------------------------------------------------------------------------
(* Receipts.                                                               *)

ReceiptInv == receipts \in Seq([range : Event, i : Nat]) /\ ReceiptOnce

LEMMA ReceiptStep == Sound /\ ReceiptInv /\ [Next]_vars => ReceiptInv'
<1> SUFFICES ASSUME Sound, ReceiptInv, [Next]_vars PROVE ReceiptInv'
  OBVIOUS
<1>1. CASE UNCHANGED receipts
  BY <1>1 DEF ReceiptInv, ReceiptOnce
<1>2. ASSUME NEW c \in Cutter, AppendReceipt(c), ~UNCHANGED receipts
      PROVE  ReceiptInv'
  <2> DEFINE r == [range |-> event[c], i |-> Len(ledger)]
  <2>1. /\ receipts' = Append(receipts, r) /\ cpc[c] = "receipt"
        /\ \A n \in 1..Len(receipts) : receipts[n].range # event[c]
    BY <1>2 DEF AppendReceipt, store
  <2>2. Len(ledger) \in Nat /\ event[c] \in Event /\ event[c].end <= Len(ledger)
    BY <2>1 DEF Sound, Basic, Extent
  <2>3. r \in [range : Event, i : Nat] /\ r.range = event[c] /\ r.range.end <= r.i
    BY <2>2
  <2> HIDE DEF r
  <2>4. receipts \in Seq([range : Event, i : Nat]) /\ Len(receipts) \in Nat
    BY DEF ReceiptInv
  <2>5. /\ receipts' \in Seq([range : Event, i : Nat])
        /\ Len(receipts') = Len(receipts) + 1 /\ receipts'[Len(receipts) + 1] = r
        /\ \A n \in 1..Len(receipts) : receipts'[n] = receipts[n]
    BY <2>1, <2>3, <2>4
  <2>6. ASSUME NEW n \in 1..Len(receipts')
        PROVE  n \in 1..Len(receipts) \/ n = Len(receipts) + 1
    <3>1. n \in 1..(Len(receipts) + 1)
      BY <2>5
    <3>. QED BY <2>4, <3>1
  <2>7. ASSUME NEW m \in 1..Len(receipts'), NEW n \in 1..Len(receipts')
        PROVE  /\ receipts'[m].range = receipts'[n].range => m = n
               /\ receipts'[n].range.end <= receipts'[n].i
    <3>1. CASE n \in 1..Len(receipts)
      <4>1. receipts'[n] = receipts[n] /\ receipts[n].range.end <= receipts[n].i
        BY <2>5, <3>1 DEF ReceiptInv, ReceiptOnce
      <4>2. CASE m \in 1..Len(receipts)
        BY <2>5, <3>1, <4>1, <4>2 DEF ReceiptInv, ReceiptOnce
      <4>3. CASE m = Len(receipts) + 1
        BY <2>1, <2>3, <2>5, <3>1, <4>1, <4>3
      <4>. QED BY <2>6, <4>1, <4>2, <4>3
    <3>2. CASE n = Len(receipts) + 1
      <4>1. CASE m \in 1..Len(receipts)
        BY <2>1, <2>3, <2>5, <3>2, <4>1
      <4>2. CASE m = Len(receipts) + 1
        BY <2>3, <2>5, <3>2, <4>2
      <4>. QED BY <2>6, <4>1, <4>2
    <3>. QED BY <2>6, <3>1, <3>2
  <2>. QED BY <2>5, <2>7 DEF ReceiptInv, ReceiptOnce
<1>3. CASE UNCHANGED vars
  BY <1>1, <1>3 DEF vars, store
<1>4. CASE AppendRow \/ UpgradeStep \/ KillUpgrade
  BY <1>1, <1>4, UpgradeSound
<1>5. CASE PublishStep \/ KillPublish \/ CommitFails \/ RemoteFails \/ OthersPush
  BY <1>1, <1>5, PublishSound DEF store
<1>6. ASSUME NEW c \in Cutter, CutStep(c) \/ KillCut(c), ~AppendReceipt(c)
      PROVE  UNCHANGED receipts
  BY <1>6 DEF CutStep, Cut, CutRange, Stamp, NoCalendar, StageEvent, StageProof, KillCut, store
<1>. QED BY <1>1, <1>2, <1>3, <1>4, <1>5, <1>6 DEF Next, Faults

\* However many cuts overlap, a range gets one receipt, which comes after the
\* rows it is about.
THEOREM OneReceipt == Spec => []ReceiptOnce
<1>1. Init => ReceiptInv
  BY DEF Init, ReceiptInv, ReceiptOnce
<1>2. ReceiptInv => ReceiptOnce
  BY DEF ReceiptInv
<1>. QED BY <1>1, <1>2, InitSound, NextSound, ReceiptStep, PTL DEF Spec

-----------------------------------------------------------------------------
(* Staged events join, as long as cuts take turns.                         *)

\* What the clone has is staged; the one cut at work starts where the staged
\* events end, on a day that has none when it comes to write.
CutInv ==
    ~overlapped =>
        /\ Joined(staged)
        /\ \A d \in Events(work) : staged[E(d)] = work[E(d)]
        /\ \A b, c \in Cutter : b # c => cpc[b] = "idle" \/ cpc[c] = "idle"
        /\ \A c \in Cutter : cpc[c] \in {"stamp", "event"} =>
               /\ \/ event[c].start = 0
                  \/ \E b \in Events(staged) : staged[E(b)].end = event[c].start
               /\ \A b \in Events(staged) : staged[E(b)].end <= event[c].start
        /\ \A c \in Cutter : cpc[c] = "event" => staged[E(date[c])] = NoFile

\* Steps that change no staged event and bring no cut forward.
LEMMA CutFrame ==
    ASSUME Sound, CutInv, overlapped' = overlapped,
           \A d \in Date : staged'[E(d)] = staged[E(d)],
           \A d \in Date : work'[E(d)] \in {NoFile, Torn, work[E(d)], staged[E(d)]},
           \A c \in Cutter : cpc'[c] # "idle" => cpc[c] # "idle" /\ event'[c] = event[c] /\ date'[c] = date[c],
           \A c \in Cutter : cpc'[c] \in {"stamp", "event"} => cpc[c] \in {"stamp", "event"},
           \A c \in Cutter : cpc'[c] = "event" => cpc[c] = "event" \/ staged[E(date[c])] = NoFile
    PROVE  CutInv'
<1> SUFFICES ASSUME ~overlapped PROVE CutInv'
  BY DEF CutInv
<1>1. /\ Events(staged') = Events(staged)
      /\ \A d \in Events(staged) : staged'[E(d)] = staged[E(d)]
  BY DEF Events
<1>2. Joined(staged')
  BY <1>1 DEF CutInv, Joined
<1>3. \A d \in Events(work') : staged'[E(d)] = work'[E(d)]
  BY DEF CutInv, Events
<1>4. \A b, c \in Cutter : b # c => cpc'[b] = "idle" \/ cpc'[c] = "idle"
  BY DEF CutInv
<1>5. ASSUME NEW c \in Cutter, cpc'[c] \in {"stamp", "event"}
      PROVE  /\ \/ event'[c].start = 0
                \/ \E b \in Events(staged') : staged'[E(b)].end = event'[c].start
             /\ \A b \in Events(staged') : staged'[E(b)].end <= event'[c].start
  <2>1. cpc[c] \in {"stamp", "event"} /\ event'[c] = event[c]
    BY <1>5
  <2>. QED BY <1>1, <2>1 DEF CutInv
<1>6. ASSUME NEW c \in Cutter, cpc'[c] = "event"
      PROVE  staged'[E(date'[c])] = NoFile
  <2>1. staged[E(date[c])] = NoFile /\ date'[c] = date[c] /\ date[c] \in Date
    BY <1>6 DEF CutInv, Sound, Basic
  <2>. QED BY <2>1
<1>. QED BY <1>2, <1>3, <1>4, <1>5, <1>6 DEF CutInv

\* A cut that begins.
LEMMA BeginJoins ==
    ASSUME Sound, CutInv, NEW c \in Cutter, NEW d \in Date, Cut(c, d)
    PROVE  CutInv'
<1> SUFFICES ASSUME ~overlapped' PROVE CutInv'
  BY DEF CutInv
<1> DEFINE range == [start |-> LastEnd({staged, work}), end |-> Len(ledger)]
<1>1. ~overlapped /\ \A b \in Cutter : cpc[b] = "idle"
  BY DEF Cut, CutRange
<1>2. /\ range \in Event
      /\ event' = [event EXCEPT ![c] = range] /\ cpc' = [cpc EXCEPT ![c] = "stamp"]
      /\ \/ range.start = 0
         \/ \E t \in {staged, work} : \E b \in Events(t) : t[E(b)].end = range.start
      /\ \A t \in {staged, work} : \A b \in Events(t) : t[E(b)].end <= range.start
  BY CutFacts
<1> HIDE DEF range
<1>3. UNCHANGED <<staged, work>>
  BY DEF Cut, CutRange, clone
<1>4. /\ Joined(staged)
      /\ \A b \in Events(work) : staged[E(b)] = work[E(b)]
  BY <1>1 DEF CutInv
<1>5. \A b \in Events(work) : b \in Events(staged)
  BY <1>4 DEF Events
<1>6. range.start = 0 \/ \E b \in Events(staged) : staged[E(b)].end = range.start
  BY <1>2, <1>4, <1>5
<1>7. \A b \in Cutter : IF b = c THEN cpc'[b] = "stamp" /\ event'[b] = range
                                 ELSE cpc'[b] = "idle"
  BY <1>1, <1>2 DEF Sound, Basic
<1>. QED BY <1>2, <1>3, <1>4, <1>6, <1>7 DEF CutInv

\* A cut that stages its event.
LEMMA StageJoins ==
    ASSUME Sound, CutInv, NEW c \in Cutter, StageEvent(c)
    PROVE  CutInv'
<1> SUFFICES ASSUME ~overlapped PROVE CutInv'
  BY DEF CutInv, StageEvent
<1> DEFINE day == date[c]  new == event[c]
<1>0. Basic /\ day \in Date /\ new \in Event /\ cpc[c] = "event"
  BY DEF Sound, Basic, StageEvent
<1>1. /\ Joined(staged)
      /\ \A d \in Events(work) : staged[E(d)] = work[E(d)]
      /\ \A b, a \in Cutter : b # a => cpc[b] = "idle" \/ cpc[a] = "idle"
      /\ new.start = 0 \/ \E b \in Events(staged) : staged[E(b)].end = new.start
      /\ \A b \in Events(staged) : staged[E(b)].end <= new.start
      /\ staged[E(day)] = NoFile
  BY <1>0 DEF CutInv
<1>2. /\ staged' = [staged EXCEPT ![E(day)] = new] /\ cpc' = [cpc EXCEPT ![c] = "proof"]
      /\ UNCHANGED <<work, event, date, overlapped>>
  BY DEF StageEvent, CutGoto, clone
<1> HIDE DEF day, new
<1>3. E(day) \in Path /\ IsEvent(E(day))
  BY <1>0, PathFacts
<1>4. /\ staged'[E(day)] = new
      /\ \A other \in Path \ {E(day)} : staged'[other] = staged[other]
  BY <1>0, <1>2, <1>3, StagedWrite
<1>5. \A d \in Date \ {day} : staged'[E(d)] = staged[E(d)]
  BY <1>4, PathFacts
<1>6. /\ Events(staged) \subseteq Events(staged')
      /\ Events(staged') \subseteq Events(staged) \cup {day}
      /\ day \notin Events(staged)
      /\ \A d \in Events(staged) : staged'[E(d)] = staged[E(d)]
  BY <1>1, <1>5 DEF Events
<1>7. ASSUME NEW d \in Events(staged')
      PROVE  /\ \/ staged'[E(d)].start = 0
                \/ \E b \in Events(staged') : staged'[E(b)].end = staged'[E(d)].start
             /\ \A b \in Events(staged') : b # d =>
                    \/ staged'[E(b)].end <= staged'[E(d)].start
                    \/ staged'[E(d)].end <= staged'[E(b)].start
  <2>1. CASE d = day
    BY <1>1, <1>4, <1>6, <2>1
  <2>2. CASE d \in Events(staged)
    BY <1>1, <1>4, <1>6, <2>2 DEF Joined
  <2>. QED BY <1>6, <1>7, <2>1, <2>2
<1>8. \A d \in Events(work) : d # day /\ staged'[E(d)] = work[E(d)]
  BY <1>1, <1>5 DEF Events
<1>9. \A b \in Cutter : cpc'[b] \notin {"stamp", "event"}
  BY <1>0, <1>1, <1>2 DEF Basic
<1>10. \A b, a \in Cutter : b # a => cpc'[b] = "idle" \/ cpc'[a] = "idle"
  BY <1>0, <1>1, <1>2 DEF Basic
<1>. QED BY <1>2, <1>7, <1>8, <1>9, <1>10 DEF CutInv, Joined

\* One that dies at it leaves a torn file where there was none.
LEMMA TornJoins ==
    ASSUME Sound, CutInv, NEW c \in Cutter, CutEnds(c), cpc[c] = "event",
           staged' = [staged EXCEPT ![E(date[c])] = Torn],
           UNCHANGED <<work, overlapped>>
    PROVE  CutInv'
<1> SUFFICES ASSUME ~overlapped PROVE CutInv'
  BY DEF CutInv
<1> DEFINE day == date[c]
<1>0. Basic /\ day \in Date
  BY DEF Sound, Basic
<1>1. /\ Joined(staged)
      /\ \A d \in Events(work) : staged[E(d)] = work[E(d)]
      /\ \A b, a \in Cutter : b # a => cpc[b] = "idle" \/ cpc[a] = "idle"
      /\ staged[E(day)] = NoFile
  BY <1>0 DEF CutInv
<1> HIDE DEF day
<1>3. E(day) \in Path /\ IsEvent(E(day)) /\ staged' = [staged EXCEPT ![E(day)] = Torn]
  BY <1>0, PathFacts DEF day
<1>4. /\ staged'[E(day)] = Torn
      /\ \A other \in Path \ {E(day)} : staged'[other] = staged[other]
  BY <1>0, <1>3, StagedWrite
<1>5. \A d \in Date \ {day} : staged'[E(d)] = staged[E(d)]
  BY <1>4, PathFacts
<1>6. /\ Events(staged') = Events(staged)
      /\ \A d \in Events(staged) : staged'[E(d)] = staged[E(d)]
  BY <1>1, <1>4, <1>5 DEF Events
<1>7. Joined(staged')
  <2>1. Joined(staged)
    BY <1>1
  <2>. QED BY <1>6, <2>1, SameEvents
<1>8. \A d \in Events(work) : staged'[E(d)] = work[E(d)]
  BY <1>1, <1>5 DEF Events
<1>9. \A b \in Cutter : cpc'[b] = "idle"
  BY <1>0, <1>1 DEF Basic, CutEnds
<1>. QED BY <1>7, <1>8, <1>9 DEF CutInv

LEMMA CutStepJoins ==
    ASSUME Sound, CutInv, NEW c \in Cutter, CutStep(c) \/ KillCut(c)
    PROVE  CutInv'
<1>0. Basic /\ date[c] \in Date
  BY DEF Sound, Basic
<1>1. ASSUME CutEnds(c), UNCHANGED <<overlapped, work>>,
             \A d \in Date : staged'[E(d)] = staged[E(d)]
      PROVE  CutInv'
  <2>1. \A b \in Cutter : IF b = c THEN cpc'[b] = "idle"
                          ELSE cpc'[b] = cpc[b] /\ event'[b] = event[b] /\ date'[b] = date[b]
    BY <1>0, <1>1 DEF CutEnds, Basic
  <2>. QED BY <1>1, <2>1, CutFrame
<1>2. ASSUME NEW d \in Date, Cut(c, d)
      PROVE  CutInv'
  BY <1>2, BeginJoins
<1>3. CASE Stamp(c)
  <2>1. UNCHANGED <<overlapped, work, staged>> /\ cpc[c] = "stamp"
    BY <1>3 DEF Stamp, clone, history
  <2>2. CASE CutEnds(c)
    BY <1>1, <2>1, <2>2
  <2>3. CASE CutGoto(c, "event") /\ staged[E(date[c])] = NoFile
    <3>1. UNCHANGED <<event, date>>
      BY <2>3 DEF CutGoto
    <3>2. \A b \in Cutter : cpc'[b] = IF b = c THEN "event" ELSE cpc[b]
      BY <1>0, <2>3 DEF CutGoto, Basic
    <3>. QED BY <2>1, <2>3, <3>1, <3>2, CutFrame
  <2>. QED BY <1>3, <2>2, <2>3 DEF Stamp
<1>4. CASE NoCalendar(c) \/ AppendReceipt(c)
  BY <1>1, <1>4 DEF NoCalendar, AppendReceipt, clone, history
<1>5. CASE StageEvent(c)
  BY <1>5, StageJoins
<1>6. CASE StageProof(c)
  <2>1. UNCHANGED <<overlapped, work, event, date>> /\ cpc[c] = "proof"
    BY <1>6 DEF StageProof, CutGoto, clone, history
  <2>2. \A b \in Cutter : cpc'[b] = IF b = c THEN "receipt" ELSE cpc[b]
    BY <1>0, <1>6 DEF StageProof, CutGoto, Basic
  <2>3. staged' = [staged EXCEPT ![P(date[c])] = [root |-> Root(event[c]), att |-> 0]]
    BY <1>6 DEF StageProof
  <2>4. \A d \in Date : staged'[E(d)] = staged[E(d)]
    BY <1>0, <2>3, PathFacts DEF Basic, IsTree
  <2>. QED BY <2>1, <2>2, <2>4, CutFrame
<1>7. CASE KillCut(c)
  <2>1. CutEnds(c) /\ UNCHANGED <<overlapped, work>>
    BY <1>7 DEF KillCut, clone, history
  <2>2. CASE staged' = staged
    BY <1>1, <2>1, <2>2
  <2>3. CASE cpc[c] = "event" /\ staged' = [staged EXCEPT ![E(date[c])] = Torn]
    BY <2>1, <2>3, TornJoins
  <2>4. CASE staged' = [staged EXCEPT ![P(date[c])] = Torn]
    <3>1. \A d \in Date : staged'[E(d)] = staged[E(d)]
      BY <1>0, <2>4, PathFacts DEF Basic, IsTree
    <3>. QED BY <1>1, <2>1, <3>1
  <2>. QED BY <1>7, <2>2, <2>3, <2>4 DEF KillCut
<1>. QED BY <1>2, <1>3, <1>4, <1>5, <1>6, <1>7 DEF CutStep

LEMMA NextJoins == Sound /\ CutInv /\ [Next]_vars => CutInv'
<1> SUFFICES ASSUME Sound, CutInv, [Next]_vars PROVE CutInv'
  OBVIOUS
<1>1. ASSUME UNCHANGED cuts, \A d \in Date : staged'[E(d)] = staged[E(d)],
             \A d \in Date : work'[E(d)] \in {Torn, work[E(d)], staged[E(d)]}
      PROVE  CutInv'
  BY <1>1, CutFrame DEF cuts, history
<1>2. CASE UNCHANGED vars
  BY <1>1, <1>2 DEF vars, clone
<1>3. CASE AppendRow \/ UpgradeStep \/ KillUpgrade
  BY <1>1, <1>3, UpgradeSound
<1>4. CASE PublishStep \/ KillPublish \/ CommitFails \/ RemoteFails \/ OthersPush
  BY <1>1, <1>4, PublishSound
<1>. QED BY <1>2, <1>3, <1>4, CutStepJoins DEF Next, Faults

\* Coverage of the staged events is contiguous and does not overlap, whatever
\* is published and wherever a cut was killed, if no two cuts ran at one time.
THEOREM CutsStayJoined == Spec => []CutsJoin
<1>1. Init => CutInv
  BY PathFacts DEF Init, CutInv, Joined, Events, Empty
<1>2. CutInv => CutsJoin
  BY DEF CutInv, CutsJoin
<1>. QED BY <1>1, <1>2, InitSound, NextSound, NextJoins, PTL DEF Spec
-----------------------------------------------------------------------------
(* The log: what is published, and that it stays.                          *)

\* What is public was committed, what was committed was added, and what was
\* added is in the clone as it was; a file is added once.
LogInv ==
    /\ index \in [Path -> File] /\ head \in [Path -> File]
    /\ \A path \in Path :
           /\ remote[path] # NoFile => head[path] = remote[path]
           /\ head[path] # NoFile => index[path] = head[path]
           /\ index[path] # NoFile => work[path] = index[path]
    /\ ppc \in {"copyEvent", "copy"} => work[cur] = NoFile
    /\ ppc = "commit" => index[cur] = NoFile

\* Steps that leave the clone and the remote, and copy nothing.
LEMMA LogFrame ==
    ASSUME LogInv, UNCHANGED <<clone, remote>>,
           ppc' \in {"copyEvent", "copy", "commit"} => ppc' = ppc /\ cur' = cur
    PROVE  LogInv'
BY DEF LogInv, clone

\* A file is copied to where the clone has none.
LEMMA LogWrite ==
    ASSUME LogInv, Sound, cur \in Path, work[cur] = NoFile, NEW label, CopyStaged(label)
    PROVE  LogInv'
<1>1. /\ ppc' = "commit" /\ cur' = cur /\ UNCHANGED <<index, head, remote>>
      /\ \A other \in Path \ {cur} : work'[other] = work[other]
  BY Copied DEF Sound
<1>2. index[cur] = NoFile
  BY DEF LogInv
<1>. QED BY <1>1, <1>2 DEF LogInv

LEMMA LogStep == Sound /\ LogInv /\ [Next]_vars => LogInv'
<1> SUFFICES ASSUME Sound, LogInv, [Next]_vars PROVE LogInv'
  OBVIOUS
<1>0. Publisher /\ work \in [Path -> File]
  BY DEF Sound, Basic, IsTree
<1>1. CASE UNCHANGED vars
  BY <1>1, LogFrame DEF vars, publisher, log
<1>2. CASE AppendRow \/ UpgradeStep \/ KillUpgrade
  <2>1. UNCHANGED <<clone, log, publisher>>
    BY <1>2 DEF AppendRow, UpgradeStep, UpgradeRead, UpgradeCompare, UpgradeOpen, UpgradeWrite,
                KillUpgrade
  <2>. QED BY <2>1, LogFrame DEF publisher, log
<1>3. ASSUME NEW c \in Cutter, CutStep(c) \/ KillCut(c)
      PROVE  LogInv'
  <2>1. UNCHANGED <<clone, log, publisher>>
    BY <1>3 DEF CutStep, Cut, CutRange, Stamp, NoCalendar, StageEvent, StageProof,
                AppendReceipt, KillCut
  <2>. QED BY <2>1, LogFrame DEF publisher, log
<1>4. CASE \/ PublishGate \/ SyncClone \/ EventsDone \/ ProofsDone \/ UnlinkStaged
           \/ RemoteFails \/ OthersPush
  <2>1. UNCHANGED <<clone, remote>>
    BY <1>4 DEF PublishGate, SyncClone, EventsDone, ProofsDone, UnlinkStaged, RemoteFails,
                OthersPush, log
  <2>2. ppc' \in {"copyEvent", "copy", "commit"} => ppc' = ppc /\ cur' = cur
    BY <1>4 DEF PublishGate, SyncClone, EventsDone, ProofsDone, UnlinkStaged, RemoteFails,
                OthersPush, PublishEnds, publisher
  <2>. QED BY <2>1, <2>2, LogFrame
<1>5. ASSUME NEW path \in Path, PublishEvent(path)
      PROVE  LogInv'
  <2>1. UNCHANGED <<clone, remote>> /\ ppc = "events"
    BY <1>5 DEF PublishEvent, log
  <2>2. CASE PublishEnds \/ \E file : AlreadyThere(path, file)
    <3>1. ppc' \notin {"copyEvent", "copy", "commit"}
      BY <2>1, <2>2 DEF PublishEnds, AlreadyThere
    <3>. QED BY <2>1, <3>1, LogFrame
  <2>3. CASE cur' = path /\ ppc' = "copyEvent" /\ work[path] = NoFile
    BY <2>1, <2>3 DEF LogInv, clone
  <2>. QED BY <1>5, <2>2, <2>3 DEF PublishEvent
<1>6. ASSUME NEW path \in Path, PublishProof(path)
      PROVE  LogInv'
  <2>1. UNCHANGED <<clone, remote>> /\ ppc = "proofs"
    BY <1>6 DEF PublishProof, log
  <2>2. CASE ppc' \in {"copyEvent", "copy", "commit"} => ppc' = ppc /\ cur' = cur
    BY <2>1, <2>2, LogFrame
  <2>3. CASE cur' = path /\ ppc' = "copy" /\ work[path] = NoFile
    BY <2>1, <2>3 DEF LogInv, clone
  <2>4. \/ PublishEnds \/ (\E file : AlreadyThere(path, file)) \/ UNCHANGED <<ppc, cur>>
        \/ cur' = path /\ ppc' = "copy" /\ work[path] = NoFile
    BY <1>6 DEF PublishProof
  <2>. QED BY <2>2, <2>3, <2>4 DEF PublishEnds, AlreadyThere
<1>7. CASE CopyEvent \/ CopyProof
  <2>1. PICK label \in {"copyEvent", "copy"} : CopyStaged(label)
    BY <1>7 DEF CopyEvent, CopyProof
  <2>2. ppc \in {"copyEvent", "copy"}
    BY <2>1 DEF CopyStaged
  <2>3. cur \in Path /\ work[cur] = NoFile
    BY <1>0, <2>2, PathFacts DEF Publisher, LogInv
  <2>. QED BY <2>1, <2>3, LogWrite
<1>8. CASE Commit \/ CommitFails
  <2>1. /\ ppc = "commit" /\ index' = [index EXCEPT ![cur] = work[cur]]
        /\ head' = index' \/ head' = head
        /\ work' = work /\ remote' = remote /\ ppc' \notin {"copyEvent", "copy", "commit"}
    BY <1>8 DEF Commit, CommitFails, PublishEnds, log
  <2>2. cur \in Path /\ index[cur] = NoFile /\ work[cur] \in File
    BY <1>0, <2>1 DEF LogInv, Publisher
  <2>3. /\ index' \in [Path -> File] /\ index'[cur] = work[cur]
        /\ \A other \in Path \ {cur} : index'[other] = index[other]
    BY <2>1, <2>2 DEF LogInv
  <2>. QED BY <2>1, <2>2, <2>3 DEF LogInv
<1>9. CASE KillPublish
  <2>1. /\ UNCHANGED <<index, head, remote>> /\ ppc' = "idle"
        /\ work' = work \/ (ppc = "commit" /\ work' = [work EXCEPT ![cur] = Torn])
    BY <1>9 DEF KillPublish, PublishEnds, log
  <2>2. \A path \in Path : index[path] # NoFile => work'[path] = work[path]
    BY <1>0, <2>1 DEF LogInv
  <2>. QED BY <2>1, <2>2 DEF LogInv
<1>10. CASE Push
  <2>1. UNCHANGED clone /\ remote' \in {remote, head} /\ ppc' = "idle"
    BY <1>10 DEF Push, PublishEnds
  <2>. QED BY <2>1 DEF LogInv, clone
<1>. QED
  BY <1>1, <1>2, <1>3, <1>4, <1>5, <1>6, <1>7, <1>8, <1>9, <1>10 DEF Next, PublishStep, Faults

LEMMA RemoteGrows ==
    ASSUME LogInv, [Next]_vars
    PROVE  \A path \in Path : remote[path] # NoFile => remote'[path] = remote[path]
<1>1. CASE Push
  BY <1>1 DEF Push, LogInv
<1>2. CASE UNCHANGED remote
  BY <1>2
<1>3. CASE UNCHANGED vars \/ AppendRow \/ UpgradeStep \/ \E c \in Cutter : CutStep(c)
  BY <1>2, <1>3 DEF vars, AppendRow, UpgradeStep, UpgradeRead, UpgradeCompare, UpgradeOpen,
       UpgradeWrite, CutStep, Cut, CutRange, Stamp, NoCalendar, StageEvent, StageProof,
       AppendReceipt, log
<1>4. CASE Faults
  BY <1>2, <1>4 DEF Faults, KillUpgrade, KillPublish, CommitFails, RemoteFails, OthersPush,
       KillCut, log
<1>5. CASE PublishStep /\ ~Push
  BY <1>2, <1>5 DEF PublishStep, PublishGate, SyncClone, EventsDone, CopyEvent, CopyProof, CopyStaged, ProofsDone,
       Commit, UnlinkStaged, PublishEvent, PublishProof, log
<1>. QED BY <1>1, <1>3, <1>4, <1>5 DEF Next

LEMMA InitLog == Init => LogInv
BY DEF Init, LogInv, Empty, File

\* Published files are created once and never modified: by any order of cuts,
\* upgrades, failed publishes and kills, what the log has at a path stays.
THEOREM PublishedStays == Spec => PublishedOnce
<1>1. Sound /\ LogInv /\ [Next]_vars => Sound' /\ LogInv'
  BY NextSound, LogStep
<1>2. LogInv /\ [Next]_vars =>
          [\A path \in Path : remote[path] # NoFile => remote'[path] = remote[path]]_vars
  BY RemoteGrows
<1>. QED BY <1>1, <1>2, InitSound, InitLog, PTL DEF Spec, PublishedOnce
-----------------------------------------------------------------------------
(* Published proofs, as long as cuts take turns.                           *)

Bound(proof, public) ==
    proof \notin {NoFile, Torn} =>
        public \notin {NoFile, Torn} /\ proof.root = Root(public)

\* A day's proof comes after its event, and binds it.
StagedBound ==
    \A d \in Date :
        /\ staged[E(d)] = NoFile => staged[P(d)] = NoFile
        /\ Bound(staged[P(d)], staged[E(d)])

\* So does the confirmed one that an upgrade is about to write.
GotBound ==
    upc # "idle" => \A d \in Date : got.path = P(d) =>
        /\ got.proof.att > 0
        /\ staged[E(d)] \notin {NoFile, Torn} /\ got.proof.root = Root(staged[E(d)])

\* A cut stages a pending proof where there is none and none will come.
CutterBound ==
    \A c \in Cutter : cpc[c] = "proof" =>
        /\ staged[E(date[c])] = event[c] /\ staged[P(date[c])] = NoFile
        /\ upc # "idle" => got.path # P(date[c])

\* Until publish reads the proof again it stays confirmed, or is torn.
CopyBound ==
    ppc = "copy" => \A d \in Date : cur = P(d) =>
        /\ work[E(d)] \notin {NoFile, Torn} /\ staged[P(d)] # NoFile
        /\ staged[P(d)] # Torn => staged[P(d)].att > 0

\* An event is copied before its proof, and not again.
WorkBound ==
    \A d \in Date :
        /\ work[P(d)] \notin {NoFile, Torn} => work[P(d)].att > 0
        /\ Bound(work[P(d)], work[E(d)])
        /\ ppc \in {"copyEvent", "commit"} /\ cur = E(d) => work[P(d)] \in {NoFile, Torn}

BindInv ==
    ~overlapped => StagedBound /\ GotBound /\ CutterBound /\ CopyBound /\ WorkBound

\* The parts of a tree that the bindings are about.
LEMMA FileFacts ==
    ASSUME Sound, NEW d \in Date
    PROVE  /\ \A e \in {staged[E(d)], work[E(d)]} :
                  e \notin {NoFile, Torn} => e \in Event /\ e.end <= Len(ledger)
           /\ \A p \in {staged[P(d)], work[P(d)]} : p \notin {NoFile, Torn} => p \in Proof
<1>1. /\ staged[E(d)] \in Event \cup {NoFile, Torn} /\ work[E(d)] \in Event \cup {NoFile, Torn}
      /\ staged[P(d)] \in Proof \cup {NoFile, Torn} /\ work[P(d)] \in Proof \cup {NoFile, Torn}
  BY DEF Sound, Basic, IsTree
<1>2. \A e \in {staged[E(d)], work[E(d)]} : e \notin {NoFile, Torn} => e.end <= Len(ledger)
  BY DEF Sound, Extent, Events
<1>. QED BY <1>1, <1>2

\* The rows an event covers do not change: the ledger is only appended to.
RootsStay == \A e \in Event : e.end <= Len(ledger) => Root(e)' = Root(e)

LEMMA AppendedRoots ==
    ASSUME Sound, ledger' = ledger \/ \E type \in Type : ledger' = Append(ledger, type)
    PROVE  RootsStay
<1>1. CASE ledger' = ledger
  BY <1>1 DEF RootsStay, Root
<1>2. ASSUME NEW type \in Type, ledger' = Append(ledger, type), NEW e \in Event,
             e.end <= Len(ledger)
      PROVE  Root(e)' = Root(e)
  <2>1. /\ ledger \in Seq(Type) /\ Len(ledger) \in Nat /\ e.start \in Nat /\ e.end \in Nat
    BY DEF Sound, Basic, Event
  <2>2. \A n \in 1..Len(ledger) : ledger'[n] = ledger[n]
    BY <1>2, <2>1
  <2>3. \A n \in (e.start + 1)..e.end : ledger'[n] = ledger[n]
    <3>1. \A n \in (e.start + 1)..e.end : n \in 1..Len(ledger)
      BY <1>2, <2>1
    <3>. QED BY <2>2, <3>1
  <2>. QED BY <2>3 DEF Root
<1>. QED BY <1>1, <1>2 DEF RootsStay

LEMMA BoundStays ==
    ASSUME NEW p, NEW e, Bound(p, e), RootsStay,
           e \notin {NoFile, Torn} => e \in Event /\ e.end <= Len(ledger)
    PROVE  Bound(p, e)'
BY DEF Bound, RootsStay

LEMMA StagedKeeps ==
    ASSUME Sound, StagedBound, RootsStay, \A d \in Date : staged'[E(d)] = staged[E(d)],
           \A d \in Date : \/ staged'[P(d)] \in {staged[P(d)], NoFile}
                           \/ staged[E(d)] # NoFile /\ Bound(staged'[P(d)], staged[E(d)])
    PROVE  StagedBound'
<1> SUFFICES ASSUME NEW d \in Date
             PROVE  /\ staged'[E(d)] = NoFile => staged'[P(d)] = NoFile
                    /\ Bound(staged[P(d)], staged[E(d)])'
  BY DEF StagedBound
<1>1. PICK p, e : p = staged'[P(d)] /\ e = staged[E(d)] /\ e = staged'[E(d)]
  OBVIOUS
<1>2. Bound(p, e)
  BY <1>1 DEF StagedBound, Bound
<1>3. Bound(p, e)'
  BY <1>1, <1>2, FileFacts, BoundStays
<1>4. Bound(staged[P(d)], staged[E(d)])'
  BY <1>1, <1>3 DEF Bound, Root
<1>. QED BY <1>1, <1>4 DEF StagedBound

LEMMA GotKeeps ==
    ASSUME Sound, GotBound, RootsStay, \A d \in Date : staged'[E(d)] = staged[E(d)],
           upc' # "idle" => upc # "idle" /\ got' = got
    PROVE  GotBound'
<1> SUFFICES ASSUME upc' # "idle", NEW d \in Date, got'.path = P(d)
             PROVE  /\ got'.proof.att > 0 /\ staged'[E(d)] \notin {NoFile, Torn}
                    /\ got'.proof.root = Root(staged[E(d)])'
  BY DEF GotBound
<1>1. PICK e : e = staged[E(d)] /\ e = staged'[E(d)]
  OBVIOUS
<1>2. got.proof.att > 0 /\ e \notin {NoFile, Torn} /\ got.proof.root = Root(e) /\ got' = got
  BY <1>1 DEF GotBound
<1>3. Root(e)' = Root(e)
  BY <1>1, <1>2, FileFacts DEF RootsStay
<1>4. Root(staged[E(d)])' = Root(e)'
  BY <1>1 DEF Root
<1>. QED BY <1>1, <1>2, <1>3, <1>4

\* A proof comes to a path where there was none only by an upgrade of it.
LEMMA CutterKeeps ==
    ASSUME Sound, CutterBound, \A d \in Date : staged'[E(d)] = staged[E(d)],
           \A c \in Cutter : cpc'[c] = "proof" =>
               cpc[c] = "proof" /\ date'[c] = date[c] /\ event'[c] = event[c],
           \A d \in Date : staged[P(d)] = NoFile =>
               staged'[P(d)] = NoFile \/ (upc # "idle" /\ got.path = P(d)),
           upc' # "idle" => \/ upc # "idle" /\ got' = got
                            \/ \A d \in Date : got'.path = P(d) => staged[P(d)] # NoFile
    PROVE  CutterBound'
<1> SUFFICES ASSUME NEW c \in Cutter, cpc'[c] = "proof"
             PROVE  /\ staged'[E(date'[c])] = event'[c] /\ staged'[P(date'[c])] = NoFile
                    /\ upc' # "idle" => got'.path # P(date'[c])
  BY DEF CutterBound
<1>1. /\ date[c] \in Date /\ date'[c] = date[c] /\ event'[c] = event[c]
      /\ staged[E(date[c])] = event[c] /\ staged[P(date[c])] = NoFile
      /\ upc # "idle" => got.path # P(date[c])
  BY DEF CutterBound, Sound, Basic
<1>2. staged'[P(date[c])] = NoFile
  BY <1>1
<1>3. upc' # "idle" => got'.path # P(date[c])
  BY <1>1
<1>. QED BY <1>1, <1>2, <1>3

LEMMA CopyKeeps ==
    ASSUME CopyBound, ppc' = "copy" => ppc = "copy" /\ cur' = cur /\ work' = work,
           \A d \in Date : staged[P(d)] # NoFile =>
               \/ staged'[P(d)] \in {staged[P(d)], Torn}
               \/ staged'[P(d)] # NoFile /\ staged'[P(d)].att > 0
    PROVE  CopyBound'
<1> SUFFICES ASSUME ppc' = "copy", NEW d \in Date, cur' = P(d)
             PROVE  /\ work'[E(d)] \notin {NoFile, Torn} /\ staged'[P(d)] # NoFile
                    /\ staged'[P(d)] # Torn => staged'[P(d)].att > 0
  BY DEF CopyBound
<1>1. /\ work'[E(d)] \notin {NoFile, Torn} /\ staged[P(d)] # NoFile
      /\ staged[P(d)] # Torn => staged[P(d)].att > 0
  BY DEF CopyBound
<1>2. staged'[P(d)] # NoFile
  BY <1>1, FileAssumption
<1>. QED BY <1>1, <1>2

LEMMA WorkKeeps ==
    ASSUME Sound, WorkBound, RootsStay, work' = work,
           ppc' \in {"copyEvent", "commit"} => ppc' = ppc /\ cur' = cur
    PROVE  WorkBound'
<1> SUFFICES ASSUME NEW d \in Date
             PROVE  /\ work'[P(d)] \notin {NoFile, Torn} => work'[P(d)].att > 0
                    /\ Bound(work[P(d)], work[E(d)])'
                    /\ ppc' \in {"copyEvent", "commit"} /\ cur' = E(d) => work'[P(d)] \in {NoFile, Torn}
  BY DEF WorkBound
<1>1. PICK p, e : p = work[P(d)] /\ e = work[E(d)] /\ p = work'[P(d)] /\ e = work'[E(d)]
  OBVIOUS
<1>2. Bound(p, e)
  BY <1>1 DEF WorkBound
<1>3. Bound(p, e)'
  BY <1>1, <1>2, FileFacts, BoundStays
<1>4. Bound(work[P(d)], work[E(d)])'
  BY <1>1, <1>3 DEF Bound, Root
<1>. QED BY <1>4 DEF WorkBound

Bindings == StagedBound /\ GotBound /\ CutterBound /\ CopyBound /\ WorkBound

\* The ledger, the clone and the publisher: what upgrade and cuts leave.
LEMMA AppendRowBinds ==
    ASSUME Sound, Bindings, AppendRow
    PROVE  Bindings'
<1>1. /\ staged' = staged /\ work' = work /\ upc' = upc /\ got' = got /\ ppc' = ppc /\ cur' = cur
      /\ cpc' = cpc /\ date' = date /\ event' = event
      /\ \E type \in Type : ledger' = Append(ledger, type)
  BY DEF AppendRow, clone, upgrader, publisher, cuts, Type
<1>2. RootsStay
  BY <1>1, AppendedRoots
<1>. QED
  BY <1>1, <1>2, StagedKeeps, GotKeeps, CutterKeeps, CopyKeeps, WorkKeeps DEF Bindings

LEMMA UpgradeBinds ==
    ASSUME Sound, Bindings, UpgradeStep \/ KillUpgrade
    PROVE  Bindings'
<1>0. Basic /\ staged \in [Path -> File]
  BY DEF Sound, Basic, IsTree
<1>1. /\ work' = work /\ ppc' = ppc /\ cur' = cur /\ ledger' = ledger
      /\ cpc' = cpc /\ date' = date /\ event' = event
  BY DEF UpgradeStep, UpgradeRead, UpgradeCompare, UpgradeOpen, UpgradeWrite, KillUpgrade,
         clone, publisher, cuts, store
<1>2. RootsStay
  BY <1>1, AppendedRoots
<1>3. WorkBound'
  BY <1>1, <1>2, WorkKeeps DEF Bindings
<1>4. CASE UpgradeCompare \/ KillUpgrade
  <2>1. staged' = staged /\ (upc' # "idle" => upc # "idle" /\ got' = got)
    BY <1>4 DEF UpgradeCompare, KillUpgrade
  <2>. QED
    BY <1>1, <1>2, <1>3, <2>1, StagedKeeps, GotKeeps, CutterKeeps, CopyKeeps DEF Bindings
<1>5. ASSUME NEW d \in Date, UpgradeRead(d)
      PROVE  Bindings'
  <2>1. staged' = staged /\ staged[P(d)] \notin {NoFile, Torn}
    BY <1>5 DEF UpgradeRead
  <2>2. staged[P(d)] \in Proof
    BY <2>1, FileFacts
  <2>3. PICK att \in (staged[P(d)].att + 1)..MaxAtt :
            got' = [path |-> P(d), proof |-> [staged[P(d)] EXCEPT !.att = att]]
    BY <1>5 DEF UpgradeRead
  <2>4. got'.path = P(d) /\ got'.proof.att > 0 /\ got'.proof.root = staged[P(d)].root
    BY <2>2, <2>3 DEF Proof
  <2>5. \A b \in Date : got'.path = P(b) => b = d
    BY <2>4 DEF P
  <2>6. PICK e : e = staged[E(d)] /\ e = staged'[E(d)]
    BY <2>1
  <2>7. e \notin {NoFile, Torn} /\ staged[P(d)].root = Root(e)
    BY <2>1, <2>6 DEF Bindings, StagedBound, Bound
  <2>8. Root(e)' = Root(e) /\ Root(staged[E(d)])' = Root(e)'
    BY <1>1, <2>6 DEF Root
  <2>9. GotBound'
    BY <2>4, <2>5, <2>6, <2>7, <2>8 DEF GotBound
  <2>10. CutterBound'
    BY <1>1, <2>1, <2>5, CutterKeeps DEF Bindings
  <2>. QED BY <1>1, <1>2, <1>3, <2>1, <2>9, <2>10, StagedKeeps, CopyKeeps DEF Bindings
<1>6. ASSUME NEW file, file = Torn \/ file = got.proof, upc # "idle",
             staged' = [staged EXCEPT ![got.path] = file],
             upc' # "idle" => upc # "idle" /\ got' = got
      PROVE  Bindings'
  <2>1. PICK d \in Date : got.path = P(d)
    BY <1>0, <1>6 DEF Basic
  <2>2. got.proof \in Proof /\ got.proof.att > 0 /\ staged[E(d)] \notin {NoFile, Torn}
        /\ got.proof.root = Root(staged[E(d)])
    BY <1>0, <1>6, <2>1 DEF Basic, Bindings, GotBound
  <2>3. Bound(file, staged[E(d)]) /\ (file # Torn => file.att > 0) /\ file # NoFile
    BY <1>6, <2>2, FileAssumption DEF Bound
  <2>4. P(d) \in Path
    BY PathFacts
  <2>5. /\ staged'[P(d)] = file
        /\ \A path \in Path \ {P(d)} : staged'[path] = staged[path]
    BY <1>0, <1>6, <2>1, <2>4
  <2>6. /\ \A b \in Date : staged'[E(b)] = staged[E(b)]
        /\ \A b \in Date \ {d} : staged'[P(b)] = staged[P(b)]
    <3>1. \A b \in Date : E(b) \in Path \ {P(d)}
      BY PathFacts
    <3>2. \A b \in Date \ {d} : P(b) \in Path \ {P(d)}
      BY PathFacts DEF P
    <3>. QED BY <2>5, <3>1, <3>2
  <2>7. StagedBound'
    <3>1. \A b \in Date : \/ staged'[P(b)] \in {staged[P(b)], NoFile}
                          \/ staged[E(b)] # NoFile /\ Bound(staged'[P(b)], staged[E(b)])
      BY <2>2, <2>3, <2>5, <2>6
    <3>. QED BY <1>2, <2>6, <3>1, StagedKeeps DEF Bindings
  <2>8. GotBound'
    BY <1>2, <1>6, <2>6, GotKeeps DEF Bindings
  <2>9. CutterBound'
    <3>1. \A b \in Date : staged[P(b)] = NoFile =>
              staged'[P(b)] = NoFile \/ (upc # "idle" /\ got.path = P(b))
      BY <1>6, <2>1, <2>6
    <3>. QED BY <1>1, <1>6, <2>6, <3>1, CutterKeeps DEF Bindings
  <2>10. CopyBound'
    <3>1. \A b \in Date : staged[P(b)] # NoFile =>
              \/ staged'[P(b)] \in {staged[P(b)], Torn}
              \/ staged'[P(b)] # NoFile /\ staged'[P(b)].att > 0
      BY <2>3, <2>5, <2>6
    <3>. QED BY <1>1, <3>1, CopyKeeps DEF Bindings
  <2>. QED BY <1>3, <2>7, <2>8, <2>9, <2>10 DEF Bindings
<1>7. CASE UpgradeOpen
  <2>1. /\ upc # "idle" /\ staged' = [staged EXCEPT ![got.path] = Torn] /\ got' = got
    BY <1>7 DEF UpgradeOpen
  <2>. QED BY <1>6, <2>1
<1>8. CASE UpgradeWrite
  <2>1. /\ upc # "idle" /\ staged' = [staged EXCEPT ![got.path] = got.proof] /\ upc' = "idle"
    BY <1>8 DEF UpgradeWrite
  <2>. QED BY <1>6, <2>1
<1>. QED BY <1>4, <1>5, <1>7, <1>8 DEF UpgradeStep
\* An event comes, whole or torn, to a day that has none.
LEMMA EventStaged ==
    ASSUME Sound, Bindings, NEW d \in Date, staged[E(d)] = NoFile, NEW file,
           file = Torn \/ file \in Event,
           staged' = [staged EXCEPT ![E(d)] = file], UNCHANGED <<ledger, upgrader, publisher, work>>
    PROVE  /\ StagedBound' /\ GotBound' /\ CopyBound' /\ WorkBound'
           /\ staged'[E(d)] = file /\ staged'[P(d)] = NoFile
           /\ upc' # "idle" => got'.path # P(d)
<1>0. staged \in [Path -> File] /\ E(d) \in Path /\ upc' = upc /\ got' = got /\ ledger' = ledger
      /\ ppc' = ppc /\ cur' = cur /\ work' = work
  BY PathFacts DEF Sound, Basic, IsTree, upgrader, publisher
<1>1. staged'[E(d)] = file /\ \A path \in Path \ {E(d)} : staged'[path] = staged[path]
  BY <1>0
<1>2. /\ \A b \in Date : staged'[P(b)] = staged[P(b)]
      /\ \A b \in Date \ {d} : staged'[E(b)] = staged[E(b)]
  <2>1. \A b \in Date : P(b) \in Path \ {E(d)}
    BY PathFacts
  <2>2. \A b \in Date \ {d} : E(b) \in Path \ {E(d)}
    BY PathFacts
  <2>. QED BY <1>1, <2>1, <2>2
<1>3. staged[P(d)] = NoFile /\ (upc # "idle" => got.path # P(d))
  BY DEF Bindings, StagedBound, GotBound
<1>4. RootsStay
  BY <1>0, AppendedRoots
<1>5. StagedBound'
  <2>1. ASSUME NEW b \in Date
        PROVE  /\ staged'[E(b)] = NoFile => staged'[P(b)] = NoFile
               /\ Bound(staged'[P(b)], staged'[E(b)])
    <3>1. CASE b = d
      BY <1>2, <1>3, <3>1 DEF Bound
    <3>2. CASE b # d
      <4>1. staged'[E(b)] = staged[E(b)] /\ staged'[P(b)] = staged[P(b)]
        BY <1>2, <3>2
      <4>. QED BY <4>1 DEF Bindings, StagedBound
    <3>. QED BY <3>1, <3>2
  <2>. QED BY <1>0, <2>1 DEF StagedBound, Bound, Root
<1>6. GotBound'
  <2>1. ASSUME upc # "idle", NEW b \in Date, got.path = P(b)
        PROVE  /\ got.proof.att > 0 /\ staged'[E(b)] \notin {NoFile, Torn}
               /\ got.proof.root = Root(staged'[E(b)])
    <3>1. staged'[E(b)] = staged[E(b)]
      BY <1>2, <1>3, <2>1
    <3>. QED BY <2>1, <3>1 DEF Bindings, GotBound
  <2>. QED BY <1>0, <2>1 DEF GotBound, Root
<1>7. CopyBound'
  BY <1>0, <1>2, CopyKeeps DEF Bindings
<1>8. WorkBound'
  BY <1>0, <1>4, WorkKeeps DEF Bindings
<1>. QED BY <1>0, <1>1, <1>2, <1>3, <1>5, <1>6, <1>7, <1>8

\* A cut's proof comes, whole or torn, beside the event it binds.
LEMMA ProofStaged ==
    ASSUME Sound, Bindings, NEW d \in Date, staged[P(d)] = NoFile,
           staged[E(d)] \in Event, NEW file,
           file = Torn \/ file = [root |-> Root(staged[E(d)]), att |-> 0],
           staged' = [staged EXCEPT ![P(d)] = file], UNCHANGED <<ledger, upgrader, publisher, work>>
    PROVE  StagedBound' /\ GotBound' /\ CopyBound' /\ WorkBound'
<1>0. staged \in [Path -> File] /\ P(d) \in Path /\ upc' = upc /\ got' = got /\ ledger' = ledger
      /\ ppc' = ppc /\ cur' = cur /\ work' = work
  BY PathFacts DEF Sound, Basic, IsTree, upgrader, publisher
<1>1. staged'[P(d)] = file /\ \A path \in Path \ {P(d)} : staged'[path] = staged[path]
  BY <1>0
<1>2. /\ \A b \in Date : staged'[E(b)] = staged[E(b)]
      /\ \A b \in Date \ {d} : staged'[P(b)] = staged[P(b)]
  <2>1. \A b \in Date : E(b) \in Path \ {P(d)}
    BY PathFacts
  <2>2. \A b \in Date \ {d} : P(b) \in Path \ {P(d)}
    BY PathFacts DEF P
  <2>. QED BY <1>1, <2>1, <2>2
<1>3. RootsStay
  BY <1>0, AppendedRoots
<1>4. staged[E(d)] \notin {NoFile, Torn} /\ Bound(file, staged[E(d)])
  BY FileAssumption DEF Bound
<1>5. StagedBound'
  <2>1. \A b \in Date : \/ staged'[P(b)] \in {staged[P(b)], NoFile}
                        \/ staged[E(b)] # NoFile /\ Bound(staged'[P(b)], staged[E(b)])
    BY <1>1, <1>2, <1>4
  <2>. QED BY <1>2, <1>3, <2>1, StagedKeeps DEF Bindings
<1>6. GotBound'
  BY <1>0, <1>2, <1>3, GotKeeps DEF Bindings
<1>7. CopyBound'
  BY <1>0, <1>2, CopyKeeps DEF Bindings
<1>8. WorkBound'
  BY <1>0, <1>3, WorkKeeps DEF Bindings
<1>. QED BY <1>5, <1>6, <1>7, <1>8

LEMMA CutBinds ==
    ASSUME Sound, CutInv, Bindings, ~overlapped, NEW c \in Cutter, CutStep(c) \/ KillCut(c)
    PROVE  Bindings'
<1>0. /\ cpc \in [Cutter -> {"idle", "stamp", "event", "proof", "receipt"}]
      /\ date \in [Cutter -> Date] /\ event \in [Cutter -> Event]
      /\ date[c] \in Date /\ event[c] \in Event
      /\ ledger \in Seq(Type) /\ staged \in [Path -> File]
  BY DEF Sound, Basic, IsTree
<1>1. /\ UNCHANGED <<upgrader, publisher, work>>
      /\ work' = work /\ ppc' = ppc /\ cur' = cur /\ upc' = upc /\ got' = got
  BY DEF CutStep, Cut, CutRange, Stamp, NoCalendar, StageEvent, StageProof, AppendReceipt,
         KillCut, clone, publisher, upgrader
<1>2. cpc[c] # "idle" => \A b \in Cutter \ {c} : cpc[b] = "idle"
  BY DEF CutInv
<1>3. ASSUME staged' = staged,
             \A b \in Cutter : cpc'[b] = "proof" =>
                 cpc[b] = "proof" /\ date'[b] = date[b] /\ event'[b] = event[b],
             ledger' = ledger \/ \E type \in Type : ledger' = Append(ledger, type)
      PROVE  Bindings'
  <2>1. RootsStay
    BY <1>3, AppendedRoots
  <2>. QED
    BY <1>1, <1>3, <2>1, StagedKeeps, GotKeeps, CutterKeeps, CopyKeeps, WorkKeeps DEF Bindings
<1>4. ASSUME CutEnds(c) PROVE \A b \in Cutter : cpc'[b] = "proof" =>
                 cpc[b] = "proof" /\ date'[b] = date[b] /\ event'[b] = event[b]
  BY <1>0, <1>4 DEF CutEnds
<1>5. ASSUME NEW d \in Date, Cut(c, d)
      PROVE  Bindings'
  <2>1. /\ staged' = staged /\ ledger' = ledger
        /\ cpc' = [cpc EXCEPT ![c] = "stamp"] /\ date' = [date EXCEPT ![c] = d]
        /\ \E range : event' = [event EXCEPT ![c] = range]
    BY <1>5 DEF Cut, CutRange, store
  <2>2. \A b \in Cutter : cpc'[b] = "proof" =>
                 cpc[b] = "proof" /\ date'[b] = date[b] /\ event'[b] = event[b]
    BY <1>0, <2>1
  <2>. QED BY <1>3, <2>1, <2>2
<1>6. CASE Stamp(c) \/ NoCalendar(c)
  <2>1. staged' = staged /\ ledger' = ledger
    BY <1>6 DEF Stamp, NoCalendar, store
  <2>2. CASE CutEnds(c)
    BY <1>3, <1>4, <2>1, <2>2
  <2>3. CASE CutGoto(c, "event")
    <3>1. \A b \in Cutter : cpc'[b] = "proof" =>
                 cpc[b] = "proof" /\ date'[b] = date[b] /\ event'[b] = event[b]
      BY <1>0, <2>3 DEF CutGoto
    <3>. QED BY <1>3, <2>1, <3>1
  <2>. QED BY <1>6, <2>2, <2>3 DEF Stamp, NoCalendar
<1>7. CASE AppendReceipt(c)
  <2>1. staged' = staged /\ CutEnds(c)
    BY <1>7 DEF AppendReceipt
  <2>2. ledger' = ledger \/ \E type \in Type : ledger' = Append(ledger, type)
    BY <1>7 DEF AppendReceipt, store, Type
  <2>. QED BY <1>3, <1>4, <2>1, <2>2
<1>8. CASE StageEvent(c)
  <2>1. /\ cpc[c] = "event" /\ staged' = [staged EXCEPT ![E(date[c])] = event[c]]
        /\ cpc' = [cpc EXCEPT ![c] = "proof"] /\ date' = date /\ event' = event
        /\ ledger' = ledger
    BY <1>8 DEF StageEvent, CutGoto, store
  <2>2. staged[E(date[c])] = NoFile
    BY <2>1 DEF CutInv
  <2>3. PICK d \in Date, e \in Event : d = date[c] /\ e = event[c]
    BY <1>0
  <2>4. /\ StagedBound' /\ GotBound' /\ CopyBound' /\ WorkBound'
        /\ staged'[E(d)] = e /\ staged'[P(d)] = NoFile
        /\ upc' # "idle" => got'.path # P(d)
    BY <1>1, <2>1, <2>2, <2>3, EventStaged
  <2>5. CutterBound'
    <3>1. \A b \in Cutter : cpc'[b] = "proof" => b = c
      BY <1>0, <1>2, <2>1
    <3>2. date'[c] = d /\ event'[c] = e
      BY <2>1, <2>3
    <3>. QED BY <2>4, <3>1, <3>2 DEF CutterBound
  <2>. QED BY <2>4, <2>5 DEF Bindings
<1>9. ASSUME cpc[c] = "proof", ledger' = ledger, NEW file,
             file = Torn \/ file = [root |-> Root(event[c]), att |-> 0],
             staged' = [staged EXCEPT ![P(date[c])] = file],
             \A b \in Cutter : cpc'[b] = "proof" => cpc[b] = "proof" /\ b # c
      PROVE  Bindings'
  <2>1. staged[E(date[c])] = event[c] /\ staged[P(date[c])] = NoFile
    BY <1>9 DEF Bindings, CutterBound
  <2>2. StagedBound' /\ GotBound' /\ CopyBound' /\ WorkBound'
    BY <1>0, <1>1, <1>9, <2>1, ProofStaged
  <2>3. \A b \in Cutter : cpc'[b] # "proof"
    BY <1>2, <1>9
  <2>. QED BY <2>2, <2>3 DEF Bindings, CutterBound
<1>10. CASE StageProof(c)
  <2>1. /\ cpc[c] = "proof" /\ ledger' = ledger
        /\ staged' = [staged EXCEPT ![P(date[c])] = [root |-> Root(event[c]), att |-> 0]]
        /\ cpc' = [cpc EXCEPT ![c] = "receipt"]
    BY <1>10 DEF StageProof, CutGoto, store
  <2>2. \A b \in Cutter : cpc'[b] = "proof" => cpc[b] = "proof" /\ b # c
    BY <1>0, <2>1
  <2>. QED BY <1>9, <2>1, <2>2
<1>11. CASE KillCut(c)
  <2>1. ledger' = ledger /\ CutEnds(c)
    BY <1>11 DEF KillCut, store
  <2>2. \A b \in Cutter : cpc'[b] = "proof" => cpc[b] = "proof" /\ b # c
    BY <1>0, <2>1 DEF CutEnds
  <2>3. CASE staged' = staged
    BY <1>3, <1>4, <2>1, <2>3
  <2>4. CASE cpc[c] = "proof" /\ staged' = [staged EXCEPT ![P(date[c])] = Torn]
    BY <1>9, <2>1, <2>2, <2>4
  <2>5. CASE cpc[c] = "event" /\ staged' = [staged EXCEPT ![E(date[c])] = Torn]
    <3>1. staged[E(date[c])] = NoFile
      BY <2>5 DEF CutInv
    <3>2. StagedBound' /\ GotBound' /\ CopyBound' /\ WorkBound'
      BY <1>0, <1>1, <2>1, <2>5, <3>1, EventStaged
    <3>3. \A b \in Cutter : cpc'[b] # "proof"
      BY <1>2, <2>2, <2>5
    <3>. QED BY <3>2, <3>3 DEF Bindings, CutterBound
  <2>. QED BY <1>11, <2>3, <2>4, <2>5 DEF KillCut
<1>. QED BY <1>5, <1>6, <1>7, <1>8, <1>10, <1>11 DEF CutStep

LEMMA PublishBinds ==
    ASSUME Sound, CutInv, Bindings, ~overlapped,
           PublishStep \/ KillPublish \/ CommitFails \/ RemoteFails \/ OthersPush
    PROVE  Bindings'
<1>0. Publisher /\ staged \in [Path -> File] /\ work \in [Path -> File]
  BY DEF Sound, Basic, IsTree
<1>1. /\ ledger' = ledger /\ upc' = upc /\ got' = got
      /\ cpc' = cpc /\ date' = date /\ event' = event
  BY DEF PublishStep, PublishGate, SyncClone, EventsDone, CopyEvent, CopyProof, CopyStaged, ProofsDone, Commit,
         UnlinkStaged, Push, PublishEvent, PublishProof, KillPublish, CommitFails, RemoteFails,
         OthersPush, store, upgrader, cuts
<1>2. RootsStay
  BY <1>1, AppendedRoots
<1>3. StagedBound' /\ GotBound' /\ CutterBound'
  <2>1. /\ \A d \in Date : staged'[E(d)] = staged[E(d)]
        /\ \A d \in Date : staged'[P(d)] \in {staged[P(d)], NoFile}
    <3>1. CASE staged' = staged
      BY <3>1
    <3>2. CASE UnlinkStaged
      <4>1. ppc = "unlink" /\ staged' = [staged EXCEPT ![cur] = NoFile]
        BY <3>2 DEF UnlinkStaged
      <4>2. PICK d \in Date : cur = P(d)
        BY <1>0, <4>1 DEF Publisher
      <4>. QED BY <1>0, <4>1, <4>2, PathFacts
    <3>3. UnlinkStaged \/ staged' = staged
      BY DEF PublishStep, PublishGate, SyncClone, EventsDone, CopyEvent, CopyProof, CopyStaged, ProofsDone, Commit,
             Push, PublishEvent, PublishProof, KillPublish, CommitFails, RemoteFails, OthersPush
    <3>. QED BY <3>1, <3>2, <3>3
  <2>. QED BY <1>1, <1>2, <2>1, StagedKeeps, GotKeeps, CutterKeeps DEF Bindings
<1>4. ASSUME ppc' # "copy" PROVE CopyBound'
  BY <1>4 DEF CopyBound
<1>5. ASSUME work' = work, ppc' \in {"copyEvent", "commit"} => ppc' = ppc /\ cur' = cur
      PROVE  WorkBound'
  BY <1>2, <1>5, WorkKeeps DEF Bindings
<1>6. ASSUME \A d \in Date :
                 /\ work'[P(d)] \notin {NoFile, Torn} => work'[P(d)].att > 0
                 /\ Bound(work'[P(d)], work'[E(d)])
                 /\ ppc' \in {"copyEvent", "commit"} /\ cur' = E(d) => work'[P(d)] \in {NoFile, Torn}
      PROVE  WorkBound'
  BY <1>1, <1>6 DEF WorkBound, Bound, Root
<1>7. CASE \/ PublishGate \/ SyncClone \/ EventsDone \/ ProofsDone \/ Commit \/ UnlinkStaged
           \/ Push \/ CommitFails \/ RemoteFails
  <2>1. work' = work /\ ppc' \notin {"copyEvent", "copy", "commit"}
    BY <1>7 DEF PublishGate, SyncClone, EventsDone, ProofsDone, Commit, UnlinkStaged, Push,
                CommitFails, RemoteFails, PublishEnds, clone
  <2>. QED BY <1>3, <1>4, <1>5, <2>1 DEF Bindings
<1>8. CASE OthersPush
  <2>1. work' = work /\ ppc' = ppc /\ cur' = cur /\ staged' = staged
    BY <1>8 DEF OthersPush, clone, publisher
  <2>. QED BY <1>3, <1>5, <2>1, CopyKeeps DEF Bindings
<1>9. ASSUME NEW path \in Path, PublishEvent(path)
      PROVE  Bindings'
  <2>1. ppc = "events" /\ IsEvent(path) /\ work' = work
    BY <1>9 DEF PublishEvent, clone
  <2>2. CASE PublishEnds \/ \E file : AlreadyThere(path, file)
    <3>1. ppc' \notin {"copyEvent", "copy", "commit"}
      BY <2>1, <2>2 DEF PublishEnds, AlreadyThere
    <3>. QED BY <1>3, <1>4, <1>5, <2>1, <3>1 DEF Bindings
  <2>3. CASE cur' = path /\ ppc' = "copyEvent" /\ work[path] = NoFile
    <3>1. PICK d \in Date : path = E(d)
      BY <2>1, PathFacts
    <3>2. work[P(d)] \in {NoFile, Torn}
      BY <2>3, <3>1 DEF Bindings, WorkBound, Bound
    <3>3. \A b \in Date : cur' = E(b) => b = d
      BY <2>3, <3>1, PathFacts
    <3>4. \A b \in Date :
                 /\ work'[P(b)] \notin {NoFile, Torn} => work'[P(b)].att > 0
                 /\ Bound(work'[P(b)], work'[E(b)])
                 /\ ppc' \in {"copyEvent", "commit"} /\ cur' = E(b) => work'[P(b)] \in {NoFile, Torn}
      BY <2>1, <3>2, <3>3 DEF Bindings, WorkBound
    <3>5. WorkBound'
      BY <1>6, <3>4
    <3>. QED BY <1>3, <1>4, <2>3, <3>5 DEF Bindings
  <2>. QED BY <1>9, <2>2, <2>3 DEF PublishEvent
<1>13. CASE CopyEvent
  <2>1. ppc = "copyEvent" /\ CopyStaged("copyEvent")
    BY <1>13 DEF CopyEvent, CopyStaged
  <2>2. PICK d \in Date : cur = E(d)
    BY <1>0, <2>1, PathFacts DEF Publisher
  <2>3. /\ ppc' = "commit" /\ cur' = E(d)
        /\ \A other \in Path \ {E(d)} : work'[other] = work[other]
    BY <2>1, <2>2, PathFacts, Copied DEF Sound
  <2>4. \A b \in Date : work'[P(b)] = work[P(b)] /\ (b # d => work'[E(b)] = work[E(b)])
    BY <2>3, PathFacts
  <2>5. work[P(d)] \in {NoFile, Torn}
    BY <2>1, <2>2 DEF Bindings, WorkBound
  <2>6. ASSUME NEW b \in Date
        PROVE  /\ work'[P(b)] \notin {NoFile, Torn} => work'[P(b)].att > 0
               /\ Bound(work'[P(b)], work'[E(b)])
               /\ ppc' \in {"copyEvent", "commit"} /\ cur' = E(b) => work'[P(b)] \in {NoFile, Torn}
    <3>1. CASE b = d
      BY <2>4, <2>5, <3>1 DEF Bound
    <3>2. CASE b # d
      <4>1. cur' # E(b)
        BY <2>3, <3>2, PathFacts
      <4>2. work'[P(b)] = work[P(b)] /\ work'[E(b)] = work[E(b)]
        BY <2>4, <3>2
      <4>. QED BY <4>1, <4>2 DEF Bindings, WorkBound
    <3>. QED BY <3>1, <3>2
  <2>7. WorkBound'
    BY <1>6, <2>6
  <2>. QED BY <1>3, <1>4, <2>3, <2>7 DEF Bindings
<1>10. ASSUME NEW path \in Path, PublishProof(path)
       PROVE  Bindings'
  <2>1. ppc = "proofs" /\ path \in files /\ work' = work /\ staged' = staged
    BY <1>10 DEF PublishProof, Turn, clone
  <2>2. PICK d \in Date : path = P(d)
    BY <1>0, <2>1, PathFacts DEF Publisher
  <2>3. CASE ppc' \notin {"copyEvent", "copy", "commit"}
    BY <1>3, <1>4, <1>5, <2>1, <2>3 DEF Bindings
  <2>4. CASE cur' = path /\ ppc' = "copy" /\ ~Unbound(path) /\ staged[path].att # 0
    <3>1. work[E(d)] \notin {NoFile, Torn} /\ staged[P(d)] \notin {NoFile, Torn}
      BY <2>2, <2>4, PathFacts DEF Unbound
    <3>2. staged[P(d)].att > 0
      <4>1. staged[P(d)] \in Proof
        BY <3>1, FileFacts
      <4>. QED BY <2>2, <2>4, <4>1 DEF Proof
    <3>3. \A b \in Date : cur' = P(b) => b = d
      BY <2>2, <2>4, PathFacts
    <3>4. CopyBound'
      BY <2>1, <3>1, <3>2, <3>3 DEF CopyBound
    <3>5. WorkBound'
      BY <1>5, <2>1, <2>4
    <3>. QED BY <1>3, <3>4, <3>5 DEF Bindings
  <2>5. \/ PublishEnds \/ (\E file : AlreadyThere(path, file)) \/ UNCHANGED ppc
        \/ cur' = path /\ ppc' = "copy" /\ ~Unbound(path) /\ staged[path].att # 0
    BY <1>10 DEF PublishProof
  <2>. QED BY <2>1, <2>3, <2>4, <2>5 DEF PublishEnds, AlreadyThere
<1>11. CASE CopyProof
  <2>1. ppc = "copy" /\ CopyStaged("copy")
    BY <1>11 DEF CopyProof, CopyStaged
  <2>2. PICK d \in Date : cur = P(d)
    BY <1>0, <2>1 DEF Publisher
  <2>3. /\ ppc' = "commit" /\ cur' = P(d) /\ work'[P(d)] \in {staged[P(d)], Torn}
        /\ \A other \in Path \ {P(d)} : work'[other] = work[other]
    BY <2>1, <2>2, PathFacts, Copied DEF Sound
  <2>4. \A b \in Date : work'[E(b)] = work[E(b)] /\ (b # d => work'[P(b)] = work[P(b)])
    <3>1. \A b \in Date : E(b) \in Path \ {P(d)} /\ (b # d => P(b) \in Path \ {P(d)})
      BY PathFacts DEF P
    <3>. QED BY <2>3, <3>1
  <2>5. /\ work[E(d)] \notin {NoFile, Torn} /\ staged[E(d)] = work[E(d)]
        /\ staged[P(d)] # NoFile /\ (staged[P(d)] # Torn => staged[P(d)].att > 0)
    <3>1. /\ work[E(d)] \notin {NoFile, Torn}
          /\ staged[P(d)] # NoFile /\ (staged[P(d)] # Torn => staged[P(d)].att > 0)
      BY <2>1, <2>2 DEF Bindings, CopyBound
    <3>2. d \in Events(work)
      BY <3>1 DEF Events
    <3>. QED BY <3>1, <3>2 DEF CutInv
  <2>6. ASSUME NEW b \in Date
        PROVE  /\ work'[P(b)] \notin {NoFile, Torn} => work'[P(b)].att > 0
               /\ Bound(work'[P(b)], work'[E(b)])
               /\ ppc' \in {"copyEvent", "commit"} /\ cur' = E(b) => work'[P(b)] \in {NoFile, Torn}
    <3>1. cur' # E(b)
      BY <2>3, PathFacts
    <3>2. CASE b = d
      <4>1. work'[P(b)] \in {staged[P(d)], Torn} /\ work'[E(b)] = staged[E(d)]
        BY <2>3, <2>4, <2>5, <3>2
      <4>. QED BY <2>5, <3>1, <4>1 DEF Bindings, StagedBound, Bound
    <3>3. CASE b # d
      <4>1. work'[P(b)] = work[P(b)] /\ work'[E(b)] = work[E(b)]
        BY <2>4, <3>3
      <4>. QED BY <3>1, <4>1 DEF Bindings, WorkBound
    <3>. QED BY <3>2, <3>3
  <2>7. WorkBound'
    BY <1>6, <2>6
  <2>. QED BY <1>3, <1>4, <2>3, <2>7 DEF Bindings
<1>12. CASE KillPublish
  <2>1. ppc' = "idle"
    BY <1>12 DEF KillPublish, PublishEnds
  <2>2. CASE work' = work
    BY <1>3, <1>4, <1>5, <2>1, <2>2 DEF Bindings
  <2>3. CASE ppc = "commit" /\ work' = [work EXCEPT ![cur] = Torn]
    <3>1. cur \in Path
      BY <1>0, <2>3 DEF Publisher
    <3>2. work'[cur] = Torn /\ \A other \in Path \ {cur} : work'[other] = work[other]
      BY <1>0, <2>3, <3>1
    <3>3. ASSUME NEW b \in Date
          PROVE  /\ work'[P(b)] \notin {NoFile, Torn} => work'[P(b)].att > 0
                 /\ Bound(work'[P(b)], work'[E(b)])
      <4>0. E(b) \in Path /\ P(b) \in Path
        BY PathFacts
      <4>1. CASE cur = P(b)
        BY <3>2, <4>1 DEF Bound
      <4>2. CASE cur = E(b)
        <5>1. work[P(b)] \in {NoFile, Torn} /\ work'[P(b)] = work[P(b)]
          BY <2>3, <3>2, <4>0, <4>2, PathFacts DEF Bindings, WorkBound
        <5>. QED BY <5>1 DEF Bound
      <4>3. CASE cur \notin {P(b), E(b)}
        <5>1. work'[P(b)] = work[P(b)] /\ work'[E(b)] = work[E(b)]
          BY <3>2, <4>0, <4>3
        <5>. QED BY <5>1 DEF Bindings, WorkBound
      <4>. QED BY <4>1, <4>2, <4>3
    <3>4. WorkBound'
      BY <1>6, <2>1, <3>3
    <3>. QED BY <1>3, <1>4, <2>1, <3>4 DEF Bindings
  <2>. QED BY <1>12, <2>2, <2>3 DEF KillPublish
<1>. QED BY <1>7, <1>8, <1>9, <1>10, <1>11, <1>12, <1>13 DEF PublishStep

LEMMA BindStep == Sound /\ CutInv /\ BindInv /\ [Next]_vars => BindInv'
<1> SUFFICES ASSUME Sound, CutInv, BindInv, [Next]_vars, ~overlapped' PROVE Bindings'
  BY DEF BindInv, Bindings
<1>1. ~overlapped
  BY DEF Next, Faults, AppendRow, UpgradeStep, UpgradeRead, UpgradeCompare, UpgradeOpen,
         UpgradeWrite, KillUpgrade, PublishStep, PublishGate, SyncClone, EventsDone, CopyEvent,
         CopyProof, CopyStaged,
         ProofsDone, Commit, UnlinkStaged, Push, PublishEvent, PublishProof, KillPublish,
         CommitFails, RemoteFails, OthersPush, CutStep, Cut, CutRange, Stamp, NoCalendar,
         StageEvent, StageProof, AppendReceipt, KillCut, cuts, history, vars
<1>2. Bindings
  BY <1>1 DEF BindInv, Bindings
<1>3. CASE UNCHANGED vars
  BY <1>2, <1>3 DEF Bindings, StagedBound, GotBound, CutterBound, CopyBound, WorkBound, Bound,
                    Root, vars, store, clone, cuts, publisher, upgrader
<1>4. CASE AppendRow
  BY <1>2, <1>4, AppendRowBinds
<1>5. CASE UpgradeStep \/ KillUpgrade
  BY <1>2, <1>5, UpgradeBinds
<1>6. CASE PublishStep \/ KillPublish \/ CommitFails \/ RemoteFails \/ OthersPush
  BY <1>1, <1>2, <1>6, PublishBinds
<1>7. ASSUME NEW c \in Cutter, CutStep(c) \/ KillCut(c) PROVE Bindings'
  BY <1>1, <1>2, <1>7, CutBinds
<1>. QED BY <1>3, <1>4, <1>5, <1>6, <1>7 DEF Next, Faults

LEMMA InitBind == Init => BindInv
BY PathFacts DEF Init, BindInv, StagedBound, GotBound, CutterBound, CopyBound, WorkBound, Bound,
                 Empty

\* A pending proof is never public, and a public one that is whole binds the
\* event of its day in the clone, if no two cuts ran at one time: whatever
\* upgrade writes or restores between publish's look at a proof and its copy.
THEOREM PublicProofsBind == Spec => []PendingNeverPublished
<1>1. LogInv /\ BindInv => PendingNeverPublished
  <2> SUFFICES ASSUME LogInv, BindInv, ~overlapped, NEW d \in Date,
                      remote[P(d)] \notin {NoFile, Torn}
               PROVE  /\ remote[P(d)].att > 0
                      /\ work[E(d)] \notin {NoFile, Torn}
                      /\ remote[P(d)].root = Root(work[E(d)])
    BY DEF PendingNeverPublished
  <2>1. work[P(d)] = remote[P(d)]
    BY PathFacts DEF LogInv
  <2>. QED BY <2>1 DEF BindInv, WorkBound, Bound
<1>2. Sound /\ CutInv /\ LogInv /\ BindInv /\ [Next]_vars =>
          Sound' /\ CutInv' /\ LogInv' /\ BindInv'
  BY NextSound, NextJoins, LogStep, BindStep
<1>3. Init => Sound /\ CutInv /\ LogInv /\ BindInv
  BY InitSound, InitLog, InitBind, PathFacts DEF Init, CutInv, Joined, Events, Empty
<1>. QED BY <1>1, <1>2, <1>3, PTL DEF Spec

===========================================================================
