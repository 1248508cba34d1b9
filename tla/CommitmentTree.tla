--------------------------- MODULE CommitmentTree ---------------------------
(***************************************************************************)
(* Merkle trees and inclusion proofs (src/mybench/commitment_tree.py).     *)
(*                                                                         *)
(* A hash is the term it is a hash of: SHA-256 is taken to be injective.   *)
(* A leaf is <<"leaf", content>>, a node <<"node", left, right>>, and the  *)
(* finalized root of a session or a day <<domain, root>>: the domains that *)
(* the code hashes in are what keeps these apart.                          *)
(***************************************************************************)
EXTENDS Naturals, Sequences, SequencesExt

LeafCommitment(content) == <<"leaf", content>>

NodeHash(left, right) == <<"node", left, right>>

(* Largest power of two strictly less than n: k doubles while it can. *)
Split(n) ==
    LET power[e \in 0 .. n] == IF e = 0 THEN 1 ELSE 2 * power[e - 1]
    IN  CHOOSE k \in {power[e] : e \in 0 .. n} : k < n /\ n <= 2 * k

(* Mutant: an odd leaf is paired with itself. *)
PairsLastWithItself(hashes) ==
    LET n == Len(hashes)
        padded == IF n > 1 /\ n % 2 = 1 THEN Append(hashes, hashes[n]) ELSE hashes
        root[i \in DOMAIN padded, m \in DOMAIN padded] ==
          IF m = 1
            THEN padded[i]
            ELSE NodeHash(root[i, Split(m)],
                          root[i + Split(m), m - Split(m)])
    IN  root[1, Len(padded)]

(* The root of hashes, not empty: root[n][i] is that over the n hashes from *)
(* position i on.                                                           *)
MerkleRoot(hashes) ==
    LET root[n \in DOMAIN hashes] ==
          [i \in 1 .. Len(hashes) - n + 1 |->
             IF n = 1
               THEN hashes[i]
               ELSE NodeHash(root[Split(n)][i], root[n - Split(n)][i + Split(n)])]
    IN  root[Len(hashes)][1]

(* The path from hashes[index] up: <<side of the sibling, sibling>>. *)
InclusionProof(hashes, index) ==
    LET Over(i, n) == MerkleRoot(SubSeq(hashes, i, i + n - 1))
        path[n \in DOMAIN hashes] ==
          [i \in 1 .. Len(hashes) - n + 1 |->
             LET k == Split(n)
             IN  IF n = 1 THEN <<>>
                 ELSE IF index < i + k
                   THEN Append(path[k][i], <<"R", Over(i + k, n - k)>>)
                   ELSE Append(path[n - k][i + k], <<"L", Over(i, k)>>)]
    IN  path[Len(hashes)][1]

Fold(leaf, proof) ==
    FoldLeft(LAMBDA h, step : IF step[1] = "R" THEN NodeHash(h, step[2])
                                               ELSE NodeHash(step[2], h),
             leaf, proof)

VerifyInclusion(leaf, proof, root) == Fold(leaf, proof) = root

SessionRoot(leaves) == <<"session", MerkleRoot(leaves)>>

DayRoot(sessionRoots) == <<"day", MerkleRoot(sessionRoots)>>

VerifySessionInclusion(leaf, proof, sessionRoot) ==
    <<"session", Fold(leaf, proof)>> = sessionRoot

-----------------------------------------------------------------------------
(* The proof of a position is accepted for the leaf that stands there and  *)
(* for no other leaf or node.                                              *)
ProofsAreSound(hashes, others) ==
    \A i \in DOMAIN hashes :
        LET proof == InclusionProof(hashes, i)
        IN  \A h \in ToSet(hashes) \cup others :
              /\ VerifyInclusion(h, proof, MerkleRoot(hashes)) <=> h = hashes[i]
              /\ VerifySessionInclusion(h, proof, SessionRoot(hashes))
                   <=> h = hashes[i]
              /\ ~VerifySessionInclusion(h, proof, DayRoot(hashes))

(* A root determines the leaves under it, their order and their number,    *)
(* even when leaves are taken away from the end or repeated.               *)
RootBinds(hashes) ==
    /\ \A n \in 1 .. Len(hashes) - 1 :
         MerkleRoot(SubSeq(hashes, 1, n)) # MerkleRoot(hashes)
    /\ \A i \in DOMAIN hashes :
         MerkleRoot(Append(hashes, hashes[i])) # MerkleRoot(hashes)
    /\ \A i, j \in DOMAIN hashes :
         hashes[i] # hashes[j] =>
           MerkleRoot([hashes EXCEPT ![i] = hashes[j], ![j] = hashes[i]])
             # MerkleRoot(hashes)
=============================================================================
