----------------------------- MODULE MerkleTree -----------------------------
(***************************************************************************)
(* The Merkle tree of an epoch: audit/merkle.py, level by level as the     *)
(* code computes it.                                                       *)
(*                                                                         *)
(* Hashing is symbolic: a leaf digest is <<record>>, a node digest the     *)
(* pair of its children, the empty root << >>, so digests are equal only   *)
(* when what they digest is (SHA-256 with a prefix per domain).            *)
(*                                                                         *)
(* The state is the leaf list of an epoch and a second one to compare it   *)
(* with; both grow by a record at a time.                                  *)
(***************************************************************************)
EXTENDS Integers, Sequences

CONSTANTS
  Record,      \* records an event may have
  MaxTree      \* bound: leaves of a tree

VARIABLES
  tree,        \* the leaves of the epoch
  claimed      \* another leaf list

LeafDigest(record) == <<record>>

NodeDigest(left, right) == <<left, right>>

\* Duplicate-last for odd levels.
Padded(level) ==
  IF Len(level) % 2 = 1 THEN Append(level, level[Len(level)]) ELSE level

\* The level above an even one.
Parents(level) ==
  [i \in 1 .. Len(level) \div 2 |-> NodeDigest(level[2 * i - 1], level[2 * i])]

\* One turn of the loop: pad, and pair off; the root alone ends it.
Above(level) == IF Len(level) <= 1 THEN level ELSE Parents(Padded(level))

\* The level after n turns, the leaves being the first.
Levels(list) ==
  LET level[n \in Nat] == IF n = 0 THEN list ELSE Above(level[n - 1]) IN level

\* A level has fewer nodes than the one under it, until one is left.
MerkleRoot(list) == IF list = << >> THEN << >> ELSE Levels(list)[Len(list)][1]

\* Mutant: every sibling is said to be on the right.
SiblingRight(level, i) ==
  [side |-> "R", digest |-> IF i % 2 = 0 THEN level[i + 2] ELSE level[i]]

\* The sibling of place i (from 0) on a padded level, and its side.
Sibling(level, i) ==
  IF i % 2 = 0 THEN [side |-> "R", digest |-> level[i + 2]]
               ELSE [side |-> "L", digest |-> level[i]]

\* The turns it takes to the root.
Height(list) ==
  CHOOSE n \in 0 .. Len(list) :
    /\ Len(Levels(list)[n]) <= 1
    /\ \A m \in 0 .. n - 1 : Len(Levels(list)[m]) > 1

\* The place over place i after n turns.
Places(i) == LET place[n \in Nat] == IF n = 0 THEN i ELSE place[n - 1] \div 2 IN place

InclusionProof(list, i) ==
  [n \in 1 .. Height(list) |-> Sibling(Padded(Levels(list)[n - 1]), Places(i)[n - 1])]

\* The running hash of verify_inclusion, and one entry of the proof.
Join(s, hash) ==
  IF s.side = "L" THEN NodeDigest(s.digest, hash) ELSE NodeDigest(hash, s.digest)

Hashes(digest, proof) ==
  LET hash[n \in Nat] == IF n = 0 THEN digest ELSE Join(proof[n], hash[n - 1]) IN hash

Climb(digest, proof) == Hashes(digest, proof)[Len(proof)]

VerifyInclusion(digest, proof, root) == Climb(digest, proof) = root

---------------------------------------------------------------------------
TreesInit == tree = << >> /\ claimed = << >>

\* A record more on either list, or, both at the bound, another epoch.
TreesNext ==
  \/ \E r \in Record :
       \/ /\ Len(tree) < MaxTree
          /\ tree' = Append(tree, LeafDigest(r)) /\ UNCHANGED claimed
       \/ /\ Len(claimed) < MaxTree
          /\ claimed' = Append(claimed, LeafDigest(r)) /\ UNCHANGED tree
  \/ /\ Len(tree) = MaxTree /\ Len(claimed) = MaxTree
     /\ tree' = << >> /\ claimed' = << >>

---------------------------------------------------------------------------
\* What the signed header binds: the proof generated for a place accepts the
\* record at that place and no other; and a list with the root and the leaf
\* count of the epoch is the list of the epoch.  (Without the count it need
\* not be: duplicate-last gives <<a>> \o <<b>> \o <<c>> and that list with c
\* once more one root.)
RootBindsLeaves ==
  /\ \A i \in DOMAIN tree, r \in Record :
       VerifyInclusion(LeafDigest(r), InclusionProof(tree, i - 1), MerkleRoot(tree))
         <=> tree[i] = LeafDigest(r)
  /\ MerkleRoot(claimed) = MerkleRoot(tree) /\ Len(claimed) = Len(tree)
       => claimed = tree
=============================================================================
