-------------------------- MODULE RelayStepProofs --------------------------
(* Theorems about RelayStep and the Merkle gadget it calls. *)
EXTENDS RelayStep, FiniteSetTheorems, TLAPS

IsSeq(s) == \E S : s \in Seq(S)

LEMMA AppendTo ==
    ASSUME NEW s, IsSeq(s), NEW x
    PROVE  /\ IsSeq(Append(s, x))
           /\ Len(s) \in Nat /\ Len(Append(s, x)) = Len(s) + 1
           /\ \A k \in 1 .. Len(s) : Append(s, x)[k] = s[k]
           /\ Append(s, x)[Len(s) + 1] = x
<1>1. PICK S : s \in Seq(S)
  BY DEF IsSeq
<1>2. s \in Seq(S \cup {x})
  BY <1>1
<1>3. Append(s, x) \in Seq(S \cup {x})
  BY <1>2
<1>4. IsSeq(Append(s, x))
  BY <1>3 DEF IsSeq
<1> QED BY <1>2, <1>4

-----------------------------------------------------------------------------
\* Every node is the hash of the two below it, and the tree is complete once
\* its building has ended.
TreeOK ==
    /\ IsSeq(layers) /\ Len(layers) \in 1 .. Depth + 1
    /\ \A k \in 1 .. Len(layers) - 1 : \A j \in 0 .. Width[k] - 1 :
          layers[k + 1][j] = Hash(layers[k][2 * j], layers[k][2 * j + 1])
    /\ phase # "build" => Len(layers) = Depth + 1

\* What get_merkle_proof returns has a side for every level.
ProofRecord ==
    /\ proof = [index |-> proof.index, leaf |-> proof.leaf, idx |-> proof.idx,
                path |-> proof.path, indices |-> proof.indices, tree |-> proof.tree]
    /\ proof.indices \in Seq(BOOLEAN) /\ Len(proof.indices) \in 0 .. Depth
    /\ phase # "prove" => Len(proof.indices) = Depth

ProofOK == proof # NoProof \/ phase = "prove" => ProofRecord

\* A climb along the first l levels that w describes ends at place q.
IsClimb(w, l, pos) ==
    /\ pos \in [0 .. l -> Nat]
    /\ \A k \in 0 .. l : pos[k] < Width[k]
    /\ w.leaf = layers[1][pos[0]]
    /\ \A k \in 0 .. l - 1 :
          /\ pos[k + 1] = pos[k] \div 2
          /\ w.indices[k + 1] = IsRight(pos[k])
          /\ w.path[k + 1] = layers[k + 1][Sibling(pos[k])]

Reaches(w, l, q) == \E pos : IsClimb(w, l, pos) /\ pos[l] = q

\* The running hash is that of a node exactly if the levels so far lead there.
ClimbOK ==
    phase = "verify" =>
        /\ level \in 0 .. Depth
        /\ \A k \in 1 .. Depth : witness.indices[k] \in BOOLEAN
        /\ \A q \in 0 .. Width[level] - 1 :
              current = layers[level + 1][q] <=> Reaches(witness, level, q)

MerkleInv == TreeOK /\ ProofOK /\ ClimbOK /\ AcceptsExactlyPaths

-----------------------------------------------------------------------------
\* The children of node q are at 2q and 2q + 1, each other's siblings.
LEMMA Children ==
    ASSUME NEW p \in Nat, NEW q \in Nat
    PROVE  /\ q = p \div 2 <=> p = 2 * q \/ p = 2 * q + 1
           /\ p = 2 * q => ~IsRight(p) /\ Sibling(p) = 2 * q + 1
           /\ p = 2 * q + 1 => IsRight(p) /\ Sibling(p) = 2 * q
BY DEF IsRight, Sibling

\* A climb of one more level passes one child, with the other at its side.
LEMMA ReachesParent ==
    ASSUME NEW w, NEW l \in Nat, l < Depth,
           NEW q \in Nat, q < Width[l + 1]
    PROVE  Reaches(w, l + 1, q) <=>
              \E p \in {2 * q, 2 * q + 1} :
                  /\ Reaches(w, l, p)
                  /\ w.indices[l + 1] = IsRight(p)
                  /\ w.path[l + 1] = layers[l + 1][Sibling(p)]
<1>1. ASSUME NEW pos, IsClimb(w, l + 1, pos), pos[l + 1] = q
      PROVE  \E p \in {2 * q, 2 * q + 1} :
                  /\ Reaches(w, l, p)
                  /\ w.indices[l + 1] = IsRight(p)
                  /\ w.path[l + 1] = layers[l + 1][Sibling(p)]
  <2>1. l \in 0 .. (l + 1) - 1 /\ l \in 0 .. l + 1
    OBVIOUS
  <2>2. /\ pos[l] \in Nat /\ q = pos[l] \div 2
        /\ w.indices[l + 1] = IsRight(pos[l])
        /\ w.path[l + 1] = layers[l + 1][Sibling(pos[l])]
    BY <1>1, <2>1 DEF IsClimb
  <2>3. pos[l] \in {2 * q, 2 * q + 1}
    BY <2>2, Children
  <2> DEFINE short == [k \in 0 .. l |-> pos[k]]
  <2>4. short \in [0 .. l -> Nat] /\ \A k \in 0 .. l : short[k] = pos[k] /\ short[k] < Width[k]
    <3>1. \A k \in 0 .. l : k \in 0 .. l + 1
      OBVIOUS
    <3>2. \A k \in 0 .. l : pos[k] \in Nat /\ pos[k] < Width[k]
      BY <1>1, <3>1 DEF IsClimb
    <3> QED BY <3>2
  <2>5. short[l] = pos[l] /\ short[0] = pos[0]
    BY <2>4
  <2> HIDE DEF short
  <2>6. \A k \in 0 .. l - 1 : k \in 0 .. (l + 1) - 1 /\ k \in 0 .. l /\ k + 1 \in 0 .. l
    OBVIOUS
  <2>7. IsClimb(w, l, short)
    BY <1>1, <2>4, <2>5, <2>6 DEF IsClimb
  <2>8. Reaches(w, l, pos[l])
    BY <2>5, <2>7 DEF Reaches
  <2> QED BY <2>2, <2>3, <2>8
<1>2. ASSUME NEW p \in {2 * q, 2 * q + 1}, NEW pos, IsClimb(w, l, pos), pos[l] = p,
             w.indices[l + 1] = IsRight(p), w.path[l + 1] = layers[l + 1][Sibling(p)]
      PROVE  Reaches(w, l + 1, q)
  <2> DEFINE long == [k \in 0 .. l + 1 |-> IF k = l + 1 THEN q ELSE pos[k]]
  <2>1. /\ long \in [0 .. l + 1 -> Nat] /\ long[l + 1] = q
        /\ \A k \in 0 .. l : long[k] = pos[k]
    BY <1>2 DEF IsClimb
  <2> HIDE DEF long
  <2>2. p \in Nat /\ q = p \div 2
    BY Children
  <2>3. \A k \in 0 .. l + 1 : k = l + 1 \/ k \in 0 .. l
    OBVIOUS
  <2>4. \A k \in 0 .. l + 1 : long[k] < Width[k]
    BY <1>2, <2>1, <2>3 DEF IsClimb
  <2>5. w.leaf = layers[1][long[0]]
    BY <1>2, <2>1 DEF IsClimb
  <2>6. ASSUME NEW k \in 0 .. (l + 1) - 1
        PROVE  /\ long[k + 1] = long[k] \div 2
               /\ w.indices[k + 1] = IsRight(long[k])
               /\ w.path[k + 1] = layers[k + 1][Sibling(long[k])]
    <3>1. CASE k = l
      <4>1. long[l] = p
        BY <1>2, <2>1
      <4> QED BY <1>2, <2>1, <2>2, <3>1, <4>1
    <3>2. CASE k # l
      <4>1. k \in 0 .. l - 1 /\ k \in 0 .. l /\ k + 1 \in 0 .. l
        BY <3>2
      <4> QED BY <1>2, <2>1, <4>1 DEF IsClimb
    <3> QED BY <3>1, <3>2
  <2>7. IsClimb(w, l + 1, long)
    BY <2>1, <2>4, <2>5, <2>6 DEF IsClimb
  <2> QED BY <2>1, <2>7 DEF Reaches
<1> QED BY <1>1, <1>2 DEF Reaches

\* One level of the gadget leads to a parent exactly if the running hash was
\* that of the child on the side that indices names, and path its sibling.
LEMMA ClimbLevel ==
    ASSUME TreeOK, phase = "verify", ClimbOK, level < Depth, VerifyLevel
    PROVE  ClimbOK'
<1>1. /\ level \in Nat /\ level + 1 \in 0 .. Depth /\ level \in 0 .. Depth - 1
      /\ level' = level + 1 /\ layers' = layers /\ witness' = witness
      /\ Depth \in Nat /\ level + 1 \in 1 .. Depth
      /\ Len(layers) = Depth + 1 /\ level + 1 \in 1 .. Len(layers) - 1
  BY MerkleAssumption DEF VerifyLevel, ClimbOK, TreeOK
<1>2. witness.indices[level + 1] \in BOOLEAN
  BY <1>1, SMTT(20) DEF ClimbOK
<1>3. /\ Width[level] \in Nat /\ Width[level + 1] \in Nat
      /\ Width[level] = 2 * Width[level + 1]
  BY <1>1, MerkleAssumption
<1>4. ASSUME NEW q \in 0 .. Width[level + 1] - 1
      PROVE  current' = layers[level + 2][q] <=> Reaches(witness, level + 1, q)
  <2> DEFINE node(p) == layers[level + 1][p]
             side == witness.indices[level + 1]
             sibling == witness.path[level + 1]
  <2>1. /\ q \in Nat /\ q < Width[level + 1]
        /\ 2 * q \in 0 .. Width[level] - 1 /\ 2 * q + 1 \in 0 .. Width[level] - 1
    BY <1>3
  <2>2. layers[level + 2][q] = <<node(2 * q), node(2 * q + 1)>>
    <3>1. layers[(level + 1) + 1][q] = Hash(node(2 * q), node(2 * q + 1))
      BY <1>1 DEF TreeOK
    <3>2. (level + 1) + 1 = level + 2
      BY <1>1
    <3> QED BY <3>1, <3>2 DEF Hash
  <2>3. current' = IF side THEN <<sibling, current>> ELSE <<current, sibling>>
    BY DEF VerifyLevel, Hash
  <2>4. /\ current = node(2 * q) <=> Reaches(witness, level, 2 * q)
        /\ current = node(2 * q + 1) <=> Reaches(witness, level, 2 * q + 1)
    BY <2>1 DEF ClimbOK
  <2>5. Reaches(witness, level + 1, q) <=>
           \E p \in {2 * q, 2 * q + 1} :
              Reaches(witness, level, p) /\ side = IsRight(p) /\ sibling = node(Sibling(p))
    BY <1>1, <2>1, ReachesParent, ZenonT(30)
  <2>6. /\ ~IsRight(2 * q) /\ Sibling(2 * q) = 2 * q + 1
        /\ IsRight(2 * q + 1) /\ Sibling(2 * q + 1) = 2 * q
    BY <2>1, Children
  <2>7. IsRight(2 * q) \in BOOLEAN /\ IsRight(2 * q + 1) \in BOOLEAN
    BY DEF IsRight
  <2> HIDE DEF node, side, sibling
  <2>8. Reaches(witness, level + 1, q) <=>
           \/ Reaches(witness, level, 2 * q) /\ side = FALSE /\ sibling = node(2 * q + 1)
           \/ Reaches(witness, level, 2 * q + 1) /\ side = TRUE /\ sibling = node(2 * q)
    BY <2>5, <2>6, <2>7
  <2>9. side \in BOOLEAN
    BY <1>2 DEF side
  <2>10. CASE side = TRUE
    BY <2>2, <2>3, <2>4, <2>8, <2>10
  <2>11. CASE side = FALSE
    BY <2>2, <2>3, <2>4, <2>8, <2>11
  <2> QED BY <2>9, <2>10, <2>11
<1>5. ASSUME NEW q \in 0 .. Width[level'] - 1
      PROVE  current' = layers'[level' + 1][q] <=> Reaches(witness, level, q)'
  <2>1. layers'[level' + 1][q] = layers[level + 2][q]
    BY <1>1
  <2>2. Reaches(witness, level, q)' <=> Reaches(witness, level + 1, q)
    BY <1>1 DEF Reaches, IsClimb
  <2> QED BY <1>1, <1>4, <2>1, <2>2
<1> QED BY <1>1, <1>5 DEF ClimbOK

\* At the top the one node is the root, and the way to it a path of the tree.
LEMMA ClimbEnds ==
    ASSUME TreeOK, ClimbOK, AcceptsExactlyPaths, EnforceRoot
    PROVE  AcceptsExactlyPaths'
<1>1. /\ phase = "verify" /\ level = Depth /\ Depth \in Nat /\ Width[Depth] = 1
      /\ layers' = layers /\ witness' = witness
  BY MerkleAssumption DEF EnforceRoot
<1>2. current = Root <=> Reaches(witness, Depth, 0)
  BY <1>1 DEF ClimbOK, Root
<1>3. ASSUME NEW pos, IsClimb(witness, Depth, pos)
      PROVE  pos \in Climbs /\ pos[Depth] = 0
  <2>1. /\ pos \in [0 .. Depth -> Nat]
        /\ \A k \in 0 .. Depth : pos[k] \in Nat /\ pos[k] < Width[k]
        /\ \A k \in 0 .. Depth - 1 : pos[k + 1] = pos[k] \div 2
    BY <1>3 DEF IsClimb
  <2>2. Width[0] \in Nat /\ \A k \in 0 .. Depth : Width[k] \in Nat /\ Width[k] <= Width[0]
    BY <1>1, MerkleAssumption
  <2>3. ASSUME NEW k \in 0 .. Depth PROVE pos[k] \in 0 .. Width[0] - 1
    <3>1. pos[k] \in Nat /\ pos[k] < Width[k]
      BY <2>1
    <3>2. Width[k] \in Nat /\ Width[0] \in Nat /\ Width[k] <= Width[0]
      BY <2>2
    <3> QED BY ONLY <3>1, <3>2
  <2>4. pos \in [0 .. Depth -> 0 .. Width[0] - 1]
    BY <2>1, <2>3
  <2>5. pos[Depth] = 0
    BY <1>1, <2>1
  <2> QED BY <2>1, <2>4, <2>5 DEF Climbs
<1>4. ASSUME NEW pos \in Climbs, witness.leaf = layers[1][pos[0]],
             \A k \in 0 .. Depth - 1 :
                /\ witness.indices[k + 1] = IsRight(pos[k])
                /\ witness.path[k + 1] = layers[k + 1][Sibling(pos[k])]
      PROVE  IsClimb(witness, Depth, pos)
  <2>1. Width[0] \in Nat
    BY <1>1, MerkleAssumption
  <2>2. pos \in [0 .. Depth -> Nat]
    BY <2>1 DEF Climbs
  <2> QED BY <1>4, <2>2 DEF IsClimb, Climbs
<1>5. Reaches(witness, Depth, 0) => IsPath(witness)
  BY <1>3 DEF Reaches, IsPath, IsClimb
<1>6. IsPath(witness) => Reaches(witness, Depth, 0)
  BY <1>3, <1>4 DEF Reaches, IsPath
<1>7. IsPath(witness)' <=> IsPath(witness)
  BY <1>1 DEF IsPath
<1> QED BY <1>2, <1>5, <1>6, <1>7 DEF EnforceRoot, AcceptsExactlyPaths

-----------------------------------------------------------------------------
\* The witnesses have a side for every level.
BoolIndices(w) == \A k \in 1 .. Depth : w.indices[k] \in BOOLEAN

LEMMA MerkleInitial == MerkleInit => MerkleInv
<1> SUFFICES ASSUME MerkleInit PROVE MerkleInv
  OBVIOUS
<1>1. TreeOK
  <2>1. layers \in Seq({Resized(leaves)}) /\ Len(layers) = 1
    BY DEF MerkleInit
  <2> QED BY <2>1, MerkleAssumption DEF TreeOK, IsSeq, MerkleInit
<1>2. ProofOK /\ ClimbOK /\ AcceptsExactlyPaths
  BY DEF ProofOK, ClimbOK, AcceptsExactlyPaths, MerkleInit
<1> QED BY <1>1, <1>2 DEF MerkleInv

LEMMA LayerHashed == MerkleInv /\ HashLayer => TreeOK'
<1> SUFFICES ASSUME MerkleInv, HashLayer PROVE TreeOK'
  OBVIOUS
<1>1. TreeOK /\ phase = "build" /\ Depth \in Nat
  BY MerkleAssumption DEF MerkleInv, HashLayer
<1> DEFINE n == Len(layers)
<1>2. n \in 1 .. Depth + 1 /\ IsSeq(layers)
  BY <1>1 DEF TreeOK
<1>3. CASE Width[n - 1] > 1
  <2> DEFINE new == [j \in 0 .. Width[n] - 1 |-> Hash(Top[2 * j], Top[2 * j + 1])]
  <2>1. layers' = Append(layers, new) /\ phase' = phase
    BY <1>3 DEF HashLayer
  <2>2. n # Depth + 1
    BY <1>1, <1>2, <1>3, MerkleAssumption
  <2>3. /\ IsSeq(layers') /\ Len(layers') = n + 1
        /\ \A k \in 1 .. n : layers'[k] = layers[k]
        /\ layers'[n + 1] = new
    <3> HIDE DEF new
    <3> QED BY <1>2, <2>1, AppendTo
  <2>4. ASSUME NEW k \in 1 .. Len(layers') - 1, NEW j \in 0 .. Width[k] - 1
        PROVE  layers'[k + 1][j] = Hash(layers'[k][2 * j], layers'[k][2 * j + 1])
    <3>1. CASE k = n
      <4>1. layers'[n + 1][j] = Hash(layers[n][2 * j], layers[n][2 * j + 1])
        BY <2>3, <3>1 DEF Top
      <4>2. layers'[n] = layers[n]
        BY <1>2, <2>3
      <4> QED BY <3>1, <4>1, <4>2
    <3>2. CASE k # n
      <4>1. k \in 1 .. n - 1 /\ k \in 1 .. n /\ k + 1 \in 1 .. n
        BY <1>2, <2>3, <3>2
      <4> QED BY <1>1, <2>3, <4>1 DEF TreeOK
    <3> QED BY <3>1, <3>2
  <2>5. Len(layers') \in 1 .. Depth + 1
    BY <1>1, <1>2, <2>2, <2>3
  <2> QED BY <1>1, <2>1, <2>3, <2>4, <2>5 DEF TreeOK
<1>4. CASE ~(Width[n - 1] > 1)
  <2>1. layers' = layers
    BY <1>4 DEF HashLayer
  <2>2. n = Depth + 1
    <3>1. ASSUME n # Depth + 1 PROVE FALSE
      <4>1. n - 1 \in 0 .. Depth - 1 /\ n \in 0 .. Depth /\ (n - 1) + 1 = n
        BY <1>1, <1>2, <3>1
      <4>2. Width[n - 1] = 2 * Width[n] /\ Width[n] \in Nat \ {0}
        BY <4>1, MerkleAssumption
      <4> QED BY <1>4, <4>2
    <3> QED BY <3>1
  <2> QED BY <1>1, <2>1, <2>2 DEF TreeOK
<1> QED BY <1>3, <1>4

LEMMA ProofClimbed == MerkleInv /\ ClimbProof => ProofOK'
<1> SUFFICES ASSUME MerkleInv, ClimbProof PROVE ProofOK'
  OBVIOUS
<1>1. phase = "prove" /\ ProofRecord /\ Depth \in Nat
  BY MerkleAssumption DEF MerkleInv, ProofOK, ClimbProof
<1> DEFINE n == Len(proof.indices)
<1>2. n \in 0 .. Depth /\ proof.indices \in Seq(BOOLEAN)
  BY <1>1 DEF ProofRecord
<1>3. CASE n < Depth
  <2>1. /\ phase' = phase
        /\ proof' = [proof EXCEPT !.path = Append(@, NodeAt(n, Sibling(proof.idx))),
                                  !.indices = Append(@, IsRight(proof.idx)),
                                  !.idx = @ \div 2]
    BY <1>3 DEF ClimbProof
  <2>2. proof' = [index |-> proof.index, leaf |-> proof.leaf, idx |-> proof.idx \div 2,
                  path |-> Append(proof.path, NodeAt(n, Sibling(proof.idx))),
                  indices |-> Append(proof.indices, IsRight(proof.idx)),
                  tree |-> proof.tree]
    BY <1>1, <2>1 DEF ProofRecord
  <2>3. proof'.indices = Append(proof.indices, IsRight(proof.idx))
    BY <2>2
  <2>4. IsRight(proof.idx) \in BOOLEAN
    BY DEF IsRight
  <2>5. proof'.indices \in Seq(BOOLEAN) /\ Len(proof'.indices) = n + 1
    BY <1>2, <2>3, <2>4
  <2>6. proof' = [index |-> proof'.index, leaf |-> proof'.leaf, idx |-> proof'.idx,
                  path |-> proof'.path, indices |-> proof'.indices, tree |-> proof'.tree]
    BY <2>2
  <2> QED BY <1>1, <1>2, <1>3, <2>1, <2>5, <2>6 DEF ProofOK, ProofRecord
<1>4. CASE ~(n < Depth)
  BY <1>1, <1>2, <1>4 DEF ProofOK, ProofRecord, ClimbProof
<1> QED BY <1>3, <1>4

LEMMA MerkleStepPreserves ==
    ASSUME MerkleInv,
           \/ HashLayer \/ (\E i : BeginProof(i)) \/ ClimbProof
           \/ \E w : Present(w) /\ BoolIndices(w)
           \/ VerifyLevel \/ EnforceRoot \/ Finish \/ Rebuild \/ UNCHANGED merkleVars
    PROVE  MerkleInv'
<1> USE DEF MerkleInv
<1>1. CASE HashLayer
  <2>1. ProofOK' /\ ClimbOK' /\ AcceptsExactlyPaths'
    BY <1>1 DEF HashLayer, ProofOK, ProofRecord, ClimbOK, AcceptsExactlyPaths
  <2> QED BY <1>1, <2>1, LayerHashed
<1>2. ASSUME NEW i, BeginProof(i) PROVE MerkleInv'
  <2>1. TreeOK'
    BY <1>2 DEF BeginProof, TreeOK
  <2>2. ProofOK'
    BY <1>2, MerkleAssumption DEF BeginProof, ProofOK, ProofRecord
  <2>3. ClimbOK' /\ AcceptsExactlyPaths'
    BY <1>2 DEF BeginProof, ClimbOK, AcceptsExactlyPaths
  <2> QED BY <2>1, <2>2, <2>3
<1>3. CASE ClimbProof
  <2>1. TreeOK' /\ ClimbOK' /\ AcceptsExactlyPaths'
    BY <1>3 DEF ClimbProof, TreeOK, ClimbOK, AcceptsExactlyPaths
  <2> QED BY <1>3, <2>1, ProofClimbed
<1>4. ASSUME NEW w, Present(w), BoolIndices(w) PROVE MerkleInv'
  <2>1. TreeOK' /\ ProofOK' /\ AcceptsExactlyPaths'
    BY <1>4 DEF Present, TreeOK, ProofOK, ProofRecord, AcceptsExactlyPaths
  <2>2. ClimbOK'
    <3>1. /\ witness' = w /\ current' = w.leaf /\ level' = 0 /\ layers' = layers
          /\ Depth \in Nat /\ Width[0] \in Nat
      BY <1>4, MerkleAssumption DEF Present
    <3>2. ASSUME NEW q \in 0 .. Width[0] - 1
          PROVE  w.leaf = layers[1][q] <=> Reaches(w, 0, q)
      <4>1. ASSUME w.leaf = layers[1][q] PROVE Reaches(w, 0, q)
        <5> DEFINE pos == [k \in 0 .. 0 |-> q]
        <5>1. IsClimb(w, 0, pos) /\ pos[0] = q
          BY <3>1, <4>1 DEF IsClimb
        <5> HIDE DEF pos
        <5> QED BY <5>1 DEF Reaches
      <4>2. ASSUME Reaches(w, 0, q) PROVE w.leaf = layers[1][q]
        BY <4>2 DEF Reaches, IsClimb
      <4> QED BY <4>1, <4>2
    <3>3. \A q : Reaches(witness, level, q)' <=> Reaches(w, 0, q)
      BY <3>1 DEF Reaches, IsClimb
    <3> QED BY <1>4, <3>1, <3>2, <3>3 DEF ClimbOK, BoolIndices
  <2> QED BY <2>1, <2>2
<1>5. CASE VerifyLevel
  <2>1. TreeOK' /\ ProofOK' /\ AcceptsExactlyPaths'
    BY <1>5 DEF VerifyLevel, TreeOK, ProofOK, ProofRecord, AcceptsExactlyPaths
  <2>2. ClimbOK'
    BY <1>5, ClimbLevel DEF VerifyLevel
  <2> QED BY <2>1, <2>2
<1>6. CASE EnforceRoot
  <2>1. TreeOK' /\ ProofOK' /\ ClimbOK'
    BY <1>6 DEF EnforceRoot, TreeOK, ProofOK, ProofRecord, ClimbOK
  <2> QED BY <1>6, <2>1, ClimbEnds
<1>7. CASE Finish
  BY <1>7 DEF Finish, Decided, TreeOK, ProofOK, ProofRecord, ClimbOK, AcceptsExactlyPaths
<1>8. CASE Rebuild
  <2>1. TreeOK'
    <3>1. layers' \in Seq({Resized(leaves')}) /\ Len(layers') = 1
      BY <1>8 DEF Rebuild
    <3>2. IsSeq(layers')
      BY <3>1 DEF IsSeq
    <3>3. Len(layers') \in 1 .. Depth + 1
      BY <3>1, MerkleAssumption
    <3>4. phase' = "build"
      BY <1>8 DEF Rebuild
    <3> QED BY <3>1, <3>2, <3>3, <3>4 DEF TreeOK, IsSeq
  <2>2. ProofOK' /\ ClimbOK' /\ AcceptsExactlyPaths'
    BY <1>8 DEF Rebuild, ProofOK, ProofRecord, ClimbOK, AcceptsExactlyPaths
  <2> QED BY <2>1, <2>2
<1>9. CASE UNCHANGED merkleVars
  <2>1. TreeOK' /\ ProofOK'
    BY <1>9 DEF merkleVars, TreeOK, ProofOK, ProofRecord
  <2>2. \A q : Reaches(witness, level, q)' <=> Reaches(witness, level, q)
    BY <1>9 DEF merkleVars, Reaches, IsClimb
  <2>3. ClimbOK'
    BY <1>9, <2>2 DEF merkleVars, ClimbOK
  <2>4. AcceptsExactlyPaths'
    BY <1>9 DEF merkleVars, AcceptsExactlyPaths, IsPath
  <2> QED BY <2>1, <2>3, <2>4
<1> QED BY <1>1, <1>2, <1>3, <1>4, <1>5, <1>6, <1>7, <1>8, <1>9

\* Every step of RelayStep is one of the tree, of the gadget, or neither.
LEMMA RelayStepPreserves == MerkleInv /\ [Next]_vars => MerkleInv'
<1> SUFFICES ASSUME MerkleInv, [Next]_vars PROVE MerkleInv'
  OBVIOUS
<1>1. CASE MerkleStep
  BY <1>1, MerkleStepPreserves DEF MerkleStep
<1>2. ASSUME NEW i, NEW h, Issue(i, h) PROVE MerkleInv'
  BY <1>2, MerkleStepPreserves DEF Issue
<1>3. CASE ProveStep
  <2> DEFINE w == [leaf |-> receipt.issuer, path |-> proof.path, indices |-> proof.indices]
  <2>1. Present(w) /\ proof # NoProof /\ phase = "ready"
    BY <1>3 DEF ProveStep, Synthesize, Present
  <2>2. proof.indices \in Seq(BOOLEAN) /\ Len(proof.indices) = Depth
    BY <2>1 DEF MerkleInv, ProofOK, ProofRecord
  <2>3. BoolIndices(w)
    BY <2>2 DEF BoolIndices
  <2> QED BY <2>1, <2>3, MerkleStepPreserves
<1>4. CASE AssignAny
  <2>1. PICK w \in Witness : Present(w)
    BY <1>4 DEF AssignAny, Synthesize
  <2>2. BoolIndices(w)
    BY DEF Witness, BoolIndices
  <2> QED BY <2>1, <2>2, MerkleStepPreserves
<1>5. CASE Discard
  BY <1>5, MerkleStepPreserves DEF Discard
<1>6. CASE NextEpoch
  BY <1>6, MerkleStepPreserves DEF NextEpoch
<1>7. CASE UNCHANGED vars
  BY <1>7, MerkleStepPreserves DEF vars
<1> QED BY <1>1, <1>2, <1>3, <1>4, <1>5, <1>6, <1>7 DEF Next

\* AcceptsExactlyPaths for trees of any depth, over any lists of leaves: the
\* gadget of the circuit accepts the ways through the tree and nothing else.
THEOREM MembershipExact == Spec => []AcceptsExactlyPaths
<1>1. Init => MerkleInv
  BY MerkleInitial DEF Init
<1>2. MerkleInv => AcceptsExactlyPaths
  BY DEF MerkleInv
<1> QED BY <1>1, <1>2, RelayStepPreserves, PTL DEF Spec

-----------------------------------------------------------------------------
\* Two trees that agree along a way.

\* Induction up and down the levels, for a property given as a set.
LEMMA Upwards ==
    ASSUME NEW n \in Nat, NEW A, 0 \in A, \A k \in 0 .. n - 1 : k \in A => k + 1 \in A
    PROVE  0 .. n \subseteq A
<1> DEFINE B == (0 .. n) \ A
           T == {0 .. k : k \in B}
           R == StrictSubsetOrdering(0 .. n)
<1>1. ASSUME B # {} PROVE FALSE
  <2>1. IsWellFoundedOn(R, SUBSET (0 .. n))
    <3>1. IsFiniteSet(0 .. n)
      BY FS_Interval
    <3>2. FiniteSubsetsOf(0 .. n) = SUBSET (0 .. n)
      BY <3>1, FS_FiniteSubsetsOfFinite
    <3> QED BY <3>2, FS_StrictSubsetOrderingWellFounded
  <2>2. T # {} /\ T \subseteq SUBSET (0 .. n)
    BY <1>1
  <2>3. PICK s \in T : \A t \in T : ~ (<<t, s>> \in R)
    <3> HIDE DEF T, R
    <3> QED BY <2>1, <2>2, WFMin
  <2>4. PICK k \in B : s = 0 .. k
    OBVIOUS
  <2>5. k \in Nat /\ k # 0 /\ k <= n
    OBVIOUS
  <2>6. k - 1 \in 0 .. n - 1 /\ k - 1 \in 0 .. n /\ (k - 1) + 1 = k
    BY <2>5
  <2>7. 0 .. k - 1 \subseteq 0 .. k /\ 0 .. k - 1 # 0 .. k
    BY <2>5
  <2>8. <<0 .. k - 1, s>> \in R
    BY <2>2, <2>4, <2>5, <2>7 DEF StrictSubsetOrdering
  <2>9. k - 1 \in A
    BY <2>3, <2>6, <2>8
  <2> QED BY <2>4, <2>6, <2>9
<1> QED BY <1>1

LEMMA Downwards ==
    ASSUME NEW n \in Nat, NEW A, n \in A, \A k \in 0 .. n - 1 : k + 1 \in A => k \in A
    PROVE  0 .. n \subseteq A
<1> DEFINE B == {k \in 0 .. n : n - k \in A}
<1>1. 0 \in B
  OBVIOUS
<1>2. ASSUME NEW k \in 0 .. n - 1, k \in B PROVE k + 1 \in B
  <2>1. n - (k + 1) \in 0 .. n - 1 /\ (n - (k + 1)) + 1 = n - k /\ k + 1 \in 0 .. n
    OBVIOUS
  <2> QED BY <1>2, <2>1
<1>3. 0 .. n \subseteq B
  <2> HIDE DEF B
  <2> QED BY <1>1, <1>2, Upwards
<1>4. ASSUME NEW k \in 0 .. n PROVE k \in A
  <2>1. n - k \in 0 .. n /\ n - (n - k) = k
    OBVIOUS
  <2> QED BY <1>3, <2>1
<1> QED BY <1>4

LEMMA HashInjective ==
    \A a, b, c, d : Hash(a, b) = Hash(c, d) => a = c /\ b = d
  BY DEF Hash

IsTree(t) ==
    \A k \in 0 .. Depth - 1 : \A j \in 0 .. Width[k + 1] - 1 :
        t[k + 2][j] = Hash(t[k + 1][2 * j], t[k + 1][2 * j + 1])

IsWay(pos) ==
    /\ pos \in [0 .. Depth -> Nat]
    /\ \A k \in 0 .. Depth : pos[k] < Width[k]
    /\ \A k \in 0 .. Depth - 1 : pos[k + 1] = pos[k] \div 2

\* The trees agree at level k, except on the way and at its sides.
AgreeAt(t, u, pos, k) ==
    \A j \in 0 .. Width[k] - 1 : j # pos[k] => t[k + 1][j] = u[k + 1][j]

LEMMA Halves ==
    ASSUME NEW k \in 0 .. Depth - 1
    PROVE  /\ k \in Nat /\ k \in 0 .. Depth /\ k + 1 \in 0 .. Depth
           /\ Width[k] \in Nat /\ Width[k + 1] \in Nat /\ Width[k] = 2 * Width[k + 1]
           /\ \A j \in 0 .. Width[k] - 1 :
                 /\ j \in Nat /\ j \div 2 \in 0 .. Width[k + 1] - 1
                 /\ j = 2 * (j \div 2) \/ j = 2 * (j \div 2) + 1
                 /\ Sibling(j) \in 0 .. Width[k] - 1
           /\ \A q \in 0 .. Width[k + 1] - 1 :
                 2 * q \in 0 .. Width[k] - 1 /\ 2 * q + 1 \in 0 .. Width[k] - 1
<1>1. /\ k \in Nat /\ k \in 0 .. Depth /\ k + 1 \in 0 .. Depth
      /\ Width[k] \in Nat /\ Width[k + 1] \in Nat /\ Width[k] = 2 * Width[k + 1]
  BY MerkleAssumption
<1> DEFINE W == Width[k + 1]
<1>2. W \in Nat /\ Width[k] = 2 * W
  BY <1>1
<1> HIDE DEF W
<1>3. ASSUME NEW j \in 0 .. 2 * W - 1
      PROVE  /\ j \in Nat /\ j \div 2 \in 0 .. W - 1
             /\ j = 2 * (j \div 2) \/ j = 2 * (j \div 2) + 1
             /\ Sibling(j) \in 0 .. 2 * W - 1
  BY <1>2 DEF Sibling, IsRight
<1>4. \A q \in 0 .. W - 1 : 2 * q \in 0 .. 2 * W - 1 /\ 2 * q + 1 \in 0 .. 2 * W - 1
  BY <1>2
<1> QED BY <1>1, <1>2, <1>3, <1>4 DEF W

\* Trees whose leaves agree have the same nodes at the sides of the way.
LEMMA LeavesGiveSides ==
    ASSUME NEW t, NEW u, IsTree(t), IsTree(u), NEW pos, IsWay(pos), AgreeAt(t, u, pos, 0)
    PROVE  \A k \in 0 .. Depth - 1 : t[k + 1][Sibling(pos[k])] = u[k + 1][Sibling(pos[k])]
<1> DEFINE A == {k \in 0 .. Depth : AgreeAt(t, u, pos, k)}
<1>0. Depth \in Nat /\ 0 \in 0 .. Depth
  BY MerkleAssumption
<1>1. ASSUME NEW k \in 0 .. Depth - 1, AgreeAt(t, u, pos, k)
      PROVE  AgreeAt(t, u, pos, k + 1)
  <2> SUFFICES ASSUME NEW j \in 0 .. Width[k + 1] - 1, j # pos[k + 1]
               PROVE  t[k + 2][j] = u[k + 2][j]
    BY <1>0 DEF AgreeAt
  <2>1. 2 * j \in 0 .. Width[k] - 1 /\ 2 * j + 1 \in 0 .. Width[k] - 1
    BY Halves
  <2>2. pos[k] \in Nat /\ j \in Nat /\ j # pos[k] \div 2
    <3>1. k \in 0 .. Depth /\ Width[k + 1] \in Nat
      BY Halves
    <3> QED BY <3>1 DEF IsWay
  <2>3. 2 * j # pos[k] /\ 2 * j + 1 # pos[k]
    BY <2>2, Children
  <2>4. t[k + 1][2 * j] = u[k + 1][2 * j] /\ t[k + 1][2 * j + 1] = u[k + 1][2 * j + 1]
    BY <1>1, <2>1, <2>3 DEF AgreeAt
  <2> QED BY <2>4 DEF IsTree
<1>2. 0 .. Depth \subseteq A
  <2>1. 0 \in A
    BY <1>0
  <2>2. \A k \in 0 .. Depth - 1 : k \in A => k + 1 \in A
    BY <1>1, Halves
  <2> HIDE DEF A
  <2> QED BY <1>0, <2>1, <2>2, Upwards
<1> SUFFICES ASSUME NEW k \in 0 .. Depth - 1
             PROVE  t[k + 1][Sibling(pos[k])] = u[k + 1][Sibling(pos[k])]
  OBVIOUS
<1>3. AgreeAt(t, u, pos, k) /\ pos[k] \in 0 .. Width[k] - 1
  <2>1. k \in 0 .. Depth /\ Width[k] \in Nat
    BY Halves
  <2>2. pos[k] \in Nat /\ pos[k] < Width[k]
    BY <2>1 DEF IsWay
  <2> QED BY <1>2, <2>1, <2>2
<1>4. Sibling(pos[k]) \in 0 .. Width[k] - 1 /\ Sibling(pos[k]) # pos[k]
  BY <1>3, Halves DEF Sibling
<1> QED BY <1>3, <1>4 DEF AgreeAt

\* Trees with the same nodes at the sides of the way have the same leaves but
\* for the one that it starts at.
LEMMA SidesGiveLeaves ==
    ASSUME NEW t, NEW u, IsTree(t), IsTree(u), NEW pos, IsWay(pos),
           \A k \in 0 .. Depth - 1 : t[k + 1][Sibling(pos[k])] = u[k + 1][Sibling(pos[k])]
    PROVE  AgreeAt(t, u, pos, 0)
<1> DEFINE A == {k \in 0 .. Depth : AgreeAt(t, u, pos, k)}
<1>0. Depth \in Nat /\ 0 \in 0 .. Depth /\ Depth \in 0 .. Depth
  BY MerkleAssumption
<1>1. ASSUME NEW k \in 0 .. Depth - 1, AgreeAt(t, u, pos, k + 1)
      PROVE  AgreeAt(t, u, pos, k)
  <2> SUFFICES ASSUME NEW j \in 0 .. Width[k] - 1, j # pos[k]
               PROVE  t[k + 1][j] = u[k + 1][j]
    BY DEF AgreeAt
  <2> DEFINE q == j \div 2
  <2>1. q \in 0 .. Width[k + 1] - 1 /\ (j = 2 * q \/ j = 2 * q + 1)
    BY Halves
  <2>2. j \in Nat /\ pos[k] \in Nat /\ pos[k + 1] = pos[k] \div 2
    BY Halves DEF IsWay
  <2>3. CASE q # pos[k + 1]
    <3>1. t[k + 2][q] = u[k + 2][q]
      BY <1>0, <1>1, <2>1, <2>3 DEF AgreeAt
    <3>2. /\ t[k + 2][q] = Hash(t[k + 1][2 * q], t[k + 1][2 * q + 1])
          /\ u[k + 2][q] = Hash(u[k + 1][2 * q], u[k + 1][2 * q + 1])
      BY <2>1 DEF IsTree
    <3>3. t[k + 1][2 * q] = u[k + 1][2 * q] /\ t[k + 1][2 * q + 1] = u[k + 1][2 * q + 1]
      <4> DEFINE a == t[k + 1][2 * q]
                 b == t[k + 1][2 * q + 1]
                 c == u[k + 1][2 * q]
                 d == u[k + 1][2 * q + 1]
      <4>1. Hash(a, b) = Hash(c, d)
        BY <3>1, <3>2
      <4> HIDE DEF a, b, c, d
      <4>2. a = c /\ b = d
        BY <4>1, HashInjective
      <4> QED BY <4>2 DEF a, b, c, d
    <3> QED BY <2>1, <3>3
  <2>4. CASE q = pos[k + 1]
    <3>1. j = Sibling(pos[k])
      BY <2>2, <2>4 DEF Sibling, IsRight
    <3> QED BY <3>1
  <2> QED BY <2>3, <2>4
<1>2. AgreeAt(t, u, pos, Depth)
  <2>1. Width[Depth] = 1 /\ pos[Depth] = 0
    BY <1>0, MerkleAssumption DEF IsWay
  <2> QED BY <2>1 DEF AgreeAt
<1>3. 0 .. Depth \subseteq A
  <2>1. Depth \in A
    BY <1>0, <1>2
  <2>2. \A k \in 0 .. Depth - 1 : k + 1 \in A => k \in A
    BY <1>1, Halves
  <2> HIDE DEF A
  <2> QED BY <1>0, <2>1, <2>2, Downwards
<1> QED BY <1>0, <1>3

\* The sides of a way decide it.
LEMMA OneWay ==
    ASSUME NEW pos, IsWay(pos), NEW way, IsWay(way),
           \A k \in 0 .. Depth - 1 : IsRight(pos[k]) = IsRight(way[k])
    PROVE  \A k \in 0 .. Depth : pos[k] = way[k]
<1> DEFINE A == {k \in 0 .. Depth : pos[k] = way[k]}
<1>0. Depth \in Nat /\ Depth \in 0 .. Depth
  BY MerkleAssumption
<1>1. ASSUME NEW k \in 0 .. Depth - 1, pos[k + 1] = way[k + 1] PROVE pos[k] = way[k]
  <2>1. /\ pos[k] \in Nat /\ way[k] \in Nat /\ pos[k] \div 2 = way[k] \div 2
        /\ IsRight(pos[k]) = IsRight(way[k])
    BY <1>1, Halves DEF IsWay
  <2> QED BY <2>1 DEF IsRight
<1>2. Depth \in A
  BY <1>0, MerkleAssumption DEF IsWay
<1>3. 0 .. Depth \subseteq A
  <2>1. \A k \in 0 .. Depth - 1 : k + 1 \in A => k \in A
    BY <1>1, Halves
  <2> HIDE DEF A
  <2> QED BY <1>0, <1>2, <2>1, Downwards
<1> QED BY <1>3

-----------------------------------------------------------------------------
\* What a prover has drawn.

\* get_merkle_proof puts zero for a place beyond the layer.
Side(t, k, j) == IF j < Width[k] THEN t[k + 1][j] ELSE Zero

\* The places that the climb has passed: all of them in the tree, or none.
Walk(p, pos) ==
    /\ pos \in [0 .. Len(p.indices) -> Nat]
    /\ pos[0] = p.index /\ pos[Len(p.indices)] = p.idx
    /\ \A k \in 0 .. Len(p.indices) - 1 :
          /\ pos[k + 1] = pos[k] \div 2
          /\ p.indices[k + 1] = IsRight(pos[k])
          /\ p.path[k + 1] = Side(p.tree, k, Sibling(pos[k]))
    /\ \A k \in 0 .. Len(p.indices) : pos[k] < Width[k] <=> p.index < Width[0]

DrawnFrom(p) ==
    /\ \E list \in LeafLists :
          /\ p.index \in 0 .. Len(list) - 1
          /\ p.leaf = list[p.index + 1]
          /\ p.tree[1] = Resized(list)
    /\ IsTree(p.tree)
    /\ IsSeq(p.path) /\ Len(p.path) = Len(p.indices)
    /\ \E pos : Walk(p, pos)

DrawnOK ==
    /\ proof # NoProof \/ phase = "prove" => DrawnFrom(proof)
    /\ phase = "prove" => proof.tree = layers

\* The layers have their widths.
ShapeOK ==
    /\ leaves \in LeafLists /\ layers[1] = Resized(leaves)
    /\ \A k \in 1 .. Len(layers) : DOMAIN layers[k] = 0 .. Width[k - 1] - 1
    /\ level \in 0 .. Depth
    /\ phase \in {"build", "ready", "prove", "verify", "accepted", "rejected"}
    /\ epoch \in 0 .. MaxEpoch

\* A turn of the loop of get_merkle_proof goes on with the walk.
LEMMA WalkOn ==
    ASSUME NEW p, NEW q, DrawnFrom(p), p.indices \in Seq(BOOLEAN), Len(p.indices) < Depth,
           q.index = p.index, q.leaf = p.leaf, q.tree = p.tree, q.idx = p.idx \div 2,
           q.path = Append(p.path, Side(p.tree, Len(p.indices), Sibling(p.idx))),
           q.indices = Append(p.indices, IsRight(p.idx))
    PROVE  DrawnFrom(q)
<1> DEFINE n == Len(p.indices)
<1>1. PICK pos : Walk(p, pos)
  BY DEF DrawnFrom
<1>2. /\ n \in Nat /\ n \in 0 .. Depth - 1 /\ n \in 0 .. n
      /\ pos[n] = p.idx /\ pos[n] \in Nat /\ Depth \in Nat
  <2>1. n \in Nat /\ Depth \in Nat
    BY MerkleAssumption
  <2>2. n \in 0 .. Depth - 1 /\ n \in 0 .. n
    BY <2>1
  <2>3. pos \in [0 .. n -> Nat] /\ pos[n] = p.idx
    BY <1>1 DEF Walk
  <2> HIDE DEF n
  <2> QED BY <2>1, <2>2, <2>3
<1>3. /\ Len(q.indices) = n + 1
      /\ \A k \in 1 .. n : q.indices[k] = p.indices[k]
      /\ q.indices[n + 1] = IsRight(pos[n])
  <2>1. IsSeq(p.indices)
    BY DEF IsSeq
  <2> QED BY <1>2, <2>1, AppendTo
<1>4. /\ IsSeq(q.path) /\ Len(q.path) = n + 1
      /\ \A k \in 1 .. n : q.path[k] = p.path[k]
      /\ q.path[n + 1] = Side(p.tree, n, Sibling(pos[n]))
  <2>1. IsSeq(p.path) /\ Len(p.path) = n
    BY DEF DrawnFrom
  <2> QED BY <1>2, <2>1, AppendTo
<1> DEFINE next == pos[n] \div 2
           long == [k \in 0 .. n + 1 |-> IF k = n + 1 THEN next ELSE pos[k]]
<1>5. next \in Nat /\ (next < Width[n + 1] <=> pos[n] < Width[n])
  <2>1. Width[n] \in Nat /\ Width[n + 1] \in Nat /\ Width[n] = 2 * Width[n + 1]
    BY <1>2, Halves
  <2>2. \A j, w \in Nat : j \div 2 \in Nat /\ (j \div 2 < w <=> j < 2 * w)
    OBVIOUS
  <2>3. pos[n] \in Nat
    BY <1>2
  <2> HIDE DEF n
  <2>4. pos[n] \div 2 \in Nat /\ (pos[n] \div 2 < Width[n + 1] <=> pos[n] < 2 * Width[n + 1])
    BY <2>1, <2>2, <2>3
  <2> QED BY <2>1, <2>4
<1>6. /\ long \in [0 .. n + 1 -> Nat] /\ long[n + 1] = next
      /\ \A k \in 0 .. n : long[k] = pos[k]
  <2>1. pos \in [0 .. n -> Nat]
    BY <1>1 DEF Walk
  <2> HIDE DEF n, next
  <2> QED BY <1>2, <1>5, <2>1
<1> HIDE DEF long
<1>7. Walk(q, long)
  <2>1. long[0] = q.index /\ long[n + 1] = q.idx
    BY <1>1, <1>2, <1>6 DEF Walk
  <2>2. ASSUME NEW k \in 0 .. n
        PROVE  /\ long[k + 1] = long[k] \div 2
               /\ q.indices[k + 1] = IsRight(long[k])
               /\ q.path[k + 1] = Side(q.tree, k, Sibling(long[k]))
    <3>1. CASE k = n
      BY <1>2, <1>3, <1>4, <1>6, <3>1
    <3>2. CASE k # n
      <4>1. k \in 0 .. n - 1 /\ k \in 0 .. n /\ k + 1 \in 0 .. n /\ k + 1 \in 1 .. n
        BY <1>2, <3>2
      <4> HIDE DEF n
      <4> QED BY <1>1, <1>3, <1>4, <1>6, <4>1 DEF Walk, n
    <3> QED BY <3>1, <3>2
  <2>3. ASSUME NEW k \in 0 .. n + 1 PROVE long[k] < Width[k] <=> q.index < Width[0]
    <3>1. CASE k = n + 1
      BY <1>1, <1>2, <1>5, <1>6, <3>1 DEF Walk
    <3>2. CASE k # n + 1
      <4>1. k \in 0 .. n
        BY <1>2, <3>2
      <4> QED BY <1>1, <1>6, <4>1 DEF Walk
    <3> QED BY <3>1, <3>2
  <2>4. (n + 1) - 1 = n
    BY <1>2
  <2> HIDE DEF n
  <2> QED BY <1>3, <1>6, <2>1, <2>2, <2>3, <2>4 DEF Walk
<1> QED BY <1>3, <1>4, <1>7 DEF DrawnFrom

\* The tree of a state in which it is not being built.
LEMMA LayersAreTree ==
    ASSUME TreeOK, phase # "build"
    PROVE  IsTree(layers)
<1>1. Len(layers) = Depth + 1 /\ Depth \in Nat
  BY MerkleAssumption DEF TreeOK
<1> SUFFICES ASSUME NEW k \in 0 .. Depth - 1, NEW j \in 0 .. Width[k + 1] - 1
             PROVE  layers[k + 2][j] = Hash(layers[k + 1][2 * j], layers[k + 1][2 * j + 1])
  BY DEF IsTree
<1>2. k + 1 \in 1 .. Len(layers) - 1 /\ (k + 1) + 1 = k + 2
  BY <1>1
<1> QED BY <1>2 DEF TreeOK

LEMMA DrawnPreserved ==
    ASSUME MerkleInv, DrawnOK, ShapeOK, [Next]_vars
    PROVE  DrawnOK'
<1> USE DEF MerkleInv
<1>1. ASSUME NEW i \in 0 .. Len(leaves) - 1, BeginProof(i) PROVE DrawnOK'
  <2>1. /\ proof' = [index |-> i, leaf |-> leaves[i + 1], idx |-> i, path |-> <<>>,
                     indices |-> <<>>, tree |-> layers]
        /\ phase = "ready" /\ layers' = layers
    BY <1>1 DEF BeginProof
  <2>2. /\ proof'.index = i /\ proof'.leaf = leaves[i + 1] /\ proof'.idx = i
        /\ proof'.path = <<>> /\ proof'.indices = <<>> /\ proof'.tree = layers
    BY <2>1
  <2>3. IsTree(layers)
    BY <2>1, LayersAreTree
  <2>4. i \in 0 .. Len(leaves) - 1 /\ i \in Nat /\ layers[1] = Resized(leaves) /\ leaves \in LeafLists
    BY MerkleAssumption DEF ShapeOK
  <2> DEFINE pos == [k \in 0 .. 0 |-> i]
  <2>5. Walk(proof', pos)
    BY <2>2, <2>4 DEF Walk
  <2>6. \E p : Walk(proof', p)
    BY <2>5
  <2>7. IsSeq(<<>>) /\ Len(<<>>) = 0
    <3>1. <<>> \in Seq({})
      OBVIOUS
    <3> QED BY <3>1 DEF IsSeq
  <2>8. DrawnFrom(proof')
    BY <2>2, <2>3, <2>4, <2>6, <2>7 DEF DrawnFrom
  <2> QED BY <2>1, <2>2, <2>8 DEF DrawnOK
<1>2. ASSUME ClimbProof PROVE DrawnOK'
  <2> DEFINE n == Len(proof.indices)
  <2>1. phase = "prove" /\ DrawnFrom(proof) /\ proof.tree = layers /\ ProofRecord
        /\ layers' = layers
    BY <1>2 DEF ClimbProof, DrawnOK, ProofOK
  <2>2. CASE n < Depth
    <3>1. /\ phase' = phase
          /\ proof' = [proof EXCEPT !.path = Append(@, NodeAt(n, Sibling(proof.idx))),
                                    !.indices = Append(@, IsRight(proof.idx)),
                                    !.idx = @ \div 2]
      BY <1>2, <2>2 DEF ClimbProof
    <3>2. proof' = [index |-> proof.index, leaf |-> proof.leaf, idx |-> proof.idx \div 2,
                    path |-> Append(proof.path, NodeAt(n, Sibling(proof.idx))),
                    indices |-> Append(proof.indices, IsRight(proof.idx)),
                    tree |-> proof.tree]
      BY <2>1, <3>1 DEF ProofRecord
    <3>3. /\ proof'.index = proof.index /\ proof'.leaf = proof.leaf
          /\ proof'.tree = proof.tree /\ proof'.idx = proof.idx \div 2
          /\ proof'.path = Append(proof.path, NodeAt(n, Sibling(proof.idx)))
          /\ proof'.indices = Append(proof.indices, IsRight(proof.idx))
      BY <3>2
    <3>4. NodeAt(n, Sibling(proof.idx)) = Side(proof.tree, n, Sibling(proof.idx))
      BY <2>1 DEF NodeAt, Side
    <3>5. proof.indices \in Seq(BOOLEAN)
      BY <2>1 DEF ProofRecord
    <3>6. DrawnFrom(proof')
      BY <2>1, <2>2, <3>3, <3>4, <3>5, WalkOn
    <3> QED BY <2>1, <3>1, <3>3, <3>6 DEF DrawnOK
  <2>3. CASE ~(n < Depth)
    BY <1>2, <2>1, <2>3 DEF ClimbProof, DrawnOK
  <2> QED BY <2>2, <2>3
<1>3. ASSUME proof' = proof, phase' # "prove" PROVE DrawnOK'
  <2>1. proof # NoProof => DrawnFrom(proof)
    BY DEF DrawnOK
  <2> QED BY <1>3, <2>1 DEF DrawnOK
<1>4. ASSUME proof' = proof, phase' = phase, layers' = layers PROVE DrawnOK'
  BY <1>4 DEF DrawnOK
<1>5. CASE MerkleStep
  <2>1. CASE HashLayer
    BY <1>3, <2>1 DEF HashLayer
  <2>2. CASE VerifyLevel
    BY <1>4, <2>2 DEF VerifyLevel
  <2>3. CASE EnforceRoot
    BY <1>3, <2>3 DEF EnforceRoot
  <2> QED BY <1>1, <1>2, <1>5, <2>1, <2>2, <2>3 DEF MerkleStep
<1>6. ASSUME NEW i, NEW h, Issue(i, h) PROVE DrawnOK'
  BY <1>4, <1>6 DEF Issue, merkleVars
<1>7. CASE ProveStep
  BY <1>3, <1>7 DEF ProveStep, Synthesize, Present
<1>8. CASE AssignAny
  BY <1>3, <1>8 DEF AssignAny, Synthesize, Present
<1>9. CASE Discard
  BY <1>3, <1>9 DEF Discard, Finish
<1>10. CASE NextEpoch
  BY <1>3, <1>10 DEF NextEpoch, Rebuild
<1>11. CASE UNCHANGED vars
  BY <1>4, <1>11 DEF vars, merkleVars
<1> QED BY <1>5, <1>6, <1>7, <1>8, <1>9, <1>10, <1>11 DEF Next

LEMMA ShapePreserved ==
    ASSUME MerkleInv, ShapeOK, [Next]_vars
    PROVE  ShapeOK'
<1> USE DEF MerkleInv
<1>0. Depth \in Nat
  BY MerkleAssumption
<1>1. ASSUME UNCHANGED <<leaves, layers>>, level' \in 0 .. Depth, epoch' = epoch,
             phase' \in {"build", "ready", "prove", "verify", "accepted", "rejected"}
      PROVE  ShapeOK'
  BY <1>1 DEF ShapeOK
<1>2. ASSUME HashLayer, epoch' = epoch PROVE ShapeOK'
  <2>1. CASE Width[Len(layers) - 1] > 1
    <3> DEFINE n == Len(layers)
               new == [j \in 0 .. Width[n] - 1 |-> Hash(Top[2 * j], Top[2 * j + 1])]
    <3>1. layers' = Append(layers, new) /\ UNCHANGED <<leaves, level, phase>>
      BY <1>2, <2>1 DEF HashLayer
    <3>2. IsSeq(layers) /\ n \in 1 .. Depth + 1
      BY DEF TreeOK
    <3>3. DOMAIN new = 0 .. Width[n] - 1
      OBVIOUS
    <3>4. /\ Len(layers') = n + 1 /\ layers'[n + 1] = new
          /\ \A k \in 1 .. n : layers'[k] = layers[k]
      <4> HIDE DEF new
      <4> QED BY <3>1, <3>2, AppendTo
    <3> HIDE DEF new
    <3>5. ASSUME NEW k \in 1 .. n + 1 PROVE DOMAIN layers'[k] = 0 .. Width[k - 1] - 1
      <4>1. CASE k = n + 1
        <5>1. k - 1 = n
          BY <3>2, <4>1
        <5> QED BY <3>3, <3>4, <4>1, <5>1
      <4>2. CASE k # n + 1
        <5>1. k \in 1 .. n
          BY <3>2, <4>2
        <5> QED BY <3>4, <5>1 DEF ShapeOK
      <4> QED BY <4>1, <4>2
    <3>6. layers'[1] = layers[1]
      BY <3>2, <3>4
    <3> QED BY <1>2, <3>1, <3>4, <3>5, <3>6 DEF ShapeOK
  <2>2. CASE ~(Width[Len(layers) - 1] > 1)
    BY <1>2, <2>2 DEF HashLayer, ShapeOK
  <2> QED BY <2>1, <2>2
<1>3. CASE MerkleStep
  <2>1. ASSUME NEW i, BeginProof(i), epoch' = epoch PROVE ShapeOK'
    BY <1>1, <2>1 DEF BeginProof, ShapeOK
  <2>2. CASE ClimbProof /\ epoch' = epoch
    BY <1>1, <2>2 DEF ClimbProof, ShapeOK
  <2>3. CASE VerifyLevel /\ epoch' = epoch
    <3>1. level' \in 0 .. Depth
      BY <1>0, <2>3 DEF VerifyLevel, ShapeOK
    <3> QED BY <1>1, <2>3, <3>1 DEF VerifyLevel, ShapeOK
  <2>4. CASE EnforceRoot /\ epoch' = epoch
    BY <1>1, <2>4 DEF EnforceRoot, ShapeOK
  <2> QED BY <1>2, <1>3, <2>1, <2>2, <2>3, <2>4 DEF MerkleStep
<1>4. ASSUME NEW i, NEW h, Issue(i, h) PROVE ShapeOK'
  BY <1>1, <1>4 DEF Issue, merkleVars, ShapeOK
<1>5. CASE ProveStep
  BY <1>0, <1>1, <1>5 DEF ProveStep, Synthesize, Present
<1>6. CASE AssignAny
  BY <1>0, <1>1, <1>6 DEF AssignAny, Synthesize, Present
<1>7. CASE Discard
  BY <1>0, <1>1, <1>7 DEF Discard, Finish
<1>8. CASE NextEpoch
  <2>1. /\ leaves' \in LeafLists /\ layers' = <<Resized(leaves')>> /\ phase' = "build"
        /\ level' = level /\ epoch < MaxEpoch /\ epoch' = epoch + 1
    BY <1>8 DEF NextEpoch, Rebuild
  <2>2. epoch' \in 0 .. MaxEpoch
    BY <2>1, RelayStepAssumption DEF ShapeOK
  <2>3. Len(layers') = 1 /\ layers'[1] = Resized(leaves') /\ DOMAIN layers'[1] = 0 .. Width[0] - 1
    BY <2>1 DEF Resized
  <2> QED BY <2>1, <2>2, <2>3 DEF ShapeOK
<1>9. CASE UNCHANGED vars
  BY <1>1, <1>9 DEF vars, merkleVars, ShapeOK
<1> QED BY <1>3, <1>4, <1>5, <1>6, <1>7, <1>8, <1>9 DEF Next

LEMMA ShapeInitial == Init => ShapeOK /\ DrawnOK
<1> SUFFICES ASSUME Init PROVE ShapeOK /\ DrawnOK
  OBVIOUS
<1>1. /\ leaves \in LeafLists /\ layers = <<Resized(leaves)>> /\ proof = NoProof
      /\ level = 0 /\ phase = "build" /\ epoch = 0
  BY DEF Init, MerkleInit
<1>2. Len(layers) = 1 /\ layers[1] = Resized(leaves) /\ DOMAIN layers[1] = 0 .. Width[0] - 1
  BY <1>1 DEF Resized
<1> QED BY <1>1, <1>2, MerkleAssumption, RelayStepAssumption DEF ShapeOK, DrawnOK

LEMMA SeqDomain ==
    ASSUME NEW s, IsSeq(s)
    PROVE  DOMAIN s = 1 .. Len(s)
BY DEF IsSeq

\* The receipt's epoch does not run ahead, and its issuer is a leaf.
LEMMA ReceiptPreserved ==
    ASSUME ShapeOK, ReceiptTyped, [Next]_vars
    PROVE  ReceiptTyped'
<1>1. epoch \in Nat
  BY DEF ShapeOK
<1>2. ASSUME receipt' = receipt, epoch' \in {epoch, epoch + 1} PROVE ReceiptTyped'
  <2>1. \A n \in 0 .. epoch : n \in 0 .. epoch'
    BY <1>1, <1>2
  <2> QED BY <1>2, <2>1 DEF ReceiptTyped, ExpectedReceipt
<1>3. ASSUME NEW i \in 0 .. Len(leaves) - 1, NEW h \in Header, Issue(i, h) PROVE ReceiptTyped'
  <2>1. leaves \in Seq(Key) /\ i + 1 \in 1 .. Len(leaves)
    BY MerkleAssumption DEF ShapeOK
  <2>2. leaves[i + 1] \in Key /\ epoch \in 0 .. epoch
    BY <1>1, <2>1
  <2> QED BY <1>3, <2>2 DEF Issue, ReceiptTyped, ExpectedReceipt
<1>4. CASE MerkleStep
  BY <1>2, <1>4 DEF MerkleStep
<1>5. CASE ProveStep
  BY <1>2, <1>5 DEF ProveStep, Synthesize
<1>6. CASE AssignAny
  BY <1>2, <1>6 DEF AssignAny, Synthesize
<1>7. CASE Discard
  BY <1>2, <1>7 DEF Discard
<1>8. CASE NextEpoch
  BY <1>2, <1>8 DEF NextEpoch
<1>9. CASE UNCHANGED vars
  BY <1>2, <1>9 DEF vars
<1> QED BY <1>3, <1>4, <1>5, <1>6, <1>7, <1>8, <1>9 DEF Next

\* The witnesses that the gadget is called with.
LEMMA AssignmentPreserved ==
    ASSUME MerkleInv, ShapeOK, DrawnOK, ReceiptTyped, AssignmentTyped, [Next]_vars
    PROVE  AssignmentTyped'
<1>1. ASSUME phase \notin {"verify", "accepted", "rejected"},
             phase' \notin {"verify", "accepted", "rejected"},
             UNCHANGED <<witness, header, receipt_value>>
      PROVE  AssignmentTyped'
  BY <1>1 DEF AssignmentTyped
<1>2. ASSUME UNCHANGED <<layers, witness, header, receipt_value>>,
             phase \in {"verify", "accepted", "rejected"},
             phase' \in {"verify", "accepted", "rejected"}
      PROVE  AssignmentTyped'
  BY <1>2 DEF AssignmentTyped, Known, ExpectedReceipt
<1>3. ASSUME NEW h \in Header, NEW v, NEW w, Synthesize(h, v, w), w.leaf \in Known,
             DOMAIN w.path = 1 .. Depth, w.indices \in [1 .. Depth -> BOOLEAN],
             \E g \in Header : v = ExpectedReceipt(g, w.leaf)
      PROVE  AssignmentTyped'
  BY <1>3 DEF Synthesize, Present, AssignmentTyped, Known, ExpectedReceipt
<1>4. CASE MerkleStep
  <2>1. CASE HashLayer
    BY <1>1, <1>4, <2>1 DEF HashLayer, MerkleStep
  <2>2. ASSUME NEW i, BeginProof(i) PROVE AssignmentTyped'
    BY <1>1, <1>4, <2>2 DEF BeginProof, MerkleStep
  <2>3. CASE ClimbProof
    BY <1>1, <1>4, <2>3 DEF ClimbProof, MerkleStep
  <2>4. CASE VerifyLevel \/ EnforceRoot
    BY <1>2, <1>4, <2>4 DEF VerifyLevel, EnforceRoot, MerkleStep
  <2> QED BY <1>4, <2>1, <2>2, <2>3, <2>4 DEF MerkleStep
<1>5. ASSUME NEW i, NEW h, Issue(i, h) PROVE AssignmentTyped'
  BY <1>1, <1>5 DEF Issue, merkleVars
<1>6. CASE ProveStep
  <2> DEFINE w == [leaf |-> receipt.issuer, path |-> proof.path, indices |-> proof.indices]
  <2>1. /\ Synthesize(receipt.header, receipt.value, w)
        /\ proof # NoProof /\ receipt # NoReceipt /\ phase = "ready"
    BY <1>6 DEF ProveStep, Synthesize, Present
  <2>2. PICK h \in Header, k \in Key, n \in 0 .. epoch :
           receipt = [header |-> h, issuer |-> k, epoch |-> n, value |-> ExpectedReceipt(h, k)]
    BY <2>1 DEF ReceiptTyped
  <2>3. receipt.header = h /\ receipt.issuer = k /\ receipt.value = ExpectedReceipt(h, k)
    BY <2>2
  <2>4. proof.indices \in Seq(BOOLEAN) /\ Len(proof.indices) = Depth
    BY <2>1 DEF MerkleInv, ProofOK, ProofRecord
  <2>5. proof.indices \in [1 .. Depth -> BOOLEAN]
    BY <2>4
  <2>6. IsSeq(proof.path) /\ Len(proof.path) = Len(proof.indices)
    BY <2>1 DEF DrawnOK, DrawnFrom
  <2>7. DOMAIN proof.path = 1 .. Depth
    BY <2>4, <2>6, SeqDomain
  <2>8. w.leaf = k /\ w.path = proof.path /\ w.indices = proof.indices /\ k \in Known
    BY <2>3 DEF Known
  <2> HIDE DEF w
  <2> QED BY <1>3, <2>1, <2>3, <2>5, <2>7, <2>8
<1>7. CASE AssignAny
  <2>1. PICK g \in Header, h \in Header, w \in Witness : Synthesize(h, ExpectedReceipt(g, w.leaf), w)
    BY <1>7 DEF AssignAny
  <2>2. w.leaf \in Known /\ DOMAIN w.path = 1 .. Depth /\ w.indices \in [1 .. Depth -> BOOLEAN]
    BY DEF Witness
  <2> QED BY <1>3, <2>1, <2>2
<1>8. CASE Discard
  BY <1>8 DEF Discard, Finish, AssignmentTyped
<1>9. CASE NextEpoch
  BY <1>1, <1>9 DEF NextEpoch, Rebuild
<1>10. CASE UNCHANGED vars
  BY <1>1, <1>2, <1>10 DEF vars, merkleVars
<1> QED BY <1>4, <1>5, <1>6, <1>7, <1>8, <1>9, <1>10 DEF Next

\* Type correctness: a proof stays one of a leaf of the tree that it was drawn
\* from, layers and paths end at the depth, receipts name packets and keys, and
\* the gadget is never called with more or fewer levels than it asserts.
THEOREM RelayTyped == Spec => []TypeOK
<1> DEFINE Inv == MerkleInv /\ ShapeOK /\ DrawnOK /\ ReceiptTyped /\ AssignmentTyped
<1>1. Init => Inv
  <2> SUFFICES ASSUME Init PROVE Inv
    OBVIOUS
  <2>1. ReceiptTyped /\ AssignmentTyped
    BY DEF Init, MerkleInit, ReceiptTyped, AssignmentTyped
  <2>2. MerkleInit
    BY DEF Init
  <2> QED BY <2>1, <2>2, MerkleInitial, ShapeInitial
<1>2. Inv /\ [Next]_vars => Inv'
  BY RelayStepPreserves, ShapePreserved, DrawnPreserved, ReceiptPreserved, AssignmentPreserved
<1>3. Inv => TypeOK
  <2> SUFFICES ASSUME Inv PROVE TypeOK
    OBVIOUS
  <2>1. ASSUME proof # NoProof
        PROVE  /\ \E list \in LeafLists :
                     /\ proof.index \in 0 .. Len(list) - 1
                     /\ proof.leaf = list[proof.index + 1]
                     /\ proof.tree[1] = Resized(list)
               /\ Len(proof.path) \in 0 .. Depth /\ Len(proof.indices) = Len(proof.path)
    BY <2>1 DEF DrawnOK, DrawnFrom, MerkleInv, ProofOK, ProofRecord
  <2>2. MerkleTypeOK
    BY <2>1 DEF MerkleTypeOK, ShapeOK, MerkleInv, TreeOK
  <2>3. epoch \in 0 .. MaxEpoch
    BY DEF ShapeOK
  <2> QED BY <2>2, <2>3 DEF TypeOK
<1> QED BY <1>1, <1>2, <1>3, PTL DEF Spec

-----------------------------------------------------------------------------
\* The verdict on a proof that its prover holds.

\* What is assigned once a proof and a receipt are held comes from them.
OwnInv ==
    /\ receipt # NoReceipt =>
          receipt.value = ExpectedReceipt(receipt.header, receipt.issuer)
    /\ phase \in {"verify", "accepted", "rejected"} /\ proof # NoProof /\ receipt # NoReceipt =>
          /\ witness = [leaf |-> receipt.issuer, path |-> proof.path, indices |-> proof.indices]
          /\ receipt_value = ExpectedReceipt(header, receipt.issuer)

LEMMA OwnPreserved == OwnInv /\ [Next]_vars => OwnInv'
<1> SUFFICES ASSUME OwnInv, [Next]_vars PROVE OwnInv'
  OBVIOUS
<1>1. ASSUME receipt' = receipt, phase' \notin {"verify", "accepted", "rejected"}
      PROVE  OwnInv'
  BY <1>1 DEF OwnInv
<1>2. ASSUME UNCHANGED <<receipt, proof, witness, header, receipt_value>>,
             phase \in {"verify", "accepted", "rejected"} \/ phase' = phase
      PROVE  OwnInv'
  BY <1>2 DEF OwnInv
<1>3. CASE MerkleStep
  <2>1. CASE HashLayer
    BY <1>1, <1>3, <2>1 DEF HashLayer, MerkleStep
  <2>2. ASSUME NEW i, BeginProof(i) PROVE OwnInv'
    BY <1>1, <1>3, <2>2 DEF BeginProof, MerkleStep
  <2>3. CASE ClimbProof
    BY <1>1, <1>3, <2>3 DEF ClimbProof, MerkleStep
  <2>4. CASE VerifyLevel \/ EnforceRoot
    BY <1>2, <1>3, <2>4 DEF VerifyLevel, EnforceRoot, MerkleStep
  <2> QED BY <1>3, <2>1, <2>2, <2>3, <2>4 DEF MerkleStep
<1>4. ASSUME NEW i, NEW h, Issue(i, h) PROVE OwnInv'
  BY <1>4 DEF Issue, merkleVars, OwnInv
<1>5. CASE ProveStep
  BY <1>5 DEF ProveStep, Synthesize, Present, OwnInv
<1>6. CASE AssignAny
  BY <1>6 DEF AssignAny, Synthesize, Present, OwnInv
<1>7. CASE Discard
  BY <1>1, <1>7 DEF Discard, Finish
<1>8. CASE NextEpoch
  BY <1>1, <1>8 DEF NextEpoch, Rebuild
<1>9. CASE UNCHANGED vars
  BY <1>2, <1>9 DEF vars, merkleVars
<1> QED BY <1>3, <1>4, <1>5, <1>6, <1>7, <1>8, <1>9 DEF Next

\* What is known of a decided step of a prover that holds a proof and a receipt.
LEMMA OwnDecided ==
    ASSUME MerkleInv, ShapeOK, DrawnOK, OwnInv, OwnStep
    PROVE  /\ IsTree(layers) /\ IsTree(proof.tree)
           /\ Len(proof.indices) = Depth /\ Depth \in Nat
           /\ witness.leaf = receipt.issuer
           /\ witness.path = proof.path /\ witness.indices = proof.indices
           /\ Satisfied <=> IsPath(witness)
           /\ layers[1] = Resized(leaves) /\ leaves \in Seq(Key)
           /\ \E list \in LeafLists : proof.tree[1] = Resized(list)
           /\ proof.index \in Nat
<1>1. phase \in {"accepted", "rejected"} /\ proof # NoProof /\ receipt # NoReceipt
  BY DEF OwnStep, Decided
<1>2. IsTree(layers)
  BY <1>1, LayersAreTree DEF MerkleInv
<1>3. DrawnFrom(proof) /\ ProofRecord
  BY <1>1 DEF DrawnOK, MerkleInv, ProofOK
<1>4. Len(proof.indices) = Depth /\ Depth \in Nat
  BY <1>1, <1>3, MerkleAssumption DEF ProofRecord
<1>5. /\ witness = [leaf |-> receipt.issuer, path |-> proof.path, indices |-> proof.indices]
      /\ receipt_value = ExpectedReceipt(header, receipt.issuer)
  BY <1>1 DEF OwnInv
<1>6. Satisfied <=> phase = "accepted"
  BY <1>5 DEF Satisfied, ReceiptHolds
<1>7. phase = "accepted" <=> IsPath(witness)
  BY <1>1 DEF MerkleInv, AcceptsExactlyPaths
<1>8. proof.index \in Nat
  BY <1>3 DEF DrawnFrom
<1> QED BY <1>2, <1>3, <1>4, <1>5, <1>6, <1>7, <1>8, MerkleAssumption DEF DrawnFrom, ShapeOK

\* The leaves that fit are those that agree but for the place of the proof.
LEMMA FitsAgrees ==
    ASSUME NEW list, layers[1] = Resized(leaves), proof.tree[1] = Resized(list),
           proof.index \in Nat, NEW pos, pos[0] = proof.index
    PROVE  Fits <=> /\ proof.index < Width[0]
                    /\ layers[1][proof.index] = receipt.issuer
                    /\ AgreeAt(layers, proof.tree, pos, 0)
<1> DEFINE new == layers[1]
           old == proof.tree[1]
           i == proof.index
           n == Width[0]
           x == receipt.issuer
<1>1. new = [j \in 0 .. n - 1 |-> new[j]] /\ old = [j \in 0 .. n - 1 |-> old[j]] /\ n \in Nat
  BY MerkleAssumption DEF Resized
<1>2. i \in Nat /\ i = pos[0]
  OBVIOUS
<1>3. AgreeAt(layers, proof.tree, pos, 0) <=> \A j \in 0 .. n - 1 : j # i => new[j] = old[j]
  BY <1>2 DEF AgreeAt
<1> HIDE DEF new, old, i, n, x
<1>4. i < n =>
         (new = [old EXCEPT ![i] = x] <=>
             new[i] = x /\ \A j \in 0 .. n - 1 : j # i => new[j] = old[j])
  <2> SUFFICES ASSUME i < n
               PROVE  new = [old EXCEPT ![i] = x] <=>
                         new[i] = x /\ \A j \in 0 .. n - 1 : j # i => new[j] = old[j]
    OBVIOUS
  <2>1. i \in 0 .. n - 1
    BY <1>1, <1>2
  <2>2. [old EXCEPT ![i] = x] = [j \in 0 .. n - 1 |-> IF j = i THEN x ELSE old[j]]
    BY <1>1, <2>1
  <2> QED BY <1>1, <2>1, <2>2
<1> QED BY <1>3, <1>4 DEF Fits, new, old, i, n, x

\* The places of a walk that begins in the tree are a way up it.
LEMMA WalkIsWay ==
    ASSUME NEW p, NEW pos, Walk(p, pos), Len(p.indices) = Depth, p.index < Width[0]
    PROVE  /\ IsWay(pos)
           /\ \A k \in 0 .. Depth - 1 : Side(p.tree, k, Sibling(pos[k])) = p.tree[k + 1][Sibling(pos[k])]
<1>1. IsWay(pos)
  BY DEF IsWay, Walk
<1>2. ASSUME NEW k \in 0 .. Depth - 1
      PROVE  Side(p.tree, k, Sibling(pos[k])) = p.tree[k + 1][Sibling(pos[k])]
  <2>1. k \in 0 .. Depth /\ Width[k] \in Nat
    BY Halves
  <2>2. pos[k] \in 0 .. Width[k] - 1
    <3>1. pos[k] \in Nat /\ pos[k] < Width[k]
      BY <1>1, <2>1 DEF IsWay
    <3> QED BY <2>1, <3>1
  <2>3. Sibling(pos[k]) \in 0 .. Width[k] - 1
    BY <2>2, Halves
  <2> QED BY <2>1, <2>3 DEF Side
<1> QED BY <1>1, <1>2

LEMMA WayIsClimb ==
    ASSUME NEW pos PROVE pos \in Climbs <=> IsWay(pos)
<1>1. /\ Depth \in Nat /\ Width[0] \in Nat
      /\ \A k \in 0 .. Depth : Width[k] \in Nat /\ Width[k] <= Width[0]
  BY MerkleAssumption
<1>2. ASSUME IsWay(pos) PROVE pos \in Climbs
  <2>1. ASSUME NEW k \in 0 .. Depth PROVE pos[k] \in 0 .. Width[0] - 1
    <3>1. pos[k] \in Nat /\ pos[k] < Width[k]
      BY <1>2 DEF IsWay
    <3>2. Width[k] \in Nat /\ Width[0] \in Nat /\ Width[k] <= Width[0]
      BY <1>1
    <3> QED BY ONLY <3>1, <3>2
  <2> QED BY <1>2, <2>1 DEF IsWay, Climbs
<1>3. ASSUME pos \in Climbs PROVE IsWay(pos)
  <2>1. pos \in [0 .. Depth -> Nat]
    BY <1>1, <1>3 DEF Climbs
  <2> QED BY <1>3, <2>1 DEF IsWay, Climbs
<1> QED BY <1>2, <1>3

LEMMA FittingSatisfies ==
    ASSUME MerkleInv, ShapeOK, DrawnOK, OwnInv, OwnStep, Fits
    PROVE  Satisfied
<1>1. PICK pos : Walk(proof, pos)
  BY DEF OwnStep, DrawnOK, DrawnFrom
<1>2. pos[0] = proof.index
  BY <1>1 DEF Walk
<1>3. /\ proof.index < Width[0] /\ layers[1][proof.index] = receipt.issuer
      /\ AgreeAt(layers, proof.tree, pos, 0)
  BY <1>2, OwnDecided, FitsAgrees
<1>4. /\ IsWay(pos)
      /\ \A k \in 0 .. Depth - 1 :
            Side(proof.tree, k, Sibling(pos[k])) = proof.tree[k + 1][Sibling(pos[k])]
  BY <1>1, <1>3, OwnDecided, WalkIsWay
<1>5. \A k \in 0 .. Depth - 1 :
         layers[k + 1][Sibling(pos[k])] = proof.tree[k + 1][Sibling(pos[k])]
  BY <1>3, <1>4, OwnDecided, LeavesGiveSides
<1>6. \A k \in 0 .. Depth - 1 :
         /\ proof.indices[k + 1] = IsRight(pos[k])
         /\ proof.path[k + 1] = Side(proof.tree, k, Sibling(pos[k]))
  BY <1>1, OwnDecided DEF Walk
<1>7. pos \in Climbs
  BY <1>4, WayIsClimb
<1>8. IsPath(witness)
  BY <1>2, <1>3, <1>4, <1>5, <1>6, <1>7, OwnDecided DEF IsPath
<1> QED BY <1>8, OwnDecided

LEMMA SatisfiedFits ==
    ASSUME MerkleInv, ShapeOK, DrawnOK, OwnInv, OwnStep, Satisfied, Depth > 1
    PROVE  Fits
<1>1. PICK pos : Walk(proof, pos)
  BY DEF OwnStep, DrawnOK, DrawnFrom
<1>2. /\ pos[0] = proof.index
      /\ \A k \in 0 .. Depth - 1 :
            /\ proof.indices[k + 1] = IsRight(pos[k])
            /\ proof.path[k + 1] = Side(proof.tree, k, Sibling(pos[k]))
      /\ \A k \in 0 .. Depth : pos[k] \in Nat /\ (pos[k] < Width[k] <=> proof.index < Width[0])
  BY <1>1, OwnDecided DEF Walk
<1>3. PICK way \in Climbs :
         /\ receipt.issuer = layers[1][way[0]]
         /\ \A k \in 0 .. Depth - 1 :
               /\ proof.indices[k + 1] = IsRight(way[k])
               /\ proof.path[k + 1] = layers[k + 1][Sibling(way[k])]
  BY OwnDecided DEF IsPath
<1>4. IsWay(way)
  BY <1>3, WayIsClimb
<1>5. proof.index < Width[0]
  <2> SUFFICES ASSUME ~(proof.index < Width[0]) PROVE FALSE
    OBVIOUS
  <2>1. 1 \in 0 .. Depth - 1 /\ 0 \in 0 .. Depth - 1 /\ 1 \in 0 .. Depth
    BY OwnDecided
  <2>2. Width[1] \in Nat /\ Width[1] = 2 * Width[2] /\ Width[2] \in Nat
    BY <2>1, Halves
  <2>3. pos[1] \in Nat /\ ~(pos[1] < Width[1])
    BY <1>2, <2>1
  <2>4. ~(Sibling(pos[1]) < Width[1])
    BY <2>2, <2>3 DEF Sibling, IsRight
  <2>5. proof.path[2] = Zero
    BY <1>2, <2>1, <2>4 DEF Side
  <2> DEFINE j == Sibling(way[1])
  <2>6. j \in 0 .. Width[1] - 1
    <3>1. way[1] \in Nat /\ way[1] < Width[1]
      BY <1>4, <2>1 DEF IsWay
    <3>2. way[1] \in 0 .. Width[1] - 1
      BY <2>2, <3>1
    <3> QED BY <2>1, <3>2, Halves
  <2>7. layers[2][j] = Hash(layers[1][2 * j], layers[1][2 * j + 1])
    <3> HIDE DEF j
    <3>1. IsTree(layers)
      BY OwnDecided
    <3> QED BY <2>1, <2>6, <3>1 DEF IsTree
  <2>8. 2 * j \in 0 .. Width[0] - 1 /\ 2 * j + 1 \in 0 .. Width[0] - 1
    <3> HIDE DEF j
    <3> QED BY <2>1, <2>6, Halves
  <2> HIDE DEF j
  <2>9. ASSUME NEW i \in 0 .. Width[0] - 1 PROVE layers[1][i] \in Key \cup {Zero}
    <3>1. layers[1] = Resized(leaves) /\ leaves \in Seq(Key)
      BY OwnDecided
    <3>2. Width[0] \in Nat
      BY MerkleAssumption
    <3>3. CASE i < Len(leaves)
      <4>1. i + 1 \in 1 .. Len(leaves)
        BY <3>1, <3>2, <3>3
      <4>2. layers[1][i] = leaves[i + 1]
        BY <3>1, <3>3 DEF Resized
      <4> QED BY <3>1, <4>1, <4>2
    <3>4. CASE ~(i < Len(leaves))
      BY <3>1, <3>4 DEF Resized
    <3> QED BY <3>3, <3>4
  <2>10. layers[2][j] # Zero
    BY <2>7, <2>8, <2>9, HashAssumption
  <2>11. proof.path[2] = layers[2][j]
    BY <1>3, <2>1 DEF j
  <2> QED BY <2>5, <2>10, <2>11
<1>6. /\ IsWay(pos)
      /\ \A k \in 0 .. Depth - 1 :
            Side(proof.tree, k, Sibling(pos[k])) = proof.tree[k + 1][Sibling(pos[k])]
  BY <1>1, <1>5, OwnDecided, WalkIsWay
<1>7. \A k \in 0 .. Depth : pos[k] = way[k]
  BY <1>2, <1>3, <1>4, <1>6, OneWay
<1>8. ASSUME NEW k \in 0 .. Depth - 1
      PROVE  layers[k + 1][Sibling(pos[k])] = proof.tree[k + 1][Sibling(pos[k])]
  <2>1. pos[k] = way[k]
    BY <1>7, Halves
  <2> QED BY <1>2, <1>3, <1>6, <2>1
<1>9. AgreeAt(layers, proof.tree, pos, 0)
  BY <1>6, <1>8, OwnDecided, SidesGiveLeaves
<1>10. layers[1][proof.index] = receipt.issuer
  <2>1. 0 \in 0 .. Depth
    BY OwnDecided
  <2> QED BY <1>2, <1>3, <1>7, <2>1
<1> QED BY <1>2, <1>5, <1>9, <1>10, OwnDecided, FitsAgrees

\* The prover's side: a proof that fits the tree of the public root is accepted,
\* with a receipt of this epoch (one of an earlier epoch passes as well, which is
\* what the run of ReceiptOfThisEpoch shows).
THEOREM HonestSatisfies == Spec => []HonestStepSatisfies
<1> DEFINE Inv == MerkleInv /\ ShapeOK /\ DrawnOK /\ OwnInv
<1>1. Init => Inv
  BY MerkleInitial, ShapeInitial DEF Init, OwnInv, MerkleInit
<1>2. Inv /\ [Next]_vars => Inv'
  BY RelayStepPreserves, ShapePreserved, DrawnPreserved, OwnPreserved
<1>3. Inv => HonestStepSatisfies
  BY FittingSatisfies DEF HonestStepSatisfies
<1> QED BY <1>1, <1>2, <1>3, PTL DEF Spec

\* The verifier's side: a proof is accepted only if it fits, in a tree of at
\* least two levels.  (In a tree of one level a leaf that was cut off has the
\* path of a first leaf.)
THEOREM StaleRefused == ASSUME Depth > 1 PROVE Spec => []StaleProofRefused
<1> DEFINE Inv == MerkleInv /\ ShapeOK /\ DrawnOK /\ OwnInv
<1>1. Init => Inv
  BY MerkleInitial, ShapeInitial DEF Init, OwnInv, MerkleInit
<1>2. Inv /\ [Next]_vars => Inv'
  BY RelayStepPreserves, ShapePreserved, DrawnPreserved, OwnPreserved
<1>3. Inv => StaleProofRefused
  BY SatisfiedFits DEF StaleProofRefused
<1> QED BY <1>1, <1>2, <1>3, PTL DEF Spec
=============================================================================
