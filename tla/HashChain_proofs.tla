--------------------------- MODULE HashChain_proofs ---------------------------
(***************************************************************************)
(* What the operations of HashChain preserve and what verify_chain tells,  *)
(* for chains over any set of data: the lemmas the theorems about the      *)
(* chain's users rest on, and two theorems about the chain itself.         *)
(*                                                                         *)
(* Properties of all blocks of a chain of any length need an induction on  *)
(* the position; it is done here with least counterexamples (LeastNatural).*)
(***************************************************************************)
EXTENDS HashChain, WellFoundedInduction, SequenceTheorems, TLAPS

\* Every block after the genesis block passes the tests of verify_chain.
Intact(chain) == \A i \in 2 .. Len(chain) : BlockVerifies(chain, i)

-----------------------------------------------------------------------------
\* A set of natural numbers that is not empty has a least element.
LEMMA LeastNatural ==
    ASSUME NEW T, T \subseteq Nat, T # {}
    PROVE  \E m \in T : \A k \in T : m <= k
<1>1. \E m \in T : \A k \in T : ~(<<k, m>> \in OpToRel(<, Nat))
  BY WFMin, NatLessThanWellFounded, Zenon
<1>2. \A k, m \in Nat : ~(<<k, m>> \in OpToRel(<, Nat)) => ~(k < m)
  BY Zenon DEF OpToRel
<1>3. \E m \in T : \A k \in T : ~(k < m)
  BY <1>1, <1>2, Zenon
<1> QED
  BY <1>3

-----------------------------------------------------------------------------
\* A sealed block is a block with the content and the hash it was given.
LEMMA SealedType ==
    ASSUME NEW Data, NEW index \in Nat, NEW data \in Data,
           NEW previous_hash \in Digests(Data)
    PROVE  /\ Sealed(index, data, previous_hash) \in Blocks(Data)
           /\ Sealed(index, data, previous_hash).index = index
           /\ Sealed(index, data, previous_hash).data = data
           /\ Sealed(index, data, previous_hash).previous_hash = previous_hash
           /\ Sealed(index, data, previous_hash).hash =
                create_hash(index, data, previous_hash)
  BY DEF Sealed, create_hash, Blocks, Digests

\* A block is determined by its fields.
LEMMA SameBlock ==
    ASSUME NEW Data, NEW a \in Blocks(Data), NEW b \in Blocks(Data),
           a.index = b.index, a.data = b.data,
           a.previous_hash = b.previous_hash, a.hash = b.hash
    PROVE  a = b
  BY DEF Blocks

\* The chain __init__ leaves has one block and is intact.
LEMMA NewChainType ==
    ASSUME NEW Data, NEW data \in Data
    PROVE  /\ NewChain(data) \in Seq(Blocks(Data))
           /\ Len(NewChain(data)) = 1
           /\ NewChain(data)[1].hash = << [index |-> 0, data |-> data] >>
           /\ Intact(NewChain(data))
<1>1. ZeroHash \in Digests(Data)
  BY DEF ZeroHash, Digests
<1>2. genesis_block(data) \in Blocks(Data)
  BY <1>1, SealedType DEF genesis_block
<1>3. genesis_block(data).hash = << [index |-> 0, data |-> data] >>
  BY DEF genesis_block, Sealed, create_hash, ZeroHash
<1> QED
  BY <1>2, <1>3 DEF NewChain, Intact

\* The block add_block appends is a block, carries the entry, links to the
\* last block, and its hash extends the last block's hash by one.
LEMMA NextBlockType ==
    ASSUME NEW Data, NEW chain \in Seq(Blocks(Data)), Len(chain) >= 1,
           NEW entry \in Data
    PROVE  /\ NextBlock(chain, entry) \in Blocks(Data)
           /\ NextBlock(chain, entry).index = Len(chain)
           /\ NextBlock(chain, entry).data = entry
           /\ NextBlock(chain, entry).previous_hash = chain[Len(chain)].hash
           /\ NextBlock(chain, entry).hash =
                create_hash(Len(chain), entry, chain[Len(chain)].hash)
<1>1. /\ Len(chain) \in Nat
      /\ chain[Len(chain)] \in Blocks(Data)
  OBVIOUS
<1>2. chain[Len(chain)].hash \in Digests(Data)
  BY <1>1 DEF Blocks
<1> QED
  BY <1>1, <1>2, SealedType DEF NextBlock

\* add_block leaves the blocks it found where they were and adds one.
LEMMA AddBlockType ==
    ASSUME NEW Data, NEW chain \in Seq(Blocks(Data)), Len(chain) >= 1,
           NEW entry \in Data
    PROVE  /\ add_block(chain, entry) \in Seq(Blocks(Data))
           /\ Len(add_block(chain, entry)) = Len(chain) + 1
           /\ \A i \in 1 .. Len(chain) : add_block(chain, entry)[i] = chain[i]
           /\ add_block(chain, entry)[Len(chain) + 1] = NextBlock(chain, entry)
<1> DEFINE block == NextBlock(chain, entry)
<1>1. block \in Blocks(Data)
  BY NextBlockType
<1> HIDE DEF block
<1>2. /\ Append(chain, block) \in Seq(Blocks(Data))
      /\ Len(Append(chain, block)) = Len(chain) + 1
      /\ \A i \in 1 .. Len(chain) : Append(chain, block)[i] = chain[i]
      /\ Append(chain, block)[Len(chain) + 1] = block
  BY <1>1
<1> QED
  BY <1>2 DEF add_block, block

\* add_block never turns an intact chain into one that does not verify.
LEMMA AddBlockIntact ==
    ASSUME NEW Data, NEW chain \in Seq(Blocks(Data)), Len(chain) >= 1,
           NEW entry \in Data, Intact(chain)
    PROVE  Intact(add_block(chain, entry))
<1> DEFINE after == add_block(chain, entry)
<1> SUFFICES ASSUME NEW i \in 2 .. Len(after)
             PROVE  BlockVerifies(after, i)
  BY DEF Intact
<1>1. /\ Len(chain) \in Nat
      /\ Len(after) = Len(chain) + 1
      /\ \A j \in 1 .. Len(chain) : after[j] = chain[j]
      /\ after[Len(chain) + 1] = NextBlock(chain, entry)
  BY AddBlockType
<1> HIDE DEF after
<1>2. CASE i \in 2 .. Len(chain)
  <2>1. after[i] = chain[i] /\ after[i - 1] = chain[i - 1]
    BY <1>1, <1>2
  <2>2. BlockVerifies(chain, i)
    BY <1>2 DEF Intact
  <2> QED
    BY <2>1, <2>2 DEF BlockVerifies
<1>3. CASE i = Len(chain) + 1
  <2>1. after[i] = NextBlock(chain, entry) /\ after[i - 1] = chain[Len(chain)]
    BY <1>1, <1>3
  <2>2. /\ NextBlock(chain, entry).previous_hash = chain[Len(chain)].hash
        /\ NextBlock(chain, entry).hash =
             create_hash(NextBlock(chain, entry).index,
                         NextBlock(chain, entry).data,
                         NextBlock(chain, entry).previous_hash)
    BY NextBlockType
  <2> QED
    BY <2>1, <2>2 DEF BlockVerifies
<1> QED
  BY <1>1, <1>2, <1>3

-----------------------------------------------------------------------------
\* verify_chain reports a chain valid exactly when every block after the
\* genesis block passes both tests: the loop that stops at the first failure
\* and compares two counts neither misses a bad block nor blames a good one.
THEOREM VerifyChainExact ==
    ASSUME NEW Data, NEW chain \in Seq(Blocks(Data)), Len(chain) >= 1
    PROVE  verify_chain(chain).valid <=> Intact(chain)
<1> DEFINE Stop(n) == /\ \A i \in 2 .. n + 1 : BlockVerifies(chain, i)
                      /\ n + 1 < Len(chain) => ~BlockVerifies(chain, n + 2)
           last == Len(chain) - 1
<1>1. Len(chain) \in Nat /\ last \in 0 .. last
  OBVIOUS
<1>2. \E n \in 0 .. last : Stop(n)
  <2> DEFINE Bad == {n \in 0 .. last - 1 : ~BlockVerifies(chain, n + 2)}
  <2>1. CASE Bad = {}
    <3>1. \A i \in 2 .. last + 1 : i - 2 \in 0 .. last - 1 /\ (i - 2) + 2 = i
      BY <1>1
    <3>2. \A i \in 2 .. last + 1 : BlockVerifies(chain, i)
      BY <2>1, <3>1
    <3>3. last + 1 = Len(chain)
      BY <1>1
    <3>4. Stop(last)
      BY <3>2, <3>3
    <3> HIDE DEF Stop, last
    <3> QED
      BY <1>1, <3>4
  <2>2. CASE Bad # {}
    <3>1. PICK m \in Bad : \A k \in Bad : m <= k
      <4>1. Bad \subseteq Nat
        BY <1>1
      <4> HIDE DEF Bad
      <4> QED
        BY <2>2, <4>1, LeastNatural
    <3>2. ASSUME NEW i \in 2 .. m + 1
          PROVE  BlockVerifies(chain, i)
      <4>1. i - 2 \in 0 .. last - 1 /\ (i - 2) + 2 = i /\ ~(m <= i - 2)
        BY <1>1, <3>1
      <4> QED
        BY <3>1, <4>1
    <3> QED
      BY <1>1, <3>1, <3>2
  <2> QED
    BY <2>1, <2>2
<1>3. verified_blocks(chain) \in 0 .. last /\ Stop(verified_blocks(chain))
  BY <1>2 DEF verified_blocks
<1>4. verify_chain(chain).valid <=> verified_blocks(chain) = last
  BY DEF verify_chain
<1>5. ASSUME Intact(chain)
      PROVE  verified_blocks(chain) = last
  <2>1. SUFFICES ASSUME verified_blocks(chain) # last
                 PROVE  FALSE
    OBVIOUS
  <2>2. verified_blocks(chain) + 2 \in 2 .. Len(chain)
    BY <1>1, <1>3, <2>1
  <2> QED
    BY <1>1, <1>3, <1>5, <2>1, <2>2 DEF Intact
<1>6. ASSUME verified_blocks(chain) = last
      PROVE  Intact(chain)
  BY <1>1, <1>3, <1>6 DEF Intact
<1> QED
  BY <1>4, <1>5, <1>6

\* The latest hash commits to everything verify_chain looks at: two chains
\* of the same length that verify and have the same last hash carry the same
\* data in the same order after the genesis block.  The genesis block's own
\* content is not covered, only its stored hash is.
THEOREM LatestHashCommits ==
    ASSUME NEW Data, NEW c \in Seq(Blocks(Data)), NEW d \in Seq(Blocks(Data)),
           Len(c) >= 1, Len(d) = Len(c),
           verify_chain(c).valid, verify_chain(d).valid,
           get_chain_stats(c).latest_hash = get_chain_stats(d).latest_hash
    PROVE  /\ \A i \in 1 .. Len(c) : c[i].hash = d[i].hash
           /\ \A i \in 2 .. Len(c) : c[i] = d[i]
<1>1. Intact(c) /\ Intact(d)
  BY VerifyChainExact
<1>2. Len(c) \in Nat /\ c[Len(c)].hash = d[Len(c)].hash
  BY DEF get_chain_stats
<1>3. ASSUME NEW i \in 2 .. Len(c), c[i].hash = d[i].hash
      PROVE  c[i] = d[i] /\ c[i - 1].hash = d[i - 1].hash
  <2>1. BlockVerifies(c, i) /\ BlockVerifies(d, i)
    BY <1>1 DEF Intact
  <2>2. c[i] \in Blocks(Data) /\ d[i] \in Blocks(Data)
    OBVIOUS
  <2> DEFINE Content == [index : Nat, data : Data]
             x == [index |-> c[i].index, data |-> c[i].data]
             y == [index |-> d[i].index, data |-> d[i].data]
  <2>3. /\ c[i].previous_hash \in Seq(Content)
        /\ d[i].previous_hash \in Seq(Content)
        /\ x \in Content
        /\ y \in Content
    BY <2>2 DEF Blocks, Digests
  <2>4. Append(c[i].previous_hash, x) = Append(d[i].previous_hash, y)
    BY <1>3, <2>1 DEF BlockVerifies, create_hash
  <2>5. c[i].previous_hash = d[i].previous_hash /\ x = y
    <3> HIDE DEF Content, x, y
    <3> QED
      BY <2>3, <2>4, AppendInjective
  <2>6. c[i].index = d[i].index /\ c[i].data = d[i].data
    BY <2>5
  <2>7. c[i] = d[i]
    BY <1>3, <2>2, <2>5, <2>6, SameBlock
  <2> QED
    BY <2>1, <2>7 DEF BlockVerifies
<1>4. \A i \in 1 .. Len(c) : c[i].hash = d[i].hash
  <2> DEFINE Far == {n \in 0 .. Len(c) - 1 :
                       c[Len(c) - n].hash # d[Len(c) - n].hash}
  <2>1. Far = {}
    <3> SUFFICES ASSUME Far # {}
                 PROVE  FALSE
      OBVIOUS
    <3>1. PICK m \in Far : \A k \in Far : m <= k
      <4>1. Far \subseteq Nat
        BY <1>2
      <4> HIDE DEF Far
      <4> QED
        BY <4>1, LeastNatural
    <3>2. m # 0 /\ m \in 1 .. Len(c) - 1
      BY <1>2, <3>1
    <3>3. c[Len(c) - (m - 1)].hash = d[Len(c) - (m - 1)].hash
      <4>1. m - 1 \in 0 .. Len(c) - 1 /\ ~(m <= m - 1)
        BY <1>2, <3>2
      <4>2. m - 1 \notin Far
        BY <3>1, <4>1
      <4> QED
        BY <4>1, <4>2
    <3>4. /\ Len(c) - (m - 1) \in 2 .. Len(c)
          /\ (Len(c) - (m - 1)) - 1 = Len(c) - m
      BY <1>2, <3>2
    <3> QED
      BY <1>3, <3>1, <3>3, <3>4
  <2>2. \A i \in 1 .. Len(c) :
          Len(c) - i \in 0 .. Len(c) - 1 /\ Len(c) - (Len(c) - i) = i
    BY <1>2
  <2> QED
    BY <2>1, <2>2
<1> QED
  BY <1>3, <1>4

=============================================================================
