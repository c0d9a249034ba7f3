-------------------------- MODULE ChainWriters_proofs --------------------------
(***************************************************************************)
(* Callers of add_block, for any number of callers and blocks: types, the  *)
(* chain of an event loop, where an edit is found, and that no entry is    *)
(* lost, neither by coroutines nor by threads.                             *)
(***************************************************************************)
EXTENDS ChainWriters, HashChain_proofs, FiniteSetTheorems

-----------------------------------------------------------------------------
(* The inductive invariant                                                 *)

Types == TypeOK /\ previous \in [Writers -> Nat] /\ Len(chain) >= 1

\* What caller w is adding, or adds next.
EntryOf(w) == [writer |-> w, number |-> written[w] + 1]

Hashed(b) == b.hash = create_hash(b.index, b.data, b.previous_hash)

\* A block that add_block built on blocks nobody edited.
Genuine(b) ==
    /\ Hashed(b)
    /\ b.data \in Entries
    /\ Len(b.previous_hash) >= 1 /\ b.previous_hash[1].data = Genesis

\* A call in progress is within the quota and has built a block of its entry.
CallsOK ==
    \A w \in Writers :
      /\ pc[w] # "idle" => written[w] < Quota
      /\ pc[w] = "built" => block[w].data = EntryOf(w)

\* Before an edit, everything is genuine.
Unedited ==
    edited = 0 =>
      /\ chain[1] = genesis_block(Genesis)
      /\ \A i \in 2 .. Len(chain) : Genuine(chain[i])
      /\ \A w \in Writers : pc[w] = "built" => Genuine(block[w])

\* An edited block no longer has the hash of its content.
EditShows == edited > 1 => ~Hashed(chain[edited])

\* On the loop one call runs at a time, on the chain as it is.
LoopOK ==
    onLoop =>
      /\ \A w, v \in Writers : pc[w] # "idle" /\ pc[v] # "idle" => w = v
      /\ \A w \in Writers : pc[w] = "read" => previous[w] = Len(chain)
      /\ \A w \in Writers : pc[w] = "built" => block[w] = NextBlock(chain, EntryOf(w))
      /\ edited = 0 \/ (edited = 1 /\ field # "hash") => Intact(chain)
      /\ edited > 1 => \A i \in 2 .. edited - 1 : BlockVerifies(chain, i)

Returned == {c \in Writers \X (1 .. Quota) : c[2] <= written[c[1]]}

EntriesOK ==
    /\ IsFiniteSet(Returned)
    /\ Len(chain) = 1 + Cardinality(Returned)
    /\ edited = 0 => \A w \in Writers : \A n \in 1 .. written[w] :
         \E i \in 2 .. Len(chain) : chain[i].data = [writer |-> w, number |-> n]

IInv == Types /\ CallsOK /\ Unedited /\ EditShows /\ LoopOK /\ EntriesOK

-----------------------------------------------------------------------------
(* Blocks                                                                  *)

LEMMA DataDiffer == Forged # Genesis /\ \A e \in Entries : e # Forged /\ e # Genesis
<1>1. Forged # Genesis
  BY DEF Forged, Genesis
<1>2. ASSUME NEW e \in Entries PROVE e # Forged /\ e # Genesis
  <2>1. DOMAIN e = {"writer", "number"}
    BY DEF Entries
  <2>2. DOMAIN Forged = {"genesis"} /\ DOMAIN Genesis = {"genesis"}
    BY DEF Forged, Genesis
  <2>3. "writer" \notin {"genesis"}
    OBVIOUS
  <2> QED
    BY <2>1, <2>2, <2>3
<1> QED
  BY <1>1, <1>2

LEMMA ForgedHash ==
  /\ create_hash(0, Forged, ZeroHash) \in Digests(ChainData)
  /\ Len(create_hash(0, Forged, ZeroHash)) = 1
  /\ create_hash(0, Forged, ZeroHash)[1].data = Forged
  BY DEF create_hash, ZeroHash, Digests, ChainData

\* No edit leaves a genuine block with the hash of its content.
LEMMA EditedHash ==
  ASSUME NEW b \in Blocks(ChainData), Genuine(b),
         NEW e \in {[b EXCEPT !.data = Forged],
                    [b EXCEPT !.previous_hash = create_hash(0, Forged, ZeroHash)],
                    [b EXCEPT !.hash = create_hash(0, Forged, ZeroHash)]}
  PROVE  ~Hashed(e)
<1> DEFINE forged == create_hash(0, Forged, ZeroHash)
<1>1. /\ b.index \in Nat /\ b.data \in ChainData /\ b.previous_hash \in Digests(ChainData)
      /\ b.hash = Append(b.previous_hash, [index |-> b.index, data |-> b.data])
      /\ Len(b.previous_hash) >= 1 /\ b.previous_hash[1].data = Genesis
      /\ b.data # Forged
  BY DataDiffer DEF Genuine, Hashed, create_hash, Blocks
<1>2. Len(b.previous_hash) \in Nat /\ b.previous_hash \in Seq([index : Nat, data : ChainData])
  BY <1>1 DEF Digests
<1>3. forged \in Seq([index : Nat, data : ChainData]) /\ Len(forged) = 1 /\ forged[1].data = Forged
  BY ForgedHash DEF Digests
<1> HIDE DEF forged
<1>4. ASSUME NEW p \in Seq([index : Nat, data : ChainData]), NEW d \in ChainData
      PROVE  LET x == [index |-> b.index, data |-> d] IN
             /\ Len(Append(p, x)) = Len(p) + 1
             /\ Append(p, x)[Len(p) + 1].data = d
             /\ \A i \in 1 .. Len(p) : Append(p, x)[i] = p[i]
  <2> DEFINE x == [index |-> b.index, data |-> d]
  <2>1. x \in [index : Nat, data : ChainData] /\ x.data = d
    BY <1>1
  <2> HIDE DEF x
  <2>2. /\ Len(Append(p, x)) = Len(p) + 1
        /\ Append(p, x)[Len(p) + 1] = x
        /\ \A i \in 1 .. Len(p) : Append(p, x)[i] = p[i]
    BY <2>1
  <2> QED
    BY <2>1, <2>2 DEF x
<1>5. CASE e = [b EXCEPT !.data = Forged]
  <2>1. /\ e.index = b.index /\ e.data = Forged /\ e.previous_hash = b.previous_hash
        /\ e.hash = b.hash
    BY <1>5 DEF Blocks
  <2>2. e.hash[Len(b.previous_hash) + 1].data = b.data
    BY <1>1, <1>2, <1>4, <2>1
  <2>3. create_hash(e.index, e.data, e.previous_hash)[Len(b.previous_hash) + 1].data = Forged
    BY <1>2, <1>4, <2>1 DEF create_hash, ChainData
  <2> QED
    BY <1>1, <2>2, <2>3 DEF Hashed
<1>6. CASE e = [b EXCEPT !.previous_hash = forged]
  <2>1. /\ e.index = b.index /\ e.data = b.data /\ e.previous_hash = forged
        /\ e.hash = b.hash
    BY <1>6 DEF Blocks
  <2>2. e.hash[1].data = Genesis
    BY <1>1, <1>2, <1>4, <2>1
  <2>3. create_hash(e.index, e.data, e.previous_hash)[1].data = Forged
    <3>1. create_hash(e.index, e.data, e.previous_hash)
            = Append(forged, [index |-> b.index, data |-> b.data])
      BY <2>1 DEF create_hash
    <3>2. 1 \in 1 .. Len(forged)
      BY <1>3
    <3>3. Append(forged, [index |-> b.index, data |-> b.data])[1] = forged[1]
      BY <1>1, <1>3, <1>4, <3>2
    <3> QED
      BY <1>3, <3>1, <3>3
  <2> QED
    BY <2>2, <2>3, DataDiffer DEF Hashed
<1>7. CASE e = [b EXCEPT !.hash = forged]
  <2>1. /\ e.index = b.index /\ e.data = b.data /\ e.previous_hash = b.previous_hash
        /\ e.hash = forged
    BY <1>7 DEF Blocks
  <2>2. Len(create_hash(e.index, e.data, e.previous_hash)) = Len(b.previous_hash) + 1
    BY <1>1, <1>2, <1>4, <2>1 DEF create_hash
  <2> QED
    BY <1>1, <1>2, <1>3, <2>1, <2>2 DEF Hashed
<1> QED
  BY <1>5, <1>6, <1>7 DEF forged

\* A block that add_block builds on a genuine one, or on the genesis block, is
\* genuine.
LEMMA NextGenuine ==
  ASSUME NEW b \in Blocks(ChainData), Genuine(b) \/ b = genesis_block(Genesis),
         NEW index \in Nat, NEW e \in Entries
  PROVE  Genuine(Sealed(index, e, b.hash))
<1>1. /\ b.hash \in Seq([index : Nat, data : ChainData])
      /\ Len(b.hash) >= 1 /\ b.hash[1].data = Genesis
  <2>1. CASE Genuine(b)
    BY <2>1 DEF Genuine, Hashed, create_hash, Blocks, Digests
  <2>2. CASE b = genesis_block(Genesis)
    <3>1. b.hash = <<[index |-> 0, data |-> Genesis]>>
      BY <2>2 DEF genesis_block, Sealed, create_hash, ZeroHash
    <3>2. b.hash \in Seq([index : Nat, data : ChainData])
      BY DEF Blocks, Digests
    <3>3. Len(b.hash) = 1 /\ b.hash[1] = [index |-> 0, data |-> Genesis]
      BY <3>1
    <3> QED
      BY <3>2, <3>3
  <2> QED
    BY <2>1, <2>2
<1>2. LET s == Sealed(index, e, b.hash) IN
      s.index = index /\ s.data = e /\ s.previous_hash = b.hash
      /\ s.hash = create_hash(index, e, b.hash)
  BY DEF Sealed
<1> QED
  BY <1>1, <1>2 DEF Genuine, Hashed

-----------------------------------------------------------------------------
(* What each step does                                                     *)

LEMMA TypesUsed ==
  ASSUME Types
  PROVE  /\ onLoop \in BOOLEAN
         /\ chain \in Seq(Blocks(ChainData)) /\ Len(chain) \in Nat /\ Len(chain) >= 1
         /\ DOMAIN chain = 1 .. Len(chain)
         /\ \A i \in 1 .. Len(chain) : chain[i] \in Blocks(ChainData)
         /\ pc \in [Writers -> {"idle", "read", "built"}]
         /\ previous \in [Writers -> Nat] /\ \A w \in Writers : previous[w] \in 1 .. Len(chain)
         /\ block \in [Writers -> Blocks(ChainData)]
         /\ written \in [Writers -> 0 .. Quota]
         /\ Quota \in Nat
         /\ edited \in 0 .. Len(chain)
         /\ field \in {"none", "data", "previous_hash", "hash"}
  BY WritersAssumption DEF Types, TypeOK

LEMMA EntryType ==
  ASSUME Types, NEW w \in Writers, written[w] < Quota
  PROVE  EntryOf(w) \in Entries /\ EntryOf(w) \in ChainData
  BY TypesUsed DEF EntryOf, Entries, ChainData

\* AppendBlock: the chain has one block more, the others are as they were.
LEMMA Appended ==
  ASSUME Types, NEW w \in Writers, AppendBlock(w)
  PROVE  /\ chain' \in Seq(Blocks(ChainData))
         /\ Len(chain') = Len(chain) + 1
         /\ \A i \in 1 .. Len(chain) : chain'[i] = chain[i]
         /\ chain'[Len(chain) + 1] = block[w]
<1>1. chain \in Seq(Blocks(ChainData)) /\ block[w] \in Blocks(ChainData)
  BY TypesUsed
<1>2. chain' = Append(chain, block[w])
  BY DEF AppendBlock
<1> QED
  BY <1>1, <1>2

\* EditBlock: one block is another one.
LEMMA BlockEdited ==
  ASSUME Types, NEW i \in 1 .. Len(chain), EditBlock(i)
  PROVE  \E e \in {[chain[i] EXCEPT !.data = Forged],
                   [chain[i] EXCEPT !.previous_hash = create_hash(0, Forged, ZeroHash)],
                   [chain[i] EXCEPT !.hash = create_hash(0, Forged, ZeroHash)]} :
           /\ e \in Blocks(ChainData)
           /\ chain' = [chain EXCEPT ![i] = e]
           /\ chain' \in Seq(Blocks(ChainData)) /\ Len(chain') = Len(chain)
           /\ chain'[i] = e
           /\ \A j \in 1 .. Len(chain) : j # i => chain'[j] = chain[j]
           /\ field' # "hash" => e.hash = chain[i].hash
<1>1. chain[i] \in Blocks(ChainData) /\ Forged \in ChainData
  BY TypesUsed DEF ChainData
<1>2. \E e \in {[chain[i] EXCEPT !.data = Forged],
                [chain[i] EXCEPT !.previous_hash = create_hash(0, Forged, ZeroHash)],
                [chain[i] EXCEPT !.hash = create_hash(0, Forged, ZeroHash)]} :
        /\ chain' = [chain EXCEPT ![i] = e]
        /\ field' # "hash" => e.hash = chain[i].hash
  <2>1. CASE chain' = [chain EXCEPT ![i].data = Forged]
    BY <1>1, <2>1 DEF Blocks
  <2>2. CASE chain' = [chain EXCEPT ![i].previous_hash = create_hash(0, Forged, ZeroHash)]
    BY <1>1, <2>2 DEF Blocks
  <2>3. CASE chain' = [chain EXCEPT ![i].hash = create_hash(0, Forged, ZeroHash)] /\ field' = "hash"
    BY <1>1, <2>3 DEF Blocks
  <2> QED
    BY <2>1, <2>2, <2>3 DEF EditBlock
<1>3. PICK e \in {[chain[i] EXCEPT !.data = Forged],
                 [chain[i] EXCEPT !.previous_hash = create_hash(0, Forged, ZeroHash)],
                 [chain[i] EXCEPT !.hash = create_hash(0, Forged, ZeroHash)]} :
        /\ chain' = [chain EXCEPT ![i] = e]
        /\ field' # "hash" => e.hash = chain[i].hash
  BY <1>2
<1>4. e \in Blocks(ChainData)
  <2>1. create_hash(0, Forged, ZeroHash) \in Digests(ChainData)
    BY ForgedHash
  <2> QED
    BY <1>1, <1>3, <2>1 DEF Blocks
<1>5. /\ chain' \in Seq(Blocks(ChainData)) /\ Len(chain') = Len(chain)
      /\ chain'[i] = e
      /\ \A j \in 1 .. Len(chain) : j # i => chain'[j] = chain[j]
  <2> HIDE DEF Blocks, ChainData
  <2>1. chain \in Seq(Blocks(ChainData))
    BY TypesUsed
  <2> QED
    BY <1>3, <1>4, <2>1
<1> QED
  BY <1>3, <1>4, <1>5

LEMMA InitInv == Init => IInv
<1> SUFFICES ASSUME Init PROVE IInv
  OBVIOUS
<1>1. /\ Genesis \in ChainData
      /\ chain = NewChain(Genesis)
      /\ chain \in Seq(Blocks(ChainData)) /\ Len(chain) = 1
      /\ Intact(chain)
      /\ chain[1] = genesis_block(Genesis)
  <2>1. Genesis \in ChainData /\ chain = NewChain(Genesis)
    BY DEF ChainData, Init
  <2> QED
    BY <2>1, NewChainType DEF NewChain
<1>2. genesis_block(Genesis) \in Blocks(ChainData)
  BY <1>1
<1>3. Types
  BY <1>1, <1>2, WritersAssumption DEF Types, TypeOK, Init
<1>4. Returned = {}
  BY WritersAssumption DEF Returned, Init
<1>5. EntriesOK
  <2>1. \A w \in Writers : 1 .. written[w] = {}
    BY DEF Init
  <2> QED
    BY <1>1, <1>4, <2>1, FS_EmptySet DEF EntriesOK
<1>6. 2 .. Len(chain) = {}
  BY <1>1
<1>7. CallsOK /\ Unedited /\ EditShows /\ LoopOK
  BY <1>1, <1>6 DEF CallsOK, Unedited, EditShows, LoopOK, Init
<1> QED
  BY <1>3, <1>5, <1>7 DEF IInv

LEMMA BuiltBlock ==
  ASSUME Types, CallsOK, NEW w \in Writers, BuildBlock(w)
  PROVE  /\ pc[w] = "read" /\ pc' = [pc EXCEPT ![w] = "built"]
         /\ block' = [block EXCEPT ![w] =
                        Sealed(Len(chain), EntryOf(w), chain[previous[w]].hash)]
         /\ EntryOf(w) \in Entries
         /\ block'[w] = Sealed(Len(chain), EntryOf(w), chain[previous[w]].hash)
         /\ block'[w] \in Blocks(ChainData) /\ block'[w].data = EntryOf(w)
         /\ UNCHANGED <<onLoop, chain, previous, written, edited, field>>
<1>1. /\ pc[w] = "read" /\ pc' = [pc EXCEPT ![w] = "built"]
      /\ block' = [block EXCEPT ![w] =
                     Sealed(Len(chain), EntryOf(w), chain[previous[w]].hash)]
      /\ UNCHANGED <<onLoop, chain, previous, written, edited, field>>
  BY DEF BuildBlock, EntryOf
<1>2. EntryOf(w) \in Entries /\ EntryOf(w) \in ChainData
  BY <1>1, EntryType DEF CallsOK
<1>3. chain[previous[w]].hash \in Digests(ChainData)
  BY TypesUsed DEF Blocks
<1>4. Len(chain) \in Nat
  BY TypesUsed
<1>5. /\ Sealed(Len(chain), EntryOf(w), chain[previous[w]].hash) \in Blocks(ChainData)
      /\ Sealed(Len(chain), EntryOf(w), chain[previous[w]].hash).data = EntryOf(w)
  BY <1>2, <1>3, <1>4, SealedType
<1>6. block'[w] = Sealed(Len(chain), EntryOf(w), chain[previous[w]].hash)
  BY <1>1, TypesUsed
<1> QED
  BY <1>1, <1>2, <1>5, <1>6

LEMMA StepTypes == ASSUME Types, CallsOK, [Next]_vars PROVE Types'
<1>1. CASE UNCHANGED vars
  BY <1>1 DEF vars, Types, TypeOK
<1>2. ASSUME NEW w \in Writers, ReadLast(w) PROVE Types'
  <2>1. /\ previous' = [previous EXCEPT ![w] = Len(chain)]
        /\ pc' = [pc EXCEPT ![w] = "read"]
        /\ UNCHANGED <<onLoop, chain, block, written, edited, field>>
    BY <1>2 DEF ReadLast
  <2>2. /\ previous' \in [Writers -> Nat] /\ \A v \in Writers : previous'[v] \in 1 .. Len(chain)
        /\ pc' \in [Writers -> {"idle", "read", "built"}]
    BY <2>1, TypesUsed
  <2> QED
    BY <2>1, <2>2 DEF Types, TypeOK
<1>3. ASSUME NEW w \in Writers, BuildBlock(w) PROVE Types'
  <2>1. block' \in [Writers -> Blocks(ChainData)]
    BY <1>3, BuiltBlock, TypesUsed
  <2>2. pc' \in [Writers -> {"idle", "read", "built"}]
    BY <1>3, BuiltBlock, TypesUsed
  <2> QED
    BY <1>3, <2>1, <2>2, BuiltBlock DEF Types, TypeOK
<1>4. ASSUME NEW w \in Writers, AppendBlock(w) PROVE Types'
  <2>1. /\ pc[w] = "built" /\ pc' = [pc EXCEPT ![w] = "idle"]
        /\ written' = [written EXCEPT ![w] = @ + 1]
        /\ UNCHANGED <<onLoop, previous, block, edited, field>>
    BY <1>4 DEF AppendBlock
  <2>2. /\ pc' \in [Writers -> {"idle", "read", "built"}]
        /\ written' \in [Writers -> 0 .. Quota]
    <3>1. written[w] \in 0 .. Quota /\ written[w] < Quota /\ Quota \in Nat
      BY <2>1, TypesUsed DEF CallsOK
    <3>2. written[w] + 1 \in 0 .. Quota
      BY <3>1
    <3> QED
      BY <2>1, <3>2, TypesUsed
  <2>3. /\ chain' \in Seq(Blocks(ChainData)) /\ Len(chain') = Len(chain) + 1
    BY <1>4, Appended
  <2>4. /\ \A v \in Writers : previous'[v] \in 1 .. Len(chain')
        /\ edited' \in 0 .. Len(chain') /\ Len(chain') >= 1
    BY <2>1, <2>3, TypesUsed
  <2> QED
    BY <2>1, <2>2, <2>3, <2>4 DEF Types, TypeOK
<1>5. ASSUME NEW i \in 1 .. Len(chain), EditBlock(i) PROVE Types'
  <2>1. /\ chain' \in Seq(Blocks(ChainData)) /\ Len(chain') = Len(chain)
    BY <1>5, BlockEdited
  <2>2. /\ field' \in {"data", "previous_hash", "hash"} /\ edited' = i
        /\ UNCHANGED <<onLoop, pc, previous, block, written>>
    BY <1>5 DEF EditBlock
  <2>3. edited' \in 0 .. Len(chain)
    BY <2>2
  <2> QED
    BY <2>1, <2>2, <2>3 DEF Types, TypeOK
<1> QED
  BY <1>1, <1>2, <1>3, <1>4, <1>5 DEF Next

LEMMA StepCalls == ASSUME Types, CallsOK, [Next]_vars PROVE CallsOK'
<1>1. CASE UNCHANGED vars
  BY <1>1 DEF vars, CallsOK, EntryOf
<1>2. ASSUME NEW w \in Writers, ReadLast(w) PROVE CallsOK'
  <2>1. /\ written[w] < Quota /\ pc'[w] = "read" /\ UNCHANGED <<block, written>>
        /\ \A v \in Writers : v # w => pc'[v] = pc[v]
    BY <1>2, TypesUsed DEF ReadLast
  <2> QED
    BY <2>1 DEF CallsOK, EntryOf
<1>3. ASSUME NEW w \in Writers, BuildBlock(w) PROVE CallsOK'
  <2>1. \A v \in Writers : v # w => pc'[v] = pc[v] /\ block'[v] = block[v]
    BY <1>3, BuiltBlock, TypesUsed
  <2>2. \A v \in Writers : EntryOf(v)' = EntryOf(v)
    BY <1>3, BuiltBlock DEF EntryOf
  <2>3. pc[w] = "read" /\ block'[w].data = EntryOf(w) /\ written' = written
    BY <1>3, BuiltBlock
  <2> QED
    BY <2>1, <2>2, <2>3 DEF CallsOK
<1>4. ASSUME NEW w \in Writers, AppendBlock(w) PROVE CallsOK'
  <2>1. /\ pc'[w] = "idle" /\ UNCHANGED block
        /\ \A v \in Writers : v # w => pc'[v] = pc[v] /\ written'[v] = written[v]
    BY <1>4, TypesUsed DEF AppendBlock
  <2> QED
    BY <2>1 DEF CallsOK, EntryOf
<1>5. ASSUME NEW i \in 1 .. Len(chain), EditBlock(i) PROVE CallsOK'
  BY <1>5 DEF EditBlock, CallsOK, EntryOf
<1> QED
  BY <1>1, <1>2, <1>3, <1>4, <1>5 DEF Next

LEMMA StepUnedited == ASSUME Types, CallsOK, Unedited, [Next]_vars PROVE Unedited'
<1>1. CASE UNCHANGED vars
  BY <1>1 DEF vars, Unedited
<1> SUFFICES ASSUME edited' = 0 PROVE Unedited'
  BY DEF Unedited
<1>2. ASSUME NEW w \in Writers, ReadLast(w) PROVE Unedited'
  <2>1. /\ UNCHANGED <<chain, block, edited>>
        /\ \A v \in Writers : pc'[v] = "built" => pc[v] = "built"
    BY <1>2, TypesUsed DEF ReadLast
  <2> QED
    BY <2>1 DEF Unedited
<1>3. ASSUME NEW w \in Writers, BuildBlock(w) PROVE Unedited'
  <2>1. /\ UNCHANGED <<chain, edited>>
        /\ \A v \in Writers : v # w => pc'[v] = pc[v] /\ block'[v] = block[v]
    BY <1>3, BuiltBlock, TypesUsed
  <2>2. Genuine(block'[w])
    <3> DEFINE b == chain[previous[w]]
    <3>1. b \in Blocks(ChainData) /\ Len(chain) \in Nat
      BY TypesUsed
    <3>2. Genuine(b) \/ b = genesis_block(Genesis)
      <4>1. previous[w] = 1 \/ previous[w] \in 2 .. Len(chain)
        BY TypesUsed
      <4> QED
        BY <2>1, <4>1 DEF Unedited
    <3> HIDE DEF b
    <3>3. Genuine(Sealed(Len(chain), EntryOf(w), b.hash))
      BY <1>3, <3>1, <3>2, BuiltBlock, NextGenuine
    <3> QED
      BY <1>3, <3>3, BuiltBlock DEF b
  <2> QED
    BY <2>1, <2>2 DEF Unedited
<1>4. ASSUME NEW w \in Writers, AppendBlock(w) PROVE Unedited'
  <2>1. /\ pc[w] = "built" /\ UNCHANGED <<block, edited>>
        /\ \A v \in Writers : pc'[v] = "built" => pc[v] = "built"
    BY <1>4, TypesUsed DEF AppendBlock
  <2>2. ASSUME NEW i \in 2 .. Len(chain') PROVE Genuine(chain'[i])
    <3>1. i \in 2 .. Len(chain) \/ i = Len(chain) + 1
      BY <1>4, Appended, TypesUsed
    <3> QED
      BY <1>4, <2>1, <3>1, Appended DEF Unedited
  <2>3. chain'[1] = genesis_block(Genesis)
    BY <1>4, <2>1, Appended, TypesUsed DEF Unedited
  <2> QED
    BY <2>1, <2>2, <2>3 DEF Unedited
<1>5. ASSUME NEW i \in 1 .. Len(chain), EditBlock(i) PROVE Unedited'
  BY <1>5 DEF EditBlock
<1> QED
  BY <1>1, <1>2, <1>3, <1>4, <1>5 DEF Next

LEMMA StepShows == ASSUME Types, Unedited, EditShows, [Next]_vars PROVE EditShows'
<1>1. CASE UNCHANGED <<chain, edited>>
  BY <1>1 DEF EditShows
<1>2. ASSUME NEW w \in Writers, AppendBlock(w) PROVE EditShows'
  <2>1. edited' = edited /\ (edited > 1 => edited \in 1 .. Len(chain))
    BY <1>2, TypesUsed DEF AppendBlock
  <2> QED
    BY <1>2, <2>1, Appended DEF EditShows
<1>3. ASSUME NEW i \in 1 .. Len(chain), EditBlock(i) PROVE EditShows'
  <2>1. edited = 0 /\ edited' = i
    BY <1>3 DEF EditBlock
  <2>2. SUFFICES ASSUME i > 1 PROVE ~Hashed(chain'[i])
    BY <2>1 DEF EditShows
  <2>3. chain[i] \in Blocks(ChainData) /\ Genuine(chain[i])
    BY <2>1, <2>2, TypesUsed DEF Unedited
  <2> QED
    BY <1>3, <2>3, BlockEdited, EditedHash
<1> QED
  BY <1>1, <1>2, <1>3 DEF Next, vars, ReadLast, BuildBlock

LEMMA LoopAppends ==
  ASSUME Types, CallsOK, LoopOK, onLoop, NEW w \in Writers, AppendBlock(w)
  PROVE  chain' = add_block(chain, EntryOf(w)) /\ EntryOf(w) \in ChainData
  BY EntryType DEF CallsOK, LoopOK, AppendBlock, add_block

LEMMA StepLoop ==
  ASSUME Types, CallsOK, EditShows, LoopOK, [Next]_vars
  PROVE  LoopOK'
<1>1. CASE UNCHANGED vars
  BY <1>1 DEF vars, LoopOK, EntryOf, Intact, NextBlock, BlockVerifies
<1> SUFFICES ASSUME onLoop, onLoop' PROVE LoopOK'
  BY <1>1 DEF Next, ReadLast, BuildBlock, AppendBlock, EditBlock, LoopOK
<1>2. ASSUME NEW w \in Writers, ReadLast(w) PROVE LoopOK'
  <2>1. /\ UNCHANGED <<chain, block, written, edited, field>>
        /\ pc'[w] = "read" /\ previous'[w] = Len(chain)
        /\ \A v \in Writers : pc[v] = "idle"
        /\ \A v \in Writers : v # w => pc'[v] = "idle"
    BY <1>2, TypesUsed DEF ReadLast
  <2> QED
    BY <2>1 DEF LoopOK, Intact, BlockVerifies
<1>3. ASSUME NEW w \in Writers, BuildBlock(w) PROVE LoopOK'
  <2>1. /\ UNCHANGED <<chain, previous, written, edited, field>>
        /\ pc[w] = "read" /\ pc'[w] = "built"
        /\ \A v \in Writers : v # w => pc'[v] = pc[v]
    BY <1>3, BuiltBlock, TypesUsed
  <2>2. /\ previous[w] = Len(chain)
        /\ \A v \in Writers : v # w => pc[v] = "idle"
    BY <2>1 DEF LoopOK
  <2>3. block'[w] = NextBlock(chain, EntryOf(w))
    BY <1>3, <2>2, BuiltBlock DEF NextBlock
  <2>4. EntryOf(w)' = EntryOf(w) /\ NextBlock(chain, EntryOf(w))' = NextBlock(chain, EntryOf(w))
    BY <2>1 DEF EntryOf, NextBlock
  <2> QED
    BY <2>1, <2>2, <2>3, <2>4 DEF LoopOK, Intact, BlockVerifies
<1>4. ASSUME NEW w \in Writers, AppendBlock(w) PROVE LoopOK'
  <2>1. /\ pc[w] = "built" /\ UNCHANGED <<previous, block, edited, field>>
        /\ \A v \in Writers : v # w => pc'[v] = pc[v]
        /\ pc'[w] = "idle"
    BY <1>4, TypesUsed DEF AppendBlock
  <2>2. \A v \in Writers : pc'[v] = "idle"
    BY <2>1 DEF LoopOK
  <2>3. edited = 0 \/ (edited = 1 /\ field # "hash") => Intact(chain')
    <3>1. chain \in Seq(Blocks(ChainData)) /\ Len(chain) >= 1
      BY TypesUsed
    <3> QED
      BY <1>4, <3>1, LoopAppends, AddBlockIntact DEF LoopOK
  <2>4. ASSUME edited > 1, NEW i \in 2 .. edited - 1 PROVE BlockVerifies(chain', i)
    <3>1. BlockVerifies(chain, i)
      BY <2>4 DEF LoopOK
    <3>2. i \in 1 .. Len(chain) /\ i - 1 \in 1 .. Len(chain)
      BY <2>4, TypesUsed
    <3>3. chain'[i] = chain[i] /\ chain'[i - 1] = chain[i - 1]
      BY <1>4, <3>2, Appended
    <3> QED
      BY <3>1, <3>3 DEF BlockVerifies
  <2> QED
    BY <2>1, <2>2, <2>3, <2>4 DEF LoopOK, Intact, BlockVerifies
<1>5. ASSUME NEW i \in 1 .. Len(chain), EditBlock(i) PROVE LoopOK'
  <2>1. /\ edited = 0 /\ edited' = i /\ UNCHANGED <<pc, previous, block, written>>
        /\ \A w \in Writers : pc[w] = "idle"
    BY <1>5 DEF EditBlock
  <2>2. Intact(chain) /\ Len(chain) \in Nat
    BY <2>1, TypesUsed DEF LoopOK
  <2>3. /\ Len(chain') = Len(chain)
        /\ \A j \in 1 .. Len(chain) : j # i => chain'[j] = chain[j]
        /\ field' # "hash" => chain'[i].hash = chain[i].hash
    BY <1>5, BlockEdited
  <2>4. ASSUME i = 1, field' # "hash" PROVE Intact(chain')
    <3>1. ASSUME NEW j \in 2 .. Len(chain) PROVE BlockVerifies(chain', j)
      <4>1. chain'[j] = chain[j] /\ chain'[j - 1].hash = chain[j - 1].hash
        BY <2>2, <2>3, <2>4, <3>1
      <4>2. BlockVerifies(chain, j)
        BY <2>2, <3>1 DEF Intact
      <4> QED
        BY <4>1, <4>2 DEF BlockVerifies
    <3> QED
      BY <2>3, <3>1 DEF Intact
  <2>5. ASSUME i > 1, NEW j \in 2 .. i - 1 PROVE BlockVerifies(chain', j)
    <3>1. chain'[j] = chain[j] /\ chain'[j - 1] = chain[j - 1] /\ j \in 2 .. Len(chain)
      BY <2>2, <2>3, <2>5
    <3> QED
      BY <2>2, <3>1 DEF Intact, BlockVerifies
  <2> QED
    BY <2>1, <2>4, <2>5 DEF LoopOK, Intact, BlockVerifies
<1> QED
  BY <1>1, <1>2, <1>3, <1>4, <1>5 DEF Next

LEMMA StepEntries ==
  ASSUME Types, CallsOK, EntriesOK, [Next]_vars
  PROVE  EntriesOK'
<1>1. CASE UNCHANGED <<chain, written>> /\ (edited' = 0 => edited = 0)
  BY <1>1 DEF EntriesOK, Returned
<1>2. ASSUME NEW w \in Writers, AppendBlock(w) PROVE EntriesOK'
  <2> DEFINE n == written[w] + 1
  <2>1. /\ pc[w] = "built" /\ edited' = edited
        /\ written' = [written EXCEPT ![w] = n]
        /\ written[w] < Quota
    BY <1>2 DEF AppendBlock, CallsOK
  <2>2. n \in 1 .. Quota /\ written[w] \in Nat
    BY <2>1, TypesUsed
  <2>3. Returned' = Returned \cup {<<w, n>>} /\ <<w, n>> \notin Returned
    <3>1. \A c \in Writers \X (1 .. Quota) :
            c[2] <= written'[c[1]] <=> (c[2] <= written[c[1]] \/ c = <<w, n>>)
      <4> SUFFICES ASSUME NEW v \in Writers, NEW m \in 1 .. Quota
                   PROVE  m <= written'[v] <=> (m <= written[v] \/ (v = w /\ m = n))
        OBVIOUS
      <4>1. CASE v = w
        BY <2>1, <2>2, <4>1, TypesUsed
      <4>2. CASE v # w
        BY <2>1, <4>2, TypesUsed
      <4> QED
        BY <4>1, <4>2
    <3>2. <<w, n>> \in Writers \X (1 .. Quota) /\ ~(n <= written[w])
      BY <2>2
    <3> QED
      BY <3>1, <3>2 DEF Returned
  <2> HIDE DEF n
  <2>4. IsFiniteSet(Returned') /\ Len(chain') = 1 + Cardinality(Returned')
    <3> DEFINE S == Returned
               x == <<w, n>>
    <3>1. IsFiniteSet(S) /\ Len(chain) = 1 + Cardinality(S) /\ x \notin S
      BY <2>3 DEF EntriesOK
    <3>2. Returned' = S \cup {x}
      BY <2>3
    <3>3. Len(chain') = Len(chain) + 1
      BY <1>2, Appended
    <3> HIDE DEF S, x
    <3>4. /\ IsFiniteSet(S \cup {x}) /\ Cardinality(S) \in Nat
          /\ Cardinality(S \cup {x}) = Cardinality(S) + 1
      BY <3>1, FS_AddElement, FS_CardinalityType
    <3> QED
      BY <3>1, <3>2, <3>3, <3>4
  <2>5. ASSUME edited = 0, NEW v \in Writers, NEW m \in 1 .. written'[v]
        PROVE  \E i \in 2 .. Len(chain') : chain'[i].data = [writer |-> v, number |-> m]
    <3>1. CASE m \in 1 .. written[v]
      <4>1. PICK i \in 2 .. Len(chain) : chain[i].data = [writer |-> v, number |-> m]
        BY <2>5, <3>1 DEF EntriesOK
      <4>2. i \in 1 .. Len(chain) /\ i \in 2 .. Len(chain')
        BY <1>2, <4>1, Appended, TypesUsed
      <4> QED
        BY <1>2, <4>1, <4>2, Appended
    <3>2. CASE v = w /\ m = n
      <4>1. block[w].data = [writer |-> v, number |-> m]
        BY <2>1, <3>2 DEF CallsOK, EntryOf, n
      <4>2. Len(chain) + 1 \in 2 .. Len(chain')
        BY <1>2, Appended, TypesUsed
      <4> QED
        BY <1>2, <4>1, <4>2, Appended
    <3>3. m \in 1 .. written[v] \/ (v = w /\ m = n)
      BY <2>1, <2>2, <2>5, TypesUsed DEF n
    <3> QED
      BY <3>1, <3>2, <3>3
  <2> QED
    BY <2>1, <2>4, <2>5 DEF EntriesOK
<1>3. ASSUME NEW i \in 1 .. Len(chain), EditBlock(i) PROVE EntriesOK'
  <2>1. written' = written /\ edited' # 0 /\ Len(chain') = Len(chain)
    BY <1>3, BlockEdited DEF EditBlock
  <2> QED
    BY <2>1 DEF EntriesOK, Returned
<1> QED
  BY <1>1, <1>2, <1>3 DEF Next, vars, ReadLast, BuildBlock

-----------------------------------------------------------------------------
(* The theorems                                                            *)

LEMMA Reachable == Spec => []IInv
<1>1. IInv /\ [Next]_vars => IInv'
  BY StepTypes, StepCalls, StepUnedited, StepShows, StepLoop, StepEntries DEF IInv
<1> QED
  BY <1>1, InitInv, PTL DEF Spec

\* The chain, the callers and their local variables have their types.
THEOREM TypeCorrect == Spec => []TypeOK
<1>1. IInv => TypeOK
  BY DEF IInv, Types
<1> QED
  BY <1>1, Reachable, PTL

\* Coroutines of one loop leave a chain that verify_chain reports valid, however
\* many there are, and also if the genesis block's data or link was edited.
THEOREM LoopAlwaysVerifies == Spec => []LoopChainVerifies
<1>1. IInv => LoopChainVerifies
  <2> SUFFICES ASSUME IInv, onLoop, edited = 1 => field # "hash", edited <= 1
               PROVE  verify_chain(chain).valid
    BY DEF LoopChainVerifies
  <2>1. chain \in Seq(Blocks(ChainData)) /\ Len(chain) >= 1 /\ edited \in Nat
    BY TypesUsed DEF IInv
  <2>2. Intact(chain)
    BY <2>1 DEF IInv, LoopOK
  <2> QED
    BY <2>1, <2>2, VerifyChainExact
<1> QED
  BY <1>1, Reachable, PTL

\* verify_chain finds an edit of any block after the genesis block, whoever goes
\* on adding blocks, and on the loop says exactly where it is.
THEOREM EditsAlwaysLocated == Spec => []EditsLocated
<1>1. IInv => EditsLocated
  <2> SUFFICES ASSUME IInv, edited > 1
               PROVE  /\ ~verify_chain(chain).valid
                      /\ onLoop => verify_chain(chain).verified_blocks = edited - 2
    BY DEF EditsLocated
  <2>1. /\ chain \in Seq(Blocks(ChainData)) /\ Len(chain) >= 1 /\ Len(chain) \in Nat
        /\ edited \in 2 .. Len(chain)
    BY TypesUsed DEF IInv
  <2>2. ~BlockVerifies(chain, edited)
    BY DEF IInv, EditShows, Hashed, BlockVerifies
  <2>3. ~verify_chain(chain).valid
    BY <2>1, <2>2, VerifyChainExact DEF Intact
  <2>4. ASSUME onLoop PROVE verified_blocks(chain) = edited - 2
    <3> DEFINE Stop(n) == /\ \A i \in 2 .. n + 1 : BlockVerifies(chain, i)
                          /\ n + 1 < Len(chain) => ~BlockVerifies(chain, n + 2)
    <3>1. \A i \in 2 .. edited - 1 : BlockVerifies(chain, i)
      BY <2>4 DEF IInv, LoopOK
    <3>2. edited - 2 \in 0 .. Len(chain) - 1 /\ Stop(edited - 2)
      BY <2>1, <2>2, <3>1
    <3>3. ASSUME NEW n \in 0 .. Len(chain) - 1, Stop(n) PROVE n = edited - 2
      <4>1. ~(n > edited - 2)
        BY <2>1, <2>2, <3>3
      <4>2. ~(n < edited - 2)
        BY <2>1, <3>1, <3>3
      <4> QED
        BY <2>1, <3>3, <4>1, <4>2
    <3>4. verified_blocks(chain) \in 0 .. Len(chain) - 1 /\ Stop(verified_blocks(chain))
      BY <3>2 DEF verified_blocks
    <3> QED
      BY <3>3, <3>4
  <2> QED
    BY <2>3, <2>4 DEF verify_chain
<1> QED
  BY <1>1, Reachable, PTL

\* Each call that returned has left its entry, coroutine or thread, and nothing
\* else is in the chain.
THEOREM EntriesNeverLost == Spec => []NoEntryLost
<1>1. IInv => NoEntryLost
  <2> SUFFICES ASSUME IInv, edited = 0
               PROVE  /\ Len(chain) = 1 + Cardinality(Returned)
                      /\ \A c \in Returned : \E i \in 2 .. Len(chain) :
                           chain[i].data = [writer |-> c[1], number |-> c[2]]
    BY DEF NoEntryLost, Returned
  <2>1. ASSUME NEW c \in Returned
        PROVE  \E i \in 2 .. Len(chain) : chain[i].data = [writer |-> c[1], number |-> c[2]]
    <3>1. c[1] \in Writers /\ c[2] \in 1 .. written[c[1]]
      BY <2>1, TypesUsed DEF Returned, IInv
    <3> QED
      BY <3>1 DEF IInv, EntriesOK
  <2> QED
    BY <2>1 DEF IInv, EntriesOK
<1> QED
  BY <1>1, Reachable, PTL
=============================================================================
