------------------------------ MODULE HashChain ------------------------------
(***************************************************************************)
(* The in-memory hash chain of api_gateway/blockchain.py as operators on a *)
(* value: the list _chain of a BlockchainManager.                          *)
(*                                                                         *)
(* SHA-256 is taken to be injective.  A digest is represented by what it   *)
(* commits to: create_hash of a block is the digest of the preceding block *)
(* extended with the block's own index and data, so two digests are equal  *)
(* exactly when every block they were computed from, back to the first,    *)
(* has the same content.  A block's timestamp is part of its data.         *)
(*                                                                         *)
(* Sequences count from 1: chain[1] is the genesis block, whose index      *)
(* field is 0, and chain[i] is the block the code calls self._chain[i-1].  *)
(***************************************************************************)
EXTENDS Naturals, Sequences

\* The digests and the blocks of chains whose blocks carry elements of Data:
\* log entries, and the markers of genesis blocks.
Digests(Data) == Seq([index : Nat, data : Data])
Blocks(Data)  == [index : Nat, data : Data,
                  previous_hash : Digests(Data), hash : Digests(Data)]

\* The "0" * 64 the genesis block carries as its previous_hash.
ZeroHash == << >>

\* The digest of a block's content: every field but the stored hash.
create_hash(index, data, previous_hash) ==
    Append(previous_hash, [index |-> index, data |-> data])

\* A block with the given content, its hash field filled in.
Sealed(index, data, previous_hash) ==
    [index |-> index, data |-> data, previous_hash |-> previous_hash,
     hash |-> create_hash(index, data, previous_hash)]

genesis_block(data) == Sealed(0, data, ZeroHash)

\* The chain __init__ leaves: the genesis block alone.
NewChain(data) == << genesis_block(data) >>

\* Faulty variant of NextBlock: every block links to the genesis block.
NextBlock_LinksGenesis(chain, entry) ==
    Sealed(Len(chain), entry, chain[1].hash)

\* Faulty variant of NextBlock: the hash is taken before the link is set.
NextBlock_HashFirst(chain, entry) ==
    [Sealed(Len(chain), entry, ZeroHash)
       EXCEPT !.previous_hash = chain[Len(chain)].hash]

\* The block add_block builds from the chain's last block and length.
NextBlock(chain, entry) ==
    Sealed(Len(chain), entry, chain[Len(chain)].hash)

\* Faulty variant of add_block: the oldest block is dropped.
add_block_Rolling(chain, entry) == Append(Tail(chain), NextBlock(chain, entry))

add_block(chain, entry) == Append(chain, NextBlock(chain, entry))

\* The two tests of one turn of verify_chain's loop.
BlockVerifies(chain, i) ==
    /\ chain[i].hash =
           create_hash(chain[i].index, chain[i].data, chain[i].previous_hash)
    /\ chain[i].previous_hash = chain[i - 1].hash

\* Faulty variant of verified_blocks: the loop goes on after a bad block.
verified_blocks_NoBreak(chain) ==
    Len(SelectSeq([n \in 1 .. Len(chain) - 1 |-> BlockVerifies(chain, n + 1)],
                  LAMBDA ok : ok))

\* The loop stops at the first block that fails: verified_blocks is the
\* length of the longest run of verified blocks after the genesis block.
verified_blocks(chain) ==
    CHOOSE n \in 0 .. Len(chain) - 1 :
        /\ \A i \in 2 .. n + 1 : BlockVerifies(chain, i)
        /\ n + 1 < Len(chain) => ~BlockVerifies(chain, n + 2)

verify_chain(chain) ==
    [valid           |-> verified_blocks(chain) = Len(chain) - 1,
     total_blocks    |-> Len(chain) - 1,
     verified_blocks |-> verified_blocks(chain)]

get_chain_stats(chain) ==
    [total_blocks |-> Len(chain) - 1,
     chain_length |-> Len(chain),
     genesis_hash |-> chain[1].hash,
     latest_hash  |-> chain[Len(chain)].hash]

=============================================================================
