----------------------------- MODULE ChainWriters -----------------------------
(***************************************************************************)
(* A BlockchainManager used by several callers of add_block, and a chain   *)
(* whose blocks may be edited afterwards.                                  *)
(*                                                                         *)
(* The gateway's callers are coroutines of one event loop, and add_block   *)
(* has no await: one call runs at a time.  tests/test_edge_cases.py calls  *)
(* it from threads, where another call may run between any two of its      *)
(* lines: it has no lock.  Both uses are modelled; onLoop says which.      *)
(***************************************************************************)
EXTENDS HashChain, FiniteSets

CONSTANTS
    Writers,     \* the callers
    Quota        \* bound on the blocks one caller adds

ASSUME WritersAssumption == Quota \in Nat

VARIABLES
    onLoop,      \* TRUE: coroutines of one loop; FALSE: threads
    chain,       \* _chain
    pc,          \* where each caller is in add_block
    previous,    \* the position of its local previous_block, a reference
    block,       \* its local new_block
    written,     \* how many calls of each caller have returned
    edited,      \* the position of the block that was edited, 0 if none
    field        \* the field that was edited

vars == <<onLoop, chain, pc, previous, block, written, edited, field>>

Genesis == [genesis |-> TRUE]
Forged  == [genesis |-> FALSE]
Entries == [writer : Writers, number : 1 .. Quota]
ChainData == Entries \cup {Genesis, Forged}

TypeOK ==
    /\ onLoop \in BOOLEAN
    /\ chain \in Seq(Blocks(ChainData))
    /\ pc \in [Writers -> {"idle", "read", "built"}]
    /\ \A w \in Writers : previous[w] \in 1 .. Len(chain)
    /\ block \in [Writers -> Blocks(ChainData)]
    /\ written \in [Writers -> 0 .. Quota]
    /\ edited \in 0 .. Len(chain)
    /\ field \in {"none", "data", "previous_hash", "hash"}

Init ==
    /\ onLoop \in BOOLEAN
    /\ chain = NewChain(Genesis)
    /\ pc = [w \in Writers |-> "idle"]
    /\ previous = [w \in Writers |-> 1]
    /\ block = [w \in Writers |-> genesis_block(Genesis)]
    /\ written = [w \in Writers |-> 0]
    /\ edited = 0
    /\ field = "none"

-----------------------------------------------------------------------------
(* add_block, line by line                                                 *)

\* Faulty variant of ReadLast: the first block is taken for the last.
ReadLast_First(w) ==
    /\ pc[w] = "idle"
    /\ written[w] < Quota
    /\ onLoop => \A v \in Writers : pc[v] = "idle"
    /\ previous' = [previous EXCEPT ![w] = 1]
    /\ pc' = [pc EXCEPT ![w] = "read"]
    /\ UNCHANGED <<onLoop, chain, block, written, edited, field>>

\* previous_block = self._chain[-1]
ReadLast(w) ==
    /\ pc[w] = "idle"
    /\ written[w] < Quota
    /\ onLoop => \A v \in Writers : pc[v] = "idle"
    /\ previous' = [previous EXCEPT ![w] = Len(chain)]
    /\ pc' = [pc EXCEPT ![w] = "read"]
    /\ UNCHANGED <<onLoop, chain, block, written, edited, field>>

\* new_block = {"index": len(self._chain), ...} and its hash
BuildBlock(w) ==
    /\ pc[w] = "read"
    /\ block' = [block EXCEPT ![w] =
                   Sealed(Len(chain),
                          [writer |-> w, number |-> written[w] + 1],
                          chain[previous[w]].hash)]
    /\ pc' = [pc EXCEPT ![w] = "built"]
    /\ UNCHANGED <<onLoop, chain, previous, written, edited, field>>

\* Faulty variant of AppendBlock: the block is stored at its index, where a
\* thread may have stored another one.
AppendBlock_AtIndex(w) ==
    /\ pc[w] = "built"
    /\ chain' = [i \in 1 .. Len(chain) \cup {block[w].index + 1} |->
                   IF i = block[w].index + 1 THEN block[w] ELSE chain[i]]
    /\ written' = [written EXCEPT ![w] = @ + 1]
    /\ pc' = [pc EXCEPT ![w] = "idle"]
    /\ UNCHANGED <<onLoop, previous, block, edited, field>>

\* self._chain.append(new_block)
AppendBlock(w) ==
    /\ pc[w] = "built"
    /\ chain' = Append(chain, block[w])
    /\ written' = [written EXCEPT ![w] = @ + 1]
    /\ pc' = [pc EXCEPT ![w] = "idle"]
    /\ UNCHANGED <<onLoop, previous, block, edited, field>>

\* One field of one block is changed behind the manager's back, as
\* tests/test_api.py does to see it detected.
EditBlock(i) ==
    /\ edited = 0
    /\ onLoop => \A w \in Writers : pc[w] = "idle"
    /\ \/ /\ chain' = [chain EXCEPT ![i].data = Forged]
          /\ field' = "data"
       \/ /\ chain' = [chain EXCEPT ![i].previous_hash =
                         create_hash(0, Forged, ZeroHash)]
          /\ field' = "previous_hash"
       \/ /\ chain' = [chain EXCEPT ![i].hash =
                         create_hash(0, Forged, ZeroHash)]
          /\ field' = "hash"
    /\ edited' = i
    /\ UNCHANGED <<onLoop, pc, previous, block, written>>

Next ==
    \/ \E w \in Writers : ReadLast(w) \/ BuildBlock(w) \/ AppendBlock(w)
    \/ \E i \in 1 .. Len(chain) : EditBlock(i)

Spec == Init /\ [][Next]_vars

-----------------------------------------------------------------------------
(* Properties that hold                                                    *)

\* On the event loop every chain the manager builds verifies.  The content of
\* the genesis block is the one thing verify_chain never looks at: editing its
\* data or its link goes unnoticed, however long the chain.
LoopChainVerifies ==
    onLoop /\ (edited = 1 => field # "hash") /\ edited <= 1 =>
      verify_chain(chain).valid

\* An edit of any block after the genesis block is found whichever field was
\* edited, and stays found whatever is appended to the chain afterwards.  On
\* the loop verified_blocks then points at the edited block: it counts exactly
\* the blocks before it.
EditsLocated ==
    edited > 1 =>
      /\ ~verify_chain(chain).valid
      /\ onLoop => verify_chain(chain).verified_blocks = edited - 2

\* What tests/test_edge_cases.py asserts of threads, and more: each call that
\* returned has left its entry in exactly one block, and nothing else has.
NoEntryLost ==
    edited = 0 =>
      LET returned == {c \in Writers \X (1 .. Quota) : c[2] <= written[c[1]]}
      IN  /\ Len(chain) = 1 + Cardinality(returned)
          /\ \A c \in returned : \E i \in 2 .. Len(chain) :
               chain[i].data = [writer |-> c[1], number |-> c[2]]

-----------------------------------------------------------------------------
(* A statement of the tests that does not hold                             *)

\* tests/test_edge_cases.py:93 "Concurrent blockchain additions are
\* thread-safe": when the threads are done, the chain verifies.
ThreadsLeaveValidChain ==
    edited = 0 /\ (\A w \in Writers : pc[w] = "idle") =>
      verify_chain(chain).valid

=============================================================================
