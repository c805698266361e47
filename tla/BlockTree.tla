----------------------------- MODULE BlockTree ------------------------------
(***************************************************************************)
(* The blocks a node can be offered and what the code computes from their  *)
(* contents alone: the header fields, the proof of work, the order of two  *)
(* heads, the execution of a block on the state its parent leaves.         *)
(*                                                                         *)
(* A block is named by the hash of its header, so hashing is injective     *)
(* here and a name stands for one header AND one list of transactions.     *)
(* The code never checks the second half (transactionsRoot is neither set  *)
(* nor compared): what it does with two bodies under one header is outside *)
(* this model.                                                             *)
(***************************************************************************)
EXTENDS Integers

CONSTANTS
    Blocks,         \* every block, by header hash
    Genesis,        \* the configured genesis block
    NoBlock,        \* no block: an absent key, the parent of genesis
    MaxHeight,      \* bound: the highest height of a block
    Parent,         \* header.parentHash
    Height,         \* header.height
    HashRank,       \* header hashes in increasing order, as numbers
    Sealed,         \* blocks whose timestamp, seal size and work are right
    States,         \* ledgers, each named by its state root
    StateRoot,      \* header.stateRoot
    Exec(_, _),     \* the ledger after a block, or Rejected
    Rejected,       \* IStateMachine::apply refused the block
    Valid           \* the blocks whose whole ancestry verifies and executes

Heights == 0 .. MaxHeight

\* PowEngine::compare(b, c) is strong_ordering::greater: the higher block, and
\* at one height the one of lower hash.
Better(b, c) ==
    \/ Height[b] > Height[c]
    \/ Height[b] = Height[c] /\ HashRank[b] < HashRank[c]

\* PowEngine::verify for a block whose parent header is stored.
Verified(b) ==
    /\ Height[b] = Height[Parent[b]] + 1
    /\ b \in Sealed

\* IStateMachine::apply succeeds on the state and gives the root the header
\* announces.
Executes(state, b) ==
    /\ Exec(state, b) # Rejected
    /\ Exec(state, b) = StateRoot[b]

ASSUME BlocksAssumption ==
    /\ MaxHeight \in Nat
    /\ NoBlock \notin Blocks
    /\ Genesis \in Blocks
    /\ Parent \in [Blocks -> Blocks \cup {NoBlock}]
    /\ Parent[Genesis] = NoBlock
    /\ Height \in [Blocks -> Heights]
    /\ Height[Genesis] = 0
    /\ StateRoot \in [Blocks -> States]

\* Two headers never have the same hash.
ASSUME HashAssumption ==
    /\ HashRank \in [Blocks -> Int]
    /\ \A b, c \in Blocks : HashRank[b] = HashRank[c] => b = c

\* Valid is the validity a node decides for itself by replaying from genesis:
\* genesis, and each block that verifies and executes on a valid parent.
ASSUME ValidAssumption ==
    /\ Valid \subseteq Blocks
    /\ \A b \in Blocks : b \in Valid <=>
         \/ b = Genesis
         \/ /\ Parent[b] \in Valid
            /\ Verified(b)
            /\ Executes(StateRoot[Parent[b]], b)
=============================================================================
