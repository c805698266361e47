--------------------------- MODULE MCChainManager ---------------------------
(***************************************************************************)
(* A tree of twelve blocks over a real ledger: two competing branches, ties *)
(* of both outcomes at every height, a branch that turns invalid, a wrong   *)
(* state root, a block without proof of work, one whose height jumps.       *)
(***************************************************************************)
EXTENDS ChainManagerInv, TLC

CONSTANTS g, a1, a2, a3, b1, b2, b3, b4, c2, d3, u2, j3,
          alice, bob, carol, NoSigner

Ac == INSTANCE Accounts WITH
        Address     <- {alice, bob, carol},
        Word        <- 32,
        Allocations <- (alice :> 5),
        BlockReward <- 2

MCBlocks == {g, a1, a2, a3, b1, b2, b3, b4, c2, d3, u2, j3}

MCParent ==
    g :> NoBlock @@
    a1 :> g  @@ a2 :> a1 @@ a3 :> a2 @@ u2 :> a1 @@
    b1 :> g  @@ b2 :> b1 @@ b3 :> b2 @@ b4 :> b3 @@ d3 :> b2 @@
    c2 :> b1 @@ j3 :> b1

MCHeight ==
    g :> 0 @@ a1 :> 1 @@ b1 :> 1 @@ a2 :> 2 @@ b2 :> 2 @@ c2 :> 2 @@ u2 :> 2 @@
    a3 :> 3 @@ b3 :> 3 @@ d3 :> 3 @@ j3 :> 3 @@ b4 :> 4

\* Branch b has the lower hash at height 1, branch a at height 2; the invalid
\* block c2 wins every tie.
MCHashRank ==
    g :> 0 @@ c2 :> 1 @@ b3 :> 2 @@ b1 :> 3 @@ d3 :> 4 @@ a1 :> 5 @@ a2 :> 6 @@
    b2 :> 7 @@ a3 :> 8 @@ b4 :> 9 @@ u2 :> 10 @@ j3 :> 11

Pay(to, nonce) ==
    [from |-> alice, to |-> to, value |-> 1, nonce |-> nonce, signer |-> alice]

Txs ==
    [b \in MCBlocks |->
        CASE b = a1 -> <<Pay(bob, 0)>>
          [] b = a2 -> <<Pay(bob, 1)>>
          [] b = b1 -> <<Pay(carol, 0)>>
          [] b = b2 -> <<Pay(alice, 1)>>
          [] b = b3 -> <<Pay(carol, 0)>>   \* already spent by b1
          [] OTHER  -> <<>>]

Miner == [b \in MCBlocks |-> IF b \in {a1, a2, a3, u2} THEN alice ELSE bob]

Body(b) == [transactions |-> Txs[b], beneficiary |-> Miner[b]]

MCApply(state, b) == Ac!Apply(state, Body(b))

\* The root each header announces: the right one, except that c2 announces its
\* parent's and the rejected b3 and its child announce the root before them.
RECURSIVE RootOf(_)
RootOf(b) ==
    CASE b = g            -> Ac!GenesisAccounts
      [] b \in {b3, b4, c2} -> RootOf(MCParent[b])
      [] OTHER            -> MCApply(RootOf(MCParent[b]), b)

MCStateRoot == [b \in MCBlocks |-> RootOf(b)]
MCStates == { MCStateRoot[b] : b \in MCBlocks }

\* Execution, tabulated once for the ledgers of the tree.
Executed == [s \in MCStates, b \in MCBlocks |-> MCApply(s, b)]
MCExec(state, b) ==
    IF state \in MCStates THEN Executed[state, b] ELSE MCApply(state, b)

MCSealed == MCBlocks \ {u2}

RECURSIVE IsValid(_)
IsValid(b) ==
    \/ b = g
    \/ /\ MCParent[b] # NoBlock
       /\ IsValid(MCParent[b])
       /\ MCHeight[b] = MCHeight[MCParent[b]] + 1
       /\ b \in MCSealed
       /\ MCExec(MCStateRoot[MCParent[b]], b) = MCStateRoot[b]

MCValid == { b \in MCBlocks : IsValid(b) }
=============================================================================
