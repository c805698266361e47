----------------------------- MODULE MCProtocol -----------------------------
(***************************************************************************)
(* Two or three nodes that mine on forks of one tree: anna mines a1 and    *)
(* a2, ben b1 and b2, cleo relays.  z is another genesis block.            *)
(***************************************************************************)
EXTENDS Protocol

CONSTANTS anna, ben, cleo, g, a1, a2, b1, b2, z, t1, t2

MCParent ==
    [x \in Blocks |->
        CASE x \in {g, z} -> NoBlock
          [] x \in {a1, b1} -> g
          [] x = a2 -> a1 [] x = b2 -> b1]

MCHeight ==
    [x \in Blocks |->
        CASE x \in {g, z} -> 0
          [] x \in {a1, b1} -> 1
          [] x \in {a2, b2} -> 2]

\* ben's branch wins the tie at height 1, anna's at height 2.
MCHashRank ==
    [x \in Blocks |->
        CASE x = g -> 0 [] x = b1 -> 1 [] x = a1 -> 2 [] x = a2 -> 3
          [] x = b2 -> 4 [] x = z -> 5]

MCMinedBy == [x \in Blocks |-> IF x \in {a1, a2} THEN anna ELSE ben]

SameRules == [n \in Node |-> Blocks]
SameChain == [n \in Node |-> 1]

\* t1 is valid on the ledgers of g's chain, t2 until a block of ben's is executed.
MCValidOn ==
    [x \in Blocks |->
        IF x = z THEN {} ELSE IF x \in {b1, b2} THEN Txs \ {t2} ELSE Txs]

NoPings == [n \in Node |-> 0]
BensPings == [n \in Node |-> IF n = ben THEN 2 ELSE 0]

Pair == {<<anna, ben>>}
Line == {<<anna, ben>>, <<ben, cleo>>}
=============================================================================
