----------------------------- MODULE ForkChoice -----------------------------
(***************************************************************************)
(* What the chain manager promises, without its store, its index, its walk *)
(* and its replay: the head is the best valid block among those accepted,  *)
(* and accepting a block and electing the head are one step.               *)
(***************************************************************************)
EXTENDS BlockTree

VARIABLES
    accepted,   \* blocks the node has stored and weighed
    tip         \* the elected head, NoBlock before the first start

vars == <<accepted, tip>>

Init ==
    /\ accepted = {}
    /\ tip = NoBlock

\* The first start writes the genesis block.
Start ==
    /\ tip = NoBlock
    /\ tip' = Genesis
    /\ accepted' = {Genesis}

\* A block can be accepted once its parent is and if it verifies; an invalid
\* child of the tip is refused instead.
Acceptable(b) ==
    /\ tip # NoBlock
    /\ b \notin accepted
    /\ Parent[b] \in accepted
    /\ Verified(b)
    /\ Parent[b] = tip => b \in Valid

Elected(b) == IF b \in Valid /\ Better(b, tip) THEN b ELSE tip

Accept(b) ==
    /\ Acceptable(b)
    /\ accepted' = accepted \cup {b}
    /\ tip' = Elected(b)

\* The process may stop between storing a block and electing it: the block
\* stays, and nothing weighs it again.
AcceptUnweighed(b) ==
    /\ Acceptable(b)
    /\ accepted' = accepted \cup {b}
    /\ UNCHANGED tip

Next == Start \/ \E b \in Blocks : Accept(b)

Spec == Init /\ [][Next]_vars

\* The same promise for a process that may crash.
CrashNext == Next \/ \E b \in Blocks : AcceptUnweighed(b)

CrashSpec == Init /\ [][CrashNext]_vars

-----------------------------------------------------------------------------
TypeOK ==
    /\ accepted \subseteq Blocks
    /\ tip \in Blocks \cup {NoBlock}

\* Nothing is accepted before the first start, and the tip is an accepted valid
\* block afterwards.
TipIsValid ==
    /\ tip = NoBlock => accepted = {}
    /\ tip # NoBlock => tip \in accepted \cap Valid

\* No accepted valid block is better than the tip: the longest valid chain
\* wins, and the lower hash among equals (ChainManager::importLocked).
TipIsBest ==
    tip # NoBlock =>
        /\ tip \in accepted \cap Valid
        /\ \A b \in accepted \cap Valid : ~Better(b, tip)
=============================================================================
