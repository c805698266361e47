------------------------------ MODULE MCMining ------------------------------
(* One miner beside two threads that deliver blocks and transactions. *)
EXTENDS Mining, TLC

CONSTANTS r1, r2, miner, alice, bob

Symmetry == Permutations(Threads)
=============================================================================
