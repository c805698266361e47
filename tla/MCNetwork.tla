----------------------------- MODULE MCNetwork ------------------------------
(***************************************************************************)
(* A node that dials p and is dialed by q and r, with room for two peers.  *)
(***************************************************************************)
EXTENDS Network, TLC

CONSTANTS p, q, r

\* Those that dial are alike.
Callers == Permutations({q, r})
=============================================================================
