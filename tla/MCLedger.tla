------------------------------ MODULE MCLedger ------------------------------
(* A small ledger: three addresses of which two hold units at genesis. *)
EXTENDS Ledger

CONSTANTS alice, bob, carol

MCAllocations == [a \in {alice, bob} |-> IF a = alice THEN 3 ELSE 1]

Pay(f, t, v, n, s) == [from |-> f, to |-> t, value |-> v, nonce |-> n, signer |-> s]

\* Transfers between two owners, to oneself, to and from an address that has no
\* account at first, with every nonce up to the bound on blocks; one is signed
\* by another and one by nobody.
MCOffered ==
         { Pay(alice, t, IF t = bob THEN 3 ELSE 1, n, alice) : t \in Address, n \in 0 .. 2 }
    \cup { Pay(bob, alice, 1, n, bob) : n \in 0 .. 1 }
    \cup { Pay(carol, bob, 1, 0, carol) }
    \cup { Pay(alice, bob, 1, 0, s) : s \in {bob, NoSigner} }
=============================================================================
