------------------------------ MODULE MCWallet ------------------------------
(***************************************************************************)
(* Two accounts; two payments of the first and one of the second.          *)
(***************************************************************************)
EXTENDS Wallet

CONSTANTS alice, bob, rent, food, gift

MCFrom == [p \in Payment |-> IF p = gift THEN bob ELSE alice]

\* Records of a key and indexes of addresses.
MCValue == Address \cup UNION {[1 .. n -> Address] : n \in 0 .. 2}
=============================================================================
