---------------------------- MODULE MCSequential ----------------------------
(***************************************************************************)
(* The parts that no thread shares, in one run: a behaviour is that of a   *)
(* ledger, of a hash object or of a draft being sealed.  Bytes have eight  *)
(* values, a number has two of them; a hash object has blocks of four      *)
(* bytes that end with a length of two, and is given the bytes that        *)
(* padding is made of.                                                     *)
(***************************************************************************)
EXTENDS MCLedger, Sha256, Pow

VARIABLE part

SequentialInit ==
    /\ Init /\ HashInit /\ PowInit
    /\ part \in {"ledger", "hash", "seal"}
    /\ part # "seal" =>   \* what is sealed then does not matter
           /\ <<head, difficulty>> = CHOOSE some \in Heads \X Difficulties : TRUE
           /\ draft = Prepare(CHOOSE some \in Drafts : TRUE, head)

SequentialNext ==
    /\ \/ part = "ledger" /\ Next /\ UNCHANGED <<hashVars, powVars>>
       \/ part = "hash" /\ HashNext /\ UNCHANGED <<vars, powVars>>
       \/ part = "seal" /\ PowNext /\ UNCHANGED <<vars, hashVars>>
    /\ UNCHANGED part

SequentialSpec ==
    SequentialInit /\ [][SequentialNext]_<<vars, hashVars, powVars, part>>

-----------------------------------------------------------------------------
(* The constants of Pow. *)

MCWidth == [u8 |-> 1, u16 |-> 1, u32 |-> 1, u64 |-> 2, hash |-> 2, address |-> 1]

\* A digest that depends on every byte; its lowest bits would hardly do so.
MCHash(bytes) ==
    LET sum == FoldLeft(LAMBDA s, byte : (37 * s + 11 * byte + 5) % 431, 1, bytes)
    IN  LittleEndian(sum \div 7, "hash")

Header(at, timestamp, extensions) ==
    [version |-> 1, parentHash |-> <<0, 7>>, stateRoot |-> <<1, 2>>,
     transactionsRoot |-> <<3, 4>>, height |-> at, timestamp |-> timestamp,
     beneficiary |-> <<5>>, extraData |-> <<>>, consensusSeal |-> <<>>,
     extensions |-> extensions]

\* Clocks behind the head's, at it and after it, and at the end of time.
Times == {0, 3, 4, 62, 63}

MCHeads == { Header(1, last, <<>>) : last \in Times }
MCDrafts == { Header(2, now, << [tag |-> 7, payload |-> <<0>>] >>) : now \in Times }
=============================================================================
