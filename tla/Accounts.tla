------------------------------ MODULE Accounts ------------------------------
(***************************************************************************)
(* The functions of the account state machine                              *)
(* (state/account/AccountStateMachine.cpp): the validation of a            *)
(* transaction and the execution of a block.                               *)
(*                                                                         *)
(* Amounts and nonces are unsigned words: the code computes them modulo    *)
(* 2^64, the model modulo Word.  A hash and a signature are what they      *)
(* identify: the state root is the account map itself, a signature is the  *)
(* address authenticate() recovers from it, or NoSigner.                   *)
(***************************************************************************)
EXTENDS Naturals, Sequences, SequencesExt

CONSTANTS
    Address,       \* account addresses
    NoSigner,      \* what authenticate() answers for a bad signature
    Word,          \* the modulus of amounts and nonces (2^64 in the code)
    Allocations,   \* genesis balances: a function from some addresses
    BlockReward,   \* units minted to the beneficiary of a block
    Rejected       \* the error apply() answers for a block it refuses

Amount == 0 .. Word - 1

Transaction == [from: Address, to: Address, value: Amount, nonce: Amount,
                signer: Address \cup {NoSigner}]

Account == [balance: Amount, nonce: Amount]

ASSUME AccountsAssumption ==
    /\ Word \in Nat \ {0}
    /\ NoSigner \notin Address
    /\ IsFiniteSet(DOMAIN Allocations) /\ DOMAIN Allocations \subseteq Address
    /\ \A a \in DOMAIN Allocations : Allocations[a] \in Amount
    /\ BlockReward \in Amount
    /\ \A some \in SUBSET Address : Rejected \notin [some -> Account]

-----------------------------------------------------------------------------

\* The constructor: the genesis allocations, every nonce at zero.
GenesisAccounts ==
    [a \in DOMAIN Allocations |-> [balance |-> Allocations[a], nonce |-> 0]]

\* Faulty validations, which the properties must notice.
ValidateAgainst_SignerNotCompared(accounts, tx) ==
    /\ tx.signer # NoSigner
    /\ tx.from \in DOMAIN accounts
    /\ tx.nonce = accounts[tx.from].nonce
    /\ tx.value <= accounts[tx.from].balance

ValidateAgainst_FutureNonce(accounts, tx) ==
    /\ tx.signer = tx.from
    /\ tx.from \in DOMAIN accounts
    /\ tx.nonce >= accounts[tx.from].nonce
    /\ tx.value <= accounts[tx.from].balance

\* validateAgainst: the signature is the sender's, the sender exists, the
\* nonce is the next one, the balance covers the value.
ValidateAgainst(accounts, tx) ==
    /\ tx.signer = tx.from
    /\ tx.from \in DOMAIN accounts
    /\ tx.nonce = accounts[tx.from].nonce
    /\ tx.value <= accounts[tx.from].balance

\* next[a].balance.units += units, where operator[] creates a missing account.
Credit(accounts, a, units) ==
    LET old == IF a \in DOMAIN accounts THEN accounts[a]
                                        ELSE [balance |-> 0, nonce |-> 0]
    IN  [x \in DOMAIN accounts \cup {a} |->
            IF x = a THEN [old EXCEPT !.balance = (@ + units) % Word]
                     ELSE accounts[x]]

Debit(accounts, tx) ==
    [accounts EXCEPT ![tx.from] =
        [balance |-> (@.balance - tx.value) % Word,
         nonce   |-> (@.nonce + 1) % Word]]

\* A faulty Transfer that reads both balances before it writes either.
Transfer_StaleReceiver(accounts, tx) ==
    LET paid == Debit(accounts, tx)
        got  == Credit(accounts, tx.to, tx.value)[tx.to].balance
    IN  [x \in DOMAIN accounts \cup {tx.to} |->
            IF x = tx.to
            THEN [balance |-> got,
                  nonce   |-> IF x \in DOMAIN paid THEN paid[x].nonce ELSE 0]
            ELSE paid[x]]

\* One transaction of a block: the receiver is credited on the map the
\* sender's debit has already changed, so that a transfer to oneself is one.
Transfer(accounts, tx) == Credit(Debit(accounts, tx), tx.to, tx.value)

\* One turn of apply()'s loop: the transaction is validated against the copy the
\* ones before it have changed, and the first invalid one refuses the block.
Execute(accounts, tx) ==
    IF accounts # Rejected /\ ValidateAgainst(accounts, tx)
    THEN Transfer(accounts, tx) ELSE Rejected

\* apply(): the transactions in order, then the beneficiary's reward.
Apply(accounts, block) ==
    LET executed == FoldLeft(Execute, accounts, block.transactions)
    IN  IF executed = Rejected THEN Rejected
        ELSE Credit(executed, block.beneficiary, BlockReward)
=============================================================================
