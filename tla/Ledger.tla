------------------------------- MODULE Ledger -------------------------------
(***************************************************************************)
(* The ledger of one chain that grows block by block: what every node      *)
(* computes by applying the blocks of its canonical chain in order, with   *)
(* the properties that make it a currency.                                 *)
(***************************************************************************)
EXTENDS Accounts

CONSTANTS
    Offered,       \* the transactions that may appear in a block
    MaxTxs,        \* bound: transactions in a block
    MaxBlocks      \* bound: blocks executed

ASSUME LedgerAssumption ==
    /\ Offered \subseteq Transaction
    /\ MaxTxs \in Nat
    /\ MaxBlocks \in Nat


VARIABLES
    accounts,   \* AccountStateMachine::_accounts of the current head
    height,     \* blocks executed since genesis
    executed    \* history: every transaction executed, in order

vars == <<accounts, height, executed>>

Block == [transactions: BoundedSeq(Offered, MaxTxs), beneficiary: Address]

Init ==
    /\ accounts = GenesisAccounts
    /\ height = 0
    /\ executed = <<>>

ExecuteBlock(block) ==
    /\ height < MaxBlocks
    /\ Apply(accounts, block) # Rejected
    /\ accounts' = Apply(accounts, block)
    /\ height' = height + 1
    /\ executed' = executed \o block.transactions

Next == \E block \in Block : ExecuteBlock(block)

Spec == Init /\ [][Next]_vars

-----------------------------------------------------------------------------
(* Properties. *)

Units(acc) == SumFunction([a \in DOMAIN acc |-> acc[a].balance])

\* A block of rewards and transfers cannot wrap a balance.
Fits(acc) == Units(acc) + BlockReward < Word

\* Executing blocks mints exactly one reward per block and loses nothing, in
\* the word's arithmetic: transfers, transfers to oneself and to new accounts
\* conserve the sum of the balances (the debit, the credit and the reward of
\* AccountStateMachine::apply), each of which fits the word.
SupplyIsMinted ==
    /\ accounts \in [DOMAIN accounts -> Account]
    /\ Units(accounts) % Word = (Units(GenesisAccounts) + height * BlockReward) % Word

\* The transfers of an account among those executed at some positions.
Spends(a, positions) == Cardinality({i \in positions : executed[i].from = a})

\* The transfers of one account execute once each, however they are repeated in
\* later blocks or in the same one, in the order of their nonces and without a
\* hole (the nonce test of validateAgainst and the increment of apply): a nonce
\* counts its sender's transfers before it, in the word's arithmetic.
NoncesAreConsecutive ==
    \A i \in DOMAIN executed :
        executed[i].nonce = Spends(executed[i].from, 1 .. i - 1) % Word

\* No block takes units from an account whose owner signed none of its
\* transactions, unless its balance wraps, and no account ever disappears (all
\* of apply()).
SpendsAreSigned ==
    [][\A a \in DOMAIN accounts :
        /\ a \in DOMAIN accounts'
        /\ Fits(accounts) /\ accounts'[a].balance < accounts[a].balance =>
             \E i \in Len(executed) + 1 .. Len(executed') : executed'[i].signer = a
      ]_vars

\* What SimpleMempool::take answers: transactions that are each valid against
\* the same ledger and differ in (from, nonce), in the pool's order.
Takeable ==
    { txs \in BoundedSeq({tx \in Offered : ValidateAgainst(accounts, tx)}, MaxTxs) :
        \A i, j \in DOMAIN txs :
            txs[i].from = txs[j].from /\ txs[i].nonce = txs[j].nonce => i = j }

\* The miner's draft always executes: transactions that take() validated one by
\* one against a ledger are jointly valid in any order, so mineOne never fails
\* on "executing draft" because of the pool (Miner.cpp, SimpleMempool.cpp); only
\* a credit that wraps could take back what a later transfer spends.
PoolIsExecutable ==
    Fits(accounts) => \A txs \in Takeable, b \in Address :
        Apply(accounts, [transactions |-> txs, beneficiary |-> b]) # Rejected
=============================================================================
