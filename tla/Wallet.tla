------------------------------- MODULE Wallet -------------------------------
(***************************************************************************)
(* A wallet process (wallet/local/Wallet.cpp, wallet/keystore/Keystore.cpp *)
(* over FileStore) and the node it asks (rpc/node/NodeApi.cpp, with the    *)
(* mempool and the ledger): the creation of accounts, and payments signed  *)
(* with the nonce the node answers (TerminalUi::sendValue,                 *)
(* WebUi::sendValue).                                                      *)
(*                                                                         *)
(* The wallet does one command at a time.  A payment it has sent is an     *)
(* attempt, which the node handles in a thread of its own, whether or not  *)
(* the wallet still waits for the answer.  Balances never decide here; the *)
(* node neither restarts nor abandons a block.                             *)
(***************************************************************************)
EXTENDS Storage, Sequences, SequencesExt, FiniteSets

CONSTANTS
    Address, Index,     \* the keys of the store
    Payment, From,      \* what users want paid, and by which address
    Nobody,
    MaxAttempts         \* bound: payments sent

ASSUME WalletAssumption ==
    /\ Key = Address \cup {Index} /\ Index \notin Address
    /\ IsFiniteSet(Address)
    /\ Address \subseteq Value   \* the records of their keys
    /\ \A n \in 0 .. Cardinality(Address) : [1 .. n -> Address] \subseteq Value
    /\ From \in [Payment -> Address] /\ Nobody \notin Address \cup Payment
    /\ MaxAttempts \in Nat

VARIABLES
    command,    \* what the wallet is doing
    subject,    \* the address it creates, or the payment it makes
    made,       \* the key pairs generated so far
    told,       \* the addresses users have been given
    attempts,   \* the payments sent, in order
    pool,       \* the node's mempool
    chain,      \* the transfers executed by the node's ledger
    executed    \* a block's, which the pool has yet to be told of

wallet == <<command, subject, made, told>>
node   == <<attempts, pool, chain, executed>>
vars   == <<storage, wallet, node>>

Init ==
    /\ StorageInit
    /\ command = "idle" /\ subject = Nobody
    /\ made = {} /\ told = {}
    /\ attempts = <<>>
    /\ pool = {} /\ chain = <<>> /\ executed = {}

Do(next) == command' = next
Done == Do("idle") /\ subject' = Nobody

-----------------------------------------------------------------------------
(* Accounts. *)

\* The keystore of the wallet is opened.
Start ==
    /\ Load \/ LoadUnreadable
    /\ UNCHANGED <<wallet, node>>

\* The command in progress is forgotten.
Stop ==
    /\ Crash \/ PowerFails
    /\ Done
    /\ UNCHANGED <<made, told, node>>

Put(key, value) == Begin([k \in {key} |-> value])

\* Keystore::list.
Listed(map) == IF map[Index] = Absent THEN <<>> ELSE map[Index]

CreateAccount_IndexFirst(a) ==   \* faulty: the record comes second
    /\ command = "idle"
    /\ a \notin made
    /\ made' = made \cup {a}
    /\ Put(Index, Append(Listed(entries), a))
    /\ Do("putKey") /\ subject' = a
    /\ UNCHANGED <<told, node>>

\* createAccount: a new key pair, whose record Keystore::save puts first.
CreateAccount(a) ==
    /\ command = "idle"
    /\ a \notin made
    /\ made' = made \cup {a}
    /\ Put(a, a)
    /\ Do("putKey") /\ subject' = a
    /\ UNCHANGED <<told, node>>

PutIndex_NewOnly ==   \* faulty: the index forgets the other accounts
    /\ command = "putKey" /\ answer = "ok"
    /\ Put(Index, <<subject>>)
    /\ Do("putIndex")
    /\ UNCHANGED <<subject, made, told, node>>

\* Then the list of what is known, and the new address.
PutIndex ==
    /\ command = "putKey" /\ answer = "ok"
    /\ Put(Index, Append(Listed(entries), subject))
    /\ Do("putIndex")
    /\ UNCHANGED <<subject, made, told, node>>

\* The user is given the address.
AccountCreated ==
    /\ command = "putIndex" /\ answer = "ok"
    /\ told' = told \cup {subject}
    /\ Done
    /\ UNCHANGED <<storage, made, node>>

CreationFails ==
    /\ command \in {"putKey", "putIndex"} /\ answer = "failed"
    /\ Done
    /\ UNCHANGED <<storage, made, told, node>>

-----------------------------------------------------------------------------
(* Payments. *)

Transfer(x, nonce) == [pay |-> x, nonce |-> nonce]

\* The transfers of one sender and nonce, of which the pool keeps one.
Alike(t, u) == From[t.pay] = From[u.pay] /\ t.nonce = u.nonce

\* getAccount.
NonceOf(a) == Cardinality({i \in DOMAIN chain : From[chain[i].pay] = a})

Valid_NonceNotChecked(t) == TRUE   \* faulty

Valid(t) == t.nonce = NonceOf(From[t.pay])

\* sendValue asks the node for the nonce of the sender...
AskNonce(x) ==
    /\ up /\ command = "idle"
    /\ Len(attempts) < MaxAttempts
    /\ attempts' = Append(attempts, [transfer |-> Transfer(x, NonceOf(From[x])),
                                     read |-> Len(chain), at |-> "wallet",
                                     outcome |-> "none"])
    /\ Do("sign") /\ subject' = x
    /\ UNCHANGED <<storage, made, told, pool, chain, executed>>

Move(i, at, outcome) ==
    attempts' = [attempts EXCEPT ![i].at = at, ![i].outcome = outcome]

\* Keystore::load finds the key of the address.
CanSign(a) == entries[a] # Absent

\* ... signs with the key of the sender, if the keystore has it, and sends.
Submit ==
    /\ command = "sign"
    /\ IF CanSign(From[subject])
       THEN /\ Do("wait") /\ UNCHANGED subject
            /\ Move(Len(attempts), "sent", "none")
       ELSE Done /\ UNCHANGED attempts
    /\ UNCHANGED <<storage, made, told, pool, chain, executed>>

\* The receipt comes, or the wallet gives up waiting for it.
Answered ==
    /\ command = "wait"
    /\ Done
    /\ UNCHANGED <<storage, made, told, node>>

\* SimpleMempool::add: the ledger is read first...
CheckTransfer(i) ==
    /\ attempts[i].at = "sent"
    /\ IF Valid(attempts[i].transfer) THEN Move(i, "checked", "none")
       ELSE Move(i, "node", "rejected")
    /\ UNCHANGED <<storage, wallet, pool, chain, executed>>

\* ... and the pool after it.
PushTransfer(i) ==
    /\ attempts[i].at = "checked"
    /\ LET t == attempts[i].transfer
       IN  IF \E u \in pool : Alike(t, u)
           THEN Move(i, "node", "already-known") /\ UNCHANGED pool
           ELSE Move(i, "node", "added") /\ pool' = pool \cup {t}
    /\ UNCHANGED <<storage, wallet, chain, executed>>

RemoveIncluded_AnySender ==   \* faulty: any transfer of that nonce goes
    /\ executed # {}
    /\ pool' = {t \in pool : \A u \in executed : t.nonce # u.nonce}
    /\ executed' = {}
    /\ UNCHANGED <<storage, wallet, attempts, chain>>

\* removeIncluded, which hears of the block after the ledger.
RemoveIncluded ==
    /\ executed # {}
    /\ pool' = {t \in pool : \A u \in executed : ~Alike(t, u)}
    /\ executed' = {}
    /\ UNCHANGED <<storage, wallet, attempts, chain>>

\* take evicts what has become invalid.
Evict ==
    /\ \E t \in pool : ~Valid(t)
    /\ pool' = {t \in pool : Valid(t)}
    /\ UNCHANGED <<storage, wallet, attempts, chain, executed>>

\* A block, of this node or of a peer the transfers were relayed to; the next one
\* waits for the pool here.
Include(block) ==
    /\ executed = {}
    /\ block # {}
    /\ \A t \in block : Valid(t)
    /\ chain' = chain \o SetToSeq(block)
    /\ executed' = block
    /\ UNCHANGED <<storage, wallet, attempts, pool>>

-----------------------------------------------------------------------------
Next ==
    \/ Start \/ Stop
    \/ StorageStep /\ UNCHANGED <<wallet, node>>
    \/ \E a \in Address : CreateAccount(a)
    \/ PutIndex \/ AccountCreated \/ CreationFails
    \/ \E x \in Payment : AskNonce(x)
    \/ Submit \/ Answered
    \/ \E i \in DOMAIN attempts : CheckTransfer(i) \/ PushTransfer(i)
    \/ \E block \in SUBSET pool : Include(block)
    \/ RemoveIncluded \/ Evict

Spec == Init /\ [][Next]_vars

-----------------------------------------------------------------------------
(* Properties. *)

\* An address that a user has been given has its key in the file for ever,
\* through errors and stops, unless something fails that the code does not notice
\* (Keystore::save, FileStore::save).
KeysAreKept ==
    silent = 0 =>
        \A a \in told :
            /\ file \notin {Missing, Torn}
            /\ file[a] = a
            /\ a \in Range(Listed(file))

\* What is listed can be signed for, in memory and in the file, whatever fails:
\* an account left half created is never listed (Keystore::save, list).
ListedCanSign ==
    \A map \in {entries, file} \ {Missing, Torn} :
        \A a \in Range(Listed(map)) : map[a] = a

\* Until a failure the file store is the atomic store of docs/ARCHITECTURE.md:127,
\* wherever the process stops (FileStore::save, load).
StoreIsAtomic ==
    AS!Init /\ [][faults' = 0 /\ silent' = 0 => AS!Next]_(AS!vars)

\* A payment is executed again only for a request made after it had been executed:
\* one that is sent again because no answer came is paid once (sendValue, add).
PaidOnce ==
    \A i, j \in DOMAIN chain :
        i < j /\ chain[i].pay = chain[j].pay =>
            \E k \in DOMAIN attempts :
                attempts[k].transfer = chain[j] /\ attempts[k].read >= i

\* A payment that was answered as added is in the pool or executed, or another
\* transfer of its sender and nonce is: nothing else takes it out of the pool
\* (add, removeIncluded, take).
AddedIsKept ==
    \A i \in DOMAIN attempts :
        attempts[i].outcome = "added" =>
            \E t \in pool \cup Range(chain) :
                Alike(t, attempts[i].transfer)
=============================================================================
