------------------------------- MODULE Mining -------------------------------
(***************************************************************************)
(* The threads of one node around its chain manager: the miner's loop      *)
(* (mining/local/Miner.cpp), the transaction pool                          *)
(* (mempool/simple/SimpleMempool.cpp), the threads that deliver remote     *)
(* blocks and transactions, and the shutdown (node/Node.cpp).              *)
(*                                                                         *)
(* The chain manager is reduced to what these threads see of it: it        *)
(* changes its head and then its ledger under its mutex, and tells its     *)
(* subscribers after releasing it; a new head is higher than the old one   *)
(* or, by the tie-break of hashes, of its height.  A ledger is reduced to  *)
(* the nonces of the accounts: balances play no part in what follows.      *)
(***************************************************************************)
EXTENDS Integers, Sequences, SequencesExt

CONSTANTS
    Threads,    \* the threads that deliver blocks and transactions
    Miner,      \* the miner's thread
    Free,       \* the manager's mutex when no thread holds it
    NoTx,       \* no transaction is being added
    Senders,    \* accounts that send transactions
    MaxTxs,     \* block.maxTransactions
    MaxHeads,   \* bound: heads the chain ever has
    MaxNonce    \* bound: transfers of one account

Nonces == [Senders -> 0 .. MaxNonce]
Tx == [from : Senders, nonce : 0 .. MaxNonce]

ASSUME MiningAssumption ==
    /\ Miner \notin Threads
    /\ Free \notin Threads \cup {Miner}
    /\ NoTx \notin Tx
    /\ MaxTxs \in Nat
    /\ MaxHeads \in Nat \ {0}
    /\ MaxNonce \in Nat

VARIABLES
    heads,        \* every block that has been head, in order; the last is now
    ledger,       \* position in heads of the block _ledger is the state after
    lock,         \* who holds ChainManager::_mutex
    pc,           \* what each thread does
    job,          \* position in heads of what each thread works on
    adding,       \* the transaction each thread is adding
    pool,         \* SimpleMempool::_transactions
    draft,        \* mineOne's draft
    interrupted,  \* _sealInterrupt's current source has been stopped
    main          \* the main thread: Node::run and Miner::stop

vars == <<heads, ledger, lock, pc, job, adding, pool, draft, interrupted, main>>

\* A block by its height, the nonces after it and the transactions in it.
Block == [height : 0 .. MaxHeads, nonces : Nonces, transactions : SUBSET Tx]

Draft == [parent : 0 .. MaxHeads, height : 0 .. MaxHeads + 1, txs : Seq(Tx),
          after : 0 .. MaxHeads, base : 0 .. MaxHeads]

NoJob == 0
NoDraft == [parent |-> 0, height |-> 0, txs |-> <<>>, after |-> 0, base |-> 0]

head == Len(heads)
Workers == Threads \cup {Miner}

\* A transaction is valid on the ledger after a block (validateTransaction).
ValidAfter(i, tx) == tx.nonce = heads[i].nonces[tx.from]

Init ==
    /\ heads = <<[height |-> 0, nonces |-> [s \in Senders |-> 0],
                  transactions |-> {}]>>
    /\ ledger = 1
    /\ lock = Free
    /\ pc = [t \in Workers |-> IF t = Miner THEN "loop" ELSE "idle"]
    /\ job = [t \in Workers |-> NoJob]
    /\ adding = [t \in Threads |-> NoTx]
    /\ pool = <<>>
    /\ draft = NoDraft
    /\ interrupted = FALSE
    /\ main = "running"

Goto(t, label) == pc' = [pc EXCEPT ![t] = label]

\* std::erase_if: a pool without some transactions, the others in their order.
Without(txs, erased) ==
    FoldLeft(LAMBDA kept, tx : IF tx \in erased THEN kept ELSE Append(kept, tx),
             <<>>, txs)

-----------------------------------------------------------------------------
(* importBlock, for a block that becomes head. *)

\* The blocks that can replace the head: a child of it, or the tip of a better
\* branch.  A block has at most one transaction of each sender, so below a block
\* of height h an account has made at most h - 1.
Better(b) ==
    /\ b.height \in {heads[head].height, heads[head].height + 1} \ {0}
    /\ \A tx \in b.transactions : tx.nonce = b.nonces[tx.from] - 1
    /\ \A s \in Senders :
          \/ b.nonces[s] < b.height
          \/ b.nonces[s] = b.height /\ \E tx \in b.transactions : tx.from = s

\* appendBlock or adoptBranch has returned: the head has changed and the ledger
\* has not.
NewHead(t, b) ==
    /\ lock = Free
    /\ head < MaxHeads
    /\ lock' = t
    /\ heads' = Append(heads, b)
    /\ job' = [job EXCEPT ![t] = head + 1]
    /\ Goto(t, "install")

RemoteHead(t) ==
    /\ pc[t] = "idle"
    /\ \E b \in Block : Better(b) /\ NewHead(t, b)
    /\ UNCHANGED <<ledger, adding, pool, draft, interrupted, main>>

\* The manager installs the ledger and releases its mutex.
Install(t) ==
    /\ pc[t] = "install"
    /\ ledger' = job[t]
    /\ lock' = Free
    /\ Goto(t, "remove")
    /\ UNCHANGED <<heads, job, adding, pool, draft, interrupted, main>>

\* The first subscriber, the pool's removeIncluded; the miner's comes last and
\* ignores a local block.
RemoveIncluded(t) ==
    /\ pc[t] = "remove"
    /\ pool' = Without(pool, heads[job[t]].transactions)
    /\ job' = [job EXCEPT ![t] = NoJob]
    /\ Goto(t, IF t = Miner THEN "loop" ELSE "interrupt")
    /\ UNCHANGED <<heads, ledger, lock, adding, draft, interrupted, main>>

\* The miner's subscriber, once the protocol's has announced the block.
InterruptSeal(t) ==
    /\ pc[t] = "interrupt"
    /\ interrupted' = TRUE
    /\ Goto(t, "idle")
    /\ UNCHANGED <<heads, ledger, lock, job, adding, pool, draft, main>>

-----------------------------------------------------------------------------
(* SimpleMempool::add. *)

\* The transaction is valid on the ledger as it is now.
CheckTransaction(t) ==
    /\ pc[t] = "idle"
    /\ lock = Free
    /\ \E tx \in Tx :
          /\ ValidAfter(ledger, tx)
          /\ adding' = [adding EXCEPT ![t] = tx]
    /\ Goto(t, "push")
    /\ UNCHANGED <<heads, ledger, lock, job, pool, draft, interrupted, main>>

PushTransaction_Unchecked(t) ==   \* faulty: does not look for the nonce
    /\ pc[t] = "push"
    /\ pool' = Append(pool, adding[t])
    /\ adding' = [adding EXCEPT ![t] = NoTx]
    /\ Goto(t, "idle")
    /\ UNCHANGED <<heads, ledger, lock, job, draft, interrupted, main>>

\* It is added unless the pool holds one of that sender and nonce.
PushTransaction(t) ==
    /\ pc[t] = "push"
    /\ pool' = IF adding[t] \in Range(pool) THEN pool ELSE Append(pool, adding[t])
    /\ adding' = [adding EXCEPT ![t] = NoTx]
    /\ Goto(t, "idle")
    /\ UNCHANGED <<heads, ledger, lock, job, draft, interrupted, main>>

-----------------------------------------------------------------------------
(* The miner. *)

Stopping == main # "running"

MinerLoop_NotCancelled ==   \* faulty: never looks at the stop request
    /\ pc[Miner] = "loop"
    /\ Goto(Miner, "arm")
    /\ UNCHANGED <<heads, ledger, lock, job, adding, pool, draft, interrupted, main>>

\* miningLoop's test, then armSealInterrupt's new source.
MinerLoop ==
    /\ pc[Miner] = "loop"
    /\ Goto(Miner, IF Stopping THEN "ended" ELSE "arm")
    /\ UNCHANGED <<heads, ledger, lock, job, adding, pool, draft, interrupted, main>>

Arm ==
    /\ pc[Miner] = "arm"
    /\ interrupted' = FALSE
    /\ Goto(Miner, "parent")
    /\ UNCHANGED <<heads, ledger, lock, job, adding, pool, draft, main>>

ReadParent ==
    /\ pc[Miner] = "parent"
    /\ draft' = [NoDraft EXCEPT !.parent = head]
    /\ Goto(Miner, "height")
    /\ UNCHANGED <<heads, ledger, lock, job, adding, pool, interrupted, main>>

ReadHeight ==
    /\ pc[Miner] = "height"
    /\ draft' = [draft EXCEPT !.height = heads[head].height + 1]
    /\ Goto(Miner, "take")
    /\ UNCHANGED <<heads, ledger, lock, job, adding, pool, interrupted, main>>

TakeLedger_NotLocked ==   \* faulty: reads _ledger without the mutex
    /\ pc[Miner] = "take"
    /\ job' = [job EXCEPT ![Miner] = ledger]
    /\ Goto(Miner, "evict")
    /\ UNCHANGED <<heads, ledger, lock, adding, pool, draft, interrupted, main>>

\* SimpleMempool::take reads the ledger before it locks the pool.
TakeLedger ==
    /\ pc[Miner] = "take"
    /\ lock = Free
    /\ job' = [job EXCEPT ![Miner] = ledger]
    /\ Goto(Miner, "evict")
    /\ UNCHANGED <<heads, ledger, lock, adding, pool, draft, interrupted, main>>

Evicted(i) == { tx \in Range(pool) : ~ValidAfter(i, tx) }

Take ==
    /\ pc[Miner] = "evict"
    /\ pool' = Without(pool, Evicted(job[Miner]))
    /\ draft' = [draft EXCEPT !.txs =
          SubSeq(pool', 1, IF Len(pool') < MaxTxs THEN Len(pool') ELSE MaxTxs)]
    /\ job' = [job EXCEPT ![Miner] = NoJob]
    /\ Goto(Miner, "prepare")
    /\ UNCHANGED <<heads, ledger, lock, adding, interrupted, main>>

\* PowEngine::prepare reads the head once more: the draft's time is after its.
Prepare ==
    /\ pc[Miner] = "prepare"
    /\ draft' = [draft EXCEPT !.after = head]
    /\ Goto(Miner, "preview")
    /\ UNCHANGED <<heads, ledger, lock, job, adding, pool, interrupted, main>>

Executable == \A tx \in Range(draft.txs) : ValidAfter(ledger, tx)

Preview_ParentReadAgain ==   \* faulty: moves the draft to the head of now
    /\ pc[Miner] = "preview"
    /\ lock = Free
    /\ Executable
    /\ draft' = [draft EXCEPT !.base = ledger, !.parent = head]
    /\ Goto(Miner, "seal")
    /\ UNCHANGED <<heads, ledger, lock, job, adding, pool, interrupted, main>>

Preview_ArmsLate ==   \* faulty: arms the token only once the draft is ready
    /\ pc[Miner] = "preview"
    /\ lock = Free
    /\ Executable
    /\ draft' = [draft EXCEPT !.base = ledger]
    /\ interrupted' = FALSE
    /\ Goto(Miner, "seal")
    /\ UNCHANGED <<heads, ledger, lock, job, adding, pool, main>>

\* The draft is executed on the ledger as it is then; a draft that fails is
\* given up.
Preview ==
    /\ pc[Miner] = "preview"
    /\ lock = Free
    /\ IF Executable
       THEN /\ draft' = [draft EXCEPT !.base = ledger]
            /\ Goto(Miner, "seal")
       ELSE /\ draft' = NoDraft
            /\ Goto(Miner, "loop")
    /\ UNCHANGED <<heads, ledger, lock, job, adding, pool, interrupted, main>>

\* One turn of PowEngine::seal: the token, then one nonce.
CheckToken ==
    /\ pc[Miner] = "seal"
    /\ IF interrupted
       THEN draft' = NoDraft /\ Goto(Miner, "loop")
       ELSE UNCHANGED draft /\ Goto(Miner, "hash")
    /\ UNCHANGED <<heads, ledger, lock, job, adding, pool, interrupted, main>>

SealFound ==
    /\ pc[Miner] = "hash"
    /\ Goto(Miner, "import")
    /\ UNCHANGED <<heads, ledger, lock, job, adding, pool, draft, interrupted, main>>

SealNotFound ==
    /\ pc[Miner] = "hash"
    /\ Goto(Miner, "seal")
    /\ UNCHANGED <<heads, ledger, lock, job, adding, pool, draft, interrupted, main>>

\* Height and ledger are those of the parent, and then the time is after its too.
DraftIsChild ==
    /\ draft.height = heads[draft.parent].height + 1
    /\ draft.base = draft.parent

DraftIsWhole == DraftIsChild /\ draft.after = draft.parent

\* What a child of its parent is, once sealed.
Sealed ==
    [height       |-> draft.height,
     nonces       |-> [s \in Senders |->
                        heads[draft.parent].nonces[s]
                        + (IF \E tx \in Range(draft.txs) : tx.from = s
                           THEN 1 ELSE 0)],
     transactions |-> Range(draft.txs)]

\* importBlock adopts it: it extends the head, or is a better sibling of it by
\* its hash.  A time read from another head may be late enough.
LocalHead ==
    /\ pc[Miner] = "import"
    /\ DraftIsChild
    /\ Sealed \in Block
    /\ Better(Sealed)
    /\ NewHead(Miner, Sealed)
    /\ draft' = NoDraft
    /\ UNCHANGED <<ledger, adding, pool, interrupted, main>>

\* importBlock does not: the draft is incoherent, or stale and no better than the
\* head, or stale with a timestamp prepare() took from another head than its
\* parent; at the bounds, as when the write of the block fails.
LocalKept ==
    /\ pc[Miner] = "import"
    /\ lock = Free
    /\ \/ ~DraftIsWhole
       \/ draft.parent # head
       \/ head = MaxHeads \/ Sealed \notin Block
    /\ draft' = NoDraft
    /\ Goto(Miner, "loop")
    /\ UNCHANGED <<heads, ledger, lock, job, adding, pool, interrupted, main>>

-----------------------------------------------------------------------------
(* The main thread: Node::run's end and Miner::stop. *)

RequestStop ==
    /\ main = "running"
    /\ main' = "requested"
    /\ UNCHANGED <<heads, ledger, lock, pc, job, adding, pool, draft, interrupted>>

StopInterrupts ==
    /\ main = "requested"
    /\ main' = "joining"
    /\ interrupted' = TRUE
    /\ UNCHANGED <<heads, ledger, lock, pc, job, adding, pool, draft>>

Join ==
    /\ main = "joining"
    /\ pc[Miner] = "ended"
    /\ main' = "stopped"
    /\ UNCHANGED <<heads, ledger, lock, pc, job, adding, pool, draft, interrupted>>

-----------------------------------------------------------------------------
MinerStep ==
    \/ MinerLoop \/ Arm \/ ReadParent \/ ReadHeight \/ TakeLedger \/ Take
    \/ Prepare \/ Preview \/ CheckToken \/ SealFound \/ SealNotFound
    \/ LocalHead \/ LocalKept
    \/ Install(Miner) \/ RemoveIncluded(Miner)

\* What a thread does of itself once it has begun.
ThreadStep(t) ==
    Install(t) \/ RemoveIncluded(t) \/ InterruptSeal(t) \/ PushTransaction(t)

MainStep == StopInterrupts \/ Join

Next ==
    \/ MinerStep
    \/ \E t \in Threads : RemoteHead(t) \/ CheckTransaction(t) \/ ThreadStep(t)
    \/ RequestStop
    \/ MainStep

Spec == Init /\ [][Next]_vars

\* Threads run; each nonce tried may be the one, so sealing ends.
Fairness ==
    /\ WF_vars(MinerStep)
    /\ SF_vars(SealFound)
    /\ \A t \in Threads : WF_vars(ThreadStep(t))
    /\ WF_vars(MainStep)

FairSpec == Spec /\ Fairness

-----------------------------------------------------------------------------
(* Properties. *)

\* Every variable holds a value of the code's type; the mutex is held by the
\* thread that is between the new head and its ledger, and by no other; the pool
\* has one transfer per sender and nonce, though two threads add to it.
TypeOK ==
    /\ heads \in Seq(Block) /\ head \in 1 .. MaxHeads
    /\ ledger \in 1 .. head
    /\ lock \in Workers \cup {Free}
    /\ \A t \in Workers : lock = t <=> pc[t] = "install"
    /\ \A t \in Threads : pc[t] \in {"idle", "install", "remove", "interrupt", "push"}
    /\ pc[Miner] \in {"loop", "arm", "parent", "height", "take", "evict", "prepare", "preview",
                      "seal", "hash", "import", "install", "remove", "ended"}
    /\ job \in [Workers -> {NoJob} \cup 1 .. head]
    /\ adding \in [Threads -> Tx \cup {NoTx}]
    /\ pool \in Seq(Tx) /\ IsInjective(pool)
    /\ draft \in Draft
    /\ interrupted \in BOOLEAN
    /\ main \in {"running", "requested", "joining", "stopped"}

\* A thread is between the change of the head and the miner's subscriber.
Notifying == \E t \in Threads : pc[t] \in {"install", "remove", "interrupt"}

\* The miner never seals on a superseded head for longer than it takes to
\* deliver the block that superseded it: mineOne arms the token before it reads
\* the head, so no notification falls between the two and is lost.
StaleSealIsInterrupted ==
    /\ pc[Miner] \in {"seal", "hash"}
    /\ draft.parent # head
    => interrupted \/ Notifying

\* A block sealed on the current head is never refused: although its parent,
\* height, transactions and ledger are read one by one without the manager's
\* mutex, a head that is still the head was so at each reading.
SealOnHeadIsWhole ==
    pc[Miner] \in {"seal", "hash", "import"} /\ draft.parent = head => DraftIsWhole

\* mineOne only fails with "executing draft" when the head has moved since it
\* read it: take() and the preview then read different ledgers.
DraftFailsOnlyIfStale ==
    pc[Miner] = "preview" /\ lock = Free /\ ~Executable => draft.parent # head

\* A node asked to stop does stop: the miner's thread ends whatever it was
\* doing, once the seal in progress ends.
StopEnds == main = "requested" ~> main = "stopped"

\* Miner::stop interrupts the seal: once it waits for the thread, no seal is in
\* progress that its stop request has not cancelled.
StopInterruptsSeal ==
    main = "joining" /\ pc[Miner] \in {"seal", "hash"} => interrupted
=============================================================================
