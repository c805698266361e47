---------------------------- MODULE Mining_proofs ---------------------------
(***************************************************************************)
(* Proofs about Mining, for any number of threads, senders and heads: what *)
(* the miner reads piecewise, and the token it has armed before, are       *)
(* enough.                                                                 *)
(***************************************************************************)
EXTENDS Mining, Inductions

\* Where the miner has a parent, its height, what prepare() read and a ledger.
HasParent == {"height", "take", "evict", "prepare", "preview", "seal", "hash", "import"}
HasHeight == HasParent \ {"height"}
HasTime   == {"preview", "seal", "hash", "import"}
HasBase   == {"seal", "hash", "import"}

\* The shape of what follows; the pool plays no part in it.
ShapeInv ==
    /\ heads \in Seq(Block) /\ head >= 1
    /\ ledger \in Nat
    /\ pc = [t \in Workers |-> pc[t]]
    /\ job \in [Workers -> Nat]
    /\ draft = [parent |-> draft.parent, height |-> draft.height,
                txs |-> draft.txs, after |-> draft.after, base |-> draft.base]

\* The head changes under the mutex, which the ledger follows before it is free.
LockInv ==
    /\ lock = Free => ledger = head
    /\ \A t \in Workers : pc[t] = "install" => lock = t /\ job[t] = head

\* What the draft has is of its parent, while that is the head.
DraftInv ==
    /\ pc[Miner] \in HasParent => draft.parent \in 1 .. head
    /\ draft.parent = head =>
         /\ pc[Miner] \in HasHeight => draft.height = heads[head].height + 1
         /\ pc[Miner] \in HasTime => draft.after = head
         /\ pc[Miner] \in HasBase => draft.base = head

\* From the reading of the parent on, a new head is notified.
TokenInv ==
    pc[Miner] \in HasParent /\ draft.parent # head => interrupted \/ Notifying

Inv == ShapeInv /\ LockInv /\ DraftInv /\ TokenInv

-----------------------------------------------------------------------------
\* A block appended to heads leaves the others where they are.
LEMMA AppendHead ==
    ASSUME heads \in Seq(Block), NEW b \in Block, heads' = Append(heads, b)
    PROVE  /\ heads' \in Seq(Block)
           /\ head' = head + 1
           /\ \A i \in 1 .. head : heads'[i] = heads[i]
    BY DEF head

\* The loop has its genesis head and nothing in progress.
LEMMA InitInv == Init => Inv
<1> SUFFICES ASSUME Init PROVE Inv
    OBVIOUS
<1>1. [height |-> 0, nonces |-> [s \in Senders |-> 0], transactions |-> {}] \in Block
    BY MiningAssumption DEF Block, Nonces
<1>2. heads \in Seq(Block) /\ head = 1
    BY <1>1 DEF Init, head
<1>3. ShapeInv
    BY <1>2 DEF Init, ShapeInv, Workers, NoJob, NoDraft
<1>4. pc[Miner] = "loop" /\ \A t \in Workers : pc[t] # "install"
    BY DEF Init, Workers
<1>5. LockInv
    BY <1>2, <1>4 DEF Init, LockInv
<1>6. DraftInv /\ TokenInv
    BY <1>4 DEF DraftInv, TokenInv, HasParent, HasHeight, HasTime, HasBase
<1> QED
    BY <1>3, <1>5, <1>6 DEF Inv

\* A new head, local or remote: the mutex is taken until the ledger follows.
LEMMA NewHeadInv ==
    ASSUME Inv, NEW t \in Workers, NEW b \in Block, NewHead(t, b), UNCHANGED ledger
    PROVE  /\ heads' \in Seq(Block) /\ head' = head + 1
           /\ head \in Nat \ {0}
           /\ \A i \in 1 .. head : heads'[i] = heads[i]
           /\ pc' = [u \in Workers |-> pc'[u]] /\ job' \in [Workers -> Nat]
           /\ pc' = [pc EXCEPT ![t] = "install"]
           /\ LockInv'
<1>1. /\ heads' \in Seq(Block) /\ head' = head + 1
      /\ \A i \in 1 .. head : heads'[i] = heads[i]
    BY AppendHead DEF Inv, ShapeInv, NewHead
<1>2. head \in Nat \ {0}
    BY DEF Inv, ShapeInv, head
<1>3. /\ pc' = [pc EXCEPT ![t] = "install"]
      /\ job' = [job EXCEPT ![t] = head + 1]
    BY DEF NewHead, Goto
<1>4. pc' = [u \in Workers |-> pc'[u]]
    BY <1>3 DEF Inv, ShapeInv
<1>5. job' \in [Workers -> Nat]
    BY <1>2, <1>3 DEF Inv, ShapeInv
<1>6. lock' = t /\ lock' # Free
    BY MiningAssumption DEF NewHead, Workers
<1>7. \A u \in Workers : pc[u] # "install"
    BY MiningAssumption DEF NewHead, Inv, LockInv, Workers
<1>8. LockInv'
    BY <1>1, <1>3, <1>4, <1>6, <1>7 DEF LockInv, Inv, ShapeInv
<1> QED
    BY <1>1, <1>2, <1>3, <1>4, <1>5, <1>8

\* A thread's step from a label to another, neither of them "install", that
\* leaves the heads, the ledger and the mutex alone.
LEMMA MoveInv ==
    ASSUME Inv, NEW t \in Workers, NEW label, label # "install",
           pc' = [pc EXCEPT ![t] = label], pc[t] # "install",
           UNCHANGED <<heads, ledger, lock>>,
           \/ UNCHANGED job
           \/ \E i \in Nat : job' = [job EXCEPT ![t] = i]
    PROVE  /\ heads' \in Seq(Block) /\ head' >= 1 /\ ledger' \in Nat
           /\ pc' = [u \in Workers |-> pc'[u]] /\ pc'[t] = label
           /\ job' \in [Workers -> Nat]
           /\ LockInv'
<1>1. /\ heads' \in Seq(Block) /\ head' = head /\ head' >= 1 /\ ledger' \in Nat
      /\ pc' = [u \in Workers |-> pc'[u]] /\ pc'[t] = label
    BY DEF Inv, ShapeInv, head
<1>2. job' \in [Workers -> Nat]
    BY DEF Inv, ShapeInv
<1>3. \A u \in Workers : pc'[u] = "install" => u # t /\ pc[u] = "install" /\ job'[u] = job[u]
    BY DEF Inv, ShapeInv
<1>4. LockInv'
    BY <1>1, <1>3 DEF Inv, LockInv
<1> QED
    BY <1>1, <1>2, <1>4

\* The steps of the miner that fill the draft or give it up.
LEMMA MinerInv ==
    ASSUME Inv,
           \/ MinerLoop \/ Arm \/ ReadParent \/ ReadHeight \/ TakeLedger \/ Take
           \/ Prepare \/ Preview \/ CheckToken \/ SealFound \/ SealNotFound \/ LocalKept
    PROVE  Inv'
<1> USE DEF Goto
<1>1. Miner \in Workers
    BY DEF Workers
<1>2. \E label : /\ label \in {"loop", "ended", "arm", "parent", "prepare", "preview"} \cup HasParent
                 /\ pc' = [pc EXCEPT ![Miner] = label]
    BY DEF MinerLoop, Arm, ReadParent, ReadHeight, TakeLedger, Take, Prepare, Preview,
           CheckToken, SealFound, SealNotFound, LocalKept, HasParent
<1>3. pc[Miner] # "install" /\ UNCHANGED <<heads, ledger, lock>>
    BY DEF MinerLoop, Arm, ReadParent, ReadHeight, TakeLedger, Take, Prepare, Preview,
           CheckToken, SealFound, SealNotFound, LocalKept
<1>4. \/ UNCHANGED job
      \/ \E i \in Nat : job' = [job EXCEPT ![Miner] = i]
    BY DEF MinerLoop, Arm, ReadParent, ReadHeight, TakeLedger, Take, Prepare, Preview,
           CheckToken, SealFound, SealNotFound, LocalKept, Inv, ShapeInv, NoJob
<1>5. PICK label : /\ label \in {"loop", "ended", "arm", "parent", "prepare", "preview"} \cup HasParent
                   /\ pc' = [pc EXCEPT ![Miner] = label]
    BY <1>2
<1>6. /\ heads' \in Seq(Block) /\ head' >= 1 /\ ledger' \in Nat
      /\ pc' = [u \in Workers |-> pc'[u]] /\ pc'[Miner] = label
      /\ job' \in [Workers -> Nat]
      /\ LockInv'
    BY <1>1, <1>3, <1>4, <1>5, MoveInv DEF HasParent
<1>7. head' = head /\ head \in Nat \ {0} /\ (Notifying => Notifying')
  <2>1. \A t \in Threads : pc'[t] = pc[t]
    BY <1>5, MiningAssumption DEF Inv, ShapeInv, Workers
  <2>2. Notifying => Notifying'
    BY <2>1 DEF Notifying
  <2> QED
    BY <1>3, <2>2 DEF head, Inv, ShapeInv
<1>8. CASE MinerLoop \/ Arm \/ SealFound \/ SealNotFound \/ TakeLedger
    BY <1>6, <1>7, <1>8, <1>3
    DEF MinerLoop, Arm, SealFound, SealNotFound, TakeLedger, Inv, ShapeInv, DraftInv,
        TokenInv, HasParent, HasHeight, HasTime, HasBase
<1>9. CASE ReadParent \/ ReadHeight
    BY <1>6, <1>7, <1>9, <1>3
    DEF ReadParent, ReadHeight, NoDraft, Inv, ShapeInv, DraftInv,
        TokenInv, HasParent, HasHeight, HasTime, HasBase
<1>10. CASE Take \/ Prepare
    BY <1>6, <1>7, <1>10, <1>3
    DEF Take, Prepare, Inv, ShapeInv, DraftInv,
        TokenInv, HasParent, HasHeight, HasTime, HasBase
<1>11. ASSUME draft' = NoDraft, pc'[Miner] = "loop" PROVE Inv'
    BY <1>6, <1>11
    DEF NoDraft, Inv, ShapeInv, DraftInv, TokenInv, HasParent, HasHeight, HasTime, HasBase
<1>12. CASE Preview
  <2>1. CASE Executable
    <3>1. /\ draft' = [draft EXCEPT !.base = head]
          /\ pc[Miner] = "preview" /\ pc'[Miner] = "seal" /\ interrupted' = interrupted
        BY <1>12, <2>1 DEF Preview, Inv, ShapeInv, LockInv, Workers
    <3> QED
        BY <1>3, <1>6, <1>7, <3>1
        DEF Inv, ShapeInv, DraftInv, TokenInv, HasParent, HasHeight, HasTime, HasBase
  <2>2. CASE ~Executable
    BY <1>1, <1>11, <1>12, <2>2 DEF Preview, Inv, ShapeInv
  <2> QED
    BY <2>1, <2>2
<1>13. CASE CheckToken
  <2>1. CASE interrupted
    BY <1>1, <1>11, <1>13, <2>1 DEF CheckToken, Inv, ShapeInv
  <2>2. CASE ~interrupted
    <3>1. /\ draft' = draft /\ interrupted' = interrupted
          /\ pc[Miner] = "seal" /\ pc'[Miner] = "hash"
        BY <1>1, <1>13, <2>2 DEF CheckToken, Inv, ShapeInv
    <3> QED
        BY <1>3, <1>6, <1>7, <3>1
        DEF Inv, ShapeInv, DraftInv, TokenInv, HasParent, HasHeight, HasTime, HasBase
  <2> QED
    BY <2>1, <2>2
<1>14. CASE LocalKept
    BY <1>1, <1>11, <1>14 DEF LocalKept, Inv, ShapeInv
<1> QED
    BY <1>8, <1>9, <1>10, <1>12, <1>13, <1>14

\* The steps that are not the miner's own towards a seal.
LEMMA OthersInv ==
    ASSUME Inv, NEW t \in Threads,
           \/ CheckTransaction(t) \/ PushTransaction(t) \/ InterruptSeal(t)
           \/ RemoveIncluded(t)
    PROVE  Inv'
<1>1. t \in Workers /\ t # Miner /\ Miner \in Workers
    BY MiningAssumption DEF Workers
<1>2. PICK label : /\ label \in {"idle", "push", "interrupt"}
                   /\ pc' = [pc EXCEPT ![t] = label]
                   /\ label = "interrupt" \/ pc[t] \notin {"install", "remove", "interrupt"} \/ interrupted'
    BY <1>1 DEF CheckTransaction, PushTransaction, InterruptSeal, RemoveIncluded, Goto
<1>3. /\ pc[t] # "install"
      /\ UNCHANGED <<heads, ledger, lock, draft>>
    BY DEF CheckTransaction, PushTransaction, InterruptSeal, RemoveIncluded
<1>4. \/ UNCHANGED job
      \/ \E i \in Nat : job' = [job EXCEPT ![t] = i]
    BY DEF CheckTransaction, PushTransaction, InterruptSeal, RemoveIncluded, NoJob
<1>5. /\ heads' \in Seq(Block) /\ head' >= 1 /\ ledger' \in Nat
      /\ pc' = [u \in Workers |-> pc'[u]] /\ pc'[t] = label
      /\ job' \in [Workers -> Nat]
      /\ LockInv'
    BY <1>1, <1>2, <1>3, <1>4, MoveInv
<1>6. pc'[Miner] = pc[Miner] /\ head' = head
    BY <1>1, <1>2, <1>3 DEF Inv, ShapeInv, head
<1>7. ShapeInv' /\ DraftInv'
    BY <1>3, <1>5, <1>6 DEF Inv, ShapeInv, DraftInv
<1>8. Notifying => Notifying' \/ interrupted'
  <2>1. \A u \in Threads : u # t => pc'[u] = pc[u]
    BY <1>2 DEF Inv, ShapeInv, Workers
  <2>2. CASE pc[t] \in {"install", "remove", "interrupt"} /\ ~interrupted'
    BY <1>2, <1>5, <2>2 DEF Notifying
  <2>3. CASE pc[t] \notin {"install", "remove", "interrupt"}
    BY <2>1, <2>3 DEF Notifying
  <2> QED
    BY <2>2, <2>3
<1>9. (interrupted => interrupted')
    BY DEF CheckTransaction, PushTransaction, InterruptSeal, RemoveIncluded
<1>10. TokenInv'
    BY <1>3, <1>6, <1>8, <1>9 DEF Inv, TokenInv
<1> QED
    BY <1>5, <1>7, <1>10 DEF Inv

\* A new head and its ledger, by the miner or another thread, and the miner's own
\* removal of what its block included.
LEMMA HeadInv ==
    ASSUME Inv, NEW t \in Workers,
           \/ t \in Threads /\ RemoteHead(t)
           \/ t = Miner /\ LocalHead
           \/ Install(t)
           \/ t = Miner /\ RemoveIncluded(t)
    PROVE  Inv'
<1>1. Miner \in Workers /\ Free \notin Workers /\ Miner \notin Threads
    BY MiningAssumption DEF Workers
<1>2. CASE t \in Threads /\ RemoteHead(t)
  <2>1. PICK b \in Block : NewHead(t, b)
    BY <1>2 DEF RemoteHead
  <2>2. UNCHANGED <<ledger, draft, interrupted>>
    BY <1>2 DEF RemoteHead
  <2>3. /\ heads' \in Seq(Block) /\ head' = head + 1
        /\ head \in Nat \ {0}
        /\ \A i \in 1 .. head : heads'[i] = heads[i]
        /\ pc' = [u \in Workers |-> pc'[u]] /\ job' \in [Workers -> Nat]
        /\ pc' = [pc EXCEPT ![t] = "install"]
        /\ LockInv'
    BY <2>1, <2>2, NewHeadInv
  <2>4. pc'[Miner] = pc[Miner] /\ pc'[t] = "install"
    BY <1>1, <1>2, <2>3 DEF Inv, ShapeInv
  <2>5. ShapeInv' /\ DraftInv'
    BY <2>2, <2>3, <2>4
    DEF Inv, ShapeInv, DraftInv, HasParent, HasHeight, HasTime, HasBase
  <2>6. TokenInv'
    BY <1>2, <2>4 DEF TokenInv, Notifying
  <2> QED
    BY <2>3, <2>5, <2>6 DEF Inv
<1>3. CASE t = Miner /\ LocalHead
  <2>1. NewHead(t, Sealed) /\ Sealed \in Block /\ UNCHANGED ledger /\ draft' = NoDraft
    BY <1>3 DEF LocalHead
  <2>2. /\ heads' \in Seq(Block) /\ head' = head + 1
        /\ head \in Nat \ {0}
        /\ pc' = [u \in Workers |-> pc'[u]] /\ job' \in [Workers -> Nat]
        /\ pc' = [pc EXCEPT ![t] = "install"]
        /\ LockInv'
    BY <2>1, NewHeadInv
  <2>3. pc'[Miner] = "install"
    BY <1>1, <1>3, <2>2 DEF Inv, ShapeInv
  <2>4. ledger' \in Nat
    BY <2>1 DEF Inv, ShapeInv
  <2>5. ShapeInv'
    BY <2>1, <2>2, <2>4 DEF ShapeInv, NoDraft
  <2>6. DraftInv' /\ TokenInv'
    BY <2>1, <2>2, <2>3
    DEF DraftInv, TokenInv, NoDraft, HasParent, HasHeight, HasTime, HasBase
  <2> QED
    BY <2>2, <2>5, <2>6 DEF Inv
<1>4. CASE Install(t)
  <2>1. /\ pc' = [pc EXCEPT ![t] = "remove"] /\ pc[t] = "install"
        /\ ledger' = job[t] /\ lock' = Free
        /\ UNCHANGED <<heads, job, draft, interrupted>>
    BY <1>4 DEF Install, Goto
  <2>2. lock = t /\ job[t] = head /\ head' = head /\ head \in Nat \ {0}
    BY <2>1 DEF Inv, ShapeInv, LockInv, head
  <2>3. \A u \in Workers : pc'[u] # "install"
    BY <2>1, <2>2 DEF Inv, ShapeInv, LockInv
  <2>4. LockInv'
    BY <2>1, <2>2, <2>3 DEF LockInv
  <2>5. pc'[t] = "remove" /\ \A u \in Workers : u # t => pc'[u] = pc[u]
    BY <2>1 DEF Inv, ShapeInv
  <2>6. ShapeInv'
    BY <2>1, <2>2 DEF Inv, ShapeInv
  <2>7. DraftInv'
    BY <1>1, <2>1, <2>2, <2>5
    DEF Inv, DraftInv, HasParent, HasHeight, HasTime, HasBase
  <2>8. Notifying => Notifying'
    BY <2>5 DEF Notifying, Workers
  <2>9. TokenInv'
    BY <1>1, <2>1, <2>2, <2>5, <2>8 DEF Inv, TokenInv, HasParent
  <2> QED
    BY <2>4, <2>6, <2>7, <2>9 DEF Inv
<1>5. CASE t = Miner /\ RemoveIncluded(t)
  <2>1. /\ pc' = [pc EXCEPT ![t] = "loop"] /\ pc[t] = "remove"
        /\ job' = [job EXCEPT ![t] = 0]
        /\ UNCHANGED <<heads, ledger, lock, draft>>
    BY <1>5 DEF RemoveIncluded, Goto, NoJob
  <2>2. /\ heads' \in Seq(Block) /\ head' >= 1 /\ ledger' \in Nat
        /\ pc' = [u \in Workers |-> pc'[u]] /\ pc'[t] = "loop"
        /\ job' \in [Workers -> Nat]
        /\ LockInv'
    BY <2>1, MoveInv
  <2>3. ShapeInv'
    BY <2>1, <2>2 DEF Inv, ShapeInv
  <2>4. DraftInv' /\ TokenInv'
    BY <1>5, <2>2 DEF DraftInv, TokenInv, HasParent, HasHeight, HasTime, HasBase
  <2> QED
    BY <2>2, <2>3, <2>4 DEF Inv
<1> QED
    BY <1>2, <1>3, <1>4, <1>5

-----------------------------------------------------------------------------
\* Every step keeps the invariant.
LEMMA NextInv == Inv /\ [Next]_vars => Inv'
<1> SUFFICES ASSUME Inv, [Next]_vars PROVE Inv'
    OBVIOUS
<1>1. CASE MinerStep
  <2>1. CASE LocalHead \/ Install(Miner) \/ RemoveIncluded(Miner)
    BY <2>1, HeadInv DEF Workers
  <2>2. CASE ~(LocalHead \/ Install(Miner) \/ RemoveIncluded(Miner))
    BY <1>1, <2>2, MinerInv DEF MinerStep
  <2> QED
    BY <2>1, <2>2
<1>2. ASSUME NEW t \in Threads, RemoteHead(t) \/ CheckTransaction(t) \/ ThreadStep(t)
      PROVE  Inv'
    BY <1>2, HeadInv, OthersInv DEF ThreadStep, Workers
<1>3. CASE RequestStop \/ MainStep \/ UNCHANGED vars
  <2>1. /\ UNCHANGED <<heads, ledger, lock, pc, job, draft>>
        /\ interrupted => interrupted'
    BY <1>3 DEF RequestStop, MainStep, StopInterrupts, Join, vars
  <2> QED
    BY <2>1 DEF Inv, ShapeInv, LockInv, DraftInv, TokenInv, Notifying, head
<1> QED
    BY <1>1, <1>2, <1>3 DEF Next

\* The invariant gives both properties in every state.
LEMMA InvImplies == Inv => StaleSealIsInterrupted /\ SealOnHeadIsWhole
<1> SUFFICES ASSUME Inv PROVE StaleSealIsInterrupted /\ SealOnHeadIsWhole
    OBVIOUS
<1>1. StaleSealIsInterrupted
    BY DEF Inv, TokenInv, StaleSealIsInterrupted, HasParent
<1>2. SealOnHeadIsWhole
    BY DEF Inv, DraftInv, SealOnHeadIsWhole, DraftIsWhole, DraftIsChild, HasParent,
           HasHeight, HasTime, HasBase
<1> QED
    BY <1>1, <1>2

\* With any number of threads that deliver blocks, no new head leaves the miner
\* sealing on the old one without a notification on its way (Miner::mineOne arms
\* the token before it reads the head).
THEOREM StaleSealsAreInterrupted == Spec => []StaleSealIsInterrupted
<1>1. Spec => []Inv
    BY InitInv, NextInv, PTL DEF Spec
<1> QED
    BY <1>1, InvImplies, PTL

\* With any number of threads, a seal whose parent is still the head is of a draft
\* that was read whole: the parent's height, time and ledger (Miner::mineOne).
THEOREM SealsOnHeadAreWhole == Spec => []SealOnHeadIsWhole
<1>1. Spec => []Inv
    BY InitInv, NextInv, PTL DEF Spec
<1> QED
    BY <1>1, InvImplies, PTL

-----------------------------------------------------------------------------
(* The pool as a sequence. *)

\* What a pool has once a transaction is added to it.
LEMMA AppendIs ==
    ASSUME NEW s \in Seq(Tx), NEW tx \in Tx
    PROVE  /\ Append(s, tx) \in Seq(Tx)
           /\ \A x : x \in Range(Append(s, tx)) <=> x \in Range(s) \/ x = tx
           /\ IsInjective(s) /\ tx \notin Range(s) => IsInjective(Append(s, tx))
<1> DEFINE a == Append(s, tx)
           n == Len(s)
<1>1. /\ a \in Seq(Tx) /\ DOMAIN a = 1 .. n + 1 /\ DOMAIN s = 1 .. n /\ n \in Nat
      /\ \A i \in 1 .. n : a[i] = s[i]
      /\ a[n + 1] = tx
  OBVIOUS
<1> HIDE DEF a, n
<1>2. ASSUME NEW x PROVE x \in Range(a) <=> x \in Range(s) \/ x = tx
  <2>1. x \in Range(a) <=> \E i \in 1 .. n + 1 : x = a[i]
    BY <1>1 DEF Range
  <2>2. x \in Range(s) <=> \E i \in 1 .. n : x = s[i]
    BY <1>1 DEF Range
  <2>3. \A i : i \in 1 .. n + 1 <=> i \in 1 .. n \/ i = n + 1
    BY <1>1
  <2> QED BY <1>1, <2>1, <2>2, <2>3
<1>3. ASSUME IsInjective(s), tx \notin Range(s) PROVE IsInjective(a)
  <2> SUFFICES ASSUME NEW i \in 1 .. n + 1, NEW j \in 1 .. n + 1, a[i] = a[j] PROVE i = j
    BY <1>1 DEF IsInjective
  <2>1. \A k \in 1 .. n : a[k] # tx
    BY <1>1, <1>3 DEF Range
  <2>2. \A k \in 1 .. n + 1 : k \in 1 .. n \/ k = n + 1
    BY <1>1
  <2> QED BY <1>1, <1>3, <2>1, <2>2 DEF IsInjective
<1> QED BY <1>1, <1>2, <1>3 DEF a

\* The fold that erases goes through one pool after the other.
LEMMA WithoutRuns ==
    ASSUME NEW txs \in Seq(Tx), NEW erased
    PROVE  \E run :
              /\ run[0] = <<>>
              /\ \A k \in 1 .. Len(txs) :
                    run[k] = IF txs[k] \in erased THEN run[k - 1]
                             ELSE Append(run[k - 1], txs[k])
              /\ run[Len(txs)] = Without(txs, erased)
<1> DEFINE D == 1 .. Len(txs)
           Folds(h) == h = [s \in SUBSET D |->
                IF s = {} THEN <<>>
                ELSE IF txs[Max(s)] \in erased THEN h[s \ {Max(s)}]
                     ELSE Append(h[s \ {Max(s)}], txs[Max(s)])]
           fold == CHOOSE h : Folds(h)
           run == [k \in 0 .. Len(txs) |-> fold[1 .. k]]
<1>1. Without(txs, erased) = fold[D]
  <2>1. DOMAIN txs = D
    OBVIOUS
  <2> QED BY <2>1 DEF Without, FoldLeft, MapThenFoldSet
<1>2. \E h : Folds(h)
  <2> DEFINE pick == [s \in SUBSET D |-> Max(s)]
             step == [vx \in Seq(Tx) \X D |->
                         IF txs[vx[2]] \in erased THEN vx[1] ELSE Append(vx[1], txs[vx[2]])]
  <2>1. \A s \in SUBSET D : s # {} => pick[s] \in s
    <3>1. Len(txs) \in Nat
      OBVIOUS
    <3>2. \A s \in SUBSET D : s # {} => Max(s) \in s
      BY <3>1, MaxOfSome
    <3> QED BY <3>2
  <2>2. ASSUME NEW v \in Seq(Tx), NEW x \in D
        PROVE  /\ step[<<v, x>>] = IF txs[x] \in erased THEN v ELSE Append(v, txs[x])
               /\ step[<<v, x>>] \in Seq(Tx)
    <3>1. txs[x] \in Tx
      OBVIOUS
    <3> HIDE DEF D
    <3> QED BY <3>1
  <2>3. IsFiniteSet(D)
    BY FS_Interval
  <2>4. PICK h \in [SUBSET D -> Seq(Tx)] : IsFold(h, D, <<>>, pick, step)
    <3> HIDE DEF step, pick, D
    <3>1. <<>> \in Seq(Tx)
      OBVIOUS
    <3>2. Foldable(D, Seq(Tx), <<>>, pick, step)
      BY <2>1, <2>2, <2>3, <3>1 DEF Foldable
    <3> QED BY <3>2, FoldExists
  <2>5. ASSUME NEW s \in SUBSET D
        PROVE  h[s] = IF s = {} THEN <<>>
                      ELSE IF txs[Max(s)] \in erased THEN h[s \ {Max(s)}]
                           ELSE Append(h[s \ {Max(s)}], txs[Max(s)])
    <3>1. pick[s] = Max(s)
      OBVIOUS
    <3> HIDE DEF step, pick
    <3>2. CASE s = {}
      BY <3>2, <2>4 DEF IsFold
    <3>3. CASE s # {}
      <4>1. pick[s] \in D /\ h[s \ {pick[s]}] \in Seq(Tx)
        BY <2>1, <3>3
      <4>2. h[s] = step[<<h[s \ {pick[s]}], pick[s]>>]
        BY <2>4, <3>3 DEF IsFold
      <4>3. step[<<h[s \ {pick[s]}], pick[s]>>] =
               IF txs[pick[s]] \in erased THEN h[s \ {pick[s]}]
               ELSE Append(h[s \ {pick[s]}], txs[pick[s]])
        BY <4>1, <2>2
      <4> QED BY <3>1, <3>3, <4>2, <4>3
    <3> QED BY <3>2, <3>3
  <2>6. Folds(h)
    BY <2>5
  <2> HIDE DEF Folds
  <2> QED BY <2>6
<1>3. Folds(fold)
  <2> HIDE DEF Folds
  <2> QED BY <1>2
<1>4. fold[{}] = <<>> /\ \A s \in SUBSET D : s # {} =>
         fold[s] = IF txs[Max(s)] \in erased THEN fold[s \ {Max(s)}]
                   ELSE Append(fold[s \ {Max(s)}], txs[Max(s)])
  <2> HIDE DEF fold
  <2> QED BY <1>3
<1> HIDE DEF fold, Folds
<1>5. run[0] = <<>> /\ run[Len(txs)] = fold[D]
  BY <1>4
<1>6. ASSUME NEW k \in 1 .. Len(txs)
      PROVE  run[k] = IF txs[k] \in erased THEN run[k - 1] ELSE Append(run[k - 1], txs[k])
  <2>1. 1 .. k \in SUBSET D /\ 1 .. k # {} /\ k - 1 \in 0 .. Len(txs)
    <3>1. k \in 1 .. k /\ Len(txs) \in Nat
      OBVIOUS
    <3>2. k - 1 \in 0 .. Len(txs)
      BY <3>1
    <3>3. 1 .. k \subseteq D
      BY <3>1
    <3> HIDE DEF D
    <3> QED BY <3>1, <3>2, <3>3
  <2>2. fold[1 .. k] = IF txs[k] \in erased THEN fold[1 .. k - 1]
                       ELSE Append(fold[1 .. k - 1], txs[k])
    <3>1. Max(1 .. k) = k /\ (1 .. k) \ {k} = 1 .. k - 1
      BY PrefixIndices
    <3> QED BY <1>4, <2>1, <3>1
  <2> QED BY <2>1, <2>2
<1> QED BY <1>1, <1>5, <1>6

\* Erasing leaves exactly what is not erased, and no transaction twice.
LEMMA WithoutIs ==
    ASSUME NEW txs \in Seq(Tx), NEW erased
    PROVE  LET kept == Without(txs, erased) IN
           /\ kept \in Seq(Tx)
           /\ \A x : x \in Range(kept) <=> x \in Range(txs) /\ x \notin erased
           /\ IsInjective(txs) => IsInjective(kept)
<1> DEFINE n == Len(txs)
           Kept(s, k) ==
              /\ s \in Seq(Tx)
              /\ \A x : x \in Range(s) <=> x \notin erased /\ \E i \in 1 .. k : x = txs[i]
              /\ IsInjective(txs) => IsInjective(s)
<1>1. PICK run : /\ run[0] = <<>>
                 /\ \A k \in 1 .. n :
                       run[k] = IF txs[k] \in erased THEN run[k - 1]
                                ELSE Append(run[k - 1], txs[k])
                 /\ run[n] = Without(txs, erased)
  BY WithoutRuns
<1>2. n \in Nat
  OBVIOUS
<1> DEFINE S == {k \in 0 .. n : Kept(run[k], k)}
<1>3. 0 \in S
  <2>1. <<>> \in Seq(Tx) /\ DOMAIN <<>> = {}
    OBVIOUS
  <2>2. Kept(<<>>, 0)
    BY <2>1 DEF Range, IsInjective
  <2> HIDE DEF Kept
  <2> QED BY <1>1, <1>2, <2>2
<1>4. ASSUME NEW k \in 1 .. n, k - 1 \in S PROVE k \in S
  <2> DEFINE old == run[k - 1]
             new == run[k]
  <2>1. txs[k] \in Tx /\ k \in 0 .. n
    BY <1>2
  <2>2. Kept(old, k - 1)
    BY <1>4
  <2>3. new = IF txs[k] \in erased THEN old ELSE Append(old, txs[k])
    BY <1>1
  <2> HIDE DEF old, new
  <2>4. \A i : i \in 1 .. k <=> i \in 1 .. k - 1 \/ i = k
    BY <1>2
  <2>5. CASE txs[k] \in erased
    <3>1. new = old
      BY <2>3, <2>5
    <3>2. \A x : x \in Range(new) <=> x \notin erased /\ \E i \in 1 .. k : x = txs[i]
      BY <2>2, <2>4, <2>5, <3>1
    <3>3. Kept(new, k)
      BY <2>2, <3>1, <3>2
    <3> HIDE DEF Kept
    <3> QED BY <2>1, <3>3 DEF new
  <2>6. CASE txs[k] \notin erased
    <3>1. new = Append(old, txs[k])
      BY <2>3, <2>6
    <3>2. new \in Seq(Tx) /\ \A x : x \in Range(new) <=> x \in Range(old) \/ x = txs[k]
      BY <2>1, <2>2, <3>1, AppendIs
    <3>3. \A x : x \in Range(new) <=> x \notin erased /\ \E i \in 1 .. k : x = txs[i]
      BY <2>2, <2>4, <2>6, <3>2
    <3>4. ASSUME IsInjective(txs) PROVE IsInjective(new)
      <4>1. DOMAIN txs = 1 .. n
        OBVIOUS
      <4>2. \A i \in 1 .. k - 1 : i \in 1 .. n /\ i # k
        BY <1>2
      <4>3. \A i \in 1 .. k - 1 : txs[i] # txs[k]
        BY <3>4, <4>1, <4>2 DEF IsInjective
      <4>4. txs[k] \notin Range(old)
        BY <2>2, <4>3
      <4> QED BY <2>1, <2>2, <3>1, <3>4, <4>4, AppendIs
    <3>5. Kept(new, k)
      BY <3>2, <3>3, <3>4
    <3> HIDE DEF Kept
    <3> QED BY <2>1, <3>5 DEF new
  <2> QED BY <2>5, <2>6
<1>5. n \in S
  <2> HIDE DEF S, n
  <2>1. \A k \in 0 .. n : k \in S
    BY <1>2, <1>3, <1>4, BoundedInduction
  <2> QED BY <1>2, <2>1
<1>6. \A x : x \in Range(txs) <=> \E i \in 1 .. n : x = txs[i]
  BY DEF Range
<1> QED BY <1>1, <1>5, <1>6

-----------------------------------------------------------------------------
(* Types. *)

ThreadLabels == {"idle", "install", "remove", "interrupt", "push"}
MinerLabels == {"loop", "arm", "parent", "height", "take", "evict", "prepare", "preview",
                "seal", "hash", "import", "install", "remove", "ended"}

\* TypeOK by its parts; a thread that pushes has a transaction to push.
HeadsOK == heads \in Seq(Block) /\ head \in 1 .. MaxHeads /\ ledger \in 1 .. head
LockOK == /\ lock \in Workers \cup {Free}
          /\ \A t \in Workers : lock = t <=> pc[t] = "install"
PcOK == /\ pc = [t \in Workers |-> pc[t]]
        /\ \A t \in Threads : pc[t] \in ThreadLabels
        /\ pc[Miner] \in MinerLabels
JobOK == job \in [Workers -> {NoJob} \cup 1 .. head]
AddingOK == /\ adding \in [Threads -> Tx \cup {NoTx}]
            /\ \A t \in Threads : pc[t] = "push" => adding[t] \in Tx
PoolOK == pool \in Seq(Tx) /\ IsInjective(pool)
DraftOK == draft \in Draft
MainOK == interrupted \in BOOLEAN /\ main \in {"running", "requested", "joining", "stopped"}

Typed == /\ HeadsOK /\ LockOK /\ PcOK /\ JobOK
         /\ AddingOK /\ PoolOK /\ DraftOK /\ MainOK

\* A step makes a new head, installs its ledger or leaves both and the mutex alone.
LEMMA StepKinds ==
    ASSUME [Next]_vars
    PROVE  \/ \E t \in Workers, b \in Block : NewHead(t, b) /\ UNCHANGED ledger
           \/ \E t \in Workers : Install(t)
           \/ /\ UNCHANGED <<heads, ledger, lock>>
              /\ \/ UNCHANGED pc
                 \/ \E t \in Workers, label \in (ThreadLabels \cup MinerLabels) \ {"install"} :
                       pc[t] # "install" /\ pc' = [pc EXCEPT ![t] = label]
<1>1. Miner \in Workers /\ \A t \in Threads : t \in Workers
  BY DEF Workers
<1>2. CASE LocalHead
  BY <1>1, <1>2 DEF LocalHead
<1>3. ASSUME NEW t \in Threads, RemoteHead(t)
      PROVE  \E u \in Workers, b \in Block : NewHead(u, b) /\ UNCHANGED ledger
  BY <1>1, <1>3 DEF RemoteHead
<1>4. ASSUME NEW t \in Workers,
             \/ RemoveIncluded(t) \/ InterruptSeal(t) \/ CheckTransaction(t) \/ PushTransaction(t)
      PROVE  /\ UNCHANGED <<heads, ledger, lock>>
             /\ \E u \in Workers, label \in (ThreadLabels \cup MinerLabels) \ {"install"} :
                   pc[u] # "install" /\ pc' = [pc EXCEPT ![u] = label]
  BY <1>4 DEF RemoveIncluded, InterruptSeal, CheckTransaction, PushTransaction, Goto,
              ThreadLabels, MinerLabels
<1>5. ASSUME \/ MinerLoop \/ Arm \/ ReadParent \/ ReadHeight \/ TakeLedger \/ Take
             \/ Prepare \/ Preview \/ CheckToken \/ SealFound \/ SealNotFound \/ LocalKept
      PROVE  /\ UNCHANGED <<heads, ledger, lock>>
             /\ \E u \in Workers, label \in (ThreadLabels \cup MinerLabels) \ {"install"} :
                   pc[u] # "install" /\ pc' = [pc EXCEPT ![u] = label]
  <2>1. UNCHANGED <<heads, ledger, lock>> /\ pc[Miner] # "install"
    BY <1>5 DEF MinerLoop, Arm, ReadParent, ReadHeight, TakeLedger, Take, Prepare, Preview,
                CheckToken, SealFound, SealNotFound, LocalKept
  <2>2. \E label \in MinerLabels \ {"install"} : pc' = [pc EXCEPT ![Miner] = label]
    BY <1>5 DEF MinerLoop, Arm, ReadParent, ReadHeight, TakeLedger, Take, Prepare, Preview,
                CheckToken, SealFound, SealNotFound, LocalKept, Goto, MinerLabels
  <2> QED BY <1>1, <2>1, <2>2
<1>6. CASE RequestStop \/ MainStep \/ UNCHANGED vars
  BY <1>6 DEF RequestStop, MainStep, StopInterrupts, Join, vars
<1> QED BY <1>1, <1>2, <1>3, <1>4, <1>5, <1>6 DEF Next, MinerStep, ThreadStep

\* The heads, the ledger's place among them and the mutex.
LEMMA HeadsTyped ==
    ASSUME Inv, Typed, [Next]_vars
    PROVE  HeadsOK' /\ LockOK' /\ head <= head' /\ \A i \in 1 .. head : heads'[i] = heads[i]
<1>1. heads \in Seq(Block) /\ head \in 1 .. MaxHeads /\ ledger \in 1 .. head
  BY DEF Typed, HeadsOK
<1>2. pc = [t \in Workers |-> pc[t]] /\ lock \in Workers \cup {Free}
  BY DEF Typed, PcOK, LockOK
<1>3. \A t \in Workers : lock = t <=> pc[t] = "install"
  BY DEF Typed, LockOK
<1>4. Free \notin Workers
  BY MiningAssumption DEF Workers
<1>5. ASSUME NEW t \in Workers, NEW b \in Block, NewHead(t, b), UNCHANGED ledger
      PROVE  HeadsOK' /\ LockOK' /\ head <= head' /\ \A i \in 1 .. head : heads'[i] = heads[i]
  <2>1. /\ heads' \in Seq(Block) /\ head' = head + 1
        /\ \A i \in 1 .. head : heads'[i] = heads[i]
    BY <1>1, <1>5, AppendHead DEF NewHead
  <2>2. HeadsOK'
    BY <1>1, <1>5, <2>1, MiningAssumption DEF HeadsOK, NewHead
  <2>3. lock = Free /\ lock' = t /\ pc' = [pc EXCEPT ![t] = "install"]
    BY <1>5 DEF NewHead, Goto
  <2>4. LockOK'
    BY <1>2, <1>3, <1>4, <2>3 DEF LockOK
  <2> QED BY <1>1, <2>1, <2>2, <2>4
<1>6. ASSUME NEW t \in Workers, Install(t)
      PROVE  HeadsOK' /\ LockOK' /\ head <= head' /\ \A i \in 1 .. head : heads'[i] = heads[i]
  <2>1. /\ pc[t] = "install" /\ ledger' = job[t] /\ lock' = Free
        /\ pc' = [pc EXCEPT ![t] = "remove"] /\ heads' = heads
    BY <1>6 DEF Install, Goto
  <2>2. job[t] = head /\ head' = head
    BY <2>1 DEF Inv, LockInv, head
  <2>3. HeadsOK'
    BY <1>1, <2>1, <2>2 DEF HeadsOK
  <2>4. LockOK'
    BY <1>2, <1>3, <1>4, <2>1 DEF LockOK
  <2> QED BY <1>1, <2>1, <2>2, <2>3, <2>4
<1>7. ASSUME UNCHANGED <<heads, ledger, lock>>,
             \/ UNCHANGED pc
             \/ \E t \in Workers, label \in (ThreadLabels \cup MinerLabels) \ {"install"} :
                   pc[t] # "install" /\ pc' = [pc EXCEPT ![t] = label]
      PROVE  HeadsOK' /\ LockOK' /\ head <= head' /\ \A i \in 1 .. head : heads'[i] = heads[i]
  <2>1. HeadsOK' /\ head' = head /\ heads' = heads
    BY <1>1, <1>7 DEF HeadsOK, head
  <2>2. \A t \in Workers : pc'[t] = "install" <=> pc[t] = "install"
    BY <1>2, <1>7
  <2>3. LockOK'
    BY <1>2, <1>3, <1>7, <2>2 DEF LockOK
  <2> QED BY <1>1, <2>1, <2>3
<1> QED BY <1>5, <1>6, <1>7, StepKinds

\* A thread's label, and the transaction it pushes.
LEMMA LabelsTyped ==
    ASSUME Typed, [Next]_vars
    PROVE  PcOK' /\ AddingOK'
<1>1. /\ pc = [t \in Workers |-> pc[t]]
      /\ \A t \in Threads : pc[t] \in ThreadLabels
      /\ pc[Miner] \in MinerLabels
  BY DEF Typed, PcOK
<1>2. /\ adding \in [Threads -> Tx \cup {NoTx}]
      /\ \A t \in Threads : pc[t] = "push" => adding[t] \in Tx
  BY DEF Typed, AddingOK
<1>3. Miner \in Workers /\ Miner \notin Threads /\ \A t \in Threads : t \in Workers
  BY MiningAssumption DEF Workers
<1>4. CASE MinerStep
  <2>1. \E label \in MinerLabels : pc' = [pc EXCEPT ![Miner] = label]
    BY <1>4 DEF MinerStep, MinerLoop, Arm, ReadParent, ReadHeight, TakeLedger, Take, Prepare,
                Preview, CheckToken, SealFound, SealNotFound, LocalHead, LocalKept, NewHead,
                Install, RemoveIncluded, Goto, MinerLabels
  <2>2. adding' = adding
    BY <1>4 DEF MinerStep, MinerLoop, Arm, ReadParent, ReadHeight, TakeLedger, Take, Prepare,
                Preview, CheckToken, SealFound, SealNotFound, LocalHead, LocalKept,
                Install, RemoveIncluded
  <2>3. \A t \in Threads : pc'[t] = pc[t]
    BY <1>1, <1>3, <2>1
  <2> QED BY <1>1, <1>2, <1>3, <2>1, <2>2, <2>3 DEF PcOK, AddingOK
<1>5. ASSUME NEW t \in Threads, RemoteHead(t) \/ CheckTransaction(t) \/ ThreadStep(t)
      PROVE  PcOK' /\ AddingOK'
  <2>1. PICK label \in ThreadLabels : pc' = [pc EXCEPT ![t] = label]
    BY <1>3, <1>5 DEF RemoteHead, NewHead, CheckTransaction, ThreadStep, Install, RemoveIncluded,
                InterruptSeal, PushTransaction, Goto, ThreadLabels
  <2>2. /\ pc'[t] = label /\ \A u \in Threads : u # t => pc'[u] = pc[u]
        /\ pc'[Miner] = pc[Miner]
    BY <1>1, <1>3, <2>1
  <2>3. PcOK'
    BY <1>1, <1>3, <2>1, <2>2 DEF PcOK
  <2>4. CASE CheckTransaction(t)
    <3>1. PICK tx \in Tx : adding' = [adding EXCEPT ![t] = tx]
      BY <2>4 DEF CheckTransaction
    <3>2. adding' \in [Threads -> Tx \cup {NoTx}]
      BY <1>2, <3>1
    <3>3. \A u \in Threads : adding'[u] = IF u = t THEN tx ELSE adding[u]
      BY <1>2, <3>1
    <3> QED BY <1>2, <2>2, <2>3, <3>2, <3>3 DEF AddingOK
  <2>5. CASE PushTransaction(t)
    <3>1. pc'[t] = "idle" /\ adding' = [adding EXCEPT ![t] = NoTx]
      BY <1>1, <1>3, <2>5 DEF PushTransaction, Goto
    <3>2. adding' \in [Threads -> Tx \cup {NoTx}]
      BY <1>2, <3>1
    <3>3. \A u \in Threads : u # t => adding'[u] = adding[u]
      BY <1>2, <3>1
    <3> QED BY <1>2, <2>2, <2>3, <3>1, <3>2, <3>3 DEF AddingOK
  <2>6. CASE RemoteHead(t) \/ Install(t) \/ RemoveIncluded(t) \/ InterruptSeal(t)
    <3>1. adding' = adding
      BY <2>6 DEF RemoteHead, Install, RemoveIncluded, InterruptSeal
    <3>2. pc'[t] # "push"
      BY <1>1, <1>3, <2>6 DEF RemoteHead, NewHead, Install, RemoveIncluded, InterruptSeal, Goto
    <3>3. \A u \in Threads : pc'[u] = "push" => pc[u] = "push"
      BY <2>2, <3>2
    <3> QED BY <1>2, <2>3, <3>1, <3>3 DEF AddingOK
  <2> QED BY <1>5, <2>3, <2>4, <2>5, <2>6 DEF ThreadStep
<1>6. CASE RequestStop \/ MainStep \/ UNCHANGED vars
  <2>1. pc' = pc /\ adding' = adding
    BY <1>6 DEF RequestStop, MainStep, StopInterrupts, Join, vars
  <2> QED BY <1>1, <1>2, <2>1 DEF PcOK, AddingOK
<1> QED BY <1>4, <1>5, <1>6 DEF Next

\* What a thread works on is a block that has been head.
LEMMA JobTyped ==
    ASSUME Inv, Typed, [Next]_vars
    PROVE  JobOK'
<1>1. head <= head' /\ head \in Nat /\ head' \in Nat /\ ledger \in 1 .. head
  BY HeadsTyped DEF Typed, HeadsOK
<1>2. job \in [Workers -> {NoJob} \cup 1 .. head]
  BY DEF Typed, JobOK
<1>3. Miner \in Workers /\ \A t \in Threads : t \in Workers
  BY DEF Workers
<1>4. CASE \E t \in Workers, b \in Block : NewHead(t, b)
  <2>1. PICK t \in Workers, b \in Block : NewHead(t, b)
    BY <1>4
  <2>2. job' = [job EXCEPT ![t] = head + 1] /\ head' = head + 1
    BY <2>1, AppendHead DEF NewHead, Typed, HeadsOK
  <2> QED BY <1>1, <1>2, <2>2 DEF JobOK
<1>5. CASE \E t \in Workers, i \in {NoJob} \cup 1 .. head : job' = [job EXCEPT ![t] = i]
  BY <1>1, <1>2, <1>5 DEF JobOK
<1>6. CASE job' = job
  BY <1>1, <1>2, <1>6 DEF JobOK
<1>7. ASSUME NEW t \in Workers, \/ Install(t) \/ RemoveIncluded(t) \/ InterruptSeal(t)
                                \/ CheckTransaction(t) \/ PushTransaction(t)
      PROVE  \/ \E u \in Workers, i \in {NoJob} \cup 1 .. head : job' = [job EXCEPT ![u] = i]
             \/ job' = job
  BY <1>7 DEF Install, RemoveIncluded, InterruptSeal, CheckTransaction, PushTransaction
<1>8. ASSUME \/ MinerLoop \/ Arm \/ ReadParent \/ ReadHeight \/ TakeLedger \/ Take
             \/ Prepare \/ Preview \/ CheckToken \/ SealFound \/ SealNotFound \/ LocalKept
      PROVE  \/ \E u \in Workers, i \in {NoJob} \cup 1 .. head : job' = [job EXCEPT ![u] = i]
             \/ job' = job
  BY <1>1, <1>3, <1>8 DEF MinerLoop, Arm, ReadParent, ReadHeight, TakeLedger, Take, Prepare,
                Preview, CheckToken, SealFound, SealNotFound, LocalKept
<1>9. LocalHead => \E t \in Workers, b \in Block : NewHead(t, b)
  BY <1>3 DEF LocalHead
<1>10. \A t \in Threads : RemoteHead(t) => \E u \in Workers, b \in Block : NewHead(u, b)
  BY <1>3 DEF RemoteHead
<1>11. RequestStop \/ MainStep \/ UNCHANGED vars => job' = job
  BY DEF RequestStop, MainStep, StopInterrupts, Join, vars
<1> QED BY <1>3, <1>4, <1>5, <1>6, <1>7, <1>8, <1>9, <1>10, <1>11
        DEF Next, MinerStep, ThreadStep

\* The pool: what is erased leaves the others once each, what is pushed is new.
LEMMA PoolTyped ==
    ASSUME Typed, [Next]_vars
    PROVE  PoolOK'
<1>1. pool \in Seq(Tx) /\ IsInjective(pool)
  BY DEF Typed, PoolOK
<1>2. CASE pool' = pool
  BY <1>1, <1>2 DEF PoolOK
<1>3. ASSUME NEW erased, pool' = Without(pool, erased)
      PROVE  PoolOK'
  BY <1>1, <1>3, WithoutIs DEF PoolOK
<1>4. ASSUME NEW t \in Threads, PushTransaction(t)
      PROVE  PoolOK'
  <2>1. adding[t] \in Tx
    BY <1>4 DEF PushTransaction, Typed, AddingOK
  <2>2. pool' = IF adding[t] \in Range(pool) THEN pool ELSE Append(pool, adding[t])
    BY <1>4 DEF PushTransaction
  <2>3. CASE adding[t] \in Range(pool)
    BY <1>2, <2>2, <2>3
  <2>4. CASE adding[t] \notin Range(pool)
    BY <1>1, <2>1, <2>2, <2>4, AppendIs DEF PoolOK
  <2> QED BY <2>3, <2>4
<1>5. \A t \in Workers : RemoveIncluded(t) => pool' = Without(pool, heads[job[t]].transactions)
  BY DEF RemoveIncluded
<1>6. Take => pool' = Without(pool, Evicted(job[Miner]))
  BY DEF Take
<1>7. \A t \in Workers : Install(t) => pool' = pool
  BY DEF Install
<1>8. \A t \in Threads : RemoteHead(t) \/ CheckTransaction(t) \/ InterruptSeal(t) => pool' = pool
  BY DEF RemoteHead, CheckTransaction, InterruptSeal
<1>9. \/ MinerLoop \/ Arm \/ ReadParent \/ ReadHeight \/ TakeLedger \/ Prepare \/ Preview
      \/ CheckToken \/ SealFound \/ SealNotFound \/ LocalHead \/ LocalKept
      \/ RequestStop \/ MainStep \/ UNCHANGED vars
      => pool' = pool
  BY DEF MinerLoop, Arm, ReadParent, ReadHeight, TakeLedger, Prepare, Preview, CheckToken,
         SealFound, SealNotFound, LocalHead, LocalKept, RequestStop, MainStep, StopInterrupts,
         Join, vars
<1> QED BY <1>2, <1>3, <1>4, <1>5, <1>6, <1>7, <1>8, <1>9
        DEF Next, MinerStep, ThreadStep, Workers

\* A prefix of a sequence, with what is in it.
LEMMA PrefixIs ==
    ASSUME NEW txs \in Seq(Tx), NEW n \in 0 .. Len(txs)
    PROVE  /\ SubSeq(txs, 1, n) \in Seq(Tx)
           /\ \A x \in Range(SubSeq(txs, 1, n)) : x \in Range(txs)
<1> DEFINE s == SubSeq(txs, 1, n)
<1>1. s \in Seq(Tx) /\ DOMAIN s = 1 .. n /\ DOMAIN txs = 1 .. Len(txs) /\ Len(txs) \in Nat
      /\ \A i \in 1 .. n : s[i] = txs[i]
  OBVIOUS
<1> HIDE DEF s
<1>2. \A i \in 1 .. n : i \in 1 .. Len(txs)
  BY <1>1
<1>3. \A x \in Range(s) : x \in Range(txs)
  BY <1>1, <1>2 DEF Range
<1> QED BY <1>1, <1>3 DEF s

\* What take() gives the miner of a pool: at most MaxTxs of its first transactions.
LEMMA TakenIs ==
    ASSUME DraftOK, PoolOK', Take
    PROVE  /\ draft'.txs \in Seq(Tx) /\ \A x \in Range(draft'.txs) : x \in Range(pool')
           /\ draft' = [draft EXCEPT !.txs = draft'.txs]
<1> DEFINE n == IF Len(pool') < MaxTxs THEN Len(pool') ELSE MaxTxs
<1>1. pool' \in Seq(Tx)
  BY DEF PoolOK
<1>2. n \in 0 .. Len(pool')
  <2>1. Len(pool') \in Nat /\ MaxTxs \in Nat
    BY <1>1, MiningAssumption
  <2> QED BY <2>1
<1>3. draft' = [draft EXCEPT !.txs = SubSeq(pool', 1, n)]
  BY DEF Take
<1> HIDE DEF n
<1>4. draft'.txs = SubSeq(pool', 1, n)
  BY <1>3 DEF DraftOK, Draft
<1>5. /\ SubSeq(pool', 1, n) \in Seq(Tx)
      /\ \A x \in Range(SubSeq(pool', 1, n)) : x \in Range(pool')
  BY <1>1, <1>2, PrefixIs
<1> QED BY <1>3, <1>4, <1>5

\* A draft is of a head, a height one above a head's and transactions of the pool.
LEMMA DraftTyped ==
    ASSUME Typed, [Next]_vars
    PROVE  DraftOK'
<1>1. draft \in Draft
  BY DEF Typed, DraftOK
<1>2. head \in 1 .. MaxHeads /\ MaxHeads \in Nat /\ ledger \in 0 .. MaxHeads
      /\ heads[head].height \in 0 .. MaxHeads
  <2>1. heads \in Seq(Block) /\ head \in 1 .. MaxHeads /\ ledger \in 1 .. head
    BY DEF Typed, HeadsOK
  <2>2. heads[head] \in Block
    BY <2>1 DEF head
  <2>3. heads[head].height \in 0 .. MaxHeads
    BY <2>2 DEF Block
  <2> QED BY <2>1, <2>3, MiningAssumption
<1>3. NoDraft \in Draft
  <2>1. <<>> \in Seq(Tx)
    OBVIOUS
  <2> QED BY <1>2, <2>1 DEF NoDraft, Draft
<1>4. CASE draft' = draft
  BY <1>1, <1>4 DEF DraftOK
<1>5. CASE draft' = NoDraft
  BY <1>3, <1>5 DEF DraftOK
<1>6. CASE ReadParent
  <2>1. draft' = [NoDraft EXCEPT !.parent = head] /\ head \in 0 .. MaxHeads
    BY <1>2, <1>6 DEF ReadParent
  <2> QED BY <1>3, <2>1 DEF DraftOK, Draft
<1>7. CASE ReadHeight
  <2>1. draft' = [draft EXCEPT !.height = heads[head].height + 1]
        /\ heads[head].height + 1 \in 0 .. MaxHeads + 1
    BY <1>2, <1>7 DEF ReadHeight
  <2> QED BY <1>1, <2>1 DEF DraftOK, Draft
<1>8. CASE Take
  BY <1>1, <1>8, PoolTyped, TakenIs DEF Typed, DraftOK, Draft
<1>9. CASE Prepare
  <2>1. draft' = [draft EXCEPT !.after = head] /\ head \in 0 .. MaxHeads
    BY <1>2, <1>9 DEF Prepare
  <2> QED BY <1>1, <2>1 DEF DraftOK, Draft
<1>10. CASE Preview
  <2>1. draft' = NoDraft \/ draft' = [draft EXCEPT !.base = ledger]
    BY <1>10 DEF Preview
  <2>2. CASE draft' = [draft EXCEPT !.base = ledger]
    BY <1>1, <1>2, <2>2 DEF DraftOK, Draft
  <2> QED BY <1>5, <2>1, <2>2
<1>11. CheckToken \/ LocalHead \/ LocalKept => draft' \in {draft, NoDraft}
  BY DEF CheckToken, LocalHead, LocalKept
<1>12. \/ MinerLoop \/ Arm \/ TakeLedger \/ SealFound \/ SealNotFound
       \/ RequestStop \/ MainStep \/ UNCHANGED vars
       => draft' = draft
  BY DEF MinerLoop, Arm, TakeLedger, SealFound, SealNotFound, RequestStop, MainStep,
         StopInterrupts, Join, vars
<1>13. \A t \in Workers : Install(t) \/ RemoveIncluded(t) => draft' = draft
  BY DEF Install, RemoveIncluded
<1>14. \A t \in Threads : RemoteHead(t) \/ CheckTransaction(t) \/ InterruptSeal(t)
                          \/ PushTransaction(t) => draft' = draft
  BY DEF RemoteHead, CheckTransaction, InterruptSeal, PushTransaction
<1> QED BY <1>4, <1>5, <1>6, <1>7, <1>8, <1>9, <1>10, <1>11, <1>12, <1>13, <1>14
        DEF Next, MinerStep, ThreadStep, Workers

\* The token and the main thread.
LEMMA MainTyped ==
    ASSUME Typed, [Next]_vars
    PROVE  MainOK'
<1>1. interrupted \in BOOLEAN /\ main \in {"running", "requested", "joining", "stopped"}
  BY DEF Typed, MainOK
<1>2. \A t \in Workers : Install(t) \/ RemoveIncluded(t) => UNCHANGED <<interrupted, main>>
  BY DEF Install, RemoveIncluded
<1>3. \A t \in Threads : RemoteHead(t) \/ CheckTransaction(t) \/ PushTransaction(t)
                         => UNCHANGED <<interrupted, main>>
  BY DEF RemoteHead, CheckTransaction, PushTransaction
<1>4. \A t \in Threads : InterruptSeal(t) => interrupted' = TRUE /\ main' = main
  BY DEF InterruptSeal
<1>5. \/ MinerLoop \/ ReadParent \/ ReadHeight \/ TakeLedger \/ Take \/ Prepare \/ Preview
      \/ CheckToken \/ SealFound \/ SealNotFound \/ LocalHead \/ LocalKept
      => UNCHANGED <<interrupted, main>>
  BY DEF MinerLoop, ReadParent, ReadHeight, TakeLedger, Take, Prepare, Preview,
         CheckToken, SealFound, SealNotFound, LocalHead, LocalKept
<1>6. Arm => interrupted' = FALSE /\ main' = main
  BY DEF Arm
<1>7. RequestStop \/ MainStep \/ UNCHANGED vars => MainOK'
  BY <1>1 DEF RequestStop, MainStep, StopInterrupts, Join, vars, MainOK
<1>8. UNCHANGED <<interrupted, main>> => MainOK'
  BY <1>1 DEF MainOK
<1>9. interrupted' \in BOOLEAN /\ main' = main => MainOK'
  BY <1>1 DEF MainOK
<1> QED BY <1>2, <1>3, <1>4, <1>5, <1>6, <1>7, <1>8, <1>9
        DEF Next, MinerStep, ThreadStep, Workers

\* The node as it starts.
LEMMA InitTyped == Init => Typed
<1> SUFFICES ASSUME Init PROVE Typed
  OBVIOUS
<1>1. Miner \in Workers /\ Miner \notin Threads /\ Free \notin Workers
  BY MiningAssumption DEF Workers
<1>2. heads \in Seq(Block) /\ head = 1 /\ ledger = 1
  <2>1. [height |-> 0, nonces |-> [s \in Senders |-> 0], transactions |-> {}] \in Block
    BY MiningAssumption DEF Block, Nonces
  <2> QED BY <2>1 DEF Init, head
<1>3. HeadsOK
  BY <1>2, MiningAssumption DEF HeadsOK
<1>4. pc = [t \in Workers |-> IF t = Miner THEN "loop" ELSE "idle"] /\ lock = Free
  BY DEF Init
<1>5. \A t \in Workers : pc[t] # "install"
  BY <1>4
<1>6. LockOK
  BY <1>1, <1>4, <1>5 DEF LockOK
<1>7. PcOK
  <2>1. \A t \in Threads : pc[t] = "idle"
    BY <1>1, <1>4 DEF Workers
  <2>2. pc[Miner] = "loop"
    BY <1>1, <1>4
  <2> QED BY <1>4, <2>1, <2>2 DEF PcOK, ThreadLabels, MinerLabels
<1>8. JobOK
  BY DEF Init, JobOK
<1>9. AddingOK
  <2>1. \A t \in Threads : pc[t] = "idle"
    BY <1>1, <1>4 DEF Workers
  <2> QED BY <2>1 DEF Init, AddingOK
<1>10. <<>> \in Seq(Tx) /\ IsInjective(<<>>)
  BY DEF IsInjective
<1>11. PoolOK
  BY <1>10 DEF Init, PoolOK
<1>12. DraftOK
  BY <1>10, MiningAssumption DEF Init, DraftOK, NoDraft, Draft
<1>13. MainOK
  BY DEF Init, MainOK
<1> QED BY <1>3, <1>6, <1>7, <1>8, <1>9, <1>11, <1>12, <1>13 DEF Typed

\* Every step keeps the types.
LEMMA NextTyped == Inv /\ Typed /\ [Next]_vars => Typed'
<1> SUFFICES ASSUME Inv, Typed, [Next]_vars PROVE Typed'
  OBVIOUS
<1> QED BY HeadsTyped, LabelsTyped, JobTyped, PoolTyped, DraftTyped, MainTyped DEF Typed

\* The parts are what TypeOK says.
LEMMA TypedImplies == Typed => TypeOK
  BY DEF Typed, TypeOK, HeadsOK, LockOK, PcOK, JobOK, AddingOK, PoolOK, DraftOK, MainOK,
         ThreadLabels, MinerLabels

\* With any number of threads, accounts and heads every variable keeps its type, the
\* manager's mutex is held exactly from a new head to its ledger, and the pool has one
\* transfer per sender and nonce (SimpleMempool::add, ChainManager::importBlock).
THEOREM TypesAreKept == Spec => []TypeOK
<1>1. Spec => [](Inv /\ Typed)
  BY InitInv, NextInv, InitTyped, NextTyped, PTL DEF Spec
<1> QED BY <1>1, TypedImplies, PTL

-----------------------------------------------------------------------------
(* What take() has left in the draft. *)

\* While the parent is the head, take() reads the head's ledger, and what it takes is
\* valid on it.
TakenInv ==
    draft.parent = head =>
      /\ pc[Miner] = "evict" => job[Miner] = head
      /\ pc[Miner] \in {"prepare", "preview"} =>
            \A tx \in Range(draft.txs) : ValidAfter(head, tx)

\* A step that is not the miner's leaves its draft alone or supersedes its parent.
LEMMA OthersLeaveDraft ==
    ASSUME Inv, Typed, NEW t \in Threads,
           RemoteHead(t) \/ CheckTransaction(t) \/ ThreadStep(t)
    PROVE  /\ draft' = draft /\ pc'[Miner] = pc[Miner] /\ job'[Miner] = job[Miner]
           /\ \/ heads' = heads
              \/ head' = head + 1
<1>1. t \in Workers /\ Miner \in Workers /\ t # Miner
  BY MiningAssumption DEF Workers
<1>2. draft' = draft
  BY DEF RemoteHead, CheckTransaction, ThreadStep, Install, RemoveIncluded, InterruptSeal,
         PushTransaction
<1>3. \E label : pc' = [pc EXCEPT ![t] = label]
  BY DEF RemoteHead, NewHead, CheckTransaction, ThreadStep, Install, RemoveIncluded,
         InterruptSeal, PushTransaction, Goto
<1>4. job' = job \/ \E i : job' = [job EXCEPT ![t] = i]
  BY DEF RemoteHead, NewHead, CheckTransaction, ThreadStep, Install, RemoveIncluded,
         InterruptSeal, PushTransaction
<1>5. pc'[Miner] = pc[Miner] /\ job'[Miner] = job[Miner]
  BY <1>1, <1>3, <1>4 DEF Typed, PcOK, JobOK
<1>6. CASE RemoteHead(t)
  <2>1. PICK b \in Block : NewHead(t, b)
    BY <1>6 DEF RemoteHead
  <2>2. head' = head + 1
    BY <2>1, AppendHead DEF NewHead, Typed, HeadsOK
  <2> QED BY <1>2, <1>5, <2>2
<1>7. CASE CheckTransaction(t) \/ ThreadStep(t)
  <2>1. heads' = heads
    BY <1>7 DEF CheckTransaction, ThreadStep, Install, RemoveIncluded, InterruptSeal,
                PushTransaction
  <2> QED BY <1>2, <1>5, <2>1
<1> QED BY <1>6, <1>7

\* Every step keeps it.
LEMMA NextTaken == Inv /\ Typed /\ TakenInv /\ [Next]_vars => TakenInv'
<1> SUFFICES ASSUME Inv, Typed, TakenInv, [Next]_vars PROVE TakenInv'
  OBVIOUS
<1>1. pc = [t \in Workers |-> pc[t]] /\ Miner \in Workers
  BY DEF Typed, PcOK, Workers
<1>2. job \in [Workers -> {NoJob} \cup 1 .. head]
  BY DEF Typed, JobOK
<1>3. pc[Miner] \in {"evict", "prepare", "preview"} => draft.parent \in 1 .. head
  BY DEF Inv, DraftInv, HasParent
<1>4. ASSUME pc'[Miner] \notin {"evict", "prepare", "preview"} PROVE TakenInv'
  BY <1>4 DEF TakenInv
<1>5. ASSUME heads' = heads, draft' = draft, pc'[Miner] = pc[Miner], job'[Miner] = job[Miner]
      PROVE  TakenInv'
  BY <1>5 DEF TakenInv, ValidAfter, head
<1>6. ASSUME NEW t \in Threads, RemoteHead(t) \/ CheckTransaction(t) \/ ThreadStep(t)
      PROVE  TakenInv'
  <2>1. /\ draft' = draft /\ pc'[Miner] = pc[Miner] /\ job'[Miner] = job[Miner]
        /\ heads' = heads \/ head' = head + 1
    BY <1>6, OthersLeaveDraft
  <2>2. CASE head' = head + 1
    <3>1. head \in Nat
      BY DEF Typed, HeadsOK
    <3>2. pc'[Miner] \in {"evict", "prepare", "preview"} => draft'.parent # head'
      BY <1>3, <2>1, <2>2, <3>1
    <3> QED BY <3>2 DEF TakenInv
  <2> QED BY <1>5, <2>1, <2>2
<1>7. CASE TakeLedger
  <2>1. /\ pc' = [pc EXCEPT ![Miner] = "evict"] /\ job' = [job EXCEPT ![Miner] = ledger]
        /\ heads' = heads /\ lock = Free
    BY <1>7 DEF TakeLedger, Goto
  <2>2. pc'[Miner] = "evict" /\ job'[Miner] = head /\ head' = head
    BY <1>1, <1>2, <2>1 DEF Inv, LockInv, head
  <2> QED BY <2>2 DEF TakenInv
<1>8. CASE Take
  <2>1. /\ pc[Miner] = "evict" /\ pc' = [pc EXCEPT ![Miner] = "prepare"] /\ heads' = heads
        /\ pool' = Without(pool, Evicted(job[Miner]))
    BY <1>8 DEF Take, Goto
  <2>2. pc'[Miner] = "prepare" /\ head' = head
    BY <1>1, <2>1 DEF head
  <2>3. /\ \A x \in Range(draft'.txs) : x \in Range(pool')
        /\ draft'.parent = draft.parent
    <3>1. draft \in Draft
      BY DEF Typed, DraftOK
    <3>2. /\ \A x \in Range(draft'.txs) : x \in Range(pool')
          /\ draft' = [draft EXCEPT !.txs = draft'.txs]
      BY <1>8, PoolTyped, TakenIs DEF Typed
    <3> QED BY <3>1, <3>2 DEF Draft
  <2>4. \A x \in Range(pool') : x \in Range(pool) /\ x \notin Evicted(job[Miner])
    BY <2>1, WithoutIs DEF Typed, PoolOK
  <2>5. draft.parent = head => \A x \in Range(pool') : ValidAfter(head, x)
    BY <2>1, <2>4 DEF TakenInv, Evicted
  <2>6. \A x : ValidAfter(head, x)' <=> ValidAfter(head, x)
    BY <2>1 DEF ValidAfter, head
  <2>7. draft'.parent = head' =>
           \A tx \in Range(draft'.txs) : tx.nonce = heads'[head'].nonces[tx.from]
    BY <2>1, <2>2, <2>3, <2>5 DEF ValidAfter
  <2> QED BY <2>2, <2>7 DEF TakenInv, ValidAfter
<1>9. CASE Prepare
  <2>1. /\ pc[Miner] = "prepare" /\ heads' = heads /\ pc' = [pc EXCEPT ![Miner] = "preview"]
        /\ draft' = [draft EXCEPT !.after = head]
    BY <1>9 DEF Prepare, Goto
  <2>2. pc'[Miner] = "preview" /\ head' = head
    BY <1>1, <2>1 DEF head
  <2>3. draft'.txs = draft.txs /\ draft'.parent = draft.parent
    BY <2>1 DEF Typed, DraftOK, Draft
  <2> QED BY <2>1, <2>2, <2>3 DEF TakenInv, ValidAfter
<1>10. CASE Preview
  <2>1. pc' = [pc EXCEPT ![Miner] = "seal"] \/ pc' = [pc EXCEPT ![Miner] = "loop"]
    BY <1>10 DEF Preview, Goto
  <2> QED BY <1>1, <1>4, <2>1
<1>11. CASE \/ MinerLoop \/ Arm \/ ReadParent \/ ReadHeight \/ CheckToken \/ SealFound
            \/ SealNotFound \/ LocalHead \/ LocalKept \/ Install(Miner) \/ RemoveIncluded(Miner)
  <2>1. \E label : /\ label \notin {"evict", "prepare", "preview"}
                   /\ pc' = [pc EXCEPT ![Miner] = label]
    BY <1>11 DEF MinerLoop, Arm, ReadParent, ReadHeight, CheckToken, SealFound, SealNotFound,
                 LocalHead, NewHead, LocalKept, Install, RemoveIncluded, Goto
  <2> QED BY <1>1, <1>4, <2>1
<1>12. CASE RequestStop \/ MainStep \/ UNCHANGED vars
  BY <1>5, <1>12 DEF RequestStop, MainStep, StopInterrupts, Join, vars
<1> QED BY <1>6, <1>7, <1>8, <1>9, <1>10, <1>11, <1>12 DEF Next, MinerStep

\* With any number of threads, a draft whose parent is still the head is executable when
\* the ledger is read again for its preview: take() filtered it on that ledger
\* (Miner::mineOne, SimpleMempool::take, ChainManager::previewBlock).
THEOREM DraftsFailOnlyIfStale == Spec => []DraftFailsOnlyIfStale
<1>1. Init => TakenInv
  BY DEF Init, TakenInv, Workers
<1>2. Spec => [](Inv /\ Typed /\ TakenInv)
  BY <1>1, InitInv, NextInv, InitTyped, NextTyped, NextTaken, PTL DEF Spec
<1>3. Inv /\ TakenInv => DraftFailsOnlyIfStale
  BY DEF Inv, LockInv, TakenInv, DraftFailsOnlyIfStale, Executable
<1> QED BY <1>2, <1>3, PTL
=============================================================================
