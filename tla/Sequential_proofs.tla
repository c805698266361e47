-------------------------- MODULE Sequential_proofs --------------------------
(***************************************************************************)
(* Proofs about the parts that no thread shares.                           *)
(*                                                                         *)
(* The ledger, whatever the words, the allocations, the reward and the     *)
(* blocks: supply, nonces, signatures and what the pool offers.  The hash  *)
(* object, whatever the sizes of a block and of its length: a digest is    *)
(* that of the padded message.                                             *)
(***************************************************************************)
EXTENDS Ledger, Sha256, Inductions

-----------------------------------------------------------------------------
(* Account maps. *)

\* Accounts are a map from finitely many addresses.
IsLedger(acc) ==
    /\ IsFiniteSet(DOMAIN acc) /\ DOMAIN acc \subseteq Address
    /\ acc \in [DOMAIN acc -> Account]

\* What an account map has but for one account.
Others(acc, a) == SumFunction([x \in DOMAIN acc \ {a} |-> acc[x].balance])

\* The sum of the balances is a number, and one of them is a part of it.
LEMMA UnitsSplit ==
    ASSUME NEW acc, IsLedger(acc)
    PROVE  /\ Units(acc) \in Nat
           /\ \A a \in DOMAIN acc :
                 /\ Others(acc, a) \in Nat
                 /\ Units(acc) = acc[a].balance + Others(acc, a)
<1> DEFINE f == [x \in DOMAIN acc |-> acc[x].balance]
<1>1. f \in [DOMAIN acc -> Nat]
  BY DEF IsLedger, Account, Amount
<1>2. Units(acc) \in Nat
  BY <1>1, SumIsNat DEF Units, IsLedger
<1>3. ASSUME NEW a \in DOMAIN acc
      PROVE  Others(acc, a) \in Nat /\ Units(acc) = acc[a].balance + Others(acc, a)
  <2> DEFINE rest == [x \in DOMAIN acc \ {a} |-> f[x]]
  <2>1. SumFunction(rest) \in Nat /\ SumFunction(f) = f[a] + SumFunction(rest)
    <3> HIDE DEF f
    <3> QED BY <1>1, SumSplits DEF IsLedger
  <2>2. rest = [x \in DOMAIN acc \ {a} |-> acc[x].balance]
    OBVIOUS
  <2> QED BY <2>1, <2>2 DEF Units, Others
<1> QED BY <1>2, <1>3

\* Two maps that differ in one account have the same elsewhere.
LEMMA SameOthers ==
    ASSUME NEW acc, NEW new, NEW a, DOMAIN new \ {a} = DOMAIN acc \ {a},
           \A x \in DOMAIN acc \ {a} : new[x].balance = acc[x].balance
    PROVE  Others(new, a) = Others(acc, a)
<1>1. [x \in DOMAIN new \ {a} |-> new[x].balance]
         = [x \in DOMAIN acc \ {a} |-> acc[x].balance]
  OBVIOUS
<1> QED BY <1>1 DEF Others

\* A map without an account has all its units in the others.
LEMMA AllOthers ==
    ASSUME NEW acc, NEW a, a \notin DOMAIN acc
    PROVE  Others(acc, a) = Units(acc)
<1>1. DOMAIN acc \ {a} = DOMAIN acc
  OBVIOUS
<1> QED BY <1>1 DEF Others, Units

-----------------------------------------------------------------------------
(* Credits, debits and transfers. *)

\* The account a credit finds, or the one it creates.
Before(acc, a) == IF a \in DOMAIN acc THEN acc[a] ELSE [balance |-> 0, nonce |-> 0]

\* A credit changes one balance and no nonce, and the sum by what it gives, less
\* a word if the balance wraps.
LEMMA CreditIs ==
    ASSUME NEW acc, IsLedger(acc), NEW a \in Address, NEW u \in Amount
    PROVE  LET new == Credit(acc, a, u) IN
           /\ IsLedger(new)
           /\ DOMAIN new = DOMAIN acc \cup {a}
           /\ \A x \in DOMAIN acc : x # a => new[x] = acc[x]
           /\ new[a].nonce = Before(acc, a).nonce
           /\ Units(new) = Units(acc) + u \/ Units(new) + Word = Units(acc) + u
           /\ Units(acc) + u < Word =>
                 /\ Units(new) = Units(acc) + u
                 /\ new[a].balance = Before(acc, a).balance + u
<1> DEFINE old == Before(acc, a)
           new == Credit(acc, a, u)
<1>1. old \in Account
  BY AccountsAssumption DEF Before, IsLedger, Account, Amount
<1>2. new = [x \in DOMAIN acc \cup {a} |->
                IF x = a THEN [balance |-> (old.balance + u) % Word, nonce |-> old.nonce]
                         ELSE acc[x]]
  BY <1>1 DEF Credit, Before, Account
<1>3. (old.balance + u) % Word \in Amount
  BY <1>1, AccountsAssumption DEF Account, Amount
<1>4. IsLedger(new)
  <2>1. IsFiniteSet(DOMAIN acc \cup {a})
    BY FS_AddElement DEF IsLedger
  <2>2. new \in [DOMAIN acc \cup {a} -> Account]
    BY <1>1, <1>2, <1>3 DEF IsLedger, Account
  <2> QED BY <2>1, <2>2, <1>2 DEF IsLedger
<1>5. /\ DOMAIN new = DOMAIN acc \cup {a}
      /\ \A x \in DOMAIN acc : x # a => new[x] = acc[x]
      /\ new[a].nonce = old.nonce /\ new[a].balance = (old.balance + u) % Word
  BY <1>2
<1>6. Units(acc) = old.balance + Others(acc, a) /\ Others(acc, a) \in Nat /\ Units(acc) \in Nat
  <2>1. CASE a \in DOMAIN acc
    BY <2>1, UnitsSplit DEF Before
  <2>2. CASE a \notin DOMAIN acc
    BY <2>2, UnitsSplit, AllOthers DEF Before
  <2> QED BY <2>1, <2>2
<1>7. Units(new) = new[a].balance + Others(acc, a)
  <2>1. Others(new, a) = Others(acc, a)
    <3> HIDE DEF new, old
    <3> QED BY <1>5, SameOthers
  <2>2. Units(new) = new[a].balance + Others(new, a)
    <3> HIDE DEF new, old
    <3> QED BY <1>4, <1>5, UnitsSplit
  <2> QED BY <2>1, <2>2
<1>8. /\ old.balance + u < Word => new[a].balance = old.balance + u
      /\ old.balance + u >= Word => new[a].balance = old.balance + u - Word
  BY <1>1, <1>5, ModOfSum, AccountsAssumption DEF Account, Amount
<1>9. old.balance \in Nat /\ u \in Nat /\ Word \in Nat
  BY <1>1, AccountsAssumption DEF Account, Amount
<1> HIDE DEF old, new
<1> QED BY <1>4, <1>5, <1>6, <1>7, <1>8, <1>9 DEF old, new

\* A credit that does not wrap takes nothing.
LEMMA CreditTakesNothing ==
    ASSUME NEW acc, IsLedger(acc), NEW a \in Address, NEW u \in Amount,
           NEW x \in DOMAIN acc
    PROVE  /\ x \in DOMAIN Credit(acc, a, u)
           /\ Units(acc) + u < Word => Credit(acc, a, u)[x].balance >= acc[x].balance
<1> DEFINE new == Credit(acc, a, u)
<1>1. /\ DOMAIN new = DOMAIN acc \cup {a}
      /\ \A y \in DOMAIN acc : y # a => new[y] = acc[y]
      /\ Units(acc) + u < Word => new[a].balance = Before(acc, a).balance + u
  BY CreditIs
<1> HIDE DEF new
<1>2. acc[x].balance \in Nat /\ u \in Nat
  BY DEF IsLedger, Account, Amount
<1>3. CASE x = a
  BY <1>1, <1>2, <1>3 DEF Before, new
<1>4. CASE x # a
  BY <1>1, <1>2, <1>4 DEF new
<1> QED BY <1>3, <1>4

\* A valid transfer's debit takes its value from its sender and counts a nonce.
LEMMA DebitIs ==
    ASSUME NEW acc, IsLedger(acc), NEW tx \in Transaction, ValidateAgainst(acc, tx)
    PROVE  LET new == Debit(acc, tx) IN
           /\ IsLedger(new)
           /\ DOMAIN new = DOMAIN acc
           /\ \A x \in DOMAIN acc : x # tx.from => new[x] = acc[x]
           /\ new[tx.from].nonce = (acc[tx.from].nonce + 1) % Word
           /\ Units(new) + tx.value = Units(acc)
<1> DEFINE new == Debit(acc, tx)
           old == acc[tx.from]
<1>1. tx.from \in DOMAIN acc /\ tx.value \in Amount /\ tx.value <= old.balance
  BY DEF ValidateAgainst, Transaction
<1>2. old \in Account /\ old.balance \in Amount /\ old.nonce \in Amount
  BY <1>1 DEF IsLedger, Account
<1>3. /\ old.balance - tx.value \in Amount
      /\ (old.balance - tx.value) % Word = old.balance - tx.value
      /\ (old.nonce + 1) % Word \in Amount
  <2>1. old.balance - tx.value \in 0 .. Word - 1
    BY <1>1, <1>2, AccountsAssumption DEF Amount
  <2>2. (old.balance - tx.value) % Word = old.balance - tx.value
    BY <2>1, ModOfSum, AccountsAssumption
  <2>3. (old.nonce + 1) % Word \in 0 .. Word - 1
    BY <1>2, AccountsAssumption DEF Amount
  <2> QED BY <2>1, <2>2, <2>3 DEF Amount
<1>4. new = [acc EXCEPT ![tx.from] = [balance |-> old.balance - tx.value,
                                      nonce   |-> (old.nonce + 1) % Word]]
  BY <1>3 DEF Debit
<1>5. [balance |-> old.balance - tx.value, nonce |-> (old.nonce + 1) % Word] \in Account
  BY <1>3 DEF Account
<1>6. IsLedger(new) /\ DOMAIN new = DOMAIN acc
  BY <1>1, <1>4, <1>5 DEF IsLedger
<1>7. /\ \A x \in DOMAIN acc : x # tx.from => new[x] = acc[x]
      /\ new[tx.from].nonce = (old.nonce + 1) % Word
      /\ new[tx.from].balance = old.balance - tx.value
  BY <1>1, <1>4 DEF IsLedger
<1>8. Others(new, tx.from) = Others(acc, tx.from)
  <2> HIDE DEF new
  <2> QED BY <1>6, <1>7, SameOthers
<1>9. /\ Units(acc) = old.balance + Others(acc, tx.from)
      /\ Units(new) = new[tx.from].balance + Others(new, tx.from)
      /\ Others(acc, tx.from) \in Nat
  <2> HIDE DEF new
  <2> QED BY <1>1, <1>6, UnitsSplit
<1>10. Units(new) + tx.value = Units(acc)
  BY <1>1, <1>2, <1>7, <1>8, <1>9 DEF Amount
<1> QED BY <1>6, <1>7, <1>10

\* A valid transfer leaves the sum as it is, less a word if the receiver's balance
\* wraps; it counts one nonce of its sender and takes from no other account.
LEMMA TransferIs ==
    ASSUME NEW acc, IsLedger(acc), NEW tx \in Transaction, ValidateAgainst(acc, tx)
    PROVE  LET new == Transfer(acc, tx) IN
           /\ IsLedger(new)
           /\ DOMAIN new = DOMAIN acc \cup {tx.to}
           /\ \A x \in DOMAIN new : new[x].nonce =
                 IF x = tx.from THEN (acc[x].nonce + 1) % Word ELSE Before(acc, x).nonce
           /\ Units(new) = Units(acc) \/ Units(new) + Word = Units(acc)
           /\ Units(acc) < Word =>
                 /\ Units(new) = Units(acc)
                 /\ \A x \in DOMAIN acc : x # tx.from => new[x].balance >= acc[x].balance
<1> DEFINE paid == Debit(acc, tx)
           new == Credit(paid, tx.to, tx.value)
<1>1. /\ IsLedger(paid) /\ DOMAIN paid = DOMAIN acc
      /\ \A x \in DOMAIN acc : x # tx.from => paid[x] = acc[x]
      /\ paid[tx.from].nonce = (acc[tx.from].nonce + 1) % Word
      /\ Units(paid) + tx.value = Units(acc)
  BY DebitIs
<1> HIDE DEF paid
<1>2. tx.to \in Address /\ tx.value \in Amount /\ tx.from \in DOMAIN acc
  BY DEF Transaction, ValidateAgainst
<1>3. /\ IsLedger(new)
      /\ DOMAIN new = DOMAIN paid \cup {tx.to}
      /\ \A x \in DOMAIN paid : x # tx.to => new[x] = paid[x]
      /\ new[tx.to].nonce = Before(paid, tx.to).nonce
      /\ Units(new) = Units(paid) + tx.value \/ Units(new) + Word = Units(paid) + tx.value
      /\ Units(paid) + tx.value < Word =>
            /\ Units(new) = Units(paid) + tx.value
            /\ new[tx.to].balance = Before(paid, tx.to).balance + tx.value
  BY <1>1, <1>2, CreditIs
<1> HIDE DEF new
<1>4. ASSUME NEW x \in DOMAIN new
      PROVE  new[x].nonce = IF x = tx.from THEN (acc[x].nonce + 1) % Word
                                           ELSE Before(acc, x).nonce
  <2>1. new[x].nonce = Before(paid, x).nonce
    BY <1>3 DEF Before
  <2>2. CASE x = tx.from
    BY <2>1, <2>2, <1>1, <1>2 DEF Before
  <2>3. CASE x # tx.from
    BY <2>1, <2>3, <1>1 DEF Before
  <2> QED BY <2>2, <2>3
<1>5. ASSUME Units(acc) < Word, NEW x \in DOMAIN acc, x # tx.from
      PROVE  new[x].balance >= acc[x].balance
  <2>1. acc[x].balance \in Nat /\ tx.value \in Nat
    BY <1>2 DEF IsLedger, Account, Amount
  <2>2. CASE x = tx.to
    BY <2>1, <2>2, <1>1, <1>3, <1>5 DEF Before
  <2>3. CASE x # tx.to
    BY <2>1, <2>3, <1>1, <1>3, <1>5
  <2> QED BY <2>2, <2>3
<1>6. Transfer(acc, tx) = new
  BY DEF Transfer, new, paid
<1> QED BY <1>1, <1>3, <1>4, <1>5, <1>6

-----------------------------------------------------------------------------
(* The execution of a block's transactions. *)

Ledgers == {acc \in UNION {[some -> Account] : some \in SUBSET Address} :
               IsFiniteSet(DOMAIN acc)}

\* Both ways to say what a map of accounts is.
LEMMA LedgersAre ==
    ASSUME NEW acc
    PROVE  /\ acc \in Ledgers <=> IsLedger(acc)
           /\ IsLedger(acc) => acc # Rejected
<1>1. acc \in Ledgers => IsLedger(acc)
  BY DEF Ledgers, IsLedger
<1>2. IsLedger(acc) => acc \in Ledgers
  BY DEF Ledgers, IsLedger
<1>3. IsLedger(acc) => acc # Rejected
  BY AccountsAssumption DEF IsLedger
<1> QED BY <1>1, <1>2, <1>3

\* A turn of the loop leaves a ledger or refuses.
LEMMA ExecuteIs ==
    ASSUME NEW acc \in Ledgers \cup {Rejected}, NEW tx \in Transaction
    PROVE  Execute(acc, tx) \in Ledgers \cup {Rejected}
BY LedgersAre, TransferIs DEF Execute

\* The loop goes through one ledger, or the refusal, after the other.
LEMMA Runs ==
    ASSUME NEW acc, IsLedger(acc), NEW txs \in Seq(Transaction)
    PROVE  \E run :
              /\ run[0] = acc
              /\ \A k \in 1 .. Len(txs) : run[k] = Execute(run[k - 1], txs[k])
              /\ run[Len(txs)] = FoldLeft(Execute, acc, txs)
<1> DEFINE D == 1 .. Len(txs)
           Folds(h) == h = [s \in SUBSET D |->
                IF s = {} THEN acc ELSE Execute(h[s \ {Max(s)}], txs[Max(s)])]
           fold == CHOOSE h : Folds(h)
           run == [k \in 0 .. Len(txs) |-> fold[1 .. k]]
<1>1. FoldLeft(Execute, acc, txs) = fold[D]
  <2>1. DOMAIN txs = D
    OBVIOUS
  <2> QED BY <2>1 DEF FoldLeft, MapThenFoldSet
<1>2. \E h : Folds(h)
  <2> DEFINE V == Ledgers \cup {Rejected}
             pick == [s \in SUBSET D |-> Max(s)]
             step == [vx \in V \X D |-> Execute(vx[1], txs[vx[2]])]
  <2>1. \A s \in SUBSET D : s # {} => pick[s] \in s
    <3>1. Len(txs) \in Nat
      OBVIOUS
    <3>2. \A s \in SUBSET D : s # {} => Max(s) \in s
      BY <3>1, MaxOfSome
    <3> QED BY <3>2
  <2>2. ASSUME NEW v \in V, NEW x \in D
        PROVE  step[<<v, x>>] = Execute(v, txs[x]) /\ step[<<v, x>>] \in V
    BY ExecuteIs
  <2>3. IsFiniteSet(D)
    BY FS_Interval
  <2>4. PICK h \in [SUBSET D -> V] : IsFold(h, D, acc, pick, step)
    <3> HIDE DEF step, pick, V, D
    <3>1. acc \in V
      BY LedgersAre DEF V
    <3>2. Foldable(D, V, acc, pick, step)
      BY <2>1, <2>2, <2>3, <3>1 DEF Foldable
    <3> QED BY <3>2, FoldExists
  <2>5. ASSUME NEW s \in SUBSET D
        PROVE  h[s] = IF s = {} THEN acc ELSE Execute(h[s \ {Max(s)}], txs[Max(s)])
    <3>1. pick[s] = Max(s)
      OBVIOUS
    <3> HIDE DEF step, pick
    <3>2. CASE s = {}
      BY <3>2, <2>4 DEF IsFold
    <3>3. CASE s # {}
      <4>1. pick[s] \in D /\ h[s \ {pick[s]}] \in V
        BY <2>1, <3>3
      <4> QED BY <3>1, <3>3, <4>1, <2>2, <2>4 DEF IsFold
    <3> QED BY <3>2, <3>3
  <2>6. Folds(h)
    BY <2>5
  <2> HIDE DEF Folds
  <2> QED BY <2>6
<1>3. Folds(fold)
  <2> HIDE DEF Folds
  <2> QED BY <1>2
<1>4. fold[{}] = acc /\ \A s \in SUBSET D : s # {} =>
         fold[s] = Execute(fold[s \ {Max(s)}], txs[Max(s)])
  <2> HIDE DEF fold
  <2> QED BY <1>3
<1> HIDE DEF fold, Folds
<1>5. run[0] = acc /\ run[Len(txs)] = fold[D]
  BY <1>4
<1>6. ASSUME NEW k \in 1 .. Len(txs) PROVE run[k] = Execute(run[k - 1], txs[k])
  <2>1. 1 .. k \in SUBSET D /\ 1 .. k # {} /\ k - 1 \in 0 .. Len(txs)
    <3>1. k \in 1 .. k /\ Len(txs) \in Nat
      OBVIOUS
    <3>2. \A i \in 1 .. k : i \in D
      BY <3>1
    <3> QED BY <3>1, <3>2
  <2>2. fold[1 .. k] = Execute(fold[1 .. k - 1], txs[k])
    <3>1. Max(1 .. k) = k /\ (1 .. k) \ {k} = 1 .. k - 1
      BY PrefixIndices
    <3> QED BY <1>4, <2>1, <3>1
  <2> QED BY <2>1, <2>2
<1> QED BY <1>1, <1>5, <1>6

\* A block that is not refused takes the ledger from one valid transfer to the next.
LEMMA Accepted ==
    ASSUME NEW acc, IsLedger(acc), NEW txs \in Seq(Transaction),
           FoldLeft(Execute, acc, txs) # Rejected
    PROVE  \E run :
              /\ run[0] = acc
              /\ run[Len(txs)] = FoldLeft(Execute, acc, txs)
              /\ \A k \in 0 .. Len(txs) : IsLedger(run[k])
              /\ \A k \in 1 .. Len(txs) :
                    /\ ValidateAgainst(run[k - 1], txs[k])
                    /\ run[k] = Transfer(run[k - 1], txs[k])
<1> DEFINE n == Len(txs)
<1>1. PICK run : /\ run[0] = acc
                 /\ \A k \in 1 .. n : run[k] = Execute(run[k - 1], txs[k])
                 /\ run[n] = FoldLeft(Execute, acc, txs)
  BY Runs
<1>2. n \in Nat
  OBVIOUS
<1> HIDE DEF n
<1> DEFINE S == {i \in 0 .. n : run[n - i] # Rejected}
<1>3. 0 \in S
  BY <1>1, <1>2
<1>4. ASSUME NEW i \in 1 .. n, i - 1 \in S PROVE i \in S
  <2>1. n - i + 1 \in 1 .. n /\ (n - i + 1) - 1 = n - i /\ n - (i - 1) = n - i + 1
    BY <1>2
  <2>2. run[n - i + 1] = Execute(run[n - i], txs[n - i + 1])
    BY <1>1, <2>1
  <2>3. run[n - i + 1] # Rejected
    BY <1>4, <2>1
  <2>4. run[n - i] # Rejected
    BY <2>2, <2>3 DEF Execute
  <2> QED BY <2>4
<1>5. \A i \in 0 .. n : i \in S
  <2> HIDE DEF S
  <2> QED BY <1>2, <1>3, <1>4, BoundedInduction
<1>6. ASSUME NEW k \in 0 .. n PROVE run[k] # Rejected
  <2>1. n - k \in 0 .. n /\ n - (n - k) = k
    BY <1>2
  <2> QED BY <1>5, <2>1
<1>7. ASSUME NEW k \in 1 .. n
      PROVE  ValidateAgainst(run[k - 1], txs[k]) /\ run[k] = Transfer(run[k - 1], txs[k])
  <2>1. run[k] # Rejected /\ run[k - 1] # Rejected
    BY <1>2, <1>6
  <2>2. run[k] = Execute(run[k - 1], txs[k])
    BY <1>1
  <2> QED BY <2>1, <2>2 DEF Execute
<1> DEFINE L == {k \in 0 .. n : IsLedger(run[k])}
<1>8. 0 \in L
  BY <1>1, <1>2
<1>9. ASSUME NEW k \in 1 .. n, k - 1 \in L PROVE k \in L
  <2>1. txs[k] \in Transaction
    BY DEF n
  <2>2. IsLedger(run[k - 1])
    BY <1>9
  <2>3. IsLedger(Transfer(run[k - 1], txs[k]))
    BY <1>7, <2>1, <2>2, TransferIs
  <2> QED BY <1>7, <2>3
<1>10. \A k \in 0 .. n : k \in L
  <2> HIDE DEF L
  <2> QED BY <1>2, <1>8, <1>9, BoundedInduction
<1> QED BY <1>1, <1>7, <1>10 DEF n

-----------------------------------------------------------------------------
(* The supply. *)

\* Executing transfers wraps some balances, maybe none.
LEMMA RunWraps ==
    ASSUME NEW acc, IsLedger(acc), NEW txs \in Seq(Transaction),
           FoldLeft(Execute, acc, txs) # Rejected
    PROVE  LET new == FoldLeft(Execute, acc, txs) IN
           IsLedger(new) /\ \E j \in Nat : Units(new) + j * Word = Units(acc)
<1> DEFINE n == Len(txs)
<1>1. PICK run : /\ run[0] = acc
                 /\ run[n] = FoldLeft(Execute, acc, txs)
                 /\ \A k \in 0 .. n : IsLedger(run[k])
                 /\ \A k \in 1 .. n : /\ ValidateAgainst(run[k - 1], txs[k])
                                      /\ run[k] = Transfer(run[k - 1], txs[k])
  BY Accepted
<1>2. n \in Nat /\ Word \in Nat
  BY AccountsAssumption
<1> DEFINE S == {k \in 0 .. n : \E j \in Nat : Units(run[k]) + j * Word = Units(acc)}
<1>3. 0 \in S
  <2>1. Units(acc) \in Nat
    BY UnitsSplit
  <2>2. Units(run[0]) + 0 * Word = Units(acc)
    BY <1>1, <1>2, <2>1
  <2> HIDE DEF n
  <2> QED BY <1>2, <2>2
<1>4. ASSUME NEW k \in 1 .. n, k - 1 \in S PROVE k \in S
  <2> DEFINE old == Units(run[k - 1])
             new == Units(run[k])
  <2>1. PICK j \in Nat : old + j * Word = Units(acc)
    BY <1>4
  <2>2. k - 1 \in 0 .. n /\ k \in 0 .. n /\ txs[k] \in Transaction
    BY <1>2
  <2>3. new = old \/ new + Word = old
    <3>1. IsLedger(run[k - 1]) /\ ValidateAgainst(run[k - 1], txs[k])
      BY <1>1, <2>2
    <3>2. LET z == Transfer(run[k - 1], txs[k])
          IN  Units(z) = old \/ Units(z) + Word = old
      BY <3>1, <2>2, TransferIs
    <3> QED BY <1>1, <3>2
  <2>4. old \in Nat /\ new \in Nat
    BY <1>1, <2>2, UnitsSplit
  <2>5. j * Word \in Nat /\ (j + 1) * Word = j * Word + Word
    BY <1>2
  <2> HIDE DEF old, new
  <2>6. new + j * Word = Units(acc) \/ new + (j + 1) * Word = Units(acc)
    BY <1>2, <2>1, <2>3, <2>4, <2>5
  <2> QED BY <2>2, <2>6 DEF new
<1>5. n \in S
  <2> HIDE DEF S, n
  <2> QED BY <1>2, <1>3, <1>4, BoundedInduction
<1> QED BY <1>1, <1>2, <1>5

\* A block mints its reward, in the word's arithmetic.
LEMMA ApplyMints ==
    ASSUME NEW acc, IsLedger(acc), NEW block,
           block.transactions \in Seq(Transaction), block.beneficiary \in Address,
           Apply(acc, block) # Rejected
    PROVE  /\ IsLedger(Apply(acc, block))
           /\ \E j \in Nat : Units(Apply(acc, block)) + j * Word = Units(acc) + BlockReward
<1> DEFINE mid == FoldLeft(Execute, acc, block.transactions)
           new == Credit(mid, block.beneficiary, BlockReward)
<1>1. mid # Rejected /\ Apply(acc, block) = new
  BY DEF Apply
<1>2. IsLedger(mid)
  BY <1>1, RunWraps
<1>3. PICK j \in Nat : Units(mid) + j * Word = Units(acc)
  BY <1>1, RunWraps
<1> HIDE DEF mid
<1>4. IsLedger(new) /\ (\/ Units(new) = Units(mid) + BlockReward
                        \/ Units(new) + Word = Units(mid) + BlockReward)
  BY <1>2, CreditIs, AccountsAssumption
<1>5. /\ Units(mid) \in Nat /\ Units(new) \in Nat /\ Units(acc) \in Nat
      /\ BlockReward \in Nat /\ Word \in Nat
  BY <1>2, <1>4, UnitsSplit, AccountsAssumption DEF Amount
<1> HIDE DEF new
<1>6. j * Word \in Nat /\ (j + 1) * Word = j * Word + Word
  BY <1>5
<1>7. \/ Units(new) + j * Word = Units(acc) + BlockReward
      \/ Units(new) + (j + 1) * Word = Units(acc) + BlockReward
  <2> DEFINE m == j * Word
  <2>1. m \in Nat /\ (j + 1) * Word = m + Word
    BY <1>6
  <2>2. Units(mid) + m = Units(acc)
    BY <1>3
  <2> HIDE DEF m
  <2>3. Units(new) + m = Units(acc) + BlockReward \/ Units(new) + (m + Word) = Units(acc) + BlockReward
    <3>1. CASE Units(new) = Units(mid) + BlockReward
      BY <3>1, <1>5, <2>1, <2>2
    <3>2. CASE Units(new) + Word = Units(mid) + BlockReward
      BY <3>2, <1>5, <2>1, <2>2
    <3> QED BY <1>4, <3>1, <3>2
  <2> QED BY <2>1, <2>3 DEF m
<1> QED BY <1>1, <1>4, <1>7

-----------------------------------------------------------------------------
(* The nonces. *)

\* The transfers of an account among the first of a history.
Spent(hist, a, n) == Cardinality({i \in 1 .. n : hist[i].from = a})

\* An account's nonce counts its transfers, and so does the nonce of each of them.
Counted(acc, hist, n) ==
    \A a \in Address : Before(acc, a).nonce = Spent(hist, a, n) % Word
Ordered(hist, n) ==
    \A i \in 1 .. n : hist[i].nonce = Spent(hist, hist[i].from, i - 1) % Word

\* One transfer more is one more of its sender.
LEMMA SpentNext ==
    ASSUME NEW hist, NEW a, NEW n \in Nat
    PROVE  /\ Spent(hist, a, n) \in Nat
           /\ Spent(hist, a, 0) = 0
           /\ Spent(hist, a, n + 1) =
                 IF hist[n + 1].from = a THEN Spent(hist, a, n) + 1 ELSE Spent(hist, a, n)
<1> DEFINE at(m) == {i \in 1 .. m : hist[i].from = a}
<1>1. IsFiniteSet(at(n)) /\ Cardinality(at(n)) \in Nat
  <2>1. IsFiniteSet(1 .. n)
    BY FS_Interval
  <2> QED BY <2>1, FS_Subset, FS_CardinalityType
<1>2. at(0) = {}
  OBVIOUS
<1>3. CASE hist[n + 1].from = a
  <2>1. at(n + 1) = at(n) \cup {n + 1} /\ n + 1 \notin at(n)
    BY <1>3
  <2>2. Cardinality(at(n + 1)) = Cardinality(at(n)) + 1
    <3> HIDE DEF at
    <3> QED BY <1>1, <2>1, FS_AddElement
  <2> QED BY <1>1, <1>2, <1>3, <2>2, FS_EmptySet DEF Spent
<1>4. CASE hist[n + 1].from # a
  <2>1. at(n + 1) = at(n)
    BY <1>4
  <2> QED BY <1>1, <1>2, <1>4, <2>1, FS_EmptySet DEF Spent
<1> QED BY <1>3, <1>4

\* A valid transfer that a history has next is counted by the ledger it leaves.
LEMMA TransferCounts ==
    ASSUME NEW acc, IsLedger(acc), NEW hist, NEW n \in Nat,
           hist[n + 1] \in Transaction, ValidateAgainst(acc, hist[n + 1]),
           Counted(acc, hist, n), Ordered(hist, n)
    PROVE  Counted(Transfer(acc, hist[n + 1]), hist, n + 1) /\ Ordered(hist, n + 1)
<1> DEFINE tx == hist[n + 1]
           new == Transfer(acc, tx)
<1>1. /\ DOMAIN new = DOMAIN acc \cup {tx.to}
      /\ \A x \in DOMAIN new : new[x].nonce =
            IF x = tx.from THEN (acc[x].nonce + 1) % Word ELSE Before(acc, x).nonce
  BY TransferIs
<1>2. tx.from \in DOMAIN acc /\ tx.from \in Address /\ tx.nonce = acc[tx.from].nonce
  BY DEF ValidateAgainst, Transaction
<1> HIDE DEF new
<1>3. ASSUME NEW a \in Address PROVE Before(new, a).nonce = Spent(hist, a, n + 1) % Word
  <2>1. Before(acc, a).nonce = Spent(hist, a, n) % Word
    BY DEF Counted
  <2>2. CASE a = tx.from
    <3>1. Before(new, a).nonce = (Before(acc, a).nonce + 1) % Word
      BY <1>1, <1>2, <2>2 DEF Before
    <3>2. Spent(hist, a, n + 1) = Spent(hist, a, n) + 1 /\ Spent(hist, a, n) \in Nat
      BY <2>2, SpentNext
    <3> QED BY <2>1, <3>1, <3>2, ModCounts, AccountsAssumption
  <2>3. CASE a # tx.from
    <3>1. Before(new, a).nonce = Before(acc, a).nonce
      BY <1>1, <2>3 DEF Before
    <3>2. Spent(hist, a, n + 1) = Spent(hist, a, n)
      BY <2>3, SpentNext
    <3> QED BY <2>1, <3>1, <3>2
  <2> QED BY <2>2, <2>3
<1>4. ASSUME NEW i \in 1 .. n + 1
      PROVE  hist[i].nonce = Spent(hist, hist[i].from, i - 1) % Word
  <2>1. CASE i \in 1 .. n
    BY <2>1 DEF Ordered
  <2>2. CASE i = n + 1
    <3>1. i - 1 = n
      BY <2>2
    <3>2. Before(acc, tx.from).nonce = Spent(hist, tx.from, n) % Word
      BY <1>2 DEF Counted
    <3> QED BY <1>2, <2>2, <3>1, <3>2 DEF Before
  <2> QED BY <2>1, <2>2
<1> QED BY <1>3, <1>4 DEF Counted, Ordered, new

\* A block's transfers are counted by the ledger they leave.
LEMMA RunCounts ==
    ASSUME NEW acc, IsLedger(acc), NEW txs \in Seq(Transaction),
           FoldLeft(Execute, acc, txs) # Rejected,
           NEW old \in Seq(Transaction),
           Counted(acc, old, Len(old)), Ordered(old, Len(old))
    PROVE  LET hist == old \o txs IN
           /\ Counted(FoldLeft(Execute, acc, txs), hist, Len(hist))
           /\ Ordered(hist, Len(hist))
<1> DEFINE n == Len(txs)
           m == Len(old)
           hist == old \o txs
<1>1. PICK run : /\ run[0] = acc
                 /\ run[n] = FoldLeft(Execute, acc, txs)
                 /\ \A k \in 0 .. n : IsLedger(run[k])
                 /\ \A k \in 1 .. n : /\ ValidateAgainst(run[k - 1], txs[k])
                                      /\ run[k] = Transfer(run[k - 1], txs[k])
  BY Accepted
<1>2. /\ n \in Nat /\ m \in Nat /\ Len(hist) = m + n
      /\ \A i \in 1 .. m : hist[i] = old[i]
      /\ \A k \in 1 .. n : hist[m + k] = txs[k] /\ txs[k] \in Transaction
  OBVIOUS
<1>3. ASSUME NEW a, NEW i \in 0 .. m PROVE Spent(hist, a, i) = Spent(old, a, i)
  <2> HIDE DEF hist, m
  <2>1. \A j \in 1 .. i : hist[j] = old[j]
    BY <1>2
  <2>2. {j \in 1 .. i : hist[j].from = a} = {j \in 1 .. i : old[j].from = a}
    BY <2>1
  <2> QED BY <2>2 DEF Spent
<1> HIDE DEF n, m, hist
<1> DEFINE S == {k \in 0 .. n : Counted(run[k], hist, m + k) /\ Ordered(hist, m + k)}
<1>4. 0 \in S
  <2>1. m \in 0 .. m /\ m + 0 = m
    BY <1>2
  <2>2. Counted(acc, hist, m)
    BY <1>3, <2>1 DEF Counted, m
  <2>3. ASSUME NEW i \in 1 .. m
        PROVE  hist[i].nonce = Spent(hist, hist[i].from, i - 1) % Word
    <3>1. i - 1 \in 0 .. m /\ hist[i] = old[i]
      BY <1>2
    <3>2. old[i].nonce = Spent(old, old[i].from, i - 1) % Word
      BY DEF Ordered, m
    <3> QED BY <1>3, <3>1, <3>2
  <2>4. Ordered(hist, m)
    BY <2>3 DEF Ordered
  <2> QED BY <1>1, <1>2, <2>1, <2>2, <2>4
<1>5. ASSUME NEW k \in 1 .. n, k - 1 \in S PROVE k \in S
  <2> DEFINE p == m + (k - 1)
  <2>1. p \in Nat /\ p + 1 = m + k /\ k - 1 \in 0 .. n /\ k \in 0 .. n
    BY <1>2
  <2>2. hist[p + 1] = txs[k] /\ txs[k] \in Transaction
    BY <1>2, <2>1
  <2>3. Counted(run[k - 1], hist, p) /\ Ordered(hist, p) /\ IsLedger(run[k - 1])
    BY <1>1, <1>5, <2>1
  <2>4. ValidateAgainst(run[k - 1], hist[p + 1]) /\ run[k] = Transfer(run[k - 1], hist[p + 1])
    BY <1>1, <2>2
  <2> HIDE DEF p
  <2>5. Counted(run[k], hist, p + 1) /\ Ordered(hist, p + 1)
    BY <2>1, <2>2, <2>3, <2>4, TransferCounts
  <2> QED BY <2>1, <2>5
<1>6. n \in S
  <2> HIDE DEF S
  <2>1. \A k \in 0 .. n : k \in S
    BY <1>2, <1>4, <1>5, BoundedInduction
  <2> QED BY <1>2, <2>1
<1> QED BY <1>1, <1>2, <1>6 DEF hist

\* A reward leaves every nonce.
LEMMA CreditCounts ==
    ASSUME NEW acc, IsLedger(acc), NEW b \in Address, NEW u \in Amount,
           NEW hist, NEW n, Counted(acc, hist, n)
    PROVE  Counted(Credit(acc, b, u), hist, n)
<1> DEFINE new == Credit(acc, b, u)
<1>1. /\ DOMAIN new = DOMAIN acc \cup {b}
      /\ \A x \in DOMAIN acc : x # b => new[x] = acc[x]
      /\ new[b].nonce = Before(acc, b).nonce
  BY CreditIs
<1> HIDE DEF new
<1>2. ASSUME NEW a \in Address PROVE Before(new, a).nonce = Before(acc, a).nonce
  BY <1>1 DEF Before
<1> QED BY <1>2 DEF Counted, new

-----------------------------------------------------------------------------
(* The invariant. *)

LedgerInv ==
    /\ IsLedger(accounts)
    /\ height \in Nat
    /\ executed \in Seq(Transaction)
    /\ \E j \in Nat :
          Units(accounts) + j * Word = Units(GenesisAccounts) + height * BlockReward
    /\ Counted(accounts, executed, Len(executed))
    /\ Ordered(executed, Len(executed))

\* The genesis accounts are a ledger of zero nonces.
LEMMA GenesisIs ==
    IsLedger(GenesisAccounts) /\ \A a \in Address : Before(GenesisAccounts, a).nonce = 0
<1>1. DOMAIN GenesisAccounts = DOMAIN Allocations
  BY DEF GenesisAccounts
<1>2. \A a \in DOMAIN Allocations : GenesisAccounts[a] \in Account /\ GenesisAccounts[a].nonce = 0
  BY AccountsAssumption DEF GenesisAccounts, Account, Amount
<1>3. IsLedger(GenesisAccounts)
  <2>1. GenesisAccounts \in [DOMAIN Allocations -> Account]
    BY <1>2 DEF GenesisAccounts
  <2> QED BY <1>1, <2>1, AccountsAssumption DEF IsLedger
<1> QED BY <1>1, <1>2, <1>3 DEF Before

\* The genesis ledger has executed nothing.
LEMMA LedgerInitInv == Init => LedgerInv
<1> SUFFICES ASSUME Init PROVE LedgerInv
    OBVIOUS
<1>1. accounts = GenesisAccounts /\ height = 0 /\ executed = <<>> /\ Len(executed) = 0
  BY DEF Init
<1>2. IsLedger(accounts) /\ executed \in Seq(Transaction)
  BY <1>1, GenesisIs
<1>3. Units(accounts) + 0 * Word = Units(GenesisAccounts) + height * BlockReward
  <2>1. Units(GenesisAccounts) \in Nat /\ Word \in Nat /\ BlockReward \in Nat
    BY GenesisIs, UnitsSplit, AccountsAssumption DEF Amount
  <2> QED BY <1>1, <2>1
<1>4. Counted(accounts, executed, Len(executed))
  <2>1. \A a \in Address : Spent(executed, a, 0) = 0
    BY SpentNext, 0 \in Nat
  <2>2. 0 % Word = 0
    BY ModOfSum, AccountsAssumption
  <2> QED BY <1>1, <2>1, <2>2, GenesisIs DEF Counted
<1>5. Ordered(executed, Len(executed))
  BY <1>1 DEF Ordered
<1> QED BY <1>1, <1>2, <1>3, <1>4, <1>5 DEF LedgerInv

\* What a block holds.
LEMMA BlockHolds ==
    ASSUME NEW block \in Block
    PROVE  block.transactions \in Seq(Transaction) /\ block.beneficiary \in Address
<1>1. block.transactions \in UNION {[1 .. m -> Offered] : m \in 0 .. MaxTxs}
  BY DEF Block, BoundedSeq, SeqOf
<1>2. PICK m \in 0 .. MaxTxs : block.transactions \in [1 .. m -> Offered]
  BY <1>1
<1>3. m \in Nat
  BY <1>2, LedgerAssumption
<1>4. block.transactions \in Seq(Offered)
  BY <1>2, <1>3
<1> QED BY <1>4, LedgerAssumption DEF Block

\* Executing a block preserves it.
LEMMA ExecuteInv ==
    ASSUME LedgerInv, NEW block \in Block, ExecuteBlock(block)
    PROVE  LedgerInv'
<1> DEFINE txs == block.transactions
           mid == FoldLeft(Execute, accounts, txs)
<1>1. /\ IsLedger(accounts) /\ txs \in Seq(Transaction) /\ block.beneficiary \in Address
      /\ height \in Nat /\ executed \in Seq(Transaction)
  BY BlockHolds DEF LedgerInv
<1>2. /\ Apply(accounts, block) # Rejected /\ accounts' = Apply(accounts, block)
      /\ height' = height + 1 /\ executed' = executed \o txs
  BY DEF ExecuteBlock
<1>3. mid # Rejected /\ accounts' = Credit(mid, block.beneficiary, BlockReward)
  BY <1>2 DEF Apply
<1>4. IsLedger(accounts') /\ height' \in Nat /\ executed' \in Seq(Transaction)
  BY <1>1, <1>2, ApplyMints
<1>5. \E j \in Nat :
         Units(accounts') + j * Word = Units(GenesisAccounts) + height' * BlockReward
  <2> DEFINE minted == height * BlockReward
             start == Units(GenesisAccounts)
             old == Units(accounts)
             new == Units(accounts')
  <2>1. PICK i \in Nat : new + i * Word = old + BlockReward
    BY <1>1, <1>2, ApplyMints
  <2>2. PICK j \in Nat : old + j * Word = start + minted
    BY DEF LedgerInv
  <2>3. /\ BlockReward \in Nat /\ Word \in Nat /\ start \in Nat
        /\ old \in Nat /\ new \in Nat
    BY <1>1, <1>4, GenesisIs, UnitsSplit, AccountsAssumption DEF Amount
  <2>4. height' * BlockReward = minted + BlockReward /\ minted \in Nat
    BY <1>1, <1>2, <2>3
  <2>5. /\ i * Word \in Nat /\ j * Word \in Nat
        /\ (i + j) * Word = i * Word + j * Word
    BY <2>3
  <2> DEFINE p == i * Word
             q == j * Word
  <2>6. p \in Nat /\ q \in Nat /\ new + p = old + BlockReward /\ old + q = start + minted
    BY <2>1, <2>2, <2>5
  <2> HIDE DEF minted, start, old, new, p, q
  <2>7. new + (p + q) = start + (minted + BlockReward)
    BY <2>3, <2>4, <2>6
  <2>8. new + (i + j) * Word = start + height' * BlockReward
    BY <2>4, <2>5, <2>7 DEF p, q
  <2> QED BY <2>8 DEF new, start
<1>6. Counted(mid, executed', Len(executed')) /\ Ordered(executed', Len(executed'))
  BY <1>1, <1>2, <1>3, RunCounts DEF LedgerInv
<1>7. Counted(accounts', executed', Len(executed'))
  <2>1. IsLedger(mid)
    BY <1>1, <1>3, RunWraps
  <2> HIDE DEF mid
  <2> QED BY <1>1, <1>3, <1>6, <2>1, CreditCounts, AccountsAssumption
<1> QED BY <1>4, <1>5, <1>6, <1>7 DEF LedgerInv

\* So does every step.
LEMMA LedgerNextInv == LedgerInv /\ [Next]_vars => LedgerInv'
<1>1. ASSUME LedgerInv, UNCHANGED vars PROVE LedgerInv'
  BY <1>1 DEF LedgerInv, vars, Counted, Ordered, Spent, Before, IsLedger, Units
<1>2. ASSUME LedgerInv, Next PROVE LedgerInv'
  BY <1>2, ExecuteInv DEF Next
<1> QED BY <1>1, <1>2

\* The invariant holds whatever is executed.
LEMMA LedgerAlways == Spec => []LedgerInv
BY LedgerInitInv, LedgerNextInv, PTL DEF Spec

\* The supply is what the genesis allocated and one reward per block, in the
\* arithmetic of a word, whatever the size of a word, the allocations, the reward
\* and the blocks.
THEOREM SuppliesAreMinted == Spec => []SupplyIsMinted
<1>1. LedgerInv => SupplyIsMinted
  <2> SUFFICES ASSUME LedgerInv PROVE SupplyIsMinted
    OBVIOUS
  <2> DEFINE total == Units(GenesisAccounts) + height * BlockReward
  <2>1. PICK j \in Nat : Units(accounts) + j * Word = total
    BY DEF LedgerInv
  <2>2. Units(accounts) \in Nat /\ Word \in Nat \ {0}
    BY UnitsSplit, AccountsAssumption DEF LedgerInv
  <2>3. (Units(accounts) + j * Word) % Word = Units(accounts) % Word
    BY <2>2, ModAddsMultiple
  <2>4. accounts \in [DOMAIN accounts -> Account]
    BY DEF LedgerInv, IsLedger
  <2> QED BY <2>1, <2>3, <2>4 DEF SupplyIsMinted
<1> QED BY <1>1, LedgerAlways, PTL

\* Every transfer of an account executes once, in the order of its nonces, for
\* any blocks of any length.
THEOREM NoncesStayConsecutive == Spec => []NoncesAreConsecutive
<1>1. LedgerInv => NoncesAreConsecutive
  <2> SUFFICES ASSUME LedgerInv, NEW i \in DOMAIN executed
               PROVE  executed[i].nonce = Spends(executed[i].from, 1 .. i - 1) % Word
    BY DEF NoncesAreConsecutive
  <2>1. i \in 1 .. Len(executed)
    BY DEF LedgerInv
  <2> QED BY <2>1 DEF LedgerInv, Ordered, Spent, Spends
<1> QED BY <1>1, LedgerAlways, PTL

-----------------------------------------------------------------------------
(* What a block takes from an account. *)

\* Nobody's units are gone who signed none of the transfers.
OnlySignersPay(acc, new, txs) ==
    /\ DOMAIN acc \subseteq DOMAIN new
    /\ Units(acc) < Word =>
          /\ Units(new) = Units(acc)
          /\ \A a \in DOMAIN acc : \/ new[a].balance >= acc[a].balance
                                   \/ \E i \in 1 .. Len(txs) : txs[i].signer = a

\* Transfers take units from their signers only, while nothing wraps.
LEMMA RunSpends ==
    ASSUME NEW acc, IsLedger(acc), NEW txs \in Seq(Transaction),
           FoldLeft(Execute, acc, txs) # Rejected
    PROVE  OnlySignersPay(acc, FoldLeft(Execute, acc, txs), txs)
<1> DEFINE n == Len(txs)
           Kept(new, k) ==
              /\ DOMAIN acc \subseteq DOMAIN new
              /\ Units(acc) < Word =>
                    /\ Units(new) = Units(acc)
                    /\ \A a \in DOMAIN acc :
                          \/ new[a].balance >= acc[a].balance
                          \/ \E i \in 1 .. k : txs[i].signer = a
<1>1. PICK run : /\ run[0] = acc
                 /\ run[n] = FoldLeft(Execute, acc, txs)
                 /\ \A k \in 0 .. n : IsLedger(run[k])
                 /\ \A k \in 1 .. n : /\ ValidateAgainst(run[k - 1], txs[k])
                                      /\ run[k] = Transfer(run[k - 1], txs[k])
  BY Accepted
<1>2. n \in Nat
  OBVIOUS
<1>3. ASSUME NEW new, IsLedger(new)
      PROVE  \A a \in DOMAIN new : new[a].balance \in Nat
  BY <1>3 DEF IsLedger, Account, Amount
<1> DEFINE S == {k \in 0 .. n : Kept(run[k], k)}
<1>4. 0 \in S
  <2>1. Kept(acc, 0)
    BY <1>3
  <2> QED BY <1>1, <1>2, <2>1
<1>5. ASSUME NEW k \in 1 .. n, k - 1 \in S PROVE k \in S
  <2> DEFINE old == run[k - 1]
             new == run[k]
             tx == txs[k]
  <2>1. tx \in Transaction /\ k - 1 \in 0 .. n /\ k \in 0 .. n
    BY <1>2
  <2>2. IsLedger(old) /\ ValidateAgainst(old, tx) /\ new = Transfer(old, tx) /\ IsLedger(new)
    BY <1>1, <2>1
  <2>3. Kept(old, k - 1)
    BY <1>5
  <2> HIDE DEF old, new, tx
  <2>4. /\ DOMAIN new = DOMAIN old \cup {tx.to}
        /\ Units(old) < Word =>
              /\ Units(new) = Units(old)
              /\ \A x \in DOMAIN old : x # tx.from => new[x].balance >= old[x].balance
    BY <2>1, <2>2, TransferIs
  <2>5. tx.signer = tx.from
    BY <2>2 DEF ValidateAgainst
  <2>6. ASSUME Units(acc) < Word, NEW a \in DOMAIN acc
        PROVE  \/ new[a].balance >= acc[a].balance
               \/ \E i \in 1 .. k : txs[i].signer = a
    <3>1. CASE a = tx.from
      BY <3>1, <2>5, <1>2 DEF tx
    <3>2. CASE \E i \in 1 .. k - 1 : txs[i].signer = a
      BY <3>2, <1>2
    <3>3. CASE a # tx.from /\ old[a].balance >= acc[a].balance
      <4>1. a \in DOMAIN old /\ a \in DOMAIN new /\ new[a].balance >= old[a].balance
        BY <2>3, <2>4, <2>6, <3>3
      <4>2. /\ new[a].balance \in Nat /\ old[a].balance \in Nat /\ acc[a].balance \in Nat
        BY <1>3, <2>2, <4>1
      <4> QED BY <3>3, <4>1, <4>2
    <3> QED BY <2>3, <2>6, <3>1, <3>2, <3>3
  <2>7. Kept(new, k)
    BY <2>3, <2>4, <2>6
  <2> HIDE DEF Kept
  <2> QED BY <2>1, <2>7 DEF new
<1>6. n \in S
  <2> HIDE DEF S, n
  <2>1. \A k \in 0 .. n : k \in S
    BY <1>2, <1>4, <1>5, BoundedInduction
  <2> QED BY <1>2, <2>1
<1> QED BY <1>1, <1>6 DEF OnlySignersPay

\* No block takes units from an account whose owner signed none of its
\* transactions, and no account disappears, for any blocks and any ledger that
\* does not wrap.
THEOREM SpendsStaySigned == Spec => SpendsAreSigned
<1> DEFINE Signed == \A a \in DOMAIN accounts :
        /\ a \in DOMAIN accounts'
        /\ Fits(accounts) /\ accounts'[a].balance < accounts[a].balance =>
             \E i \in Len(executed) + 1 .. Len(executed') : executed'[i].signer = a
<1>1. LedgerInv /\ [Next]_vars => [Signed]_vars
  <2> SUFFICES ASSUME LedgerInv, NEW block \in Block, ExecuteBlock(block),
                      NEW a \in DOMAIN accounts
               PROVE  /\ a \in DOMAIN accounts'
                      /\ Fits(accounts) /\ accounts'[a].balance < accounts[a].balance =>
                            \E i \in Len(executed) + 1 .. Len(executed') :
                                executed'[i].signer = a
    BY DEF Next
  <2> DEFINE txs == block.transactions
             mid == FoldLeft(Execute, accounts, txs)
  <2>1. /\ IsLedger(accounts) /\ txs \in Seq(Transaction) /\ block.beneficiary \in Address
        /\ executed \in Seq(Transaction) /\ executed' = executed \o txs
    BY BlockHolds DEF LedgerInv, ExecuteBlock
  <2>2. mid # Rejected /\ accounts' = Credit(mid, block.beneficiary, BlockReward)
    BY DEF ExecuteBlock, Apply
  <2>3. IsLedger(mid)
    BY <2>1, <2>2, RunWraps
  <2>4. /\ DOMAIN accounts \subseteq DOMAIN mid
        /\ Units(accounts) < Word =>
              /\ Units(mid) = Units(accounts)
              /\ \/ mid[a].balance >= accounts[a].balance
                 \/ \E i \in 1 .. Len(txs) : txs[i].signer = a
    <3>1. OnlySignersPay(accounts, mid, txs)
      BY <2>1, <2>2, RunSpends
    <3> HIDE DEF mid, txs
    <3> QED BY <3>1 DEF OnlySignersPay
  <2> HIDE DEF mid
  <2>5. /\ a \in DOMAIN accounts'
        /\ Units(mid) + BlockReward < Word => accounts'[a].balance >= mid[a].balance
    BY <2>1, <2>2, <2>3, <2>4, CreditTakesNothing, AccountsAssumption
  <2>6. IsLedger(accounts')
    BY <2>1, <2>2, <2>3, CreditIs, AccountsAssumption
  <2>7. /\ accounts[a].balance \in Nat /\ mid[a].balance \in Nat /\ accounts'[a].balance \in Nat
        /\ BlockReward \in Nat /\ Word \in Nat /\ Units(accounts) \in Nat
    <3>1. a \in DOMAIN mid
      BY <2>4
    <3>2. accounts[a].balance \in Nat /\ mid[a].balance \in Nat /\ accounts'[a].balance \in Nat
      BY <2>1, <2>3, <2>5, <2>6, <3>1 DEF IsLedger, Account, Amount
    <3>3. Units(accounts) \in Nat
      BY <2>1, UnitsSplit
    <3> QED BY <3>2, <3>3, AccountsAssumption DEF Amount
  <2>8. ASSUME NEW i \in 1 .. Len(txs), txs[i].signer = a
        PROVE  \E k \in Len(executed) + 1 .. Len(executed') : executed'[k].signer = a
    <3>1. /\ Len(executed) + i \in Len(executed) + 1 .. Len(executed')
          /\ executed'[Len(executed) + i] = txs[i]
      BY <2>1
    <3> QED BY <2>8, <3>1
  <2>9. ASSUME Fits(accounts), accounts'[a].balance < accounts[a].balance
        PROVE  \E i \in 1 .. Len(txs) : txs[i].signer = a
    <3>1. Units(accounts) < Word
      BY <2>7, <2>9 DEF Fits
    <3>2. accounts'[a].balance >= mid[a].balance
      BY <2>4, <2>5, <2>9, <3>1 DEF Fits
    <3> QED BY <2>4, <2>7, <2>9, <3>1, <3>2
  <2> QED BY <2>4, <2>5, <2>8, <2>9
<1>2. Spec => [][Signed]_vars
  <2> HIDE DEF Signed
  <2> QED BY <1>1, LedgerAlways, PTL DEF Spec
<1> QED BY <1>2 DEF SpendsAreSigned, Signed

-----------------------------------------------------------------------------
(* What the pool offers. *)

\* Transfers of different senders that are each valid are valid one after the
\* other, while nothing wraps.
LEMMA RunExecutes ==
    ASSUME NEW acc, IsLedger(acc), Units(acc) < Word, NEW txs \in Seq(Transaction),
           \A i \in 1 .. Len(txs) : ValidateAgainst(acc, txs[i]),
           \A i, j \in 1 .. Len(txs) : txs[i].from = txs[j].from => i = j
    PROVE  IsLedger(FoldLeft(Execute, acc, txs))
<1> DEFINE n == Len(txs)
           Ready(new, k) == /\ IsLedger(new) /\ Units(new) = Units(acc)
                            /\ \A i \in k + 1 .. n : ValidateAgainst(new, txs[i])
<1>1. PICK run : /\ run[0] = acc
                 /\ \A k \in 1 .. n : run[k] = Execute(run[k - 1], txs[k])
                 /\ run[n] = FoldLeft(Execute, acc, txs)
  BY Runs
<1>2. n \in Nat
  OBVIOUS
<1> DEFINE S == {k \in 0 .. n : Ready(run[k], k)}
<1>3. 0 \in S
  <2>1. Ready(acc, 0)
    OBVIOUS
  <2> QED BY <1>1, <1>2, <2>1
<1>4. ASSUME NEW k \in 1 .. n, k - 1 \in S PROVE k \in S
  <2> DEFINE old == run[k - 1]
             new == run[k]
             tx == txs[k]
  <2>1. tx \in Transaction /\ k \in 0 .. n /\ k \in (k - 1) + 1 .. n
    BY <1>2
  <2>2. Ready(old, k - 1)
    BY <1>4
  <2>3. new = Execute(old, tx)
    BY <1>1
  <2> HIDE DEF old, new
  <2>4. IsLedger(old) /\ Units(old) = Units(acc) /\ ValidateAgainst(old, tx)
    BY <2>1, <2>2
  <2>5. new = Transfer(old, tx)
    BY <2>3, <2>4, LedgersAre DEF Execute
  <2>6. /\ IsLedger(new) /\ Units(new) = Units(acc)
        /\ DOMAIN new = DOMAIN old \cup {tx.to}
        /\ \A x \in DOMAIN new : new[x].nonce =
              IF x = tx.from THEN (old[x].nonce + 1) % Word ELSE Before(old, x).nonce
        /\ \A x \in DOMAIN old : x # tx.from => new[x].balance >= old[x].balance
    BY <2>1, <2>4, <2>5, TransferIs
  <2>7. ASSUME NEW i \in k + 1 .. n PROVE ValidateAgainst(new, txs[i])
    <3>1. i \in (k - 1) + 1 .. n /\ i \in 1 .. n /\ i # k
      BY <1>2
    <3>2. ValidateAgainst(old, txs[i]) /\ txs[i].from # tx.from /\ txs[i] \in Transaction
      BY <2>2, <3>1
    <3>3. /\ txs[i].from \in DOMAIN old /\ txs[i].from \in DOMAIN new
          /\ new[txs[i].from].nonce = old[txs[i].from].nonce
          /\ new[txs[i].from].balance >= old[txs[i].from].balance
      BY <2>6, <3>2 DEF ValidateAgainst, Before
    <3>4. /\ txs[i].value \in Nat
          /\ new[txs[i].from].balance \in Nat /\ old[txs[i].from].balance \in Nat
      <4>1. txs[i].value \in Nat
        BY <3>2 DEF Amount, Transaction
      <4> QED BY <2>4, <2>6, <3>3, <4>1 DEF IsLedger, Account, Amount
    <3> QED BY <3>2, <3>3, <3>4 DEF ValidateAgainst
  <2>8. Ready(new, k)
    BY <2>6, <2>7
  <2> HIDE DEF Ready
  <2> QED BY <2>1, <2>8 DEF new
<1>5. n \in S
  <2> HIDE DEF S, n
  <2>1. \A k \in 0 .. n : k \in S
    BY <1>2, <1>3, <1>4, BoundedInduction
  <2> QED BY <1>2, <2>1
<1> QED BY <1>1, <1>5

\* What the pool's take() answers executes, in any order and for any ledger that
\* does not wrap: each sender has one valid nonce.
THEOREM PoolStaysExecutable == Spec => []PoolIsExecutable
<1>1. LedgerInv => PoolIsExecutable
  <2> SUFFICES ASSUME LedgerInv, Fits(accounts), NEW txs \in Takeable, NEW b \in Address
               PROVE  Apply(accounts, [transactions |-> txs, beneficiary |-> b]) # Rejected
    BY DEF PoolIsExecutable
  <2> DEFINE Valid == {tx \in Offered : ValidateAgainst(accounts, tx)}
  <2>1. PICK m \in 0 .. MaxTxs : txs \in [1 .. m -> Valid]
    BY DEF Takeable, BoundedSeq, SeqOf
  <2>2. m \in Nat /\ txs \in Seq(Transaction) /\ Len(txs) = m
    BY <2>1, LedgerAssumption
  <2>3. \A i \in 1 .. Len(txs) : ValidateAgainst(accounts, txs[i])
    BY <2>1, <2>2
  <2>4. ASSUME NEW i \in 1 .. Len(txs), NEW j \in 1 .. Len(txs), txs[i].from = txs[j].from
        PROVE  i = j
    <3>1. txs[i].nonce = txs[j].nonce
      BY <2>3, <2>4 DEF ValidateAgainst
    <3> QED BY <2>1, <2>2, <2>4, <3>1 DEF Takeable
  <2>5. IsLedger(accounts) /\ Units(accounts) < Word
    BY UnitsSplit, AccountsAssumption DEF LedgerInv, Fits, Amount
  <2>6. IsLedger(FoldLeft(Execute, accounts, txs))
    BY <2>2, <2>3, <2>4, <2>5, RunExecutes
  <2>7. IsLedger(Credit(FoldLeft(Execute, accounts, txs), b, BlockReward))
    BY <2>6, CreditIs, AccountsAssumption
  <2> QED BY <2>6, <2>7, LedgersAre DEF Apply
<1> QED BY <1>1, LedgerAlways, PTL

-----------------------------------------------------------------------------
(* The hash object. *)

Byte == 0 .. Radix - 1

\* What a buffer holds: nothing here rests on the digits of a length being bytes.
Buffer == [Offset -> Byte \cup {Digit(length, i) : length \in Nat, i \in Offset}]

\* The invariant: what each variable holds, and where the object is in the message.
HashTyped ==
    /\ data \in Buffer /\ compressed \in Seq(Buffer)
    /\ blocklen \in Nat /\ bitlen \in Nat /\ given \in Nat
    /\ input \in Seq(Byte) /\ message \in Seq(Byte)

HashInv == HashTyped /\ PositionIsKept

-----------------------------------------------------------------------------
(* Products of naturals. *)

\* A product grows with its factors.
LEMMA TimesMonotonic ==
    ASSUME NEW a \in Int, NEW b \in Int, NEW c \in Nat, a <= b
    PROVE  a * c <= b * c
  <1>1. (b - a) * c >= 0
    BY SMT
  <1>2. b * c = a * c + (b - a) * c
    BY SMT
  <1> QED BY <1>1, <1>2, SMT

\* One more block.
LEMMA TimesNext ==
    ASSUME NEW k \in Int, NEW c \in Nat
    PROVE  (k + 1) * c = k * c + c /\ (k - 1) * c = k * c - c
  BY SMT

-----------------------------------------------------------------------------
(* The number of blocks. *)

\* Only one number of blocks is the least that holds a padded message.
LEMMA OneLeast ==
    ASSUME NEW k \in Int, NEW l \in Int, NEW size \in Nat,
           size <= k * BlockSize, (k - 1) * BlockSize < size,
           size <= l * BlockSize, (l - 1) * BlockSize < size
    PROVE  k = l
  <1>1. BlockSize \in Nat
    BY Sha256Assumption
  <1>2. ASSUME NEW i \in Int, NEW j \in Int, i < j,
               size <= i * BlockSize, (j - 1) * BlockSize < size
        PROVE  FALSE
    <2>1. i * BlockSize <= (j - 1) * BlockSize
      BY <1>1, <1>2, TimesMonotonic
    <2>2. i * BlockSize \in Int /\ (j - 1) * BlockSize \in Int
      BY <1>1
    <2> QED BY <1>2, <2>1, <2>2
  <1>3. k < l \/ l < k \/ k = l
    OBVIOUS
  <1> QED BY <1>2, <1>3

\* A message that fills K blocks and r bytes takes one block more, or two when the
\* length does not fit behind it.
LEMMA BlocksOfLength ==
    ASSUME NEW K \in Nat, NEW r \in Offset
    PROVE  BlocksOf(K * BlockSize + r) = IF r < LengthAt THEN K + 1 ELSE K + 2
  <1> DEFINE n == K * BlockSize + r
             k == IF r < LengthAt THEN K + 1 ELSE K + 2
             Least(x) == /\ n + 1 + LengthSize <= x * BlockSize
                         /\ (x - 1) * BlockSize < n + 1 + LengthSize
  <1>1. /\ BlockSize \in Nat /\ LengthSize \in Nat /\ LengthSize < BlockSize
        /\ r \in Nat /\ r < BlockSize /\ LengthAt = BlockSize - LengthSize
    BY Sha256Assumption DEF Offset, LengthAt
  <1>2. K * BlockSize \in Nat /\ n \in Nat
    BY <1>1, SMT
  <1>3. k \in Nat
    BY <1>1
  <1>4. Least(k)
    <2>1. (K + 1) * BlockSize = K * BlockSize + BlockSize
      BY <1>1, TimesNext
    <2>2. (K + 2) * BlockSize = (K + 1) * BlockSize + BlockSize
      BY <1>1, SMT
    <2>3. (k - 1) * BlockSize = k * BlockSize - BlockSize
      BY <1>1, <1>3, TimesNext
    <2>4. CASE r < LengthAt
      BY <1>1, <1>2, <2>1, <2>3, <2>4, SMT
    <2>5. CASE ~(r < LengthAt)
      BY <1>1, <1>2, <2>1, <2>2, <2>3, <2>5, SMT
    <2> QED BY <2>4, <2>5
  <1>5. k \in 1 .. n + 2
    <2>1. K <= K * BlockSize
      <3>1. K * 1 <= K * BlockSize
        <4>1. 1 * K <= BlockSize * K
          BY <1>1, TimesMonotonic
        <4> QED BY <4>1, <1>1, SMT
      <3> QED BY <3>1
    <2> QED BY <2>1, <1>1, <1>2, <1>3
  <1>6. ASSUME NEW x \in 1 .. n + 2, Least(x)
        PROVE  x = k
    <2>1. n + 1 + LengthSize \in Nat /\ x \in Int /\ k \in Int
      BY <1>1, <1>2, <1>3
    <2> QED BY <1>4, <1>6, <2>1, OneLeast
  <1>7. BlocksOf(n) = CHOOSE x \in 1 .. n + 2 : Least(x)
    BY DEF BlocksOf
  <1> HIDE DEF n, k, Least
  <1>8. BlocksOf(n) = k
    BY <1>4, <1>5, <1>6, <1>7
  <1> QED BY <1>8 DEF n, k

-----------------------------------------------------------------------------
(* The position in the message. *)

\* A fresh object is at the beginning of an empty message.
LEMMA HashInitInv == HashInit => HashInv
  <1> SUFFICES ASSUME HashInit PROVE HashInv
    OBVIOUS
  <1>1. BlockSize \in Nat /\ 0 < BlockSize /\ 0 \in Byte
    BY Sha256Assumption DEF Byte
  <1>2. /\ data \in Buffer /\ compressed = <<>> /\ input = <<>> /\ message = <<>>
        /\ blocklen = 0 /\ bitlen = 0 /\ given = 0
    BY <1>1 DEF HashInit, Buffer
  <1>3. HashTyped
    BY <1>2 DEF HashTyped
  <1>4. 0 * BlockSize = 0 /\ 0 * BlockSize * Bits = 0 /\ Len(compressed) = 0 /\ Len(input) = 0
    BY <1>1, <1>2, Sha256Assumption, SMT
  <1>5. PositionIsKept
    BY <1>1, <1>2, <1>4 DEF PositionIsKept, Offset
  <1> QED BY <1>3, <1>5 DEF HashInv

\* Starting again is being at the beginning of an empty message, whatever is left in
\* the buffer.
LEMMA RestartInv ==
    ASSUME HashInv, Restart, input = <<>>, input' = <<>>, data' \in Buffer,
           given' = given
    PROVE  HashInv'
  <1>1. BlockSize \in Nat /\ 0 < BlockSize
    BY Sha256Assumption
  <1>2. /\ compressed' = <<>> /\ message' = <<>> /\ blocklen' = 0 /\ bitlen' = 0
    BY DEF Restart
  <1>3. HashTyped'
    BY <1>2 DEF HashTyped, HashInv
  <1>4. /\ 0 * BlockSize = 0 /\ 0 * BlockSize * Bits = 0
        /\ Len(compressed') = 0 /\ Len(input') = 0
    BY <1>1, <1>2, Sha256Assumption, SMT
  <1>5. PositionIsKept'
    BY <1>1, <1>2, <1>4 DEF PositionIsKept, Offset
  <1> QED BY <1>3, <1>5 DEF HashInv

\* A call of update() puts its bytes after those that are taken.
LEMMA UpdateInv ==
    ASSUME HashInv, NEW n \in Nat, NEW piece \in [1 .. n -> Input], Update(piece)
    PROVE  HashInv'
  <1>1. piece \in Seq(Byte) /\ Len(piece) = n
    <2>1. piece \in [1 .. n -> Byte]
      BY Sha256Assumption DEF Byte
    <2> QED BY <2>1
  <1>2. /\ input = <<>> /\ input' = piece /\ message' = message \o piece
        /\ given' = given + n
        /\ UNCHANGED <<data, blocklen, bitlen, compressed>>
    BY <1>1 DEF Update
  <1>3. HashTyped'
    BY <1>1, <1>2 DEF HashTyped, HashInv
  <1>4. PositionIsKept'
    <2> DEFINE taken == Len(compressed) * BlockSize + blocklen
    <2>1. Len(compressed) \in Nat /\ BlockSize \in Nat
      BY Sha256Assumption DEF HashInv, HashTyped
    <2>2. taken \in Nat
      BY <2>1, SMT DEF HashInv, HashTyped
    <2>3. Len(message) = taken
      BY <1>2, <2>2 DEF HashInv, PositionIsKept
    <2>4. /\ Len(message') = taken + n
          /\ \A p \in 1 .. taken : message'[p] = message[p]
          /\ \A j \in 1 .. n : message'[taken + j] = piece[j]
      <3>1. message \in Seq(Byte)
        BY DEF HashInv, HashTyped
      <3> HIDE DEF taken
      <3>2. Len(message') = taken + n
        BY <1>1, <1>2, <2>3, <3>1
      <3>3. ASSUME NEW p \in 1 .. taken PROVE message'[p] = message[p]
        BY <1>1, <1>2, <2>2, <2>3, <3>1
      <3>4. ASSUME NEW j \in 1 .. n PROVE message'[taken + j] = piece[j]
        BY <1>1, <1>2, <2>2, <2>3, <3>1
      <3> QED BY <3>2, <3>3, <3>4
    <2>5. \A k \in DOMAIN compressed, i \in Offset :
              (k - 1) * BlockSize + i + 1 \in 1 .. taken
      <3> SUFFICES ASSUME NEW k \in DOMAIN compressed, NEW i \in Offset
                   PROVE  (k - 1) * BlockSize + i + 1 \in 1 .. taken
        OBVIOUS
      <3>1. k \in 1 .. Len(compressed) /\ blocklen \in Nat
        BY DEF HashInv, HashTyped
      <3>2. k * BlockSize <= Len(compressed) * BlockSize
        BY <2>1, <3>1, TimesMonotonic
      <3>3. (k - 1) * BlockSize = k * BlockSize - BlockSize /\ (k - 1) * BlockSize \in Nat
        BY <2>1, <3>1, TimesNext, SMT
      <3>4. Len(compressed) * BlockSize \in Nat
        BY <2>1, SMT
      <3> DEFINE start == (k - 1) * BlockSize
      <3>5. start \in Nat /\ start + BlockSize <= Len(compressed) * BlockSize
        BY <2>1, <3>1, <3>2, <3>3, <3>4
      <3> HIDE DEF start
      <3>6. i \in Nat /\ i < BlockSize
        BY <2>1 DEF Offset
      <3>7. start + i + 1 \in 1 .. taken
        BY <2>1, <3>1, <3>4, <3>5, <3>6
      <3> QED BY <3>7 DEF start
    <2>6. \A i \in 0 .. blocklen - 1 : Len(compressed) * BlockSize + i + 1 \in 1 .. taken
      <3>1. Len(compressed) * BlockSize \in Nat
        BY <2>1, SMT
      <3> QED BY <3>1 DEF HashInv, HashTyped
    <2> HIDE DEF taken
    <2>7. /\ blocklen' = blocklen /\ bitlen' = bitlen /\ compressed' = compressed
          /\ data' = data /\ DOMAIN input' = 1 .. n /\ Len(input') = n
      BY <1>1, <1>2
    <2>8. \A k \in DOMAIN compressed', i \in Offset :
              compressed'[k][i] = message'[(k - 1) * BlockSize + i + 1]
      BY <2>4, <2>5, <2>7 DEF HashInv, PositionIsKept
    <2>9. \A i \in 0 .. blocklen' - 1 :
              data'[i] = message'[Len(compressed') * BlockSize + i + 1]
      BY <2>4, <2>6, <2>7 DEF HashInv, PositionIsKept
    <2> QED BY <1>2, <2>4, <2>7, <2>8, <2>9 DEF HashInv, PositionIsKept, taken
  <1> QED BY <1>3, <1>4 DEF HashInv

\* A turn of update()'s loop moves one byte from the input to the buffer, and the
\* buffer to the compressed blocks when it is full.
LEMMA UpdateByteInv ==
    ASSUME HashInv, UpdateByte
    PROVE  HashInv'
  <1> DEFINE full == Len(compressed)
             taken == full * BlockSize + blocklen
  <1>1. /\ BlockSize \in Nat /\ full \in Nat /\ blocklen \in Nat
        /\ blocklen \in Offset /\ blocklen < BlockSize
    BY Sha256Assumption DEF HashInv, HashTyped, PositionIsKept, Offset
  <1>2. full * BlockSize \in Nat /\ taken \in Nat
    BY <1>1, SMT
  <1>3. /\ input \in Seq(Byte) /\ input # <<>> /\ data \in Buffer
        /\ message \in Seq(Byte) /\ compressed \in Seq(Buffer) /\ bitlen \in Nat
        /\ given \in Nat
    BY DEF HashInv, HashTyped, UpdateByte
  <1>4. /\ data' = [data EXCEPT ![blocklen] = Head(input)]
        /\ input' = Tail(input)
        /\ message' = message /\ given' = given
    BY DEF UpdateByte
  <1>5. /\ Head(input) = input[1] /\ input[1] \in Byte
        /\ Len(input') = Len(input) - 1 /\ input' \in Seq(Byte)
        /\ \A j \in DOMAIN input' : j + 1 \in DOMAIN input /\ input'[j] = input[j + 1]
    BY <1>3, <1>4
  <1>6. data' \in Buffer /\ data'[blocklen] = input[1]
        /\ \A i \in Offset : i # blocklen => data'[i] = data[i]
    BY <1>1, <1>3, <1>4, <1>5 DEF Buffer
  <1>7. /\ Len(message) = taken + Len(input)
        /\ bitlen = full * BlockSize * Bits
        /\ \A i \in 0 .. blocklen - 1 : data[i] = message[full * BlockSize + i + 1]
        /\ \A j \in DOMAIN input : input[j] = message[taken + j]
        /\ \A k \in DOMAIN compressed, i \in Offset :
               compressed[k][i] = message[(k - 1) * BlockSize + i + 1]
    BY DEF HashInv, PositionIsKept
  <1> HIDE DEF full
  <1>8. \A i \in 0 .. blocklen : data'[i] = message[full * BlockSize + i + 1]
    <2> SUFFICES ASSUME NEW i \in 0 .. blocklen
                 PROVE  data'[i] = message[full * BlockSize + i + 1]
      OBVIOUS
    <2>1. CASE i = blocklen
      <3>1. 1 \in DOMAIN input
        BY <1>3
      <3> QED BY <2>1, <3>1, <1>2, <1>6, <1>7
    <2>2. CASE i # blocklen
      BY <2>2, <1>1, <1>6, <1>7 DEF Offset
    <2> QED BY <2>1, <2>2
  <1>9. \A j \in DOMAIN input' : input'[j] = message[taken + 1 + j]
    <2> SUFFICES ASSUME NEW j \in DOMAIN input'
                 PROVE  input'[j] = message[taken + 1 + j]
      OBVIOUS
    <2>1. j \in Nat /\ taken + (j + 1) = taken + 1 + j
      BY <1>2, <1>5
    <2> HIDE DEF taken
    <2> QED BY <2>1, <1>5, <1>7
  <1>10. CASE blocklen + 1 = BlockSize
    <2>1. /\ compressed' = Append(compressed, data') /\ blocklen' = 0
          /\ bitlen' = bitlen + BlockSize * Bits
      BY <1>10 DEF UpdateByte, Transform
    <2>2. /\ compressed' \in Seq(Buffer) /\ Len(compressed') = full + 1
          /\ compressed'[full + 1] = data'
          /\ \A k \in 1 .. full : compressed'[k] = compressed[k]
      BY <1>3, <1>6, <2>1 DEF full
    <2>3. (full + 1) * BlockSize = full * BlockSize + BlockSize
      BY <1>1, TimesNext
    <2>4. bitlen' = (full + 1) * BlockSize * Bits /\ bitlen' \in Nat
      <3>1. Bits \in Nat
        BY Sha256Assumption
      <3>2. bitlen' = full * BlockSize * Bits + BlockSize * Bits
        BY <1>7, <2>1
      <3>3. (full * BlockSize + BlockSize) * Bits = full * BlockSize * Bits + BlockSize * Bits
        BY <1>1, <3>1, SMT
      <3>4. (full + 1) * BlockSize * Bits = full * BlockSize * Bits + BlockSize * Bits
        BY <3>3, <2>3
      <3>5. BlockSize * Bits \in Nat
        BY <1>1, <3>1, SMT
      <3> QED BY <3>2, <3>4, <3>5, <1>3, <2>1
    <2>5. Len(message) = (full + 1) * BlockSize + 0 + Len(input')
      <3>1. (full + 1) * BlockSize + 0 = taken + 1
        BY <1>1, <1>2, <1>10, <2>3
      <3> HIDE DEF taken
      <3> QED BY <1>2, <1>3, <1>5, <1>7, <3>1
    <2>6. ASSUME NEW k \in 1 .. full + 1, NEW i \in Offset
          PROVE  compressed'[k][i] = message[(k - 1) * BlockSize + i + 1]
      <3>1. CASE k = full + 1
        <4>1. i \in 0 .. blocklen /\ k - 1 = full
          BY <1>1, <1>10, <3>1 DEF Offset
        <4> QED BY <4>1, <3>1, <1>8, <2>2
      <3>2. CASE k # full + 1
        <4>1. k \in 1 .. full /\ k \in DOMAIN compressed
          BY <1>1, <1>3, <3>2 DEF full
        <4> QED BY <4>1, <1>7, <2>2
      <3> QED BY <3>1, <3>2
    <2>7. \A j \in DOMAIN input' : input'[j] = message[(full + 1) * BlockSize + 0 + j]
      <3>1. (full + 1) * BlockSize + 0 = taken + 1
        BY <1>1, <1>2, <1>10, <2>3
      <3> QED BY <3>1, <1>9
    <2>8. DOMAIN compressed' = 1 .. full + 1
      BY <2>2
    <2>9. HashTyped'
      BY <1>3, <1>4, <1>5, <1>6, <2>1, <2>2, <2>4 DEF HashTyped
    <2>10. PositionIsKept'
      <3>1. blocklen' \in Offset /\ 0 .. blocklen' - 1 = {}
        BY <1>1, <2>1 DEF Offset
      <3> QED BY <1>4, <2>1, <2>2, <2>4, <2>5, <2>6, <2>7, <2>8, <3>1
          DEF PositionIsKept
    <2> QED BY <2>9, <2>10 DEF HashInv
  <1>11. CASE blocklen + 1 # BlockSize
    <2>1. /\ blocklen' = blocklen + 1 /\ bitlen' = bitlen /\ compressed' = compressed
      BY <1>11 DEF UpdateByte
    <2>2. blocklen' \in Offset /\ blocklen' \in Nat
      BY <1>1, <1>11, <2>1 DEF Offset
    <2>3. HashTyped'
      BY <1>3, <1>4, <1>5, <1>6, <2>1, <2>2 DEF HashTyped
    <2>4. Len(message) = full * BlockSize + blocklen' + Len(input')
      <3>1. full * BlockSize + blocklen' = taken + 1
        BY <1>1, <1>2, <2>1
      <3> HIDE DEF taken
      <3> QED BY <1>2, <1>3, <1>5, <1>7, <3>1
    <2>5. \A i \in 0 .. blocklen' - 1 : data'[i] = message[full * BlockSize + i + 1]
      BY <1>1, <1>8, <2>1
    <2>6. \A j \in DOMAIN input' : input'[j] = message[full * BlockSize + blocklen' + j]
      <3>1. full * BlockSize + blocklen' = taken + 1
        BY <1>1, <1>2, <2>1
      <3> QED BY <3>1, <1>9
    <2>7. PositionIsKept'
      BY <1>4, <1>7, <2>1, <2>2, <2>4, <2>5, <2>6 DEF PositionIsKept, full
    <2> QED BY <2>3, <2>7 DEF HashInv
  <1> QED BY <1>10, <1>11

-----------------------------------------------------------------------------
(* The padding. *)

\* What digest() compresses is the padded message.
LEMMA PadIsPadded ==
    ASSUME HashInv, input = <<>>
    PROVE  LET blocks == Pad(data, blocklen, bitlen + blocklen * Bits, compressed)
           IN  /\ blocks = Padded(message)
               /\ blocks[Len(blocks)] \in Buffer
  <1> DEFINE full == Len(compressed)
             n == Len(message)
             first == Marked(data, blocklen)
             length == bitlen + blocklen * Bits
             blocks == Pad(data, blocklen, length, compressed)
             Same(k) == \A i \in Offset : blocks[k][i] = PaddedByte(message, k, i)
  <1>1. /\ BlockSize \in Nat /\ LengthSize \in Nat /\ Bits \in Nat
        /\ LengthAt = BlockSize - LengthSize /\ LengthAt \in 1 .. BlockSize
        /\ full \in Nat /\ blocklen \in Nat /\ blocklen \in Offset
        /\ 0 \in Byte /\ Mark \in Byte
    BY Sha256Assumption DEF HashInv, HashTyped, PositionIsKept, Offset, LengthAt, Byte
  <1>2. n = full * BlockSize + blocklen /\ n \in Nat /\ full * BlockSize \in Nat
    <2>1. n = full * BlockSize + blocklen + 0
      BY DEF HashInv, PositionIsKept
    <2>2. full * BlockSize \in Nat
      BY <1>1, SMT
    <2> HIDE DEF full, n
    <2> QED BY <1>1, <2>1, <2>2
  <1>3. length = n * Bits /\ length \in Nat
    <2>1. bitlen = full * BlockSize * Bits
      BY DEF HashInv, PositionIsKept
    <2>2. (full * BlockSize + blocklen) * Bits = full * BlockSize * Bits + blocklen * Bits
      BY <1>1, SMT
    <2>3. length = n * Bits
      BY <1>2, <2>1, <2>2
    <2> HIDE DEF length, n
    <2> QED BY <1>1, <1>2, <2>3, SMT
  <1>4. /\ \A i \in 0 .. blocklen - 1 : data[i] = message[full * BlockSize + i + 1]
        /\ \A k \in 1 .. full, i \in Offset :
               compressed[k][i] = message[(k - 1) * BlockSize + i + 1]
        /\ compressed \in Seq(Buffer) /\ data \in Buffer
    <2>1. compressed \in Seq(Buffer) /\ data \in Buffer
      BY DEF HashInv, HashTyped
    <2>2. \A i \in 0 .. blocklen - 1 : data[i] = message[full * BlockSize + i + 1]
      BY DEF HashInv, PositionIsKept
    <2>3. \A k \in 1 .. full, i \in Offset :
              compressed[k][i] = message[(k - 1) * BlockSize + i + 1]
      BY DEF HashInv, PositionIsKept
    <2> QED BY <2>1, <2>2, <2>3
  <1>5. first \in Buffer
    BY <1>1, <1>4 DEF Marked, Buffer
  <1>6. ASSUME NEW b \in Buffer PROVE WithLength(b, length) \in Buffer
    BY <1>1, <1>3, <1>6 DEF WithLength, Buffer
  <1>7. Cleared(first) \in Buffer
    BY <1>1, <1>5 DEF Cleared, Buffer
  \* A block that was full before: its bytes are all of the message.
  <1>8. ASSUME NEW k \in 1 .. full, NEW i \in Offset
        PROVE  compressed[k][i] = PaddedByte(message, k, i)
    <2> DEFINE start == (k - 1) * BlockSize
    <2>1. k * BlockSize <= full * BlockSize
      BY <1>1, TimesMonotonic
    <2>2. start \in Nat /\ start + BlockSize <= full * BlockSize
      <3>1. start = k * BlockSize - BlockSize /\ start \in Nat
        BY <1>1, TimesNext, SMT
      <3>2. k * BlockSize \in Nat
        BY <1>1, SMT
      <3> QED BY <1>1, <1>2, <2>1, <3>1, <3>2
    <2> HIDE DEF start, n
    <2>3. i \in Nat /\ i < BlockSize
      BY <1>1 DEF Offset
    <2>4. start + i + 1 <= n
      BY <1>1, <1>2, <2>2, <2>3
    <2> QED BY <1>4, <2>4 DEF start, n, PaddedByte
  \* The block the message ends in, up to the mark.
  <1>9. ASSUME NEW i \in Offset
        PROVE  /\ i < blocklen => PaddedByte(message, full + 1, i) = data[i]
               /\ i = blocklen => PaddedByte(message, full + 1, i) = Mark
               /\ i > blocklen => PaddedByte(message, full + 1, i) =
                     IF full + 1 = BlocksOf(n) /\ i >= LengthAt
                     THEN Digit(length, i) ELSE 0
    <2> DEFINE p == (full + 1 - 1) * BlockSize + i + 1
    <2>1. i \in Nat /\ p = full * BlockSize + i + 1
      BY <1>1 DEF Offset
    <2>2. PaddedByte(message, full + 1, i) =
             IF p <= n THEN message[p]
             ELSE IF p = n + 1 THEN Mark
             ELSE IF full + 1 = BlocksOf(n) /\ i >= LengthAt THEN Digit(length, i)
             ELSE 0
      BY <1>3 DEF PaddedByte
    <2> HIDE DEF p, n, length
    <2>3. (i < blocklen => p <= n) /\ (i = blocklen => p = n + 1)
          /\ (i > blocklen => p > n + 1)
      BY <1>1, <1>2, <2>1
    <2>4. i < blocklen => message[p] = data[i]
      BY <1>1, <1>4, <2>1
    <2>5. p \in Nat
      BY <1>2, <2>1
    <2> QED BY <1>2, <2>2, <2>3, <2>4, <2>5
  \* The block after it, when the length did not fit.
  <1>10. ASSUME NEW i \in Offset
         PROVE  PaddedByte(message, full + 2, i) =
                   IF full + 2 = BlocksOf(n) /\ i >= LengthAt
                   THEN Digit(length, i) ELSE 0
    <2> DEFINE p == (full + 2 - 1) * BlockSize + i + 1
    <2>1. i \in Nat /\ p = full * BlockSize + BlockSize + i + 1
      <3>1. full + 2 - 1 = full + 1 /\ (full + 1) * BlockSize = full * BlockSize + BlockSize
        BY <1>1, TimesNext
      <3> QED BY <1>1, <3>1 DEF Offset
    <2>2. PaddedByte(message, full + 2, i) =
             IF p <= n THEN message[p]
             ELSE IF p = n + 1 THEN Mark
             ELSE IF full + 2 = BlocksOf(n) /\ i >= LengthAt THEN Digit(length, i)
             ELSE 0
      BY <1>3 DEF PaddedByte
    <2> HIDE DEF p, n, length
    <2>3. p > n + 1 /\ p \in Nat
      <3>1. blocklen < BlockSize
        BY <1>1 DEF Offset
      <3> QED BY <1>1, <1>2, <2>1, <3>1
    <2> QED BY <1>2, <2>2, <2>3
  <1> HIDE DEF length, full
  <1>11. CASE blocklen < LengthAt
    <2> DEFINE last == WithLength(first, length)
    <2>1. blocks = Append(compressed, last) /\ last \in Buffer
      BY <1>5, <1>6, <1>11 DEF Pad, Transform
    <2>2. BlocksOf(n) = full + 1
      BY <1>1, <1>2, <1>11, BlocksOfLength
    <2>3. /\ Len(blocks) = full + 1 /\ DOMAIN blocks = 1 .. full + 1
          /\ blocks[full + 1] = last
          /\ \A k \in 1 .. full : blocks[k] = compressed[k]
          /\ blocks \in Seq(Buffer)
      BY <1>4, <2>1 DEF full
    <2>4. ASSUME NEW i \in Offset
          PROVE  last[i] = PaddedByte(message, full + 1, i)
      <3>1. last[i] = IF i < LengthAt THEN first[i] ELSE Digit(length, i)
        BY DEF WithLength
      <3>2. first[i] = IF i = blocklen THEN Mark
                       ELSE IF blocklen < i /\ i < LengthAt THEN 0 ELSE data[i]
        BY <1>11 DEF Marked
      <3>3. i \in Nat
        BY <1>1 DEF Offset
      <3> HIDE DEF last, first, n
      <3> QED BY <1>1, <1>9, <1>11, <2>2, <3>1, <3>2, <3>3
    <2> HIDE DEF blocks, last
    <2>5. ASSUME NEW k \in 1 .. full + 1 PROVE Same(k)
      <3>1. CASE k = full + 1
        BY <2>3, <2>4, <3>1
      <3>2. CASE k # full + 1
        <4>1. k \in 1 .. full
          BY <1>1, <3>2
        <4> QED BY <4>1, <1>8, <2>3
      <3> QED BY <3>1, <3>2
    <2> HIDE DEF n
    <2>6. Padded(message) = [k \in 1 .. full + 1 |->
                               [i \in Offset |-> PaddedByte(message, k, i)]]
      BY <2>2 DEF Padded, n
    <2>7. blocks = [k \in 1 .. full + 1 |->
                      [i \in Offset |-> PaddedByte(message, k, i)]]
      <3>1. ASSUME NEW k \in 1 .. full + 1
            PROVE  blocks[k] = [i \in Offset |-> PaddedByte(message, k, i)]
        <4>1. blocks[k] \in Buffer
          BY <2>3
        <4>2. blocks[k] = [i \in Offset |-> blocks[k][i]]
          BY <4>1 DEF Buffer
        <4>3. \A i \in Offset : blocks[k][i] = PaddedByte(message, k, i)
          BY <2>5
        <4> QED BY <4>2, <4>3, Zenon
      <3>2. blocks = [k \in 1 .. full + 1 |-> blocks[k]]
        BY <2>3
      <3> QED BY <3>1, <3>2, Zenon
    <2>8. blocks[Len(blocks)] \in Buffer
      BY <1>1, <2>3
    <2> QED BY <2>6, <2>7, <2>8 DEF blocks, length
  <1>12. CASE ~(blocklen < LengthAt)
    <2> DEFINE last == WithLength(Cleared(first), length)
    <2>1. /\ blocks = Append(Append(compressed, first), last)
          /\ last \in Buffer
      BY <1>5, <1>6, <1>7, <1>12 DEF Pad, Transform
    <2>2. BlocksOf(n) = full + 2
      BY <1>1, <1>2, <1>12, BlocksOfLength
    <2> HIDE DEF first, last
    <2>3. /\ Len(blocks) = full + 2 /\ DOMAIN blocks = 1 .. full + 2
          /\ blocks[full + 2] = last /\ blocks[full + 1] = first
          /\ \A k \in 1 .. full : blocks[k] = compressed[k]
          /\ blocks \in Seq(Buffer)
      BY <1>4, <1>5, <2>1 DEF full
    <2>4. ASSUME NEW i \in Offset
          PROVE  first[i] = PaddedByte(message, full + 1, i)
      <3>1. i \in Nat /\ i < BlockSize
        BY <1>1 DEF Offset
      <3>2. first[i] = IF i = blocklen THEN Mark
                       ELSE IF blocklen < i /\ i < BlockSize THEN 0 ELSE data[i]
        BY <1>12 DEF Marked, first
      <3>3. full + 1 # BlocksOf(n)
        BY <1>1, <2>2
      <3> HIDE DEF n
      <3> QED BY <1>1, <1>9, <3>1, <3>2, <3>3
    <2>5. ASSUME NEW i \in Offset
          PROVE  last[i] = PaddedByte(message, full + 2, i)
      <3>1. last[i] = IF i < LengthAt THEN 0 ELSE Digit(length, i)
        BY DEF WithLength, Cleared, last
      <3>2. i \in Nat
        BY <1>1 DEF Offset
      <3> HIDE DEF last, n
      <3> QED BY <1>1, <1>10, <2>2, <3>1, <3>2
    <2> HIDE DEF blocks, n
    <2>6. ASSUME NEW k \in 1 .. full + 2 PROVE Same(k)
      <3>1. CASE k = full + 2
        BY <2>3, <2>5, <3>1
      <3>2. CASE k = full + 1
        BY <2>3, <2>4, <3>2
      <3>3. CASE k # full + 1 /\ k # full + 2
        <4>1. k \in 1 .. full
          BY <1>1, <3>3
        <4> QED BY <4>1, <1>8, <2>3
      <3> QED BY <3>1, <3>2, <3>3
    <2>7. Padded(message) = [k \in 1 .. full + 2 |->
                               [i \in Offset |-> PaddedByte(message, k, i)]]
      BY <2>2 DEF Padded, n
    <2>8. blocks = [k \in 1 .. full + 2 |->
                      [i \in Offset |-> PaddedByte(message, k, i)]]
      <3>1. ASSUME NEW k \in 1 .. full + 2
            PROVE  blocks[k] = [i \in Offset |-> PaddedByte(message, k, i)]
        <4>1. blocks[k] \in Buffer
          BY <2>3
        <4>2. blocks[k] = [i \in Offset |-> blocks[k][i]]
          BY <4>1 DEF Buffer
        <4>3. \A i \in Offset : blocks[k][i] = PaddedByte(message, k, i)
          BY <2>6
        <4> QED BY <4>2, <4>3, Zenon
      <3>2. blocks = [k \in 1 .. full + 2 |-> blocks[k]]
        BY <2>3
      <3> QED BY <3>1, <3>2, Zenon
    <2>9. blocks[Len(blocks)] \in Buffer
      BY <1>1, <2>3
    <2> QED BY <2>7, <2>8, <2>9 DEF blocks, length
  <1> QED BY <1>11, <1>12

-----------------------------------------------------------------------------
(* The theorems. *)

\* Every step keeps the object's place in the message.
LEMMA HashNextInv == HashInv /\ [HashNext]_hashVars => HashInv'
  <1> SUFFICES ASSUME HashInv, [HashNext]_hashVars PROVE HashInv'
    OBVIOUS
  <1>1. CASE \E n \in 0 .. MaxBytes : \E piece \in [1 .. n -> Input] : Update(piece)
    BY <1>1, UpdateInv, Sha256Assumption
  <1>2. CASE UpdateByte
    BY <1>2, UpdateByteInv
  <1>3. CASE Digest
    <2>1. data' \in Buffer
      BY <1>3, PadIsPadded DEF Digest
    <2> QED BY <1>3, <2>1, RestartInv DEF Digest
  <1>4. CASE Reset
    BY <1>4, RestartInv DEF Reset, HashInv, HashTyped
  <1>5. CASE UNCHANGED hashVars
    BY <1>5 DEF hashVars, HashInv, HashTyped, PositionIsKept
  <1> QED BY <1>1, <1>2, <1>3, <1>4, <1>5 DEF HashNext

\* The object always knows its place in the message (update, pad, digest).
THEOREM PositionStaysKept == HashSpec => []PositionIsKept
  <1>1. HashInv => PositionIsKept
    BY DEF HashInv
  <1> QED BY <1>1, HashInitInv, HashNextInv, PTL DEF HashSpec

\* A digest is that of the padded message, for any sizes and pieces and whatever was
\* hashed before (digest).
THEOREM DigestsAreRight == HashSpec => []DigestIsOfMessage
  <1>1. HashInit => DigestIsOfMessage
    BY DEF HashInit, DigestIsOfMessage
  <1>2. HashInv /\ DigestIsOfMessage /\ [HashNext]_hashVars => DigestIsOfMessage'
    <2> SUFFICES ASSUME HashInv, DigestIsOfMessage, [HashNext]_hashVars
                 PROVE  DigestIsOfMessage'
      OBVIOUS
    <2>1. CASE Digest
      BY <2>1, PadIsPadded DEF Digest, DigestIsOfMessage
    <2>2. CASE digest' = digest
      BY <2>2 DEF DigestIsOfMessage
    <2> QED BY <2>1, <2>2 DEF HashNext, Update, UpdateByte, Reset, hashVars
  <1> QED BY <1>1, <1>2, HashInitInv, HashNextInv, PTL DEF HashSpec
=============================================================================
