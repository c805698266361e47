---------------------------- MODULE Wallet_proofs ----------------------------
(***************************************************************************)
(* Proofs about Wallet, for any addresses, payments and failures: what the *)
(* keystore lists and keeps, the store it is built on, and what becomes of *)
(* the payments sent.                                                      *)
(***************************************************************************)
EXTENDS Wallet, FiniteSetTheorems, SequenceTheorems, TLAPS

\* The addresses listed are different, of the key pairs made, and have their keys.
MapOK(map, pairs) ==
    /\ map \in AS!Map
    /\ Listed(map) \in Seq(Address) /\ IsInjective(Listed(map))
    /\ \A a \in Range(Listed(map)) : a \in pairs /\ map[a] = a

Whole(map) == map \notin {Missing, Torn}

Holds(map, a) == Whole(map) /\ map[a] = a /\ a \in Range(Listed(map))

\* In memory, in the file and in the one that will replace it.
ListInv ==
    /\ made \subseteq Address /\ told \subseteq made
    /\ MapOK(entries, made)
    /\ Whole(file) => MapOK(file, made)
    /\ Whole(temp) => MapOK(temp, made)
    /\ command \in {"putKey", "putIndex"} =>
          up /\ subject \in made /\ entries[subject] = subject
    /\ command = "putKey" => subject \notin Range(Listed(entries))
    /\ ~up => saving = "none"
    /\ faults \in Nat /\ silent \in Nat

\* What has been told is in the file and, once that is loaded, in memory.
KeyInv ==
    silent = 0 =>
        /\ \A a \in told : Holds(file, a) /\ (up => Holds(entries, a))
        /\ saving = "rename" => temp = entries
        /\ saving # "none" => answer = "none"
        /\ command = "putIndex" =>
              /\ Holds(entries, subject)
              /\ answer = "ok" => saving = "none" /\ Holds(file, subject)

\* Between saves the memory is the file, until one fails.
AtomInv ==
    faults = 0 /\ silent = 0 =>
        /\ saving = "rename" => temp = entries
        /\ up /\ saving = "none" =>
              entries = IF file = Missing THEN AS!Empty ELSE file

Inv == ListInv /\ KeyInv /\ AtomInv

-----------------------------------------------------------------------------
(* The maps of the keystore. *)

\* No injective list of addresses is too long to be a value.
LEMMA ListIsValue ==
    ASSUME NEW s \in Seq(Address), IsInjective(s)
    PROVE  s \in Value
<1>1. Len(s) \in Nat /\ s \in [1 .. Len(s) -> Address]
    BY LenProperties
<1>2. s \in Injection(1 .. Len(s), Address)
    BY <1>1 DEF Injection
<1>3. Cardinality(1 .. Len(s)) <= Cardinality(Address)
    BY <1>2, FS_Injection, WalletAssumption
<1>4. Cardinality(1 .. Len(s)) = Len(s)
    BY <1>1, FS_Interval
<1>5. Cardinality(Address) \in Nat
    BY FS_CardinalityType, WalletAssumption
<1>6. Len(s) \in 0 .. Cardinality(Address)
    BY <1>1, <1>3, <1>4, <1>5
<1> QED
    BY <1>1, <1>6, WalletAssumption

\* A map is no mark, and the empty one lists nothing.
LEMMA Maps ==
    /\ \A map \in AS!Map : Whole(map) /\ map # None
    /\ AS!Empty \in AS!Map
    /\ \A pairs : MapOK(AS!Empty, pairs)
    /\ \A a : ~Holds(Missing, a) /\ ~Holds(Torn, a)
<1>1. \A map \in AS!Map : Whole(map) /\ map # None
    BY StorageAssumption DEF AS!Map, Whole
<1>2. AS!Empty \in AS!Map
    BY DEF AS!Map, AS!Empty
<1>3. Listed(AS!Empty) = <<>>
    BY WalletAssumption DEF AS!Empty, Listed
<1>4. <<>> \in Seq(Address) /\ IsInjective(<<>>) /\ Range(<<>>) = {}
    BY EmptySeq DEF IsInjective, Range
<1> QED
    BY <1>1, <1>2, <1>3, <1>4 DEF MapOK, Holds, Whole

\* The key of a new account enters the map.
LEMMA PutKeyMap ==
    ASSUME MapOK(entries, made), made \subseteq Address, NEW a \in Address, a \notin made,
           entries' = AS!Applied(entries, [k \in {a} |-> a])
    PROVE  /\ MapOK(entries', made \cup {a})
           /\ entries'[a] = a
           /\ a \notin Range(Listed(entries'))
           /\ \A b : Holds(entries, b) => Holds(entries', b)
<1>1. a \in Key /\ a # Index /\ a \in Value
    BY WalletAssumption
<1>2. \A k \in Key : entries'[k] = IF k = a THEN a ELSE entries[k]
    BY DEF AS!Applied
<1>3. entries' \in AS!Map
    BY <1>1, <1>2 DEF MapOK, AS!Map, AS!Applied
<1>4. Listed(entries') = Listed(entries)
    BY <1>1, <1>2, WalletAssumption DEF Listed
<1>5. entries'[a] = a
    BY <1>1, <1>2
<1>6. \A b \in Range(Listed(entries)) : b \in made /\ b # a /\ b \in Key
    BY WalletAssumption DEF MapOK
<1>7. MapOK(entries', made \cup {a})
    BY <1>2, <1>3, <1>4, <1>6 DEF MapOK
<1>8. \A b : Holds(entries, b) => Holds(entries', b)
    BY <1>2, <1>3, <1>4, <1>6, Maps DEF Holds
<1> QED
    BY <1>4, <1>5, <1>6, <1>7, <1>8

\* A list with one more address is a list still.
LEMMA AppendedIsList ==
    ASSUME NEW s \in Seq(Address), IsInjective(s), NEW a \in Address, a \notin Range(s)
    PROVE  /\ Append(s, a) \in Seq(Address) /\ IsInjective(Append(s, a))
           /\ Range(Append(s, a)) = Range(s) \cup {a}
           /\ Append(s, a) \in Value
<1> DEFINE l == Append(s, a)
<1>1. DOMAIN s = 1 .. Len(s) /\ Len(s) \in Nat
    BY LenProperties
<1>2. /\ l \in Seq(Address) /\ DOMAIN l = 1 .. Len(s) + 1
      /\ l[Len(s) + 1] = a /\ \A i \in 1 .. Len(s) : l[i] = s[i]
    BY AppendProperties, LenProperties
<1>3. \A i \in 1 .. Len(s) : s[i] # a
    BY <1>1 DEF Range
<1>4. IsInjective(l)
    BY <1>1, <1>2, <1>3 DEF IsInjective
<1>5. Range(l) \subseteq Range(s) \cup {a}
    BY <1>1, <1>2 DEF Range
<1>6. a \in Range(l)
    BY <1>1, <1>2 DEF Range
<1>7. ASSUME NEW b \in Range(s) PROVE b \in Range(l)
  <2>1. PICK i \in 1 .. Len(s) : b = s[i]
    BY <1>1, <1>7 DEF Range
  <2>2. i \in 1 .. Len(s) + 1 /\ l[i] = b
    BY <1>1, <1>2, <2>1
  <2> QED
    BY <1>2, <2>2 DEF Range
<1> QED
    BY <1>2, <1>4, <1>5, <1>6, <1>7, ListIsValue

\* Its address enters the list.
LEMMA PutIndexMap ==
    ASSUME MapOK(entries, made), made \subseteq Address, NEW a \in made, entries[a] = a,
           a \notin Range(Listed(entries)),
           entries' = AS!Applied(entries, [k \in {Index} |-> Append(Listed(entries), a)])
    PROVE  /\ MapOK(entries', made)
           /\ Holds(entries', a)
           /\ \A b : Holds(entries, b) => Holds(entries', b)
<1> DEFINE s == Listed(entries)
           l == Append(s, a)
<1>1. a \in Address /\ a \in Key /\ a # Index /\ Index \in Key
    BY WalletAssumption
<1>2. /\ l \in Seq(Address) /\ IsInjective(l) /\ l \in Value
      /\ Range(l) = Range(s) \cup {a}
    BY <1>1, AppendedIsList DEF MapOK
<1> HIDE DEF l
<1>3. l # Absent
    BY <1>2, StorageAssumption
<1>4. \A k \in Key : entries'[k] = IF k = Index THEN l ELSE entries[k]
    BY DEF AS!Applied, l
<1>5. entries' \in AS!Map
    BY <1>1, <1>2 DEF MapOK, AS!Map, AS!Applied, l
<1>6. Listed(entries') = l
    BY <1>1, <1>3, <1>4 DEF Listed
<1>7. \A b \in Range(s) : b \in made /\ b \in Key /\ b # Index
    BY WalletAssumption DEF MapOK
<1>8. MapOK(entries', made)
    BY <1>1, <1>2, <1>4, <1>5, <1>6, <1>7 DEF MapOK
<1>9. Holds(entries', a)
    BY <1>1, <1>2, <1>4, <1>5, <1>6, Maps DEF Holds
<1>10. \A b : Holds(entries, b) => Holds(entries', b)
    BY <1>2, <1>4, <1>5, <1>6, <1>7, Maps DEF Holds
<1> QED
    BY <1>8, <1>9, <1>10

-----------------------------------------------------------------------------
(* The steps. *)

\* A wallet that starts for the first time.
LEMMA InitInv == Init => Inv
<1> SUFFICES ASSUME Init PROVE Inv
    OBVIOUS
<1>1. ListInv
    BY Maps DEF Init, StorageInit, ListInv, Whole
<1>2. KeyInv /\ AtomInv
    BY DEF Init, StorageInit, KeyInv, AtomInv
<1> QED
    BY <1>1, <1>2 DEF Inv

\* The keystore is opened, or its process stops.
LEMMA StartStopInv ==
    ASSUME Inv, Start \/ Stop
    PROVE  Inv'
<1> USE DEF wallet, node
<1>1. CASE Start
  <2>1. /\ entries' = AS!Empty \/ (file # Torn /\ file # Missing /\ entries' = file)
        /\ ~up /\ up'
        /\ UNCHANGED <<file, temp, saving, answer, faults, command, subject, made, told>>
    BY <1>1 DEF Start, Load, LoadUnreadable
  <2>2. command \notin {"putKey", "putIndex"} /\ saving = "none"
    BY <2>1 DEF Inv, ListInv
  <2>3. silent' \in Nat /\ (silent' = 0 => silent = 0 /\ Load)
    BY <1>1 DEF Start, Load, LoadUnreadable, Inv, ListInv
  <2>4. MapOK(entries', made)
    BY <2>1, Maps DEF Inv, ListInv, Whole
  <2>5. ListInv'
    BY <2>1, <2>2, <2>3, <2>4 DEF Inv, ListInv
  <2>6. KeyInv'
    <3> SUFFICES ASSUME silent' = 0 PROVE KeyInv'
        BY DEF KeyInv
    <3>1. silent = 0 /\ entries' = IF file = Missing THEN AS!Empty ELSE file
        BY <2>3 DEF Load
    <3>2. \A a \in told : Holds(file, a) /\ Holds(entries', a)
        BY <3>1, Maps DEF Inv, KeyInv
    <3> QED
        BY <2>1, <2>2, <3>2 DEF KeyInv
  <2>7. AtomInv'
    BY <2>1, <2>2, <2>3 DEF AtomInv, Load
  <2> QED
    BY <2>5, <2>6, <2>7 DEF Inv
<1>2. CASE Stop
  <2>1. /\ entries' = AS!Empty /\ up' = FALSE /\ saving' = "none" /\ command' = "idle"
        /\ UNCHANGED <<temp, answer, faults, made, told>>
        /\ \/ UNCHANGED <<file, silent>>
           \/ file' = Torn /\ silent' = silent + 1
    BY <1>2 DEF Stop, Crash, PowerFails, Down, Done, Do
  <2>2. ListInv'
    BY <2>1, Maps DEF Inv, ListInv, Whole
  <2>3. KeyInv'
    BY <2>1 DEF Inv, ListInv, KeyInv
  <2>4. AtomInv'
    BY <2>1 DEF AtomInv
  <2> QED
    BY <2>2, <2>3, <2>4 DEF Inv
<1> QED
    BY <1>1, <1>2

\* FileStore::save, which the wallet waits for.
LEMMA SaveInv ==
    ASSUME Inv, StorageStep, UNCHANGED wallet
    PROVE  Inv'
<1> USE DEF wallet
<1>1. saving # "none" /\ UNCHANGED <<entries, up>>
    BY DEF StorageStep, OpenTemp, WriteTemp, FlushFails, RenameTemp, SaveFails
<1>2. CASE OpenTemp
  <2>1. temp' = Torn /\ saving' = "write" /\ UNCHANGED <<file, answer, faults, silent>>
    BY <1>2 DEF OpenTemp
  <2>2. ListInv'
    BY <1>1, <2>1 DEF Inv, ListInv, Whole
  <2> QED
    BY <1>1, <2>1, <2>2 DEF Inv, KeyInv, AtomInv
<1>3. CASE WriteTemp
  <2>1. temp' = entries /\ saving' = "rename" /\ UNCHANGED <<file, answer, faults, silent>>
    BY <1>3 DEF WriteTemp
  <2>2. ListInv'
    BY <1>1, <2>1 DEF Inv, ListInv
  <2> QED
    BY <1>1, <2>1, <2>2 DEF Inv, KeyInv, AtomInv
<1>4. CASE FlushFails
  <2>1. /\ saving' = "rename" /\ silent' = silent + 1 /\ silent' # 0 /\ silent' \in Nat
        /\ UNCHANGED <<file, temp, answer, faults>>
    BY <1>4 DEF FlushFails, Inv, ListInv
  <2>2. ListInv'
    BY <1>1, <2>1 DEF Inv, ListInv
  <2> QED
    BY <2>1, <2>2 DEF Inv, KeyInv, AtomInv
<1>5. CASE RenameTemp
  <2>1. /\ saving = "rename" /\ file' = temp /\ temp' = Missing /\ saving' = "none"
        /\ answer' = "ok" /\ UNCHANGED <<faults, silent>>
    BY <1>5 DEF RenameTemp
  <2>2. ListInv'
    BY <1>1, <2>1 DEF Inv, ListInv, Whole
  <2>3. up
    BY <1>1 DEF Inv, ListInv
  <2>4. KeyInv'
    BY <1>1, <2>1, <2>3 DEF Inv, KeyInv
  <2>5. AtomInv'
    <3>1. entries # Missing
        BY Maps DEF Inv, ListInv, MapOK, Whole
    <3> QED
        BY <1>1, <2>1, <3>1 DEF Inv, AtomInv
  <2> QED
    BY <2>2, <2>4, <2>5 DEF Inv
<1>6. CASE SaveFails
  <2>1. /\ faults' = faults + 1 /\ saving' = "none" /\ answer' = "failed"
        /\ UNCHANGED <<file, temp, silent>>
    BY <1>6 DEF SaveFails
  <2>2. ListInv'
    BY <1>1, <2>1 DEF Inv, ListInv
  <2>3. KeyInv'
    BY <1>1, <2>1 DEF Inv, KeyInv
  <2>4. AtomInv'
    BY <2>1 DEF Inv, ListInv, AtomInv
  <2> QED
    BY <2>2, <2>3, <2>4 DEF Inv
<1> QED
    BY <1>2, <1>3, <1>4, <1>5, <1>6 DEF StorageStep

\* createAccount's two puts.
LEMMA PutInv ==
    ASSUME Inv, PutIndex \/ \E a \in Address : CreateAccount(a)
    PROVE  Inv'
<1>1. ASSUME NEW a \in Address, CreateAccount(a) PROVE Inv'
  <2>1. /\ command = "idle" /\ a \notin made /\ made' = made \cup {a} /\ up
        /\ entries' = AS!Applied(entries, [k \in {a} |-> a])
        /\ saving' = "open" /\ answer' = "none" /\ command' = "putKey" /\ subject' = a
        /\ UNCHANGED <<file, temp, up, faults, silent, told>>
    BY <1>1 DEF CreateAccount, Put, Begin, Do
  <2>2. /\ MapOK(entries', made')
        /\ entries'[a] = a
        /\ a \notin Range(Listed(entries'))
        /\ \A b : Holds(entries, b) => Holds(entries', b)
    BY <2>1, PutKeyMap DEF Inv, ListInv
  <2>3. \A map : MapOK(map, made) => MapOK(map, made')
    BY <2>1 DEF MapOK
  <2>4. ListInv'
    BY <2>1, <2>2, <2>3 DEF Inv, ListInv
  <2>5. KeyInv' /\ AtomInv'
    BY <2>1, <2>2 DEF Inv, KeyInv, AtomInv
  <2> QED
    BY <2>4, <2>5 DEF Inv
<1>2. CASE PutIndex
  <2>1. /\ command = "putKey"
        /\ entries' = AS!Applied(entries, [k \in {Index} |-> Append(Listed(entries), subject)])
        /\ saving' = "open" /\ answer' = "none" /\ command' = "putIndex"
        /\ UNCHANGED <<file, temp, up, faults, silent, subject, made, told>>
    BY <1>2 DEF PutIndex, Put, Begin, Do
  <2>2. subject \in made /\ entries[subject] = subject /\ subject \notin Range(Listed(entries))
    BY <2>1 DEF Inv, ListInv
  <2>3. /\ MapOK(entries', made)
        /\ Holds(entries', subject)
        /\ \A b : Holds(entries, b) => Holds(entries', b)
    BY <2>1, <2>2, PutIndexMap DEF Inv, ListInv
  <2>4. ListInv'
    BY <2>1, <2>2, <2>3 DEF Inv, ListInv, Holds
  <2>5. KeyInv' /\ AtomInv'
    BY <2>1, <2>3 DEF Inv, KeyInv, AtomInv
  <2> QED
    BY <2>4, <2>5 DEF Inv
<1> QED
    BY <1>1, <1>2

\* What leaves the keystore alone.
LEMMA RestInv ==
    ASSUME Inv, UNCHANGED <<storage, made>>,
           \/ UNCHANGED <<told, command, subject>>
           \/ UNCHANGED told /\ command' \notin {"putKey", "putIndex"}
           \/ AccountCreated
    PROVE  Inv'
<1>1. ListInv' /\ AtomInv'
  <2>1. told' \subseteq made
    BY DEF AccountCreated, Inv, ListInv
  <2>2. UNCHANGED <<command, subject>> \/ command' \notin {"putKey", "putIndex"}
    BY DEF AccountCreated, Done, Do
  <2> QED
    BY <2>1, <2>2 DEF Inv, ListInv, AtomInv, storage
<1>2. CASE AccountCreated
  <2>1. /\ command = "putIndex" /\ answer = "ok" /\ told' = told \cup {subject}
        /\ command' = "idle"
    BY <1>2 DEF AccountCreated, Done, Do
  <2> QED
    BY <1>1, <2>1 DEF Inv, KeyInv, storage
<1>3. CASE ~AccountCreated
    BY <1>1, <1>3 DEF Inv, KeyInv, storage
<1> QED
    BY <1>2, <1>3

\* Every step keeps the invariant.
LEMMA NextInv == Inv /\ [Next]_vars => Inv'
<1> SUFFICES ASSUME Inv, [Next]_vars PROVE Inv'
    OBVIOUS
<1>1. CASE Start \/ Stop
    BY <1>1, StartStopInv
<1>2. CASE StorageStep /\ UNCHANGED <<wallet, node>>
    BY <1>2, SaveInv
<1>3. CASE PutIndex \/ \E a \in Address : CreateAccount(a)
    BY <1>3, PutInv
<1>4. CASE AccountCreated \/ CreationFails
    BY <1>4, RestInv DEF AccountCreated, CreationFails, Done, Do
<1>5. CASE (\E x \in Payment : AskNonce(x)) \/ Submit \/ Answered
    BY <1>5, RestInv DEF AskNonce, Submit, Answered, Done, Do
<1>6. CASE \/ \E i \in DOMAIN attempts : CheckTransfer(i) \/ PushTransfer(i)
           \/ \E block \in SUBSET pool : Include(block)
           \/ RemoveIncluded \/ Evict \/ UNCHANGED vars
    BY <1>6, RestInv
    DEF CheckTransfer, PushTransfer, Include, RemoveIncluded, Evict, vars, wallet
<1> QED
    BY <1>1, <1>2, <1>3, <1>4, <1>5, <1>6 DEF Next

-----------------------------------------------------------------------------
(* The store as its contract has it. *)

\* Applying a batch between saves is the abstract store's Begin.
LEMMA BeginIsBegin ==
    ASSUME Inv, NEW key \in Key, NEW value \in Value, Put(key, value),
           faults' = 0, silent' = 0
    PROVE  AS!Next
<1> DEFINE batch == [k \in {key} |-> value]
<1>1. /\ up /\ saving = "none" /\ entries' = AS!Applied(entries, batch)
      /\ saving' = "open" /\ answer' = "none" /\ UNCHANGED file
      /\ faults = 0 /\ silent = 0
    BY DEF Put, Begin
<1>2. entries = IF file = Missing THEN AS!Empty ELSE file
    BY <1>1 DEF Inv, AtomInv
<1>3. batch \in AS!Batch
    BY DEF AS!Batch
<1> HIDE DEF batch
<1>4. AS!Begin(batch)
    BY <1>1, <1>2 DEF AS!Begin, AS!Empty
<1> QED
    BY <1>3, <1>4 DEF AS!Next

\* While no save fails, a step is one of the abstract store's or none.
LEMMA StepIsAtomic ==
    Inv /\ [Next]_vars => [faults' = 0 /\ silent' = 0 => AS!Next]_(AS!vars)
<1> SUFFICES ASSUME Inv, [Next]_vars, faults' = 0, silent' = 0
             PROVE  AS!Next \/ UNCHANGED AS!vars
    OBVIOUS
<1>1. CASE Start
  <2>1. UNCHANGED <<file, saving, answer>> /\ saving = "none"
    BY <1>1 DEF Start, Load, LoadUnreadable, Inv, ListInv
  <2> QED
    BY <2>1 DEF AS!vars
<1>2. CASE Stop
  <2>1. UNCHANGED <<file, answer>> /\ saving' = "none"
    BY <1>2 DEF Stop, Crash, PowerFails, Down, Inv, ListInv
  <2> QED
    BY <2>1 DEF AS!Next, AS!Stop
<1>3. CASE StorageStep
  <2>1. CASE OpenTemp \/ WriteTemp \/ FlushFails
    BY <2>1 DEF OpenTemp, WriteTemp, FlushFails, AS!vars
  <2>2. CASE RenameTemp
    <3>1. /\ saving = "rename" /\ file' = temp /\ saving' = "none" /\ answer' = "ok"
          /\ faults = 0 /\ silent = 0
        BY <2>2 DEF RenameTemp
    <3>2. file' = entries /\ entries # None /\ entries # Missing
        BY <3>1, Maps DEF Inv, ListInv, AtomInv, MapOK, Whole
    <3>3. AS!Commit
        BY <3>1, <3>2 DEF AS!Commit
    <3> QED
        BY <3>3 DEF AS!Next
  <2>3. ~SaveFails
    BY DEF SaveFails, Inv, ListInv
  <2> QED
    BY <1>3, <2>1, <2>2, <2>3 DEF StorageStep
<1>4. ASSUME NEW a \in Address, CreateAccount(a) PROVE AS!Next
    BY <1>4, BeginIsBegin, WalletAssumption DEF CreateAccount
<1>5. CASE PutIndex
  <2>1. /\ command = "putKey"
        /\ entries' = AS!Applied(entries, [k \in {Index} |-> Append(Listed(entries), subject)])
        /\ UNCHANGED <<made, subject>>
        /\ Put(Index, Append(Listed(entries), subject))
    BY <1>5 DEF PutIndex, Put, Begin
  <2>2. subject \in made /\ entries[subject] = subject /\ subject \notin Range(Listed(entries))
    BY <2>1 DEF Inv, ListInv
  <2>3. Append(Listed(entries), subject) \in Value
    BY <2>2, AppendedIsList DEF Inv, ListInv, MapOK
  <2> QED
    BY <2>1, <2>3, BeginIsBegin, WalletAssumption
<1>6. CASE UNCHANGED storage
    BY <1>6 DEF storage, AS!vars
<1> QED
    BY <1>1, <1>2, <1>3, <1>4, <1>5, <1>6
    DEF Next, AccountCreated, CreationFails, AskNonce, Submit, Answered, CheckTransfer,
        PushTransfer, Include, RemoveIncluded, Evict, vars

LEMMA InitIsAtomic == Init => AS!Init
    BY DEF Init, StorageInit, AS!Init, AS!Empty

\* What the invariant says of the keystore.
LEMMA InvImplies == Inv => ListedCanSign /\ KeysAreKept
    BY Maps DEF Inv, ListInv, KeyInv, ListedCanSign, KeysAreKept, MapOK, Whole, Holds

\* For any addresses and whatever fails: an account that is listed can sign
\* (Keystore::save puts the key before the list).
THEOREM ListedAlwaysSigns == Spec => []ListedCanSign
<1>1. Spec => []Inv
    BY InitInv, NextInv, PTL DEF Spec
<1> QED
    BY <1>1, InvImplies, PTL

\* For any addresses: what a user has been given keeps its key, through errors and
\* stops, while no failure goes unnoticed.
THEOREM KeysStayKept == Spec => []KeysAreKept
<1>1. Spec => []Inv
    BY InitInv, NextInv, PTL DEF Spec
<1> QED
    BY <1>1, InvImplies, PTL

\* For any addresses: until a failure, FileStore implements the atomic store.
THEOREM StoreStaysAtomic == Spec => StoreIsAtomic
<1>1. Spec => []Inv
    BY InitInv, NextInv, PTL DEF Spec
<1> QED
    BY <1>1, InitIsAtomic, StepIsAtomic, PTL DEF Spec, StoreIsAtomic

-----------------------------------------------------------------------------
(* Payments: transfers and the chain that executes them. *)

Transfers == [pay : Payment, nonce : Nat]

\* How many of the first n transfers of a chain are of one sender.
Sent(c, a, n) == {l \in 1 .. n : From[c[l].pay] = a}
Count(c, a, n) == Cardinality(Sent(c, a, n))

\* The nonces of a chain are those of each sender in order, none left out.
ChainInv ==
    /\ chain \in Seq(Transfers)
    /\ \A j \in 1 .. Len(chain) :
          chain[j].nonce = Count(chain, From[chain[j].pay], j - 1)
    /\ \A a \in Address : \A n \in Nat :
          n < Count(chain, a, Len(chain)) =>
              \E l \in 1 .. Len(chain) : From[chain[l].pay] = a /\ chain[l].nonce = n

PoolInv ==
    /\ pool \subseteq Transfers /\ IsFiniteSet(pool)
    /\ \A t, u \in pool : Alike(t, u) => t = u
    /\ executed \subseteq Range(chain)

Request == [transfer : Transfers, read : Nat,
            at : {"wallet", "sent", "checked", "node"},
            outcome : {"none", "rejected", "already-known", "added"}]

\* A request has the nonce its sender had where the chain was read.
AttemptInv ==
    /\ attempts \in Seq(Request)
    /\ \A i \in 1 .. Len(attempts) :
          /\ attempts[i].read <= Len(chain)
          /\ attempts[i].transfer.nonce =
                Count(chain, From[attempts[i].transfer.pay], attempts[i].read)

\* What the node holds was requested.
OriginInv ==
    \A t \in pool \cup Range(chain) :
        \E k \in 1 .. Len(attempts) : attempts[k].transfer = t

PayInv == ChainInv /\ PoolInv /\ AttemptInv /\ OriginInv /\ AddedIsKept

\* What transfers are, and the counts of a chain.
LEMMA TransferFacts ==
    /\ \A t \in Transfers : t.pay \in Payment /\ t.nonce \in Nat /\ From[t.pay] \in Address
    /\ \A x \in Payment, n \in Nat : Transfer(x, n) \in Transfers
    BY WalletAssumption DEF Transfers, Transfer

LEMMA RequestFacts ==
    ASSUME AttemptInv
    PROVE  /\ DOMAIN attempts = 1 .. Len(attempts) /\ Len(attempts) \in Nat
           /\ \A i \in 1 .. Len(attempts) :
                 /\ attempts[i] \in Request
                 /\ attempts[i].transfer \in Transfers
                 /\ attempts[i].read \in Nat /\ attempts[i].read <= Len(chain)
                 /\ attempts[i].transfer.nonce =
                       Count(chain, From[attempts[i].transfer.pay], attempts[i].read)
<1>1. DOMAIN attempts = 1 .. Len(attempts) /\ Len(attempts) \in Nat
    BY LenProperties DEF AttemptInv
<1>2. \A i \in 1 .. Len(attempts) : attempts[i] \in Request
    BY <1>1, ElementOfSeq DEF AttemptInv
<1>3. \A q \in Request : q.transfer \in Transfers /\ q.read \in Nat
    BY DEF Request
<1> QED
    BY <1>1, <1>2, <1>3 DEF AttemptInv

LEMMA CountFacts ==
    ASSUME NEW a, NEW n \in Nat
    PROVE  /\ Count(chain, a, n) \in Nat
           /\ \A m \in 0 .. n : Count(chain, a, m) <= Count(chain, a, n)
           /\ \A m \in 0 .. n, l \in 1 .. n :
                 m < l /\ From[chain[l].pay] = a => Count(chain, a, m) < Count(chain, a, n)
<1>1. IsFiniteSet(1 .. n)
    BY FS_Interval
<1>2. IsFiniteSet(Sent(chain, a, n))
    BY <1>1, FS_Subset DEF Sent
<1>3. Count(chain, a, n) \in Nat
    BY <1>2, FS_CardinalityType DEF Count
<1>4. ASSUME NEW m \in 0 .. n
      PROVE  /\ Count(chain, a, m) <= Count(chain, a, n) /\ Count(chain, a, m) \in Nat
             /\ Count(chain, a, m) = Count(chain, a, n) =>
                   Sent(chain, a, m) = Sent(chain, a, n)
  <2>1. Sent(chain, a, m) \in SUBSET Sent(chain, a, n)
    BY <1>4 DEF Sent
  <2>2. /\ Cardinality(Sent(chain, a, m)) <= Cardinality(Sent(chain, a, n))
        /\ IsFiniteSet(Sent(chain, a, m))
        /\ Cardinality(Sent(chain, a, n)) = Cardinality(Sent(chain, a, m)) =>
              Sent(chain, a, n) = Sent(chain, a, m)
    BY <1>2, <2>1, FS_Subset
  <2> QED
    BY <2>2, FS_CardinalityType DEF Count
<1>5. ASSUME NEW m \in 0 .. n, NEW l \in 1 .. n, m < l, From[chain[l].pay] = a
      PROVE  Count(chain, a, m) < Count(chain, a, n)
  <2>1. l \in Sent(chain, a, n) /\ l \notin Sent(chain, a, m)
    BY <1>5 DEF Sent
  <2> QED
    BY <1>3, <1>4, <2>1
<1> QED
    BY <1>3, <1>4, <1>5

LEMMA NonceIsCount ==
    ASSUME chain \in Seq(Transfers), NEW a
    PROVE  NonceOf(a) = Count(chain, a, Len(chain)) /\ NonceOf(a) \in Nat
<1>1. DOMAIN chain = 1 .. Len(chain) /\ Len(chain) \in Nat
    BY LenProperties
<1> QED
    BY <1>1, CountFacts DEF NonceOf, Count, Sent

\* A finite set as a sequence.
LEMMA SetAsSeq ==
    ASSUME NEW S, IsFiniteSet(S)
    PROVE  /\ SetToSeq(S) \in Seq(S) /\ IsInjective(SetToSeq(S))
           /\ Range(SetToSeq(S)) = S
<1>1. PICK f : f \in Bijection(1 .. Cardinality(S), S)
    BY FS_CardinalityType DEF ExistsBijection
<1>2. f \in [1 .. Cardinality(S) -> S] /\ IsInjective(f)
    BY <1>1 DEF Bijection, Injection
<1> DEFINE s == SetToSeq(S)
<1>3. s \in [1 .. Cardinality(S) -> S] /\ IsInjective(s)
    BY <1>2 DEF SetToSeq
<1> HIDE DEF s
<1>4. Cardinality(S) \in Nat
    BY FS_CardinalityType
<1>5. s \in Seq(S)
    BY <1>3, <1>4
<1>6. s \in Injection(1 .. Cardinality(S), S)
    BY <1>3 DEF Injection
<1>7. Cardinality(1 .. Cardinality(S)) = Cardinality(S)
    BY <1>4, FS_Interval
<1>8. s \in Surjection(1 .. Cardinality(S), S)
    BY <1>6, <1>7, FS_Injection
<1>9. Range(s) = S
    BY <1>3, <1>8 DEF Surjection, Range
<1> QED
    BY <1>3, <1>5, <1>9 DEF s

\* A block holds one transfer of a sender at most, since all of them are valid.
LEMMA IncludeInv ==
    ASSUME PayInv, NEW block \in SUBSET pool, Include(block)
    PROVE  PayInv'
<1> DEFINE s == SetToSeq(block)
           n == Len(chain)
<1>1. /\ \A t \in block : t.nonce = NonceOf(From[t.pay])
      /\ chain' = chain \o s /\ executed' = block
      /\ UNCHANGED <<attempts, pool>>
    BY DEF Include, Valid
<1>2. block \in SUBSET pool /\ IsFiniteSet(block)
    BY FS_Subset DEF PayInv, PoolInv
<1>3. s \in Seq(block) /\ IsInjective(s) /\ Range(s) = block
    BY <1>2, SetAsSeq
<1>4. block \subseteq Transfers /\ chain \in Seq(Transfers)
    BY <1>2 DEF PayInv, PoolInv, ChainInv
<1>5. s \in Seq(Transfers)
    BY <1>3, <1>4
<1> HIDE DEF s
<1>6. /\ chain' \in Seq(Transfers) /\ Len(chain') = n + Len(s)
      /\ n \in Nat /\ Len(s) \in Nat
      /\ \A i \in 1 .. n : chain'[i] = chain[i]
      /\ \A i \in 1 .. Len(s) : chain'[n + i] = s[i] /\ s[i] \in block
    BY <1>1, <1>3, <1>4, <1>5
<1>7. \A t, u \in block : From[t.pay] = From[u.pay] => t = u
    BY <1>1, <1>2 DEF PayInv, PoolInv, Alike
<1>8. \A i, j \in 1 .. Len(s) : From[s[i].pay] = From[s[j].pay] => i = j
  <2>1. DOMAIN s = 1 .. Len(s)
    BY <1>5
  <2> QED
    BY <1>3, <1>6, <1>7, <2>1 DEF IsInjective
<1>9. ASSUME NEW a PROVE NonceOf(a) = Count(chain, a, n)
    BY <1>4, NonceIsCount
\* The counts of the longer chain: those of the old one, and one more where the
\* block has a transfer of the sender.
<1>10. ASSUME NEW a, NEW m \in 0 .. n PROVE Count(chain', a, m) = Count(chain, a, m)
  <2>1. \A l \in 1 .. m : l \in 1 .. n
    BY <1>6
  <2>2. Sent(chain', a, m) = Sent(chain, a, m)
    BY <1>6, <2>1 DEF Sent
  <2> QED
    BY <2>2 DEF Count
<1>11. ASSUME NEW j \in 1 .. Len(s), NEW m \in 0 .. j - 1
       PROVE  Count(chain', From[s[j].pay], n + m) = Count(chain, From[s[j].pay], n)
  <2> DEFINE a == From[s[j].pay]
  <2>1. ASSUME NEW l \in 1 .. n + m, From[chain'[l].pay] = a PROVE l \in 1 .. n
    <3> SUFFICES ASSUME l > n PROVE FALSE
        BY <1>6
    <3>1. l - n \in 1 .. Len(s) /\ l = n + (l - n)
        BY <1>6
    <3>2. l - n # j
        BY <1>6
    <3>3. From[s[l - n].pay] = a
        BY <1>6, <2>1, <3>1
    <3> QED
        BY <1>8, <3>1, <3>2, <3>3
  <2>2. Sent(chain', a, n + m) = Sent(chain, a, n)
    BY <1>6, <2>1 DEF Sent
  <2> QED
    BY <2>2 DEF Count
<1>12. ASSUME NEW a, ~\E j \in 1 .. Len(s) : From[s[j].pay] = a
       PROVE  Count(chain', a, n + Len(s)) = Count(chain, a, n)
  <2>1. ASSUME NEW l \in 1 .. n + Len(s), From[chain'[l].pay] = a PROVE l \in 1 .. n
    <3> SUFFICES ASSUME l > n PROVE FALSE
        BY <1>6
    <3>1. l - n \in 1 .. Len(s) /\ l = n + (l - n)
        BY <1>6
    <3> QED
        BY <1>6, <1>12, <2>1, <3>1
  <2>2. Sent(chain', a, n + Len(s)) = Sent(chain, a, n)
    BY <1>6, <2>1 DEF Sent
  <2> QED
    BY <2>2 DEF Count
<1>13. ASSUME NEW j \in 1 .. Len(s)
       PROVE  LET a == From[s[j].pay]
              IN  /\ Count(chain', a, n + Len(s)) = Count(chain, a, n) + 1
                  /\ s[j].nonce = Count(chain, a, n)
  <2> DEFINE a == From[s[j].pay]
  <2>1. \A l \in 1 .. n + Len(s) : From[chain'[l].pay] = a => l \in 1 .. n \/ l = n + j
    <3> SUFFICES ASSUME NEW l \in 1 .. n + Len(s), From[chain'[l].pay] = a, l > n
                 PROVE  l = n + j
        BY <1>6
    <3>1. l - n \in 1 .. Len(s) /\ l = n + (l - n)
        BY <1>6
    <3>2. From[s[l - n].pay] = a
        BY <1>6, <3>1
    <3>3. l - n = j
        BY <1>8, <3>1, <3>2
    <3> QED
        BY <1>6, <3>3
  <2>2. Sent(chain', a, n + Len(s)) = Sent(chain, a, n) \cup {n + j}
    BY <1>6, <2>1 DEF Sent
  <2>3. IsFiniteSet(Sent(chain, a, n)) /\ n + j \notin Sent(chain, a, n)
    <3>1. IsFiniteSet(1 .. n) /\ Sent(chain, a, n) \in SUBSET (1 .. n)
        BY <1>6, FS_Interval DEF Sent
    <3> QED
        BY <1>6, <3>1, FS_Subset
  <2>4. Cardinality(Sent(chain, a, n) \cup {n + j}) = Cardinality(Sent(chain, a, n)) + 1
    BY <2>3, FS_AddElement
  <2>5. s[j].nonce = Count(chain, a, n)
    BY <1>1, <1>6, <1>9
  <2> QED
    BY <2>2, <2>4, <2>5 DEF Count
<1>14. Range(chain') = Range(chain) \cup block
  <2>1. DOMAIN chain = 1 .. n /\ DOMAIN s = 1 .. Len(s) /\ DOMAIN chain' = 1 .. n + Len(s)
    BY <1>4, <1>5, <1>6
  <2>2. ASSUME NEW l \in 1 .. n + Len(s) PROVE chain'[l] \in Range(chain) \cup block
    <3>1. CASE l <= n
        BY <1>6, <2>1, <3>1 DEF Range
    <3>2. CASE l > n
        <4>1. l - n \in 1 .. Len(s) /\ l = n + (l - n)
            BY <1>6, <3>2
        <4> QED
            BY <1>6, <4>1
    <3> QED
        BY <1>6, <3>1, <3>2
  <2>3. ASSUME NEW t \in Range(chain) PROVE t \in Range(chain')
    BY <1>6, <2>1, <2>3 DEF Range
  <2>4. ASSUME NEW t \in block PROVE t \in Range(chain')
    <3>1. PICK i \in 1 .. Len(s) : t = s[i]
        BY <1>3, <2>1 DEF Range
    <3>2. n + i \in 1 .. n + Len(s)
        BY <1>6
    <3> QED
        BY <1>6, <2>1, <3>1, <3>2 DEF Range
  <2>5. Range(chain') \subseteq Range(chain) \cup block
    BY <2>1, <2>2 DEF Range
  <2> QED
    BY <2>3, <2>4, <2>5
<1>15. ChainInv'
  <2>1. ASSUME NEW l \in 1 .. Len(chain')
        PROVE  chain'[l].nonce = Count(chain', From[chain'[l].pay], l - 1)
    <3>1. CASE l <= n
        <4>1. l \in 1 .. n /\ l - 1 \in 0 .. n
            BY <1>6, <3>1
        <4> QED
            BY <1>6, <1>10, <4>1 DEF PayInv, ChainInv
    <3>2. CASE l > n
        <4> DEFINE j == l - n
        <4>1. j \in 1 .. Len(s) /\ l = n + j /\ j - 1 \in 0 .. j - 1 /\ l - 1 = n + (j - 1)
            BY <1>6, <3>2
        <4>2. Count(chain', From[s[j].pay], n + (j - 1)) = Count(chain, From[s[j].pay], n)
            BY <1>11, <4>1
        <4> QED
            BY <1>6, <1>13, <4>1, <4>2
    <3> QED
        BY <1>6, <3>1, <3>2
  <2>2. ASSUME NEW a \in Address, NEW m \in Nat, m < Count(chain', a, Len(chain'))
        PROVE  \E l \in 1 .. Len(chain') : From[chain'[l].pay] = a /\ chain'[l].nonce = m
    <3>1. CASE m < Count(chain, a, n)
        <4>1. PICK l \in 1 .. n : From[chain[l].pay] = a /\ chain[l].nonce = m
            BY <3>1 DEF PayInv, ChainInv
        <4> QED
            BY <1>6, <4>1
    <3>2. CASE ~(m < Count(chain, a, n))
        <4>1. PICK j \in 1 .. Len(s) : From[s[j].pay] = a
            BY <1>6, <1>12, <2>2, <3>2
        <4>2. /\ m < Count(chain, a, n) + 1 /\ Count(chain, a, n) \in Nat
              /\ s[j].nonce = Count(chain, a, n)
            BY <1>6, <1>13, <2>2, <4>1, CountFacts
        <4>3. s[j].nonce = m /\ n + j \in 1 .. Len(chain')
            BY <1>6, <3>2, <4>2
        <4> QED
            BY <1>6, <4>1, <4>3
    <3> QED
        BY <3>1, <3>2
  <2> QED
    BY <1>6, <2>1, <2>2 DEF ChainInv
<1>16. PoolInv'
    BY <1>1, <1>14 DEF PayInv, PoolInv, Alike
<1>17. AttemptInv'
  <2>1. ASSUME NEW i \in 1 .. Len(attempts)
        PROVE  /\ attempts[i].read \in 0 .. n
               /\ attempts[i].transfer.nonce =
                     Count(chain', From[attempts[i].transfer.pay], attempts[i].read)
    <3>1. attempts[i].read \in Nat /\ attempts[i].read <= n
        BY RequestFacts DEF PayInv
    <3> QED
        BY <1>6, <1>10, <3>1 DEF PayInv, AttemptInv
  <2> QED
    BY <1>1, <1>6, <2>1 DEF PayInv, AttemptInv
<1>18. OriginInv'
    BY <1>1, <1>2, <1>14 DEF PayInv, OriginInv
<1>19. AddedIsKept'
    BY <1>1, <1>14 DEF PayInv, AddedIsKept, Alike
<1> QED
    BY <1>15, <1>16, <1>17, <1>18, <1>19 DEF PayInv

\* While the chain stays, so do its counts.
LEMMA SameChain ==
    ASSUME PayInv, UNCHANGED chain
    PROVE  /\ ChainInv'
           /\ \A a, n : Count(chain', a, n) = Count(chain, a, n) /\ NonceOf(a)' = NonceOf(a)
<1>1. \A a, n : Count(chain', a, n) = Count(chain, a, n) /\ NonceOf(a)' = NonceOf(a)
    BY DEF Count, Sent, NonceOf
<1> QED
    BY <1>1 DEF PayInv, ChainInv

\* Moving a request changes neither what it asks nor what the others are at.
LEMMA Moved ==
    ASSUME AttemptInv, UNCHANGED chain,
           NEW i \in 1 .. Len(attempts),
           NEW at \in {"sent", "checked", "node"},
           NEW outcome \in {"none", "rejected", "already-known", "added"},
           Move(i, at, outcome)
    PROVE  /\ DOMAIN attempts' = DOMAIN attempts
           /\ AttemptInv'
           /\ \A k \in DOMAIN attempts :
                 /\ attempts'[k].transfer = attempts[k].transfer
                 /\ attempts'[k].outcome =
                       IF k = i THEN outcome ELSE attempts[k].outcome
<1> DEFINE new == [attempts[i] EXCEPT !.at = at, !.outcome = outcome]
<1>1. attempts \in Seq(Request) /\ DOMAIN attempts = 1 .. Len(attempts)
      /\ Len(attempts) \in Nat
    BY RequestFacts DEF AttemptInv
<1>2. attempts[i] \in Request
    BY RequestFacts
<1>3. /\ new \in Request /\ new.transfer = attempts[i].transfer
      /\ new.read = attempts[i].read /\ new.outcome = outcome
    BY <1>2 DEF Request
<1>4. attempts' = [attempts EXCEPT ![i] = new]
    BY DEF Move
<1> HIDE DEF new
<1>5. /\ attempts' \in Seq(Request) /\ Len(attempts') = Len(attempts)
      /\ DOMAIN attempts' = DOMAIN attempts
      /\ attempts'[i] = new
      /\ \A k \in 1 .. Len(attempts) : k # i => attempts'[k] = attempts[k]
    BY <1>1, <1>3, <1>4, ExceptSeq
<1>6. \A k \in 1 .. Len(attempts) :
         /\ attempts'[k].transfer = attempts[k].transfer
         /\ attempts'[k].read = attempts[k].read
         /\ attempts'[k].outcome = IF k = i THEN outcome ELSE attempts[k].outcome
    BY <1>3, <1>5
<1>7. \A a, n : Count(chain', a, n) = Count(chain, a, n)
    BY DEF Count, Sent
<1>8. AttemptInv'
    BY <1>5, <1>6, <1>7 DEF AttemptInv
<1> QED
    BY <1>1, <1>5, <1>6, <1>8

\* A request asks for its nonce, or goes on its way.
LEMMA AttemptStep ==
    ASSUME PayInv, UNCHANGED <<chain, pool, executed>>,
           \/ UNCHANGED attempts
           \/ \E x \in Payment : AskNonce(x)
           \/ \E i \in 1 .. Len(attempts),
                 at \in {"sent", "checked", "node"},
                 outcome \in {"none", "rejected", "already-known"} :
                 Move(i, at, outcome)
    PROVE  PayInv'
<1>1. ChainInv' /\ \A a, n : Count(chain', a, n) = Count(chain, a, n) /\ NonceOf(a)' = NonceOf(a)
    BY SameChain
<1>2. PoolInv'
    BY DEF PayInv, PoolInv, Alike
<1>3. CASE UNCHANGED attempts
    BY <1>1, <1>2, <1>3 DEF PayInv, AttemptInv, OriginInv, AddedIsKept, Alike
<1>4. ASSUME NEW x \in Payment, AskNonce(x) PROVE PayInv'
  <2> DEFINE new == [transfer |-> Transfer(x, NonceOf(From[x])), read |-> Len(chain),
                     at |-> "wallet", outcome |-> "none"]
  <2>1. attempts' = Append(attempts, new)
    BY <1>4 DEF AskNonce
  <2>2. NonceOf(From[x]) = Count(chain, From[x], Len(chain)) /\ NonceOf(From[x]) \in Nat
    BY NonceIsCount DEF PayInv, ChainInv
  <2>3. /\ new.transfer \in Transfers /\ new.read \in Nat
        /\ new.transfer.pay = x /\ new.transfer.nonce = Count(chain, From[x], Len(chain))
    BY <2>2, TransferFacts DEF PayInv, ChainInv, Transfer
  <2>4. new.read = Len(chain) /\ new.at = "wallet" /\ new.outcome = "none"
        /\ new = [transfer |-> new.transfer, read |-> new.read, at |-> new.at,
                  outcome |-> new.outcome]
    OBVIOUS
  <2> HIDE DEF new
  <2>5. new \in Request
    BY <2>3, <2>4 DEF Request
  <2>6. /\ attempts' \in Seq(Request)
        /\ Len(attempts') = Len(attempts) + 1 /\ Len(attempts) \in Nat
        /\ \A i \in 1 .. Len(attempts) : attempts'[i] = attempts[i]
        /\ attempts'[Len(attempts) + 1] = new
    BY <2>1, <2>5 DEF PayInv, AttemptInv
  <2>7. AttemptInv'
    <3>1. ASSUME NEW i \in 1 .. Len(attempts')
          PROVE  /\ attempts'[i].read <= Len(chain)
                 /\ attempts'[i].transfer.nonce =
                       Count(chain, From[attempts'[i].transfer.pay], attempts'[i].read)
      <4>1. CASE i = Len(attempts) + 1
        BY <2>3, <2>4, <2>6, <4>1 DEF PayInv, ChainInv
      <4>2. CASE i \in 1 .. Len(attempts)
        BY <2>6, <4>2 DEF PayInv, AttemptInv
      <4> QED
        BY <2>6, <4>1, <4>2
    <3> QED
        BY <1>1, <2>6, <3>1 DEF AttemptInv
  <2>8. OriginInv'
    BY <2>6 DEF PayInv, OriginInv
  <2>9. AddedIsKept'
    <3>1. ASSUME NEW i \in DOMAIN attempts', attempts'[i].outcome = "added"
          PROVE  \E t \in pool \cup Range(chain) : Alike(t, attempts'[i].transfer)
      <4>1. i \in 1 .. Len(attempts) /\ i \in DOMAIN attempts
        BY <2>4, <2>6, <3>1 DEF PayInv, AttemptInv
      <4> QED
        BY <2>6, <3>1, <4>1 DEF PayInv, AddedIsKept
    <3> QED
        BY <3>1 DEF AddedIsKept, Alike
  <2> QED
    BY <1>1, <1>2, <2>7, <2>8, <2>9 DEF PayInv
<1>5. ASSUME NEW i \in 1 .. Len(attempts), NEW at \in {"sent", "checked", "node"},
             NEW outcome \in {"none", "rejected", "already-known"}, Move(i, at, outcome)
      PROVE  PayInv'
  <2>1. /\ DOMAIN attempts' = DOMAIN attempts
        /\ AttemptInv'
        /\ \A k \in DOMAIN attempts :
              /\ attempts'[k].transfer = attempts[k].transfer
              /\ attempts'[k].outcome = IF k = i THEN outcome ELSE attempts[k].outcome
    BY <1>5, Moved DEF PayInv
  <2>2. AddedIsKept'
    BY <2>1 DEF PayInv, AddedIsKept, Alike
  <2>3. OriginInv'
    <3>1. DOMAIN attempts = 1 .. Len(attempts) /\ DOMAIN attempts' = 1 .. Len(attempts')
        BY <2>1, LenProperties DEF PayInv, AttemptInv
    <3> QED
        BY <2>1, <3>1 DEF PayInv, OriginInv
  <2> QED
    BY <1>1, <1>2, <2>1, <2>2, <2>3 DEF PayInv
<1> QED
    BY <1>3, <1>4, <1>5

\* SimpleMempool::add takes a request's transfer, or has one like it.
LEMMA PushInv ==
    ASSUME PayInv, NEW i \in DOMAIN attempts, PushTransfer(i)
    PROVE  PayInv'
<1> DEFINE t == attempts[i].transfer
<1>1. i \in 1 .. Len(attempts) /\ t \in Transfers
    BY RequestFacts DEF PayInv
<1>2. UNCHANGED <<chain, executed>>
    BY DEF PushTransfer
<1>3. ChainInv'
    BY <1>2, SameChain
<1>4. CASE \E u \in pool : Alike(t, u)
  <2>1. Move(i, "node", "already-known") /\ UNCHANGED pool
    BY <1>4 DEF PushTransfer
  <2> QED
    BY <1>1, <1>2, <2>1, AttemptStep
<1>5. CASE ~\E u \in pool : Alike(t, u)
  <2>1. Move(i, "node", "added") /\ pool' = pool \cup {t}
    BY <1>5 DEF PushTransfer
  <2>2. /\ DOMAIN attempts' = DOMAIN attempts
        /\ AttemptInv'
        /\ \A k \in DOMAIN attempts :
              /\ attempts'[k].transfer = attempts[k].transfer
              /\ attempts'[k].outcome = IF k = i THEN "added" ELSE attempts[k].outcome
    BY <1>1, <1>2, <2>1, Moved DEF PayInv
  <2>3. PoolInv'
    <3>1. IsFiniteSet(pool')
        BY <2>1, FS_AddElement DEF PayInv, PoolInv
    <3>2. \A u, v \in pool' : Alike(u, v) => u = v
        BY <1>5, <2>1 DEF PayInv, PoolInv, Alike
    <3> QED
        BY <1>1, <1>2, <2>1, <3>1, <3>2 DEF PayInv, PoolInv, Alike
  <2>4. OriginInv'
    <3>1. DOMAIN attempts = 1 .. Len(attempts) /\ DOMAIN attempts' = 1 .. Len(attempts')
        BY <2>2, LenProperties DEF PayInv, AttemptInv
    <3> QED
        BY <1>1, <1>2, <2>1, <2>2, <3>1 DEF PayInv, OriginInv
  <2>5. AddedIsKept'
    BY <1>2, <2>1, <2>2 DEF PayInv, AddedIsKept, Alike
  <2> QED
    BY <1>3, <2>2, <2>3, <2>4, <2>5 DEF PayInv
<1> QED
    BY <1>4, <1>5

\* What the pool lets go is in the chain, or something like it.
LEMMA ShrinkInv ==
    ASSUME PayInv, RemoveIncluded \/ Evict
    PROVE  PayInv'
<1>1. UNCHANGED <<attempts, chain>> /\ pool' \subseteq pool
      /\ (executed' = executed \/ executed' = {})
    BY DEF RemoveIncluded, Evict
<1>2. ChainInv' /\ \A a, n : Count(chain', a, n) = Count(chain, a, n)
    BY <1>1, SameChain
<1>3. PoolInv'
  <2>1. IsFiniteSet(pool')
    BY <1>1, FS_Subset DEF PayInv, PoolInv
  <2> QED
    BY <1>1, <2>1 DEF PayInv, PoolInv, Alike
<1>4. AttemptInv' /\ OriginInv'
    BY <1>1, <1>2 DEF PayInv, AttemptInv, OriginInv
<1>5. ASSUME NEW t \in pool, t \notin pool'
      PROVE  \E u \in Range(chain) : Alike(u, t)
  <2>1. CASE RemoveIncluded
    BY <1>5, <2>1 DEF RemoveIncluded, Alike, PayInv, PoolInv
  <2>2. CASE Evict
    <3> DEFINE a == From[t.pay]
    <3>1. t.nonce # NonceOf(a)
        BY <1>5, <2>2 DEF Evict, Valid
    <3>2. a \in Address /\ t.nonce \in Nat
        BY TransferFacts DEF PayInv, PoolInv
    <3>3. PICK k \in 1 .. Len(attempts) : attempts[k].transfer = t
        BY DEF PayInv, OriginInv
    <3>4. attempts[k].read \in Nat /\ attempts[k].read <= Len(chain)
          /\ t.nonce = Count(chain, a, attempts[k].read)
        BY <3>3, RequestFacts DEF PayInv
    <3>5. NonceOf(a) = Count(chain, a, Len(chain)) /\ Len(chain) \in Nat
          /\ DOMAIN chain = 1 .. Len(chain)
        BY NonceIsCount, LenProperties DEF PayInv, ChainInv
    <3>6. Count(chain, a, Len(chain)) \in Nat /\ t.nonce <= Count(chain, a, Len(chain))
        BY <3>4, <3>5, CountFacts
    <3>7. t.nonce < Count(chain, a, Len(chain))
        BY <3>1, <3>2, <3>5, <3>6
    <3>8. PICK l \in 1 .. Len(chain) : From[chain[l].pay] = a /\ chain[l].nonce = t.nonce
        BY <3>2, <3>7 DEF PayInv, ChainInv
    <3> QED
        BY <3>5, <3>8 DEF Range, Alike
  <2> QED
    BY <2>1, <2>2
<1>6. AddedIsKept'
  <2>1. ASSUME NEW i \in DOMAIN attempts, attempts[i].outcome = "added"
        PROVE  \E u \in pool' \cup Range(chain) : Alike(u, attempts[i].transfer)
    <3>1. PICK t \in pool \cup Range(chain) : Alike(t, attempts[i].transfer)
        BY <2>1 DEF PayInv, AddedIsKept
    <3>2. CASE t \in pool' \cup Range(chain)
        BY <3>1, <3>2
    <3>3. CASE t \notin pool' \cup Range(chain)
        BY <1>5, <3>1, <3>3 DEF Alike
    <3> QED
        BY <3>2, <3>3
  <2> QED
    BY <1>1, <2>1 DEF AddedIsKept, Alike
<1> QED
    BY <1>2, <1>3, <1>4, <1>6 DEF PayInv

LEMMA InitPay == Init => PayInv
<1> SUFFICES ASSUME Init PROVE PayInv
    OBVIOUS
<1>1. /\ chain = <<>> /\ attempts = <<>> /\ pool = {} /\ executed = {}
      /\ Len(chain) = 0 /\ Len(attempts) = 0
    BY DEF Init
<1>2. Range(chain) = {} /\ DOMAIN attempts = {}
    BY <1>1 DEF Range
<1>3. \A a : Count(chain, a, 0) = 0
    BY FS_EmptySet DEF Count, Sent
<1>4. ChainInv
    BY <1>1, <1>3 DEF ChainInv
<1>5. PoolInv
    BY <1>1, <1>2, FS_EmptySet DEF PoolInv
<1>6. AttemptInv
    BY <1>1 DEF AttemptInv
<1>7. OriginInv /\ AddedIsKept
    BY <1>1, <1>2 DEF OriginInv, AddedIsKept
<1> QED
    BY <1>4, <1>5, <1>6, <1>7 DEF PayInv

LEMMA NextPay == PayInv /\ [Next]_vars => PayInv'
<1> SUFFICES ASSUME PayInv, [Next]_vars PROVE PayInv'
    OBVIOUS
<1>1. DOMAIN attempts = 1 .. Len(attempts) /\ Len(attempts) \in Nat
    BY RequestFacts DEF PayInv
<1>2. CASE UNCHANGED node
    BY <1>2, AttemptStep DEF node
<1>3. ASSUME NEW x \in Payment, AskNonce(x) PROVE PayInv'
    BY <1>3, AttemptStep DEF AskNonce
<1>4. CASE Submit
  <2>1. UNCHANGED <<chain, pool, executed>>
    BY <1>4 DEF Submit
  <2>2. CASE UNCHANGED attempts
    BY <2>1, <2>2, AttemptStep
  <2>3. CASE Move(Len(attempts), "sent", "none") /\ Len(attempts) # 0
    <3>1. Len(attempts) \in 1 .. Len(attempts)
        BY <1>1, <2>3
    <3> QED
        BY <2>1, <2>3, <3>1, AttemptStep
  <2>4. CASE Move(Len(attempts), "sent", "none") /\ Len(attempts) = 0
    BY <1>1, <2>1, <2>4, <2>2 DEF Move
  <2> QED
    BY <1>4, <2>2, <2>3, <2>4 DEF Submit
<1>5. ASSUME NEW i \in DOMAIN attempts, CheckTransfer(i) PROVE PayInv'
  <2>1. /\ UNCHANGED <<chain, pool, executed>>
        /\ Move(i, "checked", "none") \/ Move(i, "node", "rejected")
    BY <1>5 DEF CheckTransfer
  <2> QED
    BY <1>1, <2>1, AttemptStep
<1>6. ASSUME NEW i \in DOMAIN attempts, PushTransfer(i) PROVE PayInv'
    BY <1>6, PushInv
<1>7. ASSUME NEW block \in SUBSET pool, Include(block) PROVE PayInv'
    BY <1>7, IncludeInv
<1>8. CASE RemoveIncluded \/ Evict
    BY <1>8, ShrinkInv
<1> QED
    BY <1>2, <1>3, <1>4, <1>5, <1>6, <1>7, <1>8
    DEF Next, Start, Stop, CreateAccount, PutIndex, AccountCreated, CreationFails,
        Answered, vars

\* Of two executions of a payment, the later one has a nonce that its sender had
\* only after the earlier.
LEMMA PayImplies == PayInv => PaidOnce
<1> SUFFICES ASSUME PayInv, NEW i \in DOMAIN chain, NEW j \in DOMAIN chain,
                    i < j, chain[i].pay = chain[j].pay
             PROVE  \E k \in DOMAIN attempts :
                        attempts[k].transfer = chain[j] /\ attempts[k].read >= i
    BY DEF PaidOnce
<1> DEFINE a == From[chain[j].pay]
<1>1. /\ DOMAIN chain = 1 .. Len(chain) /\ Len(chain) \in Nat
      /\ DOMAIN attempts = 1 .. Len(attempts)
    BY LenProperties DEF PayInv, ChainInv, AttemptInv
<1>2. PICK k \in 1 .. Len(attempts) : attempts[k].transfer = chain[j]
    BY DEF PayInv, OriginInv, Range
<1>3. attempts[k].read \in Nat /\ chain[j].nonce = Count(chain, a, attempts[k].read)
    BY <1>2, RequestFacts DEF PayInv
<1>4. chain[j].nonce = Count(chain, a, j - 1)
    BY <1>1 DEF PayInv, ChainInv
<1>5. ASSUME attempts[k].read < i PROVE FALSE
  <2>1. /\ j - 1 \in Nat /\ attempts[k].read \in 0 .. j - 1 /\ i \in 1 .. j - 1
        /\ From[chain[i].pay] = a
    BY <1>1, <1>3, <1>5
  <2>2. Count(chain, a, attempts[k].read) < Count(chain, a, j - 1) /\ Count(chain, a, j - 1) \in Nat
    BY <1>5, <2>1, CountFacts
  <2> QED
    BY <1>3, <1>4, <2>2
<1> QED
    BY <1>1, <1>2, <1>3, <1>5

\* For any payments and however often they are sent again: one is executed a second
\* time only for a request made after the first (sendValue, SimpleMempool::add).
THEOREM PaymentsStayPaidOnce == Spec => []PaidOnce
<1>1. Spec => []PayInv
    BY InitPay, NextPay, PTL DEF Spec
<1> QED
    BY <1>1, PayImplies, PTL

\* For any payments: what was answered as added stays in the pool or the chain, or
\* something of its sender and nonce does (SimpleMempool).
THEOREM AddedStaysKept == Spec => []AddedIsKept
<1>1. Spec => []PayInv
    BY InitPay, NextPay, PTL DEF Spec
<1>2. PayInv => AddedIsKept
    BY DEF PayInv
<1> QED
    BY <1>1, <1>2, PTL
=============================================================================
