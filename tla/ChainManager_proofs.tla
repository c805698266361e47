------------------------ MODULE ChainManager_proofs -------------------------
(***************************************************************************)
(* IndInv is an inductive invariant of ChainManager, for every block tree, *)
(* every ledger and every number of crashes and failed writes; what        *)
(* follows from it: the safety properties of the chain manager, the way    *)
(* its head moves, and that it implements ForkChoice; then what ForkChoice *)
(* itself promises.                                                        *)
(***************************************************************************)
EXTENDS ChainManagerInv, TLAPS

-----------------------------------------------------------------------------
(* What follows from the assumptions on blocks alone. *)

\* A verified block on a stored parent is above height 0, below MaxHeight + 1
\* and is neither genesis nor its parent.
LEMMA VerifiedHeight ==
    ASSUME NEW b \in Blocks, Parent[b] \in Blocks, Verified(b)
    PROVE  /\ Height[b] \in Heights
           /\ Height[Parent[b]] \in Heights
           /\ Height[b] = Height[Parent[b]] + 1
           /\ Height[b] > 0
           /\ b # Genesis
           /\ Parent[b] # b
BY BlocksAssumption DEF Verified, Heights

\* The state root of an executed block is a ledger.
LEMMA ExecutesType ==
    ASSUME NEW s, NEW b \in Blocks, Executes(s, b)
    PROVE  Exec(s, b) = StateRoot[b] /\ Exec(s, b) \in States
BY BlocksAssumption DEF Executes

\* compare is a strict order that never puts the lower block first.
LEMMA BetterOrder ==
    ASSUME NEW a \in Blocks, NEW b \in Blocks, NEW c \in Blocks
    PROVE  /\ ~Better(a, a)
           /\ Better(a, b) /\ Better(b, c) => Better(a, c)
           /\ Better(a, b) => Height[a] >= Height[b]
           /\ Height[a] \in Int /\ Height[b] \in Int
BY BlocksAssumption, HashAssumption DEF Better, Heights

\* A block better than the head becomes the best once it is the head.
LEMMA NewBest ==
    ASSUME NEW S \in SUBSET Blocks, NEW b \in Blocks, NEW c \in Blocks,
           Better(b, c), \A x \in S : ~Better(x, c)
    PROVE  \A x \in S \cup {b} : ~Better(x, b)
BY BetterOrder

\* A verified child that executes on a valid parent is valid, and only then.
LEMMA ChildValid ==
    ASSUME NEW b \in Blocks, Parent[b] \in Valid, Verified(b)
    PROVE  b \in Valid <=> Executes(StateRoot[Parent[b]], b)
<1>1. Parent[b] \in Blocks
  BY ValidAssumption
<1>2. b # Genesis
  BY <1>1, VerifiedHeight
<1> QED BY <1>2, ValidAssumption

\* A valid block other than genesis is the verified child of a valid one.
LEMMA ValidParent ==
    ASSUME NEW b \in Valid, b # Genesis
    PROVE  /\ Parent[b] \in Valid
           /\ Verified(b)
           /\ Executes(StateRoot[Parent[b]], b)
BY ValidAssumption

-----------------------------------------------------------------------------
(* The batches. *)

LEMMA WithBlockFields ==
    ASSUME NEW b \in Blocks
    PROVE  /\ WithBlock(b).known = store.known \cup {b}
           /\ WithBlock(b).index = [store.index EXCEPT ![Height[b]] = b]
           /\ WithBlock(b).headKey = b
BY DEF WithBlock

\* appendBlock's and the genesis batch keep the store well formed.
LEMMA WithBlockOK ==
    ASSUME store \in Image, ImageOK(store), NEW b \in Blocks,
           \/ b = Genesis
           \/ store.headKey # NoBlock /\ Fresh(b)
    PROVE  WithBlock(b) \in Image /\ ImageOK(WithBlock(b))
<1> DEFINE w == WithBlock(b)
<1>1. /\ Height[b] \in Heights
      /\ b # NoBlock
      /\ store.known \subseteq Blocks
      /\ store.index \in [Heights -> Blocks \cup {NoBlock}]
  BY BlocksAssumption DEF Image
<1>2. /\ w.known = store.known \cup {b}
      /\ w.index = [store.index EXCEPT ![Height[b]] = b]
      /\ w.headKey = b
  BY WithBlockFields
<1>3. w \in Image
  BY <1>1 DEF WithBlock, Image
<1>4. KnownIsClosed(w)
  BY <1>2 DEF ImageOK, KnownIsClosed, Fresh
<1>5. IndexIsKnown(w)
  BY <1>1, <1>2 DEF ImageOK, IndexIsKnown
<1>6. w.index[0] = Genesis
  <2>1. CASE b = Genesis
    BY <2>1, <1>1, <1>2, BlocksAssumption DEF Heights
  <2>2. CASE store.headKey # NoBlock /\ Fresh(b)
    BY <2>2, <1>1, <1>2, VerifiedHeight, BlocksAssumption
    DEF Fresh, ImageOK, HeadIsIndexed, Heights
  <2> QED BY <2>1, <2>2
<1>7. HeadIsIndexed(w)
  BY <1>1, <1>2, <1>6 DEF HeadIsIndexed
<1> QED BY <1>3, <1>4, <1>5, <1>7 DEF ImageOK

\* So does storeBlock's.
LEMMA WithSideBlockOK ==
    ASSUME store \in Image, ImageOK(store), NEW b \in Blocks, Fresh(b)
    PROVE  /\ WithSideBlock(b) \in Image
           /\ ImageOK(WithSideBlock(b))
           /\ WithSideBlock(b).known = store.known \cup {b}
           /\ WithSideBlock(b).index = store.index
           /\ WithSideBlock(b).headKey = store.headKey
<1> DEFINE w == WithSideBlock(b)
<1>1. /\ w.known = store.known \cup {b}
      /\ w.index = store.index
      /\ w.headKey = store.headKey
      /\ w \in Image
  BY DEF WithSideBlock, Image
<1>2. KnownIsClosed(w)
  BY <1>1 DEF ImageOK, KnownIsClosed, Fresh
<1>3. IndexIsKnown(w)
  BY <1>1 DEF ImageOK, IndexIsKnown
<1>4. HeadIsIndexed(w)
  BY <1>1 DEF ImageOK, HeadIsIndexed
<1> QED BY <1>1, <1>2, <1>3, <1>4 DEF ImageOK

\* The position of a height in a branch of n blocks up to height top.
LEMMA Offset ==
    ASSUME NEW low \in Int, NEW top \in Int, NEW n \in Int, NEW h \in Int,
           low = top - n + 1, low <= h, h <= top
    PROVE  h - low + 1 \in 1 .. n
OBVIOUS

\* What adoptBranch's batch holds at each height.
LEMMA WithBranchFields ==
    ASSUME TypeOK, ImageOK(store), HeadOK, BranchOK, branch # <<>>, pc # "down"
    PROVE LET w == WithBranch(branch, head) IN
           /\ w.known = store.known
           /\ w.headKey = cur
           /\ w.index \in [Heights -> Blocks \cup {NoBlock}]
           /\ Height[branch[1]] = Height[cur] - Len(branch) + 1
           /\ Height[branch[1]] > 0
           /\ \A h \in Heights :
                Height[branch[1]] <= h /\ h <= Height[cur] =>
                    w.index[h] = branch[h - Height[branch[1]] + 1]
           /\ \A h \in Heights :
                h < Height[branch[1]] => w.index[h] = store.index[h]
           /\ \A h \in Heights :
                h > Height[cur] =>
                    w.index[h] = IF h <= Height[head] THEN NoBlock
                                 ELSE store.index[h]
<1> DEFINE w == WithBranch(branch, head)
           n == Len(branch)
           low == Height[branch[1]]
           inBranch(h) == \E i \in DOMAIN branch : Height[branch[i]] = h
<1>1. /\ branch \in Seq(Blocks)
      /\ n \in Nat /\ n >= 1
      /\ DOMAIN branch = 1 .. n
      /\ branch[n] = cur
      /\ \A i \in 1 .. n : branch[i] \in Blocks
      /\ \A i \in 1 .. n : Height[branch[i]] = Height[cur] - n + i
      /\ low > 0
  BY DEF TypeOK, BranchOK
<1>2. /\ Height[cur] \in Nat
      /\ low = Height[cur] - n + 1
      /\ head \in Blocks
      /\ Height[head] \in Nat
      /\ Height[cur] \in Heights
  BY <1>1, BlocksAssumption DEF Heights, TypeOK, HeadOK, Image
<1>3. ASSUME NEW h \in Heights, low <= h, h <= Height[cur]
      PROVE  /\ inBranch(h)
             /\ (CHOOSE i \in DOMAIN branch : Height[branch[i]] = h) = h - low + 1
             /\ h - low + 1 \in 1 .. n
  <2>0. h \in Int /\ low \in Int /\ n \in Int /\ Height[cur] \in Int
    BY <1>1, <1>2 DEF Heights
  <2>1. h - low + 1 \in 1 .. n /\ Height[branch[h - low + 1]] = h
    <3>1. h - low + 1 \in 1 .. n
      BY <2>0, <1>2, <1>3, Offset
    <3>2. Height[branch[h - low + 1]] = Height[cur] - n + (h - low + 1)
      BY <3>1, <1>1
    <3> QED BY <2>0, <3>1, <3>2, <1>2
  <2>2. \A i \in 1 .. n : Height[branch[i]] = h => i = h - low + 1
    BY <1>1, <1>2, <1>3 DEF Heights
  <2> QED BY <2>1, <2>2, <1>1
<1>4. ASSUME NEW h \in Heights, h < low \/ h > Height[cur]
      PROVE  ~inBranch(h)
  BY <1>1, <1>2, <1>4 DEF Heights
<1>5. /\ w.known = store.known
      /\ w.headKey = cur
      /\ w.index = [h \in Heights |->
            IF inBranch(h)
            THEN branch[CHOOSE i \in DOMAIN branch : Height[branch[i]] = h]
            ELSE IF Height[cur] < h /\ h <= Height[head]
                 THEN NoBlock ELSE store.index[h]]
  BY <1>1 DEF WithBranch
<1>6. \A h \in Heights : low <= h /\ h <= Height[cur] =>
            w.index[h] = branch[h - low + 1]
  BY <1>3, <1>5
<1>7. \A h \in Heights : h < low => w.index[h] = store.index[h]
  BY <1>2, <1>4, <1>5 DEF Heights
<1>8. \A h \in Heights : h > Height[cur] =>
            w.index[h] = IF h <= Height[head] THEN NoBlock ELSE store.index[h]
  BY <1>2, <1>4, <1>5 DEF Heights
<1>9. w.index \in [Heights -> Blocks \cup {NoBlock}]
  <2>1. \A h \in Heights : w.index[h] \in Blocks \cup {NoBlock}
    <3> TAKE h \in Heights
    <3>1. store.index[h] \in Blocks \cup {NoBlock}
      BY DEF TypeOK, Image
    <3>2. CASE low <= h /\ h <= Height[cur]
      BY <3>2, <1>1, <1>3, <1>6
    <3>3. CASE h < low
      BY <3>3, <3>1, <1>7
    <3>4. CASE h > Height[cur]
      BY <3>4, <3>1, <1>8
    <3> QED BY <3>2, <3>3, <3>4, <1>2 DEF Heights
  <2> QED BY <2>1, <1>5
<1> QED BY <1>1, <1>2, <1>5, <1>6, <1>7, <1>8, <1>9

\* And adoptBranch's keeps the store well formed.
LEMMA WithBranchOK ==
    ASSUME TypeOK, ImageOK(store), HeadOK, BranchOK, branch # <<>>, pc # "down"
    PROVE  /\ WithBranch(branch, head) \in Image
           /\ ImageOK(WithBranch(branch, head))
<1> DEFINE low == Height[branch[1]]
           top == Height[cur]
           w == WithBranch(branch, head)
<1>1. w = [known |-> w.known, index |-> w.index, headKey |-> w.headKey]
  BY DEF WithBranch
<1> HIDE DEF low, top, w
<1>2. /\ w.known = store.known
      /\ w.headKey = cur
      /\ w.index \in [Heights -> Blocks \cup {NoBlock}]
      /\ low = top - Len(branch) + 1
      /\ low > 0
      /\ \A h \in Heights : low <= h /\ h <= top =>
            w.index[h] = branch[h - low + 1]
      /\ \A h \in Heights : h < low => w.index[h] = store.index[h]
      /\ \A h \in Heights : h > top =>
            w.index[h] = IF h <= Height[head] THEN NoBlock ELSE store.index[h]
  BY WithBranchFields DEF low, top, w
<1>3. /\ store.known \subseteq Blocks
      /\ cur \in store.known
      /\ branch[Len(branch)] = cur
      /\ Len(branch) \in Nat /\ Len(branch) >= 1
      /\ \A i \in 1 .. Len(branch) :
            branch[i] \in store.known /\ Height[branch[i]] = top - Len(branch) + i
  BY DEF TypeOK, BranchOK, Image, top
<1>4. top \in Heights /\ top \in Nat /\ 0 \in Heights /\ low \in Nat
  BY <1>2, <1>3, BlocksAssumption DEF Heights, top
<1>5. w \in Image
  <2>1. w.known \subseteq Blocks /\ w.headKey \in Blocks
    BY <1>2, <1>3
  <2> QED BY <2>1, <1>1, <1>2 DEF Image
<1>6. KnownIsClosed(w)
  BY <1>2 DEF ImageOK, KnownIsClosed
<1>7. IndexIsKnown(w)
  <2> SUFFICES ASSUME NEW h \in Heights, w.index[h] # NoBlock
               PROVE  w.index[h] \in w.known /\ Height[w.index[h]] = h
    BY DEF IndexIsKnown
  <2>1. CASE low <= h /\ h <= top
    BY <2>1, <1>2, <1>3, <1>4 DEF Heights
  <2>2. CASE h < low
    BY <2>2, <1>2 DEF ImageOK, IndexIsKnown
  <2>3. CASE h > top
    BY <2>3, <1>2 DEF ImageOK, IndexIsKnown
  <2> QED BY <2>1, <2>2, <2>3, <1>4 DEF Heights
<1>8. HeadIsIndexed(w)
  <2>1. w.index[top] = cur
    <3>1. low <= top /\ top - low + 1 = Len(branch)
      BY <1>2, <1>3, <1>4
    <3>2. w.index[top] = branch[top - low + 1]
      BY <3>1, <1>2, <1>4 DEF Heights
    <3> QED BY <3>1, <3>2, <1>3
  <2>2. w.index[0] = Genesis
    BY <1>2, <1>4 DEF ImageOK, HeadIsIndexed, HeadOK
  <2> QED BY <1>2, <1>3, <2>1, <2>2 DEF HeadIsIndexed, top
<1> QED BY <1>5, <1>6, <1>7, <1>8 DEF ImageOK, w

-----------------------------------------------------------------------------
(* Always: one lemma per kind of step. *)

LEMMA AlwaysInit == Init => Always
<1> SUFFICES ASSUME Init PROVE Always
  OBVIOUS
<1>1. EmptyImage \in Image /\ ImageOK(EmptyImage)
  BY BlocksAssumption
  DEF EmptyImage, Image, ImageOK, KnownIsClosed, IndexIsKnown, HeadIsIndexed
<1>2. StateRoot[Genesis] \in States
  BY BlocksAssumption
<1>3. TypeOK
  BY <1>1, <1>2, BoundsAssumption DEF Init, TypeOK, Outcomes
<1>4. HeadOK /\ JobOK /\ BranchOK /\ ReplayOK /\ LedgerOK
  BY DEF Init, HeadOK, JobOK, BranchOK, ReplayOK, LedgerOK
<1> QED BY <1>1, <1>3, <1>4 DEF Always, Init

\* A state between two imports is well formed once its head is stored and its
\* ledger is the head's.
LEMMA IdleAlways ==
    ASSUME TypeOK', ImageOK(store)', ImageOK(disk)', pc' = "idle",
           branch' = <<>>, (head \in store.known)', (store.headKey # NoBlock)',
           (ledger = StateRoot[head])'
    PROVE  Always'
BY DEF Always, HeadOK, JobOK, BranchOK, ReplayOK, LedgerOK

\* So is a state of a stopped process.
LEMMA DownAlways ==
    ASSUME TypeOK', ImageOK(store)', ImageOK(disk)', pc' = "down",
           branch' = <<>>, head' = NoBlock
    PROVE  Always'
BY DEF Always, HeadOK, JobOK, BranchOK, ReplayOK, LedgerOK

LEMMA AlwaysOpen == Always /\ Open => Always'
<1> SUFFICES ASSUME Always, Open PROVE Always'
  OBVIOUS
<1> USE DEF Always
<1>1. CASE OpenEmpty
  <2> USE <1>1 DEF OpenEmpty, Persist, StartReplay
  <2>1. /\ WithBlock(Genesis) \in Image
        /\ ImageOK(WithBlock(Genesis))
        /\ WithBlock(Genesis).headKey = Genesis
        /\ Genesis \in WithBlock(Genesis).known
        /\ Genesis \in Blocks /\ Genesis # NoBlock
        /\ StateRoot[Genesis] \in States
    BY WithBlockOK, WithBlockFields, BlocksAssumption DEF TypeOK
  <2>2. TypeOK'
    BY <2>1 DEF TypeOK, Outcomes
  <2>3. ImageOK(store)' /\ ImageOK(disk)'
    BY <2>1
  <2>4. HeadOK' /\ JobOK' /\ BranchOK' /\ LedgerOK'
    BY <2>1 DEF HeadOK, JobOK, BranchOK, LedgerOK
  <2>5. ReplayOK'
    BY <2>1, BlocksAssumption DEF ReplayOK, LastBlock, ForkHeight, Heights
  <2> QED BY <2>2, <2>3, <2>4, <2>5
<1>2. CASE OpenEmptyFails
  <2> USE <1>2 DEF OpenEmptyFails, job
  <2>1. TypeOK'
    BY BoundsAssumption DEF TypeOK, Outcomes
  <2>2. branch' = <<>> /\ head' = NoBlock
    BY DEF JobOK, HeadOK
  <2> QED BY <2>1, <2>2, DownAlways
<1>3. CASE OpenStored
  <2> USE <1>3 DEF OpenStored, StartReplay
  <2>1. /\ head' \in Blocks
        /\ store.headKey # NoBlock
        /\ StateRoot[Genesis] \in States
    BY BlocksAssumption DEF TypeOK, Image
  <2>2. TypeOK'
    BY <2>1 DEF TypeOK, Outcomes
  <2>3. ImageOK(store)' /\ ImageOK(disk)'
    OBVIOUS
  <2>4. HeadOK' /\ JobOK' /\ BranchOK' /\ LedgerOK'
    BY <2>1 DEF HeadOK, JobOK, BranchOK, LedgerOK
  <2>5. ReplayOK'
    BY <2>1, BlocksAssumption DEF ReplayOK, LastBlock, ForkHeight, Heights
  <2> QED BY <2>2, <2>3, <2>4, <2>5
<1> QED BY <1>1, <1>2, <1>3 DEF Open

\* A crash, and a start that fails, leave the file as it was.
LEMMA AlwaysDown ==
    ASSUME Always, Down, UNCHANGED <<disk, faults>>,
           outcome' \in Outcomes, crashes' \in 0 .. MaxCrashes
    PROVE  Always'
<1> USE DEF Always, Down, ClearJob
<1>1. TypeOK'
  BY BlocksAssumption DEF TypeOK
<1>2. ImageOK(store)' /\ ImageOK(disk)'
  OBVIOUS
<1> QED BY <1>1, <1>2, DownAlways

LEMMA AlwaysCrash == Always /\ Crash => Always'
<1> SUFFICES ASSUME Always, Crash PROVE Always'
  OBVIOUS
<1>1. crashes' \in 0 .. MaxCrashes
  BY BoundsAssumption DEF Crash, Always, TypeOK
<1> QED BY <1>1, AlwaysDown DEF Crash, Outcomes

LEMMA AlwaysRefuse ==
    ASSUME Always, NEW b \in Blocks, Refuse(b)
    PROVE  Always'
<1> USE DEF Always, Refuse, job
<1>1. TypeOK'
  BY DEF TypeOK, Outcomes
<1>2. HeadOK' /\ JobOK' /\ BranchOK' /\ ReplayOK' /\ LedgerOK'
  BY DEF HeadOK, JobOK, BranchOK, ReplayOK, LedgerOK
<1> QED BY <1>1, <1>2

LEMMA AlwaysBeginImport ==
    ASSUME Always, NEW b \in Blocks, BeginImport(b)
    PROVE  Always'
<1> USE DEF Always, BeginImport
<1>1. TypeOK'
  BY DEF TypeOK
<1>2. branch = <<>> /\ branch' = <<>>
  BY DEF JobOK
<1>3. JobOK'
  BY <1>2 DEF JobOK, Fresh, Executes, Verified
<1>4. HeadOK' /\ BranchOK' /\ ReplayOK' /\ LedgerOK'
  BY <1>2 DEF HeadOK, BranchOK, ReplayOK, LedgerOK
<1> QED BY <1>1, <1>3, <1>4

LEMMA AlwaysAppend == Always /\ (AppendBlock \/ AppendFails) => Always'
<1> SUFFICES ASSUME Always, AppendBlock \/ AppendFails PROVE Always'
  OBVIOUS
<1> USE DEF Always, Return, ClearJob
<1> DEFINE w == WithBlock(cur)
<1>1. /\ pc = "append"
      /\ cur \in Blocks
      /\ Fresh(cur)
      /\ Executes(ledger, cur)
      /\ store.headKey # NoBlock
      /\ head \in store.known
      /\ StateRoot[Genesis] \in States
  BY BlocksAssumption DEF AppendBlock, AppendFails, JobOK, HeadOK
<1>2. /\ w \in Image
      /\ ImageOK(w)
      /\ w.known = store.known \cup {cur}
      /\ w.headKey = cur
      /\ cur # NoBlock
  BY <1>1, WithBlockOK, WithBlockFields, BlocksAssumption DEF TypeOK
<1>3. Exec(ledger, cur) = StateRoot[cur] /\ Exec(ledger, cur) \in States
  BY <1>1, ExecutesType
<1> HIDE DEF w
<1>4. CASE AppendBlock
  <2> USE <1>4 DEF AppendBlock, Persist
  <2>1. store' = w /\ disk' = w
    BY DEF w
  <2>2. TypeOK'
    BY <2>1, <1>1, <1>2, <1>3 DEF TypeOK, Outcomes
  <2>3. ImageOK(store)' /\ ImageOK(disk)'
    BY <2>1, <1>2
  <2> QED BY <2>1, <2>2, <2>3, <1>2, <1>3, IdleAlways
<1>5. CASE AppendFails
  <2> USE <1>5 DEF AppendFails, PersistFails
  <2>1. store' = w /\ disk' = disk
    BY DEF w
  <2>2. TypeOK'
    BY <2>1, <1>1, <1>2, BoundsAssumption DEF TypeOK, Outcomes
  <2>3. ImageOK(store)' /\ ImageOK(disk)'
    BY <2>1, <1>2
  <2>4. (ledger = StateRoot[head])'
    BY <1>1 DEF LedgerOK
  <2> QED BY <2>1, <2>2, <2>3, <2>4, <1>1, <1>2, IdleAlways
<1> QED BY <1>4, <1>5

LEMMA AlwaysStore == Always /\ (StoreBlock \/ StoreFails) => Always'
<1> SUFFICES ASSUME Always, StoreBlock \/ StoreFails PROVE Always'
  OBVIOUS
<1> USE DEF Always, Return, ClearJob
<1> DEFINE w == WithSideBlock(cur)
<1>1. /\ pc = "store"
      /\ cur \in Blocks
      /\ Fresh(cur)
      /\ branch = <<>>
      /\ store.headKey # NoBlock
      /\ head \in store.known
      /\ ledger = StateRoot[head]
      /\ StateRoot[Genesis] \in States
  BY BlocksAssumption DEF StoreBlock, StoreFails, JobOK, HeadOK, LedgerOK
<1>2. /\ w \in Image
      /\ ImageOK(w)
      /\ w.known = store.known \cup {cur}
      /\ w.headKey = store.headKey
  BY <1>1, WithSideBlockOK DEF TypeOK
<1> HIDE DEF w
<1>3. CASE StoreBlock
  <2> USE <1>3 DEF StoreBlock, Persist
  <2>1. store' = w /\ disk' = w /\ head' = head /\ ledger' = ledger
    BY DEF w
  <2>2. ImageOK(store)' /\ ImageOK(disk)'
    BY <2>1, <1>2
  <2>3. CASE Outranks(cur)
    <3> USE <2>3
    <3>1. pc' = "walk" /\ branch' = <<cur>> /\ cur' = cur
      BY DEF Outranks
    <3>2. TypeOK'
      BY <3>1, <2>1, <1>1, <1>2 DEF TypeOK
    <3>3. HeadOK' /\ JobOK' /\ ReplayOK' /\ LedgerOK'
      BY <3>1, <2>1, <1>1, <1>2 DEF HeadOK, JobOK, ReplayOK, LedgerOK
    <3>4. Height[cur] > 0 /\ Height[cur] \in Nat
      BY <1>1, VerifiedHeight DEF Fresh, TypeOK, Image, Heights
    <3>5. Parent[cur] # head
      BY DEF Always, JobOK
    <3>6. BranchOK'
      BY <3>1, <3>4, <3>5, <2>1, <1>1, <1>2 DEF BranchOK, Outranks
    <3> QED BY <3>2, <3>3, <3>6, <2>2
  <2>4. CASE ~Outranks(cur)
    <3>1. TypeOK'
      BY <2>4, <2>1, <1>1, <1>2 DEF TypeOK, Outcomes
    <3> QED BY <2>4, <3>1, <2>1, <2>2, <1>1, <1>2, IdleAlways
  <2> QED BY <2>3, <2>4
<1>4. CASE StoreFails
  <2> USE <1>4 DEF StoreFails, PersistFails
  <2>1. store' = w /\ disk' = disk
    BY DEF w
  <2>2. TypeOK'
    BY <2>1, <1>1, <1>2, BoundsAssumption DEF TypeOK, Outcomes
  <2>3. ImageOK(store)' /\ ImageOK(disk)'
    BY <2>1, <1>2
  <2> QED BY <2>1, <2>2, <2>3, <1>1, <1>2, IdleAlways
<1> QED BY <1>3, <1>4

\* Prepending one block to a branch shifts the positions of the others.
LEMMA Shift ==
    ASSUME NEW top \in Nat, NEW n \in Nat, NEW i \in Nat
    PROVE  /\ top - n + (i - 1) = top - (n + 1) + i
           /\ \A p \in Nat : top - n + 1 = p + 1 => p = top - (n + 1) + 1
OBVIOUS

\* Prepending the parent of the lowest block keeps the branch a path.
LEMMA AlwaysWalk == Always /\ WalkBack => Always'
<1> SUFFICES ASSUME Always, WalkBack PROVE Always'
  OBVIOUS
<1> USE DEF Always
<1> DEFINE n == Len(branch)
           low == branch[1]
<1>1. /\ branch \in Seq(Blocks) /\ branch # <<>>
      /\ n \in Nat /\ n >= 1
      /\ low \in store.known
      /\ low \in Blocks /\ Height[low] > 0 /\ low # Genesis
      /\ cur \in Blocks /\ Height[cur] \in Nat
      /\ cur \in store.known
      /\ Better(cur, head) /\ Parent[cur] # head
      /\ branch[n] = cur
      /\ \A i \in 1 .. n : branch[i] \in store.known
                           /\ Height[branch[i]] = Height[cur] - n + i
      /\ \A i \in 1 .. n - 1 : Parent[branch[i + 1]] = branch[i]
      /\ store.headKey # NoBlock
      /\ head \in store.known
      /\ ledger = StateRoot[head]
      /\ StateRoot[Genesis] \in States
  BY BlocksAssumption
  DEF WalkBack, TypeOK, BranchOK, HeadOK, LedgerOK, Heights, Image
<1>2. Parent[low] \in store.known /\ Verified(low)
  BY <1>1 DEF ImageOK, KnownIsClosed
<1>3. /\ ImageOK(store)' /\ ImageOK(disk)'
      /\ UNCHANGED <<store, disk, head, ledger, faults, crashes>>
  BY DEF WalkBack
<1>4. CASE ReachedTrunk
  <2>1. /\ pc' = "replay" /\ branch' = branch /\ cursor' = 1
        /\ replayed' = StateRoot[Genesis]
        /\ UNCHANGED <<cur, outcome>>
    BY <1>2, <1>4 DEF WalkBack, StartReplay
  <2>2. TypeOK'
    BY <2>1, <1>1, <1>3 DEF TypeOK
  <2>3. HeadOK' /\ JobOK' /\ BranchOK' /\ LedgerOK'
    BY <2>1, <1>1, <1>3 DEF HeadOK, JobOK, BranchOK, LedgerOK
  <2>4. ReplayOK'
    <3>1. /\ ForkHeight' = Height[low] - 1
          /\ LastBlock' = Genesis
          /\ Height[low] \in Nat
      BY <2>1, <1>1, BlocksAssumption DEF LastBlock, ForkHeight, Heights
    <3>2. 1 <= (Height[low] - 1) + n + 1
      BY <3>1, <1>1
    <3> QED BY <2>1, <3>1, <3>2, <1>1 DEF ReplayOK
  <2> QED BY <2>2, <2>3, <2>4, <1>3
<1>5. CASE ~ReachedTrunk
  <2>1. /\ branch' = <<Parent[low]>> \o branch
        /\ UNCHANGED <<pc, cur, cursor, replayed, outcome>>
        /\ UNCHANGED <<store, disk, head, ledger, faults, crashes>>
        /\ pc = "walk"
    BY <1>5, <1>2 DEF WalkBack
  <2>2. Parent[low] \in Blocks
    BY <1>2 DEF TypeOK, Image
  <2>3. Height[Parent[low]] > 0
    <3>1. Height[low] = Height[Parent[low]] + 1 /\ Height[Parent[low]] \in Nat
      BY <1>1, <1>2, <2>2, VerifiedHeight DEF Heights
    <3>2. ASSUME Height[Parent[low]] = 0 PROVE FALSE
      <4>1. Parent[low] = Genesis
        <5> SUFFICES ASSUME Parent[low] # Genesis PROVE FALSE
          OBVIOUS
        <5>1. Parent[Parent[low]] \in store.known /\ Verified(Parent[low])
          BY <1>2 DEF ImageOK, KnownIsClosed
        <5> QED BY <5>1, <2>2, <3>2, VerifiedHeight DEF TypeOK, Image
      <4>2. store.index[0] = Genesis
        BY <1>1 DEF ImageOK, HeadIsIndexed
      <4>3. Height[low] - 1 = 0
        BY <3>1, <3>2
      <4> QED BY <4>1, <4>2, <4>3, <1>1, <1>5 DEF ReachedTrunk
    <3> QED BY <3>1, <3>2
  <2>4. /\ branch' \in Seq(Blocks)
        /\ Len(branch') = n + 1
        /\ branch'[1] = Parent[low]
        /\ \A i \in 1 .. n : branch'[i + 1] = branch[i]
        /\ branch' # <<>>
    BY <2>1, <2>2, <1>1
  <2>5. TypeOK'
    BY <2>1, <2>4 DEF TypeOK
  <2>6. HeadOK' /\ JobOK' /\ ReplayOK' /\ LedgerOK'
    BY <2>1, <2>4, <1>1 DEF HeadOK, JobOK, ReplayOK, LedgerOK
  <2>7. ASSUME NEW i \in 1 .. n + 1
        PROVE  branch'[i] \in store.known
               /\ Height[branch'[i]] = Height[cur] - (n + 1) + i
    <3>1. CASE i = 1
      <4>1. Height[low] = Height[Parent[low]] + 1
        BY <1>2 DEF Verified
      <4>2. Height[low] = Height[cur] - n + 1
        BY <1>1
      <4>3. Height[Parent[low]] \in Nat
        BY <2>2, BlocksAssumption DEF Heights
      <4>4. Height[Parent[low]] = Height[cur] - (n + 1) + 1
        <5>1. n \in Nat /\ Height[cur] \in Nat
          BY <1>1
        <5> HIDE DEF n, low
        <5> QED BY <5>1, <4>1, <4>2, <4>3
      <4>5. branch'[i] = Parent[low]
        BY <3>1, <2>4
      <4>6. Height[Parent[low]] = Height[cur] - (n + 1) + i
        BY <3>1, <4>4
      <4> QED BY <4>5, <4>6, <1>2
    <3>2. CASE i # 1
      <4>1. i - 1 \in 1 .. n /\ branch'[i] = branch[i - 1]
        <5>1. i - 1 \in 1 .. n
          BY <3>2, <1>1
        <5>2. branch'[(i - 1) + 1] = branch[i - 1]
          BY <5>1, <2>4
        <5> QED BY <5>1, <5>2
      <4>2. Height[branch[i - 1]] = Height[cur] - n + (i - 1)
        BY <4>1, <1>1
      <4>3. Height[cur] - n + (i - 1) = Height[cur] - (n + 1) + i
        <5>1. i \in Nat /\ n \in Nat /\ Height[cur] \in Nat
          BY <1>1
        <5> QED BY <5>1, Shift
      <4>4. branch[i - 1] \in store.known
        BY <4>1, <1>1
      <4> QED BY <4>1, <4>2, <4>3, <4>4
    <3> QED BY <3>1, <3>2
  <2>8. ASSUME NEW i \in 1 .. n
        PROVE  Parent[branch'[i + 1]] = branch'[i]
    <3>1. CASE i = 1
      BY <3>1, <2>4, <1>1
    <3>2. CASE i # 1
      <4>1. i - 1 \in 1 .. n - 1 /\ i - 1 \in 1 .. n
        BY <3>2, <1>1
      <4>2. branch'[(i - 1) + 1] = branch[i - 1]
        BY <4>1, <2>4
      <4>3. Parent[branch[(i - 1) + 1]] = branch[i - 1]
        BY <4>1, <1>1
      <4> QED BY <4>2, <4>3, <2>4
    <3> QED BY <3>1, <3>2
  <2>9. branch'[n + 1] = cur
    BY <2>4, <1>1
  <2>10. BranchOK'
    <3>1. /\ (n + 1) - 1 = n
          /\ Height[branch'[1]] > 0
      BY <2>3, <2>4, <1>1
    <3>2. \A i \in 1 .. Len(branch') - 1 : Parent[branch'[i + 1]] = branch'[i]
      BY <3>1, <2>4, <2>8
    <3>3. \A i \in 1 .. Len(branch') :
             /\ branch'[i] \in store'.known
             /\ Height[branch'[i]] = Height[cur'] - Len(branch') + i
      BY <2>1, <2>4, <2>7
    <3>4. /\ branch'[Len(branch')] = cur' /\ cur' \in store'.known
          /\ Better(cur', head') /\ Parent[cur'] # head'
      BY <2>1, <2>4, <2>9, <1>1
    <3> QED BY <2>4, <3>1, <3>2, <3>3, <3>4 DEF BranchOK
  <2> QED BY <2>5, <2>6, <2>10, <1>3
<1> QED BY <1>4, <1>5

\* The facts about a replay that its steps use.
LEMMA ReplayFacts ==
    ASSUME Always, pc = "replay"
    PROVE  /\ ForkHeight \in Int /\ ForkHeight >= 0 /\ ForkHeight <= MaxHeight
           /\ Len(branch) \in Nat
           /\ cursor \in Nat /\ cursor >= 1
           /\ cursor <= ForkHeight + Len(branch) + 1
           /\ head \in Blocks
           /\ store.headKey # NoBlock
           /\ branch \in Seq(Blocks)
           /\ ~ReplayDone => NextBlock \in Blocks \cup {NoBlock}
<1> USE DEF Always
<1>1. /\ head \in Blocks
      /\ branch \in Seq(Blocks)
      /\ store.headKey # NoBlock
      /\ branch # <<>> => branch[1] \in Blocks /\ Height[branch[1]] > 0
      /\ MaxHeight \in Nat
  BY BlocksAssumption DEF TypeOK, HeadOK, Image, BranchOK
<1>2. /\ ForkHeight \in Int /\ ForkHeight >= 0 /\ ForkHeight <= MaxHeight
      /\ Len(branch) \in Nat
  BY <1>1, BlocksAssumption DEF ForkHeight, Heights
<1>3. /\ cursor \in Nat /\ cursor >= 1
      /\ cursor <= ForkHeight + Len(branch) + 1
  BY DEF ReplayOK, TypeOK
<1>4. ASSUME ~ReplayDone PROVE NextBlock \in Blocks \cup {NoBlock}
  <2>1. CASE cursor <= ForkHeight
    <3>1. cursor \in Heights
      BY <2>1, <1>1, <1>2, <1>3 DEF Heights
    <3> QED BY <3>1, <2>1 DEF NextBlock, TypeOK, Image
  <2>2. CASE ~(cursor <= ForkHeight)
    <3>1. cursor - ForkHeight \in 1 .. Len(branch)
      BY <2>2, <1>2, <1>3, <1>4 DEF ReplayDone
    <3> QED BY <3>1, <2>2, <1>1 DEF NextBlock
  <2> QED BY <2>1, <2>2
<1> QED BY <1>1, <1>2, <1>3, <1>4

LEMMA AlwaysReplay == Always /\ ReplayBlock => Always'
<1> SUFFICES ASSUME Always, ReplayBlock PROVE Always'
  OBVIOUS
<1>1. /\ pc = "replay" /\ pc' = "replay"
      /\ ~ReplayDone
      /\ NextBlock # NoBlock
      /\ Executes(replayed, NextBlock)
      /\ replayed' = Exec(replayed, NextBlock)
      /\ cursor' = cursor + 1
      /\ UNCHANGED <<store, disk, head, ledger, cur, branch, outcome, faults,
                     crashes>>
  BY DEF ReplayBlock, NextExecutes
<1>2. /\ ForkHeight \in Int
      /\ Len(branch) \in Nat
      /\ cursor \in Nat /\ cursor >= 1
      /\ cursor <= ForkHeight + Len(branch)
      /\ NextBlock \in Blocks
  BY <1>1, ReplayFacts DEF ReplayDone
<1>3. replayed' = StateRoot[NextBlock] /\ replayed' \in States
  BY <1>1, <1>2, ExecutesType
<1>4. ForkHeight' = ForkHeight
  BY <1>1 DEF ForkHeight
<1>5. LastBlock' = NextBlock
  BY <1>1, <1>2, <1>4 DEF LastBlock, NextBlock
<1>6. TypeOK'
  BY <1>1, <1>2, <1>3 DEF Always, TypeOK
<1>7. ReplayOK'
  BY <1>1, <1>2, <1>3, <1>4, <1>5 DEF Always, ReplayOK
<1>8. HeadOK' /\ JobOK' /\ BranchOK' /\ LedgerOK' /\ ImageOK(store)' /\ ImageOK(disk)'
  BY <1>1 DEF Always, HeadOK, JobOK, BranchOK, LedgerOK
<1> QED BY <1>6, <1>7, <1>8 DEF Always

LEMMA AlwaysReplayFails == Always /\ ReplayFails => Always'
<1> SUFFICES ASSUME Always, ReplayFails PROVE Always'
  OBVIOUS
<1> USE DEF Always, ReplayFails, Return, ClearJob
<1>1. TypeOK'
  BY BlocksAssumption DEF TypeOK, Outcomes
<1>2. /\ ImageOK(store)' /\ ImageOK(disk)'
      /\ (head \in store.known)' /\ (store.headKey # NoBlock)'
      /\ (ledger = StateRoot[head])'
  BY DEF HeadOK, LedgerOK
<1> QED BY <1>1, <1>2, IdleAlways

LEMMA AlwaysStartFails == Always /\ StartFails => Always'
<1>1. ASSUME Always, StartFails PROVE Always'
  BY <1>1, AlwaysDown DEF StartFails, Outcomes, Always, TypeOK
<1> QED BY <1>1

\* The block replayed last is the head when a start ends, the branch's tip when
\* its replay does.
LEMMA ReplayEnds ==
    ASSUME Always, pc = "replay", ReplayDone
    PROVE  /\ branch = <<>> => replayed = StateRoot[head]
           /\ branch # <<>> => replayed = StateRoot[cur]
<1> USE DEF Always
<1>1. /\ ForkHeight \in Int /\ ForkHeight >= 0
      /\ Len(branch) \in Nat
      /\ cursor \in Nat
      /\ cursor - 1 = ForkHeight + Len(branch)
      /\ replayed = StateRoot[LastBlock]
      /\ store.headKey # NoBlock
      /\ head \in store.known /\ head \in Blocks
  <2>1. /\ ForkHeight \in Int /\ ForkHeight >= 0
        /\ Len(branch) \in Nat
        /\ cursor \in Nat
        /\ cursor <= ForkHeight + Len(branch) + 1
        /\ head \in Blocks
        /\ store.headKey # NoBlock
    BY ReplayFacts
  <2>2. cursor > ForkHeight + Len(branch)
    BY DEF ReplayDone
  <2>3. replayed = StateRoot[LastBlock] /\ head \in store.known
    BY DEF ReplayOK, HeadOK
  <2> HIDE DEF Always
  <2> QED BY <2>1, <2>2, <2>3
<1>2. CASE branch = <<>>
  <2>1. Len(branch) = 0 /\ ForkHeight = Height[head] /\ head = store.headKey
    BY <1>2 DEF ForkHeight, ReplayOK
  <2>2. CASE cursor = 1
    <3>1. Height[head] = 0
      BY <2>1, <2>2, <1>1
    <3>2. head = Genesis
      <4> SUFFICES ASSUME head # Genesis PROVE FALSE
        OBVIOUS
      <4>1. Parent[head] \in store.known /\ Verified(head)
        BY <1>1 DEF ImageOK, KnownIsClosed
      <4>2. Height[head] > 0
        BY <4>1, <1>1, VerifiedHeight DEF TypeOK, Image
      <4> QED BY <4>2, <3>1
    <3> QED BY <3>2, <2>2, <1>1, <1>2 DEF LastBlock
  <2>3. CASE cursor # 1
    <3>1. LastBlock = store.index[Height[head]]
      BY <2>1, <2>3, <1>1 DEF LastBlock
    <3> QED BY <3>1, <2>1, <1>1, <1>2 DEF ImageOK, HeadIsIndexed
  <2> QED BY <2>2, <2>3
<1>3. CASE branch # <<>>
  <2>1. Len(branch) >= 1 /\ branch[Len(branch)] = cur
    BY <1>3, <1>1 DEF BranchOK, TypeOK
  <2>2. cursor # 1 /\ ~(cursor - 1 <= ForkHeight)
        /\ cursor - 1 - ForkHeight = Len(branch)
    BY <2>1, <1>1
  <2> QED BY <2>1, <2>2, <1>1, <1>3 DEF LastBlock
<1> QED BY <1>2, <1>3

LEMMA AlwaysFinishStart == Always /\ FinishStart => Always'
<1> SUFFICES ASSUME Always, FinishStart PROVE Always'
  OBVIOUS
<1> USE DEF Always, FinishStart, Return, ClearJob
<1>1. ledger' = StateRoot[head']
  BY ReplayEnds
<1>2. TypeOK'
  BY BlocksAssumption DEF TypeOK, Outcomes
<1>3. /\ ImageOK(store)' /\ ImageOK(disk)'
      /\ (head \in store.known)' /\ (store.headKey # NoBlock)'
  BY DEF HeadOK
<1> QED BY <1>1, <1>2, <1>3, IdleAlways

LEMMA AlwaysAdopt == Always /\ (AdoptBranch \/ AdoptFails) => Always'
<1> SUFFICES ASSUME Always, AdoptBranch \/ AdoptFails PROVE Always'
  OBVIOUS
<1> USE DEF Always, Return, ClearJob
<1> DEFINE w == WithBranch(branch, head)
<1>1. /\ pc = "replay" /\ branch # <<>> /\ ReplayDone
      /\ branch[Len(branch)] = cur
      /\ cur \in store.known /\ cur \in Blocks /\ cur # NoBlock
      /\ head \in store.known
      /\ ledger = StateRoot[head]
      /\ StateRoot[Genesis] \in States
  BY BlocksAssumption
  DEF AdoptBranch, AdoptFails, BranchOK, TypeOK, Image, HeadOK, LedgerOK
<1>2. w \in Image /\ ImageOK(w)
  BY <1>1, WithBranchOK
<1>3. w.known = store.known /\ w.headKey = cur
  BY <1>1, WithBranchFields
<1> HIDE DEF w
<1>4. CASE AdoptBranch
  <2> USE <1>4 DEF AdoptBranch, Persist
  <2>1. store' = w /\ disk' = w /\ head' = cur
    BY <1>1 DEF w
  <2>2. ledger' = StateRoot[cur]
    BY <1>1, ReplayEnds
  <2>3. TypeOK'
    BY <2>1, <1>1, <1>2 DEF TypeOK, Outcomes
  <2>4. ImageOK(store)' /\ ImageOK(disk)'
    BY <2>1, <1>2
  <2> QED BY <2>1, <2>2, <2>3, <2>4, <1>1, <1>3, IdleAlways
<1>5. CASE AdoptFails
  <2> USE <1>5 DEF AdoptFails, PersistFails
  <2>1. store' = w /\ disk' = disk
    BY DEF w
  <2>2. TypeOK'
    BY <2>1, <1>1, <1>2, BoundsAssumption DEF TypeOK, Outcomes
  <2>3. ImageOK(store)' /\ ImageOK(disk)'
    BY <2>1, <1>2
  <2> QED BY <2>1, <2>2, <2>3, <1>1, <1>3, IdleAlways
<1> QED BY <1>4, <1>5

LEMMA AlwaysNext == Always /\ [Next]_vars => Always'
<1> SUFFICES ASSUME Always, [Next]_vars PROVE Always'
  OBVIOUS
<1>1. CASE UNCHANGED vars
  BY <1>1 DEF vars, job, Always, TypeOK, HeadOK, JobOK, Fresh, BranchOK, ReplayOK,
              LastBlock, ForkHeight, LedgerOK
<1> QED
  BY <1>1, AlwaysOpen, AlwaysCrash, AlwaysRefuse, AlwaysBeginImport, AlwaysAppend,
     AlwaysStore, AlwaysWalk, AlwaysReplay, AlwaysReplayFails, AlwaysAdopt,
     AlwaysStartFails, AlwaysFinishStart
  DEF Next, Proceed

\* Every reachable state is well formed, whatever writes fail.
THEOREM AlwaysInvariant == Spec => []Always
BY AlwaysInit, AlwaysNext, PTL DEF Spec

\* Every variable keeps its type (Blockchain, ChainManager, FileStore).
THEOREM TypeCorrect == Spec => []TypeOK
<1>1. Always => TypeOK
  BY DEF Always
<1> QED BY <1>1, AlwaysInvariant, PTL

\* Head and ledger move together, even when a write fails: whoever reads
\* ledger() reads the state of the head's own block.
THEOREM LedgerFollowsHead == Spec => []LedgerIsHeads
<1>1. Always => LedgerIsHeads
  BY DEF Always, LedgerOK, LedgerIsHeads
<1> QED BY <1>1, AlwaysInvariant, PTL

-----------------------------------------------------------------------------
(* The batches keep the indexed chain whole and valid. *)

LEMMA ChainGenesis ==
    ASSUME store \in Image, ImageOK(store), ChainOK(store),
           store.headKey = NoBlock
    PROVE  ChainOK(WithBlock(Genesis))
<1> DEFINE w == WithBlock(Genesis)
<1>1. \A h \in Heights : store.index[h] = NoBlock
  BY DEF ImageOK, ChainOK, IndexIsKnown
<1>2. /\ w.known = {Genesis}
      /\ w.index = [store.index EXCEPT ![0] = Genesis]
      /\ w.headKey = Genesis
      /\ store.index \in [Heights -> Blocks \cup {NoBlock}]
      /\ Height[Genesis] = 0 /\ 0 \in Heights /\ Genesis # NoBlock
      /\ Genesis \in Valid
  BY WithBlockFields, BlocksAssumption, ValidAssumption
  DEF ChainOK, Image, Heights
<1>3. IsChain(w)
  BY <1>1, <1>2, BlocksAssumption DEF IsChain, Heights
<1> QED BY <1>2, <1>3 DEF ChainOK

LEMMA ChainAppend ==
    ASSUME store \in Image, ImageOK(store), ChainOK(store),
           store.headKey # NoBlock, NEW b \in Valid, Fresh(b),
           Parent[b] = store.headKey
    PROVE  ChainOK(WithBlock(b))
<1> DEFINE w == WithBlock(b)
           top == Height[store.headKey]
<1>1. /\ b \in Blocks /\ b # NoBlock
      /\ store.headKey \in Blocks
      /\ store.headKey \in store.known
      /\ top \in Nat
      /\ Height[b] = top + 1
      /\ Height[b] \in Heights
      /\ MaxHeight \in Nat
  BY ValidAssumption, BlocksAssumption DEF Image, Fresh, Verified, Heights
<1>2. /\ IsChain(store)
      /\ \A h \in 0 .. top : store.index[h] \in Valid
      /\ store.index \in [Heights -> Blocks \cup {NoBlock}]
  BY DEF ChainOK, Image
<1>3. /\ w.known = store.known \cup {b}
      /\ w.index = [store.index EXCEPT ![top + 1] = b]
      /\ w.headKey = b
  BY <1>1, WithBlockFields
<1>4. /\ w.index[top + 1] = b
      /\ \A h \in Heights : h # top + 1 => w.index[h] = store.index[h]
  BY <1>1, <1>2, <1>3
<1>5. \A h \in 0 .. top : h \in Heights /\ h # top + 1
  BY <1>1 DEF Heights
<1>6. IsChain(w)
  <2>1. w.index[0] = Genesis
    BY <1>1, <1>2, <1>4, <1>5 DEF IsChain
  <2>2. ASSUME NEW h \in 1 .. top + 1
        PROVE  w.index[h] \in w.known /\ Parent[w.index[h]] = w.index[h - 1]
    <3>1. CASE h = top + 1
      <4>1. h - 1 = top /\ w.index[h - 1] = store.headKey
        BY <3>1, <1>1, <1>2, <1>4, <1>5 DEF IsChain
      <4> QED BY <3>1, <4>1, <1>3, <1>4
    <3>2. CASE h # top + 1
      <4>1. h \in 1 .. top /\ h \in 0 .. top /\ h - 1 \in 0 .. top
        BY <3>2, <1>1
      <4> QED BY <4>1, <1>2, <1>3, <1>4, <1>5 DEF IsChain
    <3> QED BY <3>1, <3>2
  <2>3. ASSUME NEW h \in top + 1 + 1 .. MaxHeight
        PROVE  w.index[h] = NoBlock
    <3>1. h \in top + 1 .. MaxHeight /\ h \in Heights /\ h # top + 1
      BY <1>1 DEF Heights
    <3> QED BY <3>1, <1>2, <1>4 DEF IsChain
  <2> QED BY <2>1, <2>2, <2>3, <1>1, <1>3, <1>4 DEF IsChain
<1>7. \A h \in 0 .. top + 1 : w.index[h] \in Valid
  <2> TAKE h \in 0 .. top + 1
  <2>1. CASE h = top + 1
    BY <2>1, <1>4
  <2>2. CASE h # top + 1
    <3>1. h \in 0 .. top
      BY <2>2, <1>1
    <3> QED BY <3>1, <1>2, <1>4, <1>5
  <2> QED BY <2>1, <2>2
<1> QED BY <1>1, <1>3, <1>6, <1>7 DEF ChainOK

LEMMA ChainSide ==
    ASSUME store \in Image, ImageOK(store), ChainOK(store), store.headKey # NoBlock,
           NEW b \in Blocks, Fresh(b)
    PROVE  ChainOK(WithSideBlock(b))
<1> DEFINE w == WithSideBlock(b)
<1>1. /\ w.known = store.known \cup {b}
      /\ w.index = store.index
      /\ w.headKey = store.headKey
  BY WithSideBlockOK
<1> HIDE DEF w
<1>2. ChainOK(w)
  BY <1>1 DEF ChainOK, IsChain
<1> QED BY <1>2 DEF w

\* The trunk a branch hangs from is part of the canonical chain.
LEMMA TrunkIsCanonical ==
    ASSUME Always, Sound, pc = "replay", branch # <<>>
    PROVE  /\ ForkHeight = Height[branch[1]] - 1
           /\ ForkHeight \in Nat
           /\ ForkHeight <= Height[head]
           /\ Height[head] \in Heights
           /\ store.index[ForkHeight] = Parent[branch[1]]
           /\ head = store.headKey
           /\ IsChain(store)
           /\ \A h \in 0 .. Height[head] : store.index[h] \in Valid
<1>1. /\ ForkHeight = Height[branch[1]] - 1
      /\ ForkHeight \in Nat
      /\ ForkHeight <= MaxHeight
      /\ store.headKey # NoBlock
      /\ head \in Blocks
  BY ReplayFacts DEF ForkHeight
<1>2. /\ head = store.headKey
      /\ IsChain(store)
      /\ \A h \in 0 .. Height[head] : store.index[h] \in Valid
      /\ store.index[ForkHeight] = Parent[branch[1]]
  BY <1>1 DEF Sound, InStep, ChainOK, ReplayIsValid, ReachedTrunk
<1>3. Height[head] \in Heights /\ Height[head] \in Nat
  BY <1>1, BlocksAssumption DEF Heights
<1>4. Parent[branch[1]] # NoBlock
  <2>1. branch[1] \in store.known /\ branch[1] # Genesis
    BY BlocksAssumption DEF Always, BranchOK, TypeOK
  <2>2. Parent[branch[1]] \in store.known
    BY <2>1 DEF Always, ImageOK, KnownIsClosed
  <2> QED BY <2>2, BlocksAssumption DEF Always, TypeOK, Image
<1>5. ForkHeight <= Height[head]
  <2> SUFFICES ASSUME ForkHeight > Height[head] PROVE FALSE
    BY <1>1, <1>3
  <2>1. ForkHeight \in Height[head] + 1 .. MaxHeight
    BY <1>1, <1>3, BlocksAssumption
  <2> QED BY <2>1, <1>2, <1>4 DEF IsChain
<1> QED BY <1>1, <1>2, <1>3, <1>5

LEMMA ChainAdopt ==
    ASSUME Always, Sound, pc = "replay", branch # <<>>, ReplayDone
    PROVE  ChainOK(WithBranch(branch, head)) /\ cur \in Valid
<1> DEFINE low == Height[branch[1]]
           top == Height[cur]
           n == Len(branch)
           w == WithBranch(branch, head)
<1>1. /\ n \in Nat /\ n >= 1
      /\ branch[n] = cur
      /\ cur \in Blocks
      /\ \A i \in 1 .. n : branch[i] \in store.known
      /\ \A i \in 1 .. n - 1 : Parent[branch[i + 1]] = branch[i]
      /\ top \in Nat /\ top \in Heights
      /\ MaxHeight \in Nat
      /\ cur # NoBlock
  <2>1. /\ n \in Nat /\ n >= 1
        /\ branch[n] = cur
        /\ cur \in store.known
        /\ \A i \in 1 .. n : branch[i] \in store.known
        /\ \A i \in 1 .. n - 1 : Parent[branch[i + 1]] = branch[i]
    BY DEF Always, BranchOK, TypeOK
  <2>2. cur \in Blocks
    BY <2>1 DEF Always, TypeOK, Image
  <2>3. cur # NoBlock /\ Height[cur] \in Heights
    BY <2>2, BlocksAssumption
  <2>4. Height[cur] \in Nat /\ MaxHeight \in Nat
    BY <2>3, BlocksAssumption DEF Heights
  <2> QED BY <2>1, <2>2, <2>3, <2>4
<1>2. /\ w.known = store.known
      /\ w.headKey = cur
      /\ low = top - n + 1
      /\ low > 0
      /\ \A h \in Heights : low <= h /\ h <= top =>
            w.index[h] = branch[h - low + 1]
      /\ \A h \in Heights : h < low => w.index[h] = store.index[h]
      /\ \A h \in Heights : h > top =>
            w.index[h] = IF h <= Height[head] THEN NoBlock ELSE store.index[h]
  BY WithBranchFields DEF Always
<1>3. /\ ForkHeight = low - 1
      /\ ForkHeight \in Nat
      /\ ForkHeight <= Height[head]
      /\ Height[head] \in Heights /\ Height[head] \in Nat
      /\ store.index[ForkHeight] = Parent[branch[1]]
      /\ head = store.headKey
      /\ IsChain(store)
      /\ \A h \in 0 .. Height[head] : store.index[h] \in Valid
  BY TrunkIsCanonical DEF Heights
<1>4. \A i \in 1 .. n : branch[i] \in Valid
  <2>1. \A i \in 1 .. n : i < cursor - ForkHeight
    <3>1. cursor > ForkHeight + n /\ cursor \in Nat
      BY DEF ReplayDone, Always, TypeOK
    <3> QED BY <3>1, <1>1, <1>3
  <2> QED BY <2>1 DEF Sound, ReplayIsValid
<1>5. top >= Height[head]
  BY <1>1, BetterOrder DEF Always, BranchOK, TypeOK, HeadOK, Image
<1> HIDE DEF w, low, top, n
<1>6. \A h \in 0 .. top : h \in Heights
  BY <1>1 DEF Heights
<1>7. IsChain(w)
  <2>1. w.index[0] = Genesis
    BY <1>2, <1>3, <1>6, <1>1 DEF IsChain
  <2>2. w.index[top] = cur
    <3>1. low <= top /\ top - low + 1 = n
      BY <1>1, <1>2
    <3> QED BY <3>1, <1>1, <1>2
  <2>3. ASSUME NEW h \in 1 .. top
        PROVE  w.index[h] \in w.known /\ Parent[w.index[h]] = w.index[h - 1]
    <3>1. h \in Heights /\ h - 1 \in Heights /\ h \in Nat /\ low \in Int
      BY <1>1, <1>2, <1>6
    <3>2. CASE h < low
      <4>1. h \in 1 .. Height[head] /\ h - 1 < low
        BY <3>1, <3>2, <1>3
      <4>2. w.index[h] = store.index[h] /\ w.index[h - 1] = store.index[h - 1]
        BY <3>1, <3>2, <4>1, <1>2
      <4> QED BY <4>1, <4>2, <1>2, <1>3 DEF IsChain
    <3>3. CASE h = low
      <4>1. w.index[h] = branch[1]
        <5>1. low <= h /\ h <= top /\ h - low + 1 = 1
          BY <3>1, <3>3
        <5> QED BY <5>1, <3>1, <1>2
      <4>2. w.index[h - 1] = store.index[ForkHeight]
        BY <3>1, <3>3, <1>2, <1>3
      <4>3. branch[1] \in store.known
        BY <1>1
      <4> QED BY <4>1, <4>2, <4>3, <1>2, <1>3
    <3>4. CASE h > low
      <4>1. /\ h - low \in 1 .. n - 1
            /\ h - low + 1 \in 1 .. n
            /\ (h - 1) - low + 1 = h - low
            /\ low <= h - 1 /\ h - 1 <= top
        BY <3>1, <3>4, <1>1, <1>2
      <4>2. w.index[h] = branch[h - low + 1]
        BY <3>1, <3>4, <1>2
      <4>3. w.index[h - 1] = branch[h - low]
        BY <4>1, <3>1, <1>2
      <4> QED BY <4>1, <4>2, <4>3, <1>1, <1>2
    <3> QED BY <3>1, <3>2, <3>3, <3>4
  <2>4. ASSUME NEW h \in top + 1 .. MaxHeight
        PROVE  w.index[h] = NoBlock
    <3>1. h \in Heights /\ h > top /\ h \in Height[head] + 1 .. MaxHeight
      BY <1>1, <1>3, <1>5 DEF Heights
    <3> QED BY <3>1, <1>2, <1>3 DEF IsChain
  <2>5. w.headKey \in w.known
    BY <1>1, <1>2
  <2> QED BY <2>1, <2>2, <2>3, <2>4, <2>5, <1>2 DEF IsChain, top
<1>8. \A h \in 0 .. top : w.index[h] \in Valid
  <2> TAKE h \in 0 .. top
  <2>1. CASE h < low
    <3>1. h \in 0 .. Height[head]
      BY <2>1, <1>1, <1>2, <1>3
    <3> QED BY <3>1, <2>1, <1>2, <1>3, <1>6
  <2>2. CASE ~(h < low)
    <3>1. low <= h /\ h <= top /\ h - low + 1 \in 1 .. n
      BY <2>2, <1>1, <1>2
    <3> QED BY <3>1, <1>2, <1>4, <1>6
  <2> QED BY <2>1, <2>2
<1>9. cur \in Valid
  BY <1>1, <1>4
<1> QED BY <1>1, <1>2, <1>7, <1>8, <1>9 DEF ChainOK, w, top

-----------------------------------------------------------------------------
(* Sound: the replay. *)

\* Replaying the canonical chain never fails, and the ledger a branch block is
\* executed on is its parent's.
LEMMA ReplayParent ==
    ASSUME Always, Sound, pc = "replay", ~ReplayDone
    PROVE  /\ NextBlock \in Blocks
           /\ Parent[NextBlock] = LastBlock
           /\ LastBlock \in Valid
           /\ Verified(NextBlock)
           /\ cursor <= ForkHeight => NextBlock \in Valid
           /\ cursor > ForkHeight =>
                /\ cursor - ForkHeight \in 1 .. Len(branch)
                /\ NextBlock = branch[cursor - ForkHeight]
           /\ replayed = StateRoot[LastBlock]
<1>1. /\ ForkHeight \in Nat
      /\ Len(branch) \in Nat
      /\ cursor \in Nat /\ cursor >= 1
      /\ cursor <= ForkHeight + Len(branch)
      /\ replayed = StateRoot[LastBlock]
      /\ head \in Blocks
      /\ Height[head] \in Nat
      /\ branch = <<>> => Len(branch) = 0
  BY ReplayFacts, BlocksAssumption DEF ReplayDone, Always, ReplayOK, Heights
<1>2. /\ IsChain(store) /\ head = store.headKey
      /\ ForkHeight <= Height[head]
      /\ \A h \in 0 .. Height[head] : store.index[h] \in Valid
  <2>1. CASE branch = <<>>
    <3>1. ForkHeight = Height[head] /\ head = store.headKey /\ head # NoBlock
      BY <2>1, <1>1, BlocksAssumption DEF ForkHeight, Always, ReplayOK
    <3> QED BY <3>1, <1>1 DEF Sound, ChainOK
  <2>2. CASE branch # <<>>
    BY <2>2, TrunkIsCanonical
  <2> QED BY <2>1, <2>2
<1>3. /\ \A h \in 1 .. Height[head] : Parent[store.index[h]] = store.index[h - 1]
      /\ store.index[0] = Genesis
  BY <1>2 DEF IsChain
<1>4. ASSUME cursor <= ForkHeight + 1
      PROVE  LastBlock = store.index[cursor - 1] /\ LastBlock \in Valid
  <2>1. cursor - 1 \in 0 .. Height[head]
    BY <1>1, <1>2, <1>4
  <2>2. LastBlock = store.index[cursor - 1]
    BY <1>1, <1>3, <1>4 DEF LastBlock
  <2> QED BY <2>1, <2>2, <1>2
<1>5. CASE cursor <= ForkHeight
  <2>1. NextBlock = store.index[cursor]
    BY <1>5 DEF NextBlock
  <2>2. cursor \in 1 .. Height[head] /\ cursor \in 0 .. Height[head]
    BY <1>1, <1>2, <1>5
  <2>3. NextBlock \in Valid /\ Parent[NextBlock] = LastBlock /\ LastBlock \in Valid
    BY <2>1, <2>2, <1>1, <1>2, <1>3, <1>4, <1>5
  <2>4. NextBlock \in Blocks /\ NextBlock # Genesis
    BY <2>3, ValidAssumption, BlocksAssumption
  <2>5. Verified(NextBlock)
    BY <2>3, <2>4, ValidParent
  <2> QED BY <2>3, <2>4, <2>5, <1>1, <1>5
<1>6. CASE cursor > ForkHeight
  <2> DEFINE i == cursor - ForkHeight
  <2>1. /\ i \in 1 .. Len(branch)
        /\ branch # <<>>
        /\ NextBlock = branch[i]
    BY <1>1, <1>6 DEF NextBlock
  <2>2. /\ \A j \in 1 .. Len(branch) : branch[j] \in store.known
        /\ \A j \in 1 .. Len(branch) - 1 : Parent[branch[j + 1]] = branch[j]
        /\ \A j \in 1 .. Len(branch) : j < i => branch[j] \in Valid
        /\ \A j \in 1 .. Len(branch) :
              Height[branch[j]] = Height[cur] - Len(branch) + j
        /\ Height[branch[1]] > 0
        /\ Height[cur] \in Nat
    <3>1. \A j \in 1 .. Len(branch) : j < i => branch[j] \in Valid
      BY <2>1 DEF Sound, ReplayIsValid
    <3>2. cur \in Blocks /\ Height[cur] \in Nat
      BY <2>1, BlocksAssumption DEF Always, BranchOK, TypeOK, Image, Heights
    <3> QED BY <2>1, <3>1, <3>2 DEF Always, BranchOK
  <2>3. NextBlock \in store.known /\ NextBlock \in Blocks
    BY <2>1, <2>2 DEF Always, TypeOK, Image
  <2>4. NextBlock # Genesis
    <3>1. Height[branch[1]] = Height[cur] - Len(branch) + 1
      <4>1. 1 \in 1 .. Len(branch)
        BY <2>1, <1>1
      <4> QED BY <4>1, <2>2
    <3>2. Height[branch[i]] >= Height[branch[1]]
      <4>1. Height[branch[i]] = Height[cur] - Len(branch) + i
        BY <2>1, <2>2
      <4>2. i \in Nat /\ i >= 1 /\ Height[cur] \in Nat /\ Len(branch) \in Nat
        BY <2>1, <2>2, <1>1
      <4> HIDE DEF i
      <4> QED BY <3>1, <4>1, <4>2
    <3> QED BY <3>2, <2>1, <2>2, <2>3, BlocksAssumption DEF Heights
  <2>5. Verified(NextBlock)
    BY <2>3, <2>4 DEF Always, ImageOK, KnownIsClosed
  <2>6. Parent[NextBlock] = LastBlock /\ LastBlock \in Valid
    <3>1. CASE i = 1
      <4>1. LastBlock = store.index[ForkHeight] /\ LastBlock \in Valid
        BY <3>1, <1>1, <1>4
      <4>2. store.index[ForkHeight] = Parent[branch[1]]
        BY <2>1, TrunkIsCanonical
      <4> QED BY <4>1, <4>2, <3>1, <2>1
    <3>2. CASE i # 1
      <4>1. i - 1 \in 1 .. Len(branch) - 1 /\ i - 1 \in 1 .. Len(branch)
            /\ i - 1 < i /\ (i - 1) + 1 = i
        BY <3>2, <2>1, <1>1
      <4>2. LastBlock = branch[i - 1]
        BY <4>1, <3>2, <2>1, <1>1, <1>6 DEF LastBlock
      <4> QED BY <4>1, <4>2, <2>1, <2>2
    <3> QED BY <3>1, <3>2
  <2> QED BY <2>1, <2>3, <2>5, <2>6, <1>1, <1>6
<1> QED BY <1>1, <1>5, <1>6

\* The next block of a replay executes exactly when it is valid.
LEMMA ReplayDecides ==
    ASSUME Always, Sound, pc = "replay", ~ReplayDone
    PROVE  NextExecutes <=> NextBlock \in Valid
<1>1. /\ NextBlock \in Blocks
      /\ Parent[NextBlock] \in Valid
      /\ Verified(NextBlock)
      /\ replayed = StateRoot[Parent[NextBlock]]
  BY ReplayParent
<1> QED BY <1>1, ChildValid, BlocksAssumption DEF NextExecutes

\* So a branch whose replay fails has an invalid tip, and a start never fails.
LEMMA ReplayRefutes ==
    ASSUME Always, Sound, pc = "replay", ~ReplayDone, ~NextExecutes
    PROVE  branch # <<>> /\ cur \notin Valid
<1>1. NextBlock \notin Valid
  BY ReplayDecides
<1>2. /\ cursor - ForkHeight \in 1 .. Len(branch)
      /\ NextBlock = branch[cursor - ForkHeight]
  BY <1>1, ReplayParent, ReplayFacts
<1>3. branch # <<>>
  <2>1. branch = <<>> => Len(branch) = 0
    OBVIOUS
  <2> QED BY <2>1, <1>2, ReplayFacts
<1> QED BY <1>1, <1>2, <1>3 DEF Sound, BranchIsValid

-----------------------------------------------------------------------------
(* Sound: the steps. *)

LEMMA FaultlessInit == Init => Faultless
<1> SUFFICES ASSUME Init PROVE Sound
  BY DEF Faultless
<1>1. ChainOK(store)
  BY DEF Init, ChainOK, EmptyImage
<1> QED BY <1>1
        DEF Init, Sound, InStep, BranchIsValid, ReplayIsValid, NoError,
            BestSoFar, EmptyImage

\* A state between two imports is sound once its head is the best.
LEMMA IdleSound ==
    ASSUME ChainOK(store)', (store = disk)', (store.headKey = head)',
           pc' = "idle", branch' = <<>>, NoError',
           crashes' = 0 => (\A b \in store.known \cap Valid : ~Better(b, head))'
    PROVE  Sound'
BY DEF Sound, InStep, BranchIsValid, ReplayIsValid, BestSoFar, InFlight

LEMMA SoundOpen == Always /\ Sound /\ Open /\ faults' = 0 => Sound'
<1> SUFFICES ASSUME Always, Sound, Open, faults' = 0 PROVE Sound'
  OBVIOUS
<1>1. CASE OpenEmpty
  <2> USE <1>1 DEF OpenEmpty, Persist, StartReplay
  <2> DEFINE w == WithBlock(Genesis)
  <2>1. /\ ChainOK(w)
        /\ w.headKey = Genesis
        /\ w.known = {Genesis}
        /\ Genesis \in Blocks
    BY ChainGenesis, WithBlockFields, BlocksAssumption
    DEF Always, TypeOK, Sound, ChainOK
  <2>2. ~Better(Genesis, Genesis)
    BY <2>1, BetterOrder
  <2> HIDE DEF w
  <2>3. store' = w /\ disk' = w
    BY DEF w
  <2>4. ChainOK(store)' /\ InStep' /\ BranchIsValid' /\ ReplayIsValid' /\ NoError'
    BY <2>1, <2>3 DEF InStep, BranchIsValid, ReplayIsValid, NoError
  <2>5. BestSoFar'
    BY <2>1, <2>2, <2>3 DEF BestSoFar
  <2> QED BY <2>4, <2>5 DEF Sound
<1>2. CASE OpenEmptyFails
  BY <1>2 DEF OpenEmptyFails, Always, TypeOK
<1>3. CASE OpenStored
  <2> USE <1>3 DEF OpenStored, StartReplay
  <2>1. store.headKey # NoBlock
    BY BlocksAssumption DEF Always, TypeOK, Image
  <2>2. ChainOK(store)' /\ InStep' /\ BranchIsValid' /\ ReplayIsValid' /\ NoError'
    BY DEF Sound, InStep, BranchIsValid, ReplayIsValid, NoError
  <2>3. BestSoFar'
    BY <2>1 DEF Sound, BestSoFar
  <2> QED BY <2>2, <2>3 DEF Sound
<1> QED BY <1>1, <1>2, <1>3 DEF Open

LEMMA SoundCrash == Always /\ Sound /\ Crash => Sound'
<1> SUFFICES ASSUME Always, Sound, Crash PROVE Sound'
  OBVIOUS
<1> USE DEF Crash, Down, ClearJob
<1>1. crashes' # 0
  BY DEF Always, TypeOK
<1>2. store' = store
  BY DEF Sound, InStep
<1> QED BY <1>1, <1>2
        DEF Sound, InStep, BranchIsValid, ReplayIsValid, NoError, BestSoFar

LEMMA SoundRefuse ==
    ASSUME Always, Sound, NEW b \in Blocks, Refuse(b)
    PROVE  Sound'
<1> USE DEF Refuse, job
<1>1. NoError'
  BY DEF NoError
<1>2. BestSoFar'
  BY DEF Sound, BestSoFar, InFlight
<1> QED BY <1>1, <1>2
        DEF Sound, InStep, BranchIsValid, ReplayIsValid

LEMMA SoundBeginImport ==
    ASSUME Always, Sound, NEW b \in Blocks, BeginImport(b)
    PROVE  Sound'
<1> USE DEF BeginImport
<1>1. branch = <<>> /\ branch' = <<>>
  BY DEF Always, JobOK
<1>2. BestSoFar'
  BY <1>1 DEF Sound, BestSoFar, InFlight
<1> QED BY <1>1, <1>2
        DEF Sound, InStep, BranchIsValid, ReplayIsValid, NoError

\* A fresh child of the head that executes is valid and better than it.
LEMMA AppendFacts ==
    ASSUME Always, Sound, pc = "append"
    PROVE  /\ cur \in Valid
           /\ Better(cur, head)
           /\ Parent[cur] = head
           /\ head = store.headKey /\ store.headKey # NoBlock
           /\ Fresh(cur)
<1>1. /\ cur \in Blocks /\ Fresh(cur) /\ Parent[cur] = head
      /\ Executes(ledger, cur) /\ ledger = StateRoot[head]
      /\ head = store.headKey /\ store.headKey # NoBlock
      /\ head \in Blocks
  BY DEF Always, JobOK, LedgerOK, HeadOK, Sound, InStep, TypeOK, Image
<1>2. head \in Valid
  <2>1. Height[head] \in 0 .. Height[head] /\ store.index[Height[head]] = head
    BY <1>1, BlocksAssumption DEF Sound, ChainOK, IsChain, Heights
  <2> QED BY <2>1, <1>1 DEF Sound, ChainOK
<1>3. cur \in Valid
  BY <1>1, <1>2, ChildValid DEF Fresh
<1>4. Better(cur, head)
  BY <1>1, VerifiedHeight DEF Better, Fresh, Heights
<1> QED BY <1>1, <1>3, <1>4

LEMMA SoundAppend ==
    ASSUME Always, Sound, AppendBlock \/ AppendFails, faults' = 0
    PROVE  Sound'
<1>1. CASE AppendBlock
  <2> USE <1>1 DEF AppendBlock, Persist, Return, ClearJob
  <2> DEFINE w == WithBlock(cur)
  <2>1. /\ cur \in Valid /\ Better(cur, head) /\ cur \in Blocks
        /\ head \in Blocks
        /\ Parent[cur] = store.headKey /\ store.headKey # NoBlock
        /\ Fresh(cur)
    BY AppendFacts, ValidAssumption DEF Always, TypeOK, HeadOK, Image
  <2>2. /\ ChainOK(w)
        /\ w.known = store.known \cup {cur}
        /\ w.headKey = cur
    BY <2>1, ChainAppend, WithBlockFields DEF Always, TypeOK, Sound
  <2> HIDE DEF w
  <2>3. store' = w /\ disk' = w /\ head' = cur
    BY DEF w
  <2>4. ASSUME crashes' = 0
        PROVE  \A b \in w.known \cap Valid : ~Better(b, cur)
    <3> DEFINE S == store.known \cap Valid
    <3>1. InFlight = {} /\ crashes = 0
      BY <2>4 DEF InFlight
    <3>2. \A b \in S : ~Better(b, head)
      BY <3>1 DEF Sound, BestSoFar
    <3>3. S \in SUBSET Blocks
      BY ValidAssumption
    <3>4. \A b \in S \cup {cur} : ~Better(b, cur)
      BY <3>2, <3>3, <2>1, NewBest
    <3> QED BY <3>4, <2>2
  <2>5. NoError'
    BY DEF NoError
  <2> QED BY <2>2, <2>3, <2>4, <2>5, IdleSound
<1>2. CASE AppendFails
  BY <1>2 DEF AppendFails, PersistFails, Always, TypeOK
<1> QED BY <1>1, <1>2

LEMMA SoundStore ==
    ASSUME Always, Sound, StoreBlock \/ StoreFails, faults' = 0
    PROVE  Sound'
<1>1. CASE StoreBlock
  <2> USE <1>1 DEF StoreBlock, Persist, Return, ClearJob
  <2> DEFINE w == WithSideBlock(cur)
  <2>1. /\ cur \in Blocks /\ Fresh(cur) /\ branch = <<>>
        /\ store.headKey # NoBlock
        /\ head = store.headKey
    BY DEF Always, JobOK, HeadOK, Sound, InStep
  <2>2. /\ ChainOK(w)
        /\ w.known = store.known \cup {cur}
        /\ w.headKey = store.headKey
    BY <2>1, ChainSide, WithSideBlockOK DEF Always, TypeOK, Sound
  <2> HIDE DEF w
  <2>3. store' = w /\ disk' = w /\ head' = head /\ crashes' = crashes
    BY DEF w
  <2>4. crashes = 0 => \A b \in store.known \cap Valid : ~Better(b, head)
    BY <2>1 DEF Sound, BestSoFar, InFlight
  <2>5. CASE Outranks(cur)
    <3>1. pc' = "walk" /\ branch' = <<cur>> /\ cur' = cur /\ outcome' = outcome
      BY <2>5
    <3>2. BranchIsValid'
      BY <3>1, <2>3, <2>5 DEF BranchIsValid
    <3>3. BestSoFar'
      BY <3>1, <2>2, <2>3, <2>4 DEF BestSoFar, InFlight
    <3> QED BY <3>1, <3>2, <3>3, <2>1, <2>2, <2>3
            DEF Sound, InStep, ReplayIsValid, NoError
  <2>6. CASE ~Outranks(cur)
    <3>1. NoError'
      BY <2>6 DEF NoError
    <3>2. crashes' = 0 => \A b \in w.known \cap Valid : ~Better(b, head)
      BY <2>2, <2>3, <2>4, <2>6 DEF Outranks
    <3> QED BY <3>1, <3>2, <2>1, <2>2, <2>3, <2>6, IdleSound
  <2> QED BY <2>5, <2>6
<1>2. CASE StoreFails
  BY <1>2 DEF StoreFails, PersistFails, Always, TypeOK
<1> QED BY <1>1, <1>2

\* The parent of every branch block is stored.
LEMMA LowestHasParent ==
    ASSUME Always, branch # <<>>
    PROVE  Parent[branch[1]] \in store.known
<1>1. branch[1] \in store.known /\ branch[1] # Genesis
  BY BlocksAssumption DEF Always, BranchOK, TypeOK
<1> QED BY <1>1 DEF Always, ImageOK, KnownIsClosed

LEMMA SoundWalk ==
    ASSUME Always, Sound, WalkBack
    PROVE  Sound'
<1>1. /\ branch # <<>>
      /\ branch \in Seq(Blocks)
      /\ Parent[branch[1]] \in store.known
      /\ pc = "walk"
      /\ UNCHANGED <<store, disk, head, ledger, faults, crashes>>
  BY LowestHasParent DEF WalkBack, Always, BranchOK, TypeOK
<1>2. CASE ReachedTrunk
  <2>1. /\ pc' = "replay" /\ branch' = branch /\ cursor' = 1
        /\ cur' = cur /\ outcome' = outcome
    BY <1>1, <1>2 DEF WalkBack, StartReplay
  <2>2. ReplayIsValid'
    <3>1. ReachedTrunk'
      BY <1>1, <1>2, <2>1 DEF ReachedTrunk
    <3>2. ForkHeight' >= 0 /\ ForkHeight' \in Int
      BY <1>1, <2>1, BlocksAssumption DEF ForkHeight, Always, BranchOK, TypeOK, Heights
    <3>3. ASSUME NEW i \in 1 .. Len(branch) PROVE ~(i < 1 - ForkHeight')
      <4> DEFINE f == ForkHeight'
      <4> HIDE DEF f
      <4>1. f >= 0 /\ f \in Int
        BY <3>2 DEF f
      <4>2. ~(i < 1 - f)
        BY <4>1
      <4> QED BY <4>2 DEF f
    <3> QED BY <3>1, <3>3, <2>1 DEF ReplayIsValid
  <2>3. BestSoFar'
    BY <1>1, <2>1 DEF Sound, BestSoFar, InFlight
  <2> QED BY <1>1, <2>1, <2>2, <2>3 DEF Sound, InStep, BranchIsValid, NoError
<1>3. CASE ~ReachedTrunk
  <2>1. /\ branch' = <<Parent[branch[1]]>> \o branch
        /\ UNCHANGED <<pc, cur, cursor, replayed, outcome>>
    BY <1>1, <1>3 DEF WalkBack
  <2>2. Parent[branch[1]] \in Blocks
    BY <1>1 DEF Always, TypeOK, Image
  <2>3. /\ branch' # <<>>
        /\ Len(branch) \in Nat /\ Len(branch) >= 1
        /\ Len(branch') = Len(branch) + 1
        /\ branch'[1] = Parent[branch[1]]
        /\ \A i \in 2 .. Len(branch) + 1 : branch'[i] = branch[i - 1]
    BY <1>1, <2>1, <2>2
  <2>4. BranchIsValid'
    <3> SUFFICES ASSUME cur \in Valid, NEW i \in 1 .. Len(branch) + 1
                 PROVE  branch'[i] \in Valid
      BY <1>1, <2>1, <2>3 DEF Sound, BranchIsValid
    <3>1. \A j \in 1 .. Len(branch) : branch[j] \in Valid
      BY <1>1 DEF Sound, BranchIsValid
    <3>2. CASE i = 1
      <4>1. branch[1] \in Valid /\ branch[1] # Genesis
        BY <3>1, <1>1, <2>3, BlocksAssumption DEF Always, BranchOK
      <4> QED BY <4>1, <3>2, <2>3, ValidParent
    <3>3. CASE i # 1
      BY <3>1, <3>3, <2>3
    <3> QED BY <3>2, <3>3
  <2>5. BestSoFar'
    BY <1>1, <2>1, <2>3 DEF Sound, BestSoFar, InFlight
  <2> QED BY <1>1, <2>1, <2>4, <2>5 DEF Sound, InStep, ReplayIsValid, NoError
<1> QED BY <1>2, <1>3

LEMMA SoundReplay ==
    ASSUME Always, Sound, ReplayBlock
    PROVE  Sound'
<1>1. /\ pc = "replay" /\ pc' = "replay" /\ ~ReplayDone /\ NextExecutes
      /\ cursor' = cursor + 1
      /\ UNCHANGED <<store, disk, head, ledger, cur, branch, outcome, faults,
                     crashes>>
  BY DEF ReplayBlock
<1>2. NextBlock \in Valid
  BY <1>1, ReplayDecides
<1>3. ReplayIsValid'
  <2>1. ForkHeight' = ForkHeight
    BY <1>1 DEF ForkHeight
  <2>2. branch # <<>> => ReachedTrunk'
    BY <1>1 DEF Sound, ReplayIsValid, ReachedTrunk
  <2>3. ASSUME branch # <<>>, NEW i \in 1 .. Len(branch),
               i < cursor + 1 - ForkHeight
        PROVE  branch[i] \in Valid
    <3>1. ForkHeight \in Int /\ Len(branch) \in Nat /\ cursor \in Nat
      BY <1>1, ReplayFacts
    <3>2. CASE i < cursor - ForkHeight
      BY <3>2, <2>3, <1>1 DEF Sound, ReplayIsValid
    <3>3. CASE i = cursor - ForkHeight
      <4>1. cursor > ForkHeight
        BY <3>1, <3>3
      <4> QED BY <4>1, <3>3, <1>1, <1>2, ReplayParent
    <3> QED BY <3>1, <3>2, <3>3, <2>3
  <2>4. branch' = branch /\ cursor' = cursor + 1
    BY <1>1
  <2>5. branch' # <<>> =>
          \A i \in 1 .. Len(branch') :
            i < cursor' - ForkHeight' => branch'[i] \in Valid
    <3>1. cursor' - ForkHeight' = cursor + 1 - ForkHeight
      BY <2>1, <2>4, <1>1, ReplayFacts
    <3>2. branch # <<>> =>
            \A i \in 1 .. Len(branch) :
              i < cursor + 1 - ForkHeight => branch[i] \in Valid
      BY <2>3
    <3> QED BY <3>1, <3>2, <2>4
  <2> QED BY <2>2, <2>4, <2>5 DEF ReplayIsValid
<1>4. BestSoFar' /\ BranchIsValid' /\ InStep' /\ NoError'
  BY <1>1 DEF Sound, BestSoFar, InFlight, BranchIsValid, InStep, NoError
<1> QED BY <1>1, <1>3, <1>4 DEF Sound

LEMMA SoundReplayFails ==
    ASSUME Always, Sound, ReplayFails
    PROVE  Sound'
<1> USE DEF ReplayFails, Return, ClearJob
<1>1. cur \notin Valid
  BY ReplayRefutes
<1>2. NoError'
  BY DEF NoError
<1>3. crashes = 0 => \A b \in store.known \cap Valid : ~Better(b, head)
  BY <1>1 DEF Sound, BestSoFar, InFlight
<1>4. store.headKey = head /\ ChainOK(store) /\ store = disk
  BY DEF Sound, InStep
<1> QED BY <1>2, <1>3, <1>4, IdleSound

LEMMA SoundFinishStart ==
    ASSUME Always, Sound, FinishStart
    PROVE  Sound'
<1> USE DEF FinishStart, Return, ClearJob
<1>1. NoError'
  BY DEF NoError
<1>2. crashes = 0 => \A b \in store.known \cap Valid : ~Better(b, head)
  BY DEF Sound, BestSoFar, InFlight
<1>3. store.headKey = head /\ ChainOK(store) /\ store = disk
  BY DEF Sound, InStep
<1> QED BY <1>1, <1>2, <1>3, IdleSound

LEMMA SoundAdopt ==
    ASSUME Always, Sound, AdoptBranch \/ AdoptFails, faults' = 0
    PROVE  Sound'
<1>1. CASE AdoptBranch
  <2> USE <1>1 DEF AdoptBranch, Persist, Return, ClearJob
  <2> DEFINE w == WithBranch(branch, head)
  <2>1. ChainOK(w) /\ cur \in Valid
    BY ChainAdopt
  <2>2. /\ w.known = store.known
        /\ w.headKey = cur
        /\ branch[Len(branch)] = cur
        /\ cur \in Blocks /\ head \in Blocks
        /\ Better(cur, head)
    BY WithBranchFields
    DEF Always, BranchOK, TypeOK, Image, HeadOK
  <2> HIDE DEF w
  <2>3. store' = w /\ disk' = w /\ head' = cur
    BY <2>2 DEF w
  <2>4. ASSUME crashes' = 0
        PROVE  \A b \in w.known \cap Valid : ~Better(b, cur)
    <3> DEFINE S == (store.known \ {cur}) \cap Valid
    <3>1. InFlight = {cur} /\ crashes = 0
      BY <2>4 DEF InFlight
    <3>2. \A b \in S : ~Better(b, head)
      BY <3>1 DEF Sound, BestSoFar
    <3>3. S \in SUBSET Blocks
      BY ValidAssumption
    <3>4. \A b \in S \cup {cur} : ~Better(b, cur)
      BY <3>2, <3>3, <2>2, NewBest
    <3> QED BY <3>4, <2>2
  <2>5. NoError'
    BY DEF NoError
  <2> QED BY <2>1, <2>2, <2>3, <2>4, <2>5, IdleSound
<1>2. CASE AdoptFails
  BY <1>2 DEF AdoptFails, PersistFails, Always, TypeOK
<1> QED BY <1>1, <1>2

LEMMA FaultlessNext == Always /\ Faultless /\ [Next]_vars => Faultless'
<1> SUFFICES ASSUME Always, Faultless, [Next]_vars, faults' = 0
             PROVE  Sound'
  BY DEF Faultless
<1>1. CASE UNCHANGED vars
  BY <1>1 DEF vars, job, Faultless, Sound, ChainOK, InStep, BranchIsValid,
     ReplayIsValid, ReachedTrunk, ForkHeight, NoError, BestSoFar, InFlight
<1>2. CASE Next
  <2>1. faults = 0
    <3>1. faults' = faults \/ faults' = faults + 1
      BY <1>2 DEF Next, Open, OpenEmpty, OpenEmptyFails, OpenStored, Crash, Proceed,
         Refuse, BeginImport, AppendBlock, AppendFails, StoreBlock, StoreFails,
         WalkBack, ReplayBlock, ReplayFails, AdoptBranch, AdoptFails, StartFails,
         FinishStart, Persist, PersistFails
    <3> QED BY <3>1 DEF Always, TypeOK
  <2>2. Sound
    BY <2>1 DEF Faultless
  <2>3. ~StartFails
    BY <2>2, ReplayRefutes DEF StartFails
  <2> QED
    BY <1>2, <2>2, <2>3, SoundOpen, SoundCrash, SoundRefuse, SoundBeginImport,
       SoundAppend, SoundStore, SoundWalk, SoundReplay, SoundReplayFails,
       SoundFinishStart, SoundAdopt
    DEF Next, Proceed
<1> QED BY <1>1, <1>2

\* The inductive invariant of the chain manager.
THEOREM Invariant == Spec => []IndInv
<1>1. Init => IndInv
  BY AlwaysInit, FaultlessInit DEF IndInv
<1>2. IndInv /\ [Next]_vars => IndInv'
  BY AlwaysNext, FaultlessNext DEF IndInv
<1> QED BY <1>1, <1>2, PTL DEF Spec

-----------------------------------------------------------------------------
(* Safety. *)

LEMMA RunningHead ==
    ASSUME IndInv, faults = 0, head # NoBlock
    PROVE  Sound /\ head = store.headKey
BY DEF IndInv, Faultless, Always, HeadOK, Sound, InStep

\* Until a write fails the index describes one whole chain from genesis to the
\* head, in memory and in the file, wherever the process stops (appendBlock,
\* adoptBranch).
THEOREM ChainStaysWhole == Spec => []ChainIsWhole
<1>1. IndInv => ChainIsWhole
  <2> SUFFICES ASSUME IndInv, faults = 0
               PROVE  /\ disk.headKey # NoBlock => IsChain(disk)
                      /\ store.headKey # NoBlock => IsChain(store)
                      /\ head # NoBlock => store.headKey = head
    BY DEF ChainIsWhole
  <2>1. ChainOK(store) /\ store = disk
    BY DEF IndInv, Faultless, Sound, InStep
  <2> QED BY <2>1, RunningHead DEF ChainOK
<1> QED BY <1>1, Invariant, PTL

\* Every elected head is valid, although side blocks are stored unexecuted
\* (importLocked, reorgLocked, replayBranch).
THEOREM HeadStaysValid == Spec => []HeadIsValid
<1>1. IndInv => HeadIsValid
  <2> SUFFICES ASSUME IndInv, faults = 0, head # NoBlock PROVE head \in Valid
    BY DEF HeadIsValid
  <2>1. /\ ChainOK(store) /\ head = store.headKey /\ store.headKey # NoBlock
        /\ head \in Blocks
    BY RunningHead DEF Sound, IndInv, Always, TypeOK
  <2>2. Height[head] \in 0 .. Height[head] /\ store.index[Height[head]] = head
    BY <2>1, BlocksAssumption DEF ChainOK, IsChain, Heights
  <2> QED BY <2>1, <2>2 DEF ChainOK
<1> QED BY <1>1, Invariant, PTL

\* In a process that has neither stopped nor failed to write, the head is the
\* best of the stored valid blocks between any two imports.
THEOREM HeadStaysBest == Spec => []HeadIsBest
<1>1. IndInv => HeadIsBest
  <2> SUFFICES ASSUME IndInv, pc = "idle", faults = 0, crashes = 0
               PROVE  \A b \in store.known \cap Valid : ~Better(b, head)
    BY DEF HeadIsBest
  <2>1. InFlight = {} /\ Sound
    BY DEF IndInv, Faultless, InFlight
  <2> QED BY <2>1 DEF Sound, BestSoFar
<1> QED BY <1>1, Invariant, PTL

\* Until a write fails nothing is missing from the store: no start fails and no
\* reorganisation ends with an error.
THEOREM NothingGoesMissing == Spec => []NothingIsMissing
<1>1. IndInv => NothingIsMissing
  BY DEF IndInv, Faultless, Sound, NoError, NothingIsMissing
<1> QED BY <1>1, Invariant, PTL

\* Even when writes fail, an import only ever replaces the head by a better one
\* (a child, or the tip of a branch that compare put above it).
THEOREM HeadOnlyImproves == Spec => HeadImproves
<1> DEFINE Improves == head' # head /\ head # NoBlock /\ head' # NoBlock =>
                           Better(head', head)
<1>1. Always /\ [Next]_vars => Improves
  <2> SUFFICES ASSUME Always, Next, head' # head, head # NoBlock,
                      head' # NoBlock
               PROVE  Better(head', head)
    BY DEF vars
  <2>1. CASE AppendBlock
    <3>1. /\ head' = cur /\ Parent[cur] = head /\ Verified(cur)
          /\ cur \in Blocks /\ head \in Blocks
      BY <2>1 DEF AppendBlock, Always, JobOK, Fresh, TypeOK
    <3> QED BY <3>1, VerifiedHeight DEF Better, Heights
  <2>2. CASE AdoptBranch
    BY <2>2 DEF AdoptBranch, Always, BranchOK
  <2>3. CASE Open
    BY <2>3 DEF Open, OpenEmpty, OpenEmptyFails, OpenStored, Always, HeadOK
  <2> QED BY <2>1, <2>2, <2>3
          DEF Next, Proceed, Crash, Down, Refuse, BeginImport, AppendFails,
              StoreBlock, StoreFails, WalkBack, ReplayBlock, ReplayFails,
              StartFails, FinishStart, AdoptFails
<1>2. Spec => [][Improves]_vars
  BY <1>1, AlwaysInvariant, PTL DEF Spec
<1> QED BY <1>2 DEF HeadImproves

-----------------------------------------------------------------------------
(* The refinement of ForkChoice, one lemma per way a step maps. *)

acceptedNow == store.known \ InFlight
tipNow == disk.headKey

\* A step that changes neither the decided blocks nor the head of the file.
Stutters == UNCHANGED <<acceptedNow, tipNow>>

LEMMA IdleInFlight == branch = <<>> => InFlight = {}
BY DEF InFlight

LEMMA DecidedIsAcceptable ==
    ASSUME Always, Sound, branch # <<>>, pc \in {"walk", "replay"}
    PROVE  /\ FC!Acceptable(cur)
           /\ cur \in Blocks
           /\ acceptedNow \cup {cur} = store.known
           /\ head = tipNow
           /\ Better(cur, head)
<1>1. /\ InFlight = {cur}
      /\ cur \in store.known /\ cur \in Blocks
      /\ Parent[cur] # head /\ Better(cur, head)
      /\ head \in Blocks
  BY DEF InFlight, Always, BranchOK, TypeOK, HeadOK, Image
<1>2. head = tipNow /\ head # NoBlock
  BY <1>1, BlocksAssumption DEF Sound, InStep, tipNow
<1>3. cur # Genesis
  <2> DEFINE n == Len(branch)
             low == Height[branch[1]]
             top == Height[cur]
  <2>1. n \in Nat /\ n >= 1 /\ low > 0 /\ low = top - n + 1 /\ top \in Int
    BY <1>1, BetterOrder DEF Always, TypeOK, BranchOK
  <2>2. top > 0
    <3> HIDE DEF n, low, top
    <3> QED BY <2>1
  <2> QED BY <2>2, BlocksAssumption
<1>4. Parent[cur] \in store.known /\ Verified(cur)
  BY <1>1, <1>3 DEF Always, ImageOK, KnownIsClosed
<1>5. Parent[cur] # cur /\ Parent[cur] \in Blocks
  BY <1>1, <1>4, VerifiedHeight DEF Always, TypeOK, Image
<1>6. FC!Acceptable(cur)
  BY <1>1, <1>2, <1>4, <1>5 DEF FC!Acceptable, FC!Verified, Verified, tipNow
<1> QED BY <1>1, <1>2, <1>6 DEF acceptedNow

\* The first start.
LEMMA OpenMaps ==
    ASSUME Always, Sound, Open, faults' = 0
    PROVE  FC!Start \/ Stutters
<1>1. pc = "down" /\ branch = <<>> /\ branch' = <<>>
  BY DEF Always, JobOK, Open, OpenEmpty, OpenEmptyFails, OpenStored, StartReplay,
         job
<1>2. InFlight = {} /\ InFlight' = {}
  BY <1>1 DEF InFlight
<1>3. CASE OpenEmpty
  <2>1. /\ store.known = {} /\ store.headKey = NoBlock /\ disk = store
        /\ store' = WithBlock(Genesis) /\ disk' = WithBlock(Genesis)
    BY <1>3 DEF OpenEmpty, Persist, Sound, ChainOK, InStep
  <2>2. WithBlock(Genesis).known = {Genesis} /\ WithBlock(Genesis).headKey = Genesis
    BY <2>1, WithBlockFields, BlocksAssumption
  <2> QED BY <1>2, <2>1, <2>2 DEF FC!Start
<1>4. CASE OpenEmptyFails
  BY <1>4 DEF OpenEmptyFails, Always, TypeOK
<1>5. CASE OpenStored
  BY <1>2, <1>5 DEF OpenStored, Stutters, acceptedNow, tipNow
<1> QED BY <1>3, <1>4, <1>5 DEF Open

\* The decision of an import that ran to its end.
LEMMA DecidedMaps ==
    ASSUME Always, Sound, faults' = 0,
           AppendBlock \/ StoreBlock \/ AdoptBranch \/ ReplayFails
    PROVE  (FC!Accept(cur) /\ cur \in Blocks) \/ Stutters
<1>1. /\ head = store.headKey /\ store = disk /\ store.headKey # NoBlock
      /\ head \in Blocks /\ head \in store.known
      /\ ~(NoBlock \in Blocks)
  BY BlocksAssumption
  DEF AppendBlock, StoreBlock, AdoptBranch, ReplayFails, Sound, InStep, Always,
      HeadOK, TypeOK, Image
<1>2. CASE AppendBlock
  <2>1. /\ cur \in Valid /\ Better(cur, head) /\ Parent[cur] = head
        /\ Fresh(cur) /\ cur \in Blocks
    BY <1>2, AppendFacts, ValidAssumption DEF AppendBlock
  <2>2. branch = <<>> /\ branch' = <<>>
    BY <1>2 DEF Always, JobOK, AppendBlock, Return, ClearJob
  <2>3. InFlight = {} /\ InFlight' = {}
    BY <2>2 DEF InFlight
  <2>4. /\ store'.known = store.known \cup {cur}
        /\ disk'.headKey = cur
    BY <1>2, <2>1, WithBlockFields DEF AppendBlock, Persist
  <2>5. FC!Acceptable(cur)
    BY <1>1, <2>1, <2>3 DEF FC!Acceptable, FC!Verified, Verified, Fresh
  <2>6. FC!Elected(cur) = cur
    BY <1>1, <2>1 DEF FC!Elected, FC!Better, Better
  <2> QED BY <2>1, <2>3, <2>4, <2>5, <2>6 DEF FC!Accept
<1>3. CASE StoreBlock
  <2>1. /\ Fresh(cur) /\ cur \in Blocks /\ Parent[cur] # head
        /\ branch = <<>>
    BY <1>3 DEF StoreBlock, Always, JobOK
  <2>2. InFlight = {}
    BY <2>1 DEF InFlight
  <2>3. /\ store'.known = store.known \cup {cur}
        /\ disk'.headKey = disk.headKey
    BY <1>1, <1>3, <2>1, WithSideBlockOK
    DEF StoreBlock, Persist, Always, TypeOK
  <2>4. CASE Outranks(cur)
    <3>1. pc' = "walk" /\ branch' = <<cur>> /\ cur' = cur
      BY <1>3, <2>4 DEF StoreBlock
    <3>2. InFlight' = {cur}
      BY <3>1 DEF InFlight
    <3> QED BY <2>1, <2>2, <2>3, <3>2 DEF Stutters, acceptedNow, tipNow, Fresh
  <2>5. CASE ~Outranks(cur)
    <3>1. InFlight' = {}
      BY <1>3, <2>5 DEF StoreBlock, Return, ClearJob, InFlight
    <3>2. FC!Acceptable(cur)
      BY <1>1, <2>1, <2>2 DEF FC!Acceptable, FC!Verified, Verified, Fresh
    <3>3. FC!Elected(cur) = disk.headKey
      BY <1>1, <2>5 DEF FC!Elected, FC!Better, Better, Outranks
    <3> QED BY <2>1, <2>2, <2>3, <3>1, <3>2, <3>3 DEF FC!Accept
  <2> QED BY <2>4, <2>5
<1>4. CASE AdoptBranch
  <2>1. /\ branch # <<>> /\ pc = "replay" /\ cur \in Valid
    BY <1>4, ChainAdopt DEF AdoptBranch
  <2>2. /\ FC!Acceptable(cur) /\ cur \in Blocks
        /\ acceptedNow \cup {cur} = store.known
        /\ Better(cur, head)
    BY <2>1, DecidedIsAcceptable
  <2>3. /\ WithBranch(branch, head).known = store.known
        /\ WithBranch(branch, head).headKey = cur
    BY <2>1, WithBranchFields DEF Always
  <2>4. store'.known = store.known /\ disk'.headKey = cur /\ InFlight' = {}
    BY <1>4, <2>3 DEF AdoptBranch, Persist, Return, ClearJob, InFlight
  <2>5. FC!Elected(cur) = cur
    BY <1>1, <2>1, <2>2 DEF FC!Elected, FC!Better, Better
  <2> QED BY <2>2, <2>4, <2>5 DEF FC!Accept, acceptedNow
<1>5. CASE ReplayFails
  <2>1. branch # <<>> /\ pc = "replay" /\ cur \notin Valid
    BY <1>5, ReplayRefutes DEF ReplayFails
  <2>2. /\ FC!Acceptable(cur) /\ cur \in Blocks
        /\ acceptedNow \cup {cur} = store.known
    BY <2>1, DecidedIsAcceptable
  <2>3. store' = store /\ disk' = disk /\ InFlight' = {}
    BY <1>5 DEF ReplayFails, Return, ClearJob, InFlight
  <2>4. FC!Elected(cur) = disk.headKey
    BY <2>1 DEF FC!Elected
  <2> QED BY <2>2, <2>3, <2>4 DEF FC!Accept, acceptedNow
<1> QED BY <1>2, <1>3, <1>4, <1>5

\* A stop in the middle of a reorganisation leaves the block unweighed.
LEMMA CrashMaps ==
    ASSUME Always, Sound, Crash
    PROVE  (FC!AcceptUnweighed(cur) /\ cur \in Blocks) \/ Stutters
<1>1. /\ store' = store /\ disk' = disk /\ InFlight' = {}
  BY DEF Crash, Down, ClearJob, InFlight, Sound, InStep
<1>2. CASE InFlight = {}
  BY <1>1, <1>2 DEF Stutters, acceptedNow, tipNow
<1>3. CASE InFlight # {}
  <2>1. branch # <<>> /\ pc \in {"walk", "replay"}
    BY <1>3 DEF InFlight
  <2> QED BY <2>1, <1>1, DecidedIsAcceptable DEF FC!AcceptUnweighed, acceptedNow
<1> QED BY <1>2, <1>3

\* The other steps change nothing that ForkChoice sees.
LEMMA HiddenMaps ==
    ASSUME Always, Sound,
           \/ \E b \in Blocks : Refuse(b) \/ BeginImport(b)
           \/ WalkBack \/ ReplayBlock \/ FinishStart
    PROVE  Stutters
<1>1. store' = store /\ disk' = disk
  BY DEF Refuse, BeginImport, WalkBack, ReplayBlock, FinishStart
<1>2. CASE \E b \in Blocks : Refuse(b) \/ BeginImport(b)
  <2>1. branch = <<>> /\ branch' = <<>>
    BY <1>2 DEF Refuse, BeginImport, Always, JobOK, job
  <2> QED BY <1>1, <2>1 DEF InFlight, Stutters, acceptedNow, tipNow
<1>3. CASE WalkBack
  <2>1. branch # <<>> /\ pc = "walk" /\ cur' = cur
    BY <1>3, LowestHasParent DEF WalkBack, Always, BranchOK
  <2>2. pc' \in {"walk", "replay"} /\ branch' # <<>>
    <3>1. Parent[branch[1]] \in store.known
      BY <2>1, LowestHasParent
    <3>2. CASE ReachedTrunk
      BY <1>3, <2>1, <3>1, <3>2 DEF WalkBack, StartReplay
    <3>3. CASE ~ReachedTrunk
      <4>1. branch' = <<Parent[branch[1]]>> \o branch /\ pc' = "walk"
        BY <1>3, <2>1, <3>1, <3>3 DEF WalkBack
      <4>2. branch \in Seq(Blocks) /\ Parent[branch[1]] \in Blocks
        BY <3>1 DEF Always, TypeOK, Image
      <4> QED BY <4>1, <4>2
    <3> QED BY <3>2, <3>3
  <2> QED BY <1>1, <2>1, <2>2 DEF InFlight, Stutters, acceptedNow, tipNow
<1>4. CASE ReplayBlock
  BY <1>1, <1>4 DEF ReplayBlock, InFlight, Stutters, acceptedNow, tipNow
<1>5. CASE FinishStart
  BY <1>1, <1>5
  DEF FinishStart, Return, ClearJob, InFlight, Stutters, acceptedNow, tipNow
<1> QED BY <1>2, <1>3, <1>4, <1>5

\* Every step of a manager whose writes succeed is a step of ForkChoice.
LEMMA StepMaps ==
    ASSUME IndInv, [Next]_vars, faults = 0, faults' = 0
    PROVE  /\ [FC!CrashNext]_(FC!vars)
           /\ crashes' = crashes => [FC!Next]_(FC!vars)
<1> USE DEF IndInv
<1>1. Always /\ Sound
  BY DEF Faultless
<1>2. Stutters => UNCHANGED FC!vars
  BY DEF Stutters, acceptedNow, tipNow, FC!vars
<1>3. CASE UNCHANGED vars
  <2>1. Stutters
    BY <1>3 DEF vars, job, Stutters, acceptedNow, tipNow, InFlight
  <2> QED BY <1>2, <2>1
<1>4. CASE Open
  BY <1>1, <1>2, <1>4, OpenMaps DEF FC!CrashNext, FC!Next
<1>5. CASE Crash
  <2>1. crashes' # crashes
    BY <1>1, <1>5 DEF Crash, Always, TypeOK
  <2> QED BY <1>1, <1>2, <1>5, <2>1, CrashMaps DEF FC!CrashNext
<1>6. CASE Proceed
  <2>1. ~StartFails
    BY <1>1, ReplayRefutes DEF StartFails
  <2>2. ~AppendFails /\ ~StoreFails /\ ~AdoptFails
    BY <1>1 DEF AppendFails, StoreFails, AdoptFails, PersistFails, Always, TypeOK
  <2>3. CASE AppendBlock \/ StoreBlock \/ AdoptBranch \/ ReplayFails
    BY <1>1, <1>2, <2>3, DecidedMaps DEF FC!CrashNext, FC!Next
  <2>4. CASE WalkBack \/ ReplayBlock \/ FinishStart
    BY <1>1, <1>2, <2>4, HiddenMaps
  <2> QED BY <1>6, <2>1, <2>2, <2>3, <2>4 DEF Proceed
<1>7. CASE \E b \in Blocks : Refuse(b) \/ BeginImport(b)
  BY <1>1, <1>2, <1>7, HiddenMaps
<1> QED BY <1>3, <1>4, <1>5, <1>6, <1>7 DEF Next

LEMMA FaultsCount ==
    ASSUME [Next]_vars
    PROVE  faults' = faults \/ faults' = faults + 1
BY DEF Next, Open, OpenEmpty, OpenEmptyFails, OpenStored, Crash, Proceed, Refuse,
       BeginImport, AppendBlock, AppendFails, StoreBlock, StoreFails, WalkBack,
       ReplayBlock, ReplayFails, AdoptBranch, AdoptFails, StartFails, FinishStart,
       Persist, PersistFails, vars

LEMMA InitMaps == Init => FC!Init
BY DEF Init, FC!Init, EmptyImage

\* Until a write fails, and wherever the process stops, the manager implements
\* the election that may leave a stored block unweighed.
THEOREM ManagerElectsDespiteCrashes == Spec => ElectsBestDespiteCrashes
<1>1. IndInv /\ [Next]_vars =>
        [faults = 0 /\ faults' = 0 => FC!CrashNext]_(FC!vars)
  BY StepMaps
<1> QED BY <1>1, InitMaps, Invariant, PTL DEF Spec, ElectsBestDespiteCrashes

\* Until a write fails, a running process implements the atomic election of the
\* best accepted valid block.
THEOREM ManagerElectsBest == Spec => ElectsBest
<1>1. IndInv /\ [Next]_vars =>
        [faults' = 0 /\ crashes' = crashes => FC!Next]_(FC!vars)
  <2> SUFFICES ASSUME IndInv, [Next]_vars, faults' = 0, crashes' = crashes
               PROVE  [FC!Next]_(FC!vars)
    OBVIOUS
  <2>1. faults' = faults \/ faults' = faults + 1
    BY FaultsCount
  <2>2. faults \in Nat
    BY BoundsAssumption DEF IndInv, Always, TypeOK
  <2>3. faults = 0
    BY <2>1, <2>2
  <2> QED BY <2>3, StepMaps
<1> QED BY <1>1, InitMaps, Invariant, PTL DEF Spec, ElectsBest

\* A manager without failed writes and stops implements ForkChoice.
THEOREM ManagerImplementsForkChoice ==
    ASSUME MaxFaults = 0, MaxCrashes = 0 PROVE Spec => FC!Spec
<1>1. /\ IndInv => faults = 0 /\ crashes = 0
      /\ IndInv' => faults' = 0 /\ crashes' = 0
  BY BoundsAssumption DEF IndInv, Always, TypeOK
<1>2. IndInv /\ IndInv' /\ [Next]_vars => [FC!Next]_(FC!vars)
  BY <1>1, StepMaps
<1> QED BY <1>2, InitMaps, Invariant, PTL DEF Spec, FC!Spec

-----------------------------------------------------------------------------
(* What ForkChoice promises. *)

\* Its blocks are the manager's.
LEMMA SameBlocks ==
    /\ \A a, b : FC!Better(a, b) <=> Better(a, b)
    /\ FC!Heights = Heights
BY DEF FC!Better, Better, FC!Heights, Heights

LEMMA AcceptKeepsTip ==
    ASSUME FC!TypeOK, FC!TipIsValid, NEW b \in Blocks, FC!Accept(b)
    PROVE  FC!TypeOK' /\ FC!TipIsValid'
BY BlocksAssumption
   DEF FC!TypeOK, FC!TipIsValid, FC!Accept, FC!Acceptable, FC!Elected

LEMMA UnweighedKeepsTip ==
    ASSUME FC!TypeOK, FC!TipIsValid, NEW b \in Blocks, FC!AcceptUnweighed(b)
    PROVE  FC!TypeOK' /\ FC!TipIsValid'
BY DEF FC!TypeOK, FC!TipIsValid, FC!AcceptUnweighed, FC!Acceptable

LEMMA StartKeepsTip ==
    ASSUME FC!TypeOK, FC!TipIsValid, FC!Start
    PROVE  FC!TypeOK' /\ FC!TipIsValid'
BY BlocksAssumption, ValidAssumption DEF FC!TypeOK, FC!TipIsValid, FC!Start

\* The tip and the accepted blocks keep their types and the tip stays valid,
\* whatever the crashes of importLocked leave unweighed.
THEOREM TipStaysValid == FC!CrashSpec => [](FC!TypeOK /\ FC!TipIsValid)
<1> DEFINE Inv == FC!TypeOK /\ FC!TipIsValid
<1>1. FC!Init => Inv
  BY DEF FC!Init, FC!TypeOK, FC!TipIsValid
<1>2. Inv /\ [FC!CrashNext]_(FC!vars) => Inv'
  <2> SUFFICES ASSUME FC!TypeOK, FC!TipIsValid, [FC!CrashNext]_(FC!vars)
               PROVE  FC!TypeOK' /\ FC!TipIsValid'
    OBVIOUS
  <2>1. CASE FC!Start
    BY <2>1, StartKeepsTip
  <2>2. CASE \E b \in Blocks : FC!Accept(b)
    BY <2>2, AcceptKeepsTip
  <2>3. CASE \E b \in Blocks : FC!AcceptUnweighed(b)
    BY <2>3, UnweighedKeepsTip
  <2>4. CASE UNCHANGED FC!vars
    BY <2>4 DEF FC!vars, FC!TypeOK, FC!TipIsValid
  <2> QED BY <2>1, <2>2, <2>3, <2>4 DEF FC!CrashNext, FC!Next
<1> QED BY <1>1, <1>2, PTL DEF FC!CrashSpec

\* Without crashes the tip is the best accepted valid block: the election of
\* importLocked by consensus.compare, seen as one step.
THEOREM TipStaysBest == FC!Spec => []FC!TipIsBest
<1> DEFINE Inv == FC!TypeOK /\ FC!TipIsValid /\ FC!TipIsBest
<1>1. FC!Init => Inv
  BY DEF FC!Init, FC!TypeOK, FC!TipIsValid, FC!TipIsBest
<1>2. Inv /\ [FC!Next]_(FC!vars) => Inv'
  <2> SUFFICES ASSUME Inv, [FC!Next]_(FC!vars) PROVE Inv'
    OBVIOUS
  <2>1. CASE FC!Start
    <3>1. FC!TypeOK' /\ FC!TipIsValid'
      BY <2>1, StartKeepsTip
    <3>2. \A b \in acceptedNow' : b = tipNow'
      BY <2>1 DEF FC!Start, acceptedNow, tipNow
    <3>3. tipNow' \in Blocks /\ ~Better(tipNow', tipNow')
      BY <2>1, BetterOrder, BlocksAssumption DEF FC!Start, acceptedNow, tipNow
    <3> QED BY <3>1, <3>2, <3>3, SameBlocks
            DEF FC!TipIsBest, FC!TipIsValid, acceptedNow, tipNow
  <2>2. ASSUME NEW b \in Blocks, FC!Accept(b) PROVE Inv'
    <3>1. FC!TypeOK' /\ FC!TipIsValid'
      BY <2>2, AcceptKeepsTip
    <3>2. /\ tipNow \in Blocks /\ tipNow # NoBlock
          /\ acceptedNow' = acceptedNow \cup {b} /\ tipNow' = FC!Elected(b)
          /\ acceptedNow \subseteq Blocks
      BY <2>2 DEF FC!Accept, FC!Acceptable, FC!TypeOK, acceptedNow, tipNow
    <3>3. \A x \in acceptedNow \cap Valid : ~Better(x, tipNow)
      BY <3>2, SameBlocks DEF FC!TipIsBest, acceptedNow, tipNow
    <3>4. CASE b \in Valid /\ Better(b, tipNow)
      <4>1. \A x \in (acceptedNow \cap Valid) \cup {b} : ~Better(x, b)
        BY <3>2, <3>3, <3>4, NewBest
      <4> QED BY <4>1, <3>1, <3>2, <3>4, SameBlocks
              DEF FC!Elected, FC!TipIsBest, FC!TipIsValid, acceptedNow,
                  tipNow
    <3>5. CASE ~(b \in Valid /\ Better(b, tipNow))
      BY <3>1, <3>2, <3>3, <3>5, SameBlocks
         DEF FC!Elected, FC!TipIsBest, FC!TipIsValid, acceptedNow, tipNow
    <3> QED BY <3>4, <3>5
  <2>3. CASE UNCHANGED FC!vars
    BY <2>3 DEF FC!vars, FC!TypeOK, FC!TipIsValid, FC!TipIsBest
  <2> QED BY <2>1, <2>2, <2>3 DEF FC!Next
<1> QED BY <1>1, <1>2, PTL DEF FC!Spec
=============================================================================
