---------------------------- MODULE ChainManager ----------------------------
(***************************************************************************)
(* One node's chain: the key-value store and its file                      *)
(* (storage/file/FileStore.cpp), the block index and head kept in it       *)
(* (chain/kv/Blockchain.cpp), the import of a block, its reorganisation    *)
(* and the replay at start-up (chain/manager/ChainManager.cpp).            *)
(*                                                                         *)
(* importBlock runs under ChainManager::_mutex, so one import is in        *)
(* progress at a time.  It is cut into steps where the process may stop    *)
(* (around each write of the store) and at each turn of its loops; a crash *)
(* may fall between any two steps, and a write may fail.                   *)
(***************************************************************************)
EXTENDS BlockTree, Sequences

CONSTANTS
    MaxCrashes,   \* bound: times the process stops
    MaxFaults     \* bound: writes that fail

ASSUME BoundsAssumption == MaxCrashes \in Nat /\ MaxFaults \in Nat

VARIABLES
    store,      \* FileStore::_entries: the records below, in memory
    disk,       \* the store file: the same records, as last saved
    head,       \* Blockchain::_head and _headHash
    ledger,     \* ChainManager::_ledger, by its state root
    pc,         \* where the process is
    cur,        \* the block being imported
    branch,     \* reorgLocked: the branch walked so far, lowest block first
    cursor,     \* replayBranch: the next height to execute
    replayed,   \* replayBranch: the ledger rebuilt so far
    outcome,    \* what the last import, or the last start, answered
    faults,     \* writes that have failed
    crashes     \* times the process has stopped

job == <<cur, branch, cursor, replayed>>
vars == <<store, disk, head, ledger, pc, job, outcome, faults, crashes>>

\* The contents of the key-value store.
Image == [known   : SUBSET Blocks,                       \* H:<hash>, B:<hash>
          index   : [Heights -> Blocks \cup {NoBlock}],  \* N:<height>
          headKey : Blocks \cup {NoBlock}]               \* head

EmptyImage == [known |-> {}, index |-> [h \in Heights |-> NoBlock],
               headKey |-> NoBlock]

Outcomes == {"none", "started", "startFailed", "alreadyKnown", "orphaned",
             "invalid", "imported", "forked", "reorged", "error"}

-----------------------------------------------------------------------------
(* The batches Blockchain writes. *)

\* writeBlock: the block, its height and the head, in one batch.
WithBlock(b) ==
    [known   |-> store.known \cup {b},
     index   |-> [store.index EXCEPT ![Height[b]] = b],
     headKey |-> b]

\* storeBlock: the block alone.
WithSideBlock(b) == [store EXCEPT !.known = @ \cup {b}]

\* A faulty adoptBranch that indexes the tip alone.
WithBranch_TipOnly(blocks, old) == WithBlock(blocks[Len(blocks)])

\* adoptBranch: the height of every block of the branch, the erasure of the
\* heights above the tip that the old head had, the head, in one batch.
WithBranch(blocks, old) ==
    LET tip == blocks[Len(blocks)]
    IN  [known   |-> store.known,
         index   |-> [h \in Heights |->
            IF \E i \in DOMAIN blocks : Height[blocks[i]] = h
            THEN blocks[CHOOSE i \in DOMAIN blocks : Height[blocks[i]] = h]
            ELSE IF Height[tip] < h /\ h <= Height[old]
                 THEN NoBlock ELSE store.index[h]],
         headKey |-> tip]

\* FileStore::apply when save() succeeds: the file becomes the whole map.
Persist(image) ==
    /\ store' = image
    /\ disk' = image
    /\ UNCHANGED faults

\* FileStore::apply when save() fails: the map has already changed.
PersistFails(image) ==
    /\ faults < MaxFaults
    /\ faults' = faults + 1
    /\ store' = image
    /\ UNCHANGED disk

-----------------------------------------------------------------------------
(* Starting and stopping. *)

Init ==
    /\ store = EmptyImage
    /\ disk = EmptyImage
    /\ head = NoBlock
    /\ ledger = StateRoot[Genesis]
    /\ pc = "down"
    /\ cur = NoBlock
    /\ branch = <<>>
    /\ cursor = 0
    /\ replayed = StateRoot[Genesis]
    /\ outcome = "none"
    /\ faults = 0
    /\ crashes = 0

\* replayBranch starts from the genesis ledger at height 1.
StartReplay(blocks) ==
    /\ pc' = "replay"
    /\ branch' = blocks
    /\ cursor' = 1
    /\ replayed' = StateRoot[Genesis]

ClearJob ==
    /\ cur' = NoBlock
    /\ branch' = <<>>
    /\ cursor' = 0
    /\ replayed' = StateRoot[Genesis]

\* The process is gone: what is not in the file is lost.
Down ==
    /\ pc' = "down"
    /\ store' = disk
    /\ head' = NoBlock
    /\ ledger' = StateRoot[Genesis]
    /\ ClearJob

\* Blockchain::open on an empty store writes the genesis block, then
\* ChainManager::create replays the chain.
OpenEmpty ==
    /\ pc = "down"
    /\ store.headKey = NoBlock
    /\ Persist(WithBlock(Genesis))
    /\ head' = Genesis
    /\ StartReplay(<<>>)
    /\ outcome' = "none"
    /\ UNCHANGED <<ledger, cur, crashes>>

OpenEmptyFails ==
    /\ pc = "down"
    /\ store.headKey = NoBlock
    /\ faults < MaxFaults
    /\ faults' = faults + 1
    /\ outcome' = "startFailed"
    /\ UNCHANGED <<store, disk, head, ledger, pc, job, crashes>>

\* Blockchain::open on a used store loads the head from it.
OpenStored ==
    /\ pc = "down"
    /\ store.headKey \in store.known
    /\ head' = store.headKey
    /\ StartReplay(<<>>)
    /\ outcome' = "none"
    /\ UNCHANGED <<store, disk, ledger, cur, faults, crashes>>

\* The process stops, cleanly or not: nothing is written on the way out.
Crash ==
    /\ pc # "down"
    /\ crashes < MaxCrashes
    /\ crashes' = crashes + 1
    /\ outcome' = "none"
    /\ Down
    /\ UNCHANGED <<disk, faults>>

-----------------------------------------------------------------------------
(* importLocked. *)

\* importBlock returns o.
Return(o) ==
    /\ pc' = "idle"
    /\ outcome' = o
    /\ ClearJob

\* A faulty test that lets an orphan through.
Fresh_ParentNotChecked(b) ==
    /\ b \notin store.known
    /\ Parent[b] # NoBlock
    /\ Verified(b)

\* The block is new, its parent is stored, consensus accepts it.
Fresh(b) ==
    /\ b \notin store.known
    /\ Parent[b] \in store.known
    /\ Verified(b)

\* The early returns: known, orphaned, refused by consensus, or a child of the
\* head that does not execute (which is not stored).
Refuse(b) ==
    /\ pc = "idle"
    /\ \/ b \in store.known /\ outcome' = "alreadyKnown"
       \/ /\ b \notin store.known /\ Parent[b] \notin store.known
          /\ outcome' = "orphaned"
       \/ /\ b \notin store.known /\ Parent[b] \in store.known /\ ~Verified(b)
          /\ outcome' = "invalid"
       \/ /\ Fresh(b) /\ Parent[b] = head /\ ~Executes(ledger, b)
          /\ outcome' = "invalid"
    /\ UNCHANGED <<store, disk, head, ledger, pc, job, faults, crashes>>

\* A child of the head that executes goes on to be appended, any other fresh
\* block to be stored.
BeginImport_NotExecuted(b) ==   \* faulty: appends without executing
    /\ pc = "idle"
    /\ Fresh(b)
    /\ pc' = IF Parent[b] = head THEN "append" ELSE "store"
    /\ cur' = b
    /\ UNCHANGED <<store, disk, head, ledger, branch, cursor, replayed,
                   outcome, faults, crashes>>

BeginImport(b) ==
    /\ pc = "idle"
    /\ Fresh(b)
    /\ Parent[b] = head => Executes(ledger, b)
    /\ pc' = IF Parent[b] = head THEN "append" ELSE "store"
    /\ cur' = b
    /\ UNCHANGED <<store, disk, head, ledger, branch, cursor, replayed,
                   outcome, faults, crashes>>

AppendBlock_LedgerKept ==   \* faulty: the manager keeps its old ledger
    /\ pc = "append"
    /\ Persist(WithBlock(cur))
    /\ head' = cur
    /\ Return("imported")
    /\ UNCHANGED <<ledger, crashes>>

\* appendBlock writes the block and moves the head; the manager installs the
\* ledger it executed.
AppendBlock ==
    /\ pc = "append"
    /\ Persist(WithBlock(cur))
    /\ head' = cur
    /\ ledger' = Exec(ledger, cur)
    /\ Return("imported")
    /\ UNCHANGED crashes

AppendFails ==
    /\ pc = "append"
    /\ PersistFails(WithBlock(cur))
    /\ Return("error")
    /\ UNCHANGED <<disk, head, ledger, crashes>>

\* Faulty comparisons: ties always lost, ties always won.
Outranks_HeightOnly(b) == Height[b] > Height[head]
Outranks_TiesWon(b) == Height[b] >= Height[head]

\* consensus.compare(block.header, chain.head()) is greater.
Outranks(b) == Better(b, head)

\* storeBlock writes the block unexecuted; compare decides between a side
\* chain kept aside and a reorganisation.
StoreBlock ==
    /\ pc = "store"
    /\ Persist(WithSideBlock(cur))
    /\ IF Outranks(cur)
       THEN /\ pc' = "walk"
            /\ branch' = <<cur>>
            /\ UNCHANGED <<cur, cursor, replayed, outcome>>
       ELSE Return("forked")
    /\ UNCHANGED <<head, ledger, crashes>>

StoreFails ==
    /\ pc = "store"
    /\ PersistFails(WithSideBlock(cur))
    /\ Return("error")
    /\ UNCHANGED <<disk, head, ledger, crashes>>

-----------------------------------------------------------------------------
(* reorgLocked and replayBranch. *)

\* reachedCanonicalTrunk: the canonical block one below the lowest block of
\* the branch is its parent.
ReachedTrunk ==
    /\ Height[branch[1]] > 0
    /\ store.index[Height[branch[1]] - 1] = Parent[branch[1]]

\* One turn of the walk: stop at the trunk, or fetch the parent of the lowest
\* block; a parent that is not stored ends the import with an error.
WalkBack ==
    /\ pc = "walk"
    /\ \/ /\ ReachedTrunk
          /\ StartReplay(branch)
          /\ UNCHANGED <<cur, outcome>>
       \/ /\ ~ReachedTrunk
          /\ Parent[branch[1]] \in store.known
          /\ branch' = <<Parent[branch[1]]>> \o branch
          /\ UNCHANGED <<pc, cur, cursor, replayed, outcome>>
       \/ /\ ~ReachedTrunk
          /\ Parent[branch[1]] \notin store.known
          /\ Return("error")
    /\ UNCHANGED <<store, disk, head, ledger, faults, crashes>>

\* replayBranch executes the canonical blocks up to the fork, or up to the head
\* when there is no branch, then the branch.
ForkHeight ==
    IF branch = <<>> THEN Height[head] ELSE Height[branch[1]] - 1

ReplayDone == cursor > ForkHeight + Len(branch)

NextBlock ==
    IF cursor <= ForkHeight THEN store.index[cursor]
                            ELSE branch[cursor - ForkHeight]

\* A faulty step that does not compare the state root.
NextExecutes_RootIgnored ==
    /\ NextBlock # NoBlock
    /\ Exec(replayed, NextBlock) # Rejected

\* Not a missing block, an execution error or another root than the header's.
NextExecutes ==
    /\ NextBlock # NoBlock
    /\ Executes(replayed, NextBlock)

ReplayBlock_NotAdvancing ==   \* faulty: executes the same height for ever
    /\ pc = "replay"
    /\ ~ReplayDone
    /\ NextExecutes
    /\ UNCHANGED vars

ReplayBlock ==
    /\ pc = "replay"
    /\ ~ReplayDone
    /\ NextExecutes
    /\ replayed' = Exec(replayed, NextBlock)
    /\ cursor' = cursor + 1
    /\ UNCHANGED <<store, disk, head, ledger, pc, cur, branch, outcome,
                   faults, crashes>>

\* The reorganisation is abandoned: the old head, ledger and index stay, and so
\* does the stored block.
ReplayFails ==
    /\ pc = "replay"
    /\ branch # <<>>
    /\ ~ReplayDone
    /\ ~NextExecutes
    /\ Return("invalid")
    /\ UNCHANGED <<store, disk, head, ledger, faults, crashes>>

\* create() returns an error and the program exits.
StartFails ==
    /\ pc = "replay"
    /\ branch = <<>>
    /\ ~ReplayDone
    /\ ~NextExecutes
    /\ outcome' = "startFailed"
    /\ Down
    /\ UNCHANGED <<disk, faults, crashes>>

\* create() installs the ledger and the node is ready to import.
FinishStart ==
    /\ pc = "replay"
    /\ branch = <<>>
    /\ ReplayDone
    /\ ledger' = replayed
    /\ Return("started")
    /\ UNCHANGED <<store, disk, head, faults, crashes>>

\* adoptBranch switches the index and the head, the manager installs the
\* replayed ledger.
AdoptBranch ==
    /\ pc = "replay"
    /\ branch # <<>>
    /\ ReplayDone
    /\ Persist(WithBranch(branch, head))
    /\ head' = branch[Len(branch)]
    /\ ledger' = replayed
    /\ Return("reorged")
    /\ UNCHANGED crashes

AdoptFails ==
    /\ pc = "replay"
    /\ branch # <<>>
    /\ ReplayDone
    /\ PersistFails(WithBranch(branch, head))
    /\ Return("error")
    /\ UNCHANGED <<disk, head, ledger, crashes>>

-----------------------------------------------------------------------------
Open == OpenEmpty \/ OpenEmptyFails \/ OpenStored

\* The steps of an import, or of a start, once it has begun.
Proceed ==
    \/ AppendBlock \/ AppendFails
    \/ StoreBlock \/ StoreFails
    \/ WalkBack
    \/ ReplayBlock \/ ReplayFails \/ AdoptBranch \/ AdoptFails
    \/ StartFails \/ FinishStart

Next ==
    \/ Open
    \/ Crash
    \/ Proceed
    \/ \E b \in Blocks : Refuse(b) \/ BeginImport(b)

Spec == Init /\ [][Next]_vars

\* The thread that imports keeps running until it returns; nothing obliges
\* anyone to start the program or to offer a block.
FairSpec == Spec /\ WF_vars(Proceed)

-----------------------------------------------------------------------------
(* Properties. *)

\* Every variable holds a value of the code's type.
TypeOK ==
    /\ store \in Image
    /\ disk \in Image
    /\ head \in Blocks \cup {NoBlock}
    /\ ledger \in States
    /\ pc \in {"down", "idle", "append", "store", "walk", "replay"}
    /\ cur \in Blocks \cup {NoBlock}
    /\ branch \in Seq(Blocks)
    /\ cursor \in Nat
    /\ replayed \in States
    /\ outcome \in Outcomes
    /\ faults \in 0 .. MaxFaults
    /\ crashes \in 0 .. MaxCrashes

\* A store holds one whole chain: from genesis to the head every height is
\* indexed by a stored child of the one below, and no height above is.
IsChain(image) ==
    LET top == Height[image.headKey]
    IN  /\ image.headKey \in image.known
        /\ image.index[0] = Genesis
        /\ image.index[top] = image.headKey
        /\ \A h \in 1 .. top :
              /\ image.index[h] \in image.known
              /\ Parent[image.index[h]] = image.index[h - 1]
        /\ \A h \in top + 1 .. MaxHeight : image.index[h] = NoBlock

\* The index always describes one chain, from genesis to the head, in memory
\* and in the file, whenever the process stops: appendBlock and adoptBranch
\* replace it in one batch, stale heights of a longer old chain included.
ChainIsWhole ==
    faults = 0 =>
        /\ disk.headKey # NoBlock => IsChain(disk)
        /\ store.headKey # NoBlock => IsChain(store)
        /\ head # NoBlock => store.headKey = head

\* Only valid blocks become head, whatever was stored unexecuted on a side
\* branch before: the replay of reorgLocked starts at genesis and checks every
\* state root.
HeadIsValid == faults = 0 /\ head # NoBlock => head \in Valid

\* The ledger the miner, the mempool and the RPC read is the head's, between
\* any two imports and even after a failed write: head and _ledger move
\* together or not at all.
LedgerIsHeads ==
    pc \in {"idle", "append", "store", "walk"} => ledger = StateRoot[head]

\* Between imports no stored valid block is better than the head, unless the
\* process has stopped in the middle of one (importLocked, reorgLocked).
HeadIsBest ==
    pc = "idle" /\ faults = 0 /\ crashes = 0 =>
        \A b \in store.known \cap Valid : ~Better(b, head)

\* The same without the exception for a stop.
HeadIsBestAfterRestart ==
    pc = "idle" /\ faults = 0 =>
        \A b \in store.known \cap Valid : ~Better(b, head)

\* Until a write fails, a node can always start again from its file, wherever it
\* stopped, and the walk from any stored block meets the trunk: reorgLocked never
\* answers "walking fork branch", because a block is stored after its parent.
NothingIsMissing == faults = 0 => outcome \notin {"startFailed", "error"}

\* The restart when a write may fail, once a chain exists: a batch is applied whole
\* or not at all, so no failed write stops the node from starting again.
RestartSucceedsDespiteFaults ==
    outcome = "startFailed" => disk.headKey = NoBlock

\* The head only ever moves to a better valid block, or is read back from the
\* file by a start.
HeadImproves ==
    [][head' # head /\ head # NoBlock /\ head' # NoBlock =>
         Better(head', head)]_vars

\* An import, a reorganisation or a start comes to its end or to a stop,
\* whatever writes fail: no walk or replay turns for ever, so HeadIsBest is
\* reached again after every offer.
ImportEnds ==
    pc \in {"append", "store", "walk", "replay"} ~> pc \in {"idle", "down"}

-----------------------------------------------------------------------------
(* The detailed manager implements ForkChoice: a block is accepted when its *)
(* import has decided its fate, the tip is the head record of the file.     *)

InFlight ==
    IF pc \in {"walk", "replay"} /\ branch # <<>> THEN {cur} ELSE {}

FC == INSTANCE ForkChoice WITH
        accepted <- store.known \ InFlight,
        tip      <- disk.headKey

\* Until a write fails, a step of a running process is one of the atomic
\* election of ForkChoice or changes nothing of it.
ElectsBest ==
    FC!Init /\ [][faults' = 0 /\ crashes' = crashes => FC!Next]_(FC!vars)

\* With crashes, a block may be stored and never weighed; until a write fails,
\* the tip still moves only to better valid blocks.
ElectsBestDespiteCrashes ==
    FC!Init /\ [][faults = 0 /\ faults' = 0 => FC!CrashNext]_(FC!vars)
=============================================================================
