-------------------------- MODULE ChainManagerInv ---------------------------
(***************************************************************************)
(* The inductive invariant of ChainManager, as a conjunction of named      *)
(* parts.  The parts of Always hold whatever writes fail; those of           *)
(* Faultless hold until the first one does.                                *)
(***************************************************************************)
EXTENDS ChainManager

-----------------------------------------------------------------------------
(* Facts about the contents of a store, in memory or in the file. *)

\* A block is stored after its parent, and only if consensus accepted it.
KnownIsClosed(image) ==
    \A b \in image.known :
        b = Genesis \/ (Parent[b] \in image.known /\ Verified(b))

\* The heights index stored blocks of that height.
IndexIsKnown(image) ==
    \A h \in Heights :
        image.index[h] # NoBlock =>
            image.index[h] \in image.known /\ Height[image.index[h]] = h

\* A store in use has a stored head, indexed at its height, over genesis.
HeadIsIndexed(image) ==
    image.headKey # NoBlock =>
        /\ image.headKey \in image.known
        /\ image.index[Height[image.headKey]] = image.headKey
        /\ image.index[0] = Genesis

ImageOK(image) ==
    /\ KnownIsClosed(image)
    /\ IndexIsKnown(image)
    /\ HeadIsIndexed(image)

\* The indexed chain is whole and valid; an unused store is empty.
ChainOK(image) ==
    /\ image.headKey # NoBlock =>
         /\ IsChain(image)
         /\ \A h \in 0 .. Height[image.headKey] : image.index[h] \in Valid
    /\ image.headKey = NoBlock => image.known = {}

-----------------------------------------------------------------------------
(* Facts about the import or the start in progress. *)

\* A running node has a stored head, and a store in use.
HeadOK ==
    /\ pc # "down" => head \in store.known /\ store.headKey # NoBlock
    /\ pc = "down" => head = NoBlock

JobOK ==
    /\ pc \in {"append", "store"} => cur \in Blocks /\ Fresh(cur)
    /\ pc = "append" => Parent[cur] = head /\ Executes(ledger, cur)
    /\ pc = "store" => Parent[cur] # head
    /\ pc \in {"down", "idle", "append", "store"} => branch = <<>>

\* The branch is a path of stored blocks up to the block being imported, which
\* outranks the head and is not its child.
BranchOK ==
    /\ pc = "walk" => branch # <<>>
    /\ branch # <<>> =>
         /\ cur \in store.known
         /\ Better(cur, head)
         /\ Parent[cur] # head
         /\ branch[Len(branch)] = cur
         /\ Height[branch[1]] > 0
         /\ \A i \in 1 .. Len(branch) :
               /\ branch[i] \in store.known
               /\ Height[branch[i]] = Height[cur] - Len(branch) + i
         /\ \A i \in 1 .. Len(branch) - 1 : Parent[branch[i + 1]] = branch[i]

\* The block replayed last, genesis before the first.
LastBlock ==
    IF cursor = 1 THEN Genesis
    ELSE IF cursor - 1 <= ForkHeight THEN store.index[cursor - 1]
    ELSE branch[cursor - 1 - ForkHeight]

ReplayOK ==
    pc = "replay" =>
        /\ cursor >= 1
        /\ cursor <= ForkHeight + Len(branch) + 1
        /\ branch = <<>> => head = store.headKey
        /\ replayed = StateRoot[LastBlock]

\* The ledger is the head's whenever the node can import, and through the
\* whole of a reorganisation.
LedgerOK ==
    pc \in {"idle", "append", "store", "walk"} \/ branch # <<>> =>
        ledger = StateRoot[head]

Always ==
    /\ TypeOK
    /\ ImageOK(store) /\ ImageOK(disk)
    /\ HeadOK /\ JobOK /\ BranchOK /\ ReplayOK /\ LedgerOK

-----------------------------------------------------------------------------
(* What holds until a write fails. *)

\* File, memory and head agree.
InStep ==
    /\ store = disk
    /\ pc # "down" => store.headKey = head

\* If the tip of a branch is valid, so is all of it.
BranchIsValid ==
    branch # <<>> /\ cur \in Valid =>
        \A i \in 1 .. Len(branch) : branch[i] \in Valid

\* A branch under replay hangs from the canonical chain, and the blocks of it
\* already replayed are valid.
ReplayIsValid ==
    pc = "replay" /\ branch # <<>> =>
        /\ ReachedTrunk
        /\ \A i \in 1 .. Len(branch) :
              i < cursor - ForkHeight => branch[i] \in Valid

NoError == outcome \notin {"startFailed", "error"}

\* Whatever has been weighed in a process that has not stopped is not better
\* than the head.
BestSoFar ==
    crashes = 0 =>
        /\ pc = "down" => store.headKey = NoBlock
        /\ pc # "down" =>
             \A b \in (store.known \ InFlight) \cap Valid : ~Better(b, head)

Sound ==
    /\ ChainOK(store)
    /\ InStep
    /\ BranchIsValid
    /\ ReplayIsValid
    /\ NoError
    /\ BestSoFar

Faultless == faults = 0 => Sound

\* The inductive invariant: every state the code reaches satisfies it, and
\* every step keeps it.
IndInv == Always /\ Faultless
=============================================================================
