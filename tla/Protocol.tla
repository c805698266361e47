------------------------------ MODULE Protocol ------------------------------
(***************************************************************************)
(* Several nodes that speak the rscoin protocol                            *)
(* (protocol/rscoin/RSCoinProtocol.cpp) over the connections of            *)
(* network/tcp/TcpNetwork.cpp: the handshake, the announcement of blocks   *)
(* and transactions, the synchronisation, the keepalive.                   *)
(*                                                                         *)
(* A connection is one FIFO channel each way.  Each node has one reader    *)
(* thread per peer, which handles one message at a time, and one more      *)
(* thread (the miner, an RPC client) of its own; they share the sessions   *)
(* and the chain, so a handler is cut wherever it releases a lock.  The    *)
(* chain manager is the atomic import ChainManager implements.             *)
(***************************************************************************)
EXTENDS Integers, FiniteSets, SequencesExt

CONSTANTS
    Node,
    Dials,        \* <<n, p>>: p is among n's network.bootstrapPeers
    ChainId,      \* each node's chain.id (and protocol version)
    Blocks, NoBlock,
    Geneses,      \* the genesis blocks a node may be configured with
    Parent, Height, HashRank,   \* of the blocks, as in BlockTree
    MinedBy,      \* the node that mines a block
    Accepts,      \* the blocks each node's rules accept
    Window,       \* kMaxBlocksPerRequest
    SeenLimit,    \* kSeenBlocksLimit, kSeenTxsLimit
    Txs,
    ValidOn,      \* the transactions valid on the ledger after a block
    MaxPings,     \* bound: each node's pings
    MaxEvents,    \* bound: blocks, transactions and pings together
    MaxLosses,    \* bound: connections that break
    MaxFailures   \* bound: imports that fail on a storage error

ASSUME ProtocolAssumption ==
    /\ Dials \subseteq {e \in Node \X Node : e[1] # e[2]}
    /\ DOMAIN ChainId = Node
    /\ NoBlock \notin Blocks
    /\ Geneses \subseteq Blocks
    /\ Parent \in [Blocks -> Blocks \cup {NoBlock}]
    /\ Height \in [Blocks -> Nat]
    /\ HashRank \in [Blocks -> Int]
    /\ \A b \in Blocks : Parent[b] # NoBlock => Height[b] = Height[Parent[b]] + 1
    /\ \A b \in Geneses : Parent[b] = NoBlock /\ Height[b] = 0
    /\ MinedBy \in [Blocks -> Node]
    /\ Accepts \in [Node -> SUBSET Blocks]
    /\ ValidOn \in [Blocks -> SUBSET Txs]
    /\ Window \in Nat \ {0} /\ SeenLimit \in Nat \ {0}
    /\ MaxPings \in [Node -> Nat] /\ MaxEvents \in Nat /\ MaxLosses \in Nat /\ MaxFailures \in Nat

VARIABLES
    known,      \* the blocks each node has stored
    head,       \* the head of each node's chain
    admitted,   \* the transactions each node's pool has admitted
    link,       \* each node's side of a connection
    session,    \* RSCoinProtocol::_sessions
    pings,      \* _nextPingNonce - 1
    task,       \* what thread p of node n does; task[n][n] is n's own thread
    chan,       \* chan[n][p]: messages from n that p has not read
    cut,        \* connections shut down or broken
    lost,       \* those that broke by themselves
    failures    \* imports that have failed

chainVars == <<known, head, failures>>
netVars   == <<link, cut, lost>>
vars == <<known, head, admitted, link, session, pings, task, chan, cut, lost,
          failures>>

Peers(n) == {p \in Node : <<n, p>> \in Dials \/ <<p, n>> \in Dials}

-----------------------------------------------------------------------------
(* Messages, sessions and tasks. *)

Message ==
         [type : {"status"}, chain : Range(ChainId), height : Nat]
    \cup [type : {"ping", "pong"}, nonce : Nat]
    \cup [type : {"newBlock"}, block : Blocks]
    \cup [type : {"getBlocks"}, from : Nat]
    \cup [type : {"blocks"}, blocks : Seq(Blocks)]
    \cup [type : {"newTx"}, tx : Txs]

Status(n)    == [type |-> "status", chain |-> ChainId[n], height |-> Height[head[n]]]
Ping(i)      == [type |-> "ping", nonce |-> i]
Pong(i)      == [type |-> "pong", nonce |-> i]
NewBlock(b)  == [type |-> "newBlock", block |-> b]
GetBlocks(h) == [type |-> "getBlocks", from |-> h]
BlocksOf(bs) == [type |-> "blocks", blocks |-> bs]
NewTx(tx)    == [type |-> "newTx", tx |-> tx]

Session == [ready : BOOLEAN, peerHeight : Nat, seenBlocks : SUBSET Blocks,
            seenTxs : SUBSET Txs, pingOutstanding : BOOLEAN, pingNonce : Nat]

NewSession == [ready |-> FALSE, peerHeight |-> 0, seenBlocks |-> {},
               seenTxs |-> {}, pingOutstanding |-> FALSE, pingNonce |-> 0]

HasSession(n, p) == link[n][p] \in {"greeting", "open"}

\* A handler goes on to an announcement, a request, or one of the two loops.
Idle == [do |-> "idle"]
Ask == [do |-> "ask"]
Serve(h, bs) == [do |-> "serve", from |-> h, blocks |-> bs]
Batch(bs, i, some) == [do |-> "batch", blocks |-> bs, at |-> i, accepted |-> some]
Single(b) == [do |-> "single", block |-> b]
Announce(b, then) == [do |-> "announce", block |-> b, then |-> then]
Relay(tx) == [do |-> "relay", tx |-> tx]
Send(to, message, then) ==
    IF to = {} THEN then
    ELSE [do |-> "send", to |-> to, message |-> message, then |-> then]

SimpleTask ==
         {Idle, Ask}
    \cup [do : {"serve"}, from : Nat, blocks : Seq(Blocks)]
    \cup [do : {"batch"}, blocks : Seq(Blocks) \ {<<>>}, at : Nat \ {0}, accepted : BOOLEAN]
    \cup [do : {"single"}, block : Blocks]
    \cup [do : {"relay"}, tx : Txs]

Task ==
         SimpleTask
    \cup [do : {"announce"}, block : Blocks, then : SimpleTask]
    \cup [do : {"send"}, to : SUBSET Node, message : Message, then : SimpleTask]

\* Insertion in a set of seen hashes, which is emptied when full.
Noted(seen, x) == IF Cardinality(seen) >= SeenLimit THEN {x} ELSE seen \cup {x}

\* send(): nothing reaches a connection that has been shut down.
Sent(channels, n, p, message) ==
    IF {n, p} \in cut THEN channels
    ELSE [channels EXCEPT ![n][p] = Append(@, message)]

Turn(n, t, next) == task' = [task EXCEPT ![n][t] = next]

-----------------------------------------------------------------------------
(* The chain of a node. *)

Better(b, c) ==
    \/ Height[b] > Height[c]
    \/ Height[b] = Height[c] /\ HashRank[b] < HashRank[c]

\* A block and its ancestors.
Ancestry[b \in Blocks] == {b} \cup (IF Parent[b] = NoBlock THEN {} ELSE Ancestry[Parent[b]])

Genesis(n) == CHOOSE b \in Ancestry[head[n]] : Parent[b] = NoBlock

\* blockByHeight: the canonical blocks of a height, one or none.
Canonical(n, h) == {b \in Ancestry[head[n]] : Height[b] = h}

Outcome(n, b) ==
    IF b \in known[n] THEN "alreadyKnown"
    ELSE IF Parent[b] \notin known[n] THEN "orphaned"
    ELSE IF b \notin Accepts[n] THEN "invalid"
    ELSE IF Parent[b] = head[n] THEN "imported"
    ELSE IF Better(b, head[n]) THEN "reorged"
    ELSE "forked"

Imported_NotStored(n, b) ==   \* faulty: a side block becomes head unstored
    /\ known' = IF Outcome(n, b) \in {"imported", "forked"}
                THEN [known EXCEPT ![n] = @ \cup {b}] ELSE known
    /\ head' = IF Outcome(n, b) \in {"imported", "reorged"}
               THEN [head EXCEPT ![n] = b] ELSE head

\* The manager's state after importBlock.
Imported(n, b) ==
    LET o == Outcome(n, b)
    IN  /\ known' = IF o \in {"imported", "reorged", "forked"}
                    THEN [known EXCEPT ![n] = @ \cup {b}] ELSE known
        /\ head' = IF o \in {"imported", "reorged"}
                   THEN [head EXCEPT ![n] = b] ELSE head

\* The subscriber announces a new head before importBlock returns.
Then(n, b, next) ==
    IF Outcome(n, b) \in {"imported", "reorged"} THEN Announce(b, next) ELSE next

-----------------------------------------------------------------------------
Init ==
    /\ head \in [Node -> Geneses]
    /\ known = [n \in Node |-> {head[n]}]
    /\ admitted = [n \in Node |-> {}]
    /\ link = [n \in Node |-> [p \in Node |-> "none"]]
    /\ session = [n \in Node |-> [p \in Node |-> NewSession]]
    /\ pings = [n \in Node |-> 0]
    /\ task = [n \in Node |-> [t \in Node |-> Idle]]
    /\ chan = [n \in Node |-> [p \in Node |-> <<>>]]
    /\ cut = {}
    /\ lost = {}
    /\ failures = 0

(* Connections. *)

\* addPeer, up to the session onPeerConnected creates.
AddPeer(n, p) ==
    /\ p \in Peers(n)
    /\ link[n][p] = "none"
    /\ link' = [link EXCEPT ![n][p] = "greeting"]
    /\ session' = [session EXCEPT ![n][p] = NewSession]
    /\ UNCHANGED <<chainVars, admitted, pings, task, chan, cut, lost>>

\* The rest of onPeerConnected; only then does the reader start.
SendStatus(n, p) ==
    /\ link[n][p] = "greeting"
    /\ chan' = Sent(chan, n, p, Status(n))
    /\ link' = [link EXCEPT ![n][p] = "open"]
    /\ UNCHANGED <<chainVars, admitted, session, pings, task, cut, lost>>

\* The connection breaks.
Lose(n, p) ==
    /\ <<n, p>> \in Dials
    /\ {n, p} \notin cut
    /\ Cardinality(lost) < MaxLosses
    /\ lost' = lost \cup {{n, p}}
    /\ cut' = cut \cup {{n, p}}
    /\ UNCHANGED <<chainVars, admitted, link, session, pings, task, chan>>

\* The reader finds the connection closed, after some of the messages that were
\* on their way, and removePeer tells the protocol.  Nobody connects again.
Close(n, p) ==
    /\ {n, p} \in cut
    /\ link[n][p] = "open"
    /\ task[n][p] = Idle
    /\ link' = [link EXCEPT ![n][p] = "closed"]
    /\ session' = [session EXCEPT ![n][p] = NewSession]
    /\ chan' = [chan EXCEPT ![p][n] = <<>>]
    /\ UNCHANGED <<chainVars, admitted, pings, task, cut, lost>>

-----------------------------------------------------------------------------
(* The handlers: each takes the next message of its peer. *)

Incoming(n, p) == Head(chan[p][n])

Receiving(n, p, type) ==
    /\ link[n][p] = "open"
    /\ task[n][p] = Idle
    /\ chan[p][n] # <<>>
    /\ Incoming(n, p).type = type

Consumed(n, p) == [chan EXCEPT ![p][n] = Tail(@)]

Drop_Ignored(n, p) == UNCHANGED cut   \* faulty: the connection stays

\* dropPeer shuts the connection down.
Drop(n, p) == cut' = cut \cup {{n, p}}

Compatible(n, status) == status.chain = ChainId[n]

HandleStatus(n, p) ==
    /\ Receiving(n, p, "status")
    /\ LET status == Incoming(n, p)
       IN  IF Compatible(n, status)
           THEN /\ session' = [session EXCEPT ![n][p] =
                      [@ EXCEPT !.ready = TRUE, !.peerHeight = status.height]]
                /\ Turn(n, p, IF status.height > Height[head[n]] THEN Ask ELSE Idle)
                /\ UNCHANGED cut
           ELSE /\ Drop(n, p)
                /\ UNCHANGED <<session, task>>
    /\ chan' = Consumed(n, p)
    /\ UNCHANGED <<chainVars, admitted, link, pings, lost>>

\* requestBlocks(chain.height() + 1), the height being the one of now.
Request(n, p) ==
    /\ task[n][p] = Ask
    /\ chan' = Sent(chan, n, p, GetBlocks(Height[head[n]] + 1))
    /\ Turn(n, p, Idle)
    /\ UNCHANGED <<chainVars, netVars, admitted, session, pings>>

\* A block from a peer whose Status has not come is ignored; another raises the
\* height known of the peer and is imported.
HandleNewBlock(n, p) ==
    /\ Receiving(n, p, "newBlock")
    /\ LET b == Incoming(n, p).block
           s == session[n][p]
       IN  IF s.ready
           THEN /\ session' = [session EXCEPT ![n][p] =
                      [s EXCEPT !.seenBlocks = Noted(s.seenBlocks, b),
                                !.peerHeight = IF Height[b] > @ THEN Height[b] ELSE @]]
                /\ Turn(n, p, Single(b))
           ELSE UNCHANGED <<session, task>>
    /\ chan' = Consumed(n, p)
    /\ UNCHANGED <<chainVars, netVars, admitted, pings>>

ImportFrom_OrphanIgnored(n, p) ==   \* faulty: waits for the missing blocks
    /\ task[n][p].do = "single"
    /\ LET b == task[n][p].block
       IN  /\ Imported(n, b)
           /\ Turn(n, p, Then(n, b, Idle))
           /\ IF Outcome(n, b) = "invalid" THEN Drop(n, p) ELSE UNCHANGED cut
    /\ UNCHANGED <<admitted, link, session, pings, chan, lost, failures>>

\* importFrom: an orphan asks for what is missing, an invalid block costs the
\* peer its connection.
ImportFrom(n, p) ==
    /\ task[n][p].do = "single"
    /\ LET b == task[n][p].block
       IN  /\ Imported(n, b)
           /\ Turn(n, p, Then(n, b, IF Outcome(n, b) = "orphaned" THEN Ask ELSE Idle))
           /\ IF Outcome(n, b) = "invalid" THEN Drop(n, p) ELSE UNCHANGED cut
    /\ UNCHANGED <<admitted, link, session, pings, chan, lost, failures>>

HandleGetBlocks(n, p) ==
    /\ Receiving(n, p, "getBlocks")
    /\ Turn(n, p, Serve(Incoming(n, p).from, <<>>))
    /\ chan' = Consumed(n, p)
    /\ UNCHANGED <<chainVars, netVars, admitted, session, pings>>

\* handleGetBlocks' loop reads one height at a time, of the chain of then, and
\* answers with what it has at the limit or at the first missing height.
ServeBlock(n, p) ==
    /\ task[n][p].do = "serve"
    /\ LET t == task[n][p]
           found == Canonical(n, t.from + Len(t.blocks))
       IN  IF Len(t.blocks) < Window /\ found # {}
           THEN /\ \E b \in found : Turn(n, p, Serve(t.from, Append(t.blocks, b)))
                /\ UNCHANGED chan
           ELSE /\ Turn(n, p, Idle)
                /\ chan' = Sent(chan, n, p, BlocksOf(t.blocks))
    /\ UNCHANGED <<chainVars, netVars, admitted, session, pings>>

\* An empty answer ends the synchronisation.
HandleBlocks(n, p) ==
    /\ Receiving(n, p, "blocks")
    /\ LET bs == Incoming(n, p).blocks
       IN  Turn(n, p, IF bs = <<>> THEN Idle ELSE Batch(bs, 1, FALSE))
    /\ chan' = Consumed(n, p)
    /\ UNCHANGED <<chainVars, netVars, admitted, session, pings>>

\* handleBlocks' loop imports one block at a time.
ImportBatch(n, p) ==
    /\ task[n][p].do = "batch"
    /\ task[n][p].at <= Len(task[n][p].blocks)
    /\ LET t == task[n][p]
           b == t.blocks[t.at]
           o == Outcome(n, b)
       IN  /\ Imported(n, b)
           /\ IF o = "invalid"
              THEN Turn(n, p, Idle) /\ Drop(n, p)
              ELSE /\ Turn(n, p, Then(n, b, Batch(t.blocks, t.at + 1,
                                                  t.accepted \/ o # "orphaned")))
                   /\ UNCHANGED cut
    /\ UNCHANGED <<admitted, link, session, pings, chan, lost, failures>>

Back_NotMoving(h) == h   \* faulty: asks for the same window again

AtGenesis_OffByOne(h) == h <= 2   \* faulty

\* Nothing lies below the window of height 1.
AtGenesis(h) == h <= 1

\* The window below the one whose blocks were all orphans.
Back(h) == IF h > Window THEN h - Window ELSE 1

\* After the loop: if nothing connected, an earlier window is asked for, down to
\* genesis, which the peers must share; otherwise what the peer has above.
FinishBatch(n, p) ==
    /\ task[n][p].do = "batch"
    /\ task[n][p].at > Len(task[n][p].blocks)
    /\ LET t == task[n][p]
           first == Height[t.blocks[1]]
           top == Height[Last(t.blocks)]
       IN  IF ~t.accepted /\ AtGenesis(first)
           THEN Drop(n, p) /\ UNCHANGED chan
           ELSE /\ chan' = IF ~t.accepted
                           THEN Sent(chan, n, p, GetBlocks(Back(first)))
                           ELSE IF session[n][p].peerHeight > top
                           THEN Sent(chan, n, p, GetBlocks(top + 1))
                           ELSE chan
                /\ UNCHANGED cut
    /\ Turn(n, p, Idle)
    /\ UNCHANGED <<chainVars, admitted, link, session, pings, lost>>

\* importBlock fails to write: the handler returns, whatever was left to import.
ImportFails(n, p) ==
    /\ failures < MaxFailures
    /\ \/ /\ task[n][p].do = "single"
          /\ Outcome(n, task[n][p].block) \in {"imported", "reorged", "forked"}
       \/ /\ task[n][p].do = "batch"
          /\ task[n][p].at <= Len(task[n][p].blocks)
          /\ Outcome(n, task[n][p].blocks[task[n][p].at])
                \in {"imported", "reorged", "forked"}
    /\ failures' = failures + 1
    /\ Turn(n, p, Idle)
    /\ UNCHANGED <<netVars, known, head, admitted, session, pings, chan>>

MarkBlock(n, targets, b) ==
    session' = [session EXCEPT ![n] = [p \in Node |->
        LET s == session[n][p]
        IN  IF p \in targets THEN [s EXCEPT !.seenBlocks = Noted(s.seenBlocks, b)] ELSE s]]

Ready(n) == {p \in Node : HasSession(n, p) /\ session[n][p].ready}

\* announceBlock: marks every ready peer not known to have the block, and sends
\* it to them.
AnnounceBlock(n, t) ==
    /\ task[n][t].do = "announce"
    /\ LET b == task[n][t].block
           targets == {p \in Ready(n) : b \notin session[n][p].seenBlocks}
       IN  /\ MarkBlock(n, targets, b)
           /\ Turn(n, t, Send(targets, NewBlock(b), task[n][t].then))
    /\ UNCHANGED <<chainVars, netVars, admitted, pings, chan>>

\* The loop over targets, in the order of the peers' names.
SendNext(n, t) ==
    /\ task[n][t].do = "send"
    /\ LET s == task[n][t]
       IN  \E p \in s.to : /\ chan' = Sent(chan, n, p, s.message)
                           /\ Turn(n, t, Send(s.to \ {p}, s.message, s.then))
    /\ UNCHANGED <<chainVars, netVars, admitted, session, pings>>

-----------------------------------------------------------------------------
(* Transactions. *)

\* SimpleMempool::add, on the ledger of now; what it admits is relayed.
Admit(n, t, tx) ==
    IF tx \in ValidOn[head[n]] /\ tx \notin admitted[n]
    THEN /\ admitted' = [admitted EXCEPT ![n] = @ \cup {tx}]
         /\ Turn(n, t, Relay(tx))
    ELSE UNCHANGED <<admitted, task>>

HandleNewTransaction(n, p) ==
    /\ Receiving(n, p, "newTx")
    /\ LET tx == Incoming(n, p).tx
           s == session[n][p]
       IN  IF s.ready
           THEN /\ session' = [session EXCEPT ![n][p] =
                      [s EXCEPT !.seenTxs = Noted(s.seenTxs, tx)]]
                /\ Admit(n, p, tx)
           ELSE UNCHANGED <<session, admitted, task>>
    /\ chan' = Consumed(n, p)
    /\ UNCHANGED <<chainVars, netVars, pings>>

\* What miners, users and timers have begun.
Events ==
    Cardinality(UNION Range(known) \ Geneses) + Cardinality(UNION Range(admitted))
        + SumFunction(pings)

\* NodeApi::sendTransaction.
SubmitTransaction(n, tx) ==
    /\ task[n][n] = Idle
    /\ tx \in ValidOn[head[n]] \ admitted[n]
    /\ tx \in UNION Range(admitted) \/ Events < MaxEvents
    /\ Admit(n, n, tx)
    /\ UNCHANGED <<chainVars, netVars, session, pings, chan>>

MarkTx(n, targets, tx) ==
    session' = [session EXCEPT ![n] = [p \in Node |->
        LET s == session[n][p]
        IN  IF p \in targets THEN [s EXCEPT !.seenTxs = Noted(s.seenTxs, tx)] ELSE s]]

AnnounceTransaction_MarksAll(n, t) ==   \* faulty: marks before it looks at ready
    /\ task[n][t].do = "relay"
    /\ LET tx == task[n][t].tx
           targets == {p \in Ready(n) : tx \notin session[n][p].seenTxs}
       IN  /\ MarkTx(n, {p \in Node : HasSession(n, p)}, tx)
           /\ Turn(n, t, Send(targets, NewTx(tx), Idle))
    /\ UNCHANGED <<chainVars, netVars, admitted, pings, chan>>

\* announceTransaction, as announceBlock.
AnnounceTransaction(n, t) ==
    /\ task[n][t].do = "relay"
    /\ LET tx == task[n][t].tx
           targets == {p \in Ready(n) : tx \notin session[n][p].seenTxs}
       IN  /\ MarkTx(n, targets, tx)
           /\ Turn(n, t, Send(targets, NewTx(tx), Idle))
    /\ UNCHANGED <<chainVars, netVars, admitted, pings, chan>>

-----------------------------------------------------------------------------
(* Mining and the keepalive. *)

\* Node::run starts the miner once the network has started.
Started(n) ==
    \A p \in Node : <<n, p>> \in Dials => link[n][p] \in {"open", "closed"}

\* The miner's block, on the head or on one it has just ceased to be.
Mine(n, b) ==
    /\ Started(n)
    /\ MinedBy[b] = n
    /\ task[n][n] = Idle
    /\ b \notin known[n]
    /\ Parent[b] \in known[n]
    /\ Events < MaxEvents
    /\ Imported(n, b)
    /\ Turn(n, n, Then(n, b, Idle))
    /\ UNCHANGED <<netVars, admitted, session, pings, chan, failures>>

\* tick() pings a ready peer whose interval has elapsed and that has answered
\* the last ping.
Tick(n, p) ==
    /\ HasSession(n, p)
    /\ session[n][p].ready
    /\ ~session[n][p].pingOutstanding
    /\ pings[n] < MaxPings[n] /\ Events < MaxEvents
    /\ pings' = [pings EXCEPT ![n] = @ + 1]
    /\ session' = [session EXCEPT ![n][p] =
          [@ EXCEPT !.pingOutstanding = TRUE, !.pingNonce = pings[n] + 1]]
    /\ chan' = Sent(chan, n, p, Ping(pings[n] + 1))
    /\ UNCHANGED <<chainVars, netVars, admitted, task>>

HandlePing(n, p) ==
    /\ Receiving(n, p, "ping")
    /\ chan' = Sent(Consumed(n, p), n, p, Pong(Incoming(n, p).nonce))
    /\ UNCHANGED <<chainVars, netVars, admitted, session, pings, task>>

HandlePong_LastNonce(n, p) ==   \* faulty: expects the node's last ping
    /\ Receiving(n, p, "pong")
    /\ session' = IF session[n][p].pingOutstanding /\ pings[n] = Incoming(n, p).nonce
                  THEN [session EXCEPT ![n][p].pingOutstanding = FALSE]
                  ELSE session
    /\ chan' = Consumed(n, p)
    /\ UNCHANGED <<chainVars, netVars, admitted, pings, task>>

HandlePong(n, p) ==
    /\ Receiving(n, p, "pong")
    /\ session' = IF /\ session[n][p].pingOutstanding
                     /\ session[n][p].pingNonce = Incoming(n, p).nonce
                  THEN [session EXCEPT ![n][p].pingOutstanding = FALSE]
                  ELSE session
    /\ chan' = Consumed(n, p)
    /\ UNCHANGED <<chainVars, netVars, admitted, pings, task>>

-----------------------------------------------------------------------------
\* What thread t of node n does of itself; a reader also takes messages.
ThreadStep(n, t) ==
    \/ AnnounceBlock(n, t) \/ AnnounceTransaction(n, t) \/ SendNext(n, t)
    \/ AddPeer(n, t) \/ SendStatus(n, t) \/ Close(n, t)
    \/ HandleStatus(n, t) \/ HandlePing(n, t) \/ HandlePong(n, t)
    \/ HandleNewBlock(n, t) \/ HandleGetBlocks(n, t) \/ HandleBlocks(n, t)
    \/ HandleNewTransaction(n, t)
    \/ Request(n, t) \/ ServeBlock(n, t)
    \/ ImportFrom(n, t) \/ ImportBatch(n, t) \/ FinishBatch(n, t)

Next ==
    \/ \E n, t \in Node : ThreadStep(n, t)
    \/ \E n, p \in Node : Tick(n, p) \/ Lose(n, p) \/ ImportFails(n, p)
    \/ \E n \in Node :
          \/ \E b \in Blocks : Mine(n, b)
          \/ \E tx \in Txs : SubmitTransaction(n, tx)

Spec == Init /\ [][Next]_vars

\* Threads run and TCP delivers; nobody is obliged to mine, submit or ping.
FairSpec == Spec /\ \A n, t \in Node : WF_vars(ThreadStep(n, t))

-----------------------------------------------------------------------------
(* Properties. *)

TypeOK ==
    /\ known \in [Node -> SUBSET Blocks]
    /\ head \in [Node -> Blocks] /\ \A n \in Node : head[n] \in known[n]
    /\ admitted \in [Node -> SUBSET Txs]
    /\ link \in [Node -> [Node -> {"none", "greeting", "open", "closed"}]]
    /\ session \in [Node -> [Node -> Session]]
    /\ pings \in [Node -> Nat] /\ \A n \in Node : pings[n] <= MaxPings[n]
    /\ task \in [Node -> [Node -> Task]]
    /\ chan \in [Node -> [Node -> Seq(Message)]]
    /\ lost \subseteq cut
    /\ failures \in 0 .. MaxFailures

\* Nothing is left to do but to mine, submit or ping.
Quiet ==
    \A n, t \in Node :
        /\ task[n][t] = Idle
        /\ chan[n][t] = <<>>
        /\ t \in Peers(n) =>
             /\ link[n][t] \in {"open", "closed"}
             /\ link[n][t] = "open" => {n, t} \notin cut

Alike(n, p) ==
    ChainId[n] = ChainId[p] /\ Genesis(n) = Genesis(p) /\ Accepts[n] = Accepts[p]

\* Nodes of one network never drop each other, whatever forks they serve while
\* they reorganise: neither "invalid block" nor "does not share our genesis" is
\* ever said of an honest peer (handleBlocks, importFrom).
HonestPeerIsKept ==
    \A n, p \in Node : {n, p} \in cut \ lost => ~Alike(n, p)

\* Once all is quiet a node is as high as the highest block each peer has told
\* it of, or has dropped that peer: no walk back, window or fork leaves it
\* behind, unless an import has failed to write (handleStatus, handleNewBlock,
\* handleBlocks).
NobodyStaysBehind ==
    Quiet /\ failures = 0 =>
        \A n, p \in Node :
            link[n][p] = "open" /\ session[n][p].ready =>
                Height[head[n]] >= session[n][p].peerHeight

\* What is marked as seen by a peer reaches it, although the mark is set before the
\* message is sent: the peer ends as high as a block at least, and a transfer valid
\* on every ledger of its chain has entered its pool (announceBlock,
\* announceTransaction, handleNewBlock, handleNewTransaction).
MarkedIsReached ==
    Quiet =>
        \A n, p \in Node :
            link[n][p] = "open" /\ Alike(n, p) =>
                /\ failures = 0 =>
                     \A b \in session[n][p].seenBlocks : Height[head[p]] >= Height[b]
                /\ \A tx \in session[n][p].seenTxs :
                     (\A b \in Blocks : Genesis(p) \in Ancestry[b] => tx \in ValidOn[b])
                         => tx \in admitted[p]

\* Two connected nodes of one network end at one height, "sync P2P avec reorgs
\* (deux mineurs concurrents convergent)" (handleStatus, announceBlock).
MinersConverge ==
    Quiet /\ failures = 0 =>
        \A n, p \in Node :
            link[n][p] = "open" /\ Alike(n, p) => Height[head[n]] = Height[head[p]]

\* The exchange ends whatever is mined, lost or failed: no two nodes walk back
\* and forth, or send a block back and forth, for ever (handleBlocks, importFrom,
\* announceBlock).
SyncEnds == <>[]Quiet

\* A ping that is outstanding is still on its way, or its own pong is, or the
\* connection is lost: no session waits for an answer that will not come, after
\* which tick would never ping again (tick, handlePing, handlePong).
PingIsUnderWay ==
    \A n \in Node : \A p \in Peers(n) :
        HasSession(n, p) /\ session[n][p].pingOutstanding /\ {n, p} \notin cut =>
            \/ Ping(session[n][p].pingNonce) \in Range(chan[n][p])
            \/ Pong(session[n][p].pingNonce) \in Range(chan[p][n])
=============================================================================
