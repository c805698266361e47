--------------------------- MODULE Protocol_proofs ---------------------------
(***************************************************************************)
(* Proofs about Protocol, for any nodes, connections, trees of blocks,     *)
(* rules and bounds: types, the answers that are awaited, honest peers     *)
(* that are never dropped, nodes that nothing leaves behind, and messages  *)
(* that reach whom they are marked as sent to.                             *)
(*                                                                         *)
(* Each invariant is shown of every step by what the steps leave alone: a  *)
(* frame lemma (PingFrame, HonestFrame, GreetFrame, TellFrame, QuietFrame) *)
(* names what a step may do, and the lemmas per action show it.            *)
(***************************************************************************)
EXTENDS Protocol, Inductions

-----------------------------------------------------------------------------
(* Induction on heights. *)

\* What holds of a block when it holds of its parent holds of every block.
LEMMA BlockInduction ==
    ASSUME NEW S,
           \A b \in Blocks : (Parent[b] # NoBlock => Parent[b] \in S) => b \in S
    PROVE  Blocks \subseteq S
<1> DEFINE T == {Height[b] : b \in Blocks \ S}
<1> SUFFICES ASSUME NEW c \in Blocks \ S PROVE FALSE
  OBVIOUS
<1>1. T \in SUBSET Nat /\ T # {}
  BY ProtocolAssumption
<1>2. PICK b \in Blocks \ S : \A d \in Blocks \ S : ~(Height[d] < Height[b])
  BY <1>1, LeastNumber
<1>3. Parent[b] # NoBlock /\ Parent[b] \in Blocks \ S
  BY <1>2, ProtocolAssumption
<1>4. Height[b] = Height[Parent[b]] + 1 /\ Height[Parent[b]] \in Nat
  BY <1>3, ProtocolAssumption
<1> QED BY <1>2, <1>3, <1>4

-----------------------------------------------------------------------------
(* The ancestry of a block, which is defined by recursion on its parent. *)

\* The blocks that no set closed under parents leaves out once it has b.
ClosedSets == {S \in SUBSET Blocks : \A c \in S : Parent[c] # NoBlock => Parent[c] \in S}
Closure(b) == {c \in Blocks : \A S \in ClosedSets : b \in S => c \in S}

\* They satisfy the equation that defines Ancestry.
LEMMA ClosureUnfolds ==
    ASSUME NEW b \in Blocks
    PROVE  Closure(b) = {b} \cup (IF Parent[b] = NoBlock THEN {} ELSE Closure(Parent[b]))
<1> DEFINE above == {b} \cup (IF Parent[b] = NoBlock THEN {} ELSE Closure(Parent[b]))
<1>1. Parent[b] # NoBlock => Parent[b] \in Blocks
  BY ProtocolAssumption
<1>2. above \subseteq Closure(b)
  BY <1>1 DEF Closure, ClosedSets
<1>3. above \in ClosedSets
  <2>1. above \subseteq Blocks
    BY DEF Closure
  <2>2. ASSUME NEW c \in above, Parent[c] # NoBlock PROVE Parent[c] \in above
    <3>1. CASE c = b
      BY <3>1, <2>2, <1>1 DEF Closure
    <3>2. CASE Parent[b] # NoBlock /\ c \in Closure(Parent[b])
      <4>1. Parent[c] \in Blocks
        BY <3>2, <2>2, ProtocolAssumption DEF Closure
      <4>2. Parent[c] \in Closure(Parent[b])
        BY <3>2, <2>2, <4>1 DEF Closure, ClosedSets
      <4> QED BY <4>2, <3>2
    <3> QED BY <3>1, <3>2
  <2> QED BY <2>1, <2>2 DEF ClosedSets
<1>4. Closure(b) \subseteq above
  BY <1>3 DEF Closure
<1> QED BY <1>2, <1>4

\* Ancestry is a block and the ancestry of its parent.
LEMMA AncestryUnfolds ==
    /\ DOMAIN Ancestry = Blocks
    /\ \A b \in Blocks :
         Ancestry[b] = {b} \cup (IF Parent[b] = NoBlock THEN {} ELSE Ancestry[Parent[b]])
<1> DEFINE Unfolds(f) ==
      f = [b \in Blocks |-> {b} \cup (IF Parent[b] = NoBlock THEN {} ELSE f[Parent[b]])]
<1>1. Unfolds([b \in Blocks |-> Closure(b)])
  <2> DEFINE f == [b \in Blocks |-> Closure(b)]
  <2>1. ASSUME NEW b \in Blocks
        PROVE  Closure(b) = {b} \cup (IF Parent[b] = NoBlock THEN {} ELSE f[Parent[b]])
    <3>1. Parent[b] # NoBlock => f[Parent[b]] = Closure(Parent[b])
      BY ProtocolAssumption
    <3> HIDE DEF f
    <3> QED BY <3>1, ClosureUnfolds
  <2> QED BY <2>1
<1>2. Ancestry = CHOOSE f : Unfolds(f)
  BY DEF Ancestry
<1> HIDE DEF Unfolds
<1>3. Unfolds(Ancestry)
  BY <1>1, <1>2
<1> QED BY <1>3 DEF Unfolds

\* An ancestry stays in every set closed under parents.
LEMMA AncestryInside ==
    ASSUME NEW K \in ClosedSets, NEW b \in K
    PROVE  Ancestry[b] \subseteq K
<1> DEFINE S == {c \in Blocks : c \in K => Ancestry[c] \subseteq K}
<1>1. ASSUME NEW c \in Blocks, Parent[c] # NoBlock => Parent[c] \in S PROVE c \in S
  BY <1>1, AncestryUnfolds DEF ClosedSets
<1>2. Blocks \subseteq S
  BY <1>1, BlockInduction
<1> QED BY <1>2 DEF ClosedSets

LEMMA AncestryType ==
    ASSUME NEW b \in Blocks PROVE Ancestry[b] \subseteq Blocks
<1>1. Blocks \in ClosedSets
  BY ProtocolAssumption DEF ClosedSets
<1> QED BY <1>1, AncestryInside

-----------------------------------------------------------------------------
(* Types. *)

LEMMA MessagesAre ==
    ASSUME NEW m \in Message
    PROVE  /\ m.type = "status" => m.chain \in Range(ChainId) /\ m.height \in Nat
           /\ m.type \in {"ping", "pong"} => m.nonce \in Nat
           /\ m.type = "newBlock" => m.block \in Blocks
           /\ m.type = "getBlocks" => m.from \in Nat
           /\ m.type = "blocks" => m.blocks \in Seq(Blocks)
           /\ m.type = "newTx" => m.tx \in Txs
BY DEF Message

\* What a task holds, by what it does.
LEMMA TasksAre ==
    ASSUME NEW k \in Task
    PROVE  /\ k.do = "serve" => k.from \in Nat /\ k.blocks \in Seq(Blocks)
           /\ k.do = "batch" => /\ k.blocks \in Seq(Blocks) /\ k.blocks # <<>>
                               /\ k.at \in Nat \ {0} /\ k.accepted \in BOOLEAN
           /\ k.do = "single" => k.block \in Blocks
           /\ k.do = "relay" => k.tx \in Txs
           /\ k.do = "announce" => k.block \in Blocks /\ k.then \in SimpleTask
           /\ k.do = "send" => k.to \subseteq Node /\ k.message \in Message
                              /\ k.then \in SimpleTask
BY DEF Task, SimpleTask, Idle, Ask

LEMMA SimpleTasks ==
    /\ SimpleTask \subseteq Task
    /\ Idle \in SimpleTask /\ Ask \in SimpleTask
    /\ \A h \in Nat, bs \in Seq(Blocks) : Serve(h, bs) \in SimpleTask
    /\ \A bs \in Seq(Blocks) \ {<<>>}, i \in Nat \ {0}, some \in BOOLEAN :
          Batch(bs, i, some) \in SimpleTask
    /\ \A b \in Blocks : Single(b) \in SimpleTask
    /\ \A tx \in Txs : Relay(tx) \in SimpleTask
BY DEF Task, SimpleTask, Idle, Ask, Serve, Batch, Single, Relay

LEMMA OtherTasks ==
    ASSUME NEW then \in SimpleTask
    PROVE  /\ \A b \in Blocks : Announce(b, then) \in Task
           /\ \A to \in SUBSET Node, m \in Message : Send(to, m, then) \in Task
BY SimpleTasks DEF Task, Announce, Send

LEMMA MessagesMade ==
    /\ \A n \in Node, h \in Nat :
          [type |-> "status", chain |-> ChainId[n], height |-> h] \in Message
    /\ \A i \in Nat : Ping(i) \in Message /\ Pong(i) \in Message
    /\ \A b \in Blocks : NewBlock(b) \in Message
    /\ \A h \in Nat : GetBlocks(h) \in Message
    /\ \A bs \in Seq(Blocks) : BlocksOf(bs) \in Message
    /\ \A tx \in Txs : NewTx(tx) \in Message
BY ProtocolAssumption
DEF Message, Ping, Pong, NewBlock, GetBlocks, BlocksOf, NewTx, Range

\* The channels, after a message is sent or consumed.
Channels == [Node -> [Node -> Seq(Message)]]

LEMMA SentIs ==
    ASSUME NEW c \in Channels, NEW n \in Node, NEW p \in Node, NEW m \in Message
    PROVE  /\ Sent(c, n, p, m) \in Channels
           /\ {n, p} \notin cut => Sent(c, n, p, m)[n][p] = Append(c[n][p], m)
           /\ \A x, y \in Node :
                x # n \/ y # p \/ {n, p} \in cut => Sent(c, n, p, m)[x][y] = c[x][y]
BY DEF Sent, Channels

LEMMA ConsumedIs ==
    ASSUME chan \in Channels, NEW n \in Node, NEW p \in Node, chan[p][n] # <<>>
    PROVE  /\ Consumed(n, p) \in Channels
           /\ Incoming(n, p) \in Message
           /\ \A x, y \in Node :
                Consumed(n, p)[x][y] = IF x = p /\ y = n THEN Tail(chan[p][n]) ELSE chan[x][y]
BY DEF Consumed, Channels, Incoming

\* The task of a thread, after it is set.
LEMMA TurnIs ==
    ASSUME task \in [Node -> [Node -> Task]],
           NEW n \in Node, NEW t \in Node, NEW next \in Task, Turn(n, t, next)
    PROVE  /\ task' \in [Node -> [Node -> Task]]
           /\ \A x, y \in Node : task'[x][y] = IF x = n /\ y = t THEN next ELSE task[x][y]
BY DEF Turn

\* The session of a peer, after it is set.
Sessions == [Node -> [Node -> Session]]

LEMMA SessionIs ==
    ASSUME session \in Sessions, NEW n \in Node, NEW p \in Node, NEW s \in Session,
           session' = [session EXCEPT ![n][p] = s]
    PROVE  /\ session' \in Sessions
           /\ \A x, y \in Node : session'[x][y] = IF x = n /\ y = p THEN s ELSE session[x][y]
BY DEF Sessions

LEMMA SessionFields ==
    ASSUME NEW s \in Session
    PROVE  /\ \A h \in Nat : [s EXCEPT !.ready = TRUE, !.peerHeight = h] \in Session
           /\ \A seen \in SUBSET Blocks, h \in Nat :
                [s EXCEPT !.seenBlocks = seen, !.peerHeight = h] \in Session
           /\ \A seen \in SUBSET Blocks : [s EXCEPT !.seenBlocks = seen] \in Session
           /\ \A seen \in SUBSET Txs : [s EXCEPT !.seenTxs = seen] \in Session
           /\ \A i \in Nat : [s EXCEPT !.pingOutstanding = TRUE, !.pingNonce = i] \in Session
           /\ [s EXCEPT !.pingOutstanding = FALSE] \in Session
BY DEF Session

LEMMA NotedType ==
    ASSUME NEW S, NEW seen \in SUBSET S, NEW x \in S
    PROVE  Noted(seen, x) \in SUBSET S
BY DEF Noted

\* importBlock: what a node has stored only grows, and holds its head.
LEMMA ImportedIs ==
    ASSUME TypeOK, NEW n \in Node, NEW b \in Blocks, Imported(n, b)
    PROVE  /\ known' \in [Node -> SUBSET Blocks]
           /\ head' \in [Node -> Blocks] /\ \A x \in Node : head'[x] \in known'[x]
           /\ \A x \in Node : known[x] \subseteq known'[x]
BY DEF TypeOK, Imported

LEMMA ThenType ==
    ASSUME NEW n \in Node, NEW b \in Blocks, NEW next \in SimpleTask
    PROVE  Then(n, b, next) \in Task
BY OtherTasks, SimpleTasks DEF Then

\* The chains keep their types, and so does what a session is set to.
ChainsOK ==
    /\ known \in [Node -> SUBSET Blocks]
    /\ head \in [Node -> Blocks] /\ \A n \in Node : head[n] \in known[n]
Tasks == [Node -> [Node -> Task]]

\* Nothing but the sockets, and what is known of a connection.
LEMMA ConnectionTypes ==
    ASSUME TypeOK, NEW n \in Node, NEW p \in Node,
           AddPeer(n, p) \/ SendStatus(n, p) \/ Lose(n, p) \/ Close(n, p)
    PROVE  TypeOK'
<1>1. NewSession \in Session
  BY DEF NewSession, Session
<1>2. CASE AddPeer(n, p)
  BY <1>1, <1>2 DEF TypeOK, AddPeer, chainVars
<1>3. CASE SendStatus(n, p)
  <2>1. Status(n) \in Message
    BY MessagesMade, ProtocolAssumption DEF Status, TypeOK
  <2>2. chan' \in Channels
    BY <1>3, <2>1, SentIs DEF SendStatus, TypeOK, Channels
  <2> QED BY <1>3, <2>2 DEF TypeOK, SendStatus, chainVars, Channels
<1>4. CASE Lose(n, p)
  BY <1>4 DEF TypeOK, Lose, chainVars
<1>5. CASE Close(n, p)
  BY <1>1, <1>5 DEF TypeOK, Close, chainVars
<1> QED BY <1>2, <1>3, <1>4, <1>5

LEMMA HandshakeTypes ==
    ASSUME TypeOK, NEW n \in Node, NEW p \in Node,
           HandleStatus(n, p) \/ HandleNewBlock(n, p) \/ HandleGetBlocks(n, p)
             \/ HandleBlocks(n, p) \/ HandleNewTransaction(n, p)
             \/ HandlePing(n, p) \/ HandlePong(n, p)
    PROVE  TypeOK'
<1> DEFINE m == Incoming(n, p)
<1>0. /\ session \in Sessions /\ session[n][p] \in Session /\ task \in Tasks
      /\ Idle \in Task /\ Ask \in Task
  BY SimpleTasks DEF TypeOK, Sessions, Tasks
<1>1. chan \in Channels /\ chan[p][n] # <<>>
  BY DEF TypeOK, Channels, Receiving, HandleStatus, HandleNewBlock, HandleGetBlocks,
         HandleBlocks, HandleNewTransaction, HandlePing, HandlePong
<1>2. Consumed(n, p) \in Channels /\ m \in Message
  BY <1>1, ConsumedIs
<1> HIDE DEF m
<1>3. CASE HandleStatus(n, p)
  <2>1. m.height \in Nat
    BY <1>2, <1>3, MessagesAre DEF HandleStatus, Receiving, m
  <2>2. session' \in Sessions
    <3>1. CASE session' = [session EXCEPT ![n][p] = [@ EXCEPT !.ready = TRUE, !.peerHeight = m.height]]
      BY <1>0, <2>1, <3>1, SessionFields, SessionIs
    <3> QED BY <1>0, <1>3, <3>1 DEF HandleStatus, m
  <2>3. task' \in Tasks
    BY <1>0, <1>3, TurnIs DEF HandleStatus, Tasks
  <2> QED BY <1>2, <1>3, <2>2, <2>3
      DEF HandleStatus, Drop, TypeOK, chainVars, Channels, Sessions, Tasks
<1>4. CASE HandleNewBlock(n, p)
  <2>1. m.block \in Blocks
    BY <1>2, <1>4, MessagesAre DEF HandleNewBlock, Receiving, m
  <2>2. session' \in Sessions
    <3>1. session[n][p] \in Session
      BY DEF TypeOK
    <3>2. Noted(session[n][p].seenBlocks, m.block) \in SUBSET Blocks /\ Height[m.block] \in Nat
      BY <2>1, <3>1, NotedType, ProtocolAssumption DEF Session
    <3>3. CASE session' = [session EXCEPT ![n][p] = [session[n][p] EXCEPT
                 !.seenBlocks = Noted(session[n][p].seenBlocks, m.block),
                 !.peerHeight = IF Height[m.block] > session[n][p].peerHeight
                                THEN Height[m.block] ELSE session[n][p].peerHeight]]
      <4>1. (IF Height[m.block] > session[n][p].peerHeight
             THEN Height[m.block] ELSE session[n][p].peerHeight) \in Nat
        BY <3>1, <3>2 DEF Session
      <4> QED BY <1>0, <3>2, <3>3, <4>1, SessionFields, SessionIs
    <3> QED BY <1>0, <1>4, <3>3 DEF HandleNewBlock, m
  <2>3. task' \in Tasks
    <3>1. Single(m.block) \in Task
      BY <2>1, SimpleTasks
    <3> QED BY <1>0, <1>4, <3>1, TurnIs DEF HandleNewBlock, Tasks, m
  <2> QED BY <1>2, <1>4, <2>2, <2>3
      DEF HandleNewBlock, TypeOK, chainVars, netVars, Channels, Sessions, Tasks
<1>5. CASE HandleGetBlocks(n, p)
  <2>1. Serve(m.from, <<>>) \in Task
    <3>1. m.from \in Nat /\ <<>> \in Seq(Blocks)
      BY <1>2, <1>5, MessagesAre DEF HandleGetBlocks, Receiving, m
    <3> QED BY <3>1, SimpleTasks
  <2>2. task' \in Tasks
    BY <1>5, <2>1, TurnIs DEF HandleGetBlocks, TypeOK, Tasks, m
  <2> QED BY <1>2, <1>5, <2>2
      DEF HandleGetBlocks, TypeOK, chainVars, netVars, Channels, Tasks
<1>6. CASE HandleBlocks(n, p)
  <2>1. m.blocks \in Seq(Blocks)
    BY <1>2, <1>6, MessagesAre DEF HandleBlocks, Receiving, m
  <2>2. (IF m.blocks = <<>> THEN Idle ELSE Batch(m.blocks, 1, FALSE)) \in Task
    <3>1. CASE m.blocks # <<>>
      <4>1. m.blocks \in Seq(Blocks) \ {<<>>} /\ 1 \in Nat \ {0} /\ FALSE \in BOOLEAN
        BY <2>1, <3>1
      <4>2. Batch(m.blocks, 1, FALSE) \in Task
        BY <4>1, SimpleTasks
      <4> QED BY <4>2, <1>0
    <3> QED BY <1>0, <3>1
  <2>3. task' \in Tasks
    BY <1>6, <2>2, TurnIs DEF HandleBlocks, TypeOK, Tasks, m
  <2> QED BY <1>2, <1>6, <2>3
      DEF HandleBlocks, TypeOK, chainVars, netVars, Channels, Tasks
<1>7. CASE HandleNewTransaction(n, p)
  <2>1. m.tx \in Txs
    BY <1>2, <1>7, MessagesAre DEF HandleNewTransaction, Receiving, m
  <2>2. session' \in Sessions
    <3>1. session[n][p] \in Session
      BY DEF TypeOK
    <3>2. Noted(session[n][p].seenTxs, m.tx) \in SUBSET Txs
      BY <2>1, <3>1, NotedType DEF Session
    <3>3. CASE session' = [session EXCEPT ![n][p] = [session[n][p] EXCEPT
                                !.seenTxs = Noted(session[n][p].seenTxs, m.tx)]]
      BY <1>0, <3>2, <3>3, SessionFields, SessionIs
    <3> QED BY <1>0, <1>7, <3>3 DEF HandleNewTransaction, m
  <2>3. task' \in Tasks /\ admitted' \in [Node -> SUBSET Txs]
    <3>1. Relay(m.tx) \in Task
      BY <2>1, SimpleTasks
    <3>2. task' = task \/ Turn(n, p, Relay(m.tx))
      BY <1>7 DEF HandleNewTransaction, Admit, m
    <3>3. admitted' \in [Node -> SUBSET Txs]
      <4>1. admitted \in [Node -> SUBSET Txs] /\ admitted[n] \cup {m.tx} \in SUBSET Txs
        BY <2>1 DEF TypeOK
      <4>2. \/ admitted' = admitted
            \/ admitted' = [admitted EXCEPT ![n] = admitted[n] \cup {m.tx}]
        BY <1>7 DEF HandleNewTransaction, Admit, m
      <4> QED BY <4>1, <4>2
    <3> QED BY <1>0, <3>1, <3>2, <3>3, TurnIs DEF Tasks
  <2> QED BY <1>2, <1>7, <2>2, <2>3
      DEF HandleNewTransaction, TypeOK, chainVars, netVars, Channels, Sessions, Tasks
<1>8. CASE HandlePing(n, p)
  <2>1. Pong(m.nonce) \in Message
    BY <1>2, <1>8, MessagesAre, MessagesMade DEF HandlePing, Receiving, m
  <2>2. chan' \in Channels
    BY <1>2, <1>8, <2>1, SentIs DEF HandlePing, m
  <2> QED BY <1>8, <2>2 DEF HandlePing, TypeOK, chainVars, netVars, Channels
<1>9. CASE HandlePong(n, p)
  <2>1. session' \in Sessions
    <3>1. CASE session' = [session EXCEPT ![n][p] = [@ EXCEPT !.pingOutstanding = FALSE]]
      BY <1>0, <3>1, SessionFields, SessionIs
    <3> QED BY <1>0, <1>9, <3>1 DEF HandlePong
  <2> QED BY <1>2, <1>9, <2>1 DEF HandlePong, TypeOK, chainVars, netVars, Channels, Sessions
<1> QED BY <1>3, <1>4, <1>5, <1>6, <1>7, <1>8, <1>9

\* The loops and imports of a reader.
LEMMA ReaderTypes ==
    ASSUME TypeOK, NEW n \in Node, NEW p \in Node,
           Request(n, p) \/ ServeBlock(n, p) \/ ImportFrom(n, p) \/ ImportBatch(n, p)
             \/ FinishBatch(n, p) \/ ImportFails(n, p)
    PROVE  TypeOK'
<1> DEFINE k == task[n][p]
<1>1. /\ k \in Task /\ task \in Tasks /\ chan \in Channels
      /\ \A b \in Blocks : Height[b] \in Nat
      /\ head[n] \in Blocks /\ Idle \in Task
  <2>1. k \in Task /\ task \in Tasks /\ chan \in Channels /\ head[n] \in Blocks
    BY DEF TypeOK, Tasks, Channels
  <2>2. (\A b \in Blocks : Height[b] \in Nat) /\ Idle \in Task
    BY SimpleTasks, ProtocolAssumption
  <2> QED BY <2>1, <2>2
<1> HIDE DEF k
<1>2. CASE Request(n, p)
  <2>1. chan' \in Channels
    <3>1. GetBlocks(Height[head[n]] + 1) \in Message
      BY <1>1, MessagesMade
    <3> QED BY <1>1, <1>2, <3>1, SentIs DEF Request
  <2>2. task' \in Tasks
    BY <1>1, <1>2, TurnIs DEF Request, Tasks
  <2> QED BY <1>2, <2>1, <2>2 DEF Request, TypeOK, chainVars, netVars, Channels, Tasks
<1>3. CASE ServeBlock(n, p)
  <2>1. k.do = "serve" /\ k.from \in Nat /\ k.blocks \in Seq(Blocks)
    BY <1>1, <1>3, TasksAre DEF ServeBlock, k
  <2>2. \A h : Canonical(n, h) \subseteq Blocks
    BY <1>1, AncestryType DEF Canonical
  <2>3. chan' \in Channels /\ task' \in Tasks
    <3>1. ASSUME NEW b \in Blocks, Turn(n, p, Serve(k.from, Append(k.blocks, b)))
          PROVE  task' \in Tasks
      <4>0. Append(k.blocks, b) \in Seq(Blocks)
        BY <2>1
      <4>1. Serve(k.from, Append(k.blocks, b)) \in Task
        BY <2>1, <4>0, SimpleTasks
      <4> QED BY <1>1, <3>1, <4>1, TurnIs DEF Tasks
    <3>2. BlocksOf(k.blocks) \in Message
      BY <2>1, MessagesMade
    <3>3. CASE Turn(n, p, Idle) /\ chan' = Sent(chan, n, p, BlocksOf(k.blocks))
      BY <1>1, <3>2, <3>3, SentIs, TurnIs DEF Tasks
    <3> QED BY <1>1, <1>3, <2>2, <3>1, <3>3 DEF ServeBlock, k
  <2> QED BY <1>3, <2>3 DEF ServeBlock, TypeOK, chainVars, netVars, Channels, Tasks
<1>4. CASE ImportFrom(n, p)
  <2>1. k.block \in Blocks /\ Imported(n, k.block)
    BY <1>1, <1>4, TasksAre DEF ImportFrom, k
  <2>2. ChainsOK'
    BY <2>1, ImportedIs DEF ChainsOK
  <2>3. task' \in Tasks
    <3>1. Then(n, k.block, IF Outcome(n, k.block) = "orphaned" THEN Ask ELSE Idle) \in Task
      BY <2>1, ThenType, SimpleTasks
    <3> QED BY <1>1, <1>4, <3>1, TurnIs DEF ImportFrom, Tasks, k
  <2> QED BY <1>4, <2>2, <2>3 DEF ImportFrom, Drop, TypeOK, ChainsOK, Tasks
<1>5. CASE ImportBatch(n, p)
  <2>1. /\ k.blocks \in Seq(Blocks) /\ k.blocks # <<>>
        /\ k.at \in Nat \ {0} /\ k.accepted \in BOOLEAN /\ k.at <= Len(k.blocks)
    BY <1>1, <1>5, TasksAre DEF ImportBatch, k
  <2>2. k.blocks[k.at] \in Blocks /\ Imported(n, k.blocks[k.at])
    BY <1>5, <2>1 DEF ImportBatch, k
  <2>3. ChainsOK'
    BY <2>2, ImportedIs DEF ChainsOK
  <2>4. task' \in Tasks
    <3>1. \A some \in BOOLEAN :
             Then(n, k.blocks[k.at], Batch(k.blocks, k.at + 1, some)) \in Task
      BY <2>1, <2>2, ThenType, SimpleTasks
    <3> QED BY <1>1, <1>5, <2>1, <3>1, TurnIs DEF ImportBatch, Tasks, k
  <2> QED BY <1>5, <2>3, <2>4 DEF ImportBatch, Drop, TypeOK, ChainsOK, Tasks
<1>6. CASE FinishBatch(n, p)
  <2>1. k.blocks \in Seq(Blocks) /\ k.blocks # <<>>
    BY <1>1, <1>6, TasksAre DEF FinishBatch, k
  <2>2. k.blocks[1] \in Blocks /\ Last(k.blocks) \in Blocks
    BY <2>1 DEF Last
  <2>3. /\ GetBlocks(Back(Height[k.blocks[1]])) \in Message
        /\ GetBlocks(Height[Last(k.blocks)] + 1) \in Message
    BY <1>1, <2>2, MessagesMade, ProtocolAssumption DEF Back
  <2>4. \/ chan' = chan
        \/ chan' = Sent(chan, n, p, GetBlocks(Back(Height[k.blocks[1]])))
        \/ chan' = Sent(chan, n, p, GetBlocks(Height[Last(k.blocks)] + 1))
    BY <1>6 DEF FinishBatch, k
  <2>5. chan' \in Channels
    BY <1>1, <2>3, <2>4, SentIs
  <2>6. task' \in Tasks
    BY <1>1, <1>6, TurnIs DEF FinishBatch, Tasks
  <2> QED BY <1>6, <2>5, <2>6 DEF FinishBatch, Drop, TypeOK, chainVars, Channels, Tasks
<1>7. CASE ImportFails(n, p)
  <2>1. task' \in Tasks
    BY <1>1, <1>7, TurnIs DEF ImportFails, Tasks
  <2>2. failures' \in 0 .. MaxFailures
    BY <1>7, ProtocolAssumption DEF ImportFails, TypeOK
  <2> QED BY <1>7, <2>1, <2>2 DEF ImportFails, TypeOK, netVars, Tasks
<1> QED BY <1>2, <1>3, <1>4, <1>5, <1>6, <1>7

\* What goes to several peers, and what begins in the node.
LEMMA AnnouncementTypes ==
    ASSUME TypeOK, NEW n \in Node, NEW t \in Node,
           AnnounceBlock(n, t) \/ AnnounceTransaction(n, t) \/ SendNext(n, t)
    PROVE  TypeOK'
<1> DEFINE k == task[n][t]
<1>1. k \in Task /\ task \in Tasks /\ chan \in Channels /\ session \in Sessions
  BY DEF TypeOK, Tasks, Channels, Sessions
<1> HIDE DEF k
<1>2. CASE AnnounceBlock(n, t)
  <2> DEFINE targets == {p \in Ready(n) : k.block \notin session[n][p].seenBlocks}
  <2>1. k.block \in Blocks /\ k.then \in SimpleTask
    BY <1>1, <1>2, TasksAre DEF AnnounceBlock, k
  <2>2. Send(targets, NewBlock(k.block), k.then) \in Task
    BY <2>1, OtherTasks, MessagesMade DEF Ready
  <2>3. MarkBlock(n, targets, k.block) /\ Turn(n, t, Send(targets, NewBlock(k.block), k.then))
    BY <1>2 DEF AnnounceBlock, k
  <2>4. session' \in Sessions
    <3>1. \A p \in Node : Noted(session[n][p].seenBlocks, k.block) \in SUBSET Blocks
      BY <1>1, <2>1, NotedType DEF Sessions, Session
    <3> HIDE DEF targets
    <3>2. \A p \in Node : 
            [session[n][p] EXCEPT !.seenBlocks = Noted(session[n][p].seenBlocks, k.block)] \in Session
      BY <1>1, <3>1, SessionFields DEF Sessions
    <3> QED BY <1>1, <2>3, <3>2 DEF MarkBlock, Sessions
  <2>5. task' \in Tasks
    BY <1>1, <2>2, <2>3, TurnIs DEF Tasks
  <2> QED BY <1>2, <2>4, <2>5 DEF AnnounceBlock, TypeOK, chainVars, netVars, Sessions, Tasks
<1>3. CASE AnnounceTransaction(n, t)
  <2> DEFINE targets == {p \in Ready(n) : k.tx \notin session[n][p].seenTxs}
  <2>1. k.tx \in Txs
    BY <1>1, <1>3, TasksAre DEF AnnounceTransaction, k
  <2>2. Send(targets, NewTx(k.tx), Idle) \in Task
    BY <2>1, OtherTasks, SimpleTasks, MessagesMade DEF Ready
  <2>3. MarkTx(n, targets, k.tx) /\ Turn(n, t, Send(targets, NewTx(k.tx), Idle))
    BY <1>3 DEF AnnounceTransaction, k
  <2>4. session' \in Sessions
    <3>1. \A p \in Node : Noted(session[n][p].seenTxs, k.tx) \in SUBSET Txs
      BY <1>1, <2>1, NotedType DEF Sessions, Session
    <3> HIDE DEF targets
    <3>2. \A p \in Node : 
            [session[n][p] EXCEPT !.seenTxs = Noted(session[n][p].seenTxs, k.tx)] \in Session
      BY <1>1, <3>1, SessionFields DEF Sessions
    <3> QED BY <1>1, <2>3, <3>2 DEF MarkTx, Sessions
  <2>5. task' \in Tasks
    BY <1>1, <2>2, <2>3, TurnIs DEF Tasks
  <2> QED BY <1>3, <2>4, <2>5
      DEF AnnounceTransaction, TypeOK, chainVars, netVars, Sessions, Tasks
<1>4. CASE SendNext(n, t)
  <2>1. k.to \subseteq Node /\ k.message \in Message /\ k.then \in SimpleTask
    BY <1>1, <1>4, TasksAre DEF SendNext, k
  <2>2. PICK p \in k.to : /\ chan' = Sent(chan, n, p, k.message)
                          /\ Turn(n, t, Send(k.to \ {p}, k.message, k.then))
    BY <1>4 DEF SendNext, k
  <2>3. Send(k.to \ {p}, k.message, k.then) \in Task
    BY <2>1, OtherTasks
  <2>4. chan' \in Channels /\ task' \in Tasks
    BY <1>1, <2>1, <2>2, <2>3, SentIs, TurnIs DEF Tasks
  <2> QED BY <1>4, <2>4 DEF SendNext, TypeOK, chainVars, netVars, Channels, Tasks
<1> QED BY <1>2, <1>3, <1>4

LEMMA BeginningTypes ==
    ASSUME TypeOK, NEW n \in Node,
           \/ \E b \in Blocks : Mine(n, b)
           \/ \E tx \in Txs : SubmitTransaction(n, tx)
           \/ \E p \in Node : Tick(n, p)
    PROVE  TypeOK'
<1>1. task \in Tasks /\ chan \in Channels
  BY DEF TypeOK, Tasks, Channels
<1>2. ASSUME NEW b \in Blocks, Mine(n, b) PROVE TypeOK'
  <2>1. ChainsOK'
    BY <1>2, ImportedIs DEF Mine, ChainsOK
  <2>2. task' \in Tasks
    BY <1>1, <1>2, ThenType, SimpleTasks, TurnIs DEF Mine, Tasks
  <2> QED BY <1>2, <2>1, <2>2 DEF Mine, TypeOK, ChainsOK, netVars, Tasks
<1>3. ASSUME NEW tx \in Txs, SubmitTransaction(n, tx) PROVE TypeOK'
  <2>1. task' \in Tasks /\ admitted' \in [Node -> SUBSET Txs]
    <3>1. Relay(tx) \in Task
      BY SimpleTasks
    <3>2. Turn(n, n, Relay(tx))
      BY <1>3 DEF SubmitTransaction, Admit
    <3>3. admitted' \in [Node -> SUBSET Txs]
      <4>1. admitted \in [Node -> SUBSET Txs] /\ admitted[n] \cup {tx} \in SUBSET Txs
        BY DEF TypeOK
      <4>2. admitted' = [admitted EXCEPT ![n] = admitted[n] \cup {tx}]
        BY <1>3 DEF SubmitTransaction, Admit
      <4> QED BY <4>1, <4>2
    <3> QED BY <1>1, <3>1, <3>2, <3>3, TurnIs DEF Tasks
  <2> QED BY <1>3, <2>1 DEF SubmitTransaction, TypeOK, chainVars, netVars, Tasks
<1>4. ASSUME NEW p \in Node, Tick(n, p) PROVE TypeOK'
  <2>1. pings[n] + 1 \in Nat /\ pings[n] + 1 <= MaxPings[n]
    <3>1. pings[n] \in Nat /\ MaxPings[n] \in Nat /\ pings[n] < MaxPings[n]
      BY <1>4, ProtocolAssumption DEF Tick, TypeOK
    <3> QED BY <3>1
  <2>2. chan' \in Channels
    BY <1>1, <1>4, <2>1, MessagesMade, SentIs DEF Tick
  <2>3. session' \in Sessions
    <3>1. session \in Sessions /\ session[n][p] \in Session
      BY DEF TypeOK, Sessions
    <3>2. session' = [session EXCEPT ![n][p] =
                        [@ EXCEPT !.pingOutstanding = TRUE, !.pingNonce = pings[n] + 1]]
      BY <1>4 DEF Tick
    <3> QED BY <2>1, <3>1, <3>2, SessionFields, SessionIs
  <2>4. pings' \in [Node -> Nat] /\ \A x \in Node : pings'[x] <= MaxPings[x]
    BY <1>4, <2>1 DEF Tick, TypeOK
  <2> QED BY <1>4, <2>2, <2>3, <2>4 DEF Tick, TypeOK, chainVars, netVars, Channels, Sessions
<1> QED BY <1>2, <1>3, <1>4

\* Every variable keeps its type: in particular what is stored, served, asked and
\* sent in answer to any message of any peer is made of blocks and heights.
THEOREM TypeCorrect == Spec => []TypeOK
<1>1. Init => TypeOK
  <2> SUFFICES ASSUME Init PROVE TypeOK
    OBVIOUS
  <2>1. NewSession \in Session /\ Idle \in Task
    BY SimpleTasks DEF NewSession, Session
  <2>2. <<>> \in Seq(Message)
    OBVIOUS
  <2> QED BY <2>1, <2>2, ProtocolAssumption DEF Init, TypeOK
<1>2. TypeOK /\ [Next]_vars => TypeOK'
  <2> SUFFICES ASSUME TypeOK, [Next]_vars PROVE TypeOK'
    OBVIOUS
  <2>1. CASE \E n, t \in Node : ThreadStep(n, t)
    BY <2>1, ConnectionTypes, HandshakeTypes, ReaderTypes, AnnouncementTypes DEF ThreadStep
  <2>2. CASE \E n, p \in Node : Tick(n, p) \/ Lose(n, p) \/ ImportFails(n, p)
    BY <2>2, ConnectionTypes, ReaderTypes, BeginningTypes
  <2>3. CASE \E n \in Node : \/ \E b \in Blocks : Mine(n, b)
                            \/ \E tx \in Txs : SubmitTransaction(n, tx)
    BY <2>3, BeginningTypes
  <2>4. CASE UNCHANGED vars
    BY <2>4 DEF vars, TypeOK
  <2> QED BY <2>1, <2>2, <2>3, <2>4 DEF Next
<1> QED BY <1>1, <1>2, PTL DEF Spec

-----------------------------------------------------------------------------
(* The keepalive. *)

\* No session begins to wait, or waits for another answer.
WaitsNoMore ==
    \A x, y \in Node :
        HasSession(x, y)' /\ session'[x][y].pingOutstanding =>
            /\ HasSession(x, y) /\ session[x][y].pingOutstanding
            /\ session'[x][y].pingNonce = session[x][y].pingNonce

\* Where a connection lasts, no ping and no pong goes missing.
PingsStay ==
    \A x, y \in Node : {x, y} \notin cut' =>
        \A i \in Nat :
            /\ Ping(i) \in Range(chan[x][y]) => Ping(i) \in Range(chan'[x][y])
            /\ Pong(i) \in Range(chan[x][y]) => Pong(i) \in Range(chan'[x][y])

LEMMA PeersAreNodes ==
    ASSUME NEW n \in Node, NEW p \in Peers(n) PROVE p \in Node /\ p # n
BY ProtocolAssumption DEF Peers

LEMMA PingFrame ==
    ASSUME TypeOK, PingIsUnderWay, WaitsNoMore, PingsStay, cut \subseteq cut'
    PROVE  PingIsUnderWay'
<1> SUFFICES ASSUME NEW n \in Node, NEW p \in Peers(n), HasSession(n, p)',
                    session'[n][p].pingOutstanding, {n, p} \notin cut'
             PROVE  \/ Ping(session'[n][p].pingNonce) \in Range(chan'[n][p])
                    \/ Pong(session'[n][p].pingNonce) \in Range(chan'[p][n])
  BY DEF PingIsUnderWay, Peers
<1>1. p \in Node /\ {p, n} = {n, p}
  BY PeersAreNodes
<1>2. /\ HasSession(n, p) /\ session[n][p].pingOutstanding
      /\ session'[n][p].pingNonce = session[n][p].pingNonce
  BY <1>1 DEF WaitsNoMore
<1>3. session[n][p].pingNonce \in Nat
  BY <1>1 DEF TypeOK, Session
<1> QED BY <1>1, <1>2, <1>3 DEF PingIsUnderWay, PingsStay

LEMMA PingKinds ==
    /\ \A i : Ping(i).type = "ping" /\ Ping(i).nonce = i
    /\ \A i : Pong(i).type = "pong" /\ Pong(i).nonce = i
BY DEF Ping, Pong

\* A message sent is there; no message goes when one is sent, or another is read.
LEMMA InRange ==
    ASSUME NEW s \in Seq(Message), NEW x
    PROVE  x \in Range(s) <=> \E i \in 1 .. Len(s) : s[i] = x
<1>1. DOMAIN s = 1 .. Len(s)
  OBVIOUS
<1> QED BY <1>1 DEF Range

LEMMA SentKeeps ==
    ASSUME NEW c \in Channels, NEW n \in Node, NEW p \in Node, NEW m \in Message
    PROVE  /\ \A x, y \in Node : Range(c[x][y]) \subseteq Range(Sent(c, n, p, m)[x][y])
           /\ {n, p} \notin cut => m \in Range(Sent(c, n, p, m)[n][p])
<1>1. ASSUME NEW s \in Seq(Message)
      PROVE  Range(s) \cup {m} \subseteq Range(Append(s, m))
  <2>1. \A i \in 1 .. Len(s) : i \in 1 .. Len(Append(s, m)) /\ Append(s, m)[i] = s[i]
    OBVIOUS
  <2>2. Len(s) + 1 \in 1 .. Len(Append(s, m)) /\ Append(s, m)[Len(s) + 1] = m
    OBVIOUS
  <2>3. Append(s, m) \in Seq(Message)
    OBVIOUS
  <2>4. ASSUME NEW z \in Range(s) PROVE z \in Range(Append(s, m))
    <3>1. PICK i \in 1 .. Len(s) : s[i] = z
      BY InRange
    <3> QED BY <2>1, <2>3, <3>1, InRange
  <2> QED BY <2>2, <2>3, <2>4, InRange
<1>2. ASSUME NEW x \in Node, NEW y \in Node
      PROVE  Range(c[x][y]) \subseteq Range(Sent(c, n, p, m)[x][y])
  <2>1. c[n][p] \in Seq(Message)
    BY DEF Channels
  <2>2. \/ Sent(c, n, p, m)[x][y] = c[x][y]
        \/ c[x][y] = c[n][p] /\ Sent(c, n, p, m)[x][y] = Append(c[n][p], m)
    <3>1. CASE x = n /\ y = p /\ {n, p} \notin cut
      BY <3>1, SentIs
    <3>2. ASSUME x # n \/ y # p \/ {n, p} \in cut
          PROVE  Sent(c, n, p, m)[x][y] = c[x][y]
      BY <3>2 DEF Sent, Channels
    <3> QED BY <3>1, <3>2
  <2> QED BY <1>1, <2>1, <2>2
<1>3. {n, p} \notin cut => Sent(c, n, p, m)[n][p] = Append(c[n][p], m)
  BY SentIs
<1>4. c[n][p] \in Seq(Message)
  BY DEF Channels
<1> QED BY <1>1, <1>2, <1>3, <1>4

LEMMA ConsumedKeeps ==
    ASSUME chan \in Channels, NEW n \in Node, NEW p \in Node, chan[p][n] # <<>>,
           NEW x \in Node, NEW y \in Node,
           NEW m \in Range(chan[x][y]), m # Incoming(n, p)
    PROVE  m \in Range(Consumed(n, p)[x][y])
<1>1. \A s \in Seq(Message) : s # <<>> => Range(s) \subseteq {Head(s)} \cup Range(Tail(s))
  <2> SUFFICES ASSUME NEW s \in Seq(Message), s # <<>>, NEW z \in Range(s), z # Head(s)
               PROVE  z \in Range(Tail(s))
    OBVIOUS
  <2>1. PICK i \in 1 .. Len(s) : s[i] = z
    BY InRange
  <2>2. /\ Tail(s) \in Seq(Message) /\ i - 1 \in 1 .. Len(Tail(s))
        /\ Tail(s)[i - 1] = z
    BY <2>1
  <2> QED BY <2>2, InRange
<1>2. CASE x = p /\ y = n
  BY <1>1, <1>2, ConsumedIs DEF Channels, Incoming
<1>3. CASE ~(x = p /\ y = n)
  BY <1>3, ConsumedIs
<1> QED BY <1>2, <1>3

LEMMA ConnectionPings ==
    ASSUME TypeOK, PingIsUnderWay, NEW n \in Node, NEW p \in Node,
           AddPeer(n, p) \/ SendStatus(n, p) \/ Lose(n, p) \/ Close(n, p)
    PROVE  PingIsUnderWay'
<1>1. CASE AddPeer(n, p)
  <2>1. WaitsNoMore
    BY <1>1 DEF AddPeer, WaitsNoMore, HasSession, NewSession, TypeOK
  <2>2. PingsStay /\ cut \subseteq cut'
    BY <1>1 DEF AddPeer, PingsStay
  <2> QED BY <2>1, <2>2, PingFrame
<1>2. CASE SendStatus(n, p)
  <2>1. WaitsNoMore
    BY <1>2 DEF SendStatus, WaitsNoMore, HasSession, TypeOK
  <2>2. Status(n) \in Message /\ chan \in Channels
    BY MessagesMade, ProtocolAssumption DEF Status, TypeOK, Channels
  <2>3. PingsStay /\ cut \subseteq cut'
    BY <1>2, <2>2, SentKeeps DEF SendStatus, PingsStay
  <2> QED BY <2>1, <2>3, PingFrame
<1>3. CASE Lose(n, p)
  BY <1>3, PingFrame DEF Lose, WaitsNoMore, HasSession, PingsStay
<1>4. CASE Close(n, p)
  <2>1. WaitsNoMore
    BY <1>4 DEF Close, WaitsNoMore, HasSession, NewSession, TypeOK
  <2>2. \A x, y \in Node : {x, y} \notin cut' => chan'[x][y] = chan[x][y]
    <3>1. cut' = cut /\ {p, n} \in cut
      BY <1>4 DEF Close
    <3> QED BY <1>4, <3>1 DEF Close, TypeOK
  <2> QED BY <1>4, <2>1, <2>2, PingFrame DEF PingsStay, Close
<1> QED BY <1>1, <1>2, <1>3, <1>4

\* Every other message leaves what is awaited as it is.
LEMMA HandlerPings ==
    ASSUME TypeOK, PingIsUnderWay, NEW n \in Node, NEW p \in Node,
           HandleStatus(n, p) \/ HandleNewBlock(n, p) \/ HandleGetBlocks(n, p)
             \/ HandleBlocks(n, p) \/ HandleNewTransaction(n, p)
    PROVE  PingIsUnderWay'
<1>1. /\ chan \in Channels /\ chan[p][n] # <<>> /\ chan' = Consumed(n, p)
      /\ link' = link /\ cut \subseteq cut'
  BY DEF TypeOK, Channels, Receiving, Drop, netVars,
         HandleStatus, HandleNewBlock, HandleGetBlocks, HandleBlocks, HandleNewTransaction
<1>2. Incoming(n, p).type \notin {"ping", "pong"}
  BY DEF Receiving, HandleStatus, HandleNewBlock, HandleGetBlocks, HandleBlocks,
         HandleNewTransaction
<1>3. PingsStay
  <2>1. ASSUME NEW x \in Node, NEW y \in Node, NEW z \in Range(chan[x][y]),
               z.type \in {"ping", "pong"}
        PROVE  z \in Range(chan'[x][y])
    <3>1. z # Incoming(n, p)
      BY <1>2, <2>1
    <3> QED BY <1>1, <3>1, ConsumedKeeps
  <2> QED BY <2>1, PingKinds DEF PingsStay
<1>4. \A x, y \in Node : /\ session'[x][y].pingOutstanding = session[x][y].pingOutstanding
                         /\ session'[x][y].pingNonce = session[x][y].pingNonce
  <2> DEFINE s == session[n][p]
  <2>1. session \in Sessions /\ s \in Session
    BY DEF TypeOK, Sessions
  <2>2. \/ session' = session
        \/ \E h : session' = [session EXCEPT ![n][p] =
                                [s EXCEPT !.ready = TRUE, !.peerHeight = h]]
        \/ \E seen, h : session' = [session EXCEPT ![n][p] =
                                      [s EXCEPT !.seenBlocks = seen, !.peerHeight = h]]
        \/ \E seen : session' = [session EXCEPT ![n][p] = [s EXCEPT !.seenTxs = seen]]
    <3>1. CASE HandleStatus(n, p)
      BY <2>1, <3>1 DEF HandleStatus, Sessions
    <3>2. CASE HandleNewBlock(n, p)
      BY <2>1, <3>2 DEF HandleNewBlock
    <3>3. CASE HandleNewTransaction(n, p)
      BY <3>3 DEF HandleNewTransaction
    <3> QED BY <3>1, <3>2, <3>3 DEF HandleGetBlocks, HandleBlocks
  <2>3. session' = session \/ \E z : /\ session' = [session EXCEPT ![n][p] = z]
                                    /\ z.pingOutstanding = s.pingOutstanding
                                    /\ z.pingNonce = s.pingNonce
    <3> DEFINE Same(z) == /\ z.pingOutstanding = s.pingOutstanding
                          /\ z.pingNonce = s.pingNonce
    <3>1. \A h : Same([s EXCEPT !.ready = TRUE, !.peerHeight = h])
      BY <2>1 DEF Session
    <3>2. \A seen, h : Same([s EXCEPT !.seenBlocks = seen, !.peerHeight = h])
      BY <2>1 DEF Session
    <3>3. \A seen : Same([s EXCEPT !.seenTxs = seen])
      BY <2>1 DEF Session
    <3> HIDE DEF Same
    <3>4. session' = session \/ \E z : session' = [session EXCEPT ![n][p] = z] /\ Same(z)
      BY <2>2, <3>1, <3>2, <3>3, Zenon
    <3> QED BY <3>4 DEF Same
  <2> QED BY <2>1, <2>3 DEF Sessions
<1>5. WaitsNoMore
  BY <1>1, <1>4 DEF WaitsNoMore, HasSession
<1> QED BY <1>1, <1>3, <1>5, PingFrame

\* A ping is answered on the way back, and a pong ends the wait it is for.
LEMMA AnswerPings ==
    ASSUME TypeOK, PingIsUnderWay, NEW n \in Node, NEW p \in Node,
           HandlePing(n, p) \/ HandlePong(n, p)
    PROVE  PingIsUnderWay'
<1> DEFINE m == Incoming(n, p)
<1>1. chan \in Channels /\ chan[p][n] # <<>>
  BY DEF TypeOK, Channels, Receiving, HandlePing, HandlePong
<1>2. Consumed(n, p) \in Channels /\ m \in Message
  BY <1>1, ConsumedIs
<1>3. \A x, y \in Node, i \in Nat :
        /\ Ping(i) \in Range(chan[x][y]) =>
              \/ Ping(i) \in Range(Consumed(n, p)[x][y])
              \/ Ping(i) = m /\ x = p /\ y = n
        /\ Pong(i) \in Range(chan[x][y]) =>
              \/ Pong(i) \in Range(Consumed(n, p)[x][y])
              \/ Pong(i) = m /\ x = p /\ y = n
  <2>1. ASSUME NEW x \in Node, NEW y \in Node, NEW z \in Range(chan[x][y]), z \in Message
        PROVE  z \in Range(Consumed(n, p)[x][y]) \/ (z = m /\ x = p /\ y = n)
    <3>1. CASE z # m
      BY <1>1, <3>1, ConsumedKeeps
    <3>2. CASE z = m /\ ~(x = p /\ y = n)
      BY <1>1, <3>2, ConsumedIs
    <3> QED BY <3>1, <3>2
  <2> QED BY <2>1, MessagesMade
<1> HIDE DEF m
<1> SUFFICES ASSUME NEW x \in Node, NEW y \in Peers(x), HasSession(x, y)',
                    session'[x][y].pingOutstanding, {x, y} \notin cut'
             PROVE  \/ Ping(session'[x][y].pingNonce) \in Range(chan'[x][y])
                    \/ Pong(session'[x][y].pingNonce) \in Range(chan'[y][x])
  BY DEF PingIsUnderWay, Peers
<1>4. y \in Node /\ {y, x} = {x, y} /\ x # y
  BY PeersAreNodes
<1>5. session[x][y].pingNonce \in Nat
  BY <1>4 DEF TypeOK, Session
<1>6. CASE HandlePing(n, p)
  <2>1. /\ session' = session /\ link' = link /\ cut' = cut
        /\ m.type = "ping" /\ chan' = Sent(Consumed(n, p), n, p, Pong(m.nonce))
    BY <1>6 DEF HandlePing, netVars, Receiving, m
  <2>2. Pong(m.nonce) \in Message
    BY <1>2, <2>1, MessagesAre, MessagesMade
  <2>3. \/ Ping(session[x][y].pingNonce) \in Range(chan[x][y])
        \/ Pong(session[x][y].pingNonce) \in Range(chan[y][x])
    BY <2>1 DEF PingIsUnderWay, HasSession
  <2>4. CASE Ping(session[x][y].pingNonce) = m /\ x = p /\ y = n
    BY <1>2, <1>4, <2>1, <2>2, <2>4, SentKeeps, PingKinds
  <2>5. CASE Pong(session[x][y].pingNonce) = m
    BY <2>1, <2>5, PingKinds
  <2>6. \A a, b \in Node : Range(Consumed(n, p)[a][b]) \subseteq Range(chan'[a][b])
    BY <1>2, <2>1, <2>2, SentKeeps
  <2> QED BY <1>3, <1>4, <1>5, <2>1, <2>3, <2>4, <2>5, <2>6
<1>7. CASE HandlePong(n, p)
  <2>1. /\ link' = link /\ cut' = cut /\ m.type = "pong" /\ chan' = Consumed(n, p)
    BY <1>7 DEF HandlePong, netVars, Receiving, m
  <2>2. /\ session[x][y].pingOutstanding
        /\ session'[x][y].pingNonce = session[x][y].pingNonce
        /\ ~(x = n /\ y = p /\ session[x][y].pingNonce = m.nonce)
    <3> DEFINE s == session[n][p]
    <3>1. session \in Sessions /\ s \in Session
      BY DEF TypeOK, Sessions
    <3>2. CASE session' = session /\ ~(s.pingOutstanding /\ s.pingNonce = m.nonce)
      BY <3>2
    <3>3. CASE session' = [session EXCEPT ![n][p] = [s EXCEPT !.pingOutstanding = FALSE]]
      <4>1. ~session'[n][p].pingOutstanding
        BY <3>1, <3>3 DEF Sessions, Session
      <4>2. (x = n /\ y = p) \/ session'[x][y] = session[x][y]
        BY <1>4, <3>1, <3>3 DEF Sessions
      <4>3. ~(x = n /\ y = p)
        BY <4>1
      <4> QED BY <4>2, <4>3
    <3> QED BY <1>7, <3>1, <3>2, <3>3 DEF HandlePong, Sessions, m
  <2>3. \/ Ping(session[x][y].pingNonce) \in Range(chan[x][y])
        \/ Pong(session[x][y].pingNonce) \in Range(chan[y][x])
    BY <2>1, <2>2 DEF PingIsUnderWay, HasSession
  <2> QED BY <1>3, <1>4, <1>5, <2>1, <2>2, <2>3, PingKinds
<1> QED BY <1>6, <1>7

LEMMA ReaderPings ==
    ASSUME TypeOK, PingIsUnderWay, NEW n \in Node, NEW p \in Node,
           Request(n, p) \/ ServeBlock(n, p) \/ ImportFrom(n, p) \/ ImportBatch(n, p)
             \/ FinishBatch(n, p) \/ ImportFails(n, p)
    PROVE  PingIsUnderWay'
<1> DEFINE k == task[n][p]
<1>1. k \in Task /\ chan \in Channels /\ head[n] \in Blocks
  BY DEF TypeOK, Channels
<1> HIDE DEF k
<1>2. session' = session /\ link' = link /\ cut \subseteq cut'
  BY DEF Request, ServeBlock, ImportFrom, ImportBatch, FinishBatch, ImportFails, Drop, netVars
<1>3. chan' = chan \/ \E m \in Message : chan' = Sent(chan, n, p, m)
  <2>1. CASE Request(n, p)
    <3>1. GetBlocks(Height[head[n]] + 1) \in Message
      <4>1. Height[head[n]] + 1 \in Nat
        BY <1>1, ProtocolAssumption
      <4> QED BY <4>1, MessagesMade
    <3> QED BY <2>1, <3>1 DEF Request
  <2>2. CASE ServeBlock(n, p)
    <3>1. BlocksOf(k.blocks) \in Message
      BY <1>1, <2>2, TasksAre, MessagesMade DEF ServeBlock, k
    <3> QED BY <2>2, <3>1 DEF ServeBlock, k
  <2>3. CASE ImportFrom(n, p) \/ ImportBatch(n, p) \/ ImportFails(n, p)
    BY <2>3 DEF ImportFrom, ImportBatch, ImportFails
  <2>4. CASE FinishBatch(n, p)
    <3>1. k.blocks \in Seq(Blocks) /\ k.blocks # <<>>
      BY <1>1, <2>4, TasksAre DEF FinishBatch, k
    <3>2. k.blocks[1] \in Blocks /\ Last(k.blocks) \in Blocks
      BY <3>1 DEF Last
    <3>3. /\ GetBlocks(Back(Height[k.blocks[1]])) \in Message
          /\ GetBlocks(Height[Last(k.blocks)] + 1) \in Message
      BY <3>2, MessagesMade, ProtocolAssumption DEF Back
    <3> QED BY <2>4, <3>3 DEF FinishBatch, k
  <2> QED BY <2>1, <2>2, <2>3, <2>4
<1>4. PingsStay
  BY <1>1, <1>3, SentKeeps DEF PingsStay
<1>5. WaitsNoMore
  BY <1>2 DEF WaitsNoMore, HasSession
<1> QED BY <1>2, <1>4, <1>5, PingFrame

LEMMA AnnouncementPings ==
    ASSUME TypeOK, PingIsUnderWay, NEW n \in Node, NEW t \in Node,
           AnnounceBlock(n, t) \/ AnnounceTransaction(n, t) \/ SendNext(n, t)
    PROVE  PingIsUnderWay'
<1>1. CASE SendNext(n, t)
  <2>1. task[n][t] \in Task /\ chan \in Channels
    BY DEF TypeOK, Channels
  <2>2. task[n][t].to \subseteq Node /\ task[n][t].message \in Message
    BY <1>1, <2>1, TasksAre DEF SendNext
  <2>3. \E p \in Node : chan' = Sent(chan, n, p, task[n][t].message)
    BY <1>1, <2>2 DEF SendNext
  <2>4. PingsStay
    BY <2>1, <2>2, <2>3, SentKeeps DEF PingsStay
  <2> QED BY <1>1, <2>4, PingFrame DEF SendNext, WaitsNoMore, HasSession, netVars
<1>2. CASE AnnounceBlock(n, t) \/ AnnounceTransaction(n, t)
  <2>1. \A x, y \in Node : /\ session'[x][y].pingOutstanding = session[x][y].pingOutstanding
                           /\ session'[x][y].pingNonce = session[x][y].pingNonce
    <3> SUFFICES ASSUME NEW x \in Node, NEW y \in Node
                 PROVE  /\ session'[x][y].pingOutstanding = session[x][y].pingOutstanding
                        /\ session'[x][y].pingNonce = session[x][y].pingNonce
      OBVIOUS
    <3>1. session \in Sessions /\ session[x][y] \in Session
      BY DEF TypeOK, Sessions
    <3>2. \/ session'[x][y] = session[x][y]
          \/ \E seen : session'[x][y] = [session[x][y] EXCEPT !.seenBlocks = seen]
          \/ \E seen : session'[x][y] = [session[x][y] EXCEPT !.seenTxs = seen]
      <4>1. ASSUME AnnounceBlock(n, t)
            PROVE  \/ session'[x][y] = session[x][y]
                   \/ \E seen : session'[x][y] = [session[x][y] EXCEPT !.seenBlocks = seen]
        BY <3>1, <4>1 DEF AnnounceBlock, MarkBlock, Sessions
      <4>2. ASSUME AnnounceTransaction(n, t)
            PROVE  \/ session'[x][y] = session[x][y]
                   \/ \E seen : session'[x][y] = [session[x][y] EXCEPT !.seenTxs = seen]
        BY <3>1, <4>2 DEF AnnounceTransaction, MarkTx, Sessions
      <4> QED BY <1>2, <4>1, <4>2
    <3> QED BY <3>1, <3>2 DEF Session
  <2> QED BY <1>2, <2>1, PingFrame
      DEF AnnounceBlock, AnnounceTransaction, PingsStay, WaitsNoMore, HasSession, netVars
<1> QED BY <1>1, <1>2

\* A ping that goes out is on its way.
LEMMA TickPings ==
    ASSUME TypeOK, PingIsUnderWay, NEW n \in Node, NEW p \in Node, Tick(n, p)
    PROVE  PingIsUnderWay'
<1>1. pings[n] + 1 \in Nat /\ chan \in Channels
  BY DEF TypeOK, Channels
<1>2. /\ chan' = Sent(chan, n, p, Ping(pings[n] + 1)) /\ link' = link /\ cut' = cut
      /\ Ping(pings[n] + 1) \in Message
  BY <1>1, MessagesMade DEF Tick, netVars
<1> SUFFICES ASSUME NEW x \in Node, NEW y \in Peers(x), HasSession(x, y)',
                    session'[x][y].pingOutstanding, {x, y} \notin cut'
             PROVE  \/ Ping(session'[x][y].pingNonce) \in Range(chan'[x][y])
                    \/ Pong(session'[x][y].pingNonce) \in Range(chan'[y][x])
  BY DEF PingIsUnderWay, Peers
<1>3. y \in Node
  BY PeersAreNodes
<1>4. CASE x = n /\ y = p
  <2>1. session'[x][y].pingNonce = pings[n] + 1
    BY <1>4 DEF Tick, TypeOK, Session
  <2> QED BY <1>1, <1>2, <1>4, <2>1, SentKeeps
<1>5. CASE ~(x = n /\ y = p)
  <2>1. session'[x][y] = session[x][y]
    BY <1>3, <1>5 DEF Tick, TypeOK
  <2> QED BY <1>1, <1>2, <1>3, <2>1, SentKeeps DEF PingIsUnderWay, HasSession
<1> QED BY <1>4, <1>5

LEMMA BeginningPings ==
    ASSUME TypeOK, PingIsUnderWay, NEW n \in Node,
           \/ \E b \in Blocks : Mine(n, b)
           \/ \E tx \in Txs : SubmitTransaction(n, tx)
    PROVE  PingIsUnderWay'
<1>1. session' = session /\ chan' = chan /\ link' = link /\ cut' = cut
  BY DEF Mine, SubmitTransaction, netVars
<1> QED BY <1>1, PingFrame DEF PingsStay, WaitsNoMore, HasSession

\* While a connection lasts, a ping that is awaited is on its way, or its pong is
\* (tick, handlePing, handlePong): the keepalive never waits for nothing.
THEOREM PingsStayUnderWay == Spec => []PingIsUnderWay
<1>1. Init => PingIsUnderWay
  <2> SUFFICES ASSUME Init, NEW n \in Node, NEW p \in Peers(n) PROVE ~HasSession(n, p)
    BY DEF PingIsUnderWay
  <2> QED BY PeersAreNodes DEF Init, HasSession
<1>2. TypeOK /\ PingIsUnderWay /\ [Next]_vars => PingIsUnderWay'
  <2> SUFFICES ASSUME TypeOK, PingIsUnderWay, [Next]_vars PROVE PingIsUnderWay'
    OBVIOUS
  <2>1. CASE \E n, t \in Node : ThreadStep(n, t)
    BY <2>1, ConnectionPings, HandlerPings, AnswerPings, ReaderPings, AnnouncementPings
    DEF ThreadStep
  <2>2. CASE \E n, p \in Node : Tick(n, p) \/ Lose(n, p) \/ ImportFails(n, p)
    BY <2>2, ConnectionPings, ReaderPings, TickPings
  <2>3. CASE \E n \in Node : \/ \E b \in Blocks : Mine(n, b)
                            \/ \E tx \in Txs : SubmitTransaction(n, tx)
    BY <2>3, BeginningPings
  <2>4. CASE UNCHANGED vars
    BY <2>4 DEF vars, PingIsUnderWay, HasSession
  <2> QED BY <2>1, <2>2, <2>3, <2>4 DEF Next
<1> QED BY <1>1, <1>2, TypeCorrect, PTL DEF Spec

-----------------------------------------------------------------------------
(* Honest peers. *)

\* Stored blocks hang from one genesis, and the others were accepted.
Rooted(S, accepted, root) ==
    /\ root \in S /\ Parent[root] = NoBlock
    /\ \A b \in S : b = root \/ (Parent[b] \in S /\ b \in accepted)

ChainInv == \A n \in Node : Rooted(known[n], Accepts[n], Genesis(n))

\* What a node that has stored the blocks of S says of itself and of its chain.
Told(m, p, S) ==
    /\ m.type = "status" => m.chain = ChainId[p]
    /\ m.type = "newBlock" => m.block \in S
    /\ m.type = "blocks" => Range(m.blocks) \subseteq S

\* What a thread goes on to after an announcement.
Rest(k) == IF k.do \in {"announce", "send"} THEN k.then ELSE k

\* A thread of a node that has stored S handles blocks its peer has stored, P; a
\* batch of which nothing has connected does not begin where the node's chain does.
Handles(k, n, S, P, root) ==
    /\ k.do = "announce" => k.block \in S
    /\ k.do = "send" => Told(k.message, n, S)
    /\ Rest(k).do = "serve" => Range(Rest(k).blocks) \subseteq S
    /\ Rest(k).do = "single" => Rest(k).block \in P
    /\ Rest(k).do = "batch" =>
          /\ Range(Rest(k).blocks) \subseteq P
          /\ Rest(k).at > 1 /\ ~Rest(k).accepted =>
                root \notin {Rest(k).blocks[1], Parent[Rest(k).blocks[1]]}

ChanInv == \A p, n \in Node : \A m \in Range(chan[p][n]) : Told(m, p, known[p])
TaskInv == \A n, p \in Node : Handles(task[n][p], n, known[n], known[p], Genesis(n))

HonestInv == ChainInv /\ ChanInv /\ TaskInv /\ HonestPeerIsKept

\* What a step may do: store blocks under the same genesis, say what is so, take up
\* what a handler may, drop the nodes of other networks.
Grows ==
    /\ ChainInv'
    /\ \A x \in Node : known[x] \subseteq known'[x] /\ Genesis(x)' = Genesis(x)
SaysTruth ==
    \A x, y \in Node : \A m \in Range(chan'[x][y]) :
        m \in Range(chan[x][y]) \/ Told(m, x, known'[x])
HandlesOnly ==
    \A x, y \in Node :
        \/ task'[x][y] = task[x][y]
        \/ Handles(task'[x][y], x, known'[x], known'[y], Genesis(x))
DropsStrangers ==
    \A x, y \in Node :
        {x, y} \in cut' \ lost' => {x, y} \in cut \ lost \/ ~Alike(x, y)

LEMMA HonestFrame ==
    ASSUME HonestInv, Grows, SaysTruth, HandlesOnly, DropsStrangers
    PROVE  HonestInv'
<1>1. ASSUME NEW x \in Node, NEW y \in Node, NEW m \in Range(chan'[x][y])
      PROVE  Told(m, x, known'[x])
  BY <1>1 DEF HonestInv, ChanInv, Grows, SaysTruth, Told
<1>2. ASSUME NEW x \in Node, NEW y \in Node
      PROVE  Handles(task'[x][y], x, known'[x], known'[y], Genesis(x))
  <2>1. CASE task'[x][y] = task[x][y]
    <3>1. /\ Handles(task[x][y], x, known[x], known[y], Genesis(x))
          /\ known[x] \subseteq known'[x] /\ known[y] \subseteq known'[y]
      BY DEF HonestInv, TaskInv, Grows
    <3> QED BY <2>1, <3>1 DEF Handles, Told
  <2> QED BY <2>1 DEF HandlesOnly
<1>3. ASSUME NEW x \in Node, NEW y \in Node, {x, y} \in cut' \ lost'
      PROVE  ~Alike(x, y)'
  <2>1. ~Alike(x, y)
    BY <1>3 DEF HonestInv, HonestPeerIsKept, DropsStrangers
  <2>2. Genesis(x)' = Genesis(x) /\ Genesis(y)' = Genesis(y)
    BY DEF Grows
  <2> QED BY <2>1, <2>2 DEF Alike
<1>4. ChanInv'
  BY <1>1 DEF ChanInv
<1>5. TaskInv'
  BY <1>2 DEF TaskInv, Grows
<1>6. HonestPeerIsKept'
  BY <1>3 DEF HonestPeerIsKept
<1> QED BY <1>4, <1>5, <1>6 DEF HonestInv, Grows

-----------------------------------------------------------------------------
(* The chain of a node has one genesis block, which stays. *)

Root(b) == CHOOSE c \in Ancestry[b] : Parent[c] = NoBlock

LEMMA RootedRoot ==
    ASSUME NEW S \in SUBSET Blocks, NEW accepted, NEW root, Rooted(S, accepted, root),
           NEW b \in S
    PROVE  Ancestry[b] \subseteq S /\ root \in Ancestry[b] /\ Root(b) = root
<1>1. root \in Blocks /\ Parent[root] = NoBlock /\ NoBlock \notin S
  BY ProtocolAssumption DEF Rooted
<1>2. S \in ClosedSets
  BY DEF Rooted, ClosedSets
<1>3. Ancestry[b] \subseteq S
  BY <1>2, AncestryInside
<1>4. root \in Ancestry[b]
  <2> DEFINE T == {c \in Blocks : c \in S => root \in Ancestry[c]}
  <2>1. ASSUME NEW c \in Blocks, Parent[c] # NoBlock => Parent[c] \in T PROVE c \in T
    BY <1>1, <2>1, AncestryUnfolds DEF Rooted
  <2>2. Blocks \subseteq T
    BY <2>1, BlockInduction
  <2> QED BY <2>2
<1>5. \A c \in Ancestry[b] : Parent[c] = NoBlock => c = root
  BY <1>1, <1>3 DEF Rooted
<1> QED BY <1>1, <1>3, <1>4, <1>5 DEF Root

\* importBlock grows a chain that hangs from the same block.
LEMMA ImportGrows ==
    ASSUME TypeOK, ChainInv, NEW n \in Node, NEW b \in Blocks, Imported(n, b)
    PROVE  /\ Grows
           /\ Outcome(n, b) \in {"imported", "reorged"} => b \in known'[n]
<1>1. /\ known' \in [Node -> SUBSET Blocks]
      /\ \A x \in Node : head'[x] \in known'[x] /\ known[x] \subseteq known'[x]
  BY ImportedIs
<1>2. ASSUME NEW x \in Node
      PROVE  Rooted(known'[x], Accepts[x], Genesis(x))
  <2>1. Rooted(known[x], Accepts[x], Genesis(x))
    BY DEF ChainInv
  <2>2. \/ known'[x] = known[x]
        \/ /\ known'[x] = known[x] \cup {b}
           /\ Parent[b] \in known[x] /\ b \in Accepts[x]
    BY DEF Imported, Outcome, TypeOK
  <2> QED BY <2>1, <2>2 DEF Rooted
<1>3. ASSUME NEW x \in Node PROVE Genesis(x)' = Genesis(x)
  <2>1. Root(head'[x]) = Genesis(x)
    BY <1>1, <1>2, RootedRoot
  <2> QED BY <2>1 DEF Root, Genesis
<1>4. ChainInv'
  BY <1>2, <1>3 DEF ChainInv
<1>5. Outcome(n, b) \in {"imported", "reorged"} => b \in known'[n]
  BY DEF Imported, TypeOK
<1> QED BY <1>1, <1>3, <1>4, <1>5 DEF Grows

LEMMA SameChains ==
    ASSUME ChainInv, UNCHANGED <<known, head>> PROVE Grows
BY DEF ChainInv, Grows, Genesis

\* The chain from the head is stored.
LEMMA CanonicalKnown ==
    ASSUME TypeOK, ChainInv, NEW n \in Node, NEW h
    PROVE  Canonical(n, h) \subseteq known[n]
BY RootedRoot DEF TypeOK, ChainInv, Canonical

\* A block that an honest peer has stored is not invalid.
LEMMA PeersBlocksAccepted ==
    ASSUME TypeOK, ChainInv, NEW n \in Node, NEW p \in Node, Alike(n, p),
           NEW b \in known[p]
    PROVE  Outcome(n, b) # "invalid"
<1>1. Rooted(known[n], Accepts[n], Genesis(n)) /\ Rooted(known[p], Accepts[p], Genesis(p))
  BY DEF ChainInv
<1>2. Genesis(n) = Genesis(p) /\ Accepts[n] = Accepts[p]
  BY DEF Alike
<1> QED BY <1>1, <1>2 DEF Rooted, Outcome

\* The block of height 1 that an honest peer has stored hangs from the genesis of
\* both, as that of height 0 is it.
LEMMA LowBlocksConnect ==
    ASSUME TypeOK, ChainInv, NEW p \in Node, NEW b \in known[p], AtGenesis(Height[b])
    PROVE  Genesis(p) \in {b, Parent[b]}
<1>1. Rooted(known[p], Accepts[p], Genesis(p))
  BY DEF ChainInv
<1>2. known[p] \subseteq Blocks /\ NoBlock \notin known[p]
  BY ProtocolAssumption DEF TypeOK
<1>3. \A c \in known[p] : /\ Height[c] \in Nat
                          /\ Parent[c] # NoBlock => Height[c] = Height[Parent[c]] + 1
  BY <1>2, ProtocolAssumption
<1> SUFFICES ASSUME b # Genesis(p) PROVE Parent[b] = Genesis(p)
  OBVIOUS
<1>4. Parent[b] \in known[p] /\ Height[Parent[b]] = 0
  BY <1>1, <1>2, <1>3 DEF Rooted, AtGenesis
<1> QED BY <1>1, <1>2, <1>3, <1>4 DEF Rooted

-----------------------------------------------------------------------------
(* What is said and what is handled. *)

LEMMA MessagesSay ==
    ASSUME NEW p \in Node, NEW S
    PROVE  /\ Told(Status(p), p, S)
           /\ \A i : Told(Ping(i), p, S) /\ Told(Pong(i), p, S)
           /\ \A b \in S : Told(NewBlock(b), p, S)
           /\ \A h : Told(GetBlocks(h), p, S)
           /\ \A bs : Range(bs) \subseteq S => Told(BlocksOf(bs), p, S)
           /\ \A tx : Told(NewTx(tx), p, S)
BY DEF Told, Status, Ping, Pong, NewBlock, GetBlocks, BlocksOf, NewTx

LEMMA SimpleHandles ==
    ASSUME NEW n \in Node, NEW S, NEW P, NEW root
    PROVE  /\ Handles(Idle, n, S, P, root) /\ Handles(Ask, n, S, P, root)
           /\ \A h, bs : Range(bs) \subseteq S => Handles(Serve(h, bs), n, S, P, root)
           /\ \A b \in P : Handles(Single(b), n, S, P, root)
           /\ \A tx : Handles(Relay(tx), n, S, P, root)
           /\ \A bs, some : Range(bs) \subseteq P => Handles(Batch(bs, 1, some), n, S, P, root)
BY DEF Handles, Rest, Idle, Ask, Serve, Single, Relay, Batch

\* An announcement says a block that is stored and goes on as before.
LEMMA OtherHandles ==
    ASSUME NEW n \in Node, NEW S, NEW P, NEW root, NEW then \in SimpleTask,
           Handles(then, n, S, P, root)
    PROVE  /\ \A b \in S : Handles(Announce(b, then), n, S, P, root)
           /\ \A to, m : Told(m, n, S) => Handles(Send(to, m, then), n, S, P, root)
<1>1. then.do \notin {"announce", "send"}
  BY DEF SimpleTask, Idle, Ask
<1>2. Rest(then) = then
  BY <1>1 DEF Rest
<1>3. ASSUME NEW b \in S PROVE Handles(Announce(b, then), n, S, P, root)
  <2>1. Rest(Announce(b, then)) = then
    BY DEF Rest, Announce
  <2>2. Announce(b, then).do = "announce" /\ Announce(b, then).block = b
    BY DEF Announce
  <2> QED BY <1>2, <2>1, <2>2 DEF Handles
<1>4. ASSUME NEW to, NEW m, Told(m, n, S), to # {}
      PROVE  Handles(Send(to, m, then), n, S, P, root)
  <2> DEFINE k == Send(to, m, then)
  <2>1. k.do = "send" /\ k.message = m /\ k.then = then
    BY <1>4 DEF Send
  <2> HIDE DEF k
  <2>2. Rest(k) = then
    BY <2>1 DEF Rest
  <2>3. Handles(k, n, S, P, root)
    BY <1>2, <1>4, <2>1, <2>2 DEF Handles
  <2> QED BY <2>3 DEF k
<1>5. ASSUME NEW to, NEW m, to = {} PROVE Handles(Send(to, m, then), n, S, P, root)
  BY <1>5 DEF Send
<1> QED BY <1>3, <1>4, <1>5

LEMMA RestHandles ==
    ASSUME NEW n \in Node, NEW S, NEW P, NEW root, NEW k \in Task,
           k.do \in {"announce", "send"}, Handles(k, n, S, P, root)
    PROVE  k.then \in SimpleTask /\ Handles(k.then, n, S, P, root)
<1>1. k.then \in SimpleTask
  BY TasksAre
<1>2. k.then.do \notin {"announce", "send"}
  BY <1>1 DEF SimpleTask, Idle, Ask
<1>3. Rest(k) = k.then /\ Rest(k.then) = k.then
  BY <1>2 DEF Rest
<1> QED BY <1>1, <1>2, <1>3 DEF Handles

\* What is sent or consumed adds no other message.
LEMMA AppendedOnly ==
    ASSUME NEW c \in Channels, NEW n \in Node, NEW p \in Node, NEW m \in Message,
           NEW x \in Node, NEW y \in Node,
           NEW z \in Range(Sent(c, n, p, m)[x][y]), z \notin Range(c[x][y])
    PROVE  z = m /\ x = n
<1>1. x = n /\ y = p /\ Sent(c, n, p, m)[x][y] = Append(c[x][y], m)
  BY DEF Sent, Channels
<1>2. c[x][y] \in Seq(Message)
  BY DEF Channels
<1> DEFINE s == c[x][y]
<1> HIDE DEF s
<1>3. PICK i \in 1 .. Len(Append(s, m)) : Append(s, m)[i] = z
  <2>1. Append(s, m) \in Seq(Message) /\ z \in Range(Append(s, m))
    BY <1>1, <1>2 DEF s
  <2> QED BY <2>1, InRange
<1>4. i \notin 1 .. Len(s)
  <2>1. i \in 1 .. Len(s) => s[i] = z
    BY <1>2, <1>3 DEF s
  <2> QED BY <1>2, <2>1, InRange DEF s
<1>5. i = Len(s) + 1
  BY <1>2, <1>3, <1>4 DEF s
<1> QED BY <1>1, <1>2, <1>3, <1>5 DEF s

LEMMA SaysSent ==
    ASSUME chan \in Channels, NEW n \in Node, NEW p \in Node, NEW m \in Message,
           Told(m, n, known'[n]), chan' = Sent(chan, n, p, m)
    PROVE  SaysTruth
BY AppendedOnly DEF SaysTruth

LEMMA ConsumedWas ==
    ASSUME chan \in Channels, NEW n \in Node, NEW p \in Node, chan[p][n] # <<>>
    PROVE  /\ Incoming(n, p) \in Range(chan[p][n])
           /\ \A x, y \in Node : Range(Consumed(n, p)[x][y]) \subseteq Range(chan[x][y])
<1>1. ASSUME NEW s \in Seq(Message), s # <<>>
      PROVE  Head(s) \in Range(s) /\ Range(Tail(s)) \subseteq Range(s)
  <2>1. 1 \in 1 .. Len(s) /\ Head(s) = s[1]
    BY <1>1
  <2>2. ASSUME NEW z \in Range(Tail(s)) PROVE z \in Range(s)
    <3>1. Tail(s) \in Seq(Message)
      BY <1>1
    <3>2. PICK i \in 1 .. Len(Tail(s)) : Tail(s)[i] = z
      BY <3>1, InRange
    <3>3. i + 1 \in 1 .. Len(s) /\ s[i + 1] = z
      BY <1>1, <3>2
    <3> QED BY <3>3, InRange
  <2> QED BY <2>1, <2>2, InRange
<1>2. chan[p][n] \in Seq(Message)
  BY DEF Channels
<1>3. Incoming(n, p) \in Range(chan[p][n])
  BY <1>1, <1>2 DEF Incoming
<1>4. ASSUME NEW x \in Node, NEW y \in Node
      PROVE  Range(Consumed(n, p)[x][y]) \subseteq Range(chan[x][y])
  <2>1. CASE x = p /\ y = n
    BY <1>1, <1>2, <2>1, ConsumedIs
  <2>2. CASE ~(x = p /\ y = n)
    BY <2>2, ConsumedIs
  <2> QED BY <2>1, <2>2
<1> QED BY <1>3, <1>4

LEMMA HandlesTurn ==
    ASSUME task \in [Node -> [Node -> Task]], NEW n \in Node, NEW t \in Node,
           NEW next \in Task, Turn(n, t, next),
           Handles(next, n, known'[n], known'[t], Genesis(n))
    PROVE  HandlesOnly
BY TurnIs DEF HandlesOnly

\* A connection that is shut down to a node of another network.
LEMMA DropsOne ==
    ASSUME NEW n \in Node, NEW p \in Node, ~Alike(n, p), Drop(n, p), lost' = lost
    PROVE  DropsStrangers
<1> SUFFICES ASSUME NEW x \in Node, NEW y \in Node, {x, y} = {n, p} PROVE ~Alike(x, y)
  BY DEF DropsStrangers, Drop
<1>1. (x = n /\ y = p) \/ (x = p /\ y = n)
  OBVIOUS
<1> QED BY <1>1 DEF Alike

-----------------------------------------------------------------------------
(* The actions. *)

LEMMA ConnectionHonest ==
    ASSUME TypeOK, HonestInv, NEW n \in Node, NEW p \in Node,
           AddPeer(n, p) \/ SendStatus(n, p) \/ Lose(n, p) \/ Close(n, p)
    PROVE  HonestInv'
<1>1. Grows
  BY SameChains DEF HonestInv, AddPeer, SendStatus, Lose, Close, chainVars
<1>2. HandlesOnly
  BY DEF HandlesOnly, AddPeer, SendStatus, Lose, Close
<1>3. DropsStrangers
  BY DEF DropsStrangers, AddPeer, SendStatus, Lose, Close
<1>4. SaysTruth
  <2>1. CASE AddPeer(n, p) \/ Lose(n, p)
    BY <2>1 DEF AddPeer, Lose, SaysTruth
  <2>2. CASE SendStatus(n, p)
    <3>1. Status(n) \in Message /\ chan \in Channels
      BY MessagesMade, ProtocolAssumption DEF Status, TypeOK, Channels
    <3> QED BY <2>2, <3>1, SaysSent, MessagesSay DEF SendStatus
  <2>3. CASE Close(n, p)
    <3>1. \A x, y \in Node : chan'[x][y] \in {chan[x][y], <<>>}
      BY <2>3 DEF Close, TypeOK
    <3>2. Range(<<>>) = {}
      BY DEF Range
    <3> QED BY <3>1, <3>2 DEF SaysTruth
  <2> QED BY <2>1, <2>2, <2>3
<1> QED BY <1>1, <1>2, <1>3, <1>4, HonestFrame

LEMMA HandlersHonest ==
    ASSUME TypeOK, HonestInv, NEW n \in Node, NEW p \in Node,
           HandleStatus(n, p) \/ HandleNewBlock(n, p) \/ HandleGetBlocks(n, p)
             \/ HandleBlocks(n, p) \/ HandleNewTransaction(n, p)
             \/ HandlePing(n, p) \/ HandlePong(n, p)
    PROVE  HonestInv'
<1> DEFINE m == Incoming(n, p)
<1>1. chan \in Channels /\ chan[p][n] # <<>> /\ task \in Tasks
  BY DEF TypeOK, Channels, Tasks, Receiving, HandleStatus, HandleNewBlock, HandleGetBlocks,
         HandleBlocks, HandleNewTransaction, HandlePing, HandlePong
<1>2. /\ Consumed(n, p) \in Channels /\ m \in Message /\ Told(m, p, known[p])
      /\ \A x, y \in Node : Range(Consumed(n, p)[x][y]) \subseteq Range(chan[x][y])
  BY <1>1, ConsumedIs, ConsumedWas DEF HonestInv, ChanInv
<1> HIDE DEF m
<1>3. Grows /\ known' = known /\ lost' = lost
  BY SameChains DEF HonestInv, chainVars, netVars, HandleStatus, HandleNewBlock,
     HandleGetBlocks, HandleBlocks, HandleNewTransaction, HandlePing, HandlePong
<1>4. SaysTruth
  <2>1. CASE HandlePing(n, p)
    <3> DEFINE c == Consumed(n, p)
    <3>1. Pong(m.nonce) \in Message /\ Told(Pong(m.nonce), n, known'[n])
      BY <1>2, <2>1, MessagesAre, MessagesMade, MessagesSay DEF HandlePing, Receiving, m
    <3>2. chan' = Sent(c, n, p, Pong(m.nonce))
      BY <2>1 DEF HandlePing, m
    <3> SUFFICES ASSUME NEW x \in Node, NEW y \in Node, NEW z \in Range(chan'[x][y]),
                        z \notin Range(c[x][y])
                 PROVE  z = Pong(m.nonce) /\ x = n
      BY <1>2, <3>1 DEF SaysTruth
    <3> HIDE DEF c
    <3> QED BY <1>2, <3>1, <3>2, AppendedOnly DEF c
  <2>2. CASE ~HandlePing(n, p)
    <3>1. chan' = Consumed(n, p)
      BY <2>2 DEF HandleStatus, HandleNewBlock, HandleGetBlocks, HandleBlocks,
                  HandleNewTransaction, HandlePong
    <3> QED BY <1>2, <3>1 DEF SaysTruth
  <2> QED BY <2>1, <2>2
<1>5. DropsStrangers
  <2>1. CASE HandleStatus(n, p) /\ Drop(n, p) /\ m.chain # ChainId[n]
    <3>1. m.chain = ChainId[p]
      BY <1>2, <2>1 DEF HandleStatus, Receiving, Told, m
    <3> QED BY <1>3, <2>1, <3>1, DropsOne DEF Alike
  <2>2. CASE cut' = cut
    BY <1>3, <2>2 DEF DropsStrangers
  <2> QED BY <2>1, <2>2 DEF HandleStatus, HandleNewBlock, HandleGetBlocks, HandleBlocks,
      HandleNewTransaction, HandlePing, HandlePong, Compatible, netVars, m
<1>6. HandlesOnly
  <2>1. /\ SimpleTask \subseteq Task
        /\ Idle \in SimpleTask /\ Ask \in SimpleTask /\ known'[n] = known[n] /\ known'[p] = known[p]
    BY <1>3, SimpleTasks
  <2>2. CASE task' = task
    BY <2>2 DEF HandlesOnly
  <2>3. CASE HandleStatus(n, p) /\ (Turn(n, p, Ask) \/ Turn(n, p, Idle))
    BY <1>1, <2>1, <2>3, SimpleHandles, HandlesTurn DEF Tasks
  <2>4. CASE HandleNewBlock(n, p) /\ Turn(n, p, Single(m.block))
    <3>1. m.type = "newBlock" /\ m.block \in Blocks /\ m.block \in known[p]
      BY <1>2, <2>4, MessagesAre DEF HandleNewBlock, Receiving, Told, m
    <3>2. Single(m.block) \in Task
      BY <3>1, <2>1, SimpleTasks
    <3> QED BY <1>1, <2>1, <2>4, <3>1, <3>2, SimpleHandles, HandlesTurn DEF Tasks
  <2>5. CASE HandleGetBlocks(n, p) /\ Turn(n, p, Serve(m.from, <<>>))
    <3>1. m.from \in Nat /\ <<>> \in Seq(Blocks) /\ Range(<<>>) \subseteq known[n]
      BY <1>2, <2>5, MessagesAre DEF HandleGetBlocks, Receiving, Range, m
    <3>2. Serve(m.from, <<>>) \in Task
      BY <3>1, <2>1, SimpleTasks
    <3> QED BY <1>1, <2>1, <2>5, <3>1, <3>2, SimpleHandles, HandlesTurn DEF Tasks
  <2>6. CASE HandleBlocks(n, p) /\ Turn(n, p, IF m.blocks = <<>> THEN Idle ELSE Batch(m.blocks, 1, FALSE))
    <3>1. m.blocks \in Seq(Blocks) /\ Range(m.blocks) \subseteq known[p]
      BY <1>2, <2>6, MessagesAre DEF HandleBlocks, Receiving, Told, m
    <3>2. CASE m.blocks = <<>>
      BY <1>1, <2>1, <2>6, <3>2, SimpleHandles, HandlesTurn DEF Tasks
    <3>3. CASE m.blocks # <<>>
      <4>1. m.blocks \in Seq(Blocks) \ {<<>>} /\ 1 \in Nat \ {0} /\ FALSE \in BOOLEAN
        BY <3>1, <3>3
      <4>2. Batch(m.blocks, 1, FALSE) \in Task
        BY <4>1, <2>1, SimpleTasks
      <4> QED BY <1>1, <2>1, <2>6, <3>1, <3>3, <4>2, SimpleHandles, HandlesTurn DEF Tasks
    <3> QED BY <3>2, <3>3
  <2>7. CASE HandleNewTransaction(n, p) /\ Turn(n, p, Relay(m.tx))
    <3>1. m.tx \in Txs
      BY <1>2, <2>7, MessagesAre DEF HandleNewTransaction, Receiving, m
    <3>2. Relay(m.tx) \in Task
      BY <3>1, <2>1, SimpleTasks
    <3> QED BY <1>1, <2>7, <3>2, SimpleHandles, HandlesTurn DEF Tasks
  <2> QED BY <2>2, <2>3, <2>4, <2>5, <2>6, <2>7
      DEF HandleStatus, HandleNewBlock, HandleGetBlocks, HandleBlocks,
          HandleNewTransaction, HandlePing, HandlePong, Admit, m
<1> QED BY <1>3, <1>4, <1>5, <1>6, HonestFrame

\* A reader's loops: what it serves is stored, what it drops a peer for is another
\* network's.
LEMMA LoopsHonest ==
    ASSUME TypeOK, HonestInv, NEW n \in Node, NEW p \in Node,
           Request(n, p) \/ ServeBlock(n, p) \/ FinishBatch(n, p) \/ ImportFails(n, p)
    PROVE  HonestInv'
<1> DEFINE k == task[n][p]
<1>1. /\ k \in Task /\ task \in Tasks /\ chan \in Channels /\ head[n] \in Blocks
      /\ Handles(k, n, known[n], known[p], Genesis(n))
  BY DEF TypeOK, Tasks, Channels, HonestInv, TaskInv
<1> HIDE DEF k
<1>2. Grows /\ known' = known /\ lost' = lost
  BY SameChains DEF HonestInv, chainVars, netVars, Request, ServeBlock, FinishBatch, ImportFails
<1>3. Idle \in Task /\ Handles(Idle, n, known'[n], known'[p], Genesis(n))
  BY SimpleTasks, SimpleHandles
<1>4. CASE Request(n, p)
  <2>1. HandlesOnly
    BY <1>1, <1>3, <1>4, HandlesTurn DEF Request, Tasks
  <2>2. GetBlocks(Height[head[n]] + 1) \in Message
    <3>1. Height[head[n]] + 1 \in Nat
      BY <1>1, ProtocolAssumption
    <3> QED BY <3>1, MessagesMade
  <2>3. SaysTruth
    BY <1>1, <1>4, <2>2, MessagesSay, SaysSent DEF Request
  <2> QED BY <1>2, <1>4, <2>1, <2>3, HonestFrame DEF Request, DropsStrangers, netVars
<1>5. CASE ServeBlock(n, p)
  <2>1. /\ k.do = "serve" /\ k.from \in Nat /\ k.blocks \in Seq(Blocks)
        /\ Range(k.blocks) \subseteq known[n]
    <3>1. k.do = "serve" /\ Rest(k) = k
      BY <1>5 DEF ServeBlock, Rest, k
    <3> QED BY <1>1, <3>1, TasksAre DEF Handles
  <2>2. CASE Turn(n, p, Idle) /\ chan' = Sent(chan, n, p, BlocksOf(k.blocks))
    <3>1. BlocksOf(k.blocks) \in Message /\ Told(BlocksOf(k.blocks), n, known'[n])
      BY <1>2, <2>1, MessagesMade, MessagesSay
    <3>2. SaysTruth
      BY <1>1, <2>2, <3>1, SaysSent
    <3>3. HandlesOnly
      BY <1>1, <1>3, <2>2, HandlesTurn DEF Tasks
    <3> QED BY <1>2, <1>5, <3>2, <3>3, HonestFrame DEF ServeBlock, DropsStrangers, netVars
  <2>3. ASSUME NEW b \in Canonical(n, k.from + Len(k.blocks)),
               Turn(n, p, Serve(k.from, Append(k.blocks, b))), chan' = chan
        PROVE  HonestInv'
    <3>1. b \in known[n] /\ b \in Blocks
      BY CanonicalKnown DEF HonestInv, TypeOK
    <3>2. Append(k.blocks, b) \in Seq(Blocks) /\ Range(Append(k.blocks, b)) \subseteq known[n]
      BY <2>1, <3>1 DEF Range
    <3>3. Serve(k.from, Append(k.blocks, b)) \in Task
      BY <2>1, <3>2, SimpleTasks
    <3>4. HandlesOnly
      BY <1>1, <1>2, <2>3, <3>2, <3>3, SimpleHandles, HandlesTurn DEF Tasks
    <3> QED BY <1>2, <1>5, <2>3, <3>4, HonestFrame
        DEF ServeBlock, DropsStrangers, SaysTruth, netVars
  <2> QED BY <1>5, <2>2, <2>3 DEF ServeBlock, k
<1>6. CASE FinishBatch(n, p)
  <2>1. /\ k.do = "batch" /\ k.blocks \in Seq(Blocks) /\ k.blocks # <<>>
        /\ k.at \in Nat \ {0} /\ k.at > Len(k.blocks)
        /\ Range(k.blocks) \subseteq known[p]
        /\ k.at > 1 /\ ~k.accepted => Genesis(n) \notin {k.blocks[1], Parent[k.blocks[1]]}
    <3>1. k.do = "batch" /\ k.at > Len(k.blocks) /\ Rest(k) = k
      BY <1>6 DEF FinishBatch, Rest, k
    <3> QED BY <1>1, <3>1, TasksAre DEF Handles
  <2>2. /\ Len(k.blocks) \in Nat /\ Len(k.blocks) > 0
        /\ k.blocks[1] \in Blocks /\ Last(k.blocks) \in Blocks
    BY <2>1 DEF Last
  <2>3. /\ GetBlocks(Back(Height[k.blocks[1]])) \in Message
        /\ GetBlocks(Height[Last(k.blocks)] + 1) \in Message
    BY <2>2, MessagesMade, ProtocolAssumption DEF Back
  <2>4. \/ chan' = chan
        \/ chan' = Sent(chan, n, p, GetBlocks(Back(Height[k.blocks[1]])))
        \/ chan' = Sent(chan, n, p, GetBlocks(Height[Last(k.blocks)] + 1))
    BY <1>6 DEF FinishBatch, k
  <2>5. SaysTruth
    <3>1. CASE chan' = chan
      BY <3>1 DEF SaysTruth
    <3> QED BY <1>1, <2>3, <2>4, <3>1, MessagesSay, SaysSent
  <2>6. HandlesOnly
    BY <1>1, <1>3, <1>6, HandlesTurn DEF FinishBatch, Tasks
  <2>7. DropsStrangers
    <3>1. CASE cut' = cut
      BY <1>2, <3>1 DEF DropsStrangers
    <3>2. CASE Drop(n, p) /\ ~k.accepted /\ AtGenesis(Height[k.blocks[1]])
      <4>1. k.blocks[1] \in known[p]
        BY <2>1, <2>2 DEF Range
      <4>2. Genesis(p) \in {k.blocks[1], Parent[k.blocks[1]]}
        BY <3>2, <4>1, LowBlocksConnect DEF HonestInv
      <4>3. Genesis(n) \notin {k.blocks[1], Parent[k.blocks[1]]}
        BY <2>1, <2>2, <3>2
      <4> QED BY <1>2, <3>2, <4>2, <4>3, DropsOne DEF Alike
    <3> QED BY <1>6, <3>1, <3>2 DEF FinishBatch, k
  <2> QED BY <1>2, <2>5, <2>6, <2>7, HonestFrame
<1>7. CASE ImportFails(n, p)
  <2>1. HandlesOnly
    BY <1>1, <1>3, <1>7, HandlesTurn DEF ImportFails, Tasks
  <2> QED BY <1>2, <1>7, <2>1, HonestFrame DEF ImportFails, DropsStrangers, SaysTruth, netVars
<1> QED BY <1>4, <1>5, <1>6, <1>7

\* The block that becomes the head is stored when it is announced.
LEMMA ThenHandles ==
    ASSUME TypeOK, ChainInv, NEW n \in Node, NEW b \in Blocks, Imported(n, b),
           NEW P, NEW root, NEW next \in SimpleTask, Handles(next, n, known'[n], P, root)
    PROVE  Handles(Then(n, b, next), n, known'[n], P, root)
BY ImportGrows, OtherHandles DEF Then

\* An import: the peer is dropped only if the block is not one of its own network.
LEMMA ImportsHonest ==
    ASSUME TypeOK, HonestInv, NEW n \in Node, NEW p \in Node,
           ImportFrom(n, p) \/ ImportBatch(n, p)
    PROVE  HonestInv'
<1> DEFINE k == task[n][p]
<1>1. /\ k \in Task /\ task \in Tasks /\ ChainInv
      /\ Handles(k, n, known[n], known[p], Genesis(n))
      /\ Idle \in SimpleTask /\ Ask \in SimpleTask /\ SimpleTask \subseteq Task
  BY SimpleTasks DEF TypeOK, Tasks, HonestInv, TaskInv
<1> HIDE DEF k
<1>2. chan' = chan /\ lost' = lost
  BY DEF ImportFrom, ImportBatch
<1>3. SaysTruth
  BY <1>2 DEF SaysTruth
<1>4. ASSUME NEW b \in known[p],
             cut' = cut \/ (Drop(n, p) /\ Outcome(n, b) = "invalid")
      PROVE  DropsStrangers
  <2>1. CASE cut' = cut
    BY <1>2, <2>1 DEF DropsStrangers
  <2>2. CASE Drop(n, p) /\ Outcome(n, b) = "invalid"
    BY <1>1, <1>2, <2>2, PeersBlocksAccepted, DropsOne
  <2> QED BY <1>4, <2>1, <2>2
<1>5. CASE ImportFrom(n, p)
  <2> DEFINE next == IF Outcome(n, k.block) = "orphaned" THEN Ask ELSE Idle
  <2>1. k.do = "single" /\ k.block \in Blocks /\ k.block \in known[p]
    <3>1. k.do = "single" /\ Rest(k) = k
      BY <1>5 DEF ImportFrom, Rest, k
    <3> QED BY <1>1, <3>1, TasksAre DEF Handles
  <2>2. Imported(n, k.block) /\ Turn(n, p, Then(n, k.block, next))
    BY <1>5 DEF ImportFrom, k
  <2>3. Grows
    BY <1>1, <2>1, <2>2, ImportGrows
  <2>4. next \in SimpleTask /\ Handles(next, n, known'[n], known'[p], Genesis(n))
    BY <1>1, SimpleHandles
  <2> HIDE DEF next
  <2>5. Then(n, k.block, next) \in Task
    BY <2>1, <2>4, ThenType
  <2>6. HandlesOnly
    BY <1>1, <2>1, <2>2, <2>4, <2>5, ThenHandles, HandlesTurn DEF Tasks
  <2>7. DropsStrangers
    BY <1>4, <1>5, <2>1 DEF ImportFrom, k
  <2> QED BY <1>3, <2>3, <2>6, <2>7, HonestFrame
<1>6. CASE ImportBatch(n, p)
  <2> DEFINE b == k.blocks[k.at]
             some == k.accepted \/ Outcome(n, b) # "orphaned"
             next == Batch(k.blocks, k.at + 1, some)
  <2>1. /\ k.do = "batch" /\ k.blocks \in Seq(Blocks) /\ k.blocks # <<>>
        /\ k.at \in Nat \ {0} /\ k.at <= Len(k.blocks) /\ k.accepted \in BOOLEAN
        /\ Range(k.blocks) \subseteq known[p]
        /\ k.at > 1 /\ ~k.accepted => Genesis(n) \notin {k.blocks[1], Parent[k.blocks[1]]}
    <3>1. k.do = "batch" /\ k.at <= Len(k.blocks) /\ Rest(k) = k
      BY <1>6 DEF ImportBatch, Rest, k
    <3> QED BY <1>1, <3>1, TasksAre DEF Handles
  <2>2. k.at \in DOMAIN k.blocks /\ b \in known[p] /\ b \in Blocks
    BY <2>1 DEF Range
  <2>3. Imported(n, b) /\ Grows
    BY <1>1, <1>6, <2>2, ImportGrows DEF ImportBatch, k
  <2>4. Turn(n, p, Idle) \/ Turn(n, p, Then(n, b, next))
    BY <1>6 DEF ImportBatch, k
  <2>5. next \in SimpleTask
    <3>1. k.blocks \in Seq(Blocks) \ {<<>>} /\ k.at + 1 \in Nat \ {0} /\ some \in BOOLEAN
      BY <2>1
    <3> HIDE DEF some
    <3> QED BY <3>1, SimpleTasks
  <2>6. Handles(next, n, known'[n], known'[p], Genesis(n))
    <3>1. ~some => Genesis(n) \notin {k.blocks[1], Parent[k.blocks[1]]}
      <4> SUFFICES ASSUME ~some, k.at = 1
                   PROVE  Genesis(n) \notin {k.blocks[1], Parent[k.blocks[1]]}
        BY <2>1
      <4>1. b \notin known[n] /\ Parent[b] \notin known[n]
        BY DEF Outcome
      <4>2. Genesis(n) \in known[n]
        BY <1>1 DEF ChainInv, Rooted
      <4> QED BY <4>1, <4>2
    <3>2. known[p] \subseteq known'[p]
      BY <2>3 DEF Grows
    <3>3. /\ next.do = "batch" /\ Rest(next) = next /\ next.blocks = k.blocks
          /\ next.accepted = some
      BY DEF Batch, Rest
    <3> HIDE DEF next, some, b
    <3> QED BY <2>1, <3>1, <3>2, <3>3 DEF Handles
  <2> HIDE DEF next, b
  <2>7. HandlesOnly
    <3>1. CASE Turn(n, p, Idle)
      BY <1>1, <3>1, SimpleHandles, HandlesTurn DEF Tasks
    <3>2. CASE Turn(n, p, Then(n, b, next))
      <4>1. Then(n, b, next) \in Task
        BY <2>2, <2>5, ThenType
      <4> QED BY <1>1, <2>2, <2>3, <2>5, <2>6, <3>2, <4>1, ThenHandles, HandlesTurn DEF Tasks
    <3> QED BY <2>4, <3>1, <3>2
  <2>8. DropsStrangers
    BY <1>4, <1>6, <2>2 DEF ImportBatch, b, k
  <2> QED BY <1>3, <2>3, <2>7, <2>8, HonestFrame
<1> QED BY <1>5, <1>6

LEMMA AnnouncementHonest ==
    ASSUME TypeOK, HonestInv, NEW n \in Node, NEW t \in Node,
           AnnounceBlock(n, t) \/ AnnounceTransaction(n, t) \/ SendNext(n, t)
    PROVE  HonestInv'
<1> DEFINE k == task[n][t]
<1>1. /\ k \in Task /\ task \in Tasks /\ chan \in Channels
      /\ Handles(k, n, known[n], known[t], Genesis(n))
  BY DEF TypeOK, Tasks, Channels, HonestInv, TaskInv
<1> HIDE DEF k
<1>2. /\ Grows /\ known' = known
      /\ lost' = lost /\ cut' = cut
  BY SameChains DEF HonestInv, chainVars, netVars, AnnounceBlock, AnnounceTransaction, SendNext
<1>3. DropsStrangers
  BY <1>2 DEF DropsStrangers
<1>4. CASE AnnounceBlock(n, t)
  <2>1. k.do = "announce" /\ k.block \in Blocks /\ k.then \in SimpleTask /\ k.block \in known[n]
        /\ Handles(k.then, n, known[n], known[t], Genesis(n))
    <3>1. k.do = "announce"
      BY <1>4 DEF AnnounceBlock, k
    <3>2. k.then \in SimpleTask /\ Handles(k.then, n, known[n], known[t], Genesis(n))
      BY <1>1, <3>1, RestHandles
    <3>3. k.block \in Blocks /\ k.block \in known[n]
      BY <1>1, <3>1, TasksAre DEF Handles
    <3> QED BY <3>1, <3>2, <3>3
  <2>2. PICK to \in SUBSET Node : Turn(n, t, Send(to, NewBlock(k.block), k.then))
    BY <1>4 DEF AnnounceBlock, Ready, k
  <2>3. Send(to, NewBlock(k.block), k.then) \in Task
    BY <2>1, OtherTasks, MessagesMade
  <2>4. Handles(Send(to, NewBlock(k.block), k.then), n, known[n], known[t], Genesis(n))
    BY <2>1, MessagesSay, OtherHandles
  <2>5. HandlesOnly
    BY <1>1, <1>2, <2>2, <2>3, <2>4, HandlesTurn DEF Tasks
  <2> QED BY <1>2, <1>3, <1>4, <2>5, HonestFrame DEF AnnounceBlock, SaysTruth
<1>5. CASE AnnounceTransaction(n, t)
  <2>1. k.tx \in Txs /\ Idle \in SimpleTask /\ Handles(Idle, n, known[n], known[t], Genesis(n))
    BY <1>1, <1>5, TasksAre, SimpleTasks, SimpleHandles DEF AnnounceTransaction, k
  <2>2. PICK to \in SUBSET Node : Turn(n, t, Send(to, NewTx(k.tx), Idle))
    BY <1>5 DEF AnnounceTransaction, Ready, k
  <2>3. Send(to, NewTx(k.tx), Idle) \in Task
    BY <2>1, OtherTasks, MessagesMade
  <2>4. Handles(Send(to, NewTx(k.tx), Idle), n, known[n], known[t], Genesis(n))
    BY <2>1, MessagesSay, OtherHandles
  <2>5. HandlesOnly
    BY <1>1, <1>2, <2>2, <2>3, <2>4, HandlesTurn DEF Tasks
  <2> QED BY <1>2, <1>3, <1>5, <2>5, HonestFrame DEF AnnounceTransaction, SaysTruth
<1>6. CASE SendNext(n, t)
  <2>1. /\ k.do = "send" /\ k.to \subseteq Node /\ k.message \in Message
        /\ k.then \in SimpleTask /\ Told(k.message, n, known[n])
        /\ Handles(k.then, n, known[n], known[t], Genesis(n))
    <3>1. k.do = "send"
      BY <1>6 DEF SendNext, k
    <3>2. k.then \in SimpleTask /\ Handles(k.then, n, known[n], known[t], Genesis(n))
      BY <1>1, <3>1, RestHandles
    <3>3. k.to \subseteq Node /\ k.message \in Message /\ Told(k.message, n, known[n])
      BY <1>1, <3>1, TasksAre DEF Handles
    <3> QED BY <3>1, <3>2, <3>3
  <2>2. PICK p \in k.to : /\ chan' = Sent(chan, n, p, k.message)
                          /\ Turn(n, t, Send(k.to \ {p}, k.message, k.then))
    BY <1>6 DEF SendNext, k
  <2>3. Send(k.to \ {p}, k.message, k.then) \in Task
    BY <2>1, OtherTasks
  <2>4. Handles(Send(k.to \ {p}, k.message, k.then), n, known[n], known[t], Genesis(n))
    BY <2>1, OtherHandles
  <2>5. HandlesOnly
    BY <1>1, <1>2, <2>2, <2>3, <2>4, HandlesTurn DEF Tasks
  <2>6. SaysTruth
    BY <1>1, <1>2, <2>1, <2>2, SaysSent
  <2> QED BY <1>2, <1>3, <2>5, <2>6, HonestFrame
<1> QED BY <1>4, <1>5, <1>6

LEMMA BeginningHonest ==
    ASSUME TypeOK, HonestInv, NEW n \in Node,
           \/ \E b \in Blocks : Mine(n, b)
           \/ \E tx \in Txs : SubmitTransaction(n, tx)
           \/ \E p \in Node : Tick(n, p)
    PROVE  HonestInv'
<1>1. task \in Tasks /\ chan \in Channels /\ ChainInv
  BY DEF TypeOK, Tasks, Channels, HonestInv
<1>2. cut' = cut /\ lost' = lost
  BY DEF Mine, SubmitTransaction, Tick, netVars
<1>3. DropsStrangers
  BY <1>2 DEF DropsStrangers
<1>4. ASSUME NEW b \in Blocks, Mine(n, b) PROVE HonestInv'
  <2>1. Imported(n, b) /\ Turn(n, n, Then(n, b, Idle)) /\ chan' = chan
    BY <1>4 DEF Mine
  <2>2. Grows
    BY <1>1, <2>1, ImportGrows
  <2>3. Idle \in SimpleTask /\ Handles(Idle, n, known'[n], known'[n], Genesis(n))
    BY SimpleTasks, SimpleHandles
  <2>4. Then(n, b, Idle) \in Task
    BY <2>3, ThenType
  <2>5. HandlesOnly
    BY <1>1, <2>1, <2>3, <2>4, ThenHandles, HandlesTurn DEF Tasks
  <2> QED BY <1>3, <2>1, <2>2, <2>5, HonestFrame DEF SaysTruth
<1>5. ASSUME NEW tx \in Txs, SubmitTransaction(n, tx) PROVE HonestInv'
  <2>1. Relay(tx) \in Task /\ Handles(Relay(tx), n, known'[n], known'[n], Genesis(n))
    BY SimpleTasks, SimpleHandles
  <2>2. HandlesOnly
    <3>1. CASE Turn(n, n, Relay(tx))
      BY <1>1, <2>1, <3>1, HandlesTurn DEF Tasks
    <3> QED BY <1>5, <3>1 DEF SubmitTransaction, Admit, HandlesOnly
  <2>3. Grows
    BY <1>1, <1>5, SameChains DEF SubmitTransaction, chainVars
  <2> QED BY <1>3, <1>5, <2>2, <2>3, HonestFrame DEF SubmitTransaction, SaysTruth
<1>6. ASSUME NEW p \in Node, Tick(n, p) PROVE HonestInv'
  <2>1. Ping(pings[n] + 1) \in Message
    BY MessagesMade DEF TypeOK
  <2>2. SaysTruth
    BY <1>1, <1>6, <2>1, MessagesSay, SaysSent DEF Tick
  <2>3. Grows
    BY <1>1, <1>6, SameChains DEF Tick, chainVars
  <2> QED BY <1>3, <1>6, <2>2, <2>3, HonestFrame DEF Tick, HandlesOnly
<1> QED BY <1>4, <1>5, <1>6

\* What nodes say of their chains, and handle of their peers', is so at all times.
LEMMA HonestAlways == Spec => []HonestInv
<1>1. Init => HonestInv
  <2> SUFFICES ASSUME Init PROVE HonestInv
    OBVIOUS
  <2>1. ASSUME NEW n \in Node
        PROVE  Rooted(known[n], Accepts[n], Genesis(n))
    <3>1. head[n] \in Blocks /\ known[n] = {head[n]} /\ Parent[head[n]] = NoBlock
      BY ProtocolAssumption DEF Init
    <3>2. Rooted(known[n], Accepts[n], head[n])
      BY <3>1 DEF Rooted
    <3>3. Root(head[n]) = head[n]
      BY <3>1, <3>2, RootedRoot
    <3> QED BY <3>2, <3>3 DEF Root, Genesis
  <2>2. ChainInv
    BY <2>1 DEF ChainInv
  <2>3. ChanInv
    BY DEF Init, ChanInv, Range
  <2>4. TaskInv
    BY SimpleHandles DEF Init, TaskInv
  <2>5. HonestPeerIsKept
    BY DEF Init, HonestPeerIsKept
  <2> QED BY <2>2, <2>3, <2>4, <2>5 DEF HonestInv
<1>2. TypeOK /\ HonestInv /\ [Next]_vars => HonestInv'
  <2> SUFFICES ASSUME TypeOK, HonestInv, [Next]_vars PROVE HonestInv'
    OBVIOUS
  <2>1. CASE \E n, t \in Node : ThreadStep(n, t)
    BY <2>1, ConnectionHonest, HandlersHonest, LoopsHonest, ImportsHonest, AnnouncementHonest
    DEF ThreadStep
  <2>2. CASE \E n, p \in Node : Tick(n, p) \/ Lose(n, p) \/ ImportFails(n, p)
    BY <2>2, ConnectionHonest, LoopsHonest, BeginningHonest
  <2>3. CASE \E n \in Node : \/ \E b \in Blocks : Mine(n, b)
                            \/ \E tx \in Txs : SubmitTransaction(n, tx)
    BY <2>3, BeginningHonest
  <2>4. CASE UNCHANGED vars
    BY <2>4, SameChains, HonestFrame
    DEF vars, HonestInv, SaysTruth, HandlesOnly, DropsStrangers
  <2> QED BY <2>1, <2>2, <2>3, <2>4 DEF Next
<1> QED BY <1>1, <1>2, TypeCorrect, PTL DEF Spec

\* Nodes of one network (one chain id, one genesis block, the same rules) never
\* drop each other, whatever forks they store and however they reorganise while
\* they serve each other (handleBlocks, importFrom, handleStatus).
THEOREM HonestPeersStay == Spec => []HonestPeerIsKept
<1>1. HonestInv => HonestPeerIsKept
  BY DEF HonestInv
<1> QED BY <1>1, HonestAlways, PTL

-----------------------------------------------------------------------------
(* The chains only rise. *)

\* A chain hangs from a genesis block, and nothing stored is above its head.
BestInv ==
    \A x \in Node : /\ Genesis(x) \in Geneses
                    /\ \A b \in known[x] : Height[b] <= Height[head[x]]

Rises ==
    \A x \in Node : known[x] \subseteq known'[x] /\ Height[head[x]] <= Height[head'[x]]

\* What importBlock does to the node's chain, by its outcome.
LEMMA ImportDoes ==
    ASSUME TypeOK, NEW n \in Node, NEW b \in Blocks, Imported(n, b)
    PROVE  /\ \A x \in Node : x # n => known'[x] = known[x] /\ head'[x] = head[x]
           /\ \/ head'[n] = head[n]
              \/ /\ Outcome(n, b) \in {"imported", "reorged"}
                 /\ head'[n] = b /\ b \notin known[n]
                 /\ Height[b] >= Height[head[n]]
                 /\ Parent[b] = head[n] \/ Outcome(n, b) = "reorged"
           /\ known'[n] = known[n] \/ known'[n] = known[n] \cup {b}
           /\ Outcome(n, b) \in {"imported", "reorged"} => head'[n] = b
           /\ Outcome(n, b) \notin {"orphaned", "invalid"} => b \in known'[n]
           /\ Outcome(n, b) = "forked" => Height[b] <= Height[head[n]]
           /\ b \in known'[n] => b \in known[n] \/ Outcome(n, b) \in {"imported", "reorged", "forked"}
<1>1. head[n] \in Blocks /\ Height[b] \in Nat /\ Height[head[n]] \in Nat
  BY ProtocolAssumption DEF TypeOK
<1>2. Outcome(n, b) = "imported" =>
         b \notin known[n] /\ Parent[b] = head[n] /\ Height[b] = Height[head[n]] + 1
  <2>1. Outcome(n, b) = "imported" => b \notin known[n] /\ Parent[b] = head[n]
    BY DEF Outcome
  <2> QED BY <1>1, <2>1, ProtocolAssumption
<1>3. Outcome(n, b) = "reorged" => b \notin known[n] /\ Height[b] >= Height[head[n]]
  BY <1>1 DEF Outcome, Better
<1>4. Outcome(n, b) = "forked" => Height[b] <= Height[head[n]]
  BY <1>1 DEF Outcome, Better
<1>5. /\ Outcome(n, b) \in {"alreadyKnown", "orphaned", "invalid", "imported", "reorged", "forked"}
      /\ Outcome(n, b) = "alreadyKnown" => b \in known[n]
  BY DEF Outcome
<1>6. /\ \A x \in Node : x # n => known'[x] = known[x] /\ head'[x] = head[x]
      /\ Outcome(n, b) \in {"imported", "reorged"} => head'[n] = b
      /\ Outcome(n, b) \notin {"imported", "reorged"} => head'[n] = head[n]
      /\ Outcome(n, b) \in {"imported", "reorged", "forked"} => known'[n] = known[n] \cup {b}
      /\ Outcome(n, b) \notin {"imported", "reorged", "forked"} => known'[n] = known[n]
  BY DEF Imported, TypeOK
<1> QED BY <1>1, <1>2, <1>3, <1>4, <1>5, <1>6

LEMMA ImportRises ==
    ASSUME TypeOK, ChainInv, BestInv, NEW n \in Node, NEW b \in Blocks, Imported(n, b)
    PROVE  Rises /\ BestInv'
<1>1. \A x \in Node : Genesis(x)' = Genesis(x)
  BY ImportGrows DEF Grows
<1>2. /\ head \in [Node -> Blocks] /\ known \in [Node -> SUBSET Blocks]
      /\ \A c \in Blocks : Height[c] \in Nat
  BY ProtocolAssumption DEF TypeOK
<1>3. \A x \in Node : \A c \in known[x] : Height[c] \in Nat /\ Height[c] <= Height[head[x]]
  BY <1>2 DEF BestInv
<1>4. ASSUME NEW x \in Node
      PROVE  /\ known[x] \subseteq known'[x] /\ Height[head[x]] <= Height[head'[x]]
             /\ \A c \in known'[x] : Height[c] <= Height[head'[x]]
  <2>1. CASE x # n
    BY <1>2, <1>3, <2>1, ImportDoes
  <2>2. CASE x = n
    <3>1. Height[head[n]] \in Nat /\ Height[b] \in Nat
      BY <1>2
    <3>2. Height[head[n]] <= Height[head'[n]] /\ Height[b] \in Nat
      BY <3>1, ImportDoes
    <3>3. Height[head'[n]] \in Nat
      BY <3>1, ImportDoes
    <3>4. \A c \in known[n] : Height[c] <= Height[head'[n]]
      BY <1>3, <3>1, <3>2, <3>3
    <3>5. b \in known'[n] => Height[b] <= Height[head'[n]]
      <4>1. CASE b \in known[n]
        BY <3>4, <4>1
      <4>2. CASE Outcome(n, b) \in {"imported", "reorged"}
        BY <3>1, <4>2, ImportDoes
      <4>3. CASE Outcome(n, b) = "forked"
        BY <3>1, <3>2, <3>3, <4>3, ImportDoes
      <4> QED BY <4>1, <4>2, <4>3, ImportDoes
    <3>6. known'[n] = known[n] \/ known'[n] = known[n] \cup {b}
      BY ImportDoes
    <3> QED BY <2>2, <3>2, <3>4, <3>5, <3>6
  <2> QED BY <2>1, <2>2
<1> QED BY <1>1, <1>4 DEF Rises, BestInv

\* No step touches a chain but by an import.
LEMMA OnlyImports ==
    ASSUME TypeOK, Next
    PROVE  UNCHANGED <<known, head>> \/ \E n \in Node, b \in Blocks : Imported(n, b)
<1>1. \A n, t \in Node : task[n][t] \in Task
  BY DEF TypeOK
<1>2. ASSUME NEW n \in Node, NEW t \in Node, ImportFrom(n, t)
      PROVE  \E b \in Blocks : Imported(n, b)
  <2>1. task[n][t].block \in Blocks
    BY <1>1, <1>2, TasksAre DEF ImportFrom
  <2> QED BY <1>2, <2>1 DEF ImportFrom
<1>3. ASSUME NEW n \in Node, NEW t \in Node, ImportBatch(n, t)
      PROVE  \E b \in Blocks : Imported(n, b)
  <2> DEFINE k == task[n][t]
  <2>1. k.at <= Len(k.blocks) /\ Imported(n, k.blocks[k.at])
    BY <1>3 DEF ImportBatch
  <2>2. k.blocks \in Seq(Blocks) /\ k.at \in Nat \ {0}
    BY <1>1, <1>3, TasksAre DEF ImportBatch
  <2>3. k.blocks[k.at] \in Blocks
    BY <2>1, <2>2
  <2> QED BY <2>1, <2>3
<1>4. ASSUME NEW n \in Node, NEW t \in Node, ThreadStep(n, t)
      PROVE  UNCHANGED <<known, head>> \/ \E b \in Blocks : Imported(n, b)
  <2>1. CASE ImportFrom(n, t) \/ ImportBatch(n, t)
    BY <1>2, <1>3, <2>1
  <2>2. CASE ~(ImportFrom(n, t) \/ ImportBatch(n, t))
    BY <1>4, <2>2
    DEF ThreadStep, AnnounceBlock, AnnounceTransaction, SendNext, AddPeer, SendStatus, Close,
        HandleStatus, HandlePing, HandlePong, HandleNewBlock, HandleGetBlocks, HandleBlocks,
        HandleNewTransaction, Request, ServeBlock, FinishBatch, chainVars
  <2> QED BY <2>1, <2>2
<1>5. CASE \E n, p \in Node : Tick(n, p) \/ Lose(n, p) \/ ImportFails(n, p)
  BY <1>5 DEF Tick, Lose, ImportFails, chainVars
<1>6. CASE \E n \in Node : \/ \E b \in Blocks : Mine(n, b)
                          \/ \E tx \in Txs : SubmitTransaction(n, tx)
  BY <1>6 DEF Mine, SubmitTransaction, chainVars
<1> QED BY <1>4, <1>5, <1>6 DEF Next

LEMMA StepRises ==
    ASSUME TypeOK, HonestInv, BestInv, [Next]_vars
    PROVE  Rises /\ BestInv'
<1>1. CASE UNCHANGED <<known, head>>
  <2>1. \A x \in Node : head[x] \in Blocks
    BY DEF TypeOK
  <2>2. \A x \in Node : Height[head[x]] \in Nat
    BY <2>1, ProtocolAssumption
  <2> QED BY <1>1, <2>2 DEF Rises, BestInv, Genesis
<1>2. ASSUME NEW n \in Node, NEW b \in Blocks, Imported(n, b) PROVE Rises /\ BestInv'
  BY <1>2, ImportRises DEF HonestInv
<1>3. UNCHANGED vars => UNCHANGED <<known, head>>
  BY DEF vars
<1> QED BY <1>1, <1>2, <1>3, OnlyImports

LEMMA BestAlways == Spec => []BestInv
<1>1. Init => BestInv
  <2> SUFFICES ASSUME Init, NEW x \in Node
               PROVE  /\ Genesis(x) \in Geneses
                      /\ \A b \in known[x] : Height[b] <= Height[head[x]]
    BY DEF BestInv
  <2>1. /\ head[x] \in Blocks /\ known[x] = {head[x]} /\ Parent[head[x]] = NoBlock
        /\ head[x] \in Geneses /\ Height[head[x]] \in Nat
    BY ProtocolAssumption DEF Init
  <2>2. Root(head[x]) = head[x]
    <3>1. Rooted(known[x], Accepts[x], head[x])
      BY <2>1 DEF Rooted
    <3> QED BY <2>1, <3>1, RootedRoot
  <2>3. Genesis(x) = head[x]
    BY <2>2 DEF Genesis, Root
  <2> QED BY <2>1, <2>3
<1>2. TypeOK /\ HonestInv /\ BestInv /\ [Next]_vars => BestInv'
  BY StepRises
<1> QED BY <1>1, <1>2, TypeCorrect, HonestAlways, PTL DEF Spec

-----------------------------------------------------------------------------
(* Greetings. *)

\* A connection is to a peer.
LinkInv == \A n, p \in Node : link[n][p] # "none" => p \in Peers(n)

\* The status of a node is the first thing its peer reads, and makes it ready.
Heard(s, ready) ==
    /\ ready \/ s # <<>>
    /\ \A i \in 1 .. Len(s) : s[i].type = "status" <=> i = 1 /\ ~ready

\* A thread that serves or follows what its peer has sent.
Reading(k) == Rest(k).do \in {"ask", "serve", "single", "batch"}

\* Until it is cut, each side of a connection is opened, greets, and then has
\* the other ready before it handles or sends anything else.
SideInv ==
    \A n, p \in Node : {n, p} \notin cut =>
        /\ link[n][p] # "closed"
        /\ session[n][p].ready => link[n][p] = "open"
LineInv ==
    \A n, p \in Node : {n, p} \notin cut =>
        /\ link[n][p] \in {"none", "greeting"} => chan[n][p] = <<>> /\ ~session[p][n].ready
        /\ link[n][p] = "open" => Heard(chan[n][p], session[p][n].ready)
BusyInv ==
    \A n, t \in Node :
        /\ Reading(task[n][t]) => {n, t} \in cut \/ session[n][t].ready
        /\ task[n][t].do = "send" => \A p \in task[n][t].to :
             {n, p} \in cut \/ (session[n][p].ready /\ task[n][t].message.type # "status")

GreetInv == LinkInv /\ SideInv /\ LineInv /\ BusyInv

\* What most steps do to them.
SidesStay ==
    /\ cut \subseteq cut'
    /\ \A x, y \in Node : {x, y} \notin cut' =>
         /\ session'[x][y].ready = session[x][y].ready
         /\ link'[x][y] = link[x][y] \/ (link[x][y] = "none" /\ link'[x][y] = "greeting")
LinesGo ==
    \A x, y \in Node : {x, y} \notin cut' =>
        \/ chan'[x][y] = chan[x][y]
        \/ \E m \in Message : /\ m.type # "status" /\ link[x][y] = "open"
                              /\ chan'[x][y] = Append(chan[x][y], m)
        \/ /\ chan[x][y] # <<>> /\ link[x][y] = "open" /\ session[y][x].ready
           /\ chan'[x][y] = Tail(chan[x][y])
BusyTurns ==
    \A x, t \in Node :
        \/ task'[x][t] = task[x][t]
        \/ /\ Reading(task'[x][t]) => {x, t} \in cut' \/ session'[x][t].ready
           /\ task'[x][t].do = "send" => \A y \in task'[x][t].to :
                {x, y} \in cut' \/ (session'[x][y].ready /\ task'[x][t].message.type # "status")

LEMMA HeardOn ==
    ASSUME NEW s \in Seq(Message), NEW ready \in BOOLEAN, Heard(s, ready)
    PROVE  /\ \A m \in Message : m.type # "status" => Heard(Append(s, m), ready)
           /\ s # <<>> => /\ Heard(Tail(s), TRUE)
                          /\ Head(s).type = "status" <=> ~ready
<1>1. ASSUME NEW m \in Message, m.type # "status" PROVE Heard(Append(s, m), ready)
  <2>1. Append(s, m) # <<>> /\ Len(Append(s, m)) = Len(s) + 1
    OBVIOUS
  <2>2. \A i \in 1 .. Len(s) : Append(s, m)[i] = s[i]
    OBVIOUS
  <2>3. Append(s, m)[Len(s) + 1] = m /\ Len(s) \in Nat
    OBVIOUS
  <2>4. Len(s) + 1 = 1 => ready
    BY DEF Heard
  <2>5. \A i \in 1 .. Len(s) : s[i].type = "status" <=> i = 1 /\ ~ready
    BY DEF Heard
  <2>6. ASSUME NEW i \in 1 .. Len(s) + 1
        PROVE  Append(s, m)[i].type = "status" <=> i = 1 /\ ~ready
    <3>1. CASE i \in 1 .. Len(s)
      BY <2>2, <2>5, <3>1
    <3>2. CASE i = Len(s) + 1
      BY <1>1, <2>3, <2>4, <3>2
    <3> QED BY <2>3, <3>1, <3>2
  <2> QED BY <2>1, <2>6 DEF Heard
<1>2. ASSUME s # <<>> PROVE Heard(Tail(s), TRUE) /\ (Head(s).type = "status" <=> ~ready)
  <2>1. /\ Len(s) \in Nat /\ 1 \in 1 .. Len(s) /\ Head(s) = s[1] /\ Len(Tail(s)) = Len(s) - 1
        /\ \A i \in 1 .. Len(s) - 1 : i + 1 \in 1 .. Len(s) /\ i + 1 # 1 /\ Tail(s)[i] = s[i + 1]
    BY <1>2
  <2>2. \A i \in 1 .. Len(s) : s[i].type = "status" <=> i = 1 /\ ~ready
    BY DEF Heard
  <2>3. \A i \in 1 .. Len(s) - 1 : Tail(s)[i].type # "status"
    BY <2>1, <2>2
  <2> QED BY <2>1, <2>2, <2>3 DEF Heard
<1> QED BY <1>1, <1>2

LEMMA GreetFrame ==
    ASSUME TypeOK, GreetInv, SidesStay, LinesGo, BusyTurns
    PROVE  SideInv' /\ LineInv' /\ BusyInv'
<1>1. SideInv'
  BY DEF GreetInv, SideInv, SidesStay
<1>2. LineInv'
  <2> SUFFICES ASSUME NEW x \in Node, NEW y \in Node, {x, y} \notin cut'
               PROVE  /\ link'[x][y] \in {"none", "greeting"} =>
                            chan'[x][y] = <<>> /\ ~session'[y][x].ready
                      /\ link'[x][y] = "open" => Heard(chan'[x][y], session'[y][x].ready)
    BY DEF LineInv
  <2>1. {y, x} \notin cut' /\ {x, y} \notin cut
    <3>1. {y, x} = {x, y}
      OBVIOUS
    <3> QED BY <3>1 DEF SidesStay
  <2>2. /\ session'[y][x].ready = session[y][x].ready
        /\ link'[x][y] = link[x][y] \/ (link[x][y] = "none" /\ link'[x][y] = "greeting")
    BY <2>1 DEF SidesStay
  <2>3. /\ link[x][y] \in {"none", "greeting"} => chan[x][y] = <<>> /\ ~session[y][x].ready
        /\ link[x][y] = "open" => Heard(chan[x][y], session[y][x].ready)
    BY <2>1 DEF GreetInv, LineInv
  <2>4. chan[x][y] \in Seq(Message) /\ session[y][x].ready \in BOOLEAN
    BY DEF TypeOK, Session
  <2>5. CASE chan'[x][y] = chan[x][y]
    BY <2>2, <2>3, <2>5
  <2>6. ASSUME NEW m \in Message, m.type # "status", link[x][y] = "open",
               chan'[x][y] = Append(chan[x][y], m)
        PROVE  Heard(chan'[x][y], session[y][x].ready)
    BY <2>3, <2>4, <2>6, HeardOn
  <2>7. ASSUME chan[x][y] # <<>>, link[x][y] = "open", session[y][x].ready,
               chan'[x][y] = Tail(chan[x][y])
        PROVE  Heard(chan'[x][y], TRUE)
    BY <2>3, <2>4, <2>7, HeardOn
  <2> QED BY <2>1, <2>2, <2>5, <2>6, <2>7 DEF LinesGo
<1>3. BusyInv'
  <2> SUFFICES ASSUME NEW x \in Node, NEW t \in Node, task'[x][t] = task[x][t]
               PROVE  /\ Reading(task[x][t]) => {x, t} \in cut' \/ session'[x][t].ready
                      /\ task[x][t].do = "send" => \A y \in task[x][t].to :
                           \/ {x, y} \in cut'
                           \/ session'[x][y].ready /\ task[x][t].message.type # "status"
    BY DEF BusyInv, BusyTurns
  <2>1. task[x][t].do = "send" => task[x][t].to \subseteq Node
    BY TasksAre DEF TypeOK
  <2> QED BY <2>1 DEF GreetInv, BusyInv, SidesStay
<1> QED BY <1>1, <1>2, <1>3

\* A thread that was at work, or whose peer is ready, takes up something else.
LEMMA TurnBusy ==
    ASSUME TypeOK, GreetInv, SidesStay, NEW n \in Node, NEW t \in Node, NEW next \in Task,
           Turn(n, t, next),
           Reading(next) => \/ Reading(task[n][t])
                            \/ {n, t} \in cut' \/ session[n][t].ready,
           next.do = "send" => \A y \in next.to :
               {n, y} \in cut' \/ (session[n][y].ready /\ next.message.type # "status")
    PROVE  BusyTurns
<1>0. task \in [Node -> [Node -> Task]]
  BY DEF TypeOK
<1>1. \A x, y \in Node : task'[x][y] = IF x = n /\ y = t THEN next ELSE task[x][y]
  BY <1>0, TurnIs
<1>2. next.do = "send" => next.to \subseteq Node
  BY TasksAre
<1>3. Reading(next) => {n, t} \in cut' \/ session'[n][t].ready
  BY DEF GreetInv, BusyInv, SidesStay
<1>4. next.do = "send" => \A y \in next.to :
         {n, y} \in cut' \/ (session'[n][y].ready /\ next.message.type # "status")
  BY <1>2 DEF SidesStay
<1> SUFFICES ASSUME NEW x \in Node, NEW y \in Node, task'[x][y] # task[x][y]
             PROVE  /\ Reading(task'[x][y]) => {x, y} \in cut' \/ session'[x][y].ready
                    /\ task'[x][y].do = "send" => \A z \in task'[x][y].to :
                         \/ {x, z} \in cut'
                         \/ session'[x][z].ready /\ task'[x][y].message.type # "status"
  BY DEF BusyTurns
<1>5. x = n /\ y = t /\ task'[x][y] = next
  BY <1>1
<1> QED BY <1>3, <1>4, <1>5

LEMMA NotSends ==
    /\ \A k \in SimpleTask : k.do \notin {"announce", "send"} /\ Rest(k) = k
    /\ \A n, b : \A k \in SimpleTask :
         Then(n, b, k).do # "send" /\ Rest(Then(n, b, k)) = k
<1>1. \A k \in SimpleTask : k.do \notin {"announce", "send"}
  BY DEF SimpleTask, Idle, Ask
<1>2. \A b, k : Announce(b, k).do = "announce" /\ Announce(b, k).then = k
  BY DEF Announce
<1> QED BY <1>1, <1>2 DEF Then, Rest

LEMMA PeersApart ==
    ASSUME LinkInv, NEW n \in Node, NEW p \in Node, link[n][p] # "none"
    PROVE  n # p
BY PeersAreNodes DEF LinkInv

\* A message that is not a status comes from a peer that is ready.
LEMMA TalkIsReady ==
    ASSUME TypeOK, GreetInv, NEW n \in Node, NEW p \in Node, {n, p} \notin cut,
           link[n][p] = "open", chan[p][n] # <<>>
    PROVE  /\ link[p][n] = "open" /\ n # p
           /\ Incoming(n, p).type = "status" <=> ~session[n][p].ready
           /\ Heard(Tail(chan[p][n]), TRUE)
<1>1. {p, n} = {n, p}
  OBVIOUS
<1>2. link[p][n] \in {"none", "greeting", "open", "closed"}
  BY DEF TypeOK
<1>3. link[p][n] = "open"
  BY <1>1, <1>2 DEF GreetInv, SideInv, LineInv
<1>4. Heard(chan[p][n], session[n][p].ready)
  BY <1>1, <1>3 DEF GreetInv, LineInv
<1>5. chan[p][n] \in Seq(Message) /\ session[n][p].ready \in BOOLEAN
  BY DEF TypeOK, Session
<1>6. n # p
  BY PeersApart DEF GreetInv
<1> QED BY <1>3, <1>4, <1>5, <1>6, HeardOn DEF Incoming

\* What is sent where both sides are open is heard.
LEMMA SentGoes ==
    ASSUME TypeOK, NEW n \in Node, NEW p \in Node, NEW m \in Message,
           {n, p} \in cut \/ (link[n][p] = "open" /\ m.type # "status"),
           chan' = Sent(chan, n, p, m), cut \subseteq cut'
    PROVE  LinesGo
<1>1. chan \in Channels
  BY DEF TypeOK, Channels
<1>2. ASSUME NEW x \in Node, NEW y \in Node, x # n \/ y # p \/ {n, p} \in cut
      PROVE  chan'[x][y] = chan[x][y]
  BY <1>1, <1>2 DEF Sent, Channels
<1>3. {n, p} \notin cut => chan'[n][p] = Append(chan[n][p], m)
  BY <1>1, SentIs
<1> QED BY <1>2, <1>3 DEF LinesGo

LEMMA ConnectionGreets ==
    ASSUME TypeOK, GreetInv, NEW n \in Node, NEW p \in Node,
           AddPeer(n, p) \/ SendStatus(n, p) \/ Lose(n, p) \/ Close(n, p)
    PROVE  GreetInv'
<1>1. LinkInv'
  <2>1. \/ link' = link
        \/ /\ link[n][p] # "none" \/ p \in Peers(n)
           /\ \E z : link' = [link EXCEPT ![n][p] = z]
    BY DEF AddPeer, SendStatus, Lose, Close
  <2>2. \A x, y \in Node : link'[x][y] # "none" => link[x][y] # "none" \/ y \in Peers(x)
    <3>1. ASSUME NEW z, link' = [link EXCEPT ![n][p] = z]
          PROVE  \A x, y \in Node : link'[x][y] # link[x][y] => x = n /\ y = p
      BY <3>1 DEF TypeOK
    <3> QED BY <2>1, <3>1
  <2> QED BY <2>2 DEF GreetInv, LinkInv
<1>2. CASE Lose(n, p)
  BY <1>1, <1>2, GreetFrame DEF Lose, SidesStay, LinesGo, BusyTurns, GreetInv
<1>3. CASE AddPeer(n, p)
  <2>1. /\ link' = [link EXCEPT ![n][p] = "greeting"] /\ link[n][p] = "none"
        /\ session' = [session EXCEPT ![n][p] = NewSession]
        /\ task' = task /\ chan' = chan /\ cut' = cut
    BY <1>3 DEF AddPeer
  <2>2. {n, p} \notin cut => ~session[n][p].ready
    BY <2>1 DEF GreetInv, SideInv
  <2>3. ~NewSession.ready
    BY DEF NewSession
  <2>4. SidesStay
    <3>1. \A x, y \in Node :
            IF x = n /\ y = p THEN session'[x][y] = NewSession /\ link'[x][y] = "greeting"
            ELSE session'[x][y] = session[x][y] /\ link'[x][y] = link[x][y]
      BY <2>1 DEF TypeOK
    <3>2. session[n][p].ready \in BOOLEAN /\ NewSession.ready = FALSE
      BY DEF TypeOK, Session, NewSession
    <3> QED BY <2>1, <2>2, <3>1, <3>2 DEF SidesStay
  <2> QED BY <1>1, <2>1, <2>4, GreetFrame DEF LinesGo, BusyTurns, GreetInv
<1>4. CASE Close(n, p)
  <2>1. /\ link' = [link EXCEPT ![n][p] = "closed"] /\ {n, p} \in cut /\ cut' = cut
        /\ session' = [session EXCEPT ![n][p] = NewSession]
        /\ chan' = [chan EXCEPT ![p][n] = <<>>] /\ task' = task
    BY <1>4 DEF Close
  <2>2. {p, n} = {n, p}
    OBVIOUS
  <2>3. \A x, y \in Node : {x, y} \notin cut' =>
           /\ link'[x][y] = link[x][y] /\ session'[x][y] = session[x][y]
           /\ chan'[x][y] = chan[x][y]
    BY <2>1, <2>2 DEF TypeOK
  <2> QED BY <1>1, <2>1, <2>3, GreetFrame DEF SidesStay, LinesGo, BusyTurns, GreetInv
<1>5. CASE SendStatus(n, p)
  <2>1. /\ link' = [link EXCEPT ![n][p] = "open"] /\ link[n][p] = "greeting"
        /\ session' = session /\ task' = task /\ cut' = cut
        /\ chan' = Sent(chan, n, p, Status(n))
    BY <1>5 DEF SendStatus
  <2>2. SideInv' /\ BusyInv'
    <3>1. \A x, y \in Node : link'[x][y] = link[x][y] \/ link'[x][y] = "open"
      BY <2>1 DEF TypeOK
    <3>2. SideInv'
      BY <2>1, <3>1 DEF GreetInv, SideInv
    <3>3. BusyInv'
      BY <2>1 DEF GreetInv, BusyInv
    <3> QED BY <3>2, <3>3
  <2>3. chan \in Channels /\ Status(n) \in Message /\ Status(n).type = "status"
    BY MessagesMade, ProtocolAssumption DEF Status, TypeOK, Channels
  <2>4. ASSUME NEW x \in Node, NEW y \in Node, {x, y} \notin cut'
        PROVE  /\ link'[x][y] \in {"none", "greeting"} =>
                     chan'[x][y] = <<>> /\ ~session'[y][x].ready
               /\ link'[x][y] = "open" => Heard(chan'[x][y], session'[y][x].ready)
    <3>1. CASE x = n /\ y = p
      <4>1. chan[n][p] = <<>> /\ ~session[p][n].ready
        BY <2>1, <2>4, <3>1 DEF GreetInv, LineInv
      <4>2. chan'[n][p] = <<Status(n)>>
        BY <2>1, <2>3, <2>4, <3>1, <4>1, SentIs
      <4>3. Heard(<<Status(n)>>, FALSE)
        BY <2>3 DEF Heard
      <4>4. link'[n][p] = "open"
        BY <2>1 DEF TypeOK
      <4>5. session[p][n].ready = FALSE
        BY <4>1 DEF TypeOK, Session
      <4> QED BY <2>1, <3>1, <4>2, <4>3, <4>4, <4>5
    <3>2. CASE ~(x = n /\ y = p)
      <4>1. chan'[x][y] = chan[x][y] /\ link'[x][y] = link[x][y]
        <5>1. chan'[x][y] = chan[x][y]
          BY <2>1, <2>3, <3>2 DEF Sent, Channels
        <5>2. link'[x][y] = link[x][y]
          BY <2>1, <3>2 DEF TypeOK
        <5> QED BY <5>1, <5>2
      <4> QED BY <2>1, <2>4, <4>1 DEF GreetInv, LineInv
    <3> QED BY <3>1, <3>2
  <2> QED BY <1>1, <2>2, <2>4 DEF GreetInv, LineInv
<1> QED BY <1>2, <1>3, <1>4, <1>5

\* A message read from a peer that is ready, or whose connection is cut.
LEMMA ReadGoes ==
    ASSUME TypeOK, GreetInv, NEW n \in Node, NEW p \in Node, cut \subseteq cut',
           link[n][p] = "open", chan[p][n] # <<>>,
           {n, p} \in cut' \/ Incoming(n, p).type # "status",
           chan' = Consumed(n, p)
    PROVE  LinesGo
<1>1. chan \in Channels /\ {p, n} = {n, p}
  BY DEF TypeOK, Channels
<1>2. \A x, y \in Node : chan'[x][y] = IF x = p /\ y = n THEN Tail(chan[p][n]) ELSE chan[x][y]
  BY <1>1, ConsumedIs
<1>3. {n, p} \notin cut' => link[p][n] = "open" /\ session[n][p].ready
  <2>1. {n, p} \notin cut' => {n, p} \notin cut
    OBVIOUS
  <2>2. session[n][p].ready \in BOOLEAN
    BY DEF TypeOK, Session
  <2> QED BY <2>1, <2>2, TalkIsReady
<1> QED BY <1>1, <1>2, <1>3 DEF LinesGo

\* Transactions and pings leave what a session says of a peer's chain.
SameSessions ==
    \A x, y \in Node :
        /\ session'[x][y].ready = session[x][y].ready
        /\ session'[x][y].peerHeight = session[x][y].peerHeight
        /\ session'[x][y].seenBlocks = session[x][y].seenBlocks

LEMMA OneSession ==
    ASSUME TypeOK, NEW n \in Node, NEW p \in Node, NEW s,
           session' = session \/ session' = [session EXCEPT ![n][p] = s],
           s.ready = session[n][p].ready, s.peerHeight = session[n][p].peerHeight,
           s.seenBlocks = session[n][p].seenBlocks
    PROVE  SameSessions
<1>1. CASE session' = session
  BY <1>1 DEF SameSessions
<1>2. CASE session' = [session EXCEPT ![n][p] = s]
  <2>1. \A x, y \in Node : session'[x][y] = IF x = n /\ y = p THEN s ELSE session[x][y]
    BY <1>2 DEF TypeOK
  <2> QED BY <2>1 DEF SameSessions
<1> QED BY <1>1, <1>2

LEMMA OtherSessions ==
    ASSUME TypeOK, NEW n \in Node, NEW p \in Node,
           HandleNewTransaction(n, p) \/ HandlePong(n, p) \/ Tick(n, p)
             \/ AnnounceTransaction(n, p)
    PROVE  SameSessions
<1>1. session \in Sessions /\ session[n][p] \in Session
  BY DEF TypeOK, Sessions
<1>2. CASE HandleNewTransaction(n, p)
  <2> DEFINE seen == Noted(session[n][p].seenTxs, Incoming(n, p).tx)
             s == [session[n][p] EXCEPT !.seenTxs = seen]
  <2>1. session' = session \/ session' = [session EXCEPT ![n][p] = s]
    BY <1>2 DEF HandleNewTransaction
  <2> HIDE DEF seen
  <2>2. /\ s.ready = session[n][p].ready /\ s.peerHeight = session[n][p].peerHeight
        /\ s.seenBlocks = session[n][p].seenBlocks
    BY <1>1 DEF Session
  <2> HIDE DEF s
  <2> QED BY <2>1, <2>2, OneSession
<1>3. CASE HandlePong(n, p)
  <2> DEFINE s == [session[n][p] EXCEPT !.pingOutstanding = FALSE]
  <2>1. session' = session \/ session' = [session EXCEPT ![n][p] = s]
    BY <1>3 DEF HandlePong, TypeOK
  <2>2. /\ s.ready = session[n][p].ready /\ s.peerHeight = session[n][p].peerHeight
        /\ s.seenBlocks = session[n][p].seenBlocks
    BY <1>1 DEF Session
  <2> HIDE DEF s
  <2> QED BY <2>1, <2>2, OneSession
<1>4. CASE Tick(n, p)
  <2> DEFINE s == [session[n][p] EXCEPT !.pingOutstanding = TRUE, !.pingNonce = pings[n] + 1]
  <2>1. session' = [session EXCEPT ![n][p] = s]
    BY <1>4 DEF Tick, TypeOK
  <2>2. /\ s.ready = session[n][p].ready /\ s.peerHeight = session[n][p].peerHeight
        /\ s.seenBlocks = session[n][p].seenBlocks
    BY <1>1 DEF Session
  <2> HIDE DEF s
  <2> QED BY <2>1, <2>2, OneSession
<1>5. CASE AnnounceTransaction(n, p)
  <2> SUFFICES ASSUME NEW x \in Node, NEW y \in Node, session'[x][y] # session[x][y]
               PROVE  /\ session'[x][y].ready = session[x][y].ready
                      /\ session'[x][y].peerHeight = session[x][y].peerHeight
                      /\ session'[x][y].seenBlocks = session[x][y].seenBlocks
    BY DEF SameSessions
  <2> DEFINE seen == Noted(session[x][y].seenTxs, task[n][p].tx)
  <2>1. session'[x][y] = [session[x][y] EXCEPT !.seenTxs = seen]
    BY <1>1, <1>5 DEF AnnounceTransaction, MarkTx, Sessions
  <2> HIDE DEF seen
  <2>2. session[x][y] \in Session
    BY <1>1 DEF Sessions
  <2> QED BY <2>1, <2>2 DEF Session
<1> QED BY <1>2, <1>3, <1>4, <1>5

LEMMA SameReady ==
    ASSUME TypeOK, NEW n \in Node, NEW p \in Node,
           \/ session' = session
           \/ \E s \in Session : /\ session' = [session EXCEPT ![n][p] = s]
                                 /\ s.ready = session[n][p].ready,
           link' = link, cut \subseteq cut'
    PROVE  SidesStay
<1>1. session \in Sessions
  BY DEF TypeOK, Sessions
<1>2. ASSUME NEW s \in Session, session' = [session EXCEPT ![n][p] = s],
             s.ready = session[n][p].ready
      PROVE  \A x, y \in Node : session'[x][y].ready = session[x][y].ready
  <2>1. \A x, y \in Node : session'[x][y] = IF x = n /\ y = p THEN s ELSE session[x][y]
    BY <1>1, <1>2 DEF Sessions
  <2> QED BY <1>2, <2>1
<1>3. \A x, y \in Node : session'[x][y].ready = session[x][y].ready
  BY <1>2
<1> QED BY <1>3 DEF SidesStay

LEMMA HandlersGreet ==
    ASSUME TypeOK, GreetInv, NEW n \in Node, NEW p \in Node,
           HandleNewBlock(n, p) \/ HandleGetBlocks(n, p) \/ HandleBlocks(n, p)
             \/ HandleNewTransaction(n, p) \/ HandlePing(n, p) \/ HandlePong(n, p)
    PROVE  GreetInv'
<1> DEFINE m == Incoming(n, p)
<1>1. /\ link' = link /\ cut' = cut /\ link[n][p] = "open" /\ task[n][p] = Idle
      /\ chan[p][n] # <<>> /\ m.type # "status"
  BY DEF HandleNewBlock, HandleGetBlocks, HandleBlocks, HandleNewTransaction, HandlePing,
         HandlePong, Receiving, netVars
<1>2. chan \in Channels /\ session[n][p] \in Session /\ m \in Message
  <2>1. chan \in Channels /\ session[n][p] \in Session
    BY DEF TypeOK, Channels
  <2> QED BY <1>1, <2>1, ConsumedIs
<1> HIDE DEF m
<1>3. LinkInv'
  BY <1>1 DEF GreetInv, LinkInv
<1>4. {n, p} \in cut' \/ session[n][p].ready
  BY <1>1, <1>2, TalkIsReady DEF m, Session
<1>5. SidesStay
  <2>1. CASE session' = session
    BY <1>1, <2>1, SameReady
  <2>2. ASSUME NEW s \in Session, session' = [session EXCEPT ![n][p] = s],
               s.ready = session[n][p].ready
        PROVE  SidesStay
    BY <1>1, <2>2, SameReady
  <2>3. CASE HandleNewBlock(n, p)
    <3> DEFINE h == IF Height[m.block] > session[n][p].peerHeight
                    THEN Height[m.block] ELSE session[n][p].peerHeight
               seen == Noted(session[n][p].seenBlocks, m.block)
               s == [session[n][p] EXCEPT !.seenBlocks = seen, !.peerHeight = h]
    <3>1. m.block \in Blocks
      BY <1>2, <2>3, MessagesAre DEF HandleNewBlock, Receiving, m
    <3>2. seen \in SUBSET Blocks
      BY <1>2, <3>1, NotedType DEF Session
    <3>3. h \in Nat
      BY <1>2, <3>1, ProtocolAssumption DEF Session
    <3>4. session' = session \/ session' = [session EXCEPT ![n][p] = s]
      BY <2>3 DEF HandleNewBlock, m
    <3> HIDE DEF h, seen
    <3>5. s \in Session /\ s.ready = session[n][p].ready
      BY <1>2, <3>2, <3>3, SessionFields DEF Session
    <3> HIDE DEF s
    <3> QED BY <2>1, <2>2, <3>4, <3>5
  <2>4. CASE HandleNewTransaction(n, p) \/ HandlePong(n, p)
    BY <1>1, <2>4, OtherSessions DEF SameSessions, SidesStay
  <2> QED BY <2>1, <2>3, <2>4 DEF HandleGetBlocks, HandleBlocks, HandlePing
<1>6. LinesGo
  <2>1. CASE HandlePing(n, p)
    <3>1. Consumed(n, p) \in Channels /\ Pong(m.nonce) \in Message
          /\ chan' = Sent(Consumed(n, p), n, p, Pong(m.nonce)) /\ Pong(m.nonce).type # "status"
      BY <1>1, <1>2, <2>1, ConsumedIs, MessagesAre, MessagesMade, PingKinds
      DEF HandlePing, Receiving, m
    <3>2. n # p /\ {p, n} = {n, p}
      BY <1>1, PeersApart DEF GreetInv
    <3> DEFINE c == Consumed(n, p)
    <3>0. \A x, y \in Node :
             c[x][y] = IF x = p /\ y = n THEN Tail(chan[p][n]) ELSE chan[x][y]
      BY <1>1, <1>2, ConsumedIs
    <3> HIDE DEF c
    <3>3. \A x, y \in Node : x # n \/ y # p \/ {n, p} \in cut => chan'[x][y] = c[x][y]
      BY <3>1 DEF Sent, Channels, c
    <3>4. {n, p} \notin cut => chan'[n][p] = Append(chan[n][p], Pong(m.nonce))
      <4>1. {n, p} \notin cut => chan'[n][p] = Append(c[n][p], Pong(m.nonce))
        BY <3>1, SentIs DEF c
      <4> QED BY <3>2, <3>0, <4>1
    <3>5. {n, p} \notin cut => link[p][n] = "open"
      BY <1>1, TalkIsReady
    <3> SUFFICES ASSUME NEW x \in Node, NEW y \in Node, {x, y} \notin cut'
                 PROVE  \/ chan'[x][y] = chan[x][y]
                        \/ \E z \in Message : /\ z.type # "status" /\ link[x][y] = "open"
                                              /\ chan'[x][y] = Append(chan[x][y], z)
                        \/ /\ chan[x][y] # <<>> /\ link[x][y] = "open" /\ session[y][x].ready
                           /\ chan'[x][y] = Tail(chan[x][y])
      BY DEF LinesGo
    <3>6. CASE x = n /\ y = p
      BY <1>1, <3>1, <3>4, <3>6
    <3>7. CASE x = p /\ y = n
      BY <1>1, <1>4, <3>2, <3>0, <3>3, <3>5, <3>7
    <3>8. CASE ~(x = n /\ y = p) /\ ~(x = p /\ y = n)
      BY <3>0, <3>3, <3>8
    <3> QED BY <3>6, <3>7, <3>8
  <2>2. CASE chan' = Consumed(n, p)
    BY <1>1, <2>2, ReadGoes DEF m
  <2> QED BY <2>1, <2>2
      DEF HandleNewBlock, HandleGetBlocks, HandleBlocks, HandleNewTransaction, HandlePong
<1>7. BusyTurns
  <2>1. CASE task' = task
    BY <2>1 DEF BusyTurns
  <2>2. ASSUME NEW next \in SimpleTask, Turn(n, p, next) PROVE BusyTurns
    <3>1. next \in Task /\ next.do # "send"
      BY SimpleTasks, NotSends
    <3> QED BY <1>4, <1>5, <2>2, <3>1, TurnBusy
  <2>3. CASE HandleNewBlock(n, p)
    <3>1. m.block \in Blocks
      BY <1>2, <2>3, MessagesAre DEF HandleNewBlock, Receiving, m
    <3> QED BY <2>1, <2>2, <2>3, <3>1, SimpleTasks DEF HandleNewBlock, m
  <2>4. CASE HandleGetBlocks(n, p)
    <3>1. m.from \in Nat /\ <<>> \in Seq(Blocks)
      BY <1>2, <2>4, MessagesAre DEF HandleGetBlocks, Receiving, m
    <3>2. Serve(m.from, <<>>) \in SimpleTask
      BY <3>1, SimpleTasks
    <3> QED BY <2>2, <2>4, <3>2 DEF HandleGetBlocks, m
  <2>5. CASE HandleBlocks(n, p)
    <3>1. m.blocks \in Seq(Blocks)
      BY <1>2, <2>5, MessagesAre DEF HandleBlocks, Receiving, m
    <3>2. m.blocks # <<>> => Batch(m.blocks, 1, FALSE) \in SimpleTask
      <4>1. m.blocks # <<>> => m.blocks \in Seq(Blocks) \ {<<>>} /\ 1 \in Nat \ {0}
        BY <3>1
      <4> QED BY <4>1, SimpleTasks
    <3>3. Idle \in SimpleTask
      BY SimpleTasks
    <3> QED BY <2>2, <2>5, <3>2, <3>3 DEF HandleBlocks, m
  <2>6. CASE HandleNewTransaction(n, p)
    <3>1. m.tx \in Txs
      BY <1>2, <2>6, MessagesAre DEF HandleNewTransaction, Receiving, m
    <3>2. Relay(m.tx) \in SimpleTask
      BY <3>1, SimpleTasks
    <3> QED BY <2>1, <2>2, <2>6, <3>2 DEF HandleNewTransaction, Admit, m
  <2> QED BY <2>1, <2>3, <2>4, <2>5, <2>6 DEF HandlePing, HandlePong
<1> QED BY <1>3, <1>5, <1>6, <1>7, GreetFrame DEF GreetInv

\* The other handler: a status makes the peer ready.
LEMMA StatusGreets ==
    ASSUME TypeOK, GreetInv, NEW n \in Node, NEW p \in Node, HandleStatus(n, p)
    PROVE  GreetInv'
<1> DEFINE m == Incoming(n, p)
<1>1. /\ link' = link /\ cut \subseteq cut' /\ link[n][p] = "open" /\ task[n][p] = Idle
      /\ chan[p][n] # <<>> /\ m.type = "status" /\ chan' = Consumed(n, p)
  BY DEF HandleStatus, Receiving, Drop
<1>2. chan \in Channels /\ session[n][p] \in Session /\ m \in Message
  <2>1. chan \in Channels /\ session[n][p] \in Session
    BY DEF TypeOK, Channels
  <2> QED BY <1>1, <2>1, ConsumedIs
<1> HIDE DEF m
<1>3. LinkInv'
  BY <1>1 DEF GreetInv, LinkInv
<1>4. CASE {n, p} \in cut'
  <2>1. \A x, y \in Node : {x, y} \notin cut' => session'[x][y] = session[x][y]
    <3>1. session' = session \/ \E z : session' = [session EXCEPT ![n][p] = z]
      BY DEF HandleStatus
    <3>2. ASSUME NEW z, session' = [session EXCEPT ![n][p] = z],
                 NEW x \in Node, NEW y \in Node, ~(x = n /\ y = p)
          PROVE  session'[x][y] = session[x][y]
      BY <3>2 DEF TypeOK
    <3> QED BY <1>4, <3>1, <3>2
  <2>2. SidesStay
    BY <1>1, <2>1 DEF SidesStay
  <2>3. LinesGo
    BY <1>1, <1>4, ReadGoes
  <2>4. BusyTurns
    <3>1. task' = task \/ Turn(n, p, Ask) \/ Turn(n, p, Idle)
      BY DEF HandleStatus
    <3>2. Ask \in SimpleTask /\ Idle \in SimpleTask
      BY SimpleTasks
    <3>3. Ask \in Task /\ Idle \in Task /\ Ask.do # "send" /\ Idle.do # "send"
      BY <3>2, SimpleTasks, NotSends
    <3> QED BY <1>4, <2>2, <3>1, <3>3, TurnBusy DEF BusyTurns
  <2> QED BY <1>3, <2>2, <2>3, <2>4, GreetFrame DEF GreetInv
<1>5. CASE {n, p} \notin cut'
  <2>1. /\ {n, p} \notin cut /\ cut' = cut /\ {p, n} = {n, p}
        /\ session' = [session EXCEPT ![n][p] =
                         [session[n][p] EXCEPT !.ready = TRUE, !.peerHeight = m.height]]
        /\ Turn(n, p, Ask) \/ Turn(n, p, Idle)
    BY <1>5 DEF HandleStatus, Drop, TypeOK, m
  <2>2. link[p][n] = "open" /\ n # p /\ ~session[n][p].ready /\ Heard(Tail(chan[p][n]), TRUE)
    BY <1>1, <2>1, TalkIsReady DEF m
  <2>3. /\ session'[n][p].ready
        /\ \A x, y \in Node : ~(x = n /\ y = p) => session'[x][y] = session[x][y]
    BY <1>2, <2>1 DEF TypeOK, Session
  <2>4. \A x, y \in Node : chan'[x][y] = IF x = p /\ y = n THEN Tail(chan[p][n]) ELSE chan[x][y]
    BY <1>1, <1>2, ConsumedIs
  <2>5. SideInv'
    BY <1>1, <2>1, <2>3 DEF GreetInv, SideInv
  <2>6. LineInv'
    <3> SUFFICES ASSUME NEW x \in Node, NEW y \in Node, {x, y} \notin cut
                 PROVE  /\ link[x][y] \in {"none", "greeting"} =>
                              chan'[x][y] = <<>> /\ ~session'[y][x].ready
                        /\ link[x][y] = "open" => Heard(chan'[x][y], session'[y][x].ready)
      BY <1>1, <2>1 DEF LineInv
    <3>1. CASE x = p /\ y = n
      <4>1. session'[n][p].ready = TRUE
        BY <1>2, <2>1 DEF TypeOK, Session
      <4> QED BY <2>2, <2>4, <3>1, <4>1
    <3>2. CASE ~(x = p /\ y = n)
      BY <2>3, <2>4, <3>2 DEF GreetInv, LineInv
    <3> QED BY <3>1, <3>2
  <2>7. BusyInv'
    <3>1. Ask.do # "send" /\ Idle.do # "send"
      BY SimpleTasks, NotSends
    <3>2. \A x, y \in Node : \/ task'[x][y] = task[x][y]
                             \/ x = n /\ y = p /\ task'[x][y] \in {Ask, Idle}
      <4>1. task \in [Node -> [Node -> Task]]
        BY DEF TypeOK
      <4> QED BY <2>1, <4>1 DEF Turn
    <3>3. \A x, y \in Node : session[x][y].ready => session'[x][y].ready
      BY <2>3
    <3>4. \A x, y \in Node : task[x][y].do = "send" => task[x][y].to \subseteq Node
      BY TasksAre DEF TypeOK
    <3> SUFFICES ASSUME NEW x \in Node, NEW y \in Node
                 PROVE  /\ Reading(task'[x][y]) => {x, y} \in cut' \/ session'[x][y].ready
                        /\ task'[x][y].do = "send" => \A z \in task'[x][y].to :
                             \/ {x, z} \in cut'
                             \/ session'[x][z].ready /\ task'[x][y].message.type # "status"
      BY DEF BusyInv
    <3>5. CASE task'[x][y] = task[x][y]
      BY <2>1, <3>3, <3>4, <3>5 DEF GreetInv, BusyInv
    <3>6. CASE x = n /\ y = p /\ task'[x][y] \in {Ask, Idle}
      BY <2>3, <3>1, <3>6
    <3> QED BY <3>2, <3>5, <3>6
  <2> QED BY <1>3, <2>5, <2>6, <2>7 DEF GreetInv
<1> QED BY <1>4, <1>5

\* The loops and imports of a reader.
LEMMA ReaderSends ==
    ASSUME TypeOK, NEW n \in Node, NEW p \in Node,
           Request(n, p) \/ ServeBlock(n, p) \/ ImportFrom(n, p) \/ ImportBatch(n, p)
             \/ FinishBatch(n, p) \/ ImportFails(n, p)
    PROVE  \/ chan' = chan
           \/ \E m \in Message : m.type \in {"getBlocks", "blocks"} /\ chan' = Sent(chan, n, p, m)
<1> DEFINE k == task[n][p]
<1>1. k \in Task /\ head[n] \in Blocks
  BY DEF TypeOK
<1>2. /\ \A h : GetBlocks(h).type = "getBlocks"
      /\ \A bs : BlocksOf(bs).type = "blocks"
  BY DEF GetBlocks, BlocksOf
<1> HIDE DEF k
<1>3. CASE Request(n, p)
  <2>1. Height[head[n]] + 1 \in Nat
    BY <1>1, ProtocolAssumption
  <2>2. GetBlocks(Height[head[n]] + 1) \in Message
    BY <2>1, MessagesMade
  <2> QED BY <1>2, <1>3, <2>2 DEF Request
<1>4. CASE ServeBlock(n, p)
  <2>1. BlocksOf(k.blocks) \in Message
    BY <1>1, <1>4, TasksAre, MessagesMade DEF ServeBlock, k
  <2> QED BY <1>2, <1>4, <2>1 DEF ServeBlock, k
<1>5. CASE ImportFrom(n, p) \/ ImportBatch(n, p) \/ ImportFails(n, p)
  BY <1>5 DEF ImportFrom, ImportBatch, ImportFails
<1>6. CASE FinishBatch(n, p)
  <2>1. k.blocks \in Seq(Blocks) /\ k.blocks # <<>>
    BY <1>1, <1>6, TasksAre DEF FinishBatch, k
  <2>2. k.blocks[1] \in Blocks /\ Last(k.blocks) \in Blocks
    BY <2>1 DEF Last
  <2>3. /\ GetBlocks(Back(Height[k.blocks[1]])) \in Message
        /\ GetBlocks(Height[Last(k.blocks)] + 1) \in Message
    BY <2>2, MessagesMade, ProtocolAssumption DEF Back
  <2> QED BY <1>2, <1>6, <2>3 DEF FinishBatch, k
<1> QED BY <1>3, <1>4, <1>5, <1>6

\* A thread turns to anything but sending.
LEMMA TurnsToWork ==
    ASSUME TypeOK, GreetInv, SidesStay, NEW n \in Node, NEW t \in Node, NEW next,
           Turn(n, t, next), next.do # "send",
           Reading(next) => \/ Reading(task[n][t])
                            \/ {n, t} \in cut' \/ session[n][t].ready
    PROVE  BusyTurns
<1>1. \A x, y \in Node : task'[x][y] = IF x = n /\ y = t THEN next ELSE task[x][y]
  BY DEF TypeOK, Turn
<1>2. Reading(next) => {n, t} \in cut' \/ session'[n][t].ready
  BY DEF GreetInv, BusyInv, SidesStay
<1> SUFFICES ASSUME NEW x \in Node, NEW y \in Node, task'[x][y] # task[x][y]
             PROVE  /\ Reading(task'[x][y]) => {x, y} \in cut' \/ session'[x][y].ready
                    /\ task'[x][y].do # "send"
  BY DEF BusyTurns
<1>3. x = n /\ y = t /\ task'[x][y] = next
  BY <1>1
<1> QED BY <1>2, <1>3

LEMMA ReaderGreets ==
    ASSUME TypeOK, GreetInv, NEW n \in Node, NEW p \in Node,
           Request(n, p) \/ ServeBlock(n, p) \/ ImportFrom(n, p) \/ ImportBatch(n, p)
             \/ FinishBatch(n, p) \/ ImportFails(n, p)
    PROVE  GreetInv'
<1>1. /\ link' = link /\ session' = session /\ cut \subseteq cut'
      /\ task[n][p].do \in {"ask", "serve", "single", "batch"}
  BY DEF Request, ServeBlock, ImportFrom, ImportBatch, FinishBatch, ImportFails, netVars, Ask, Drop
<1>2. Reading(task[n][p])
  BY <1>1 DEF Reading, Rest
<1>3. LinkInv'
  BY <1>1 DEF GreetInv, LinkInv
<1>4. SidesStay
  BY <1>1 DEF SidesStay
<1>5. {n, p} \in cut \/ link[n][p] = "open"
  BY <1>2 DEF GreetInv, BusyInv, SideInv
<1>6. LinesGo
  <2>1. CASE chan' = chan
    BY <2>1 DEF LinesGo
  <2> QED BY <1>1, <1>5, <2>1, ReaderSends, SentGoes
<1>7. BusyTurns
  <2>1. /\ Idle.do # "send"
        /\ \A h, bs : Serve(h, bs).do # "send"
        /\ \A bs, i, some : Batch(bs, i, some).do # "send"
        /\ Ask.do # "send"
        /\ \A b, k : Announce(b, k).do # "send"
    BY DEF Idle, Serve, Batch, Ask, Announce
  <2>2. \E next : Turn(n, p, next) /\ next.do # "send"
    <3>1. CASE Request(n, p) \/ FinishBatch(n, p) \/ ImportFails(n, p)
      BY <2>1, <3>1 DEF Request, FinishBatch, ImportFails
    <3>2. CASE ServeBlock(n, p)
      BY <2>1, <3>2 DEF ServeBlock
    <3>3. CASE ImportFrom(n, p)
      BY <2>1, <3>3 DEF ImportFrom, Then
    <3>4. CASE ImportBatch(n, p)
      BY <2>1, <3>4 DEF ImportBatch, Then
    <3> QED BY <3>1, <3>2, <3>3, <3>4
  <2> QED BY <1>2, <1>4, <2>2, TurnsToWork
<1> QED BY <1>3, <1>4, <1>6, <1>7, GreetFrame DEF GreetInv

\* Sending leaves what a thread goes on to.
LEMMA SendIs ==
    ASSUME NEW to, NEW m, NEW then \in SimpleTask
    PROVE  /\ Rest(Send(to, m, then)) = then
           /\ Send(to, m, then).do = "send" =>
                to # {} /\ Send(to, m, then).to = to /\ Send(to, m, then).message = m
           /\ to # {} => Send(to, m, then).do = "send"
           /\ Send(to, m, then).do # "announce"
<1>1. then.do \notin {"announce", "send"} /\ Rest(then) = then
  BY NotSends
<1>2. CASE to = {}
  BY <1>1, <1>2 DEF Send
<1>3. CASE to # {}
  BY <1>3 DEF Send, Rest
<1> QED BY <1>2, <1>3

LEMMA AnnouncementGreets ==
    ASSUME TypeOK, GreetInv, NEW n \in Node, NEW t \in Node,
           AnnounceBlock(n, t) \/ AnnounceTransaction(n, t) \/ SendNext(n, t)
    PROVE  GreetInv'
<1> DEFINE k == task[n][t]
<1>1. k \in Task /\ session \in Sessions /\ link' = link /\ cut' = cut
  BY DEF TypeOK, Sessions, AnnounceBlock, AnnounceTransaction, SendNext, netVars
<1>2. LinkInv'
  BY <1>1 DEF GreetInv, LinkInv
<1> HIDE DEF k
<1>3. ASSUME NEW to \in SUBSET Node, NEW m \in Message, NEW then \in SimpleTask,
             Turn(n, t, Send(to, m, then)), SidesStay,
             m.type # "status", \A y \in to : {n, y} \in cut \/ session[n][y].ready,
             then.do \in {"idle", "relay"} \/ then = Rest(k)
      PROVE  BusyTurns
  <2> DEFINE next == Send(to, m, then)
  <2>1. /\ next \in Task /\ Rest(next) = then
        /\ next.do = "send" => next.to = to /\ next.message = m
    BY OtherTasks, SendIs
  <2> HIDE DEF next
  <2>2. Reading(next) => Reading(k)
    BY <1>3, <2>1 DEF Reading
  <2> QED BY <1>1, <1>3, <2>1, <2>2, TurnBusy DEF next, k
<1>4. CASE AnnounceBlock(n, t)
  <2> DEFINE targets == {p \in Ready(n) : k.block \notin session[n][p].seenBlocks}
  <2>1. k.do = "announce" /\ k.block \in Blocks /\ k.then \in SimpleTask /\ Rest(k) = k.then
    BY <1>1, <1>4, TasksAre DEF AnnounceBlock, Rest, k
  <2>2. MarkBlock(n, targets, k.block) /\ Turn(n, t, Send(targets, NewBlock(k.block), k.then))
    BY <1>4 DEF AnnounceBlock, k
  <2>3. targets \in SUBSET Node /\ \A y \in targets : session[n][y].ready
    BY DEF Ready
  <2> HIDE DEF targets
  <2>4. SidesStay
    <3>1. \A x, y \in Node : session'[x][y].ready = session[x][y].ready
      BY <1>1, <2>2 DEF MarkBlock, Sessions, Session
    <3> QED BY <1>1, <3>1 DEF SidesStay
  <2>5. NewBlock(k.block) \in Message /\ NewBlock(k.block).type # "status"
    BY <2>1, MessagesMade DEF NewBlock
  <2>6. BusyTurns
    BY <1>3, <2>1, <2>2, <2>3, <2>4, <2>5
  <2> QED BY <1>2, <1>4, <2>4, <2>6, GreetFrame DEF GreetInv, LinesGo, AnnounceBlock
<1>5. CASE AnnounceTransaction(n, t)
  <2> DEFINE targets == {p \in Ready(n) : k.tx \notin session[n][p].seenTxs}
  <2>1. k.tx \in Txs /\ Idle \in SimpleTask /\ Idle.do = "idle"
    BY <1>1, <1>5, TasksAre, SimpleTasks DEF AnnounceTransaction, k, Idle
  <2>2. Turn(n, t, Send(targets, NewTx(k.tx), Idle))
    BY <1>5 DEF AnnounceTransaction, k
  <2>3. targets \in SUBSET Node /\ \A y \in targets : session[n][y].ready
    BY DEF Ready
  <2> HIDE DEF targets
  <2>4. SidesStay
    BY <1>1, <1>5, OtherSessions DEF SameSessions, SidesStay
  <2>5. NewTx(k.tx) \in Message /\ NewTx(k.tx).type # "status"
    BY <2>1, MessagesMade DEF NewTx
  <2>6. BusyTurns
    BY <1>3, <2>1, <2>2, <2>3, <2>4, <2>5
  <2> QED BY <1>2, <1>5, <2>4, <2>6, GreetFrame DEF GreetInv, LinesGo, AnnounceTransaction
<1>6. CASE SendNext(n, t)
  <2>1. /\ k.do = "send" /\ k.to \subseteq Node /\ k.message \in Message
        /\ k.then \in SimpleTask /\ Rest(k) = k.then
    BY <1>1, <1>6, TasksAre DEF SendNext, Rest, k
  <2>2. PICK p \in k.to : /\ chan' = Sent(chan, n, p, k.message)
                          /\ Turn(n, t, Send(k.to \ {p}, k.message, k.then))
    BY <1>6 DEF SendNext, k
  <2>3. \A y \in k.to : {n, y} \in cut \/ (session[n][y].ready /\ k.message.type # "status")
    BY <2>1 DEF GreetInv, BusyInv, k
  <2>4. SidesStay
    BY <1>1, <1>6 DEF SidesStay, SendNext
  <2>5. LinesGo
    <3>1. {n, p} \in cut \/ (link[n][p] = "open" /\ k.message.type # "status")
      BY <2>1, <2>2, <2>3 DEF GreetInv, SideInv
    <3> QED BY <1>1, <2>1, <2>2, <3>1, SentGoes
  <2>6. BusyTurns
    <3>1. CASE k.message.type = "status"
      <4> DEFINE next == Send(k.to \ {p}, k.message, k.then)
      <4>1. /\ next \in Task /\ Rest(next) = k.then
            /\ next.do = "send" => next.to = k.to \ {p} /\ next.message = k.message
        BY <2>1, OtherTasks, SendIs
      <4> HIDE DEF next
      <4>2. Reading(next) => Reading(k)
        BY <2>1, <4>1 DEF Reading
      <4> QED BY <1>1, <2>2, <2>3, <2>4, <4>1, <4>2, TurnBusy DEF next, k
    <3>2. CASE k.message.type # "status"
      BY <1>3, <2>1, <2>2, <2>3, <2>4, <3>2
    <3> QED BY <3>1, <3>2
  <2> QED BY <1>2, <2>4, <2>5, <2>6, GreetFrame DEF GreetInv
<1> QED BY <1>4, <1>5, <1>6

LEMMA BeginningGreets ==
    ASSUME TypeOK, GreetInv, NEW n \in Node,
           \/ \E b \in Blocks : Mine(n, b)
           \/ \E tx \in Txs : SubmitTransaction(n, tx)
           \/ \E p \in Node : Tick(n, p)
    PROVE  GreetInv'
<1>1. link' = link /\ cut' = cut
  BY DEF Mine, SubmitTransaction, Tick, netVars
<1>2. LinkInv'
  BY <1>1 DEF GreetInv, LinkInv
<1>3. CASE (\E b \in Blocks : Mine(n, b)) \/ (\E tx \in Txs : SubmitTransaction(n, tx))
  <2>1. session' = session /\ chan' = chan
    BY <1>3 DEF Mine, SubmitTransaction
  <2>2. SidesStay /\ LinesGo
    BY <1>1, <2>1 DEF SidesStay, LinesGo
  <2>3. \/ task' = task
        \/ \E next : Turn(n, n, next) /\ next.do # "send" /\ ~Reading(next)
    <3>1. Idle \in SimpleTask
      BY SimpleTasks
    <3>2. \A b : LET k == Then(n, b, Idle) IN k.do # "send" /\ ~Reading(k)
      BY <3>1, NotSends DEF Reading, Idle
    <3>3. \A tx : Relay(tx).do = "relay" /\ ~Reading(Relay(tx))
      BY DEF Reading, Rest, Relay
    <3> QED BY <1>3, <3>2, <3>3 DEF Mine, SubmitTransaction, Admit
  <2>4. BusyTurns
    BY <2>2, <2>3, TurnsToWork DEF BusyTurns
  <2> QED BY <1>2, <2>2, <2>4, GreetFrame DEF GreetInv
<1>4. ASSUME NEW p \in Node, Tick(n, p) PROVE GreetInv'
  <2>1. /\ session[n][p].ready
        /\ chan' = Sent(chan, n, p, Ping(pings[n] + 1)) /\ task' = task
    BY <1>4 DEF Tick
  <2>1a. pings[n] \in Nat
    BY DEF TypeOK
  <2>2. pings[n] + 1 \in Nat
    BY <2>1a
  <2>4. SidesStay
    BY <1>1, <1>4, OtherSessions DEF SameSessions, SidesStay
  <2>5. Ping(pings[n] + 1) \in Message /\ Ping(pings[n] + 1).type # "status"
    BY <2>2, MessagesMade, PingKinds
  <2>6. {n, p} \in cut \/ link[n][p] = "open"
    BY <2>1 DEF GreetInv, SideInv
  <2>7. LinesGo
    BY <1>1, <2>1, <2>5, <2>6, SentGoes
  <2> QED BY <1>2, <2>1, <2>4, <2>7, GreetFrame DEF GreetInv, BusyTurns
<1> QED BY <1>3, <1>4

LEMMA GreetAlways == Spec => []GreetInv
<1>1. Init => GreetInv
  BY DEF Init, GreetInv, LinkInv, SideInv, LineInv, BusyInv, Reading, Rest, Idle, NewSession
<1>2. TypeOK /\ GreetInv /\ [Next]_vars => GreetInv'
  <2> SUFFICES ASSUME TypeOK, GreetInv, [Next]_vars PROVE GreetInv'
    OBVIOUS
  <2>1. CASE \E n, t \in Node : ThreadStep(n, t)
    BY <2>1, ConnectionGreets, HandlersGreet, StatusGreets, ReaderGreets, AnnouncementGreets
    DEF ThreadStep
  <2>2. CASE \E n, p \in Node : Tick(n, p) \/ Lose(n, p) \/ ImportFails(n, p)
    BY <2>2, ConnectionGreets, ReaderGreets, BeginningGreets
  <2>3. CASE \E n \in Node : \/ \E b \in Blocks : Mine(n, b)
                            \/ \E tx \in Txs : SubmitTransaction(n, tx)
    BY <2>3, BeginningGreets
  <2>4. CASE UNCHANGED vars
    <3>1. SidesStay /\ LinesGo /\ BusyTurns
      BY <2>4 DEF vars, SidesStay, LinesGo, BusyTurns
    <3>2. LinkInv'
      BY <2>4 DEF vars, GreetInv, LinkInv
    <3> QED BY <3>1, <3>2, GreetFrame DEF GreetInv
  <2> QED BY <2>1, <2>2, <2>3, <2>4 DEF Next
<1> QED BY <1>1, <1>2, TypeCorrect, PTL DEF Spec

-----------------------------------------------------------------------------
(* What is known of a peer. *)

\* Nobody says, or is believed, to be higher than it is; and what a peer is said to
\* have seen is stored on one side.
TellInv ==
    \A x, y \in Node :
        /\ \A m \in Range(chan[x][y]) : m.type = "status" => m.height <= Height[head[x]]
        /\ session[x][y].peerHeight <= Height[head[y]]
        /\ session[x][y].seenBlocks \subseteq known[x] \cup known[y]

TellsSo ==
    \A x, y \in Node : \A m \in Range(chan'[x][y]) :
        m \in Range(chan[x][y]) \/ (m.type = "status" => m.height <= Height[head'[x]])
LearnsSo ==
    \A x, y \in Node :
        /\ \/ session'[x][y].peerHeight = session[x][y].peerHeight
           \/ session'[x][y].peerHeight <= Height[head'[y]]
        /\ session'[x][y].seenBlocks \subseteq session[x][y].seenBlocks \cup known'[x] \cup known'[y]

LEMMA TellFrame ==
    ASSUME TypeOK, TypeOK', TellInv, Rises, TellsSo, LearnsSo
    PROVE  TellInv'
<1>1. \A x \in Node : /\ Height[head[x]] \in Nat /\ Height[head'[x]] \in Nat
                      /\ Height[head[x]] <= Height[head'[x]]
                      /\ known[x] \subseteq known'[x]
  BY ProtocolAssumption DEF TypeOK, Rises
<1>2. ASSUME NEW x \in Node, NEW y \in Node, NEW m \in Range(chan'[x][y]), m.type = "status"
      PROVE  m.height <= Height[head'[x]]
  <2>1. CASE m \in Range(chan[x][y])
    <3>1. chan[x][y] \in Seq(Message)
      BY DEF TypeOK
    <3>2. m \in Message
      BY <2>1, <3>1, InRange
    <3>3. m.height \in Nat /\ m.height <= Height[head[x]]
      BY <1>2, <2>1, <3>2, MessagesAre DEF TellInv
    <3>4. Height[head[x]] \in Nat /\ Height[head'[x]] \in Nat /\ Height[head[x]] <= Height[head'[x]]
      BY <1>1
    <3> QED BY <3>3, <3>4
  <2> QED BY <1>2, <2>1 DEF TellsSo
<1>3. ASSUME NEW x \in Node, NEW y \in Node
      PROVE  session'[x][y].peerHeight <= Height[head'[y]]
  <2>1. CASE session'[x][y].peerHeight = session[x][y].peerHeight
    <3>1. session[x][y].peerHeight \in Nat /\ session[x][y].peerHeight <= Height[head[y]]
      BY DEF TypeOK, Session, TellInv
    <3>2. Height[head[y]] \in Nat /\ Height[head'[y]] \in Nat /\ Height[head[y]] <= Height[head'[y]]
      BY <1>1
    <3> QED BY <2>1, <3>1, <3>2
  <2> QED BY <2>1 DEF LearnsSo
<1>4. \A x, y \in Node : session'[x][y].seenBlocks \subseteq known'[x] \cup known'[y]
  <2>1. \A x, y \in Node : session[x][y].seenBlocks \subseteq known'[x] \cup known'[y]
    BY <1>1 DEF TellInv
  <2> QED BY <2>1 DEF LearnsSo
<1> QED BY <1>2, <1>3, <1>4 DEF TellInv

LEMMA SentTells ==
    ASSUME TypeOK, NEW n \in Node, NEW p \in Node, NEW m \in Message,
           {n, p} \in cut \/ m.type # "status" \/ m.height <= Height[head'[n]],
           chan' = Sent(chan, n, p, m)
    PROVE  TellsSo
<1>1. chan \in Channels
  BY DEF TypeOK, Channels
<1>2. CASE {n, p} \in cut
  BY <1>2 DEF Sent, TellsSo
<1> QED BY <1>1, <1>2, AppendedOnly DEF TellsSo

LEMMA SameLearns ==
    ASSUME SameSessions PROVE LearnsSo
BY DEF SameSessions, LearnsSo

LEMMA NotedIn ==
    ASSUME NEW seen, NEW x
    PROVE  Noted(seen, x) \subseteq seen \cup {x} /\ x \in Noted(seen, x)
BY DEF Noted

LEMMA ConnectionTells ==
    ASSUME TypeOK, TypeOK', GreetInv, TellInv, Rises, NEW n \in Node, NEW p \in Node,
           AddPeer(n, p) \/ SendStatus(n, p) \/ Lose(n, p) \/ Close(n, p)
    PROVE  TellInv'
<1>1. \A x \in Node : Height[head'[x]] \in Nat
  BY ProtocolAssumption DEF TypeOK
<1>2. LearnsSo
  <2>1. CASE session' = session
    BY <2>1 DEF LearnsSo
  <2>2. CASE session' = [session EXCEPT ![n][p] = NewSession]
    <3>1. \A x, y \in Node : session'[x][y] = IF x = n /\ y = p THEN NewSession ELSE session[x][y]
      BY <2>2 DEF TypeOK
    <3>2. NewSession.peerHeight = 0 /\ NewSession.seenBlocks = {}
      BY DEF NewSession
    <3>3. \A x \in Node : 0 <= Height[head'[x]]
      BY <1>1
    <3> QED BY <3>1, <3>2, <3>3 DEF LearnsSo
  <2> QED BY <2>1, <2>2 DEF AddPeer, SendStatus, Lose, Close
<1>3. TellsSo
  <2>1. CASE chan' = chan
    BY <2>1 DEF TellsSo
  <2>2. CASE SendStatus(n, p)
    <3>1. Status(n) \in Message /\ Status(n).height = Height[head[n]]
      BY MessagesMade, ProtocolAssumption DEF Status, TypeOK
    <3>2. Height[head[n]] <= Height[head'[n]]
      BY DEF Rises
    <3> QED BY <2>2, <3>1, <3>2, SentTells DEF SendStatus
  <2>3. CASE Close(n, p)
    <3>1. \A x, y \in Node : chan'[x][y] \in {chan[x][y], <<>>}
      BY <2>3 DEF Close, TypeOK
    <3>2. Range(<<>>) = {}
      BY DEF Range
    <3> QED BY <3>1, <3>2 DEF TellsSo
  <2> QED BY <2>1, <2>2, <2>3 DEF AddPeer, Lose
<1> QED BY <1>2, <1>3, TellFrame

LEMMA HandlersTell ==
    ASSUME TypeOK, TypeOK', HonestInv, BestInv, TellInv, Rises, NEW n \in Node, NEW p \in Node,
           HandleStatus(n, p) \/ HandleNewBlock(n, p) \/ HandleGetBlocks(n, p)
             \/ HandleBlocks(n, p) \/ HandleNewTransaction(n, p)
             \/ HandlePing(n, p) \/ HandlePong(n, p)
    PROVE  TellInv'
<1> DEFINE m == Incoming(n, p)
<1>1. /\ chan[p][n] # <<>> /\ known' = known /\ head' = head
  BY DEF HandleStatus, HandleNewBlock, HandleGetBlocks, HandleBlocks, HandleNewTransaction,
         HandlePing, HandlePong, Receiving, netVars, chainVars
<1>2. chan \in Channels /\ session[n][p] \in Session
  BY DEF TypeOK, Channels
<1>3. /\ m \in Message /\ m \in Range(chan[p][n]) /\ Consumed(n, p) \in Channels
      /\ \A x, y \in Node : Range(Consumed(n, p)[x][y]) \subseteq Range(chan[x][y])
  BY <1>1, <1>2, ConsumedIs, ConsumedWas
<1> HIDE DEF m
<1>4. TellsSo
  <2>1. CASE HandlePing(n, p)
    <3> DEFINE c == Consumed(n, p)
    <3>1. Pong(m.nonce) \in Message /\ Pong(m.nonce).type = "pong"
      BY <1>3, <2>1, MessagesAre, MessagesMade, PingKinds DEF HandlePing, Receiving, m
    <3>2. chan' = Sent(c, n, p, Pong(m.nonce))
      BY <2>1 DEF HandlePing, m
    <3> HIDE DEF c
    <3>3. \A x, y \in Node : \A z \in Range(chan'[x][y]) :
             z \in Range(c[x][y]) \/ z = Pong(m.nonce)
      BY <1>3, <3>1, <3>2, AppendedOnly DEF c
    <3> QED BY <1>3, <3>1, <3>3 DEF TellsSo, c
  <2>2. CASE chan' = Consumed(n, p)
    BY <1>3, <2>2 DEF TellsSo
  <2> QED BY <2>1, <2>2 DEF HandleStatus, HandleNewBlock, HandleGetBlocks, HandleBlocks,
                            HandleNewTransaction, HandlePong
<1>5. LearnsSo
  <2>1. CASE session' = session
    BY <2>1 DEF LearnsSo
  <2>2. CASE HandleStatus(n, p)
    <3>1. m.type = "status" /\ m.height \in Nat /\ m.height <= Height[head[p]]
      BY <1>3, <2>2, MessagesAre DEF HandleStatus, Receiving, TellInv, m
    <3> DEFINE s == [session[n][p] EXCEPT !.ready = TRUE, !.peerHeight = m.height]
    <3>2. session' = session \/ session' = [session EXCEPT ![n][p] = s]
      BY <2>2 DEF HandleStatus, TypeOK, m
    <3>3. s.peerHeight = m.height /\ s.seenBlocks = session[n][p].seenBlocks
      BY <1>2 DEF Session
    <3> HIDE DEF s
    <3>4. ASSUME session' = [session EXCEPT ![n][p] = s] PROVE LearnsSo
      <4>1. \A x, y \in Node : session'[x][y] = IF x = n /\ y = p THEN s ELSE session[x][y]
        BY <3>4 DEF TypeOK
      <4> QED BY <1>1, <3>1, <3>3, <4>1 DEF LearnsSo
    <3> QED BY <2>1, <3>2, <3>4
  <2>3. CASE HandleNewBlock(n, p)
    <3> DEFINE h == IF Height[m.block] > session[n][p].peerHeight
                    THEN Height[m.block] ELSE session[n][p].peerHeight
               seen == Noted(session[n][p].seenBlocks, m.block)
               s == [session[n][p] EXCEPT !.seenBlocks = seen, !.peerHeight = h]
    <3>1. m.block \in known[p]
      BY <1>3, <2>3 DEF HandleNewBlock, Receiving, HonestInv, ChanInv, Told, m
    <3>2. Height[m.block] <= Height[head[p]]
      BY <3>1 DEF BestInv
    <3>3. session' = session \/ session' = [session EXCEPT ![n][p] = s]
      BY <2>3 DEF HandleNewBlock, m
    <3>4. seen \subseteq session[n][p].seenBlocks \cup known[p]
      BY <3>1, NotedIn
    <3>5. h = session[n][p].peerHeight \/ h <= Height[head[p]]
      BY <3>2
    <3> HIDE DEF h, seen
    <3>6. s.peerHeight = h /\ s.seenBlocks = seen
      BY <1>2 DEF Session
    <3> HIDE DEF s
    <3>7. ASSUME session' = [session EXCEPT ![n][p] = s] PROVE LearnsSo
      <4>1. \A x, y \in Node : session'[x][y] = IF x = n /\ y = p THEN s ELSE session[x][y]
        BY <3>7 DEF TypeOK
      <4> QED BY <1>1, <3>4, <3>5, <3>6, <4>1 DEF LearnsSo
    <3> QED BY <2>1, <3>3, <3>7
  <2>4. CASE HandleNewTransaction(n, p) \/ HandlePong(n, p)
    BY <2>4, OtherSessions, SameLearns
  <2> QED BY <2>1, <2>2, <2>3, <2>4 DEF HandleGetBlocks, HandleBlocks, HandlePing
<1> QED BY <1>4, <1>5, TellFrame

LEMMA ReaderTells ==
    ASSUME TypeOK, TypeOK', TellInv, Rises, NEW n \in Node, NEW p \in Node,
           Request(n, p) \/ ServeBlock(n, p) \/ ImportFrom(n, p) \/ ImportBatch(n, p)
             \/ FinishBatch(n, p) \/ ImportFails(n, p)
    PROVE  TellInv'
<1>1. session' = session
  BY DEF Request, ServeBlock, ImportFrom, ImportBatch, FinishBatch, ImportFails
<1>2. LearnsSo
  BY <1>1 DEF LearnsSo
<1>3. TellsSo
  <2>1. CASE chan' = chan
    BY <2>1 DEF TellsSo
  <2> QED BY <2>1, ReaderSends, SentTells
<1> QED BY <1>2, <1>3, TellFrame

LEMMA AnnouncementTells ==
    ASSUME TypeOK, TypeOK', GreetInv, HonestInv, TellInv, Rises, NEW n \in Node, NEW t \in Node,
           AnnounceBlock(n, t) \/ AnnounceTransaction(n, t) \/ SendNext(n, t)
    PROVE  TellInv'
<1> DEFINE k == task[n][t]
<1>1. k \in Task /\ session \in Sessions
  BY DEF TypeOK, Sessions
<1> HIDE DEF k
<1>2. CASE AnnounceBlock(n, t)
  <2>1. k.do = "announce" /\ k.block \in known[n]
    BY <1>2 DEF AnnounceBlock, HonestInv, TaskInv, Handles, k
  <2>2. \A x, y \in Node :
           \/ session'[x][y] = session[x][y]
           \/ x = n /\ session'[x][y] = [session[x][y] EXCEPT
                           !.seenBlocks = Noted(session[x][y].seenBlocks, k.block)]
    BY <1>1, <1>2 DEF AnnounceBlock, MarkBlock, Sessions, k
  <2>3. LearnsSo
    <3> SUFFICES ASSUME NEW x \in Node, NEW y \in Node, session'[x][y] # session[x][y]
                 PROVE  /\ session'[x][y].peerHeight = session[x][y].peerHeight
                        /\ session'[x][y].seenBlocks
                              \subseteq session[x][y].seenBlocks \cup known'[x]
      BY DEF LearnsSo
    <3>1. session'[x][y] = [session[x][y] EXCEPT
                               !.seenBlocks = Noted(session[x][y].seenBlocks, k.block)]
          /\ x = n
      BY <2>2
    <3>2. session[x][y] \in Session
      BY <1>1 DEF Sessions
    <3>3. k.block \in known'[x]
      BY <2>1, <3>1 DEF Rises
    <3>4. Noted(session[x][y].seenBlocks, k.block) \subseteq session[x][y].seenBlocks \cup {k.block}
      BY NotedIn
    <3>5. /\ session'[x][y].peerHeight = session[x][y].peerHeight
          /\ session'[x][y].seenBlocks = Noted(session[x][y].seenBlocks, k.block)
      BY <3>1, <3>2 DEF Session
    <3> QED BY <3>3, <3>4, <3>5
  <2> QED BY <1>2, <2>3, TellFrame DEF AnnounceBlock, TellsSo
<1>3. CASE AnnounceTransaction(n, t)
  <2>1. LearnsSo
    BY <1>3, OtherSessions, SameLearns
  <2> QED BY <1>3, <2>1, TellFrame DEF AnnounceTransaction, TellsSo
<1>4. CASE SendNext(n, t)
  <2>1. k.do = "send" /\ k.to \subseteq Node /\ k.message \in Message
    BY <1>1, <1>4, TasksAre DEF SendNext, k
  <2>2. PICK p \in k.to : chan' = Sent(chan, n, p, k.message)
    BY <1>4 DEF SendNext, k
  <2>3. {n, p} \in cut \/ k.message.type # "status"
    BY <2>1, <2>2 DEF GreetInv, BusyInv, k
  <2>4. TellsSo
    BY <2>1, <2>2, <2>3, SentTells
  <2> QED BY <1>4, <2>4, TellFrame DEF SendNext, LearnsSo
<1> QED BY <1>2, <1>3, <1>4

LEMMA BeginningTells ==
    ASSUME TypeOK, TypeOK', TellInv, Rises, NEW n \in Node,
           \/ \E b \in Blocks : Mine(n, b)
           \/ \E tx \in Txs : SubmitTransaction(n, tx)
           \/ \E p \in Node : Tick(n, p)
    PROVE  TellInv'
<1>1. CASE (\E b \in Blocks : Mine(n, b)) \/ (\E tx \in Txs : SubmitTransaction(n, tx))
  <2>1. session' = session /\ chan' = chan
    BY <1>1 DEF Mine, SubmitTransaction
  <2> QED BY <2>1, TellFrame DEF TellsSo, LearnsSo
<1>2. ASSUME NEW p \in Node, Tick(n, p) PROVE TellInv'
  <2>1. chan' = Sent(chan, n, p, Ping(pings[n] + 1))
    BY <1>2 DEF Tick
  <2>1a. pings[n] \in Nat
    BY DEF TypeOK
  <2>2. pings[n] + 1 \in Nat
    BY <2>1a
  <2>4. LearnsSo
    BY <1>2, OtherSessions, SameLearns
  <2>5. Ping(pings[n] + 1) \in Message /\ Ping(pings[n] + 1).type # "status"
    BY <2>2, MessagesMade, PingKinds
  <2> QED BY <2>1, <2>4, <2>5, SentTells, TellFrame
<1> QED BY <1>1, <1>2

LEMMA TellAlways == Spec => []TellInv
<1>1. Init => TellInv
  <2> SUFFICES ASSUME Init PROVE TellInv
    OBVIOUS
  <2>1. \A x \in Node : Height[head[x]] \in Nat
    BY ProtocolAssumption DEF Init
  <2>2. \A x, y \in Node : session[x][y] = NewSession /\ chan[x][y] = <<>>
    BY DEF Init
  <2>3. NewSession.peerHeight = 0 /\ NewSession.seenBlocks = {} /\ Range(<<>>) = {}
    BY DEF NewSession, Range
  <2> QED BY <2>1, <2>2, <2>3 DEF TellInv
<1>2. TypeOK /\ TypeOK' /\ HonestInv /\ BestInv /\ GreetInv /\ TellInv /\ [Next]_vars => TellInv'
  <2> SUFFICES ASSUME TypeOK, TypeOK', HonestInv, BestInv, GreetInv, TellInv, [Next]_vars
               PROVE  TellInv'
    OBVIOUS
  <2>1. Rises
    BY StepRises
  <2>2. CASE \E n, t \in Node : ThreadStep(n, t)
    BY <2>1, <2>2, ConnectionTells, HandlersTell, ReaderTells, AnnouncementTells DEF ThreadStep
  <2>3. CASE \E n, p \in Node : Tick(n, p) \/ Lose(n, p) \/ ImportFails(n, p)
    BY <2>1, <2>3, ConnectionTells, ReaderTells, BeginningTells
  <2>4. CASE \E n \in Node : \/ \E b \in Blocks : Mine(n, b)
                            \/ \E tx \in Txs : SubmitTransaction(n, tx)
    BY <2>1, <2>4, BeginningTells
  <2>5. CASE UNCHANGED vars
    BY <2>1, <2>5, TellFrame DEF vars, TellsSo, LearnsSo
  <2> QED BY <2>2, <2>3, <2>4, <2>5 DEF Next
<1> QED BY <1>1, <1>2, TypeCorrect, HonestAlways, BestAlways, GreetAlways, PTL DEF Spec

-----------------------------------------------------------------------------
(* The chain of a head has one block of each height. *)

LEMMA AncestorsBelow ==
    ASSUME NEW b \in Blocks, NEW c \in Ancestry[b]
    PROVE  Height[c] <= Height[b] /\ (Height[c] = Height[b] => c = b)
<1> DEFINE T == {d \in Blocks : \A e \in Ancestry[d] :
                    Height[e] <= Height[d] /\ (Height[e] = Height[d] => e = d)}
<1>1. ASSUME NEW d \in Blocks, Parent[d] # NoBlock => Parent[d] \in T PROVE d \in T
  <2> SUFFICES ASSUME NEW e \in Ancestry[d], e # d
               PROVE  Height[e] <= Height[d] /\ Height[e] # Height[d]
    BY ProtocolAssumption
  <2>1. Parent[d] # NoBlock /\ e \in Ancestry[Parent[d]]
    BY AncestryUnfolds
  <2>2. Height[e] <= Height[Parent[d]] /\ Parent[d] \in Blocks
    BY <1>1, <2>1
  <2>3. Height[d] = Height[Parent[d]] + 1 /\ Height[Parent[d]] \in Nat
    BY <2>1, <2>2, ProtocolAssumption
  <2>4. Height[e] \in Nat
    BY <2>1, <2>2, AncestryType, ProtocolAssumption
  <2> QED BY <2>2, <2>3, <2>4
<1>2. Blocks \subseteq T
  BY <1>1, BlockInduction
<1> QED BY <1>2

LEMMA AncestorsLink ==
    ASSUME NEW b \in Blocks, NEW c \in Ancestry[b], NEW d \in Ancestry[b],
           Height[d] = Height[c] + 1
    PROVE  Parent[d] = c
<1> DEFINE Links(e) == \A x, y \in Ancestry[e] : Height[y] = Height[x] + 1 => Parent[y] = x
           T == {e \in Blocks : Links(e)}
<1>1. ASSUME NEW e \in Blocks, Parent[e] # NoBlock => Parent[e] \in T PROVE e \in T
  <2> SUFFICES ASSUME NEW x \in Ancestry[e], NEW y \in Ancestry[e], Height[y] = Height[x] + 1
               PROVE  Parent[y] = x
    OBVIOUS
  <2>1. x \in Blocks /\ y \in Blocks /\ Height[x] \in Nat /\ Height[y] \in Nat /\ Height[e] \in Nat
    BY AncestryType, ProtocolAssumption
  <2>2. Height[y] <= Height[e]
    BY AncestorsBelow
  <2>3. x # e
    BY <2>1, <2>2
  <2>4. Parent[e] # NoBlock /\ x \in Ancestry[Parent[e]] /\ Parent[e] \in Blocks
    BY <2>3, AncestryUnfolds, ProtocolAssumption
  <2>5. CASE y = e
    <3>1. Height[e] = Height[Parent[e]] + 1 /\ Height[Parent[e]] \in Nat
      BY <2>4, ProtocolAssumption
    <3>2. Height[x] = Height[Parent[e]]
      BY <2>1, <2>5, <3>1
    <3> QED BY <2>4, <2>5, <3>2, AncestorsBelow
  <2>6. CASE y # e
    <3>1. y \in Ancestry[Parent[e]]
      BY <2>4, <2>6, AncestryUnfolds
    <3> QED BY <1>1, <2>4, <3>1
  <2> QED BY <2>5, <2>6
<1> HIDE DEF Links
<1>2. Blocks \subseteq T
  BY <1>1, BlockInduction
<1>3. Links(b)
  BY <1>2
<1> QED BY <1>3 DEF Links

LEMMA AncestorsFill ==
    ASSUME NEW b \in Blocks, NEW g \in Ancestry[b], Parent[g] = NoBlock, Height[g] = 0,
           NEW h \in Nat, h <= Height[b]
    PROVE  \E c \in Ancestry[b] : Height[c] = h
<1> DEFINE Fills(e) == g \in Ancestry[e] =>
              \A i \in Nat : i <= Height[e] => \E c \in Ancestry[e] : Height[c] = i
           T == {e \in Blocks : Fills(e)}
<1>1. ASSUME NEW e \in Blocks, Parent[e] # NoBlock => Parent[e] \in T PROVE e \in T
  <2> SUFFICES ASSUME g \in Ancestry[e], NEW i \in Nat, i <= Height[e]
               PROVE  \E c \in Ancestry[e] : Height[c] = i
    OBVIOUS
  <2>1. e \in Ancestry[e] /\ Height[e] \in Nat
    BY AncestryUnfolds, ProtocolAssumption
  <2>2. CASE e = g
    BY <2>1, <2>2
  <2>3. CASE e # g /\ i # Height[e]
    <3>1. Parent[e] # NoBlock /\ Parent[e] \in Blocks /\ g \in Ancestry[Parent[e]]
      BY <2>3, AncestryUnfolds, ProtocolAssumption
    <3>2. Height[e] = Height[Parent[e]] + 1 /\ Height[Parent[e]] \in Nat
      BY <3>1, ProtocolAssumption
    <3>3. i <= Height[Parent[e]]
      BY <2>1, <2>3, <3>2
    <3>4. \E c \in Ancestry[Parent[e]] : Height[c] = i
      BY <1>1, <3>1, <3>3
    <3> QED BY <3>1, <3>4, AncestryUnfolds
  <2> QED BY <2>1, <2>2, <2>3
<1> HIDE DEF Fills
<1>2. Blocks \subseteq T
  BY <1>1, BlockInduction
<1>3. Fills(b)
  BY <1>2
<1> QED BY <1>3 DEF Fills

\* blockByHeight finds one block at every height up to the head's, the child of the
\* one before.
LEMMA CanonicalFills ==
    ASSUME TypeOK, ChainInv, BestInv, NEW n \in Node, NEW h \in Nat, h <= Height[head[n]]
    PROVE  Canonical(n, h) # {}
<1>1. head[n] \in Blocks /\ head[n] \in known[n] /\ known[n] \in SUBSET Blocks
  BY DEF TypeOK
<1>2. Genesis(n) \in Ancestry[head[n]]
  BY <1>1, RootedRoot DEF ChainInv
<1>3. Parent[Genesis(n)] = NoBlock /\ Height[Genesis(n)] = 0
  BY ProtocolAssumption DEF BestInv
<1> QED BY <1>1, <1>2, <1>3, AncestorsFill DEF Canonical

-----------------------------------------------------------------------------
(* Nobody stays behind. *)

\* Each block is the parent of the next.
Linked(bs) == bs # <<>> /\ \A i \in 1 .. Len(bs) - 1 : Parent[bs[i + 1]] = bs[i]

\* What will bring n to height h, or have it ask again, and where it is: on its way
\* from p, asked for, handled by n, about to be announced by p, or being read by p.
Arriving(n, p, h) ==
    \E m \in Range(chan[p][n]) :
        \/ m.type = "newBlock" /\ Height[m.block] >= h
        \/ m.type = "blocks" /\ Linked(m.blocks) /\ Height[m.blocks[1]] <= h

Requested(n, p, h) == \E m \in Range(chan[n][p]) : m.type = "getBlocks" /\ m.from <= h

\* A batch that has connected connects up to its last import.
InHand(n, p, h) ==
    LET k == Rest(task[n][p])
    IN  \/ k.do = "single" /\ Height[k.block] >= h
        \/ k.do = "ask"
        \/ /\ k.do = "batch" /\ Linked(k.blocks) /\ Height[k.blocks[1]] <= h
           /\ k.at <= Len(k.blocks) + 1
           /\ k.accepted => k.at > 1 /\ k.blocks[k.at - 1] \in known[n]

Announcing(n, p, h) ==
    \E t \in Node :
        \/ /\ task[p][t].do = "announce" /\ Height[task[p][t].block] >= h
           /\ session[p][n].ready /\ task[p][t].block \notin session[p][n].seenBlocks
        \/ /\ task[p][t].do = "send" /\ n \in task[p][t].to
           /\ task[p][t].message.type = "newBlock" /\ Height[task[p][t].message.block] >= h

\* What is read already is of the chain of now.
Serving(n, p, h) ==
    LET k == Rest(task[p][n])
    IN  /\ k.do = "serve" /\ k.from <= h
        /\ k.blocks # <<>> =>
             /\ Linked(k.blocks) /\ Height[k.blocks[1]] = k.from
             /\ Last(k.blocks) \in Ancestry[head[p]]
             /\ Height[Last(k.blocks)] = k.from + Len(k.blocks) - 1

Comes(n, p, h) ==
    \/ Arriving(n, p, h) \/ Requested(n, p, h) \/ InHand(n, p, h)
    \/ Announcing(n, p, h) \/ Serving(n, p, h)

\* n knows p to be higher.
Behind(n, p) ==
    {n, p} \notin cut /\ session[n][p].ready /\ session[n][p].peerHeight > Height[head[n]]

BehindInv ==
    failures = 0 =>
        \A n, p \in Node : Behind(n, p) => Comes(n, p, session[n][p].peerHeight)

\* What most steps leave where it is.
KeepsNews(x, y) ==
    \A m \in Range(chan[x][y]) :
        m.type \in {"newBlock", "blocks"} => m \in Range(chan'[x][y])
KeepsRequests(x, y) ==
    \A m \in Range(chan[x][y]) : m.type = "getBlocks" => m \in Range(chan'[x][y])
KeepsHand(x, y) ==
    Rest(task[x][y]).do \in {"single", "ask", "batch"} => Rest(task'[x][y]) = Rest(task[x][y])
KeepsServing(x, y) ==
    Rest(task[x][y]).do = "serve" => /\ Rest(task'[x][y]) = Rest(task[x][y])
                                     /\ head'[x] = head[x]
KeepsTelling(x) ==
    \A t \in Node : task[x][t].do \in {"announce", "send"} => task'[x][t] = task[x][t]
KeepsMarks(x, y) ==
    session[x][y].ready =>
        session'[x][y].ready /\ session'[x][y].seenBlocks \subseteq session[x][y].seenBlocks

LEMMA Stays ==
    ASSUME TypeOK, Rises, NEW n \in Node, NEW p \in Node, NEW h
    PROVE  /\ KeepsNews(p, n) /\ Arriving(n, p, h) => Arriving(n, p, h)'
           /\ KeepsRequests(n, p) /\ Requested(n, p, h) => Requested(n, p, h)'
           /\ KeepsHand(n, p) /\ InHand(n, p, h) => InHand(n, p, h)'
           /\ KeepsTelling(p) /\ KeepsMarks(p, n) /\ Announcing(n, p, h) => Announcing(n, p, h)'
           /\ KeepsServing(p, n) /\ Serving(n, p, h) => Serving(n, p, h)'
<1>1. KeepsNews(p, n) /\ Arriving(n, p, h) => Arriving(n, p, h)'
  BY DEF KeepsNews, Arriving
<1>2. KeepsRequests(n, p) /\ Requested(n, p, h) => Requested(n, p, h)'
  BY DEF KeepsRequests, Requested
<1>3. KeepsHand(n, p) /\ InHand(n, p, h) => InHand(n, p, h)'
  <2> SUFFICES ASSUME KeepsHand(n, p), InHand(n, p, h) PROVE InHand(n, p, h)'
    OBVIOUS
  <2>1. Rest(task'[n][p]) = Rest(task[n][p])
    BY DEF KeepsHand, InHand
  <2>2. known[n] \subseteq known'[n]
    BY DEF Rises
  <2> QED BY <2>1, <2>2 DEF InHand
<1>4. KeepsTelling(p) /\ KeepsMarks(p, n) /\ Announcing(n, p, h) => Announcing(n, p, h)'
  <2> SUFFICES ASSUME KeepsTelling(p), KeepsMarks(p, n), NEW t \in Node,
                      \/ /\ task[p][t].do = "announce" /\ Height[task[p][t].block] >= h
                         /\ session[p][n].ready
                         /\ task[p][t].block \notin session[p][n].seenBlocks
                      \/ /\ task[p][t].do = "send" /\ n \in task[p][t].to
                         /\ task[p][t].message.type = "newBlock"
                         /\ Height[task[p][t].message.block] >= h
               PROVE  Announcing(n, p, h)'
    BY DEF Announcing
  <2>1. task'[p][t] = task[p][t]
    BY DEF KeepsTelling
  <2> QED BY <2>1 DEF Announcing, KeepsMarks
<1>5. KeepsServing(p, n) /\ Serving(n, p, h) => Serving(n, p, h)'
  <2> SUFFICES ASSUME KeepsServing(p, n), Serving(n, p, h) PROVE Serving(n, p, h)'
    OBVIOUS
  <2>1. /\ Rest(task'[p][n]) = Rest(task[p][n])
        /\ head'[p] = head[p]
    BY DEF KeepsServing, Serving
  <2> QED BY <2>1 DEF Serving
<1> QED BY <1>1, <1>2, <1>3, <1>4, <1>5

\* Who is behind after a step that tells it nothing was so before.
LEMMA WasBehind ==
    ASSUME TypeOK, TypeOK', BehindInv, Rises, cut \subseteq cut', failures = 0,
           NEW n \in Node, NEW p \in Node, Behind(n, p)',
           session[n][p].ready, session'[n][p].peerHeight = session[n][p].peerHeight
    PROVE  Behind(n, p) /\ Comes(n, p, session'[n][p].peerHeight)
<1>1. /\ Height[head[n]] \in Nat /\ Height[head'[n]] \in Nat
      /\ Height[head[n]] <= Height[head'[n]] /\ session[n][p].peerHeight \in Nat
  BY ProtocolAssumption DEF TypeOK, Rises, Session
<1>2. Behind(n, p)
  BY <1>1 DEF Behind
<1> QED BY <1>2 DEF BehindInv

\* What the parts of a step keep: a turn of one thread, a message sent or read.
LEMMA TurnKeeps ==
    ASSUME TypeOK, NEW a \in Node, NEW t \in Node, NEW next \in Task,
           task' = task \/ Turn(a, t, next)
    PROVE  /\ \A x, y \in Node : ~(x = a /\ y = t) =>
                KeepsHand(x, y) /\ Rest(task'[x][y]) = Rest(task[x][y])
           /\ \A x \in Node : x # a => KeepsTelling(x)
           /\ task[a][t].do \notin {"announce", "send"} => \A x \in Node : KeepsTelling(x)
           /\ Rest(task[a][t]).do \notin {"single", "ask", "batch"} \/ Rest(next) = Rest(task[a][t]) =>
                KeepsHand(a, t)
<1>1. CASE task' = task
  BY <1>1 DEF KeepsHand, KeepsTelling
<1>2. CASE Turn(a, t, next)
  <2>0. task \in [Node -> [Node -> Task]]
    BY DEF TypeOK
  <2>1. \A x, y \in Node : task'[x][y] = IF x = a /\ y = t THEN next ELSE task[x][y]
    BY <1>2, <2>0, TurnIs
  <2>2. \A x, y \in Node : ~(x = a /\ y = t) =>
           KeepsHand(x, y) /\ Rest(task'[x][y]) = Rest(task[x][y])
    BY <2>1 DEF KeepsHand
  <2>3. \A x \in Node : x # a => KeepsTelling(x)
    BY <2>1 DEF KeepsTelling
  <2>4. task[a][t].do \notin {"announce", "send"} => \A x \in Node : KeepsTelling(x)
    BY <2>1 DEF KeepsTelling
  <2>5. Rest(task[a][t]).do \notin {"single", "ask", "batch"} \/ Rest(next) = Rest(task[a][t]) =>
           KeepsHand(a, t)
    BY <2>1 DEF KeepsHand
  <2> QED BY <2>2, <2>3, <2>4, <2>5
<1> QED BY <1>1, <1>2

\* A thread that does not serve has no answer to lose.
LEMMA ServingKept ==
    ASSUME NEW x \in Node, NEW y \in Node,
           \/ Rest(task[x][y]).do # "serve"
           \/ Rest(task'[x][y]) = Rest(task[x][y]) /\ head'[x] = head[x]
    PROVE  KeepsServing(x, y)
BY DEF KeepsServing

LEMMA SentStays ==
    ASSUME TypeOK, NEW a \in Node, NEW t \in Node, NEW m \in Message,
           chan' = chan \/ chan' = Sent(chan, a, t, m)
    PROVE  \A x, y \in Node : KeepsNews(x, y) /\ KeepsRequests(x, y)
<1>1. chan \in Channels
  BY DEF TypeOK, Channels
<1>2. \A x, y \in Node : Range(chan[x][y]) \subseteq Range(chan'[x][y])
  <2>1. CASE chan' = chan
    BY <2>1
  <2>2. CASE chan' = Sent(chan, a, t, m)
    BY <1>1, <2>2, SentKeeps
  <2> QED BY <2>1, <2>2
<1> QED BY <1>2 DEF KeepsNews, KeepsRequests

LEMMA ReadStays ==
    ASSUME TypeOK, NEW a \in Node, NEW t \in Node, chan[t][a] # <<>>,
           \A x, y \in Node : Range(Consumed(a, t)[x][y]) \subseteq Range(chan'[x][y])
    PROVE  /\ \A x, y \in Node : \A m \in Range(chan[x][y]) :
                ~(x = t /\ y = a) \/ m # Incoming(a, t) => m \in Range(chan'[x][y])
           /\ \A x, y \in Node : ~(x = t /\ y = a) => KeepsNews(x, y) /\ KeepsRequests(x, y)
           /\ Incoming(a, t).type \notin {"newBlock", "blocks"} => KeepsNews(t, a)
           /\ Incoming(a, t).type # "getBlocks" => KeepsRequests(t, a)
<1>1. chan \in Channels
  BY DEF TypeOK, Channels
<1>2. ASSUME NEW x \in Node, NEW y \in Node, NEW m \in Range(chan[x][y]),
             ~(x = t /\ y = a) \/ m # Incoming(a, t)
      PROVE  m \in Range(Consumed(a, t)[x][y])
  <2>1. CASE ~(x = t /\ y = a)
    <3>1. Consumed(a, t)[x][y] = chan[x][y]
      BY <1>1, <2>1, ConsumedIs
    <3> QED BY <3>1
  <2>2. CASE m # Incoming(a, t)
    BY <1>1, <2>2, ConsumedKeeps
  <2> QED BY <1>2, <2>1, <2>2
<1>3. \A x, y \in Node : \A m \in Range(chan[x][y]) :
         ~(x = t /\ y = a) \/ m # Incoming(a, t) => m \in Range(chan'[x][y])
  BY <1>2
<1> QED BY <1>3 DEF KeepsNews, KeepsRequests

\* Nothing that comes to x from y is touched.
PairKeeps(x, y) ==
    /\ KeepsNews(y, x) /\ KeepsRequests(x, y) /\ KeepsHand(x, y)
    /\ KeepsTelling(y) /\ KeepsMarks(y, x) /\ KeepsServing(y, x)

\* What a step has to show of a peer that is behind after it.
LEMMA BehindShown ==
    ASSUME TypeOK',
           \A x, y \in Node : \A h \in Nat :
               failures' = 0 /\ Behind(x, y)' /\ h = session'[x][y].peerHeight => Comes(x, y, h)'
    PROVE  BehindInv'
<1> SUFFICES ASSUME failures' = 0, NEW x \in Node, NEW y \in Node, Behind(x, y)'
             PROVE  Comes(x, y, session[x][y].peerHeight)'
  BY DEF BehindInv
<1>1. session'[x][y].peerHeight \in Nat
  BY DEF TypeOK, Session
<1> QED BY <1>1 DEF Comes, Arriving, Requested, InHand, Announcing, Serving

\* A pair that nothing has touched: what it waits for still comes.
LEMMA PairWaits ==
    ASSUME TypeOK, TypeOK', BehindInv, Rises, cut \subseteq cut', failures = 0,
           NEW x \in Node, NEW y \in Node, NEW h \in Nat, Behind(x, y)',
           h = session'[x][y].peerHeight,
           session[x][y].ready, session'[x][y].peerHeight = session[x][y].peerHeight
    PROVE  Behind(x, y) /\ Comes(x, y, h)
BY WasBehind

LEMMA PairComes ==
    ASSUME TypeOK, TypeOK', BehindInv, Rises, cut \subseteq cut', failures = 0,
           NEW x \in Node, NEW y \in Node, NEW h \in Nat, Behind(x, y)',
           h = session'[x][y].peerHeight,
           session[x][y].ready, session'[x][y].peerHeight = session[x][y].peerHeight,
           PairKeeps(x, y)
    PROVE  Comes(x, y, h)'
<1>1. Comes(x, y, h)
  BY PairWaits
<1> QED BY <1>1, Stays DEF PairKeeps, Comes

\* A step that leaves what comes to anyone where it is.
QuietStep ==
    \A x, y \in Node : {x, y} \notin cut' =>
        /\ session'[x][y].ready =>
             session[x][y].ready /\ session'[x][y].peerHeight = session[x][y].peerHeight
        /\ PairKeeps(x, y)

LEMMA QuietFrame ==
    ASSUME TypeOK, TypeOK', BehindInv, Rises, cut \subseteq cut', failures' = failures,
           QuietStep
    PROVE  BehindInv'
<1>1. ASSUME NEW x \in Node, NEW y \in Node, NEW h \in Nat, failures' = 0, Behind(x, y)',
             h = session'[x][y].peerHeight
      PROVE  Comes(x, y, h)'
  <2>1. {x, y} \notin cut' /\ session'[x][y].ready
    BY <1>1 DEF Behind
  <2>2. /\ session[x][y].ready /\ session'[x][y].peerHeight = session[x][y].peerHeight
        /\ PairKeeps(x, y)
    BY <2>1 DEF QuietStep
  <2> QED BY <1>1, <2>2, PairComes
<1> QED BY <1>1, BehindShown

\* What a step that leaves the tasks of the readers and the sessions' say on blocks does.
LEMMA MarksKept ==
    ASSUME SameSessions, NEW x \in Node, NEW y \in Node PROVE KeepsMarks(x, y)
BY DEF SameSessions, KeepsMarks

LEMMA SameIsSame ==
    ASSUME session' = session PROVE SameSessions
BY DEF SameSessions

LEMMA ConnectionWaits ==
    ASSUME TypeOK, TypeOK', GreetInv, BehindInv, Rises, NEW a \in Node, NEW t \in Node,
           AddPeer(a, t) \/ SendStatus(a, t) \/ Lose(a, t) \/ Close(a, t)
    PROVE  BehindInv'
<1>1. /\ task' = task /\ head' = head /\ failures' = failures /\ cut \subseteq cut'
  BY DEF AddPeer, SendStatus, Lose, Close, chainVars
<1>2. \A x, y \in Node : KeepsHand(x, y) /\ KeepsServing(x, y) /\ KeepsTelling(x)
  BY <1>1 DEF KeepsHand, KeepsServing, KeepsTelling
<1>3. \A x, y \in Node : {x, y} \notin cut' =>
         /\ session'[x][y].ready =>
              session[x][y].ready /\ session'[x][y].peerHeight = session[x][y].peerHeight
         /\ KeepsMarks(x, y)
  <2>1. CASE session' = session
    BY <2>1, SameIsSame, MarksKept
  <2>2. CASE session' = [session EXCEPT ![a][t] = NewSession] /\ ({a, t} \in cut' \/ link[a][t] = "none")
    <3>1. \A x, y \in Node : session'[x][y] = IF x = a /\ y = t THEN NewSession ELSE session[x][y]
      BY <2>2 DEF TypeOK
    <3>2. {a, t} \notin cut' => ~session[a][t].ready
      BY <1>1, <2>2 DEF GreetInv, SideInv
    <3>3. ~NewSession.ready
      BY DEF NewSession
    <3> QED BY <3>1, <3>2, <3>3 DEF KeepsMarks
  <2> QED BY <2>1, <2>2 DEF AddPeer, SendStatus, Lose, Close
<1>4. \A x, y \in Node : {x, y} \notin cut' => KeepsNews(x, y) /\ KeepsRequests(x, y)
  <2>1. Status(a) \in Message
    BY MessagesMade, ProtocolAssumption DEF Status, TypeOK
  <2>2. CASE chan' = chan \/ chan' = Sent(chan, a, t, Status(a))
    BY <2>1, <2>2, SentStays
  <2>3. CASE Close(a, t)
    <3>1. \A x, y \in Node : {x, y} \notin cut' => chan'[x][y] = chan[x][y]
      <4>1. {t, a} = {a, t} /\ {a, t} \in cut' /\ chan' = [chan EXCEPT ![t][a] = <<>>]
        BY <1>1, <2>3 DEF Close
      <4>2. \A x, y \in Node : ~(x = t /\ y = a) => chan'[x][y] = chan[x][y]
        BY <4>1 DEF TypeOK
      <4> QED BY <4>1, <4>2
    <3> QED BY <3>1 DEF KeepsNews, KeepsRequests
  <2> QED BY <2>2, <2>3 DEF AddPeer, SendStatus, Lose
<1>5. QuietStep
  <2>1. \A x, y : {x, y} = {y, x}
    OBVIOUS
  <2> QED BY <1>2, <1>3, <1>4, <2>1 DEF QuietStep, PairKeeps
<1> QED BY <1>1, <1>5, QuietFrame

\* Transactions, and the keepalive.
LEMMA OthersWait ==
    ASSUME TypeOK, TypeOK', GreetInv, BehindInv, Rises, NEW a \in Node, NEW t \in Node,
           \/ HandleNewTransaction(a, t) \/ AnnounceTransaction(a, t) \/ Tick(a, t)
           \/ HandlePing(a, t) \/ HandlePong(a, t)
           \/ a = t /\ \E tx \in Txs : SubmitTransaction(a, tx)
    PROVE  BehindInv'
<1> DEFINE m == Incoming(a, t)
<1>1. head' = head /\ failures' = failures /\ cut' = cut
  BY DEF HandleNewTransaction, AnnounceTransaction, Tick, HandlePing, HandlePong,
         SubmitTransaction, chainVars, netVars
<1>2. SameSessions
  <2>1. CASE session' = session
    BY <2>1, SameIsSame
  <2> QED BY <2>1, OtherSessions DEF HandlePing, SubmitTransaction
<1>3. \A x, y \in Node : KeepsHand(x, y) /\ KeepsServing(x, y) /\ KeepsTelling(x)
  <2>1. CASE task' = task
    BY <1>1, <2>1 DEF KeepsHand, KeepsServing, KeepsTelling
  <2>2. ASSUME NEW next \in Task, Turn(a, t, next), task[a][t].do \in {"idle", "relay"}
        PROVE  \A x, y \in Node : KeepsHand(x, y) /\ KeepsServing(x, y) /\ KeepsTelling(x)
    <3>1. Rest(task[a][t]) = task[a][t]
      BY <2>2 DEF Rest
    <3>2. \A x, y \in Node : KeepsHand(x, y) /\ KeepsTelling(x)
      BY <2>2, <3>1, TurnKeeps
    <3>3. \A x, y \in Node : Rest(task[x][y]).do = "serve" => Rest(task'[x][y]) = Rest(task[x][y])
      BY <2>2, <3>1, TurnKeeps
    <3>4. \A x, y \in Node : KeepsServing(x, y)
      BY <1>1, <3>3, ServingKept
    <3> QED BY <3>2, <3>4
  <2>3. Idle.do = "idle" /\ task[a][t] \in Task /\ task[t][a] \in Task
    BY DEF Idle, TypeOK
  <2>4. CASE HandleNewTransaction(a, t)
    <3>1. m \in Message /\ m.type = "newTx"
      BY <2>4, ConsumedIs DEF HandleNewTransaction, Receiving, m, TypeOK, Channels
    <3>2. Relay(m.tx) \in Task
      BY <3>1, MessagesAre, SimpleTasks
    <3>3. task' = task \/ (Turn(a, t, Relay(m.tx)) /\ task[a][t] = Idle)
      BY <2>4 DEF HandleNewTransaction, Receiving, Admit, m
    <3> QED BY <2>1, <2>2, <2>3, <3>2, <3>3
  <2>5. CASE AnnounceTransaction(a, t)
    <3> DEFINE to == {p \in Ready(a) : task[a][t].tx \notin session[a][p].seenTxs}
    <3>1. task[a][t].do = "relay" /\ Turn(a, t, Send(to, NewTx(task[a][t].tx), Idle))
      BY <2>5 DEF AnnounceTransaction
    <3>2. task[a][t].tx \in Txs /\ to \in SUBSET Node /\ Idle \in SimpleTask
      BY <2>3, <3>1, TasksAre, SimpleTasks DEF Ready
    <3> HIDE DEF to
    <3>3. NewTx(task[a][t].tx) \in Message
      BY <3>2, MessagesMade
    <3>4. Send(to, NewTx(task[a][t].tx), Idle) \in Task
      BY <3>2, <3>3, OtherTasks
    <3> QED BY <2>2, <3>1, <3>4
  <2>6. CASE a = t /\ \E tx \in Txs : SubmitTransaction(a, tx)
    <3>1. PICK tx \in Txs : SubmitTransaction(a, tx)
      BY <2>6
    <3>2. Relay(tx) \in Task
      BY SimpleTasks
    <3>3. task' = task \/ Turn(a, t, Relay(tx))
      BY <2>6, <3>1 DEF SubmitTransaction, Admit
    <3>4. task[a][t].do = "idle"
      BY <2>3, <2>6, <3>1 DEF SubmitTransaction
    <3> QED BY <2>1, <2>2, <3>2, <3>3, <3>4
  <2> QED BY <2>1, <2>4, <2>5, <2>6 DEF Tick, HandlePing, HandlePong
<1>4. \A x, y \in Node : KeepsNews(x, y) /\ KeepsRequests(x, y)
  <2>1. CASE chan' = chan
    BY <2>1 DEF KeepsNews, KeepsRequests
  <2>2. CASE HandleNewTransaction(a, t) \/ HandlePing(a, t) \/ HandlePong(a, t)
    <3>1. chan[t][a] # <<>> /\ m.type \in {"newTx", "ping", "pong"}
      BY <2>2 DEF HandleNewTransaction, HandlePing, HandlePong, Receiving, m
    <3>2. chan \in Channels
      BY DEF TypeOK, Channels
    <3>3. Consumed(a, t) \in Channels /\ m \in Message
      BY <3>1, <3>2, ConsumedIs DEF m
    <3>4. \A x, y \in Node : Range(Consumed(a, t)[x][y]) \subseteq Range(chan'[x][y])
      <4>1. CASE chan' = Consumed(a, t)
        BY <4>1
      <4>2. CASE HandlePing(a, t)
        <5>1. Pong(m.nonce) \in Message /\ chan' = Sent(Consumed(a, t), a, t, Pong(m.nonce))
          BY <3>3, <4>2, MessagesAre, MessagesMade DEF HandlePing, Receiving, m
        <5> QED BY <3>3, <5>1, SentKeeps
      <4> QED BY <2>2, <4>1, <4>2 DEF HandleNewTransaction, HandlePong
    <3>5. Incoming(a, t).type \notin {"newBlock", "blocks"} /\ Incoming(a, t).type # "getBlocks"
      BY <3>1 DEF m
    <3>6. \A x, y \in Node : (x = t /\ y = a) \/ (KeepsNews(x, y) /\ KeepsRequests(x, y))
      BY <3>1, <3>4, ReadStays
    <3>7. KeepsNews(t, a) /\ KeepsRequests(t, a)
      BY <3>1, <3>4, <3>5, ReadStays
    <3> QED BY <3>6, <3>7
  <2>3. CASE Tick(a, t)
    <3>1. pings[a] \in Nat
      BY DEF TypeOK
    <3>2. pings[a] + 1 \in Nat
      BY <3>1
    <3>3. Ping(pings[a] + 1) \in Message
      BY <3>2, MessagesMade
    <3> QED BY <2>3, <3>3, SentStays DEF Tick
  <2> QED BY <2>1, <2>2, <2>3 DEF AnnounceTransaction, SubmitTransaction
<1>5. QuietStep
  BY <1>2, <1>3, <1>4, MarksKept DEF QuietStep, PairKeeps, SameSessions
<1> QED BY <1>1, <1>5, QuietFrame

\* A handler begins with an idle thread and takes one message.
LEMMA HandlerKeeps ==
    ASSUME TypeOK, NEW a \in Node, NEW t \in Node, NEW next \in Task,
           task' = task \/ Turn(a, t, next), task[a][t] = Idle, head' = head,
           chan[t][a] # <<>>, chan' = Consumed(a, t)
    PROVE  /\ \A x, y \in Node : KeepsHand(x, y) /\ KeepsServing(x, y) /\ KeepsTelling(x)
           /\ \A x, y \in Node : ~(x = t /\ y = a) => KeepsNews(x, y) /\ KeepsRequests(x, y)
           /\ Incoming(a, t).type \notin {"newBlock", "blocks"} => KeepsNews(t, a)
           /\ Incoming(a, t).type # "getBlocks" => KeepsRequests(t, a)
           /\ \A m \in Range(chan[t][a]) : m = Incoming(a, t) \/ m \in Range(chan'[t][a])
<1>1. Rest(task[a][t]) = Idle /\ Idle.do = "idle"
  BY DEF Rest, Idle
<1>2. \A x, y \in Node : KeepsHand(x, y) /\ KeepsTelling(x)
  BY <1>1, TurnKeeps
<1>3. \A x, y \in Node : Rest(task[x][y]).do = "serve" => Rest(task'[x][y]) = Rest(task[x][y])
  BY <1>1, TurnKeeps
<1>4. \A x, y \in Node : KeepsServing(x, y)
  BY <1>3, ServingKept
<1>5. \A x, y \in Node : Range(Consumed(a, t)[x][y]) \subseteq Range(chan'[x][y])
  OBVIOUS
<1> QED BY <1>2, <1>4, <1>5, ReadStays

\* A handler leaves every pair as it was, but for the one whose message it takes.
LEMMA HandlerFrame ==
    ASSUME TypeOK, TypeOK', BehindInv, Rises, cut \subseteq cut', failures' = failures,
           NEW a \in Node, NEW t \in Node,
           \A x, y \in Node : KeepsHand(x, y) /\ KeepsServing(x, y) /\ KeepsTelling(x),
           \A x, y \in Node : ~(x = t /\ y = a) => KeepsNews(x, y) /\ KeepsRequests(x, y),
           \A x, y \in Node : ~(x = a /\ y = t) => session'[x][y] = session[x][y],
           \A h \in Nat :
               failures' = 0 /\ Behind(a, t)' /\ h = session'[a][t].peerHeight => Comes(a, t, h)',
           \A h \in Nat :
               failures' = 0 /\ Behind(t, a)' /\ h = session'[t][a].peerHeight => Comes(t, a, h)'
    PROVE  BehindInv'
<1>1. ASSUME NEW x \in Node, NEW y \in Node, NEW h \in Nat, failures' = 0, Behind(x, y)',
             h = session'[x][y].peerHeight, ~(x = a /\ y = t), ~(x = t /\ y = a)
      PROVE  Comes(x, y, h)'
  <2>1. session'[x][y] = session[x][y] /\ session'[y][x] = session[y][x]
    BY <1>1
  <2>2. session[x][y].ready
    BY <1>1, <2>1 DEF Behind
  <2>3. PairKeeps(x, y)
    BY <1>1, <2>1 DEF PairKeeps, KeepsMarks
  <2> QED BY <1>1, <2>1, <2>2, <2>3, PairComes
<1> QED BY <1>1, BehindShown

LEMMA RequestHandled ==
    ASSUME TypeOK, TypeOK', GreetInv, BehindInv, Rises, NEW a \in Node, NEW t \in Node,
           HandleGetBlocks(a, t) \/ HandleBlocks(a, t)
    PROVE  BehindInv'
<1> DEFINE m == Incoming(a, t)
<1>1. /\ head' = head /\ known' = known /\ failures' = failures /\ cut' = cut /\ session' = session
      /\ chan' = Consumed(a, t) /\ chan[t][a] # <<>> /\ task[a][t] = Idle
      /\ link[a][t] = "open" /\ m.type \in {"getBlocks", "blocks"}
  BY DEF HandleGetBlocks, HandleBlocks, Receiving, chainVars, netVars
<1>2. m \in Message
  BY <1>1, ConsumedIs DEF TypeOK, Channels
<1>3. a # t
  BY <1>1, PeersApart DEF GreetInv
<1> HIDE DEF m
<1>4. PICK next \in Task : /\ Turn(a, t, next)
                           /\ m.type = "getBlocks" => next = Serve(m.from, <<>>)
                           /\ m.type = "blocks" =>
                                next = IF m.blocks = <<>> THEN Idle ELSE Batch(m.blocks, 1, FALSE)
  <2>1. CASE HandleGetBlocks(a, t)
    <3>1. m.type = "getBlocks" /\ m.from \in Nat /\ <<>> \in Seq(Blocks)
      BY <1>2, <2>1, MessagesAre DEF HandleGetBlocks, Receiving, m
    <3>2. Serve(m.from, <<>>) \in Task
      BY <3>1, SimpleTasks
    <3> QED BY <2>1, <3>1, <3>2 DEF HandleGetBlocks, m
  <2>2. CASE HandleBlocks(a, t)
    <3>1. m.type = "blocks" /\ m.blocks \in Seq(Blocks)
      BY <1>2, <2>2, MessagesAre DEF HandleBlocks, Receiving, m
    <3>2. m.blocks # <<>> => m.blocks \in Seq(Blocks) \ {<<>>} /\ 1 \in Nat \ {0}
      BY <3>1
    <3>3. Idle \in Task /\ (m.blocks # <<>> => Batch(m.blocks, 1, FALSE) \in Task)
      BY <3>2, SimpleTasks
    <3> QED BY <2>2, <3>1, <3>3 DEF HandleBlocks, m
  <2> QED BY <2>1, <2>2
<1>5. task'[a][t] = next
  <2>1. task \in [Node -> [Node -> Task]]
    BY DEF TypeOK
  <2> QED BY <1>4, <2>1, TurnIs
<1>6. /\ \A x, y \in Node : KeepsHand(x, y) /\ KeepsServing(x, y) /\ KeepsTelling(x)
      /\ \A x, y \in Node : ~(x = t /\ y = a) => KeepsNews(x, y) /\ KeepsRequests(x, y)
      /\ m.type = "getBlocks" => KeepsNews(t, a)
      /\ m.type = "blocks" => KeepsRequests(t, a)
      /\ \A z \in Range(chan[t][a]) : z = m \/ z \in Range(chan'[t][a])
  BY <1>1, <1>4, HandlerKeeps DEF m
<1>7. \A x, y \in Node : KeepsMarks(x, y)
  BY <1>1, SameIsSame, MarksKept
<1>8. ASSUME NEW h \in Nat, failures' = 0, Behind(a, t)', h = session'[a][t].peerHeight
      PROVE  Comes(a, t, h)'
  <2>1. Behind(a, t) /\ Comes(a, t, h)
    <3>1. session[a][t].ready
      BY <1>1, <1>8 DEF Behind
    <3> QED BY <1>1, <1>8, <3>1, PairWaits
  <2>2. CASE Arriving(a, t, h) /\ m.type = "blocks"
    <3>1. PICK z \in Range(chan[t][a]) :
             \/ z.type = "newBlock" /\ Height[z.block] >= h
             \/ z.type = "blocks" /\ Linked(z.blocks) /\ Height[z.blocks[1]] <= h
      BY <2>2 DEF Arriving
    <3>2. CASE z = m
      <4>1. Linked(m.blocks) /\ Height[m.blocks[1]] <= h /\ m.blocks # <<>>
        BY <2>2, <3>1, <3>2 DEF Linked
      <4>2. task'[a][t] = Batch(m.blocks, 1, FALSE)
        BY <1>4, <1>5, <2>2, <4>1
      <4>3. m.blocks \in Seq(Blocks)
        BY <1>2, <2>2, MessagesAre
      <4>4. 1 <= Len(m.blocks) + 1
        BY <4>3
      <4>5. InHand(a, t, h)'
        BY <4>1, <4>2, <4>4 DEF InHand, Rest, Batch
      <4> QED BY <4>5 DEF Comes
    <3>3. CASE z # m
      <4>1. z \in Range(chan'[t][a])
        BY <1>6, <3>3
      <4>2. Arriving(a, t, h)'
        BY <3>1, <4>1 DEF Arriving
      <4> QED BY <4>2 DEF Comes
    <3> QED BY <3>2, <3>3
  <2>3. CASE ~(Arriving(a, t, h) /\ m.type = "blocks")
    <3>1. Arriving(a, t, h) => KeepsNews(t, a)
      BY <1>1, <1>6, <2>3
    <3> QED BY <1>3, <1>6, <1>7, <2>1, <3>1, Stays DEF Comes
  <2> QED BY <2>2, <2>3
<1>9. ASSUME NEW h \in Nat, failures' = 0, Behind(t, a)', h = session'[t][a].peerHeight
      PROVE  Comes(t, a, h)'
  <2>1. Behind(t, a) /\ Comes(t, a, h)
    <3>1. session[t][a].ready
      BY <1>1, <1>9 DEF Behind
    <3> QED BY <1>1, <1>9, <3>1, PairWaits
  <2>2. CASE Requested(t, a, h) /\ m.type = "getBlocks"
    <3>1. PICK z \in Range(chan[t][a]) : z.type = "getBlocks" /\ z.from <= h
      BY <2>2 DEF Requested
    <3>2. CASE z = m
      <4>1. task'[a][t] = Serve(m.from, <<>>) /\ m.from <= h
        BY <1>4, <1>5, <2>2, <3>1, <3>2
      <4>2. Serving(t, a, h)'
        BY <4>1 DEF Serving, Rest, Serve
      <4> QED BY <4>2 DEF Comes
    <3>3. CASE z # m
      <4>1. z \in Range(chan'[t][a])
        BY <1>6, <3>3
      <4>2. Requested(t, a, h)'
        BY <3>1, <4>1 DEF Requested
      <4> QED BY <4>2 DEF Comes
    <3> QED BY <3>2, <3>3
  <2>3. CASE ~(Requested(t, a, h) /\ m.type = "getBlocks")
    <3>1. Requested(t, a, h) => KeepsRequests(t, a)
      BY <1>1, <1>6, <2>3
    <3> QED BY <1>3, <1>6, <1>7, <2>1, <3>1, Stays DEF Comes
  <2> QED BY <2>2, <2>3
<1> QED BY <1>1, <1>6, <1>8, <1>9, HandlerFrame

LEMMA NewBlockHandled ==
    ASSUME TypeOK, TypeOK', HonestInv, BestInv, GreetInv, BehindInv, Rises,
           NEW a \in Node, NEW t \in Node, HandleNewBlock(a, t)
    PROVE  BehindInv'
<1> DEFINE b == Incoming(a, t).block
           s == session[a][t]
           H == IF Height[b] > s.peerHeight THEN Height[b] ELSE s.peerHeight
           seen == Noted(s.seenBlocks, b)
<1>1. /\ head' = head /\ known' = known /\ failures' = failures /\ cut' = cut
      /\ chan' = Consumed(a, t) /\ chan[t][a] # <<>> /\ task[a][t] = Idle
      /\ link[a][t] = "open" /\ Incoming(a, t).type = "newBlock"
  BY DEF HandleNewBlock, Receiving, chainVars, netVars
<1>2. chan \in Channels
  BY DEF TypeOK, Channels
<1>3. Incoming(a, t) \in Message /\ Incoming(a, t) \in Range(chan[t][a])
  BY <1>1, <1>2, ConsumedIs, ConsumedWas
<1>4. b \in Blocks /\ b \in known[t]
  BY <1>1, <1>3, MessagesAre DEF HonestInv, ChanInv, Told
<1>5. a # t
  BY <1>1, PeersApart DEF GreetInv
<1>6. s \in Session /\ Single(b) \in Task
  BY <1>4, SimpleTasks DEF TypeOK
<1>7. \/ session' = session /\ task' = task /\ ~s.ready
      \/ /\ session' = [session EXCEPT ![a][t] = [s EXCEPT !.seenBlocks = seen, !.peerHeight = H]]
         /\ Turn(a, t, Single(b)) /\ s.ready
  BY DEF HandleNewBlock
<1>8. {a, t} \notin cut => s.ready
  BY <1>1, TalkIsReady
<1>9. Height[b] \in Nat /\ s.peerHeight \in Nat
  BY <1>4, <1>6, ProtocolAssumption DEF Session
<1> HIDE DEF b, seen
<1>10. /\ \A x, y \in Node : KeepsHand(x, y) /\ KeepsServing(x, y) /\ KeepsTelling(x)
       /\ \A x, y \in Node : ~(x = t /\ y = a) => KeepsNews(x, y) /\ KeepsRequests(x, y)
       /\ KeepsRequests(t, a)
       /\ \A z \in Range(chan[t][a]) : z = Incoming(a, t) \/ z \in Range(chan'[t][a])
  BY <1>1, <1>6, <1>7, HandlerKeeps
<1>11. \A x, y \in Node : ~(x = a /\ y = t) => session'[x][y] = session[x][y]
  <2>1. session' = session \/ \E z : session' = [session EXCEPT ![a][t] = z]
    BY <1>7
  <2>2. ASSUME NEW z, session' = [session EXCEPT ![a][t] = z],
               NEW x \in Node, NEW y \in Node, ~(x = a /\ y = t)
        PROVE  session'[x][y] = session[x][y]
    BY <2>2 DEF TypeOK
  <2> QED BY <2>1, <2>2
<1>12. s.ready => /\ session'[a][t].ready /\ session'[a][t].peerHeight = H
                  /\ session'[a][t].seenBlocks = seen /\ task'[a][t] = Single(b)
  <2>1. task \in [Node -> [Node -> Task]] /\ session \in Sessions
    BY DEF TypeOK, Sessions
  <2>2. ASSUME s.ready PROVE session'[a][t] = [s EXCEPT !.seenBlocks = seen, !.peerHeight = H]
    BY <1>7, <2>1, <2>2 DEF Sessions
  <2>3. s.ready => task'[a][t] = Single(b)
    BY <1>6, <1>7, <2>1, TurnIs
  <2>4. /\ [s EXCEPT !.seenBlocks = seen, !.peerHeight = H].ready = s.ready
        /\ [s EXCEPT !.seenBlocks = seen, !.peerHeight = H].peerHeight = H
        /\ [s EXCEPT !.seenBlocks = seen, !.peerHeight = H].seenBlocks = seen
    BY <1>6 DEF Session
  <2> QED BY <2>2, <2>3, <2>4
<1>13. ASSUME NEW h \in Nat, failures' = 0, Behind(a, t)', h = session'[a][t].peerHeight
       PROVE  Comes(a, t, h)'
  <2>1. s.ready /\ h = H
    BY <1>1, <1>8, <1>12, <1>13 DEF Behind
  <2>2. Height[b] >= h => InHand(a, t, h)'
    BY <1>12, <2>1 DEF InHand, Rest, Single
  <2>3. CASE Height[b] >= h
    BY <2>2, <2>3 DEF Comes
  <2>4. CASE ~(Height[b] >= h)
    <3>1. session'[a][t].peerHeight = session[a][t].peerHeight
      BY <1>9, <1>12, <2>1, <2>4
    <3>2. Comes(a, t, h)
      BY <1>1, <1>13, <2>1, <3>1, PairWaits
    <3>3. Arriving(a, t, h) => Arriving(a, t, h)'
      <4> SUFFICES ASSUME NEW z \in Range(chan[t][a]),
                          \/ z.type = "newBlock" /\ Height[z.block] >= h
                          \/ z.type = "blocks" /\ Linked(z.blocks) /\ Height[z.blocks[1]] <= h
                   PROVE  Arriving(a, t, h)'
        BY DEF Arriving
      <4>1. z # Incoming(a, t)
        BY <1>1, <2>4 DEF b
      <4>2. z \in Range(chan'[t][a])
        BY <1>10, <4>1
      <4> QED BY <4>2 DEF Arriving
    <3>4. KeepsMarks(t, a)
      BY <1>5, <1>11 DEF KeepsMarks
    <3> QED BY <1>5, <1>10, <3>2, <3>3, <3>4, Stays DEF Comes
  <2> QED BY <2>3, <2>4
<1>14. ASSUME NEW h \in Nat, failures' = 0, Behind(t, a)', h = session'[t][a].peerHeight
       PROVE  Comes(t, a, h)'
  <2>1. session'[t][a] = session[t][a]
    BY <1>5, <1>11
  <2>2. Behind(t, a) /\ Comes(t, a, h)
    <3>1. session[t][a].ready
      BY <1>14, <2>1 DEF Behind
    <3> QED BY <1>1, <1>14, <2>1, <3>1, PairWaits
  <2>3. ~(Height[b] >= h)
    <3>1. Height[head[t]] \in Nat /\ Height[head[t]] < h
      BY <1>14, <2>1, <2>2, ProtocolAssumption DEF Behind, TypeOK
    <3>2. Height[b] <= Height[head[t]]
      BY <1>4 DEF BestInv
    <3> QED BY <1>9, <3>1, <3>2
  <2>4. Announcing(t, a, h) => Announcing(t, a, h)'
    <3> SUFFICES ASSUME NEW u \in Node,
                        \/ /\ task[a][u].do = "announce" /\ Height[task[a][u].block] >= h
                           /\ session[a][t].ready
                           /\ task[a][u].block \notin session[a][t].seenBlocks
                        \/ /\ task[a][u].do = "send" /\ t \in task[a][u].to
                           /\ task[a][u].message.type = "newBlock"
                           /\ Height[task[a][u].message.block] >= h
                 PROVE  Announcing(t, a, h)'
      BY DEF Announcing
    <3>1. task'[a][u] = task[a][u]
      BY <1>10 DEF KeepsTelling
    <3>2. CASE task[a][u].do = "announce"
      <4>1. /\ Height[task[a][u].block] >= h /\ s.ready /\ task[a][u].block \notin s.seenBlocks
        BY <3>2
      <4>2. seen \subseteq s.seenBlocks \cup {b}
        BY NotedIn DEF seen
      <4>3. task[a][u].block # b
        BY <2>3, <4>1
      <4> QED BY <1>12, <3>1, <3>2, <4>1, <4>2, <4>3 DEF Announcing
    <3>3. CASE task[a][u].do = "send"
      BY <3>1, <3>3 DEF Announcing
    <3> QED BY <3>2, <3>3
  <2>5. KeepsNews(a, t) /\ KeepsRequests(t, a) /\ KeepsHand(t, a) /\ KeepsServing(a, t)
    BY <1>5, <1>10
  <2> QED BY <2>2, <2>4, <2>5, Stays DEF Comes
<1> QED BY <1>1, <1>10, <1>11, <1>13, <1>14, HandlerFrame

LEMMA StatusHandled ==
    ASSUME TypeOK, TypeOK', GreetInv, BehindInv, Rises,
           NEW a \in Node, NEW t \in Node, HandleStatus(a, t)
    PROVE  BehindInv'
<1> DEFINE m == Incoming(a, t)
           s == session[a][t]
<1>1. /\ head' = head /\ known' = known /\ failures' = failures /\ cut \subseteq cut'
      /\ chan' = Consumed(a, t) /\ chan[t][a] # <<>> /\ task[a][t] = Idle
      /\ link[a][t] = "open" /\ m.type = "status"
  BY DEF HandleStatus, Receiving, chainVars, Drop
<1>2. m \in Message /\ s \in Session /\ Idle \in Task /\ Ask \in Task
  BY <1>1, ConsumedIs, SimpleTasks DEF TypeOK, Channels
<1>3. a # t
  BY <1>1, PeersApart DEF GreetInv
<1>4. m.height \in Nat /\ Height[head[a]] \in Nat
  BY <1>1, <1>2, MessagesAre, ProtocolAssumption DEF TypeOK
<1>5. \/ session' = session /\ task' = task /\ {a, t} \in cut'
      \/ /\ session' = [session EXCEPT ![a][t] = [s EXCEPT !.ready = TRUE, !.peerHeight = m.height]]
         /\ Turn(a, t, IF m.height > Height[head[a]] THEN Ask ELSE Idle)
  BY DEF HandleStatus, Drop, TypeOK
<1> HIDE DEF m
<1>6. /\ \A x, y \in Node : KeepsHand(x, y) /\ KeepsServing(x, y) /\ KeepsTelling(x)
      /\ \A x, y \in Node : ~(x = t /\ y = a) => KeepsNews(x, y) /\ KeepsRequests(x, y)
      /\ KeepsNews(t, a) /\ KeepsRequests(t, a)
  <2>1. PICK next \in Task : task' = task \/ Turn(a, t, next)
    BY <1>2, <1>5
  <2>2. Incoming(a, t).type \notin {"newBlock", "blocks"} /\ Incoming(a, t).type # "getBlocks"
    BY <1>1 DEF m
  <2> QED BY <1>1, <2>1, <2>2, HandlerKeeps
<1>7. \A x, y \in Node : ~(x = a /\ y = t) => session'[x][y] = session[x][y]
  <2>1. session' = session \/ \E z : session' = [session EXCEPT ![a][t] = z]
    BY <1>5
  <2>2. ASSUME NEW z, session' = [session EXCEPT ![a][t] = z],
               NEW x \in Node, NEW y \in Node, ~(x = a /\ y = t)
        PROVE  session'[x][y] = session[x][y]
    BY <2>2 DEF TypeOK
  <2> QED BY <2>1, <2>2
<1>8. {a, t} \in cut' \/ /\ session'[a][t].peerHeight = m.height
                         /\ session'[a][t].ready
                         /\ session'[a][t].seenBlocks = s.seenBlocks
                         /\ m.height > Height[head[a]] => task'[a][t] = Ask
  <2>1. task \in [Node -> [Node -> Task]] /\ session \in Sessions
    BY DEF TypeOK, Sessions
  <2>2. ASSUME {a, t} \notin cut'
        PROVE  session'[a][t] = [s EXCEPT !.ready = TRUE, !.peerHeight = m.height]
    BY <1>5, <2>1, <2>2 DEF Sessions
  <2>3. ASSUME {a, t} \notin cut', m.height > Height[head[a]] PROVE task'[a][t] = Ask
    <3>1. Turn(a, t, Ask)
      BY <1>5, <2>3
    <3> QED BY <1>2, <2>1, <3>1, TurnIs
  <2> QED BY <1>2, <2>2, <2>3 DEF Session
<1>9. ASSUME NEW h \in Nat, failures' = 0, Behind(a, t)', h = session'[a][t].peerHeight
      PROVE  Comes(a, t, h)'
  <2>1. task'[a][t] = Ask
    BY <1>1, <1>8, <1>9 DEF Behind
  <2>2. InHand(a, t, h)'
    BY <2>1 DEF InHand, Rest, Ask
  <2> QED BY <2>2 DEF Comes
<1>10. ASSUME NEW h \in Nat, failures' = 0, Behind(t, a)', h = session'[t][a].peerHeight
       PROVE  Comes(t, a, h)'
  <2>1. session'[t][a] = session[t][a]
    BY <1>3, <1>7
  <2>2. session[t][a].ready /\ {t, a} \notin cut' /\ {t, a} = {a, t}
    BY <1>10, <2>1 DEF Behind
  <2>3. KeepsMarks(a, t)
    BY <1>8, <2>2 DEF KeepsMarks
  <2>4. PairKeeps(t, a)
    BY <1>3, <1>6, <2>3 DEF PairKeeps
  <2> QED BY <1>1, <1>10, <2>1, <2>2, <2>4, PairComes
<1> QED BY <1>1, <1>6, <1>7, <1>9, <1>10, HandlerFrame

\* A reader at work leaves every pair as it was, but for what it handles of its own
\* peer and what it serves to it.
LEMMA ReaderFrame ==
    ASSUME TypeOK, TypeOK', BehindInv, Rises, cut \subseteq cut', failures' = failures,
           session' = session, head' = head,
           NEW a \in Node, NEW t \in Node, NEW next \in Task, Turn(a, t, next),
           task[a][t].do \in {"ask", "serve", "batch"},
           NEW m \in Message, chan' = chan \/ chan' = Sent(chan, a, t, m),
           \A h \in Nat :
               /\ failures' = 0 /\ Behind(a, t)' /\ Behind(a, t) /\ h = session[a][t].peerHeight
               /\ InHand(a, t, h)
               => Comes(a, t, h)',
           \A h \in Nat :
               /\ failures' = 0 /\ Behind(t, a)' /\ Behind(t, a) /\ h = session[t][a].peerHeight
               /\ Serving(t, a, h)
               => Comes(t, a, h)'
    PROVE  BehindInv'
<1>1. Rest(task[a][t]) = task[a][t]
  BY DEF Rest
<1>2. /\ \A x, y \in Node : KeepsTelling(x) /\ KeepsNews(x, y) /\ KeepsRequests(x, y)
      /\ \A x, y \in Node : KeepsMarks(x, y)
      /\ \A x, y \in Node : ~(x = a /\ y = t) => KeepsHand(x, y)
  BY TurnKeeps, SentStays, SameIsSame, MarksKept
<1>3. \A x, y \in Node : ~(x = a /\ y = t) => KeepsServing(x, y)
  <2>1. \A x, y \in Node : ~(x = a /\ y = t) => Rest(task'[x][y]) = Rest(task[x][y])
    BY TurnKeeps
  <2> QED BY <2>1, ServingKept
<1>4. ASSUME NEW x \in Node, NEW y \in Node, NEW h \in Nat, failures' = 0, Behind(x, y)',
             h = session'[x][y].peerHeight
      PROVE  Comes(x, y, h)'
  <2>1. session[x][y].ready
    BY <1>4 DEF Behind
  <2>2. Behind(x, y) /\ Comes(x, y, h)
    BY <1>4, <2>1, PairWaits
  <2>3. CASE Arriving(x, y, h) \/ Requested(x, y, h) \/ Announcing(x, y, h)
    BY <1>2, <2>3, Stays DEF Comes
  <2>4. CASE InHand(x, y, h)
    <3>1. CASE x = a /\ y = t
      BY <1>4, <2>2, <2>4, <3>1
    <3>2. CASE ~(x = a /\ y = t)
      BY <1>2, <2>4, <3>2, Stays DEF Comes
    <3> QED BY <3>1, <3>2
  <2>5. CASE Serving(x, y, h)
    <3>1. CASE x = t /\ y = a
      BY <1>4, <2>2, <2>5, <3>1
    <3>2. CASE ~(x = t /\ y = a)
      BY <1>3, <2>5, <3>2, Stays DEF Comes
    <3> QED BY <3>1, <3>2
  <2> QED BY <2>2, <2>3, <2>4, <2>5 DEF Comes
<1> QED BY <1>4, BehindShown

LEMMA RequestWaits ==
    ASSUME TypeOK, TypeOK', GreetInv, BehindInv, Rises, NEW a \in Node, NEW t \in Node,
           Request(a, t)
    PROVE  BehindInv'
<1> DEFINE m == GetBlocks(Height[head[a]] + 1)
<1>1. /\ head' = head /\ failures' = failures /\ cut' = cut /\ session' = session
      /\ Turn(a, t, Idle) /\ task[a][t] = Ask /\ chan' = Sent(chan, a, t, m)
  BY DEF Request, chainVars, netVars
<1>2. Height[head[a]] \in Nat
  BY ProtocolAssumption DEF TypeOK
<1>3. Height[head[a]] + 1 \in Nat
  BY <1>2
<1>4. /\ m \in Message /\ m.type = "getBlocks" /\ m.from = Height[head[a]] + 1
      /\ Idle \in Task /\ task[a][t].do = "ask" /\ chan \in Channels
  BY <1>1, <1>3, MessagesMade, SimpleTasks DEF GetBlocks, Ask, TypeOK, Channels
<1> HIDE DEF m
<1>5. ASSUME NEW h \in Nat, Behind(a, t), h = session[a][t].peerHeight
      PROVE  Comes(a, t, h)'
  <2>1. {a, t} \notin cut /\ Height[head[a]] < h
    BY <1>5 DEF Behind
  <2>2. m \in Range(chan'[a][t])
    BY <1>1, <1>4, <2>1, SentKeeps
  <2>3. m.from <= h
    BY <1>2, <1>4, <2>1
  <2>4. Requested(a, t, h)'
    BY <1>4, <2>2, <2>3 DEF Requested
  <2> QED BY <2>4 DEF Comes
<1>6. \A h : ~Serving(t, a, h)
  BY <1>4 DEF Serving, Rest
<1> QED BY <1>1, <1>4, <1>5, <1>6, ReaderFrame

LEMMA ServeWaits ==
    ASSUME TypeOK, TypeOK', HonestInv, BestInv, GreetInv, TellInv, BehindInv, Rises,
           NEW a \in Node, NEW t \in Node, ServeBlock(a, t)
    PROVE  BehindInv'
<1> DEFINE k == task[a][t]
           bs == k.blocks
           found == Canonical(a, k.from + Len(bs))
<1>1. /\ head' = head /\ failures' = failures /\ cut' = cut /\ session' = session
      /\ k.do = "serve"
      /\ \/ \E b \in found : Turn(a, t, Serve(k.from, Append(bs, b))) /\ chan' = chan
         \/ /\ ~(Len(bs) < Window /\ found # {})
            /\ Turn(a, t, Idle) /\ chan' = Sent(chan, a, t, BlocksOf(bs))
  BY DEF ServeBlock, chainVars, netVars
<1>2. k \in Task /\ chan \in Channels /\ head[a] \in Blocks
  BY DEF TypeOK, Channels
<1> HIDE DEF k
<1>3. k.from \in Nat /\ bs \in Seq(Blocks) /\ Rest(k) = k /\ found \subseteq Ancestry[head[a]]
  BY <1>1, <1>2, TasksAre DEF Rest, Canonical
<1>4. found \subseteq Blocks /\ Idle \in Task /\ BlocksOf(bs) \in Message /\ Len(bs) \in Nat
  BY <1>2, <1>3, AncestryType, SimpleTasks, MessagesMade
<1>5. \A h : ~InHand(a, t, h)
  BY <1>1, <1>3 DEF InHand, k
<1>6. ASSUME NEW h \in Nat, Behind(t, a), h = session[t][a].peerHeight
      PROVE  h <= Height[head[a]] /\ {a, t} \notin cut
  <2>1. {t, a} = {a, t}
    OBVIOUS
  <2> QED BY <1>6, <2>1 DEF Behind, TellInv
<1>7. ASSUME NEW h, Serving(t, a, h)
      PROVE  /\ k.from <= h
             /\ bs # <<>> => /\ Linked(bs) /\ Height[bs[1]] = k.from
                             /\ Last(bs) \in Ancestry[head[a]]
                             /\ Height[Last(bs)] = k.from + Len(bs) - 1
  BY <1>3, <1>7 DEF Serving, k
<1>8. ASSUME NEW b \in found, Turn(a, t, Serve(k.from, Append(bs, b))), chan' = chan
      PROVE  BehindInv'
  <2> DEFINE cs == Append(bs, b)
  <2>1. cs \in Seq(Blocks) /\ cs # <<>> /\ Len(cs) = Len(bs) + 1 /\ Last(cs) = b
    BY <1>3, <1>4 DEF Last
  <2>2. Serve(k.from, cs) \in Task
    BY <1>3, <2>1, SimpleTasks
  <2>3. task'[a][t] = Serve(k.from, cs)
    <3>1. task \in [Node -> [Node -> Task]]
      BY DEF TypeOK
    <3> QED BY <1>8, <2>2, <3>1, TurnIs
  <2>4. Height[b] = k.from + Len(bs) /\ b \in Ancestry[head[a]] /\ b \in Blocks
    BY <1>3, <1>4 DEF Canonical
  <2>5. ASSUME NEW h \in Nat, Serving(t, a, h) PROVE Comes(t, a, h)'
    <3>1. /\ k.from <= h
          /\ bs # <<>> => /\ Linked(bs) /\ Height[bs[1]] = k.from
                          /\ Last(bs) \in Ancestry[head[a]]
                          /\ Height[Last(bs)] = k.from + Len(bs) - 1
      BY <1>7, <2>5
    <3>2. Linked(cs) /\ Height[cs[1]] = k.from
      <4>1. CASE bs = <<>>
        <5>1. cs = <<b>> /\ Len(bs) = 0
          BY <4>1
        <5>2. Height[b] = k.from
          BY <1>3, <2>4, <5>1
        <5> QED BY <5>1, <5>2 DEF Linked
      <4>2. CASE bs # <<>>
        <5>1. /\ \A i \in 1 .. Len(bs) : cs[i] = bs[i]
              /\ cs[Len(bs) + 1] = b /\ Len(bs) >= 1 /\ Last(bs) = bs[Len(bs)]
          BY <1>3, <4>2 DEF Last
        <5>2. Height[b] = Height[Last(bs)] + 1
          BY <1>3, <1>4, <2>4, <3>1, <4>2
        <5>3. Parent[b] = Last(bs)
          BY <1>2, <2>4, <3>1, <4>2, <5>2, AncestorsLink
        <5>4. \A i \in 1 .. Len(bs) - 1 : Parent[bs[i + 1]] = bs[i]
          BY <3>1, <4>2 DEF Linked
        <5>5. ASSUME NEW i \in 1 .. Len(cs) - 1 PROVE Parent[cs[i + 1]] = cs[i]
          <6>1. CASE i = Len(bs)
            BY <1>4, <5>1, <5>3, <6>1
          <6>2. CASE i # Len(bs)
            <7>1. i \in 1 .. Len(bs) - 1 /\ i \in 1 .. Len(bs) /\ i + 1 \in 1 .. Len(bs)
              BY <1>4, <2>1, <6>2
            <7> QED BY <5>1, <5>4, <7>1
          <6> QED BY <6>1, <6>2
        <5>6. cs[1] = bs[1]
          BY <1>4, <5>1
        <5> QED BY <2>1, <3>1, <4>2, <5>5, <5>6 DEF Linked
      <4> QED BY <4>1, <4>2
    <3>3. Height[Last(cs)] = k.from + Len(cs) - 1
      BY <1>3, <1>4, <2>1, <2>4
    <3>4. Last(cs) \in Ancestry[head'[a]]
      BY <1>1, <2>1, <2>4
    <3> HIDE DEF cs
    <3>5. Rest(task'[a][t]) = task'[a][t] /\ task'[a][t].do = "serve"
          /\ task'[a][t].from = k.from /\ task'[a][t].blocks = cs
      BY <2>3 DEF Rest, Serve
    <3>6. Serving(t, a, h)'
      BY <3>1, <3>2, <3>3, <3>4, <3>5 DEF Serving
    <3> QED BY <3>6 DEF Comes
  <2> HIDE DEF cs
  <2>6. task[a][t].do = "serve"
    BY <1>1 DEF k
  <2> QED BY <1>1, <1>4, <1>5, <1>8, <2>2, <2>5, <2>6, ReaderFrame DEF cs
<1>9. ASSUME ~(Len(bs) < Window /\ found # {}), Turn(a, t, Idle),
             chan' = Sent(chan, a, t, BlocksOf(bs))
      PROVE  BehindInv'
  <2>1. ASSUME NEW h \in Nat, Behind(t, a), h = session[t][a].peerHeight, Serving(t, a, h)
        PROVE  Comes(t, a, h)'
    <3>1. h <= Height[head[a]] /\ {a, t} \notin cut /\ k.from <= h
      BY <1>6, <1>7, <2>1
    <3>2. bs # <<>>
      <4>1. SUFFICES ASSUME bs = <<>> PROVE FALSE
        OBVIOUS
      <4>2. Len(bs) = 0 /\ k.from + Len(bs) = k.from
        BY <1>3, <4>1
      <4>3. k.from <= Height[head[a]]
        BY <1>2, <1>3, <3>1, ProtocolAssumption
      <4>4. Canonical(a, k.from) # {}
        BY <1>3, <4>3, CanonicalFills DEF HonestInv
      <4>5. 0 < Window
        BY ProtocolAssumption
      <4>6. found # {}
        BY <4>2, <4>4
      <4> QED BY <1>9, <4>2, <4>5, <4>6
    <3>3. Linked(bs) /\ Height[bs[1]] = k.from
      BY <1>7, <2>1, <3>2
    <3>4. BlocksOf(bs) \in Range(chan'[a][t])
      BY <1>2, <1>4, <1>9, <3>1, SentKeeps
    <3>5. BlocksOf(bs).type = "blocks" /\ BlocksOf(bs).blocks = bs
      BY DEF BlocksOf
    <3>6. Arriving(t, a, h)'
      BY <3>1, <3>3, <3>4, <3>5 DEF Arriving
    <3> QED BY <3>6 DEF Comes
  <2>2. task[a][t].do = "serve"
    BY <1>1 DEF k
  <2> QED BY <1>1, <1>4, <1>5, <1>9, <2>1, <2>2, ReaderFrame
<1> QED BY <1>1, <1>8, <1>9

LEMMA FinishWaits ==
    ASSUME TypeOK, TypeOK', BestInv, BehindInv, Rises, NEW a \in Node, NEW t \in Node,
           FinishBatch(a, t)
    PROVE  BehindInv'
<1> DEFINE k == task[a][t]
           bs == k.blocks
           first == Height[bs[1]]
           top == Height[Last(bs)]
<1>1. /\ head' = head /\ failures' = failures /\ cut \subseteq cut' /\ session' = session
      /\ Turn(a, t, Idle) /\ k.do = "batch" /\ k.at > Len(bs)
      /\ IF ~k.accepted /\ AtGenesis(first) THEN {a, t} \in cut'
         ELSE chan' = IF ~k.accepted THEN Sent(chan, a, t, GetBlocks(Back(first)))
                      ELSE IF session[a][t].peerHeight > top
                      THEN Sent(chan, a, t, GetBlocks(top + 1))
                      ELSE chan
  BY DEF FinishBatch, chainVars, Drop
<1>2. k \in Task /\ chan \in Channels /\ Idle \in Task
  BY SimpleTasks DEF TypeOK, Channels
<1> HIDE DEF k
<1>3. k.at \in Nat \ {0} /\ k.accepted \in BOOLEAN /\ bs \in Seq(Blocks) /\ bs # <<>> /\ Rest(k) = k
  BY <1>1, <1>2, TasksAre DEF Rest
<1>4. /\ bs[1] \in Blocks /\ Last(bs) \in Blocks /\ Len(bs) \in Nat /\ Last(bs) = bs[Len(bs)]
  BY <1>3 DEF Last
<1>5. first \in Nat /\ top \in Nat /\ Back(first) \in Nat
  BY <1>4, ProtocolAssumption DEF Back
<1>6. ~AtGenesis(first) => Back(first) <= first
  BY <1>5, ProtocolAssumption DEF AtGenesis, Back
<1>7. GetBlocks(Back(first)) \in Message /\ GetBlocks(top + 1) \in Message
  BY <1>5, MessagesMade
<1>8. ASSUME NEW h \in Nat, Behind(a, t)', Behind(a, t), h = session[a][t].peerHeight,
             InHand(a, t, h)
      PROVE  Comes(a, t, h)'
  <2>1. /\ first <= h /\ k.at <= Len(bs) + 1
        /\ k.accepted => k.at > 1 /\ bs[k.at - 1] \in known[a]
    BY <1>1, <1>3, <1>8 DEF InHand, k
  <2>2. {a, t} \notin cut' /\ {a, t} \notin cut /\ Height[head[a]] < h
    BY <1>1, <1>8 DEF Behind
  <2>3. CASE k.accepted
    <3>1. k.at = Len(bs) + 1
      BY <1>1, <1>3, <1>4, <2>1
    <3>2. k.at - 1 = Len(bs)
      BY <1>4, <3>1
    <3>3. Last(bs) \in known[a]
      BY <1>4, <2>1, <2>3, <3>2
    <3>4. top <= Height[head[a]] /\ Height[head[a]] \in Nat
      BY <3>3, ProtocolAssumption DEF BestInv, TypeOK
    <3>5. top + 1 <= h /\ h > top
      BY <1>5, <2>2, <3>4
    <3>6. chan' = Sent(chan, a, t, GetBlocks(top + 1))
      BY <1>1, <1>8, <2>3, <3>5
    <3> HIDE DEF top
    <3>7. GetBlocks(top + 1) \in Range(chan'[a][t])
      BY <1>2, <1>7, <2>2, <3>6, SentKeeps
    <3>8. Requested(a, t, h)'
      BY <3>5, <3>7 DEF Requested, GetBlocks
    <3> QED BY <3>8 DEF Comes
  <2>4. CASE ~k.accepted
    <3>1. ~AtGenesis(first) /\ chan' = Sent(chan, a, t, GetBlocks(Back(first)))
      BY <1>1, <2>2, <2>4
    <3>2. Back(first) <= h
      BY <1>5, <1>6, <2>1, <3>1
    <3> HIDE DEF first
    <3>3. GetBlocks(Back(first)) \in Range(chan'[a][t])
      BY <1>2, <1>7, <2>2, <3>1, SentKeeps
    <3>4. Requested(a, t, h)'
      BY <3>2, <3>3 DEF Requested, GetBlocks
    <3> QED BY <3>4 DEF Comes
  <2> QED BY <2>3, <2>4
<1>9. \A h : ~Serving(t, a, h)
  BY <1>1, <1>3 DEF Serving, k
<1>10. PICK m \in Message : chan' = chan \/ chan' = Sent(chan, a, t, m)
  <2>1. chan' = chan \/ \E m \in Message : m.type \in {"getBlocks", "blocks"} /\ chan' = Sent(chan, a, t, m)
    BY ReaderSends
  <2> QED BY <1>7, <2>1
<1>11. task[a][t].do \in {"ask", "serve", "batch"}
  BY <1>1 DEF k
<1> QED BY <1>1, <1>2, <1>8, <1>9, <1>10, <1>11, ReaderFrame

\* An import by a thread that then announces the block, if it is a new head: what comes
\* to the others comes, but for what the thread itself had in hand.
LEMMA ImportWaits ==
    ASSUME TypeOK, TypeOK', ChainInv, BestInv, GreetInv, TellInv, BehindInv, Rises,
           NEW a \in Node, NEW t \in Node, NEW b \in Blocks, NEW then \in SimpleTask,
           Imported(a, b), Turn(a, t, then) \/ Turn(a, t, Then(a, b, then)),
           Outcome(a, b) # "invalid" => Turn(a, t, Then(a, b, then)),
           task[a][t].do \in {"idle", "single", "batch"},
           cut \subseteq cut', failures' = failures, session' = session, chan' = chan,
           \A h \in Nat :
               /\ failures' = 0 /\ Behind(a, t)' /\ h = session[a][t].peerHeight
               /\ InHand(a, t, h)
               => Comes(a, t, h)'
    PROVE  BehindInv'
<1>1. Rest(task[a][t]) = task[a][t]
  BY DEF Rest
<1>2. PICK next \in Task : /\ Turn(a, t, next)
                           /\ Outcome(a, b) \in {"imported", "reorged"} => next = Announce(b, then)
  <2>1. then \in Task /\ Then(a, b, then) \in Task
    BY SimpleTasks, ThenType
  <2> QED BY <2>1 DEF Then
<1>3. task'[a][t] = next
  <2>1. task \in [Node -> [Node -> Task]]
    BY DEF TypeOK
  <2> QED BY <1>2, <2>1, TurnIs
<1>4. /\ \A x, y \in Node : KeepsTelling(x) /\ KeepsMarks(x, y)
      /\ \A x, y \in Node : KeepsNews(x, y) /\ KeepsRequests(x, y)
      /\ \A x, y \in Node : ~(x = a /\ y = t) => KeepsHand(x, y)
      /\ \A x, y \in Node : ~(x = a /\ y = t) => Rest(task'[x][y]) = Rest(task[x][y])
  BY <1>2, TurnKeeps, SameIsSame, MarksKept DEF KeepsNews, KeepsRequests
<1>5. ASSUME NEW x \in Node, NEW y \in Node, NEW h \in Nat, failures' = 0, Behind(x, y)',
             h = session'[x][y].peerHeight, Serving(x, y, h)
      PROVE  Comes(x, y, h)'
  <2>1. session[x][y].ready
    BY <1>5 DEF Behind
  <2>2. Behind(x, y)
    BY <1>5, <2>1, PairWaits
  <2>3. ~(y = a /\ x = t)
    BY <1>1, <1>5 DEF Serving
  <2>4. Rest(task'[y][x]) = Rest(task[y][x])
    BY <1>4, <2>3
  <2>5. CASE head'[y] = head[y]
    <3>1. KeepsServing(y, x)
      BY <2>4, <2>5, ServingKept
    <3> QED BY <1>5, <3>1, Stays DEF Comes
  <2>6. CASE head'[y] # head[y]
    <3>1. /\ y = a /\ Outcome(a, b) \in {"imported", "reorged"} /\ head'[a] = b /\ b \notin known[a]
          /\ Height[b] >= Height[head[a]]
      BY <2>6, ImportDoes
    <3>2. task'[a][t] = Announce(b, then)
      BY <1>2, <1>3, <3>1
    <3>3. Announce(b, then).do = "announce" /\ Announce(b, then).block = b
      BY DEF Announce
    <3>4. {y, x} = {x, y} /\ {x, y} \notin cut
      BY <2>2 DEF Behind
    <3>5. Reading(task[y][x])
      BY <1>5 DEF Serving, Reading
    <3>6. session[a][x].ready
      BY <3>1, <3>4, <3>5 DEF GreetInv, BusyInv
    <3>7. /\ Height[head[x]] \in Nat /\ Height[b] \in Nat /\ Height[head[a]] \in Nat
          /\ Height[head[x]] < h /\ h <= Height[head[a]]
      <4>1. head[x] \in Blocks /\ head[a] \in Blocks
        BY DEF TypeOK
      <4>2. Height[head[x]] < session[x][y].peerHeight
        BY <2>2, <4>1, ProtocolAssumption DEF Behind, TypeOK, Session
      <4>3. session[x][y].peerHeight <= Height[head[a]]
        BY <3>1 DEF TellInv
      <4> QED BY <1>5, <4>1, <4>2, <4>3, ProtocolAssumption
    <3>8. h <= Height[b]
      BY <3>1, <3>7
    <3>9. b \notin session[a][x].seenBlocks
      <4>1. b \notin known[x]
        <5>1. b \in known[x] => Height[b] <= Height[head[x]]
          BY DEF BestInv
        <5> QED BY <3>7, <3>8, <5>1
      <4> QED BY <3>1, <4>1 DEF TellInv
    <3>10. Announcing(x, a, h)'
      BY <3>2, <3>3, <3>6, <3>8, <3>9 DEF Announcing
    <3> QED BY <3>1, <3>10 DEF Comes
  <2> QED BY <2>5, <2>6
<1>6. ASSUME NEW x \in Node, NEW y \in Node, NEW h \in Nat, failures' = 0, Behind(x, y)',
             h = session'[x][y].peerHeight
      PROVE  Comes(x, y, h)'
  <2>1. session[x][y].ready
    BY <1>6 DEF Behind
  <2>2. Behind(x, y) /\ Comes(x, y, h)
    BY <1>6, <2>1, PairWaits
  <2>3. CASE Arriving(x, y, h) \/ Requested(x, y, h) \/ Announcing(x, y, h)
    BY <1>4, <2>3, Stays DEF Comes
  <2>4. CASE InHand(x, y, h)
    <3>1. CASE x = a /\ y = t
      BY <1>6, <2>4, <3>1
    <3>2. CASE ~(x = a /\ y = t)
      BY <1>4, <2>4, <3>2, Stays DEF Comes
    <3> QED BY <3>1, <3>2
  <2>5. CASE Serving(x, y, h)
    BY <1>5, <1>6, <2>5
  <2> QED BY <2>2, <2>3, <2>4, <2>5 DEF Comes
<1> QED BY <1>6, BehindShown

LEMMA SingleWaits ==
    ASSUME TypeOK, TypeOK', ChainInv, BestInv, BestInv', GreetInv, TellInv, BehindInv, Rises,
           NEW a \in Node, NEW t \in Node, ImportFrom(a, t)
    PROVE  BehindInv'
<1> DEFINE k == task[a][t]
           b == k.block
           then == IF Outcome(a, b) = "orphaned" THEN Ask ELSE Idle
<1>1. /\ failures' = failures /\ session' = session /\ chan' = chan /\ k.do = "single"
      /\ Imported(a, b) /\ Turn(a, t, Then(a, b, then)) /\ cut \subseteq cut'
      /\ Outcome(a, b) = "invalid" => {a, t} \in cut'
  BY DEF ImportFrom, Drop
<1>2. k \in Task
  BY DEF TypeOK
<1> HIDE DEF k
<1>3. b \in Blocks /\ then \in SimpleTask /\ Rest(k) = k
  BY <1>1, <1>2, TasksAre, SimpleTasks DEF Rest
<1>4. ASSUME NEW h \in Nat, Behind(a, t)', h = session[a][t].peerHeight, InHand(a, t, h)
      PROVE  Comes(a, t, h)'
  <2>1. Height[b] >= h
    BY <1>1, <1>3, <1>4 DEF InHand, k
  <2>2. {a, t} \notin cut' /\ Height[head'[a]] < h
    BY <1>1, <1>4 DEF Behind
  <2>3. head'[a] \in Blocks /\ Height[head'[a]] \in Nat /\ Height[b] \in Nat
    BY <1>3, ProtocolAssumption DEF TypeOK
  <2>4. b \notin known'[a]
    <3>1. b \in known'[a] => Height[b] <= Height[head'[a]]
      BY DEF BestInv
    <3> QED BY <2>1, <2>2, <2>3, <3>1
  <2>5. Outcome(a, b) = "orphaned"
    BY <1>1, <1>3, <2>2, <2>4, ImportDoes
  <2>6. Turn(a, t, Ask) /\ Ask \in Task
    BY <1>1, <2>5, SimpleTasks DEF Then
  <2>7. task'[a][t] = Ask
    <3>1. task \in [Node -> [Node -> Task]]
      BY DEF TypeOK
    <3> QED BY <2>6, <3>1, TurnIs
  <2>8. InHand(a, t, h)'
    BY <2>7 DEF InHand, Rest, Ask
  <2> QED BY <2>8 DEF Comes
<1> HIDE DEF then
<1>5. task[a][t].do \in {"idle", "single", "batch"}
  BY <1>1 DEF k
<1> QED BY <1>1, <1>3, <1>4, <1>5, ImportWaits

LEMMA BatchWaits ==
    ASSUME TypeOK, TypeOK', ChainInv, BestInv, GreetInv, TellInv, BehindInv, Rises,
           NEW a \in Node, NEW t \in Node, ImportBatch(a, t)
    PROVE  BehindInv'
<1> DEFINE k == task[a][t]
           bs == k.blocks
           b == bs[k.at]
           o == Outcome(a, b)
           then == Batch(bs, k.at + 1, k.accepted \/ o # "orphaned")
<1>1. /\ failures' = failures /\ session' = session /\ chan' = chan /\ k.do = "batch"
      /\ k.at <= Len(bs) /\ Imported(a, b) /\ cut \subseteq cut'
      /\ IF o = "invalid" THEN Turn(a, t, Idle) /\ {a, t} \in cut'
         ELSE Turn(a, t, Then(a, b, then))
  BY DEF ImportBatch, Drop
<1>2. k \in Task
  BY DEF TypeOK
<1> HIDE DEF k
<1>3. k.at \in Nat \ {0} /\ k.accepted \in BOOLEAN /\ bs \in Seq(Blocks) /\ bs # <<>> /\ Rest(k) = k
  BY <1>1, <1>2, TasksAre DEF Rest
<1>4. k.at \in 1 .. Len(bs) /\ Len(bs) \in Nat
  BY <1>1, <1>3
<1>5. b \in Blocks /\ Idle \in SimpleTask
  BY <1>3, <1>4, SimpleTasks
<1>6. then \in SimpleTask
  <2>1. bs \in Seq(Blocks) \ {<<>>} /\ k.at + 1 \in Nat \ {0} /\ (k.accepted \/ o # "orphaned") \in BOOLEAN
    BY <1>3
  <2> QED BY <2>1, SimpleTasks
<1>7. task[a][t].do \in {"idle", "single", "batch"}
  BY <1>1 DEF k
<1>8. CASE o = "invalid"
  <2>1. ASSUME NEW h \in Nat, Behind(a, t)' PROVE FALSE
    BY <1>1, <1>8, <2>1 DEF Behind
  <2> QED BY <1>1, <1>5, <1>7, <1>8, <2>1, ImportWaits
<1>9. CASE o # "invalid"
  <2>1. task'[a][t] = Then(a, b, then) /\ Rest(task'[a][t]) = then
    <3>1. task \in [Node -> [Node -> Task]] /\ Then(a, b, then) \in Task
      BY <1>5, <1>6, ThenType DEF TypeOK
    <3>2. Rest(Then(a, b, then)) = then
      BY <1>6, NotSends
    <3> QED BY <1>1, <1>9, <3>1, <3>2, TurnIs
  <2>2. ASSUME NEW h \in Nat, Behind(a, t)', InHand(a, t, h) PROVE Comes(a, t, h)'
    <3>1. /\ Linked(bs) /\ Height[bs[1]] <= h
          /\ k.accepted => k.at > 1 /\ bs[k.at - 1] \in known[a]
      BY <1>1, <1>3, <2>2 DEF InHand, k
    <3>2. /\ then.do = "batch" /\ then.blocks = bs /\ then.at = k.at + 1
          /\ then.accepted = (k.accepted \/ o # "orphaned")
      BY DEF Batch
    <3>3. k.at + 1 <= Len(bs) + 1 /\ k.at + 1 > 1 /\ (k.at + 1) - 1 = k.at
      BY <1>3, <1>4
    <3>4. o # "orphaned" => b \in known'[a]
      BY <1>1, <1>5, <1>9, ImportDoes
    <3>5. k.accepted => o # "orphaned"
      <4> SUFFICES ASSUME k.accepted PROVE o # "orphaned"
        OBVIOUS
      <4>1. k.at - 1 \in 1 .. Len(bs) - 1 /\ (k.at - 1) + 1 = k.at
        BY <1>3, <1>4, <3>1
      <4>2. Parent[b] = bs[k.at - 1]
        BY <3>1, <4>1 DEF Linked
      <4>3. Parent[b] \in known[a]
        BY <3>1, <4>2
      <4> QED BY <4>3 DEF Outcome
    <3>6. then.accepted => then.at > 1 /\ bs[then.at - 1] \in known'[a]
      BY <3>2, <3>3, <3>4, <3>5
    <3> HIDE DEF then
    <3>7. InHand(a, t, h)'
      BY <2>1, <3>1, <3>2, <3>3, <3>6 DEF InHand
    <3> QED BY <3>7 DEF Comes
  <2> HIDE DEF then
  <2> QED BY <1>1, <1>5, <1>6, <1>7, <1>9, <2>2, ImportWaits
<1> QED BY <1>8, <1>9

LEMMA MineWaits ==
    ASSUME TypeOK, TypeOK', ChainInv, BestInv, GreetInv, TellInv, BehindInv, Rises,
           NEW a \in Node, NEW b \in Blocks, Mine(a, b)
    PROVE  BehindInv'
<1>1. /\ failures' = failures /\ session' = session /\ chan' = chan /\ task[a][a] = Idle
      /\ Imported(a, b) /\ Turn(a, a, Then(a, b, Idle)) /\ cut \subseteq cut'
  BY DEF Mine, netVars
<1>2. \A h : ~InHand(a, a, h)
  BY <1>1 DEF InHand, Rest, Idle
<1>3. task[a][a].do \in {"idle", "single", "batch"}
  BY <1>1 DEF Idle
<1>4. Idle \in SimpleTask
  BY SimpleTasks
<1> QED BY <1>1, <1>2, <1>3, <1>4, ImportWaits

LEMMA FailureWaits ==
    ASSUME TypeOK, NEW a \in Node, NEW t \in Node, ImportFails(a, t)
    PROVE  BehindInv'
<1>1. failures \in Nat /\ failures' = failures + 1
  BY ProtocolAssumption DEF TypeOK, ImportFails
<1>2. failures' # 0
  BY <1>1
<1> QED BY <1>2 DEF BehindInv

\* A thread that tells its node's peers leaves every pair as it was, but for what it
\* tells.
LEMMA TellingFrame ==
    ASSUME TypeOK, TypeOK', BehindInv, Rises, cut \subseteq cut', failures' = failures,
           head' = head, NEW a \in Node, NEW t \in Node, NEW next \in Task, Turn(a, t, next),
           Rest(next) = Rest(task[a][t]),
           \A x, y \in Node : KeepsNews(x, y) /\ KeepsRequests(x, y),
           \A x, y \in Node : /\ session'[x][y].ready = session[x][y].ready
                              /\ session'[x][y].peerHeight = session[x][y].peerHeight
                              /\ x # a => session'[x][y] = session[x][y],
           \A x \in Node : \A h \in Nat :
               /\ failures' = 0 /\ Behind(x, a)' /\ Behind(x, a) /\ h = session[x][a].peerHeight
               /\ Announcing(x, a, h)
               => Comes(x, a, h)'
    PROVE  BehindInv'
<1>1. /\ \A x, y \in Node : KeepsHand(x, y) /\ (x # a => KeepsTelling(x))
      /\ \A x, y \in Node : Rest(task'[x][y]) = Rest(task[x][y])
  <2>1. task \in [Node -> [Node -> Task]]
    BY DEF TypeOK
  <2>2. \A x, y \in Node : task'[x][y] = IF x = a /\ y = t THEN next ELSE task[x][y]
    BY <2>1, TurnIs
  <2>3. \A x, y \in Node : Rest(task'[x][y]) = Rest(task[x][y])
    BY <2>2
  <2> QED BY <2>3, TurnKeeps DEF KeepsHand
<1>2. \A x, y \in Node : KeepsServing(x, y)
  BY <1>1, ServingKept
<1>3. ASSUME NEW x \in Node, NEW y \in Node, NEW h \in Nat, failures' = 0, Behind(x, y)',
             h = session'[x][y].peerHeight
      PROVE  Comes(x, y, h)'
  <2>1. session[x][y].ready
    BY <1>3 DEF Behind
  <2>2. Behind(x, y) /\ Comes(x, y, h)
    BY <1>3, <2>1, PairWaits
  <2>3. CASE Arriving(x, y, h) \/ Requested(x, y, h) \/ InHand(x, y, h) \/ Serving(x, y, h)
    BY <1>1, <1>2, <2>3, Stays DEF Comes
  <2>4. CASE Announcing(x, y, h)
    <3>1. CASE y = a
      BY <1>3, <2>2, <2>4, <3>1
    <3>2. CASE y # a
      <4>1. KeepsMarks(y, x)
        BY <3>2 DEF KeepsMarks
      <4> QED BY <1>1, <2>4, <3>2, <4>1, Stays DEF Comes
    <3> QED BY <3>1, <3>2
  <2> QED BY <2>2, <2>3, <2>4 DEF Comes
<1> QED BY <1>3, BehindShown

\* A task that is left as it is still tells what it told.
LEMMA SameTold ==
    ASSUME NEW x \in Node, NEW y \in Node, NEW h, NEW u \in Node, task'[y][u] = task[y][u],
           \/ /\ task[y][u].do = "announce" /\ Height[task[y][u].block] >= h
              /\ session'[y][x].ready /\ task[y][u].block \notin session'[y][x].seenBlocks
           \/ /\ task[y][u].do = "send" /\ x \in task[y][u].to
              /\ task[y][u].message.type = "newBlock"
              /\ Height[task[y][u].message.block] >= h
    PROVE  Announcing(x, y, h)'
BY DEF Announcing

LEMMA AnnounceWaits ==
    ASSUME TypeOK, TypeOK', GreetInv, BehindInv, Rises, NEW a \in Node, NEW t \in Node,
           AnnounceBlock(a, t)
    PROVE  BehindInv'
<1> DEFINE k == task[a][t]
           b == k.block
           targets == {p \in Ready(a) : b \notin session[a][p].seenBlocks}
           next == Send(targets, NewBlock(b), k.then)
<1>1. /\ head' = head /\ failures' = failures /\ cut' = cut /\ chan' = chan
      /\ k.do = "announce" /\ MarkBlock(a, targets, b) /\ Turn(a, t, next)
  BY DEF AnnounceBlock, chainVars, netVars
<1>2. k \in Task /\ session \in Sessions /\ task \in [Node -> [Node -> Task]]
  BY DEF TypeOK, Sessions
<1> HIDE DEF k
<1>3. b \in Blocks /\ k.then \in SimpleTask /\ targets \in SUBSET Node /\ Rest(k) = k.then
  BY <1>1, <1>2, TasksAre DEF Ready, Rest
<1>4. NewBlock(b) \in Message /\ NewBlock(b).type = "newBlock" /\ NewBlock(b).block = b
  BY <1>3, MessagesMade DEF NewBlock
<1> HIDE DEF targets
<1>5. next \in Task /\ Rest(next) = Rest(task[a][t])
  BY <1>3, <1>4, OtherTasks, SendIs DEF k
<1>6. \A x, y \in Node : task'[x][y] = IF x = a /\ y = t THEN next ELSE task[x][y]
  BY <1>1, <1>2, <1>5, TurnIs
<1>7. \A x, y \in Node :
         /\ session'[x][y].ready = session[x][y].ready
         /\ session'[x][y].peerHeight = session[x][y].peerHeight
         /\ x # a => session'[x][y] = session[x][y]
         /\ session'[x][y].seenBlocks \subseteq session[x][y].seenBlocks \cup {b}
  <2> SUFFICES ASSUME NEW x \in Node, NEW y \in Node, session'[x][y] # session[x][y]
               PROVE  /\ session'[x][y].ready = session[x][y].ready
                      /\ session'[x][y].peerHeight = session[x][y].peerHeight
                      /\ x = a
                      /\ session'[x][y].seenBlocks \subseteq session[x][y].seenBlocks \cup {b}
    OBVIOUS
  <2>1. /\ session'[x][y] = [session[x][y] EXCEPT
                               !.seenBlocks = Noted(session[x][y].seenBlocks, b)]
        /\ x = a
    BY <1>1, <1>2 DEF MarkBlock, Sessions
  <2>2. session[x][y] \in Session
    BY <1>2 DEF Sessions
  <2>3. Noted(session[x][y].seenBlocks, b) \subseteq session[x][y].seenBlocks \cup {b}
    BY NotedIn
  <2>4. /\ session'[x][y].ready = session[x][y].ready
        /\ session'[x][y].peerHeight = session[x][y].peerHeight
        /\ session'[x][y].seenBlocks = Noted(session[x][y].seenBlocks, b)
    BY <2>1, <2>2 DEF Session
  <2> QED BY <2>1, <2>3, <2>4
<1>8. \A x, y \in Node : KeepsNews(x, y) /\ KeepsRequests(x, y)
  BY <1>1 DEF KeepsNews, KeepsRequests
<1>9. ASSUME NEW x \in Node, NEW h \in Nat, Behind(x, a), Announcing(x, a, h)
      PROVE  Comes(x, a, h)'
  <2>1. {a, x} = {x, a} /\ {x, a} \notin cut
    BY <1>9 DEF Behind
  <2>2. ASSUME session[a][x].ready, b \notin session[a][x].seenBlocks, Height[b] >= h
        PROVE  Announcing(x, a, h)'
    <3>1. x \in targets
      BY <2>1, <2>2 DEF targets, Ready, HasSession, GreetInv, SideInv
    <3>2. /\ task'[a][t].do = "send" /\ task'[a][t].to = targets
          /\ task'[a][t].message = NewBlock(b)
      BY <1>3, <1>6, <3>1, SendIs
    <3> QED BY <1>4, <2>2, <3>1, <3>2 DEF Announcing
  <2>3. PICK u \in Node :
           \/ /\ task[a][u].do = "announce" /\ Height[task[a][u].block] >= h
              /\ session[a][x].ready /\ task[a][u].block \notin session[a][x].seenBlocks
           \/ /\ task[a][u].do = "send" /\ x \in task[a][u].to
              /\ task[a][u].message.type = "newBlock"
              /\ Height[task[a][u].message.block] >= h
    BY <1>9 DEF Announcing
  <2>4. CASE u = t \/ (task[a][u].do = "announce" /\ task[a][u].block = b)
    BY <1>1, <2>2, <2>3, <2>4 DEF k, Comes
  <2>5. CASE u # t /\ ~(task[a][u].do = "announce" /\ task[a][u].block = b)
    <3>1. task'[a][u] = task[a][u]
      BY <1>6, <2>5
    <3>2. Announcing(x, a, h)'
      BY <1>7, <2>3, <2>5, <3>1, SameTold
    <3> QED BY <3>2 DEF Comes
  <2> QED BY <2>4, <2>5
<1> HIDE DEF next
<1> QED BY <1>1, <1>5, <1>7, <1>8, <1>9, TellingFrame

LEMMA SendWaits ==
    ASSUME TypeOK, TypeOK', BehindInv, Rises, NEW a \in Node, NEW t \in Node, SendNext(a, t)
    PROVE  BehindInv'
<1> DEFINE k == task[a][t]
<1>1. /\ head' = head /\ failures' = failures /\ cut' = cut /\ session' = session
      /\ k.do = "send"
  BY DEF SendNext, chainVars, netVars
<1>2. PICK p \in k.to : /\ chan' = Sent(chan, a, p, k.message)
                        /\ Turn(a, t, Send(k.to \ {p}, k.message, k.then))
  BY DEF SendNext
<1>3. k \in Task /\ chan \in Channels /\ task \in [Node -> [Node -> Task]]
  BY DEF TypeOK, Channels
<1> DEFINE next == Send(k.to \ {p}, k.message, k.then)
<1> HIDE DEF k
<1>4. k.to \subseteq Node /\ k.message \in Message /\ k.then \in SimpleTask /\ Rest(k) = k.then
  BY <1>1, <1>3, TasksAre DEF Rest
<1>5. next \in Task /\ Rest(next) = Rest(task[a][t])
  <2>1. k.to \ {p} \in SUBSET Node
    BY <1>4
  <2> QED BY <1>4, <2>1, OtherTasks, SendIs DEF k
<1>6. \A x, y \in Node : task'[x][y] = IF x = a /\ y = t THEN next ELSE task[x][y]
  BY <1>2, <1>3, <1>5, TurnIs DEF k
<1>7. \A x, y \in Node : KeepsNews(x, y) /\ KeepsRequests(x, y)
  BY <1>2, <1>4, SentStays
<1>8. ASSUME NEW x \in Node, NEW h \in Nat, Behind(x, a), Announcing(x, a, h)
      PROVE  Comes(x, a, h)'
  <2>1. {a, x} = {x, a} /\ {x, a} \notin cut
    BY <1>8 DEF Behind
  <2>2. PICK u \in Node :
           \/ /\ task[a][u].do = "announce" /\ Height[task[a][u].block] >= h
              /\ session[a][x].ready /\ task[a][u].block \notin session[a][x].seenBlocks
           \/ /\ task[a][u].do = "send" /\ x \in task[a][u].to
              /\ task[a][u].message.type = "newBlock"
              /\ Height[task[a][u].message.block] >= h
    BY <1>8 DEF Announcing
  <2>3. CASE u # t
    <3>1. task'[a][u] = task[a][u]
      BY <1>6, <2>3
    <3>2. Announcing(x, a, h)'
      BY <1>1, <2>2, <3>1, SameTold
    <3> QED BY <3>2 DEF Comes
  <2>4. CASE u = t
    <3>1. x \in k.to /\ k.message.type = "newBlock" /\ Height[k.message.block] >= h
      BY <1>1, <2>2, <2>4 DEF k
    <3>2. CASE x = p
      <4>1. k.message \in Range(chan'[a][x])
        BY <1>2, <1>3, <1>4, <2>1, <3>2, SentKeeps
      <4>2. Arriving(x, a, h)'
        BY <3>1, <4>1 DEF Arriving
      <4> QED BY <4>2 DEF Comes
    <3>3. CASE x # p
      <4>1. k.to \ {p} # {} /\ x \in k.to \ {p}
        BY <3>1, <3>3
      <4>2. /\ task'[a][t].do = "send" /\ task'[a][t].to = k.to \ {p}
            /\ task'[a][t].message = k.message
        BY <1>4, <1>6, <4>1, SendIs
      <4>3. Announcing(x, a, h)'
        BY <3>1, <4>1, <4>2 DEF Announcing
      <4> QED BY <4>3 DEF Comes
    <3> QED BY <3>2, <3>3
  <2> QED BY <2>3, <2>4
<1>9. Turn(a, t, next)
  BY <1>2
<1> HIDE DEF next
<1> QED BY <1>1, <1>5, <1>7, <1>8, <1>9, TellingFrame

LEMMA BehindAlways == Spec => []BehindInv
<1>1. Init => BehindInv
  BY DEF Init, BehindInv, Behind, NewSession
<1>2. /\ TypeOK /\ TypeOK' /\ HonestInv /\ BestInv /\ GreetInv /\ TellInv /\ BehindInv
      /\ [Next]_vars
      => BehindInv'
  <2> SUFFICES ASSUME TypeOK, TypeOK', HonestInv, BestInv, GreetInv, TellInv, BehindInv,
                      [Next]_vars
               PROVE  BehindInv'
    OBVIOUS
  <2>1. Rises /\ BestInv' /\ ChainInv
    BY StepRises DEF HonestInv
  <2>2. CASE \E n, t \in Node : ThreadStep(n, t)
    BY <2>1, <2>2, ConnectionWaits, OthersWait, StatusHandled, NewBlockHandled, RequestHandled,
       RequestWaits, ServeWaits, SingleWaits, BatchWaits, FinishWaits, AnnounceWaits, SendWaits
    DEF ThreadStep
  <2>3. CASE \E n, p \in Node : Tick(n, p) \/ Lose(n, p) \/ ImportFails(n, p)
    BY <2>1, <2>3, ConnectionWaits, OthersWait, FailureWaits
  <2>4. CASE \E n \in Node : \/ \E b \in Blocks : Mine(n, b)
                            \/ \E tx \in Txs : SubmitTransaction(n, tx)
    BY <2>1, <2>4, MineWaits, OthersWait
  <2>5. CASE UNCHANGED vars
    <3>1. QuietStep
      BY <2>5 DEF vars, QuietStep, PairKeeps, KeepsNews, KeepsRequests, KeepsHand, KeepsTelling,
                  KeepsMarks, KeepsServing
    <3> QED BY <2>1, <2>5, <3>1, QuietFrame DEF vars
  <2> QED BY <2>2, <2>3, <2>4, <2>5 DEF Next
<1> QED BY <1>1, <1>2, TypeCorrect, HonestAlways, BestAlways, GreetAlways, TellAlways, PTL DEF Spec

\* When all is quiet no node knows a peer to be higher, whatever was mined, reorganised
\* or lost on the way (handleStatus, handleNewBlock, handleGetBlocks, handleBlocks,
\* announceBlock): a height that is known is always answered, asked for, or on its way.
THEOREM NobodyIsLeftBehind == Spec => []NobodyStaysBehind
<1>1. TypeOK /\ GreetInv /\ BehindInv => NobodyStaysBehind
  <2> SUFFICES ASSUME TypeOK, GreetInv, BehindInv, Quiet, failures = 0,
                      NEW n \in Node, NEW p \in Node, link[n][p] = "open", session[n][p].ready
               PROVE  Height[head[n]] >= session[n][p].peerHeight
    BY DEF NobodyStaysBehind
  <2>1. p \in Peers(n)
    BY DEF GreetInv, LinkInv
  <2>2. {n, p} \notin cut
    BY <2>1 DEF Quiet
  <2>3. Height[head[n]] \in Nat /\ session[n][p].peerHeight \in Nat
    BY ProtocolAssumption DEF TypeOK, Session
  <2>4. \A x, y \in Node : task[x][y] = Idle /\ chan[x][y] = <<>>
    BY DEF Quiet
  <2>4a. Idle.do = "idle" /\ Rest(Idle) = Idle
    BY DEF Idle, Rest
  <2>4b. Range(<<>>) = {}
    BY DEF Range
  <2>5. \A h : ~Comes(n, p, h)
    BY <2>4, <2>4a, <2>4b DEF Comes, Arriving, Requested, InHand, Announcing, Serving
  <2>6. ~Behind(n, p)
    BY <2>5 DEF BehindInv
  <2> QED BY <2>2, <2>3, <2>6 DEF Behind
<1> QED BY <1>1, TypeCorrect, GreetAlways, BehindAlways, PTL

-----------------------------------------------------------------------------
(* What is marked is reached. *)

\* On its way from x to y: sent, or about to be.
Coming(x, y, m) ==
    \/ m \in Range(chan[x][y])
    \/ \E t \in Node :
          task[x][t].do = "send" /\ y \in task[x][t].to /\ task[x][t].message = m

\* A block that x has marked as seen by y comes to y, or is stored there, or y knows x
\* to be as high.
BlockMarks ==
    \A x, y \in Node : {x, y} \notin cut => \A b \in session[x][y].seenBlocks :
        \/ b \in known[y]
        \/ session[y][x].ready /\ session[y][x].peerHeight >= Height[b]
        \/ Coming(x, y, NewBlock(b))

\* Valid on every ledger of y's network.
ValidThere(y, tx) == \A b \in Blocks : Genesis(y) \in Ancestry[b] => tx \in ValidOn[b]

TxMarks ==
    \A x, y \in Node : {x, y} \notin cut => \A tx \in session[x][y].seenTxs :
        \/ ValidThere(y, tx) => tx \in admitted[y]
        \/ Coming(x, y, NewTx(tx))

\* A node passes on the transactions that its own pool has admitted.
TxInv ==
    \A x, y \in Node :
        /\ \A m \in Range(chan[x][y]) : m.type = "newTx" => m.tx \in admitted[x]
        /\ Rest(task[x][y]).do = "relay" => Rest(task[x][y]).tx \in admitted[x]
        /\ task[x][y].do = "send" /\ task[x][y].message.type = "newTx" =>
             task[x][y].message.tx \in admitted[x]

\* What a step may do to a session: nothing is forgotten of a peer that is ready.
SessionsGo ==
    \A x, y \in Node : {x, y} \notin cut' /\ session[x][y].ready =>
        session'[x][y].ready /\ session'[x][y].peerHeight >= session[x][y].peerHeight
NoBlockMarked ==
    \A x, y \in Node : {x, y} \notin cut' =>
        session'[x][y].seenBlocks \subseteq session[x][y].seenBlocks
NoTxMarked ==
    \A x, y \in Node : {x, y} \notin cut' =>
        session'[x][y].seenTxs \subseteq session[x][y].seenTxs

LEMMA SessionsRest ==
    ASSUME TypeOK, session' = session
    PROVE  SessionsGo /\ NoBlockMarked /\ NoTxMarked
<1>1. \A x, y \in Node : session[x][y].peerHeight \in Nat
  BY DEF TypeOK, Session
<1>2. \A x, y \in Node : session[x][y].peerHeight >= session[x][y].peerHeight
  BY <1>1
<1> QED BY <1>2 DEF SessionsGo, NoBlockMarked, NoTxMarked

\* One session is set.
LEMMA SessionSet ==
    ASSUME TypeOK, NEW a \in Node, NEW t \in Node, NEW s \in Session,
           session' = [session EXCEPT ![a][t] = s]
    PROVE  /\ \A x, y \in Node : session'[x][y] = IF x = a /\ y = t THEN s ELSE session[x][y]
           /\ \/ {a, t} \in cut' \/ ~session[a][t].ready
              \/ s.ready /\ s.peerHeight >= session[a][t].peerHeight
              => SessionsGo
           /\ {a, t} \in cut' \/ s.seenBlocks \subseteq session[a][t].seenBlocks => NoBlockMarked
           /\ {a, t} \in cut' \/ s.seenTxs \subseteq session[a][t].seenTxs => NoTxMarked
<1>1. \A x, y \in Node : session'[x][y] = IF x = a /\ y = t THEN s ELSE session[x][y]
  BY DEF TypeOK
<1>2. \A x, y \in Node : session[x][y].peerHeight >= session[x][y].peerHeight
  <2>1. \A x, y \in Node : session[x][y].peerHeight \in Nat
    BY DEF TypeOK, Session
  <2> QED BY <2>1
<1>3. \/ {a, t} \in cut' \/ ~session[a][t].ready
      \/ s.ready /\ s.peerHeight >= session[a][t].peerHeight
      => SessionsGo
  <2> SUFFICES ASSUME \/ {a, t} \in cut' \/ ~session[a][t].ready
                      \/ s.ready /\ s.peerHeight >= session[a][t].peerHeight,
                      NEW x \in Node, NEW y \in Node, {x, y} \notin cut', session[x][y].ready
               PROVE  /\ session'[x][y].ready
                      /\ session'[x][y].peerHeight >= session[x][y].peerHeight
    BY DEF SessionsGo
  <2>1. CASE x = a /\ y = t
    BY <1>1, <2>1
  <2>2. CASE ~(x = a /\ y = t)
    BY <1>1, <1>2, <2>2
  <2> QED BY <2>1, <2>2
<1>4. {a, t} \in cut' \/ s.seenBlocks \subseteq session[a][t].seenBlocks => NoBlockMarked
  BY <1>1 DEF NoBlockMarked
<1>5. {a, t} \in cut' \/ s.seenTxs \subseteq session[a][t].seenTxs => NoTxMarked
  <2> SUFFICES ASSUME {a, t} \in cut' \/ s.seenTxs \subseteq session[a][t].seenTxs,
                      NEW x \in Node, NEW y \in Node, {x, y} \notin cut'
               PROVE  session'[x][y].seenTxs \subseteq session[x][y].seenTxs
    BY DEF NoTxMarked
  <2>1. CASE x = a /\ y = t
    BY <1>1, <2>1
  <2>2. CASE ~(x = a /\ y = t)
    BY <1>1, <2>2
  <2> QED BY <2>1, <2>2
<1> QED BY <1>1, <1>3, <1>4, <1>5

\* Only blocks that are announced or received are marked, and only such transactions.
LEMMA ThreadMarks ==
    ASSUME TypeOK, GreetInv, NEW a \in Node, NEW t \in Node, ThreadStep(a, t) \/ Tick(a, t)
    PROVE  /\ SessionsGo
           /\ ~HandleNewBlock(a, t) /\ ~AnnounceBlock(a, t) => NoBlockMarked
           /\ ~HandleNewTransaction(a, t) /\ ~AnnounceTransaction(a, t) => NoTxMarked
<1> DEFINE s == session[a][t]
           m == Incoming(a, t)
<1>1. s \in Session /\ session \in Sessions /\ chan \in Channels
  BY DEF TypeOK, Sessions, Channels
<1>2. s.peerHeight \in Nat /\ s.ready \in BOOLEAN /\ s.seenBlocks \in SUBSET Blocks
      /\ s.seenTxs \in SUBSET Txs
  BY <1>1 DEF Session
<1>3. ASSUME chan[t][a] # <<>> PROVE m \in Message
  BY <1>1, <1>3, ConsumedIs
<1> HIDE DEF m
<1>4. ASSUME NEW z \in Session, session' = [session EXCEPT ![a][t] = z]
      PROVE  /\ \/ {a, t} \in cut' \/ ~s.ready
                \/ z.ready /\ z.peerHeight >= s.peerHeight
                => SessionsGo
             /\ {a, t} \in cut' \/ z.seenBlocks \subseteq s.seenBlocks => NoBlockMarked
             /\ {a, t} \in cut' \/ z.seenTxs \subseteq s.seenTxs => NoTxMarked
  BY <1>4, SessionSet
<1>5. CASE AddPeer(a, t) \/ Close(a, t)
  <2>1. /\ session' = [session EXCEPT ![a][t] = NewSession]
        /\ {a, t} \in cut' \/ (cut' = cut /\ link[a][t] = "none")
    BY <1>5 DEF AddPeer, Close
  <2>2. {a, t} \in cut' \/ ~s.ready
    BY <2>1 DEF GreetInv, SideInv
  <2>3. NewSession \in Session /\ NewSession.seenBlocks = {} /\ NewSession.seenTxs = {}
    BY DEF NewSession, Session
  <2> QED BY <1>4, <2>1, <2>2, <2>3
<1>6. CASE HandleStatus(a, t)
  <2>1. /\ chan[t][a] # <<>> /\ m.type = "status" /\ link[a][t] = "open"
        /\ \/ session' = session
           \/ session' = [session EXCEPT ![a][t] = [s EXCEPT !.ready = TRUE, !.peerHeight = m.height]]
        /\ cut \subseteq cut'
    BY <1>6 DEF HandleStatus, Receiving, Drop, m, TypeOK
  <2>2. {a, t} \in cut' \/ ~s.ready
    BY <1>2, <2>1, TalkIsReady DEF m
  <2> DEFINE z == [s EXCEPT !.ready = TRUE, !.peerHeight = m.height]
  <2>3. z \in Session /\ z.seenBlocks = s.seenBlocks /\ z.seenTxs = s.seenTxs
    BY <1>1, <1>3, <2>1, MessagesAre, SessionFields DEF Session
  <2>4. session' = session \/ session' = [session EXCEPT ![a][t] = z]
    BY <2>1
  <2> HIDE DEF z
  <2> QED BY <1>4, <2>2, <2>3, <2>4, SessionsRest
<1>7. CASE HandleNewBlock(a, t)
  <2> DEFINE h == IF Height[m.block] > s.peerHeight THEN Height[m.block] ELSE s.peerHeight
             seen == Noted(s.seenBlocks, m.block)
             z == [s EXCEPT !.seenBlocks = seen, !.peerHeight = h]
  <2>1. /\ chan[t][a] # <<>> /\ m.type = "newBlock"
        /\ session' = session \/ session' = [session EXCEPT ![a][t] = z]
    BY <1>7 DEF HandleNewBlock, Receiving, m
  <2>2. m.block \in Blocks
    BY <1>3, <2>1, MessagesAre
  <2>3. h \in Nat /\ h >= s.peerHeight /\ seen \in SUBSET Blocks
    BY <1>2, <2>2, ProtocolAssumption, NotedType
  <2> HIDE DEF h, seen
  <2>4. z \in Session /\ z.peerHeight = h /\ z.ready = s.ready /\ z.seenTxs = s.seenTxs
    BY <1>1, <2>3, SessionFields DEF Session
  <2> HIDE DEF z
  <2> QED BY <1>2, <1>4, <1>7, <2>1, <2>3, <2>4, SessionsRest
<1>8. CASE HandleNewTransaction(a, t)
  <2> DEFINE seen == Noted(s.seenTxs, m.tx)
             z == [s EXCEPT !.seenTxs = seen]
  <2>1. /\ chan[t][a] # <<>> /\ m.type = "newTx"
        /\ session' = session \/ session' = [session EXCEPT ![a][t] = z]
    BY <1>8 DEF HandleNewTransaction, Receiving, m
  <2>2. seen \in SUBSET Txs
    BY <1>2, <1>3, <2>1, MessagesAre, NotedType
  <2> HIDE DEF seen
  <2>4. /\ z \in Session /\ z.peerHeight = s.peerHeight /\ z.ready = s.ready
        /\ z.seenBlocks = s.seenBlocks
    BY <1>1, <2>2, SessionFields DEF Session
  <2>5. z.peerHeight >= s.peerHeight
    BY <1>2, <2>4
  <2> HIDE DEF z
  <2> QED BY <1>4, <1>8, <2>1, <2>4, <2>5, SessionsRest
<1>9. CASE HandlePong(a, t)
  <2> DEFINE z == [s EXCEPT !.pingOutstanding = FALSE]
  <2>1. session' = session \/ session' = [session EXCEPT ![a][t] = z]
    BY <1>9 DEF HandlePong, TypeOK
  <2>2. /\ z \in Session /\ z.peerHeight = s.peerHeight /\ z.ready = s.ready
        /\ z.seenBlocks = s.seenBlocks /\ z.seenTxs = s.seenTxs
    BY <1>1, SessionFields DEF Session
  <2>3. z.peerHeight >= s.peerHeight
    BY <1>2, <2>2
  <2> HIDE DEF z
  <2> QED BY <1>4, <2>1, <2>2, <2>3, SessionsRest
<1>10. CASE Tick(a, t)
  <2> DEFINE z == [s EXCEPT !.pingOutstanding = TRUE, !.pingNonce = pings[a] + 1]
  <2>1. session' = [session EXCEPT ![a][t] = z]
    BY <1>10 DEF Tick, TypeOK
  <2>2. pings[a] \in Nat
    BY DEF TypeOK
  <2>3. pings[a] + 1 \in Nat
    BY <2>2
  <2>4. /\ z \in Session /\ z.peerHeight = s.peerHeight /\ z.ready = s.ready
        /\ z.seenBlocks = s.seenBlocks /\ z.seenTxs = s.seenTxs
    BY <1>1, <2>3, SessionFields DEF Session
  <2>5. z.peerHeight >= s.peerHeight
    BY <1>2, <2>4
  <2> HIDE DEF z
  <2> QED BY <1>4, <2>1, <2>4, <2>5, SessionsRest
<1>11. CASE AnnounceBlock(a, t)
  <2>1. \A x, y \in Node : \/ session'[x][y] = session[x][y]
                           \/ \E seen \in SUBSET Blocks :
                                session'[x][y] = [session[x][y] EXCEPT !.seenBlocks = seen]
    <3>1. task[a][t].block \in Blocks
      BY <1>11, TasksAre DEF AnnounceBlock, TypeOK
    <3>2. \A x, y \in Node : session[x][y].seenBlocks \in SUBSET Blocks
      BY <1>1 DEF Sessions, Session
    <3>3. \A x, y \in Node : Noted(session[x][y].seenBlocks, task[a][t].block) \in SUBSET Blocks
      BY <3>1, <3>2, NotedType
    <3> QED BY <1>1, <1>11, <3>3 DEF AnnounceBlock, MarkBlock, Sessions
  <2>2. \A x, y \in Node : /\ session'[x][y].ready = session[x][y].ready
                           /\ session'[x][y].peerHeight = session[x][y].peerHeight
                           /\ session'[x][y].seenTxs = session[x][y].seenTxs
                           /\ session[x][y].peerHeight \in Nat
    <3> SUFFICES ASSUME NEW x \in Node, NEW y \in Node
                 PROVE  /\ session'[x][y].ready = session[x][y].ready
                        /\ session'[x][y].peerHeight = session[x][y].peerHeight
                        /\ session'[x][y].seenTxs = session[x][y].seenTxs
                        /\ session[x][y].peerHeight \in Nat
      OBVIOUS
    <3>1. session[x][y] \in Session
      BY <1>1 DEF Sessions
    <3>2. CASE session'[x][y] = session[x][y]
      BY <3>1, <3>2 DEF Session
    <3>3. ASSUME NEW seen \in SUBSET Blocks,
                 session'[x][y] = [session[x][y] EXCEPT !.seenBlocks = seen]
          PROVE  /\ session'[x][y].ready = session[x][y].ready
                 /\ session'[x][y].peerHeight = session[x][y].peerHeight
                 /\ session'[x][y].seenTxs = session[x][y].seenTxs
                 /\ session[x][y].peerHeight \in Nat
      BY <3>1, <3>3 DEF Session
    <3> QED BY <2>1, <3>2, <3>3
  <2>3. \A x, y \in Node : session'[x][y].peerHeight >= session[x][y].peerHeight
    BY <2>2
  <2> QED BY <1>11, <2>2, <2>3 DEF SessionsGo, NoTxMarked
<1>12. CASE AnnounceTransaction(a, t)
  <2>1. SameSessions
    BY <1>12, OtherSessions
  <2>2. \A x, y \in Node : session[x][y].peerHeight \in Nat
    BY DEF TypeOK, Session
  <2>3. \A x, y \in Node : session'[x][y].peerHeight >= session[x][y].peerHeight
    BY <2>1, <2>2 DEF SameSessions
  <2> QED BY <1>12, <2>1, <2>3 DEF SameSessions, SessionsGo, NoBlockMarked
<1>13. CASE session' = session
  BY <1>13, SessionsRest
<1> QED BY <1>5, <1>6, <1>7, <1>8, <1>9, <1>10, <1>11, <1>12, <1>13
    DEF ThreadStep, SendNext, SendStatus, HandlePing, HandleGetBlocks, HandleBlocks, Request,
        ServeBlock, ImportFrom, ImportBatch, FinishBatch

\* Only the loop over the targets ends what a thread sends.
LEMMA SendsOn ==
    ASSUME TypeOK, NEW a \in Node, NEW t \in Node, ThreadStep(a, t) \/ Tick(a, t), ~SendNext(a, t)
    PROVE  \A x, u \in Node : task[x][u].do = "send" => task'[x][u] = task[x][u]
<1>1. Idle.do = "idle" /\ Ask.do = "ask"
  BY DEF Idle, Ask
<1>2. task' = task \/ (task[a][t].do # "send" /\ \E next : Turn(a, t, next))
  <2>1. CASE AnnounceBlock(a, t) \/ AnnounceTransaction(a, t)
    BY <2>1 DEF AnnounceBlock, AnnounceTransaction
  <2>2. CASE AddPeer(a, t) \/ SendStatus(a, t) \/ Close(a, t) \/ Tick(a, t) \/ HandlePing(a, t)
               \/ HandlePong(a, t)
    BY <2>2 DEF AddPeer, SendStatus, Close, Tick, HandlePing, HandlePong
  <2>3. CASE HandleStatus(a, t) \/ HandleNewBlock(a, t) \/ HandleGetBlocks(a, t)
               \/ HandleBlocks(a, t) \/ HandleNewTransaction(a, t)
    BY <1>1, <2>3 DEF HandleStatus, HandleNewBlock, HandleGetBlocks, HandleBlocks,
                      HandleNewTransaction, Admit, Receiving
  <2>4. CASE Request(a, t) \/ ServeBlock(a, t) \/ ImportFrom(a, t) \/ ImportBatch(a, t)
               \/ FinishBatch(a, t)
    BY <1>1, <2>4 DEF Request, ServeBlock, ImportFrom, ImportBatch, FinishBatch
  <2> QED BY <2>1, <2>2, <2>3, <2>4 DEF ThreadStep
<1>3. ASSUME NEW next, Turn(a, t, next), NEW x \in Node, NEW u \in Node, ~(x = a /\ u = t)
      PROVE  task'[x][u] = task[x][u]
  BY <1>3 DEF Turn, TypeOK
<1> QED BY <1>2, <1>3

\* What has been sent stays on its way until it is read.
LEMMA LinesOn ==
    ASSUME TypeOK, GreetInv, NEW a \in Node, NEW t \in Node, ThreadStep(a, t) \/ Tick(a, t),
           NEW x \in Node, NEW y \in Node, {x, y} \notin cut',
           NEW m \in Range(chan[x][y]), m.type \in {"newBlock", "newTx"}
    PROVE  \/ m \in Range(chan'[x][y])
           \/ /\ x = t /\ y = a /\ chan[t][a] # <<>> /\ m = Incoming(a, t)
              /\ HandleNewBlock(a, t) \/ HandleNewTransaction(a, t)
<1>1. chan \in Channels /\ head[a] \in Blocks
  BY DEF TypeOK, Channels
<1>2. ASSUME NEW p \in Node, NEW z \in Message, chan' = Sent(chan, a, p, z)
      PROVE  m \in Range(chan'[x][y])
  BY <1>1, <1>2, SentKeeps
<1>3. CASE chan' = chan
  BY <1>3
<1>4. CASE SendStatus(a, t)
  <2>1. Status(a) \in Message
    BY <1>1, MessagesMade, ProtocolAssumption DEF Status
  <2> QED BY <1>2, <1>4, <2>1 DEF SendStatus
<1>5. CASE Tick(a, t)
  <2>1. pings[a] \in Nat
    BY DEF TypeOK
  <2>2. pings[a] + 1 \in Nat
    BY <2>1
  <2>3. Ping(pings[a] + 1) \in Message
    BY <2>2, MessagesMade
  <2> QED BY <1>2, <1>5, <2>3 DEF Tick
<1>6. CASE Request(a, t) \/ ServeBlock(a, t) \/ ImportFrom(a, t) \/ ImportBatch(a, t)
             \/ FinishBatch(a, t)
  BY <1>2, <1>3, <1>6, ReaderSends
<1>7. CASE SendNext(a, t)
  <2>1. task[a][t].do = "send" /\ task[a][t] \in Task
    BY <1>7 DEF SendNext, TypeOK
  <2>2. task[a][t].message \in Message /\ task[a][t].to \subseteq Node
    BY <2>1, TasksAre
  <2>3. \E p \in task[a][t].to : chan' = Sent(chan, a, p, task[a][t].message)
    BY <1>7 DEF SendNext
  <2> QED BY <1>2, <2>2, <2>3
<1>8. CASE Close(a, t)
  <2>1. {a, t} \in cut' /\ chan' = [chan EXCEPT ![t][a] = <<>>] /\ {t, a} = {a, t}
    BY <1>8 DEF Close
  <2>2. ~(x = t /\ y = a)
    BY <2>1
  <2>3. chan'[x][y] = chan[x][y]
    BY <2>1, <2>2 DEF TypeOK
  <2> QED BY <2>3
<1>9. ASSUME chan[t][a] # <<>>, m # Incoming(a, t) \/ ~(x = t /\ y = a)
      PROVE  m \in Range(Consumed(a, t)[x][y])
  <2>1. CASE ~(x = t /\ y = a)
    <3>1. Consumed(a, t)[x][y] = chan[x][y]
      BY <1>1, <1>9, <2>1, ConsumedIs
    <3> QED BY <3>1
  <2>2. CASE m # Incoming(a, t)
    BY <1>1, <1>9, <2>2, ConsumedKeeps
  <2> QED BY <1>9, <2>1, <2>2
<1>10. CASE HandleStatus(a, t) \/ HandleGetBlocks(a, t) \/ HandleBlocks(a, t) \/ HandlePong(a, t)
  <2>1. chan[t][a] # <<>> /\ chan' = Consumed(a, t) /\ m # Incoming(a, t)
    BY <1>10 DEF HandleStatus, HandleGetBlocks, HandleBlocks, HandlePong, Receiving
  <2> QED BY <1>9, <2>1
<1>11. CASE HandlePing(a, t)
  <2>1. /\ chan[t][a] # <<>> /\ Incoming(a, t).type = "ping"
        /\ chan' = Sent(Consumed(a, t), a, t, Pong(Incoming(a, t).nonce))
    BY <1>11 DEF HandlePing, Receiving
  <2>2. Consumed(a, t) \in Channels /\ Incoming(a, t) \in Message
    BY <1>1, <2>1, ConsumedIs
  <2>3. Pong(Incoming(a, t).nonce) \in Message
    BY <2>1, <2>2, MessagesAre, MessagesMade
  <2>4. m \in Range(Consumed(a, t)[x][y])
    BY <1>9, <2>1
  <2> QED BY <2>1, <2>2, <2>3, <2>4, SentKeeps
<1>12. CASE HandleNewBlock(a, t) \/ HandleNewTransaction(a, t)
  <2>1. chan[t][a] # <<>> /\ chan' = Consumed(a, t)
    BY <1>12 DEF HandleNewBlock, HandleNewTransaction, Receiving
  <2> QED BY <1>9, <1>12, <2>1
<1>13. CASE AddPeer(a, t) \/ AnnounceBlock(a, t) \/ AnnounceTransaction(a, t)
  BY <1>3, <1>13 DEF AddPeer, AnnounceBlock, AnnounceTransaction
<1> QED BY <1>4, <1>5, <1>6, <1>7, <1>8, <1>10, <1>11, <1>12, <1>13 DEF ThreadStep

LEMMA ThreadBrings ==
    ASSUME TypeOK, GreetInv, NEW a \in Node, NEW t \in Node, ThreadStep(a, t) \/ Tick(a, t),
           NEW x \in Node, NEW y \in Node, {x, y} \notin cut',
           NEW m, m.type \in {"newBlock", "newTx"}, Coming(x, y, m)
    PROVE  \/ Coming(x, y, m)'
           \/ /\ x = t /\ y = a /\ chan[t][a] # <<>> /\ m = Incoming(a, t)
              /\ HandleNewBlock(a, t) \/ HandleNewTransaction(a, t)
<1>1. CASE m \in Range(chan[x][y])
  BY <1>1, LinesOn DEF Coming
<1>2. ASSUME NEW u \in Node, task[x][u].do = "send", y \in task[x][u].to, task[x][u].message = m
      PROVE  Coming(x, y, m)'
  <2>1. CASE task'[x][u] = task[x][u]
    BY <1>2, <2>1 DEF Coming
  <2>2. CASE SendNext(a, t) /\ x = a /\ u = t
    <3> DEFINE k == task[a][t]
    <3>1. PICK p \in k.to : /\ chan' = Sent(chan, a, p, k.message)
                            /\ Turn(a, t, Send(k.to \ {p}, k.message, k.then))
      BY <2>2 DEF SendNext
    <3>2. k \in Task /\ chan \in Channels /\ task \in [Node -> [Node -> Task]] /\ cut' = cut
      BY <2>2 DEF TypeOK, Channels, SendNext, netVars
    <3> HIDE DEF k
    <3>3. k.do = "send" /\ y \in k.to /\ k.message = m
      BY <1>2, <2>2 DEF k
    <3>4. k.to \subseteq Node /\ k.message \in Message /\ k.then \in SimpleTask
      BY <3>2, <3>3, TasksAre
    <3>5. CASE y = p
      <4>1. m \in Range(chan'[x][y])
        BY <2>2, <3>1, <3>2, <3>3, <3>4, <3>5, SentKeeps
      <4> QED BY <4>1 DEF Coming
    <3>6. CASE y # p
      <4> DEFINE next == Send(k.to \ {p}, k.message, k.then)
      <4>1. k.to \ {p} \in SUBSET Node /\ y \in k.to \ {p}
        BY <3>3, <3>4, <3>6
      <4>2. next \in Task /\ next.do = "send" /\ next.to = k.to \ {p} /\ next.message = m
        BY <3>3, <3>4, <4>1, OtherTasks, SendIs
      <4>3. Turn(a, t, next)
        BY <3>1
      <4> HIDE DEF next
      <4>4. task'[a][t] = next
        BY <3>2, <4>2, <4>3, TurnIs
      <4> QED BY <2>2, <4>1, <4>2, <4>4 DEF Coming
    <3> QED BY <3>5, <3>6
  <2>3. CASE ~SendNext(a, t)
    BY <1>2, <2>1, <2>3, SendsOn
  <2>4. CASE SendNext(a, t) /\ ~(x = a /\ u = t)
    <3>1. \E next : Turn(a, t, next)
      BY <2>4 DEF SendNext
    <3>2. task'[x][u] = task[x][u]
      BY <2>4, <3>1 DEF Turn, TypeOK
    <3> QED BY <2>1, <3>2
  <2> QED BY <2>2, <2>3, <2>4
<1> QED BY <1>1, <1>2 DEF Coming

\* What the other steps leave: nothing is read, marked or forgotten.
LEMMA OtherBrings ==
    ASSUME TypeOK, NEW a \in Node, NEW t \in Node,
           \/ Lose(a, t) \/ ImportFails(a, t)
           \/ a = t /\ \E b \in Blocks : Mine(a, b)
           \/ a = t /\ \E tx \in Txs : SubmitTransaction(a, tx)
    PROVE  /\ \A x, y, m : x \in Node /\ Coming(x, y, m) => Coming(x, y, m)'
           /\ session' = session /\ cut \subseteq cut'
<1>1. session' = session /\ chan' = chan /\ cut \subseteq cut'
  BY DEF Lose, ImportFails, Mine, SubmitTransaction, netVars
<1>2. Idle.do = "idle"
  BY DEF Idle
<1>3. task' = task \/ (task[a][t].do # "send" /\ \E next : Turn(a, t, next))
  <2>1. CASE Lose(a, t)
    BY <2>1 DEF Lose
  <2>2. CASE ImportFails(a, t)
    BY <2>2 DEF ImportFails
  <2>3. CASE a = t /\ \E b \in Blocks : Mine(a, b)
    BY <1>2, <2>3 DEF Mine
  <2>4. CASE a = t /\ \E tx \in Txs : SubmitTransaction(a, tx)
    BY <1>2, <2>4 DEF SubmitTransaction, Admit
  <2> QED BY <2>1, <2>2, <2>3, <2>4
<1>4. \A x, u \in Node : task[x][u].do = "send" => task'[x][u] = task[x][u]
  <2>1. ASSUME NEW next, Turn(a, t, next), NEW x \in Node, NEW u \in Node, ~(x = a /\ u = t)
        PROVE  task'[x][u] = task[x][u]
    BY <2>1 DEF Turn, TypeOK
  <2> QED BY <1>3, <2>1
<1>5. \A x, y, m : x \in Node /\ Coming(x, y, m) => Coming(x, y, m)'
  BY <1>1, <1>4 DEF Coming
<1> QED BY <1>1, <1>5

LEMMA CutsGrow ==
    ASSUME NEW a \in Node, NEW t \in Node, ThreadStep(a, t) \/ Tick(a, t)
    PROVE  cut \subseteq cut'
BY DEF ThreadStep, Tick, SendNext, AnnounceBlock, AnnounceTransaction, AddPeer, SendStatus, Close,
       HandleStatus, HandlePing, HandlePong, HandleNewBlock, HandleGetBlocks, HandleBlocks,
       HandleNewTransaction, Request, ServeBlock, ImportFrom, ImportBatch, FinishBatch, Drop, netVars

\* A block that comes is marked, and its sender known to be as high.
LEMMA NewBlockSets ==
    ASSUME TypeOK, HonestInv, GreetInv, NEW a \in Node, NEW t \in Node, HandleNewBlock(a, t),
           {a, t} \notin cut, NEW b, b = Incoming(a, t).block
    PROVE  /\ b \in Blocks /\ b \in known[t]
           /\ \A x, y \in Node : ~(x = a /\ y = t) => session'[x][y] = session[x][y]
           /\ session'[a][t].ready /\ session'[a][t].peerHeight >= Height[b]
           /\ session'[a][t].seenBlocks \subseteq session[a][t].seenBlocks \cup {b}
<1> DEFINE s == session[a][t]
           h == IF Height[b] > s.peerHeight THEN Height[b] ELSE s.peerHeight
           seen == Noted(s.seenBlocks, b)
           z == [s EXCEPT !.seenBlocks = seen, !.peerHeight = h]
<1>1. /\ chan[t][a] # <<>> /\ link[a][t] = "open" /\ Incoming(a, t).type = "newBlock"
      /\ s.ready => session' = [session EXCEPT ![a][t] = z]
  BY DEF HandleNewBlock, Receiving
<1>2. chan \in Channels /\ s \in Session
  BY DEF TypeOK, Channels
<1>3. Incoming(a, t) \in Message /\ Incoming(a, t) \in Range(chan[t][a])
  BY <1>1, <1>2, ConsumedIs, ConsumedWas
<1>4. b \in Blocks /\ b \in known[t]
  BY <1>1, <1>3, MessagesAre DEF HonestInv, ChanInv, Told
<1>5. s.ready /\ session' = [session EXCEPT ![a][t] = z]
  <2>1. s.ready \in BOOLEAN
    BY <1>2 DEF Session
  <2> QED BY <1>1, <2>1, TalkIsReady
<1>6. h \in Nat /\ h >= Height[b] /\ seen \in SUBSET Blocks /\ seen \subseteq s.seenBlocks \cup {b}
  <2>1. Height[b] \in Nat /\ s.peerHeight \in Nat /\ s.seenBlocks \in SUBSET Blocks
    BY <1>2, <1>4, ProtocolAssumption DEF Session
  <2> QED BY <1>4, <2>1, NotedIn, NotedType
<1> HIDE DEF h, seen
<1>7. z \in Session /\ z.ready = s.ready /\ z.peerHeight = h /\ z.seenBlocks = seen
  BY <1>2, <1>6, SessionFields DEF Session
<1> HIDE DEF z
<1>8. \A x, y \in Node : session'[x][y] = IF x = a /\ y = t THEN z ELSE session[x][y]
  BY <1>5, <1>7, SessionSet
<1>9. session'[a][t] = z
  BY <1>8
<1>10. \A x, y \in Node : ~(x = a /\ y = t) => session'[x][y] = session[x][y]
  BY <1>8
<1>11. z.ready /\ z.peerHeight >= Height[b] /\ z.seenBlocks \subseteq session[a][t].seenBlocks \cup {b}
  BY <1>5, <1>6, <1>7
<1> QED BY <1>4, <1>9, <1>10, <1>11

\* Announcing marks the targets, and is about to send to them.
LEMMA AnnouncedComes ==
    ASSUME TypeOK, NEW a \in Node, NEW t \in Node, AnnounceBlock(a, t),
           NEW x \in Node, NEW y \in Node,
           NEW b \in session'[x][y].seenBlocks, b \notin session[x][y].seenBlocks
    PROVE  Coming(x, y, NewBlock(b))'
<1> DEFINE k == task[a][t]
           c == k.block
           targets == {p \in Ready(a) : c \notin session[a][p].seenBlocks}
           next == Send(targets, NewBlock(c), k.then)
<1>1. k.do = "announce" /\ MarkBlock(a, targets, c) /\ Turn(a, t, next)
  BY DEF AnnounceBlock
<1>2. k \in Task /\ session \in Sessions /\ task \in [Node -> [Node -> Task]]
  BY DEF TypeOK, Sessions
<1> HIDE DEF k
<1>3. c \in Blocks /\ k.then \in SimpleTask /\ targets \in SUBSET Node
  BY <1>1, <1>2, TasksAre DEF Ready
<1> HIDE DEF targets
<1>4. /\ x = a /\ y \in targets
      /\ session'[x][y] = [session[x][y] EXCEPT !.seenBlocks = Noted(session[x][y].seenBlocks, c)]
  BY <1>1, <1>2 DEF MarkBlock, Sessions
<1>5. b = c
  <2>1. session[x][y] \in Session
    BY <1>2 DEF Sessions
  <2>2. session'[x][y].seenBlocks = Noted(session[x][y].seenBlocks, c)
    BY <1>4, <2>1 DEF Session
  <2> QED BY <2>2, NotedIn
<1>6. NewBlock(c) \in Message
  BY <1>3, MessagesMade
<1>7. next \in Task /\ next.do = "send" /\ next.to = targets /\ next.message = NewBlock(c)
  BY <1>3, <1>4, <1>6, OtherTasks, SendIs
<1> HIDE DEF next
<1>8. task'[a][t] = next
  BY <1>1, <1>2, <1>7, TurnIs
<1> QED BY <1>4, <1>5, <1>7, <1>8 DEF Coming

LEMMA BlocksMarked ==
    ASSUME TypeOK, TypeOK', HonestInv, GreetInv, BlockMarks, Rises,
           NEW a \in Node, NEW t \in Node, ThreadStep(a, t) \/ Tick(a, t)
    PROVE  BlockMarks'
<1> SUFFICES ASSUME NEW x \in Node, NEW y \in Node, {x, y} \notin cut',
                    NEW b \in session'[x][y].seenBlocks
             PROVE  \/ b \in known'[y]
                    \/ session'[y][x].ready /\ session'[y][x].peerHeight >= Height[b]
                    \/ Coming(x, y, NewBlock(b))'
  BY DEF BlockMarks
<1>1. {y, x} = {x, y} /\ cut \subseteq cut'
  BY CutsGrow
<1>2. known[y] \subseteq known'[y]
  BY DEF Rises
<1>3. NewBlock(b).type = "newBlock" /\ NewBlock(b).block = b
  BY DEF NewBlock
<1>4. CASE b \in session[x][y].seenBlocks
  <2>1. CASE b \in known[y]
    BY <1>2, <2>1
  <2>2. CASE session[y][x].ready /\ session[y][x].peerHeight >= Height[b]
    <3>1. /\ session'[y][x].ready
          /\ session'[y][x].peerHeight >= session[y][x].peerHeight
      BY <1>1, <2>2, ThreadMarks DEF SessionsGo
    <3>2. b \in Blocks /\ session[y][x].peerHeight \in Nat /\ session'[y][x].peerHeight \in Nat
      <4>1. session[x][y] \in Session /\ session[y][x] \in Session /\ session'[y][x] \in Session
        BY DEF TypeOK
      <4> QED BY <1>4, <4>1 DEF Session
    <3>3. Height[b] \in Nat
      BY <3>2, ProtocolAssumption
    <3> QED BY <2>2, <3>1, <3>2, <3>3
  <2>3. CASE Coming(x, y, NewBlock(b))
    <3>1. \/ Coming(x, y, NewBlock(b))'
          \/ /\ x = t /\ y = a /\ NewBlock(b) = Incoming(a, t)
             /\ HandleNewBlock(a, t) \/ HandleNewTransaction(a, t)
      BY <1>3, <2>3, ThreadBrings
    <3>2. CASE x = t /\ y = a /\ NewBlock(b) = Incoming(a, t) /\ HandleNewBlock(a, t)
      BY <1>1, <1>3, <3>2, NewBlockSets
    <3>3. CASE NewBlock(b) = Incoming(a, t) /\ HandleNewTransaction(a, t)
      BY <1>3, <3>3 DEF HandleNewTransaction, Receiving
    <3> QED BY <3>1, <3>2, <3>3
  <2> QED BY <1>1, <1>4, <2>1, <2>2, <2>3 DEF BlockMarks
<1>5. CASE b \notin session[x][y].seenBlocks
  <2>1. HandleNewBlock(a, t) \/ AnnounceBlock(a, t)
    BY <1>5, ThreadMarks DEF NoBlockMarked
  <2>2. CASE AnnounceBlock(a, t)
    BY <1>5, <2>2, AnnouncedComes
  <2>3. CASE HandleNewBlock(a, t)
    <3>1. CASE {a, t} \notin cut
      <4>1. x = a /\ y = t /\ b = Incoming(a, t).block
        BY <1>5, <2>3, <3>1, NewBlockSets
      <4> QED BY <1>2, <2>3, <3>1, <4>1, NewBlockSets
    <3>2. CASE {a, t} \in cut
      <4>1. ~(x = a /\ y = t)
        BY <1>1, <3>2
      <4>2. session' = session \/ \E z : session' = [session EXCEPT ![a][t] = z]
        BY <2>3 DEF HandleNewBlock
      <4>3. session'[x][y] = session[x][y]
        <5>1. ASSUME NEW z, session' = [session EXCEPT ![a][t] = z]
              PROVE  session'[x][y] = session[x][y]
          BY <4>1, <5>1 DEF TypeOK
        <5> QED BY <4>2, <5>1
      <4> QED BY <1>5, <4>3
    <3> QED BY <3>1, <3>2
  <2> QED BY <2>1, <2>2, <2>3
<1> QED BY <1>4, <1>5

Admits == \A x \in Node : admitted[x] \subseteq admitted'[x]

LEMMA OnlyAdmits ==
    ASSUME TypeOK, [Next]_vars PROVE Admits
<1>1. admitted \in [Node -> SUBSET Txs]
  BY DEF TypeOK
<1>2. ASSUME NEW n \in Node, NEW tx, admitted' = [admitted EXCEPT ![n] = @ \cup {tx}] PROVE Admits
  BY <1>1, <1>2 DEF Admits
<1>3. ASSUME NEW n \in Node, NEW t \in Node, NEW tx, Admit(n, t, tx) PROVE Admits
  BY <1>2, <1>3 DEF Admit, Admits
<1>4. CASE admitted' = admitted
  BY <1>4 DEF Admits
<1>5. ASSUME NEW n \in Node, NEW t \in Node, ThreadStep(n, t) PROVE Admits
  <2>1. CASE HandleNewTransaction(n, t)
    BY <1>3, <1>4, <2>1 DEF HandleNewTransaction
  <2>2. CASE ~HandleNewTransaction(n, t)
    BY <1>4, <1>5, <2>2
    DEF ThreadStep, AnnounceBlock, AnnounceTransaction, SendNext, AddPeer, SendStatus, Close,
        HandleStatus, HandlePing, HandlePong, HandleNewBlock, HandleGetBlocks, HandleBlocks,
        Request, ServeBlock, ImportFrom, ImportBatch, FinishBatch
  <2> QED BY <2>1, <2>2
<1>6. CASE \E n, p \in Node : Tick(n, p) \/ Lose(n, p) \/ ImportFails(n, p)
  BY <1>4, <1>6 DEF Tick, Lose, ImportFails
<1>7. CASE \E n \in Node : \/ \E b \in Blocks : Mine(n, b)
                          \/ \E tx \in Txs : SubmitTransaction(n, tx)
  BY <1>3, <1>4, <1>7 DEF Mine, SubmitTransaction
<1>8. UNCHANGED vars => admitted' = admitted
  BY DEF vars
<1> QED BY <1>4, <1>5, <1>6, <1>7, <1>8 DEF Next

\* What a step may say and take up of transactions.
SaysAdmitted ==
    \A x, y \in Node : \A m \in Range(chan'[x][y]) :
        m \in Range(chan[x][y]) \/ (m.type = "newTx" => m.tx \in admitted'[x])
PassesAdmitted(k, S) ==
    /\ Rest(k).do = "relay" => Rest(k).tx \in S
    /\ k.do = "send" /\ k.message.type = "newTx" => k.message.tx \in S

LEMMA TxFrame ==
    ASSUME TxInv, Admits, SaysAdmitted, NEW a \in Node, NEW t \in Node, NEW next, TypeOK,
           task' = task \/ (Turn(a, t, next) /\ PassesAdmitted(next, admitted'[a]))
    PROVE  TxInv'
<1>1. ASSUME NEW x \in Node, NEW y \in Node, NEW m \in Range(chan'[x][y]), m.type = "newTx"
      PROVE  m.tx \in admitted'[x]
  BY <1>1 DEF TxInv, Admits, SaysAdmitted
<1>2. \A x, y \in Node : task'[x][y] = task[x][y]
                         \/ (x = a /\ y = t /\ PassesAdmitted(task'[x][y], admitted'[x]))
  <2>1. CASE task' = task
    BY <2>1
  <2>2. CASE Turn(a, t, next) /\ PassesAdmitted(next, admitted'[a])
    <3>1. \A x, y \in Node : task'[x][y] = IF x = a /\ y = t THEN next ELSE task[x][y]
      BY <2>2 DEF Turn, TypeOK
    <3> QED BY <2>2, <3>1
  <2> QED BY <2>1, <2>2
<1>3. ASSUME NEW x \in Node, NEW y \in Node PROVE PassesAdmitted(task'[x][y], admitted'[x])
  <2>1. CASE task'[x][y] = task[x][y]
    BY <2>1 DEF TxInv, Admits, PassesAdmitted
  <2> QED BY <1>2, <2>1
<1> QED BY <1>1, <1>3 DEF TxInv, PassesAdmitted

LEMMA SentAdmitted ==
    ASSUME TypeOK, NEW a \in Node, NEW p \in Node, NEW m \in Message,
           m.type = "newTx" => m.tx \in admitted'[a],
           chan' = Sent(chan, a, p, m)
    PROVE  SaysAdmitted
<1>1. chan \in Channels
  BY DEF TypeOK, Channels
<1> QED BY <1>1, AppendedOnly DEF SaysAdmitted

LEMMA PassesOther ==
    ASSUME NEW S
    PROVE  /\ \A k \in SimpleTask : k.do # "relay" \/ k.tx \in S => PassesAdmitted(k, S)
           /\ \A n, b : \A k \in SimpleTask :
                k.do # "relay" \/ k.tx \in S => PassesAdmitted(Then(n, b, k), S)
           /\ \A to, m : \A k \in SimpleTask :
                (k.do # "relay" \/ k.tx \in S) /\ (m.type = "newTx" => m.tx \in S) =>
                    PassesAdmitted(Send(to, m, k), S)
<1>1. \A k \in SimpleTask : Rest(k) = k /\ k.do # "send"
  BY NotSends
<1>2. \A to, m : \A k \in SimpleTask :
         /\ Rest(Send(to, m, k)) = k
         /\ Send(to, m, k).do = "send" => Send(to, m, k).message = m
  BY SendIs
<1>3. \A n, b : \A k \in SimpleTask : Then(n, b, k).do # "send" /\ Rest(Then(n, b, k)) = k
  BY NotSends
<1> QED BY <1>1, <1>2, <1>3 DEF PassesAdmitted

LEMMA ThreadSays ==
    ASSUME TypeOK, TxInv, Admits, NEW a \in Node, NEW t \in Node, ThreadStep(a, t) \/ Tick(a, t)
    PROVE  SaysAdmitted
<1>1. chan \in Channels /\ head[a] \in Blocks /\ Range(<<>>) = {}
  BY DEF TypeOK, Channels, Range
<1>2. ASSUME NEW p \in Node, NEW z \in Message, z.type # "newTx", chan' = Sent(chan, a, p, z)
      PROVE  SaysAdmitted
  BY <1>2, SentAdmitted
<1>3. CASE chan' = chan
  BY <1>3 DEF SaysAdmitted
<1>4. CASE SendStatus(a, t)
  <2>1. Status(a) \in Message /\ Status(a).type = "status"
    BY <1>1, MessagesMade, ProtocolAssumption DEF Status
  <2> QED BY <1>2, <1>4, <2>1 DEF SendStatus
<1>5. CASE Tick(a, t)
  <2>1. pings[a] \in Nat
    BY DEF TypeOK
  <2>2. pings[a] + 1 \in Nat
    BY <2>1
  <2>3. Ping(pings[a] + 1) \in Message /\ Ping(pings[a] + 1).type = "ping"
    BY <2>2, MessagesMade, PingKinds
  <2> QED BY <1>2, <1>5, <2>3 DEF Tick
<1>6. CASE Request(a, t) \/ ServeBlock(a, t) \/ ImportFrom(a, t) \/ ImportBatch(a, t)
             \/ FinishBatch(a, t)
  BY <1>2, <1>3, <1>6, ReaderSends
<1>7. CASE SendNext(a, t)
  <2>1. task[a][t].do = "send" /\ task[a][t] \in Task
    BY <1>7 DEF SendNext, TypeOK
  <2>2. task[a][t].message \in Message /\ task[a][t].to \subseteq Node
    BY <2>1, TasksAre
  <2>3. task[a][t].message.type = "newTx" => task[a][t].message.tx \in admitted'[a]
    BY <2>1 DEF TxInv, Admits
  <2>4. \E p \in task[a][t].to : chan' = Sent(chan, a, p, task[a][t].message)
    BY <1>7 DEF SendNext
  <2> QED BY <2>2, <2>3, <2>4, SentAdmitted
<1>8. CASE Close(a, t)
  <2>1. chan' = [chan EXCEPT ![t][a] = <<>>]
    BY <1>8 DEF Close
  <2>2. \A x, y \in Node : chan'[x][y] \in {chan[x][y], <<>>}
    BY <2>1 DEF TypeOK
  <2> QED BY <1>1, <2>2 DEF SaysAdmitted
<1>9. ASSUME chan[t][a] # <<>>
      PROVE  /\ Consumed(a, t) \in Channels /\ Incoming(a, t) \in Message
             /\ \A x, y \in Node : Range(Consumed(a, t)[x][y]) \subseteq Range(chan[x][y])
  BY <1>1, <1>9, ConsumedIs, ConsumedWas
<1>10. CASE HandleStatus(a, t) \/ HandleGetBlocks(a, t) \/ HandleBlocks(a, t) \/ HandlePong(a, t)
              \/ HandleNewBlock(a, t) \/ HandleNewTransaction(a, t)
  <2>1. chan[t][a] # <<>> /\ chan' = Consumed(a, t)
    BY <1>10 DEF HandleStatus, HandleGetBlocks, HandleBlocks, HandlePong, HandleNewBlock,
                 HandleNewTransaction, Receiving
  <2> QED BY <1>9, <2>1 DEF SaysAdmitted
<1>11. CASE HandlePing(a, t)
  <2> DEFINE z == Pong(Incoming(a, t).nonce)
  <2>1. /\ chan[t][a] # <<>> /\ Incoming(a, t).type = "ping"
        /\ chan' = Sent(Consumed(a, t), a, t, z)
    BY <1>11 DEF HandlePing, Receiving
  <2>2. z \in Message /\ z.type = "pong"
    BY <1>9, <2>1, MessagesAre, MessagesMade, PingKinds
  <2> HIDE DEF z
  <2>3. \A x, y \in Node : \A m \in Range(chan'[x][y]) :
           m = z \/ m \in Range(Consumed(a, t)[x][y])
    BY <1>9, <2>1, <2>2, AppendedOnly
  <2> QED BY <1>9, <2>1, <2>2, <2>3 DEF SaysAdmitted
<1>13. CASE AddPeer(a, t) \/ AnnounceBlock(a, t) \/ AnnounceTransaction(a, t)
  BY <1>3, <1>13 DEF AddPeer, AnnounceBlock, AnnounceTransaction
<1> QED BY <1>4, <1>5, <1>6, <1>7, <1>8, <1>10, <1>11, <1>13 DEF ThreadStep

\* A handler goes on to no transaction but one it has admitted.
LEMMA HandlersPass ==
    ASSUME NEW S
    PROVE  /\ PassesAdmitted(Idle, S) /\ PassesAdmitted(Ask, S)
           /\ \A h, bs : PassesAdmitted(Serve(h, bs), S)
           /\ \A bs, i, some : PassesAdmitted(Batch(bs, i, some), S)
           /\ \A b : PassesAdmitted(Single(b), S)
           /\ \A tx \in S : PassesAdmitted(Relay(tx), S)
           /\ \A n, b : PassesAdmitted(Then(n, b, Idle), S) /\ PassesAdmitted(Then(n, b, Ask), S)
           /\ \A n, b, bs, i, some : PassesAdmitted(Then(n, b, Batch(bs, i, some)), S)
<1>1. \A k : k.do \notin {"announce", "send", "relay"} => PassesAdmitted(k, S)
  BY DEF PassesAdmitted, Rest
<1>2. Idle.do = "idle" /\ Ask.do = "ask"
  BY DEF Idle, Ask
<1>3. \A h, bs : Serve(h, bs).do = "serve"
  BY DEF Serve
<1>4. \A bs, i, some : Batch(bs, i, some).do = "batch"
  BY DEF Batch
<1>5. \A b : Single(b).do = "single"
  BY DEF Single
<1>6. \A tx \in S : PassesAdmitted(Relay(tx), S)
  BY DEF PassesAdmitted, Rest, Relay
<1>7. \A b, k : k.do \notin {"announce", "send", "relay"} => PassesAdmitted(Announce(b, k), S)
  <2>1. \A b, k : Announce(b, k).do = "announce" /\ Announce(b, k).then = k
    BY DEF Announce
  <2> QED BY <2>1 DEF PassesAdmitted, Rest
<1>8. \A n, b, k : k.do \notin {"announce", "send", "relay"} => PassesAdmitted(Then(n, b, k), S)
  BY <1>1, <1>7 DEF Then
<1>9. PassesAdmitted(Idle, S) /\ PassesAdmitted(Ask, S)
  BY <1>1, <1>2
<1>10. \A n, b : PassesAdmitted(Then(n, b, Idle), S) /\ PassesAdmitted(Then(n, b, Ask), S)
  BY <1>2, <1>8
<1>11. \A n, b, bs, i, some : PassesAdmitted(Then(n, b, Batch(bs, i, some)), S)
  BY <1>4, <1>8
<1>12. /\ \A h, bs : PassesAdmitted(Serve(h, bs), S)
       /\ \A bs, i, some : PassesAdmitted(Batch(bs, i, some), S)
       /\ \A b : PassesAdmitted(Single(b), S)
  BY <1>1, <1>3, <1>4, <1>5
<1> QED BY <1>6, <1>9, <1>10, <1>11, <1>12

LEMMA ThreadPasses ==
    ASSUME TypeOK, TxInv, Admits, NEW a \in Node, NEW t \in Node, ThreadStep(a, t) \/ Tick(a, t)
    PROVE  task' = task \/ \E next : Turn(a, t, next) /\ PassesAdmitted(next, admitted'[a])
<1> DEFINE k == task[a][t]
           S == admitted'[a]
           Passes == \E next : Turn(a, t, next) /\ PassesAdmitted(next, S)
<1>1. /\ k \in Task
      /\ Rest(k).do = "relay" => Rest(k).tx \in S
      /\ k.do = "send" /\ k.message.type = "newTx" => k.message.tx \in S
  BY DEF TypeOK, TxInv, Admits
<1>2. ASSUME NEW next, Turn(a, t, next), PassesAdmitted(next, S) PROVE Passes
  BY <1>2
<1>3. CASE AddPeer(a, t) \/ SendStatus(a, t) \/ Close(a, t) \/ Tick(a, t) \/ HandlePing(a, t)
             \/ HandlePong(a, t)
  BY <1>3 DEF AddPeer, SendStatus, Close, Tick, HandlePing, HandlePong
<1>4. CASE HandleStatus(a, t)
  BY <1>4, HandlersPass DEF HandleStatus
<1>5. CASE HandleNewBlock(a, t)
  BY <1>5, HandlersPass DEF HandleNewBlock
<1>6. CASE HandleGetBlocks(a, t)
  BY <1>6, HandlersPass DEF HandleGetBlocks
<1>7. CASE HandleBlocks(a, t)
  BY <1>7, HandlersPass DEF HandleBlocks
<1>8. CASE HandleNewTransaction(a, t)
  <2> DEFINE tx == Incoming(a, t).tx
  <2>1. task' = task \/ Admit(a, t, tx)
    BY <1>8 DEF HandleNewTransaction
  <2>2. task' = task \/ (Turn(a, t, Relay(tx)) /\ admitted' = [admitted EXCEPT ![a] = @ \cup {tx}])
    BY <2>1 DEF Admit
  <2>3. ASSUME Turn(a, t, Relay(tx)), admitted' = [admitted EXCEPT ![a] = @ \cup {tx}]
        PROVE  tx \in S
    BY <2>3 DEF TypeOK
  <2> HIDE DEF tx
  <2> QED BY <2>2, <2>3, HandlersPass
<1>9. CASE Request(a, t) \/ FinishBatch(a, t)
  BY <1>9, HandlersPass DEF Request, FinishBatch
<1>10. CASE ServeBlock(a, t)
  BY <1>10, HandlersPass DEF ServeBlock
<1>11. CASE ImportFrom(a, t)
  <2>1. \E b : Turn(a, t, Then(a, b, IF Outcome(a, b) = "orphaned" THEN Ask ELSE Idle))
    BY <1>11 DEF ImportFrom
  <2> HIDE DEF S
  <2> QED BY <2>1, HandlersPass
<1>12. CASE ImportBatch(a, t)
  <2>1. \/ Turn(a, t, Idle)
        \/ \E b, bs, i, some : Turn(a, t, Then(a, b, Batch(bs, i, some)))
    BY <1>12 DEF ImportBatch
  <2> HIDE DEF S
  <2> QED BY <2>1, HandlersPass
<1>13. CASE AnnounceBlock(a, t)
  <2>1. PICK targets : Turn(a, t, Send(targets, NewBlock(k.block), k.then))
    BY <1>13 DEF AnnounceBlock
  <2>2. k.do = "announce" /\ k.then \in SimpleTask /\ Rest(k) = k.then
    BY <1>1, <1>13, TasksAre DEF AnnounceBlock, Rest
  <2>3. NewBlock(k.block).type = "newBlock"
    BY DEF NewBlock
  <2> HIDE DEF k, S
  <2>4. PassesAdmitted(Send(targets, NewBlock(k.block), k.then), S)
    BY <1>1, <2>2, <2>3, PassesOther
  <2> QED BY <2>1, <2>4 DEF S, k
<1>14. CASE AnnounceTransaction(a, t)
  <2>1. PICK targets : Turn(a, t, Send(targets, NewTx(k.tx), Idle))
    BY <1>14 DEF AnnounceTransaction
  <2>2. k.do = "relay" /\ Rest(k) = k
    BY <1>14 DEF AnnounceTransaction, Rest
  <2>3. NewTx(k.tx).tx = k.tx /\ Idle \in SimpleTask /\ Idle.do = "idle"
    BY SimpleTasks DEF NewTx, Idle
  <2> HIDE DEF k, S
  <2>4. PassesAdmitted(Send(targets, NewTx(k.tx), Idle), S)
    BY <1>1, <2>2, <2>3, PassesOther
  <2> QED BY <2>1, <2>4 DEF S, k
<1>15. CASE SendNext(a, t)
  <2>1. PICK p \in k.to : Turn(a, t, Send(k.to \ {p}, k.message, k.then))
    BY <1>15 DEF SendNext
  <2>2. k.do = "send" /\ k.then \in SimpleTask /\ Rest(k) = k.then
    BY <1>1, <1>15, TasksAre DEF SendNext, Rest
  <2> HIDE DEF k, S
  <2>4. PassesAdmitted(Send(k.to \ {p}, k.message, k.then), S)
    BY <1>1, <2>2, PassesOther
  <2> QED BY <2>1, <2>4 DEF S, k
<1> QED BY <1>3, <1>4, <1>5, <1>6, <1>7, <1>8, <1>9, <1>10, <1>11, <1>12, <1>13, <1>14, <1>15
    DEF ThreadStep

LEMMA OthersPass ==
    ASSUME TypeOK, TxInv, Admits, NEW a \in Node, NEW t \in Node,
           \/ Lose(a, t) \/ ImportFails(a, t)
           \/ a = t /\ \E b \in Blocks : Mine(a, b)
           \/ a = t /\ \E tx \in Txs : SubmitTransaction(a, tx)
    PROVE  TxInv'
<1>1. chan' = chan
  BY DEF Lose, ImportFails, Mine, SubmitTransaction
<1>2. SaysAdmitted
  BY <1>1 DEF SaysAdmitted
<1>3. task' = task \/ \E next : Turn(a, t, next) /\ PassesAdmitted(next, admitted'[a])
  <2>1. CASE Lose(a, t)
    BY <2>1 DEF Lose
  <2>2. CASE ImportFails(a, t)
    BY <2>2, HandlersPass DEF ImportFails
  <2>3. CASE a = t /\ \E b \in Blocks : Mine(a, b)
    BY <2>3, HandlersPass DEF Mine
  <2>4. ASSUME a = t, NEW tx \in Txs, SubmitTransaction(a, tx)
        PROVE  task' = task \/ \E next : Turn(a, t, next) /\ PassesAdmitted(next, admitted'[a])
    <3>1. \/ task' = task
          \/ Turn(a, t, Relay(tx)) /\ admitted' = [admitted EXCEPT ![a] = @ \cup {tx}]
      BY <2>4 DEF SubmitTransaction, Admit
    <3>2. admitted' = [admitted EXCEPT ![a] = @ \cup {tx}] => tx \in admitted'[a]
      BY DEF TypeOK
    <3> QED BY <3>1, <3>2, HandlersPass
  <2> QED BY <2>1, <2>2, <2>3, <2>4
<1> QED BY <1>2, <1>3, TxFrame

LEMMA TxAlways == Spec => []TxInv
<1>1. Init => TxInv
  <2>1. Idle.do = "idle" /\ Rest(Idle) = Idle /\ Range(<<>>) = {}
    BY DEF Idle, Rest, Range
  <2> QED BY <2>1 DEF Init, TxInv
<1>2. TypeOK /\ TxInv /\ [Next]_vars => TxInv'
  <2> SUFFICES ASSUME TypeOK, TxInv, [Next]_vars PROVE TxInv'
    OBVIOUS
  <2>1. Admits
    BY OnlyAdmits
  <2>2. ASSUME NEW n \in Node, NEW t \in Node, ThreadStep(n, t) \/ Tick(n, t) PROVE TxInv'
    <3>1. SaysAdmitted
      BY <2>1, <2>2, ThreadSays
    <3>2. task' = task \/ \E next : Turn(n, t, next) /\ PassesAdmitted(next, admitted'[n])
      BY <2>1, <2>2, ThreadPasses
    <3> QED BY <2>1, <3>1, <3>2, TxFrame
  <2>3. CASE \E n, p \in Node : Lose(n, p) \/ ImportFails(n, p)
    BY <2>1, <2>3, OthersPass
  <2>4. CASE \E n \in Node : \/ \E b \in Blocks : Mine(n, b)
                            \/ \E tx \in Txs : SubmitTransaction(n, tx)
    BY <2>1, <2>4, OthersPass
  <2>5. CASE UNCHANGED vars
    BY <2>5 DEF vars, TxInv
  <2> QED BY <2>2, <2>3, <2>4, <2>5 DEF Next
<1> QED BY <1>1, <1>2, TypeCorrect, PTL DEF Spec

\* A node's genesis block stays.
GenesisStays == \A x \in Node : Genesis(x)' = Genesis(x)

LEMMA StepGrows ==
    ASSUME TypeOK, HonestInv, [Next]_vars PROVE GenesisStays
<1>1. UNCHANGED <<known, head>> \/ \E n \in Node, b \in Blocks : Imported(n, b)
  BY OnlyImports DEF vars
<1>2. CASE UNCHANGED <<known, head>>
  BY <1>2, SameChains DEF HonestInv, Grows, GenesisStays
<1>3. ASSUME NEW n \in Node, NEW b \in Blocks, Imported(n, b) PROVE GenesisStays
  BY <1>3, ImportGrows DEF HonestInv, Grows, GenesisStays
<1> QED BY <1>1, <1>2, <1>3

\* A transaction that comes is in its sender's pool, is marked, and enters the pool
\* of the node if it is valid whatever the head.
LEMMA NewTxSets ==
    ASSUME TypeOK, HonestInv, GreetInv, TxInv, NEW a \in Node, NEW t \in Node,
           HandleNewTransaction(a, t), {a, t} \notin cut, NEW tx, tx = Incoming(a, t).tx
    PROVE  /\ tx \in Txs /\ tx \in admitted[t]
           /\ \A x, y \in Node : ~(x = a /\ y = t) => session'[x][y] = session[x][y]
           /\ session'[a][t].seenTxs \subseteq session[a][t].seenTxs \cup {tx}
           /\ ValidThere(a, tx) => tx \in admitted'[a]
<1> DEFINE s == session[a][t]
           seen == Noted(s.seenTxs, tx)
           z == [s EXCEPT !.seenTxs = seen]
<1>1. /\ chan[t][a] # <<>> /\ link[a][t] = "open" /\ Incoming(a, t).type = "newTx"
      /\ s.ready => session' = [session EXCEPT ![a][t] = z] /\ Admit(a, t, tx)
  BY DEF HandleNewTransaction, Receiving
<1>2. chan \in Channels /\ s \in Session /\ s.ready \in BOOLEAN
  BY DEF TypeOK, Channels, Session
<1>3. Incoming(a, t) \in Message /\ Incoming(a, t) \in Range(chan[t][a])
  BY <1>1, <1>2, ConsumedIs, ConsumedWas
<1>4. tx \in Txs /\ tx \in admitted[t]
  BY <1>1, <1>3, MessagesAre DEF TxInv
<1>5. Admit(a, t, tx)
  BY <1>1, <1>2, TalkIsReady
<1>5a. session' = [session EXCEPT ![a][t] = z]
  BY <1>1, <1>2, TalkIsReady
<1>6. seen \in SUBSET Txs /\ seen \subseteq s.seenTxs \cup {tx}
  BY <1>2, <1>4, NotedIn, NotedType DEF Session
<1> HIDE DEF seen
<1>7. z \in Session /\ z.seenTxs = seen
  BY <1>2, <1>6, SessionFields DEF Session
<1> HIDE DEF z
<1>8. \A x, y \in Node : session'[x][y] = IF x = a /\ y = t THEN z ELSE session[x][y]
  <2>1. ASSUME NEW w, session' = [session EXCEPT ![a][t] = w], NEW x \in Node, NEW y \in Node
        PROVE  session'[x][y] = IF x = a /\ y = t THEN w ELSE session[x][y]
    BY <2>1 DEF TypeOK
  <2> QED BY <1>5a, <2>1
<1>9. session'[a][t] = z
  BY <1>8
<1>10. \A x, y \in Node : ~(x = a /\ y = t) => session'[x][y] = session[x][y]
  BY <1>8
<1>11. z.seenTxs \subseteq session[a][t].seenTxs \cup {tx}
  BY <1>6, <1>7
<1>12. ASSUME ValidThere(a, tx) PROVE tx \in admitted'[a]
  <2>1. head[a] \in Blocks /\ head[a] \in known[a] /\ known[a] \in SUBSET Blocks
    BY DEF TypeOK
  <2>2. Rooted(known[a], Accepts[a], Genesis(a))
    BY DEF HonestInv, ChainInv
  <2>3. Genesis(a) \in Ancestry[head[a]]
    BY <2>1, <2>2, RootedRoot
  <2>4. tx \in ValidOn[head[a]]
    BY <1>12, <2>1, <2>3 DEF ValidThere
  <2> QED BY <1>5, <2>4 DEF Admit, TypeOK
<1> QED BY <1>4, <1>9, <1>10, <1>11, <1>12

\* Relaying marks the targets, and is about to send to them.
LEMMA RelayedComes ==
    ASSUME TypeOK, NEW a \in Node, NEW t \in Node, AnnounceTransaction(a, t),
           NEW x \in Node, NEW y \in Node,
           NEW tx \in session'[x][y].seenTxs, tx \notin session[x][y].seenTxs
    PROVE  Coming(x, y, NewTx(tx))'
<1> DEFINE k == task[a][t]
           c == k.tx
           targets == {p \in Ready(a) : c \notin session[a][p].seenTxs}
           next == Send(targets, NewTx(c), Idle)
<1>1. k.do = "relay" /\ MarkTx(a, targets, c) /\ Turn(a, t, next)
  BY DEF AnnounceTransaction
<1>2. k \in Task /\ session \in Sessions /\ task \in [Node -> [Node -> Task]]
  BY DEF TypeOK, Sessions
<1> HIDE DEF k
<1>3. c \in Txs /\ Idle \in SimpleTask /\ targets \in SUBSET Node
  BY <1>1, <1>2, TasksAre, SimpleTasks DEF Ready
<1> HIDE DEF targets
<1>4. /\ x = a /\ y \in targets
      /\ session'[x][y] = [session[x][y] EXCEPT !.seenTxs = Noted(session[x][y].seenTxs, c)]
  BY <1>1, <1>2 DEF MarkTx, Sessions
<1>5. tx = c
  <2>1. session[x][y] \in Session
    BY <1>2 DEF Sessions
  <2>2. session'[x][y].seenTxs = Noted(session[x][y].seenTxs, c)
    BY <1>4, <2>1 DEF Session
  <2> QED BY <2>2, NotedIn
<1>6. NewTx(c) \in Message
  BY <1>3, MessagesMade
<1>7. next \in Task /\ next.do = "send" /\ next.to = targets /\ next.message = NewTx(c)
  BY <1>3, <1>4, <1>6, OtherTasks, SendIs
<1> HIDE DEF next
<1>8. task'[a][t] = next
  BY <1>1, <1>2, <1>7, TurnIs
<1> QED BY <1>4, <1>5, <1>7, <1>8 DEF Coming

LEMMA TxsMarked ==
    ASSUME TypeOK, HonestInv, GreetInv, TxInv, TxMarks, Admits, GenesisStays,
           NEW a \in Node, NEW t \in Node, ThreadStep(a, t) \/ Tick(a, t)
    PROVE  TxMarks'
<1> SUFFICES ASSUME NEW x \in Node, NEW y \in Node, {x, y} \notin cut',
                    NEW tx \in session'[x][y].seenTxs
             PROVE  \/ ValidThere(y, tx)' => tx \in admitted'[y]
                    \/ Coming(x, y, NewTx(tx))'
  BY DEF TxMarks
<1>1. {y, x} = {x, y} /\ cut \subseteq cut'
  BY CutsGrow
<1>2. admitted[y] \subseteq admitted'[y] /\ (ValidThere(y, tx)' <=> ValidThere(y, tx))
  BY DEF Admits, GenesisStays, ValidThere
<1>3. NewTx(tx).type = "newTx" /\ NewTx(tx).tx = tx
  BY DEF NewTx
<1>4. CASE tx \in session[x][y].seenTxs
  <2>1. CASE ValidThere(y, tx) => tx \in admitted[y]
    BY <1>2, <2>1
  <2>2. CASE Coming(x, y, NewTx(tx))
    <3>1. \/ Coming(x, y, NewTx(tx))'
          \/ /\ x = t /\ y = a /\ NewTx(tx) = Incoming(a, t)
             /\ HandleNewBlock(a, t) \/ HandleNewTransaction(a, t)
      BY <1>3, <2>2, ThreadBrings
    <3>2. CASE x = t /\ y = a /\ NewTx(tx) = Incoming(a, t) /\ HandleNewTransaction(a, t)
      <4>1. {a, t} \notin cut /\ tx = Incoming(a, t).tx
        BY <1>1, <1>3, <3>2
      <4> QED BY <1>2, <3>2, <4>1, NewTxSets
    <3>3. CASE NewTx(tx) = Incoming(a, t) /\ HandleNewBlock(a, t)
      BY <1>3, <3>3 DEF HandleNewBlock, Receiving
    <3> QED BY <3>1, <3>2, <3>3
  <2> QED BY <1>1, <1>4, <2>1, <2>2 DEF TxMarks
<1>5. CASE tx \notin session[x][y].seenTxs
  <2>1. HandleNewTransaction(a, t) \/ AnnounceTransaction(a, t)
    BY <1>5, ThreadMarks DEF NoTxMarked
  <2>2. CASE AnnounceTransaction(a, t)
    BY <1>5, <2>2, RelayedComes
  <2>3. CASE HandleNewTransaction(a, t)
    <3>1. CASE {a, t} \notin cut
      <4>1. x = a /\ y = t /\ tx = Incoming(a, t).tx
        BY <1>5, <2>3, <3>1, NewTxSets
      <4>2. tx \in admitted[y]
        BY <2>3, <3>1, <4>1, NewTxSets
      <4> QED BY <1>2, <4>2
    <3>2. CASE {a, t} \in cut
      <4>1. ~(x = a /\ y = t)
        BY <1>1, <3>2
      <4>2. session' = session \/ \E z : session' = [session EXCEPT ![a][t] = z]
        BY <2>3 DEF HandleNewTransaction
      <4>3. session'[x][y] = session[x][y]
        <5>1. ASSUME NEW z, session' = [session EXCEPT ![a][t] = z]
              PROVE  session'[x][y] = session[x][y]
          BY <4>1, <5>1 DEF TypeOK
        <5> QED BY <4>2, <5>1
      <4> QED BY <1>5, <4>3
    <3> QED BY <3>1, <3>2
  <2> QED BY <2>1, <2>2, <2>3
<1> QED BY <1>4, <1>5

\* A step that reads and marks nothing.
LEMMA MarksRest ==
    ASSUME BlockMarks, TxMarks, Rises, Admits, GenesisStays,
           session' = session, cut \subseteq cut',
           \A x, y, m : x \in Node /\ Coming(x, y, m) => Coming(x, y, m)'
    PROVE  BlockMarks' /\ TxMarks'
<1>1. ASSUME NEW x \in Node, NEW y \in Node, {x, y} \notin cut',
             NEW b \in session'[x][y].seenBlocks
      PROVE  \/ b \in known'[y]
             \/ session'[y][x].ready /\ session'[y][x].peerHeight >= Height[b]
             \/ Coming(x, y, NewBlock(b))'
  <2>1. \/ b \in known[y]
        \/ session[y][x].ready /\ session[y][x].peerHeight >= Height[b]
        \/ Coming(x, y, NewBlock(b))
    BY <1>1 DEF BlockMarks
  <2>2. known[y] \subseteq known'[y] /\ (Coming(x, y, NewBlock(b)) => Coming(x, y, NewBlock(b))')
    BY DEF Rises
  <2> QED BY <2>1, <2>2
<1>2. ASSUME NEW x \in Node, NEW y \in Node, {x, y} \notin cut',
             NEW tx \in session'[x][y].seenTxs
      PROVE  \/ ValidThere(y, tx)' => tx \in admitted'[y]
             \/ Coming(x, y, NewTx(tx))'
  <2>1. (ValidThere(y, tx) => tx \in admitted[y]) \/ Coming(x, y, NewTx(tx))
    BY <1>2 DEF TxMarks
  <2>2. admitted[y] \subseteq admitted'[y] /\ (ValidThere(y, tx)' <=> ValidThere(y, tx))
    BY DEF Admits, GenesisStays, ValidThere
  <2>3. Coming(x, y, NewTx(tx)) => Coming(x, y, NewTx(tx))'
    OBVIOUS
  <2> QED BY <2>1, <2>2, <2>3
<1>3. BlockMarks'
  BY <1>1 DEF BlockMarks
<1>4. TxMarks'
  BY <1>2 DEF TxMarks
<1> QED BY <1>3, <1>4

LEMMA MarksAlways == Spec => [](BlockMarks /\ TxMarks)
<1>1. Init => BlockMarks /\ TxMarks
  <2>1. NewSession.seenBlocks = {} /\ NewSession.seenTxs = {}
    BY DEF NewSession
  <2> QED BY <2>1 DEF Init, BlockMarks, TxMarks
<1>2. /\ TypeOK /\ TypeOK' /\ HonestInv /\ BestInv /\ GreetInv /\ TxInv
      /\ BlockMarks /\ TxMarks /\ [Next]_vars
      => (BlockMarks /\ TxMarks)'
  <2> SUFFICES ASSUME TypeOK, TypeOK', HonestInv, BestInv, GreetInv, TxInv, BlockMarks, TxMarks,
                      [Next]_vars
               PROVE  BlockMarks' /\ TxMarks'
    OBVIOUS
  <2>1. Rises /\ Admits /\ GenesisStays
    BY StepRises, OnlyAdmits, StepGrows
  <2>2. ASSUME NEW n \in Node, NEW t \in Node, ThreadStep(n, t) \/ Tick(n, t)
        PROVE  BlockMarks' /\ TxMarks'
    BY <2>1, <2>2, BlocksMarked, TxsMarked
  <2>3. ASSUME NEW n \in Node, NEW t \in Node,
               \/ Lose(n, t) \/ ImportFails(n, t)
               \/ n = t /\ \E b \in Blocks : Mine(n, b)
               \/ n = t /\ \E tx \in Txs : SubmitTransaction(n, tx)
        PROVE  BlockMarks' /\ TxMarks'
    BY <2>1, <2>3, OtherBrings, MarksRest
  <2>4. CASE UNCHANGED vars
    <3>1. \A x, y, m : x \in Node /\ Coming(x, y, m) => Coming(x, y, m)'
      BY <2>4 DEF vars, Coming
    <3> QED BY <2>1, <2>4, <3>1, MarksRest DEF vars
  <2> QED BY <2>2, <2>3, <2>4 DEF Next
<1> QED BY <1>1, <1>2, TypeCorrect, HonestAlways, BestAlways, GreetAlways, TxAlways, PTL DEF Spec

\* What is marked as seen by a peer has reached it when all is quiet, although it is
\* marked before it is sent, by several threads at once (announceBlock,
\* announceTransaction): a block is stored or left behind, a transaction that is valid
\* on every ledger of the peer's chain is in its pool.
THEOREM MarkedStaysReached == Spec => []MarkedIsReached
<1>1. /\ TypeOK /\ HonestInv /\ BestInv /\ GreetInv /\ NobodyStaysBehind /\ BlockMarks /\ TxMarks
      => MarkedIsReached
  <2> SUFFICES ASSUME TypeOK, HonestInv, BestInv, GreetInv, NobodyStaysBehind, BlockMarks,
                      TxMarks, Quiet,
                      NEW n \in Node, NEW p \in Node, link[n][p] = "open"
               PROVE  /\ failures = 0 =>
                           \A b \in session[n][p].seenBlocks : Height[head[p]] >= Height[b]
                      /\ \A tx \in session[n][p].seenTxs :
                           ValidThere(p, tx) => tx \in admitted[p]
    BY DEF MarkedIsReached, ValidThere
  <2>1. p \in Peers(n) /\ {p, n} = {n, p}
    BY DEF GreetInv, LinkInv
  <2>2. {n, p} \notin cut
    BY <2>1 DEF Quiet
  <2>3. \A x, y \in Node : task[x][y] = Idle /\ chan[x][y] = <<>>
    BY DEF Quiet
  <2>4. Idle.do = "idle" /\ Range(<<>>) = {}
    BY DEF Idle, Range
  <2>5. \A m : ~Coming(n, p, m)
    BY <2>3, <2>4 DEF Coming
  <2>6. ASSUME failures = 0, NEW b \in session[n][p].seenBlocks
        PROVE  Height[head[p]] >= Height[b]
    <3>1. /\ b \in Blocks /\ head[p] \in Blocks /\ session[p][n].peerHeight \in Nat
          /\ session[n][p] \in Session
      BY DEF TypeOK, Session
    <3>2. Height[b] \in Nat /\ Height[head[p]] \in Nat
      BY <3>1, ProtocolAssumption
    <3>3. CASE b \in known[p]
      BY <3>2, <3>3 DEF BestInv
    <3>4. CASE session[p][n].ready /\ session[p][n].peerHeight >= Height[b]
      <4>1. link[p][n] = "open"
        BY <2>1, <2>2, <3>4 DEF GreetInv, SideInv
      <4>2. Height[head[p]] >= session[p][n].peerHeight
        BY <2>6, <3>4, <4>1 DEF NobodyStaysBehind
      <4> QED BY <3>1, <3>2, <3>4, <4>2
    <3> QED BY <2>2, <2>5, <3>3, <3>4 DEF BlockMarks
  <2>7. ASSUME NEW tx \in session[n][p].seenTxs, ValidThere(p, tx) PROVE tx \in admitted[p]
    BY <2>2, <2>5, <2>7 DEF TxMarks
  <2> QED BY <2>6, <2>7
<1> QED BY <1>1, TypeCorrect, HonestAlways, BestAlways, GreetAlways, NobodyIsLeftBehind,
       MarksAlways, PTL
=============================================================================
