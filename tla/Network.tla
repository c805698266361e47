------------------------------ MODULE Network -------------------------------
(***************************************************************************)
(* One node's TCP transport (network/tcp/TcpNetwork.cpp) and its threads:  *)
(* the main thread that dials, pings and stops (node/Node.cpp), the accept *)
(* thread, a reader per connection, and the miner, which stands for any    *)
(* thread that sends and is joined before the transport is stopped: the    *)
(* RPC server's too.                                                       *)
(*                                                                         *)
(* A connection carries frames of two pieces, a header and a body, through *)
(* buffers of Buffer pieces; a send blocks while the buffer is full.  The  *)
(* remote ends are the environment: they connect, write, read and close    *)
(* when they like.  A connection here is a fresh PeerId of                 *)
(* _nextPeerNumber.                                                        *)
(***************************************************************************)
EXTENDS Integers, FiniteSets, SequencesExt

CONSTANTS
    Conn,             \* connections
    Bootstrap,        \* those dialed by start(); the others are accepted
    MaxPeers,         \* network.maxPeers
    Buffer,           \* bound: pieces a socket buffers each way
    Main, Acceptor, Miner, NoThread,
    MaxSends,         \* bound: frames the observer sends
    MaxAcceptErrors   \* bound: accept() fails for another reason than stop()

ASSUME NetworkAssumption ==
    /\ Bootstrap \subseteq Conn /\ IsFiniteSet(Conn)
    /\ {Main, Acceptor, Miner, NoThread} \cap Conn = {}
    /\ Main \notin {Acceptor, Miner, NoThread}
    /\ Acceptor \notin {Miner, NoThread} /\ Miner # NoThread
    /\ MaxPeers \in Nat \ {0} /\ Buffer \in Nat \ {0, 1}
    /\ MaxSends \in Nat /\ MaxAcceptErrors \in Nat

VARIABLES
    running,    \* _running
    listening,  \* the listener has not been shut down
    accepting,  \* the accept thread is in its loop
    main,       \* where the main thread is
    todial,     \* bootstrap peers still to be dialed
    table,      \* the keys of _peers
    wire,       \* the state of each connection's socket
    session,    \* what the observer has been told of each peer
    ready,      \* peers whose first message has been handled
    reader,     \* where each reader thread is
    task,       \* what else each thread is doing: adding a peer, sending
    writer,     \* the holder of each Peer::writeMutex
    unread,     \* how many pieces sent from here the remote end has not read
    open,       \* the thread whose header was the last piece sent, if it was one
    sends,      \* frames the observer has sent
    errors      \* failures of accept()

local  == <<running, listening, accepting, main, todial, errors>>
streams == <<unread, open, sends>>
vars == <<local, table, wire, session, ready, reader, task, writer, streams>>

Thread == Conn \cup {Main, Acceptor, Miner}

\* A thread is idle; calls onPeerConnected; starts a reader; or sends `left`
\* pieces to a peer, and then continues as a bare Idle or Spawn.
Idle == [do |-> "idle"]
Greet(c) == [do |-> "greet", to |-> c]
Spawn(c) == [do |-> "spawn", to |-> c]
Lock(c, then) == [do |-> "lock", to |-> c, left |-> 2, then |-> then]

After == {Idle} \cup {Spawn(c) : c \in Conn}
SendTask == [do : {"lock", "write"}, to : Conn, left : 1 .. 2, then : After]
Task == After \cup {Greet(c) : c \in Conn} \cup SendTask

Turn(t, next) == task' = [task EXCEPT ![t] = next]

\* send(): the peer is looked up; one that has left is an error.
Sending(c, then) == IF c \in table THEN Lock(c, then) ELSE then

\* Those that send to a peer hold its Peer as its reader does; the last of them
\* all closes the socket.
Senders(c) ==
    {t \in Thread : task[t].do \in {"lock", "write"} /\ task[t].to = c}

\* The end of connections, from either side; what they still held is lost.
Shut(ended) ==
    /\ wire' = [c \in Conn |-> IF c \in ended THEN "dead" ELSE wire[c]]
    /\ unread' = [c \in Conn |-> IF c \in ended THEN 0 ELSE unread[c]]
    /\ open' = [c \in Conn |-> IF c \in ended THEN NoThread ELSE open[c]]

Init ==
    /\ running = TRUE /\ listening = TRUE /\ accepting = TRUE
    /\ main = "dialing"
    /\ todial = Bootstrap
    /\ table = {}
    /\ wire = [c \in Conn |-> "none"]
    /\ session = [c \in Conn |-> "none"]
    /\ ready = {}
    /\ reader = [c \in Conn |-> "none"]
    /\ task = [t \in Thread |-> Idle]
    /\ writer = [c \in Conn |-> NoThread]
    /\ unread = [c \in Conn |-> 0]
    /\ open = [c \in Conn |-> NoThread]
    /\ sends = 0
    /\ errors = 0

-----------------------------------------------------------------------------
(* What each thread waits for: the guards of the steps below. *)

CanStart == main = "dialing" /\ task[Main] = Idle
CanJoinMiner == main = "joinMiner" /\ task[Miner] = Idle
CanJoinAcceptor == main = "joinAcceptor" /\ ~accepting
CanJoinReaders ==
    main = "joinReaders" /\ \A c \in Conn : reader[c] \in {"none", "done"}

\* accept() has a connection, or fails: after stop(), or for want of a descriptor.
CanAccept(c) ==
    /\ accepting /\ task[Acceptor] = Idle
    /\ running /\ listening /\ wire[c] = "offered"
CanEndAccepting ==
    /\ accepting /\ task[Acceptor] = Idle
    /\ ~running \/ ~listening \/ errors < MaxAcceptErrors

CanLock(t) == task[t].do = "lock" /\ writer[task[t].to] = NoThread
CanWrite(t) ==
    /\ task[t].do = "write"
    /\ wire[task[t].to] = "live" /\ unread[task[t].to] < Buffer
CanFail(t) == task[t].do = "write" /\ wire[task[t].to] # "live"

CanEndReading(c) == reader[c] = "receive" /\ (~running \/ wire[c] = "dead")
CanReturn(c) == reader[c] = "handle" /\ task[c] = Idle

-----------------------------------------------------------------------------
(* Adding and removing peers. *)

AddPeer_OffByOne(t, c) ==   \* faulty: one peer too many
    IF Cardinality(table) > MaxPeers
    THEN wire' = [wire EXCEPT ![c] = "dead"] /\ UNCHANGED <<table, task>>
    ELSE /\ \E state \in {"live", "dead"} : wire' = [wire EXCEPT ![c] = state]
         /\ table' = table \cup {c}
         /\ Turn(t, Greet(c))

\* addPeer: under the mutex, a socket beyond the limit is closed, another one
\* enters the table, though the remote end may have closed it already.
AddPeer(t, c) ==
    IF Cardinality(table) >= MaxPeers
    THEN wire' = [wire EXCEPT ![c] = "dead"] /\ UNCHANGED <<table, task>>
    ELSE /\ \E state \in {"live", "dead"} : wire' = [wire EXCEPT ![c] = state]
         /\ table' = table \cup {c}
         /\ Turn(t, Greet(c))

\* start(): one bootstrap peer after the other; one that does not answer is
\* skipped.
Dial(c) ==
    /\ CanStart
    /\ c \in todial
    /\ todial' = todial \ {c}
    /\ \/ AddPeer(Main, c)
       \/ UNCHANGED <<table, wire, task>>
    /\ UNCHANGED <<running, listening, accepting, main, errors, session, ready,
                   reader, writer, streams>>

\* start() returns, and the RPC server's too; the miner may now run.
Started ==
    /\ CanStart
    /\ todial = {}
    /\ main' = "running"
    /\ UNCHANGED <<running, listening, accepting, todial, errors, table, wire,
                   session, ready, reader, task, writer, streams>>

\* stop(), up to the join of the accept thread.
StopAccepting ==
    /\ main' = "joinAcceptor"
    /\ running' = FALSE /\ listening' = FALSE
    /\ UNCHANGED <<accepting, todial, errors, table, wire, session, ready,
                   reader, task, writer, streams>>

\* The RPC server cannot be bound: the transport is stopped at once.
RpcFails ==
    /\ CanStart
    /\ todial = {}
    /\ StopAccepting

Accept_EndsOnDeadPeer(c) ==   \* faulty: a connection already closed ends the loop
    /\ CanAccept(c)
    /\ AddPeer(Acceptor, c)
    /\ accepting' = (wire'[c] = "live")
    /\ UNCHANGED <<running, listening, main, todial, errors, session, ready,
                   reader, writer, streams>>

\* acceptLoop: one connection.
Accept(c) ==
    /\ CanAccept(c)
    /\ AddPeer(Acceptor, c)
    /\ UNCHANGED <<local, session, ready, reader, writer, streams>>

\* acceptLoop ends: _running is false, or accept() fails, after stop() or for
\* want of a descriptor.
AcceptEnds ==
    /\ CanEndAccepting
    /\ accepting' = FALSE
    /\ errors' = IF running /\ listening THEN errors + 1 ELSE errors
    /\ UNCHANGED <<running, listening, main, todial, table, wire, session, ready,
                   reader, task, writer, streams>>

Connected_ReaderFirst(t) ==   \* faulty: the reader starts before the session
    LET c == task[t].to
    IN  /\ task[t].do = "greet"
        /\ IF reader[c] = "none"
           THEN reader' = [reader EXCEPT ![c] = "receive"] /\ UNCHANGED <<session, task>>
           ELSE /\ session' = [session EXCEPT ![c] = "connected"]
                /\ Turn(t, Sending(c, Idle))
                /\ UNCHANGED reader
        /\ UNCHANGED <<local, table, wire, ready, writer, streams>>

\* onPeerConnected: the session, then the Status, by the thread that adds.
Connected(t) ==
    /\ task[t].do = "greet"
    /\ session' = [session EXCEPT ![task[t].to] = "connected"]
    /\ Turn(t, Sending(task[t].to, Spawn(task[t].to)))
    /\ UNCHANGED <<local, table, wire, ready, reader, writer, streams>>

\* addPeer's end: the reader thread, unless stop() has begun.
StartReader(t) ==
    /\ task[t].do = "spawn"
    /\ reader' = IF running THEN [reader EXCEPT ![task[t].to] = "receive"] ELSE reader
    /\ Turn(t, Idle)
    /\ UNCHANGED <<local, table, wire, session, ready, writer, streams>>

\* removePeer: the table first, then onPeerDisconnected unless stop() has begun.
RemovePeer(c) ==
    /\ reader[c] = "remove"
    /\ table' = table \ {c}
    /\ reader' = [reader EXCEPT ![c] = "forget"]
    /\ UNCHANGED <<local, wire, session, ready, task, writer, streams>>

Disconnected(c) ==
    /\ reader[c] = "forget"
    /\ session' = IF running THEN [session EXCEPT ![c] = "gone"] ELSE session
    /\ ready' = IF running THEN ready \ {c} ELSE ready
    /\ reader' = [reader EXCEPT ![c] = "done"]
    /\ IF Senders(c) = {} THEN Shut({c}) ELSE UNCHANGED <<wire, unread, open>>
    /\ UNCHANGED <<local, table, task, writer, sends>>

-----------------------------------------------------------------------------
(* Sending and receiving. *)

LockWriter_Ignored(t) ==   \* faulty: frames of two senders may mix
    /\ task[t].do = "lock"
    /\ Turn(t, [task[t] EXCEPT !.do = "write"])
    /\ UNCHANGED <<local, table, wire, session, ready, reader, writer, streams>>

\* send() takes the peer's writeMutex.
LockWriter(t) ==
    /\ CanLock(t)
    /\ writer' = [writer EXCEPT ![task[t].to] = t]
    /\ Turn(t, [task[t] EXCEPT !.do = "write"])
    /\ UNCHANGED <<local, table, wire, session, ready, reader, streams>>

SendEnds(t) ==
    /\ Turn(t, task[t].then)
    /\ writer' = [writer EXCEPT ![task[t].to] = NoThread]

\* sendAll: one piece when the buffer has room.
SendPiece(t) ==
    /\ CanWrite(t)
    /\ LET c == task[t].to
       IN  IF task[t].left = 2
           THEN /\ Turn(t, [task[t] EXCEPT !.left = 1])
                /\ open' = [open EXCEPT ![c] = t]
                /\ unread' = [unread EXCEPT ![c] = @ + 1]
                /\ UNCHANGED <<wire, writer>>
           ELSE /\ SendEnds(t)
                /\ IF reader[c] = "done" /\ Senders(c) = {t} THEN Shut({c})
                   ELSE /\ open' = [open EXCEPT ![c] = NoThread]
                        /\ unread' = [unread EXCEPT ![c] = @ + 1]
                        /\ UNCHANGED wire
    /\ UNCHANGED <<local, table, session, ready, reader, sends>>

\* sendAll fails on a connection that is shut or broken, wherever the frame is.
SendFails(t) ==
    /\ CanFail(t)
    /\ SendEnds(t)
    /\ UNCHANGED <<local, table, wire, session, ready, reader, streams>>

\* announceBlock, announceTransaction, an answer or tick()'s ping: a frame to a
\* peer whose Status has been handled, by the miner, by a reader in its handler or
\* by the main loop.
Announce(t, c) ==
    /\ task[t] = Idle
    /\ \/ t \in {Miner, Main} /\ main = "running"
       \/ t \in Conn /\ reader[t] = "handle"
    /\ c \in ready
    /\ sends < MaxSends
    /\ sends' = sends + 1
    /\ Turn(t, Sending(c, Idle))
    /\ UNCHANGED <<local, table, wire, session, ready, reader, writer, unread, open>>

\* readerLoop: a whole frame, which goes to the observer, or the header of one
\* that is too large.
Receive(c) ==
    /\ reader[c] = "receive" /\ running
    /\ \/ /\ reader' = [reader EXCEPT ![c] = "handle"]
          /\ ready' = ready \cup {c}
       \/ /\ reader' = [reader EXCEPT ![c] = "remove"]
          /\ UNCHANGED ready
    /\ UNCHANGED <<local, table, wire, session, task, writer, streams>>

\* The end of the loop: stop() has begun, or the connection has ended, in the
\* middle of a frame perhaps.
ReadFails(c) ==
    /\ CanEndReading(c)
    /\ reader' = [reader EXCEPT ![c] = "remove"]
    /\ UNCHANGED <<local, table, wire, session, ready, task, writer, streams>>

\* The handler returns, after dropPeer perhaps.
HandlerEnds(c) ==
    /\ CanReturn(c)
    /\ reader' = [reader EXCEPT ![c] = "receive"]
    /\ \/ UNCHANGED <<wire, unread, open>>
       \/ c \in table /\ Shut({c})
    /\ UNCHANGED <<local, table, session, ready, task, writer, sends>>

-----------------------------------------------------------------------------
(* Node::run and TcpNetwork::stop, on the main thread. *)

\* The main loop finds the request between two ticks.
RequestStop ==
    /\ main = "running" /\ task[Main] = Idle
    /\ main' = "joinMiner"
    /\ UNCHANGED <<running, listening, accepting, todial, errors, table, wire,
                   session, ready, reader, task, writer, streams>>

\* Miner::stop and the RPC server's join the threads that send.
JoinMiner ==
    /\ CanJoinMiner
    /\ StopAccepting

JoinAcceptor_SocketsKept ==   \* faulty: the peers' sockets are not shut down
    /\ CanJoinAcceptor
    /\ main' = "joinReaders"
    /\ UNCHANGED <<running, listening, accepting, todial, errors, table, wire,
                   session, ready, reader, task, writer, streams>>

\* The accept thread is joined, then every socket in the table is shut down.
JoinAcceptor ==
    /\ CanJoinAcceptor
    /\ main' = "joinReaders"
    /\ Shut(table)
    /\ UNCHANGED <<running, listening, accepting, todial, errors, table, session,
                   ready, reader, task, writer, sends>>

JoinReaders ==
    /\ CanJoinReaders
    /\ main' = "stopped"
    /\ table' = {}
    /\ UNCHANGED <<running, listening, accepting, todial, errors, wire, session,
                   ready, reader, task, writer, streams>>

-----------------------------------------------------------------------------
(* The remote ends. *)

Offer(c) ==
    /\ c \notin Bootstrap /\ wire[c] = "none" /\ listening
    /\ wire' = [wire EXCEPT ![c] = "offered"]
    /\ UNCHANGED <<local, table, session, ready, reader, task, writer, streams>>

\* The remote end reads a piece; one read before the buffer is full changes
\* nothing for the node.
RemoteRead(c) ==
    /\ unread[c] = Buffer
    /\ unread' = [unread EXCEPT ![c] = @ - 1]
    /\ UNCHANGED <<local, table, wire, session, ready, reader, task, writer, open,
                   sends>>

RemoteClose(c) ==
    /\ wire[c] = "live"
    /\ Shut({c})
    /\ UNCHANGED <<local, table, session, ready, reader, task, writer, sends>>

-----------------------------------------------------------------------------
SendStep(t) == LockWriter(t) \/ SendPiece(t) \/ SendFails(t)

MainStep ==
    \/ \E c \in Conn : Dial(c)
    \/ Started \/ Connected(Main) \/ StartReader(Main) \/ SendStep(Main)
    \/ RpcFails \/ JoinMiner \/ JoinAcceptor \/ JoinReaders

AcceptStep ==
    \/ \E c \in Conn : Accept(c)
    \/ Connected(Acceptor) \/ StartReader(Acceptor) \/ SendStep(Acceptor)
    \/ AcceptEnds

ReaderStep(c) ==
    \/ ReadFails(c) \/ HandlerEnds(c) \/ SendStep(c)
    \/ RemovePeer(c) \/ Disconnected(c)

Next ==
    \/ MainStep \/ AcceptStep \/ SendStep(Miner) \/ RequestStop
    \/ \E c \in Conn : ReaderStep(c)
    \/ \E t \in Thread, c \in Conn : Announce(t, c)
    \/ \E c \in Conn : Offer(c) \/ Receive(c) \/ RemoteRead(c) \/ RemoteClose(c)

Spec == Init /\ [][Next]_vars

-----------------------------------------------------------------------------
(* Properties. *)

\* Every variable has its type, and the table its limit, although the main and the
\* accept threads both add to it while start() dials (addPeer).
TypeOK ==
    /\ {running, listening, accepting} \subseteq BOOLEAN
    /\ main \in {"dialing", "running", "joinMiner", "joinAcceptor", "joinReaders", "stopped"}
    /\ todial \subseteq Bootstrap /\ ready \subseteq Conn
    /\ table \subseteq Conn /\ Cardinality(table) <= MaxPeers
    /\ wire \in [Conn -> {"none", "offered", "live", "dead"}]
    /\ session \in [Conn -> {"none", "connected", "gone"}]
    /\ reader \in [Conn -> {"none", "receive", "handle", "remove", "forget", "done"}]
    /\ task \in [Thread -> Task]
    /\ writer \in [Conn -> Thread \cup {NoThread}]
    /\ unread \in [Conn -> 0 .. Buffer]
    /\ open \in [Conn -> Thread \cup {NoThread}]
    /\ sends \in 0 .. MaxSends /\ errors \in 0 .. MaxAcceptErrors

\* The observer hears of a peer before its messages and of its end after them,
\* though three threads call it; a session outlives its reader only when the node
\* stops, and once stop() has returned no thread calls the observer or sends
\* (addPeer, readerLoop, removePeer, TcpNetwork::stop).
ObserverIsInOrder ==
    /\ main = "stopped" => \A t \in Thread : task[t] = Idle
    /\ \A c \in Conn :
           /\ reader[c] \in {"receive", "handle", "remove"} => session[c] = "connected"
           /\ session[c] = "gone" => reader[c] = "done"
           /\ reader[c] = "done" /\ running => session[c] = "gone"
           /\ main = "stopped" => reader[c] \in {"none", "done"}

\* A remote end gets whole frames, however many threads send to it and however
\* little its buffer takes at a time: a header follows a body, and a body its own
\* header (send, sendAll).
FramesStayWhole ==
    \A t \in Thread :
        task[t].do = "write" /\ wire[task[t].to] = "live" =>
            open[task[t].to] = IF task[t].left = 2 THEN NoThread ELSE t

\* A thread is blocked in sendAll by a remote end that does not read.
Blocked(t) ==
    /\ task[t].do = "write"
    /\ wire[task[t].to] = "live"
    /\ unread[task[t].to] = Buffer

\* What keeps a node from stopping: a ping of the main loop to a peer that does not
\* read, a send while the miner is being joined, or, once the sockets are shut, a
\* send to a peer that had left the table.
StopIsBlocked ==
    \E t \in Thread :
        /\ Blocked(t)
        /\ \/ main = "running" /\ task[Main] # Idle /\ task[Main].to = task[t].to
           \/ main = "joinMiner"
           \/ main = "joinReaders" /\ task[t].to \notin table

\* Which threads can take a step before a remote end does: those that meet the guard
\* of one of their steps.
GoesOn(t) ==
    task[t].do \in {"greet", "spawn"} \/ CanLock(t) \/ CanWrite(t) \/ CanFail(t)

MainMoves ==
    GoesOn(Main) \/ CanStart \/ CanJoinMiner \/ CanJoinAcceptor \/ CanJoinReaders

AcceptorMoves ==
    GoesOn(Acceptor) \/ CanEndAccepting \/ \E c \in Conn : CanAccept(c)

ReaderMoves(c) ==
    \/ GoesOn(c) \/ CanEndReading(c) \/ CanReturn(c)
    \/ reader[c] \in {"remove", "forget"}

Rests ==
    /\ ~MainMoves /\ ~AcceptorMoves /\ ~GoesOn(Miner)
    /\ \A c \in Conn : ~ReaderMoves(c)

\* The main thread has nothing to do until it is asked to stop, or has stopped.
Waits == main = "stopped" \/ (main = "running" /\ task[Main] = Idle)

\* A node that is asked to stop does, unless it waits for a remote end to read, and
\* then as StopIsBlocked says: no other wait of one thread on another is ever
\* circular (Node::run, TcpNetwork::stop).
StopIsBlockedByRemote ==
    ~Waits /\ Rests => StopIsBlocked

\* A connection that is offered is accepted or refused while the node runs, unless
\* accept() has failed: no peer, slow, dead or in excess, holds up the accept
\* thread (acceptLoop, addPeer).
OfferIsAnswered ==
    (\E c \in Conn : wire[c] = "offered") /\ running /\ errors = 0 => AcceptorMoves
=============================================================================
