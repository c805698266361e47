--------------------------- MODULE Network_proofs ---------------------------
(***************************************************************************)
(* Proofs about Network, for any connections, limits and buffers: the      *)
(* limit of the table, the order in which the observer is called, the      *)
(* frames that stay whole, and what the threads may wait for.              *)
(***************************************************************************)
EXTENDS Network, FiniteSetTheorems, TLAPS

\* A thread adds c: it has yet to greet it, or to start its reader.
Adding(t, c) ==
    \/ task[t] \in {Greet(c), Spawn(c)}
    \/ task[t] \in SendTask /\ task[t].then = Spawn(c)

Sends(t, c) == task[t] \in SendTask /\ task[t].to = c
Writes(t, c) == Sends(t, c) /\ task[t].do = "write"

\* A connection is added by one thread, the main one or the accept thread, before
\* its reader runs.
AddInv ==
    /\ \A t \in Thread, c \in Conn :
          Adding(t, c) =>
             /\ t = IF c \in Bootstrap THEN Main ELSE Acceptor
             /\ reader[c] = "none"
             /\ task[t] # Greet(c) => session[c] = "connected"
             /\ c \notin todial /\ wire[c] \in {"live", "dead"}
    /\ \A c \in Conn :
          /\ c \in todial => wire[c] = "none"
          /\ c \in Bootstrap => wire[c] # "offered"
          /\ c \in table \/ reader[c] # "none" => wire[c] \in {"live", "dead"}
    /\ \A t \in Thread, c \in Conn : Sends(t, c) => wire[c] \in {"live", "dead"}

\* What the observer has heard of a peer, by where its reader is.
SessionInv ==
    \A c \in Conn :
        /\ reader[c] \in {"receive", "handle", "remove", "forget"} =>
              session[c] = "connected"
        /\ session[c] = "gone" => reader[c] = "done"
        /\ reader[c] = "done" /\ running => session[c] = "gone"

\* The threads are joined in the order miner, accept thread, readers.
StopInv ==
    /\ main \in {"dialing", "running", "joinMiner"} => running
    /\ main \in {"joinAcceptor", "joinReaders", "stopped"} => ~running
    /\ main \notin {"running", "joinMiner"} => task[Miner] = Idle
    /\ main \notin {"dialing", "running"} => task[Main] = Idle
    /\ main \in {"joinReaders", "stopped"} => ~accepting
    /\ ~accepting => task[Acceptor] = Idle
    /\ \A c \in Conn :
          /\ reader[c] # "handle" => task[c] = Idle
          /\ main = "stopped" => reader[c] \in {"none", "done"}

\* Who writes to a peer holds its mutex, and without one no frame is open.
WriteInv ==
    /\ \A t \in Thread, c \in Conn :
          /\ Sends(t, c) /\ task[t].do = "lock" => task[t].left = 2
          /\ Writes(t, c) =>
                /\ writer[c] = t
                /\ wire[c] = "live" => open[c] = IF task[t].left = 2 THEN NoThread ELSE t
    /\ \A c \in Conn :
          wire[c] # "live" \/ writer[c] = NoThread => open[c] = NoThread

Inv == TypeOK /\ AddInv /\ SessionInv /\ StopInv /\ WriteInv

-----------------------------------------------------------------------------
(* What a thread does: the kinds of tasks and how a step changes one. *)

\* A task is of one kind only, and tells what it is about.
LEMMA TaskKinds ==
    /\ Idle \in After /\ After \subseteq Task /\ SendTask \subseteq Task
    /\ Idle \notin SendTask
    /\ \A c \in Conn :
          /\ Greet(c) \in Task /\ Greet(c) \notin After \cup SendTask
          /\ Spawn(c) \in After /\ Spawn(c) \notin SendTask /\ Spawn(c) # Idle
          /\ Greet(c).to = c /\ Spawn(c).to = c
          /\ \A d \in Conn : Greet(c) # Spawn(d)
                /\ (Spawn(c) = Spawn(d) => c = d) /\ (Greet(c) = Greet(d) => c = d)
    BY DEF Task, After, SendTask, Idle, Greet, Spawn

\* What `do` says of a task.
LEMMA TaskDoes ==
    ASSUME NEW k \in Task
    PROVE  /\ k.do \in {"lock", "write"} <=> k \in SendTask
           /\ k.do = "greet" => k.to \in Conn /\ k = Greet(k.to)
           /\ k.do = "spawn" => k.to \in Conn /\ k = Spawn(k.to)
<1>1. CASE k = Idle
    BY <1>1 DEF SendTask, Idle
<1>2. ASSUME NEW c \in Conn, k = Spawn(c) \/ k = Greet(c)
      PROVE  /\ k.do \in {"lock", "write"} <=> k \in SendTask
             /\ k.do = "greet" => k.to \in Conn /\ k = Greet(k.to)
             /\ k.do = "spawn" => k.to \in Conn /\ k = Spawn(k.to)
    BY <1>2 DEF SendTask, Spawn, Greet
<1>3. CASE k \in SendTask
    BY <1>3 DEF SendTask
<1> QED
    BY <1>1, <1>2, <1>3 DEF Task, After

\* The fields of a task that sends, and what LockWriter and SendPiece make of it.
LEMMA SendTasks ==
    ASSUME NEW k \in SendTask
    PROVE  /\ k.do \in {"lock", "write"} /\ k.to \in Conn /\ k.left \in {1, 2}
           /\ k.then \in After
           /\ LET w == [k EXCEPT !.do = "write"]
              IN  /\ w \in SendTask /\ w.do = "write"
                  /\ w.to = k.to /\ w.left = k.left /\ w.then = k.then
           /\ LET o == [k EXCEPT !.left = 1]
              IN  /\ o \in SendTask /\ o.left = 1
                  /\ o.to = k.to /\ o.do = k.do /\ o.then = k.then
    BY DEF SendTask

\* send(): a task that sends, or what follows at once.
LEMMA SendingIs ==
    ASSUME NEW c \in Conn, NEW then \in After
    PROVE  /\ Sending(c, then) = then \/
                 /\ c \in table /\ Sending(c, then) \in SendTask
                 /\ Sending(c, then).to = c /\ Sending(c, then).do = "lock"
                 /\ Sending(c, then).left = 2 /\ Sending(c, then).then = then
           /\ Sending(c, then) \in After \cup SendTask
    BY DEF Sending, Lock, SendTask

-----------------------------------------------------------------------------
(* The steps that leave every thread's task alone. *)

\* The threads are told apart by what they are.
LEMMA ThreadsDiffer ==
    /\ Conn \subseteq Thread /\ {Main, Acceptor, Miner} \subseteq Thread
    /\ NoThread \notin Thread
    /\ Main \notin Conn /\ Acceptor \notin Conn /\ Miner \notin Conn
    /\ Main # Acceptor /\ Main # Miner /\ Acceptor # Miner
    BY NetworkAssumption DEF Thread

\* Then nobody begins or ends to add, to send or to write.
LEMMA SameTasks ==
    ASSUME UNCHANGED task
    PROVE  \A t, c : /\ Adding(t, c)' <=> Adding(t, c)
                     /\ Sends(t, c)' <=> Sends(t, c)
                     /\ Writes(t, c)' <=> Writes(t, c)
    BY DEF Adding, Sends, Writes

\* Starting and stopping, without a socket being shut.
LEMMA MainInv ==
    ASSUME Inv,
           \/ Started \/ RpcFails \/ AcceptEnds \/ RequestStop
           \/ JoinMiner \/ JoinReaders
    PROVE  Inv'
<1> USE DEF StopAccepting, local, streams
<1>1. /\ UNCHANGED <<todial, wire, session, ready, reader, task, writer, streams>>
      /\ table' \subseteq table
    BY DEF Started, RpcFails, AcceptEnds, RequestStop, JoinMiner, JoinReaders,
           CanStart, CanEndAccepting, CanJoinMiner, CanJoinReaders
<1>2. TypeOK'
  <2>1. table' \subseteq Conn /\ Cardinality(table') <= MaxPeers
    <3>1. CASE table' = {}
        BY <3>1, FS_EmptySet, NetworkAssumption
    <3>2. CASE table' = table
        BY <3>2 DEF Inv, TypeOK
    <3> QED
        BY <3>1, <3>2 DEF Started, RpcFails, AcceptEnds, RequestStop, JoinMiner, JoinReaders,
                          CanStart, CanEndAccepting, CanJoinMiner, CanJoinReaders
  <2>2. /\ main' \in {"dialing", "running", "joinMiner", "joinAcceptor", "joinReaders", "stopped"}
        /\ {running', listening', accepting'} \subseteq BOOLEAN
    BY DEF Inv, TypeOK, Started, RpcFails, AcceptEnds, RequestStop, JoinMiner, JoinReaders,
           CanStart, CanEndAccepting, CanJoinMiner, CanJoinReaders
  <2>3. errors' = errors \/ (errors < MaxAcceptErrors /\ errors' = errors + 1)
    BY DEF Started, RpcFails, AcceptEnds, RequestStop, JoinMiner, JoinReaders,
           CanStart, CanEndAccepting, CanJoinMiner, CanJoinReaders
  <2>4. errors' \in 0 .. MaxAcceptErrors
    BY <2>3, NetworkAssumption DEF Inv, TypeOK
  <2> QED
    BY <1>1, <2>1, <2>2, <2>4 DEF Inv, TypeOK
<1>3. AddInv'
    BY <1>1, SameTasks DEF Inv, AddInv
<1>4. running' => running
    BY DEF Started, RpcFails, AcceptEnds, RequestStop, JoinMiner, JoinReaders,
           CanStart, CanEndAccepting, CanJoinMiner, CanJoinReaders
<1>5. SessionInv'
    BY <1>1, <1>4 DEF Inv, SessionInv
<1>6. StopInv'
  <2>1. CASE Started \/ RequestStop
    BY <1>1, <2>1 DEF Inv, StopInv, Started, RequestStop, CanStart
  <2>2. CASE RpcFails \/ JoinMiner
    BY <1>1, <2>2 DEF Inv, StopInv, RpcFails, JoinMiner, CanStart, CanJoinMiner
  <2>3. CASE AcceptEnds
    BY <1>1, <2>3 DEF Inv, StopInv, AcceptEnds, CanEndAccepting
  <2>4. CASE JoinReaders
    BY <1>1, <2>4 DEF Inv, StopInv, JoinReaders, CanJoinReaders
  <2> QED
    BY <2>1, <2>2, <2>3, <2>4
<1>7. WriteInv'
    BY <1>1, SameTasks DEF Inv, WriteInv
<1> QED
    BY <1>2, <1>3, <1>5, <1>6, <1>7 DEF Inv

\* The end of connections, by either side.
LEMMA ShutInv ==
    ASSUME Inv, NEW ended, ended \subseteq {c \in Conn : wire[c] \in {"live", "dead"}},
           Shut(ended), UNCHANGED <<task, writer>>
    PROVE  /\ wire' \in [Conn -> {"none", "offered", "live", "dead"}]
           /\ unread' \in [Conn -> 0 .. Buffer]
           /\ open' \in [Conn -> Thread \cup {NoThread}]
           /\ \A c \in Conn : \/ wire'[c] = wire[c]
                              \/ (wire[c] \in {"live", "dead"} /\ wire'[c] = "dead")
           /\ WriteInv'
<1>1. /\ wire' \in [Conn -> {"none", "offered", "live", "dead"}]
      /\ unread' \in [Conn -> 0 .. Buffer]
      /\ open' \in [Conn -> Thread \cup {NoThread}]
      /\ \A c \in Conn : \/ wire'[c] = wire[c]
                         \/ (wire[c] \in {"live", "dead"} /\ wire'[c] = "dead")
    BY NetworkAssumption DEF Shut, Inv, TypeOK
<1>2. \A c \in Conn : \/ wire'[c] = wire[c] /\ open'[c] = open[c]
                      \/ wire'[c] = "dead" /\ open'[c] = NoThread
    BY DEF Shut
<1>3. WriteInv'
    BY <1>2, SameTasks DEF Inv, WriteInv
<1> QED
    BY <1>1, <1>3

\* The reader of a peer, from one place of its loop to the next.
LEMMA ReaderInv ==
    ASSUME Inv, NEW c \in Conn,
           RemovePeer(c) \/ Disconnected(c) \/ Receive(c) \/ ReadFails(c) \/ HandlerEnds(c)
    PROVE  Inv'
<1> USE DEF local, streams
<1>1. UNCHANGED <<local, task, writer, sends>>
    BY DEF RemovePeer, Disconnected, Receive, ReadFails, HandlerEnds, CanEndReading,
           CanReturn
<1>2. PICK at \in {"receive", "handle", "remove", "forget", "done"} :
          /\ reader' = [reader EXCEPT ![c] = at]
          /\ reader[c] \notin {"none", "done"}
          /\ reader[c] # "handle" \/ task[c] = Idle
          /\ at = "done" <=> reader[c] = "forget"
    BY DEF RemovePeer, Disconnected, Receive, ReadFails, HandlerEnds, CanEndReading,
           CanReturn
<1>3. /\ table' = table \/ table' = table \ {c}
      /\ ready' \subseteq ready \cup {c}
    BY DEF RemovePeer, Disconnected, Receive, ReadFails, HandlerEnds, CanEndReading,
           CanReturn
<1>4. \/ UNCHANGED <<wire, unread, open>>
      \/ Shut({c})
    BY DEF RemovePeer, Disconnected, Receive, ReadFails, HandlerEnds, CanEndReading,
           CanReturn
<1>5. \/ ~(running /\ reader[c] = "forget") /\ UNCHANGED session
      \/ (running /\ reader[c] = "forget") /\ session' = [session EXCEPT ![c] = "gone"]
    BY DEF RemovePeer, Disconnected, Receive, ReadFails, HandlerEnds, CanEndReading,
           CanReturn
<1>6. wire[c] \in {"live", "dead"}
    BY <1>2 DEF Inv, AddInv
<1>7. /\ wire' \in [Conn -> {"none", "offered", "live", "dead"}]
      /\ unread' \in [Conn -> 0 .. Buffer]
      /\ open' \in [Conn -> Thread \cup {NoThread}]
      /\ \A d \in Conn : \/ wire'[d] = wire[d]
                         \/ (wire[d] \in {"live", "dead"} /\ wire'[d] = "dead")
      /\ WriteInv'
  <2>1. CASE UNCHANGED <<wire, unread, open>>
    BY <1>1, <2>1, SameTasks DEF Inv, TypeOK, WriteInv
  <2>2. CASE Shut({c})
    BY <1>1, <1>6, <2>2, ShutInv
  <2> QED
    BY <1>4, <2>1, <2>2
<1>8. TypeOK'
  <2>1. IsFiniteSet(table) /\ Cardinality(table \ {c}) <= Cardinality(table)
    BY NetworkAssumption, FS_Subset, FS_RemoveElement, FS_CardinalityType DEF Inv, TypeOK
  <2>2. Cardinality(table') <= MaxPeers
    <3>1. Cardinality(table) \in Nat /\ Cardinality(table \ {c}) \in Nat
        BY <2>1, FS_CardinalityType, FS_RemoveElement
    <3> QED
        BY <1>3, <2>1, <3>1, NetworkAssumption DEF Inv, TypeOK
  <2>3. /\ reader' \in [Conn -> {"none", "receive", "handle", "remove", "forget", "done"}]
        /\ session' \in [Conn -> {"none", "connected", "gone"}]
        /\ table' \subseteq Conn /\ ready' \subseteq Conn
    BY <1>2, <1>3, <1>5 DEF Inv, TypeOK
  <2> QED
    BY <1>1, <1>7, <2>2, <2>3 DEF Inv, TypeOK
<1>9. AddInv'
    BY <1>1, <1>2, <1>3, <1>5, <1>7, SameTasks DEF Inv, AddInv, TypeOK
<1>10. SessionInv'
    BY <1>1, <1>2, <1>5 DEF Inv, SessionInv, TypeOK
<1>11. StopInv'
    BY <1>1, <1>2 DEF Inv, StopInv, TypeOK
<1> QED
    BY <1>7, <1>8, <1>9, <1>10, <1>11 DEF Inv

\* What a step on the sockets alone keeps.
LEMMA SocketsInv ==
    ASSUME Inv, WriteInv',
           UNCHANGED <<running, listening, accepting, todial, errors, table, session,
                       ready, reader, task, writer, sends>>,
           main' = main \/ (main = "joinAcceptor" /\ ~accepting /\ main' = "joinReaders"),
           wire' \in [Conn -> {"none", "offered", "live", "dead"}],
           unread' \in [Conn -> 0 .. Buffer],
           open' \in [Conn -> Thread \cup {NoThread}],
           \A c \in Conn :
              \/ wire'[c] = wire[c]
              \/ (wire[c] \in {"live", "dead"} /\ wire'[c] = "dead")
              \/ (wire[c] = "none" /\ c \notin Bootstrap /\ wire'[c] = "offered")
    PROVE  Inv'
<1>1. TypeOK'
    BY DEF Inv, TypeOK
<1>2. AddInv'
    BY SameTasks, NetworkAssumption DEF Inv, AddInv, TypeOK
<1>3. SessionInv' /\ StopInv'
    BY DEF Inv, SessionInv, StopInv
<1> QED
    BY <1>1, <1>2, <1>3 DEF Inv

\* The sockets that stop() shuts, and the remote ends.
LEMMA WireInv ==
    ASSUME Inv,
           \/ JoinAcceptor
           \/ \E c \in Conn : Offer(c) \/ RemoteRead(c) \/ RemoteClose(c)
    PROVE  Inv'
<1> USE DEF local, streams
<1>1. CASE JoinAcceptor
  <2>1. table \subseteq {c \in Conn : wire[c] \in {"live", "dead"}}
    BY DEF Inv, TypeOK, AddInv
  <2> QED
    BY <1>1, <2>1, ShutInv, SocketsInv DEF JoinAcceptor, CanJoinAcceptor
<1>2. ASSUME NEW c \in Conn, RemoteClose(c) PROVE Inv'
    BY <1>2, ShutInv, SocketsInv DEF RemoteClose
<1>3. ASSUME NEW c \in Conn, Offer(c) PROVE Inv'
  <2>1. /\ wire' = [wire EXCEPT ![c] = "offered"] /\ wire[c] = "none" /\ c \notin Bootstrap
        /\ UNCHANGED <<local, table, session, ready, reader, task, writer, streams>>
    BY <1>3 DEF Offer
  <2>2. WriteInv'
    BY <2>1, SameTasks DEF Inv, WriteInv, TypeOK
  <2> QED
    BY <2>1, <2>2, SocketsInv DEF Inv, TypeOK
<1>4. ASSUME NEW c \in Conn, RemoteRead(c) PROVE Inv'
  <2>1. unread' \in [Conn -> 0 .. Buffer]
    BY <1>4, NetworkAssumption DEF RemoteRead, Inv, TypeOK
  <2>2. WriteInv'
    BY <1>4, SameTasks DEF RemoteRead, Inv, WriteInv
  <2> QED
    BY <1>4, <2>1, <2>2, SocketsInv DEF RemoteRead, Inv, TypeOK
<1> QED
    BY <1>1, <1>2, <1>3, <1>4

-----------------------------------------------------------------------------
(* The steps of a task. *)

\* The task of one thread changes.
LEMMA TurnIs ==
    ASSUME task \in [Thread -> Task], NEW t \in Thread, NEW k \in Task, Turn(t, k)
    PROVE  /\ task' \in [Thread -> Task] /\ task'[t] = k
           /\ \A u \in Thread : u # t => task'[u] = task[u]
           /\ \A u \in Thread, c \in Conn : u # t =>
                 /\ Adding(u, c)' <=> Adding(u, c)
                 /\ Sends(u, c)' <=> Sends(u, c)
                 /\ Writes(u, c)' <=> Writes(u, c)
    BY DEF Turn, Adding, Sends, Writes

\* addPeer, by the thread that adds connections of that side.
LEMMA AddPeerInv ==
    ASSUME Inv, NEW c \in Conn, NEW t,
           t = IF c \in Bootstrap THEN Main ELSE Acceptor,
           c \in Bootstrap => c \in todial /\ todial' = todial \ {c} /\ main = "dialing",
           c \notin Bootstrap => wire[c] = "offered" /\ UNCHANGED todial /\ accepting,
           task[t] = Idle,
           AddPeer(t, c) \/ UNCHANGED <<table, wire, task>>,
           UNCHANGED <<running, listening, accepting, main, errors, session, ready,
                       reader, writer, streams>>
    PROVE  Inv'
<1> USE DEF streams
<1>1. t \in {Main, Acceptor} /\ t \in Thread /\ t \notin Conn
      /\ wire[c] \in {"none", "offered"} /\ todial' \subseteq Bootstrap
    BY ThreadsDiffer DEF Inv, TypeOK, AddInv
<1>2. CASE UNCHANGED <<table, wire, task>>
  <2>1. TypeOK'
    BY <1>1, <1>2 DEF Inv, TypeOK
  <2>2. AddInv'
    BY <1>1, <1>2, SameTasks DEF Inv, AddInv
  <2>3. SessionInv' /\ StopInv' /\ WriteInv'
    BY <1>2, SameTasks DEF Inv, SessionInv, StopInv, WriteInv
  <2> QED
    BY <2>1, <2>2, <2>3 DEF Inv
<1>3. CASE Cardinality(table) >= MaxPeers /\ AddPeer(t, c)
  <2>1. wire' = [wire EXCEPT ![c] = "dead"] /\ UNCHANGED <<table, task>>
    BY <1>3 DEF AddPeer
  <2>2. TypeOK'
    BY <1>1, <2>1 DEF Inv, TypeOK
  <2>3. AddInv'
    BY <1>1, <2>1, SameTasks DEF Inv, AddInv, TypeOK
  <2>4. SessionInv' /\ StopInv'
    BY <2>1 DEF Inv, SessionInv, StopInv
  <2>5. WriteInv'
    BY <1>1, <2>1, SameTasks DEF Inv, WriteInv, TypeOK
  <2> QED
    BY <2>2, <2>3, <2>4, <2>5 DEF Inv
<1>4. CASE ~(Cardinality(table) >= MaxPeers) /\ AddPeer(t, c)
  <2>1. PICK state \in {"live", "dead"} : wire' = [wire EXCEPT ![c] = state]
    BY <1>4 DEF AddPeer
  <2>2. table' = table \cup {c} /\ Turn(t, Greet(c))
    BY <1>4 DEF AddPeer
  <2>3. /\ task' \in [Thread -> Task] /\ task'[t] = Greet(c)
        /\ \A u \in Thread : u # t => task'[u] = task[u]
        /\ \A u \in Thread, d \in Conn : u # t =>
              /\ Adding(u, d)' <=> Adding(u, d)
              /\ Sends(u, d)' <=> Sends(u, d)
              /\ Writes(u, d)' <=> Writes(u, d)
    BY <1>1, <2>2, TurnIs, TaskKinds DEF Inv, TypeOK
  <2>4. \A d \in Conn : /\ Adding(t, d)' => d = c
                        /\ ~Sends(t, d)' /\ ~Writes(t, d)'
    BY <1>1, <2>3, TaskKinds DEF Adding, Sends, Writes
  <2>5. Cardinality(table') <= MaxPeers
    <3>1. IsFiniteSet(table) /\ Cardinality(table) \in Nat
        BY NetworkAssumption, FS_Subset, FS_CardinalityType DEF Inv, TypeOK
    <3>2. Cardinality(table \cup {c}) \in {Cardinality(table), Cardinality(table) + 1}
        BY <3>1, FS_AddElement
    <3>3. Cardinality(table \cup {c}) \in Nat
        BY <3>1, FS_AddElement, FS_CardinalityType
    <3> QED
        BY <1>4, <2>2, <3>1, <3>2, <3>3, NetworkAssumption
  <2>6. TypeOK'
    BY <1>1, <2>1, <2>2, <2>3, <2>5 DEF Inv, TypeOK
  <2>7. AddInv'
    BY <1>1, <2>1, <2>2, <2>3, <2>4 DEF Inv, AddInv, TypeOK
  <2>8. SessionInv'
    BY DEF Inv, SessionInv
  <2>9. StopInv'
    BY <1>1, <2>3, ThreadsDiffer DEF Inv, StopInv
  <2>10. WriteInv'
    <3>1. \A u \in Thread : ~Sends(u, c) /\ ~Writes(u, c)
        BY <1>1 DEF Inv, AddInv, Writes
    <3>2. \A u \in Thread, d \in Conn : Sends(u, d)' => Sends(u, d) /\ u # t /\ d # c
        BY <2>3, <2>4, <3>1
    <3>3. \A u \in Thread, d \in Conn : Writes(u, d)' => Writes(u, d) /\ u # t /\ d # c
        BY <2>3, <2>4, <3>1
    <3> QED
        BY <1>1, <2>1, <2>3, <3>2, <3>3 DEF Inv, WriteInv, TypeOK
  <2> QED
    BY <2>6, <2>7, <2>8, <2>9, <2>10 DEF Inv
<1> QED
    BY <1>2, <1>3, <1>4

\* Both threads that add.
LEMMA DialAcceptInv ==
    ASSUME Inv, NEW c \in Conn, Dial(c) \/ Accept(c)
    PROVE  Inv'
<1>1. CASE Dial(c)
    BY <1>1, AddPeerInv DEF Dial, Inv, TypeOK, CanStart
<1>2. CASE Accept(c)
    BY <1>2, AddPeerInv DEF Accept, Inv, AddInv, local, CanAccept
<1> QED
    BY <1>1, <1>2

\* A thread that is not idle may be in the middle of something: only where it
\* must be idle does it matter what it does.
LEMMA StopTurn ==
    ASSUME Inv, NEW t \in Thread, task[t] # Idle,
           UNCHANGED <<main, running, accepting>>,
           \A u \in Thread : u # t => task'[u] = task[u],
           \A c \in Conn : reader'[c] = reader[c] \/ (running /\ c # t /\ reader[c] = "none")
    PROVE  StopInv'
<1>1. \A c \in Conn : reader'[c] # "handle" =>
          reader[c] # "handle" \/ (running /\ c # t /\ reader[c] = "none")
    OBVIOUS
<1>2. \A c \in Conn : reader'[c] # "handle" => task'[c] = Idle
    BY <1>1, ThreadsDiffer DEF Inv, StopInv
<1>3. main = "stopped" => \A c \in Conn : reader'[c] \in {"none", "done"}
    BY DEF Inv, StopInv
<1> QED
    BY <1>2, <1>3, ThreadsDiffer DEF Inv, StopInv

\* onPeerConnected, and then the reader.
LEMMA ConnectedInv ==
    ASSUME Inv, NEW t \in Thread, Connected(t)
    PROVE  Inv'
<1> USE DEF local, streams
<1> DEFINE c == task[t].to
           k == Sending(c, Spawn(c))
<1>1. c \in Conn /\ task[t] = Greet(c)
    BY TaskDoes DEF Connected, Inv, TypeOK
<1>2. /\ session' = [session EXCEPT ![c] = "connected"] /\ Turn(t, k)
      /\ UNCHANGED <<local, table, wire, ready, reader, writer, streams>>
    BY DEF Connected
<1>3. Spawn(c) \in After /\ k \in After \cup SendTask /\ k \in Task
    BY <1>1, TaskKinds, SendingIs
<1>4. /\ Adding(t, c) /\ task[t] # Idle
      /\ \A d \in Conn : ~Sends(t, d) /\ ~Writes(t, d)
    BY <1>1, TaskKinds DEF Adding, Sends, Writes, After
<1>5. reader[c] = "none" /\ wire[c] \in {"live", "dead"} /\ c \notin todial
      /\ t = IF c \in Bootstrap THEN Main ELSE Acceptor
    BY <1>1, <1>4 DEF Inv, AddInv
<1> HIDE DEF k, c
<1>6. /\ task' \in [Thread -> Task] /\ task'[t] = k
      /\ \A u \in Thread : u # t => task'[u] = task[u]
      /\ \A u \in Thread, d \in Conn : u # t =>
            /\ Adding(u, d)' <=> Adding(u, d)
            /\ Sends(u, d)' <=> Sends(u, d)
            /\ Writes(u, d)' <=> Writes(u, d)
    BY <1>2, <1>3, TurnIs DEF Inv, TypeOK
<1>7. /\ \A d \in Conn : Adding(t, d)' => d = c
      /\ \A d \in Conn : Sends(t, d)' => d = c /\ k.do = "lock" /\ k.left = 2
      /\ \A d \in Conn : ~Writes(t, d)'
  <2>1. \/ k = Spawn(c)
        \/ k \in SendTask /\ k.to = c /\ k.do = "lock" /\ k.left = 2 /\ k.then = Spawn(c)
    BY <1>1, <1>3, SendingIs DEF k
  <2> QED
    BY <1>1, <1>6, <2>1, TaskKinds DEF Adding, Sends, Writes
<1>8. TypeOK'
    BY <1>1, <1>2, <1>6 DEF Inv, TypeOK
<1>9. AddInv'
  <2>1. \A u \in Thread : u # t => ~Adding(u, c)
    BY <1>1, <1>5 DEF Inv, AddInv
  <2>2. session'[c] = "connected" /\ \A d \in Conn : d # c => session'[d] = session[d]
    BY <1>1, <1>2 DEF Inv, TypeOK
  <2> QED
    BY <1>1, <1>2, <1>5, <1>6, <1>7, <2>1, <2>2 DEF Inv, AddInv
<1>10. SessionInv'
    BY <1>1, <1>2, <1>5 DEF Inv, SessionInv, TypeOK
<1>11. StopInv'
    BY <1>2, <1>4, <1>6, StopTurn
<1>12. WriteInv'
    BY <1>2, <1>6, <1>7 DEF Inv, WriteInv
<1> QED
    BY <1>8, <1>9, <1>10, <1>11, <1>12 DEF Inv

LEMMA StartReaderInv ==
    ASSUME Inv, NEW t \in Thread, StartReader(t)
    PROVE  Inv'
<1> USE DEF local, streams
<1> DEFINE c == task[t].to
<1>1. c \in Conn /\ task[t] = Spawn(c)
    BY TaskDoes DEF StartReader, Inv, TypeOK
<1>2. /\ Turn(t, Idle)
      /\ \/ ~running /\ reader' = reader
         \/ running /\ reader' = [reader EXCEPT ![c] = "receive"]
      /\ UNCHANGED <<local, table, wire, session, ready, writer, streams>>
    BY DEF StartReader
<1>3. Idle \in Task
    BY TaskKinds
<1>4. Adding(t, c) /\ task[t] # Idle /\ task[t] # Greet(c)
    BY <1>1, TaskKinds DEF Adding
<1>5. /\ reader[c] = "none" /\ wire[c] \in {"live", "dead"}
      /\ session[c] = "connected" /\ t \in {Main, Acceptor}
      /\ t = IF c \in Bootstrap THEN Main ELSE Acceptor
    BY <1>1, <1>4 DEF Inv, AddInv
<1> HIDE DEF c
<1>6. /\ task' \in [Thread -> Task] /\ task'[t] = Idle
      /\ \A u \in Thread : u # t => task'[u] = task[u]
      /\ \A u \in Thread, d \in Conn : u # t =>
            /\ Adding(u, d)' <=> Adding(u, d)
            /\ Sends(u, d)' <=> Sends(u, d)
            /\ Writes(u, d)' <=> Writes(u, d)
    BY <1>2, <1>3, TurnIs DEF Inv, TypeOK
<1>7. \A d \in Conn : ~Adding(t, d)' /\ ~Sends(t, d)' /\ ~Writes(t, d)'
    BY <1>6, TaskKinds DEF Adding, Sends, Writes
<1>8. \A d \in Conn : reader'[d] = reader[d] \/ (running /\ d = c /\ reader'[d] = "receive")
    BY <1>1, <1>2 DEF Inv, TypeOK
<1>9. TypeOK'
    BY <1>1, <1>2, <1>6 DEF Inv, TypeOK
<1>10. AddInv'
  <2>1. \A u \in Thread : u # t => ~Adding(u, c)
    BY <1>1, <1>5 DEF Inv, AddInv
  <2>2. \A u \in Thread, d \in Conn : Adding(u, d)' => u # t /\ Adding(u, d) /\ d # c
    BY <1>6, <1>7, <2>1
  <2> QED
    BY <1>1, <1>2, <1>5, <1>6, <1>7, <1>8, <2>2 DEF Inv, AddInv
<1>11. SessionInv'
    BY <1>2, <1>5, <1>8 DEF Inv, SessionInv
<1>12. StopInv'
  <2>1. \A d \in Conn : reader'[d] = reader[d] \/ (running /\ d # t /\ reader[d] = "none")
    BY <1>5, <1>8, ThreadsDiffer
  <2> QED
    BY <1>2, <1>4, <1>6, <2>1, StopTurn
<1>13. WriteInv'
    BY <1>2, <1>6, <1>7 DEF Inv, WriteInv
<1> QED
    BY <1>9, <1>10, <1>11, <1>12, <1>13 DEF Inv

\* announceBlock and the others: a thread that was idle sends.
LEMMA AnnounceInv ==
    ASSUME Inv, NEW t \in Thread, NEW c \in Conn, Announce(t, c)
    PROVE  Inv'
<1> DEFINE k == Sending(c, Idle)
<1>1. /\ task[t] = Idle /\ Turn(t, k)
      /\ \/ main = "running" /\ t \in {Miner, Main}
         \/ t \in Conn /\ reader[t] = "handle"
      /\ sends < MaxSends /\ sends' = sends + 1
      /\ UNCHANGED <<local, table, wire, session, ready, reader, writer, unread, open>>
    BY DEF Announce
<1>2. /\ \/ k = Idle
         \/ /\ k \in SendTask /\ k.to = c /\ k.do = "lock" /\ k.left = 2
            /\ k.then = Idle /\ c \in table
      /\ k \in Task
    BY TaskKinds, SendingIs
<1> HIDE DEF k
<1>3. /\ task' \in [Thread -> Task] /\ task'[t] = k
      /\ \A u \in Thread : u # t => task'[u] = task[u]
      /\ \A u \in Thread, d \in Conn : u # t =>
            /\ Adding(u, d)' <=> Adding(u, d)
            /\ Sends(u, d)' <=> Sends(u, d)
            /\ Writes(u, d)' <=> Writes(u, d)
    BY <1>1, <1>2, TurnIs DEF Inv, TypeOK
<1>4. \A d \in Conn : /\ ~Adding(t, d)' /\ ~Writes(t, d)'
                      /\ Sends(t, d)' => d = c /\ c \in table /\ k.left = 2
    BY <1>2, <1>3, TaskKinds DEF Adding, Sends, Writes
<1>5. TypeOK'
    BY <1>1, <1>3, NetworkAssumption DEF Inv, TypeOK, local
<1>6. AddInv'
    BY <1>1, <1>3, <1>4 DEF Inv, AddInv, local
<1>7. SessionInv'
    BY <1>1 DEF Inv, SessionInv, local
<1>8. StopInv'
    BY <1>1, <1>3, ThreadsDiffer DEF Inv, StopInv, local
<1>9. WriteInv'
    BY <1>1, <1>3, <1>4 DEF Inv, WriteInv
<1> QED
    BY <1>5, <1>6, <1>7, <1>8, <1>9 DEF Inv

\* send()'s steps on the connection it sends to.
LEMMA SendInv ==
    ASSUME Inv, NEW t \in Thread, SendStep(t)
    PROVE  Inv'
<1>0. task[t] \in SendTask
    BY TaskDoes DEF SendStep, LockWriter, SendPiece, SendFails, Inv, TypeOK, CanLock,
                    CanWrite, CanFail
<1>1. PICK k \in SendTask, c \in Conn :
          /\ k = task[t] /\ c = k.to /\ Sends(t, c) /\ k # Idle /\ k.then \in After
    BY <1>0, TaskKinds, SendTasks DEF Sends
<1>2. UNCHANGED <<local, table, session, ready, reader, sends>>
    BY DEF SendStep, LockWriter, SendPiece, SendFails, streams, CanLock, CanWrite,
           CanFail
<1>3. wire[c] \in {"live", "dead"}
    BY <1>1 DEF Inv, AddInv
<1>4. PICK n : /\ Turn(t, n)
               /\ \/ n = k.then
                  \/ n = [k EXCEPT !.do = "write"]
                  \/ n = [k EXCEPT !.left = 1]
    BY <1>1 DEF SendStep, LockWriter, SendPiece, SendFails, SendEnds, CanLock,
                CanWrite, CanFail
<1>5. /\ \/ n = k.then /\ n \in After
         \/ n \in SendTask /\ n.to = c /\ n.then = k.then
      /\ n \in Task
  <2>1. CASE n = k.then
    BY <1>1, <2>1, TaskKinds
  <2>2. CASE n = [k EXCEPT !.do = "write"] \/ n = [k EXCEPT !.left = 1]
    <3>1. n \in SendTask /\ n.to = k.to /\ n.then = k.then
        BY <2>2, SendTasks
    <3> QED
        BY <1>1, <3>1, TaskKinds
  <2> QED
    BY <1>4, <2>1, <2>2
<1>6. /\ task' \in [Thread -> Task] /\ task'[t] = n
      /\ \A u \in Thread : u # t => task'[u] = task[u]
      /\ \A u \in Thread, d \in Conn : u # t =>
            /\ Adding(u, d)' <=> Adding(u, d)
            /\ Sends(u, d)' <=> Sends(u, d)
            /\ Writes(u, d)' <=> Writes(u, d)
    BY <1>4, <1>5, TurnIs DEF Inv, TypeOK
<1>7. \A d \in Conn : /\ Adding(t, d)' => Adding(t, d) /\ k # Greet(d) /\ n # Greet(d)
                      /\ Sends(t, d)' => d = c
  <2>1. \A d \in Conn : k.then = Spawn(d) => Adding(t, d) /\ k # Greet(d) /\ k.then # Greet(d)
    BY <1>1, TaskKinds DEF Adding
  <2>2. \A d \in Conn : k.then # Greet(d)
    BY <1>1, TaskKinds
  <2>3. CASE n = k.then /\ n \in After
    BY <1>6, <2>1, <2>2, <2>3, TaskKinds DEF Adding, Sends, After
  <2>4. CASE n \in SendTask /\ n.to = c /\ n.then = k.then
    BY <1>6, <2>1, <2>4, TaskKinds DEF Adding, Sends
  <2> QED
    BY <1>5, <2>3, <2>4
<1>8. /\ \A d \in Conn : \/ wire'[d] = wire[d]
                         \/ (wire[d] \in {"live", "dead"} /\ wire'[d] = "dead")
      /\ wire' \in [Conn -> {"none", "offered", "live", "dead"}]
      /\ unread' \in [Conn -> 0 .. Buffer]
      /\ open' \in [Conn -> Thread \cup {NoThread}]
      /\ writer' \in [Conn -> Thread \cup {NoThread}]
  <2>1. CASE LockWriter(t)
    BY <1>1, <2>1 DEF LockWriter, streams, Inv, TypeOK, CanLock
  <2>2. CASE SendPiece(t)
    BY <1>1, <1>3, <2>2, NetworkAssumption
    DEF SendPiece, SendEnds, Shut, Inv, TypeOK, CanWrite
  <2>3. CASE SendFails(t)
    BY <1>1, <2>3 DEF SendFails, SendEnds, streams, Inv, TypeOK, CanFail
  <2> QED
    BY <2>1, <2>2, <2>3 DEF SendStep
<1>9. TypeOK'
    BY <1>2, <1>6, <1>8 DEF Inv, TypeOK, local
<1>10. AddInv'
    BY <1>1, <1>2, <1>3, <1>6, <1>7, <1>8 DEF Inv, AddInv, local
<1>11. SessionInv'
    BY <1>2 DEF Inv, SessionInv, local
<1>12. StopInv'
    BY <1>1, <1>2, <1>6, StopTurn DEF local
<1>13. WriteInv'
  <2>1. \A d \in Conn : d # c => writer'[d] = writer[d] /\ open'[d] = open[d] /\ wire'[d] = wire[d]
    BY <1>1 DEF SendStep, LockWriter, SendPiece, SendFails, SendEnds, Shut, streams,
                Inv, TypeOK, CanLock, CanWrite, CanFail
  <2>2. ASSUME \A u \in Thread : u # t => ~Writes(u, c),
               Sends(t, c)' /\ task'[t].do = "lock" => task'[t].left = 2,
               Writes(t, c)' =>
                  /\ writer'[c] = t
                  /\ wire'[c] = "live" => open'[c] = IF task'[t].left = 2 THEN NoThread ELSE t,
               wire'[c] # "live" \/ writer'[c] = NoThread => open'[c] = NoThread
        PROVE  WriteInv'
    <3>1. ASSUME NEW u \in Thread, NEW d \in Conn, u # t
          PROVE  /\ Sends(u, d)' /\ task'[u].do = "lock" => task'[u].left = 2
                 /\ Writes(u, d)' =>
                      /\ writer'[d] = u
                      /\ wire'[d] = "live" =>
                            open'[d] = IF task'[u].left = 2 THEN NoThread ELSE u
        BY <1>6, <2>1, <2>2, <3>1 DEF Inv, WriteInv
    <3>2. ASSUME NEW d \in Conn
          PROVE  /\ Sends(t, d)' /\ task'[t].do = "lock" => task'[t].left = 2
                 /\ Writes(t, d)' =>
                      /\ writer'[d] = t
                      /\ wire'[d] = "live" =>
                            open'[d] = IF task'[t].left = 2 THEN NoThread ELSE t
        BY <1>7, <2>2, <3>2 DEF Writes, Sends
    <3>3. ASSUME NEW d \in Conn
          PROVE  wire'[d] # "live" \/ writer'[d] = NoThread => open'[d] = NoThread
        BY <2>1, <2>2, <3>3 DEF Inv, WriteInv
    <3>4. ASSUME NEW u \in Thread, NEW d \in Conn
          PROVE  /\ Sends(u, d)' /\ task'[u].do = "lock" => task'[u].left = 2
                 /\ Writes(u, d)' =>
                      /\ writer'[d] = u
                      /\ wire'[d] = "live" =>
                            open'[d] = IF task'[u].left = 2 THEN NoThread ELSE u
      <4>1. CASE u # t
        BY <3>1, <4>1
      <4>2. CASE u = t
        BY <3>2, <4>2 DEF Writes, Sends
      <4> QED
        BY <4>1, <4>2
    <3> QED
        BY <3>3, <3>4 DEF WriteInv
  <2>3. CASE LockWriter(t)
    <3>0. /\ writer[c] = NoThread /\ writer' = [writer EXCEPT ![c] = t] /\ k.do = "lock"
          /\ Turn(t, [k EXCEPT !.do = "write"]) /\ open'[c] = open[c] /\ wire'[c] = wire[c]
        BY <1>1, <2>3 DEF LockWriter, streams, CanLock
    <3>1. /\ writer[c] = NoThread /\ writer'[c] = t /\ k.left = 2
          /\ n = [k EXCEPT !.do = "write"] /\ open'[c] = open[c] /\ wire'[c] = wire[c]
      <4>1. n = [k EXCEPT !.do = "write"]
        BY <1>4, <3>0 DEF Turn, Inv, TypeOK
      <4>2. k.left = 2
        BY <1>1, <3>0 DEF Inv, WriteInv
      <4> QED
        BY <1>1, <3>0, <4>1, <4>2 DEF Inv, TypeOK
    <3>2. n.left = 2 /\ n.do = "write"
        BY <1>1, <3>1, SendTasks
    <3>3. \A u \in Thread : u # t => ~Writes(u, c)
        BY <1>1, <3>1, ThreadsDiffer DEF Inv, WriteInv
    <3>4. open[c] = NoThread /\ t # NoThread
        BY <1>1, <3>1, ThreadsDiffer DEF Inv, WriteInv
    <3> QED
        BY <1>6, <2>2, <3>1, <3>2, <3>3, <3>4 DEF Inv, WriteInv
  <2>4. CASE SendPiece(t) \/ SendFails(t)
    <3>1. Writes(t, c) /\ writer[c] = t
        BY <1>1, <2>4 DEF SendPiece, SendFails, Writes, Inv, WriteInv, CanWrite,
                          CanFail
    <3>2. \A u \in Thread : u # t => ~Writes(u, c)
        BY <1>1, <3>1 DEF Inv, WriteInv
    <3>3. CASE SendPiece(t) /\ k.left = 2
      <4>1. /\ Turn(t, [k EXCEPT !.left = 1]) /\ open' = [open EXCEPT ![c] = t]
            /\ wire[c] = "live" /\ wire' = wire /\ writer' = writer
        BY <1>1, <3>3 DEF SendPiece, CanWrite
      <4>2. n = [k EXCEPT !.left = 1] /\ open'[c] = t
        BY <1>1, <1>4, <4>1 DEF Turn, Inv, TypeOK
      <4>3. n.left = 1 /\ n.do = k.do /\ k.do = "write"
        BY <1>1, <3>1, <4>2, SendTasks DEF Writes
      <4> QED
        BY <1>6, <2>2, <3>1, <3>2, <4>1, <4>2, <4>3, ThreadsDiffer
    <3>4. CASE ~(SendPiece(t) /\ k.left = 2)
      <4>1. Turn(t, k.then) /\ writer' = [writer EXCEPT ![c] = NoThread]
        BY <1>1, <2>4, <3>4 DEF SendPiece, SendFails, SendEnds, CanWrite, CanFail
      <4>2. n = k.then /\ writer'[c] = NoThread
        BY <1>1, <1>4, <4>1 DEF Turn, Inv, TypeOK
      <4>3. ~Sends(t, c)' /\ ~Writes(t, c)'
        BY <1>1, <1>6, <4>2, TaskKinds DEF Sends, Writes, After
      <4>4. open'[c] = NoThread
        BY <1>1, <2>4, <3>4 DEF SendPiece, SendFails, Shut, streams, Inv, TypeOK, WriteInv,
                                CanWrite, CanFail
      <4> QED
        BY <2>2, <3>2, <4>3, <4>4
    <3> QED
        BY <3>3, <3>4
  <2> QED
    BY <2>3, <2>4 DEF SendStep
<1> QED
    BY <1>9, <1>10, <1>11, <1>12, <1>13 DEF Inv

-----------------------------------------------------------------------------
\* A node that starts has no peer, and every thread is idle.
LEMMA InitInv == Init => Inv
<1> SUFFICES ASSUME Init PROVE Inv
    OBVIOUS
<1>1. \A t \in Thread : task[t] = Idle
    BY DEF Init
<1>2. \A t \in Thread, c \in Conn : ~Adding(t, c) /\ ~Sends(t, c) /\ ~Writes(t, c)
    BY <1>1, TaskKinds DEF Adding, Sends, Writes
<1>3. TypeOK
  <2>1. Cardinality(table) <= MaxPeers
    BY FS_EmptySet, NetworkAssumption DEF Init
  <2>2. task \in [Thread -> Task]
    BY TaskKinds DEF Init
  <2> QED
    BY <2>1, <2>2, NetworkAssumption DEF Init, TypeOK
<1>4. AddInv
    BY <1>2 DEF Init, AddInv
<1>5. SessionInv
    BY DEF Init, SessionInv
<1>6. StopInv
    BY <1>1, ThreadsDiffer DEF Init, StopInv
<1>7. WriteInv
    BY <1>2 DEF Init, WriteInv
<1> QED
    BY <1>3, <1>4, <1>5, <1>6, <1>7 DEF Inv

\* Every step keeps the invariant.
LEMMA NextInv == Inv /\ [Next]_vars => Inv'
<1> SUFFICES ASSUME Inv, [Next]_vars PROVE Inv'
    OBVIOUS
<1>1. CASE MainStep
    BY <1>1, MainInv, DialAcceptInv, ConnectedInv, StartReaderInv, SendInv, WireInv,
       ThreadsDiffer DEF MainStep
<1>2. CASE AcceptStep
    BY <1>2, MainInv, DialAcceptInv, ConnectedInv, StartReaderInv, SendInv,
       ThreadsDiffer DEF AcceptStep
<1>3. CASE SendStep(Miner) \/ RequestStop
    BY <1>3, MainInv, SendInv, ThreadsDiffer
<1>4. ASSUME NEW c \in Conn, ReaderStep(c) \/ Receive(c) PROVE Inv'
    BY <1>4, ReaderInv, SendInv, ThreadsDiffer DEF ReaderStep
<1>5. ASSUME NEW c \in Conn, Offer(c) \/ RemoteRead(c) \/ RemoteClose(c) PROVE Inv'
    BY <1>5, WireInv
<1>6. ASSUME NEW t \in Thread, NEW c \in Conn, Announce(t, c) PROVE Inv'
    BY <1>6, AnnounceInv
<1>7. CASE UNCHANGED vars
  <2>1. TypeOK' /\ StopInv' /\ SessionInv'
    BY <1>7 DEF vars, local, streams, Inv, TypeOK, StopInv, SessionInv
  <2>2. AddInv' /\ WriteInv'
    BY <1>7, SameTasks DEF vars, local, streams, Inv, AddInv, WriteInv
  <2> QED
    BY <2>1, <2>2 DEF Inv
<1> QED
    BY <1>1, <1>2, <1>3, <1>4, <1>5, <1>6, <1>7 DEF Next

\* What the invariant says of the properties.
LEMMA InvImplies == Inv => TypeOK /\ ObserverIsInOrder /\ FramesStayWhole
<1> SUFFICES ASSUME Inv PROVE TypeOK /\ ObserverIsInOrder /\ FramesStayWhole
    OBVIOUS
<1>1. ObserverIsInOrder
  <2>1. main = "stopped" => \A t \in Thread : task[t] = Idle
    BY ThreadsDiffer DEF Inv, StopInv, Thread
  <2> QED
    BY <2>1 DEF Inv, SessionInv, StopInv, ObserverIsInOrder
<1>2. FramesStayWhole
  <2> SUFFICES ASSUME NEW t \in Thread, task[t].do = "write", wire[task[t].to] = "live"
               PROVE  open[task[t].to] = IF task[t].left = 2 THEN NoThread ELSE t
    BY DEF FramesStayWhole
  <2>1. task[t].to \in Conn /\ Writes(t, task[t].to)
    BY TaskDoes, SendTasks DEF Inv, TypeOK, Writes, Sends
  <2> QED
    BY <2>1 DEF Inv, WriteInv
<1> QED
    BY <1>1, <1>2 DEF Inv

-----------------------------------------------------------------------------
(* What each thread waits for. *)

\* A peer whose reader has yet to run has been sent nothing but its Status, by the
\* thread that adds it; others send to peers whose readers run.
RoomInv ==
    \A t \in Thread, c \in Conn :
        /\ task[t] = Greet(c) => unread[c] = 0
        /\ Sends(t, c) =>
              \/ task[t].then = Spawn(c) /\ unread[c] <= 2 - task[t].left
              \/ /\ task[t].then = Idle /\ reader[c] # "none"
                 /\ t # Acceptor /\ (t = Main => main # "dialing")

\* A mutex is held by a thread that writes.
HoldInv ==
    \A c \in Conn :
        /\ c \in ready => reader[c] # "none"
        /\ writer[c] # NoThread => writer[c] \in Thread /\ Writes(writer[c], c)
        /\ wire[c] \in {"none", "offered"} => unread[c] = 0

\* The listener ends with the node, the accept thread with the listener or after a
\* failure, and the sockets of the table before its readers are joined.
EndInv ==
    /\ listening = running
    /\ running /\ errors = 0 => accepting
    /\ main = "joinReaders" => \A c \in table : wire[c] = "dead"

MoveInv == RoomInv /\ HoldInv /\ EndInv

\* The steps that leave every thread's task alone.
LEMMA StillMoves ==
    ASSUME Inv, Inv', MoveInv, UNCHANGED <<task, writer>>, EndInv',
           \A c \in Conn :
              /\ reader[c] # "none" => reader'[c] # "none"
              /\ unread'[c] <= unread[c]
              /\ wire'[c] \in {"none", "offered"} => wire[c] \in {"none", "offered"}
              /\ c \in ready' => c \in ready \/ reader'[c] # "none",
           main' = "dialing" => main = "dialing"
    PROVE  MoveInv'
<1>0. \A c \in Conn : unread[c] \in Nat /\ unread'[c] \in Nat
    BY NetworkAssumption DEF Inv, TypeOK
<1>1. RoomInv'
  <2> SUFFICES ASSUME NEW t \in Thread, NEW c \in Conn
               PROVE  /\ task[t] = Greet(c) => unread'[c] = 0
                      /\ Sends(t, c) =>
                            \/ task[t].then = Spawn(c) /\ unread'[c] <= 2 - task[t].left
                            \/ /\ task[t].then = Idle /\ reader'[c] # "none"
                               /\ t # Acceptor /\ (t = Main => main' # "dialing")
    BY SameTasks DEF RoomInv, Greet, Spawn, Idle
  <2>1. task[t] = Greet(c) => unread'[c] = 0
    BY <1>0 DEF MoveInv, RoomInv
  <2>2. ASSUME Sends(t, c), task[t].then = Spawn(c), unread[c] <= 2 - task[t].left
        PROVE  unread'[c] <= 2 - task[t].left
    <3>1. task[t].left \in {1, 2}
        BY <2>2, SendTasks DEF Sends
    <3>2. unread'[c] <= unread[c]
        OBVIOUS
    <3> QED
        BY <1>0, <2>2, <3>1, <3>2
  <2> QED
    BY <2>1, <2>2 DEF MoveInv, RoomInv
<1>2. HoldInv'
  <2>1. ASSUME NEW c \in Conn, writer[c] # NoThread
        PROVE  writer[c] \in Thread /\ Writes(writer[c], c)'
    BY <2>1, SameTasks DEF MoveInv, HoldInv
  <2>2. ASSUME NEW c \in Conn, wire'[c] \in {"none", "offered"} PROVE unread'[c] = 0
    BY <1>0, <2>2 DEF MoveInv, HoldInv
  <2> QED
    BY <2>1, <2>2 DEF MoveInv, HoldInv
<1> QED
    BY <1>1, <1>2 DEF MoveInv

\* Starting, stopping, readers and remote ends.
LEMMA OthersMove ==
    ASSUME Inv, Inv', MoveInv,
           \/ Started \/ RpcFails \/ AcceptEnds \/ RequestStop
           \/ JoinMiner \/ JoinAcceptor \/ JoinReaders
           \/ \E c \in Conn :
                 \/ RemovePeer(c) \/ Disconnected(c) \/ Receive(c) \/ ReadFails(c)
                 \/ HandlerEnds(c) \/ Offer(c) \/ RemoteRead(c) \/ RemoteClose(c)
    PROVE  MoveInv'
<1> USE DEF local, streams, StopAccepting
<1>0. \A c \in Conn : unread[c] \in Nat
    BY NetworkAssumption DEF Inv, TypeOK
<1>1. CASE Started \/ RpcFails \/ RequestStop \/ JoinMiner
  <2>1. /\ UNCHANGED <<task, writer, reader, unread, wire, ready, table, accepting, errors>>
        /\ main' \notin {"dialing", "joinReaders"}
        /\ UNCHANGED <<running, listening>> \/ (~running' /\ ~listening')
    BY <1>1 DEF Started, RpcFails, RequestStop, JoinMiner, CanStart, CanJoinMiner
  <2>2. EndInv'
    BY <2>1 DEF MoveInv, EndInv, Inv, TypeOK
  <2> QED
    BY <1>0, <2>1, <2>2, StillMoves
<1>2. CASE AcceptEnds
  <2>1. /\ UNCHANGED <<task, writer, reader, unread, wire, ready, table, main, running,
                       listening>>
        /\ errors' = IF running /\ listening THEN errors + 1 ELSE errors
    BY <1>2 DEF AcceptEnds, CanEndAccepting
  <2>2. running' => errors' # 0
    BY <2>1, NetworkAssumption DEF MoveInv, EndInv, Inv, TypeOK
  <2>3. EndInv'
    BY <2>1, <2>2 DEF MoveInv, EndInv
  <2> QED
    BY <1>0, <2>1, <2>3, StillMoves
<1>3. CASE JoinAcceptor
  <2>1. /\ UNCHANGED <<task, writer, reader, ready, table, running, listening, accepting,
                       errors>>
        /\ main' = "joinReaders" /\ Shut(table)
    BY <1>3 DEF JoinAcceptor, CanJoinAcceptor
  <2>2. EndInv'
    BY <2>1 DEF Shut, MoveInv, EndInv, Inv, TypeOK
  <2>3. \A c \in Conn : /\ unread'[c] <= unread[c]
                        /\ wire'[c] \in {"none", "offered"} => wire[c] \in {"none", "offered"}
    BY <1>0, <2>1 DEF Shut
  <2> QED
    BY <2>1, <2>2, <2>3, StillMoves
<1>4. CASE JoinReaders
  <2>1. /\ UNCHANGED <<task, writer, reader, unread, wire, ready, running, listening,
                       accepting, errors>>
        /\ main' = "stopped"
    BY <1>4 DEF JoinReaders, CanJoinReaders
  <2>2. EndInv'
    BY <2>1 DEF MoveInv, EndInv
  <2> QED
    BY <1>0, <2>1, <2>2, StillMoves
<1>5. ASSUME NEW c \in Conn,
             \/ RemovePeer(c) \/ Disconnected(c) \/ Receive(c) \/ ReadFails(c)
             \/ HandlerEnds(c) \/ Offer(c) \/ RemoteRead(c) \/ RemoteClose(c)
      PROVE  MoveInv'
  <2>1. UNCHANGED <<local, task, writer>> /\ table' \subseteq table
    BY <1>5 DEF RemovePeer, Disconnected, Receive, ReadFails, HandlerEnds, Offer,
                RemoteRead, RemoteClose, CanEndReading, CanReturn
  <2>2. /\ reader' = reader \/ \E at \in {"receive", "handle", "remove", "forget", "done"} :
                                  reader' = [reader EXCEPT ![c] = at]
        /\ ready' \subseteq ready \/ (ready' = ready \cup {c} /\ reader[c] # "none")
    BY <1>5 DEF RemovePeer, Disconnected, Receive, ReadFails, HandlerEnds, Offer,
                RemoteRead, RemoteClose, CanEndReading, CanReturn
  <2>3. \/ UNCHANGED <<wire, unread>>
        \/ Shut({c})
        \/ /\ UNCHANGED unread
           /\ wire[c] = "none" /\ wire' = [wire EXCEPT ![c] = "offered"]
        \/ unread' = [unread EXCEPT ![c] = @ - 1] /\ UNCHANGED wire
    BY <1>5 DEF RemovePeer, Disconnected, Receive, ReadFails, HandlerEnds, Offer,
                RemoteRead, RemoteClose, CanEndReading, CanReturn
  <2>4. \A d \in Conn : /\ unread'[d] <= unread[d]
                        /\ wire'[d] \in {"none", "offered"} => wire[d] \in {"none", "offered"}
                        /\ wire[d] = "dead" => wire'[d] = "dead"
    BY <1>0, <2>3 DEF Shut, Inv, TypeOK
  <2>5. \A d \in Conn : /\ reader[d] # "none" => reader'[d] # "none"
                        /\ d \in ready' => d \in ready \/ reader'[d] # "none"
    BY <2>2 DEF Inv, TypeOK
  <2>6. EndInv'
    BY <2>1, <2>4 DEF MoveInv, EndInv, Inv, TypeOK
  <2> QED
    BY <2>1, <2>4, <2>5, <2>6, StillMoves
<1> QED
    BY <1>1, <1>2, <1>3, <1>4, <1>5

\* addPeer: what is added has been sent nothing.
LEMMA AddPeerMoves ==
    ASSUME Inv, Inv', MoveInv, NEW c \in Conn, NEW t \in {Main, Acceptor},
           wire[c] \in {"none", "offered"}, task[t] = Idle,
           main \in {"dialing", "running"} \/ t = Acceptor,
           main = "joinReaders" => t # Acceptor,
           AddPeer(t, c) \/ UNCHANGED <<table, wire, task>>,
           UNCHANGED <<running, listening, accepting, main, errors, session, ready,
                       reader, writer, streams>>
    PROVE  MoveInv'
<1> USE DEF streams
<1>1. t \in Thread /\ unread[c] = 0 /\ main # "joinReaders"
    BY ThreadsDiffer DEF MoveInv, HoldInv
<1>2. \A d \in Conn : wire'[d] \in {"none", "offered"} => wire[d] \in {"none", "offered"}
    BY DEF AddPeer, Inv, TypeOK
<1>3. EndInv'
    BY <1>1 DEF MoveInv, EndInv
<1>4. \A d \in Conn : unread[d] \in Nat
    BY NetworkAssumption DEF Inv, TypeOK
<1>5. CASE UNCHANGED task
    BY <1>2, <1>3, <1>4, <1>5, StillMoves
<1>6. CASE Turn(t, Greet(c))
  <2>1. /\ task'[t] = Greet(c)
        /\ \A u \in Thread : u # t => task'[u] = task[u]
        /\ \A u \in Thread, d \in Conn : u # t =>
              (Sends(u, d)' <=> Sends(u, d)) /\ (Writes(u, d)' <=> Writes(u, d))
    BY <1>1, <1>6, TurnIs, TaskKinds DEF Inv, TypeOK
  <2>2. \A d \in Conn : /\ ~Sends(t, d) /\ ~Writes(t, d) /\ ~Sends(t, d)'
                        /\ task'[t] = Greet(d) => d = c
    BY <2>1, TaskKinds DEF Sends, Writes
  <2>3. RoomInv'
    <3> SUFFICES ASSUME NEW u \in Thread, NEW d \in Conn
                 PROVE  /\ task'[u] = Greet(d) => unread[d] = 0
                        /\ Sends(u, d)' =>
                              \/ task'[u].then = Spawn(d) /\ unread[d] <= 2 - task'[u].left
                              \/ /\ task'[u].then = Idle /\ reader[d] # "none"
                                 /\ u # Acceptor /\ (u = Main => main # "dialing")
        BY DEF RoomInv, Greet, Spawn, Idle
    <3>1. CASE u = t
        BY <1>1, <2>2, <3>1
    <3>2. CASE u # t
        BY <2>1, <3>2 DEF MoveInv, RoomInv
    <3> QED
        BY <3>1, <3>2
  <2>4. HoldInv'
    <3>1. \A d \in Conn : writer[d] # NoThread =>
              writer[d] \in Thread /\ Writes(writer[d], d) /\ writer[d] # t
        BY <2>2 DEF MoveInv, HoldInv
    <3>2. \A d \in Conn : writer'[d] # NoThread =>
              writer'[d] \in Thread /\ Writes(writer[d], d)'
        BY <2>1, <3>1
    <3> QED
        BY <1>2, <3>2 DEF MoveInv, HoldInv, Writes, Sends
  <2> QED
    BY <1>3, <2>3, <2>4 DEF MoveInv
<1> QED
    BY <1>5, <1>6 DEF AddPeer

LEMMA DialAcceptMoves ==
    ASSUME Inv, Inv', MoveInv, NEW c \in Conn, Dial(c) \/ Accept(c)
    PROVE  MoveInv'
<1>1. CASE Dial(c)
    BY <1>1, AddPeerMoves DEF Dial, Inv, AddInv, CanStart
<1>2. CASE Accept(c)
    BY <1>2, AddPeerMoves DEF Accept, local, Inv, StopInv, CanAccept
<1> QED
    BY <1>1, <1>2

\* A thread whose task changes, when no mutex is taken and nothing is sent.
LEMMA TurnMoves ==
    ASSUME Inv, Inv', MoveInv, NEW t \in Thread, NEW k \in Task, Turn(t, k),
           \A c \in Conn : ~Writes(t, c) /\ k # Greet(c),
           \A c \in Conn : k \in SendTask /\ k.to = c =>
              \/ k.then = Spawn(c) /\ unread[c] = 0 /\ k.left = 2
              \/ /\ k.then = Idle /\ reader[c] # "none"
                 /\ t # Acceptor /\ (t = Main => main # "dialing"),
           \A c \in Conn : reader[c] # "none" => reader'[c] # "none",
           UNCHANGED <<local, table, wire, ready, writer, unread>>
    PROVE  MoveInv'
<1>1. /\ task'[t] = k
      /\ \A u \in Thread : u # t => task'[u] = task[u]
      /\ \A u \in Thread, d \in Conn : u # t =>
            (Sends(u, d)' <=> Sends(u, d)) /\ (Writes(u, d)' <=> Writes(u, d))
    BY TurnIs DEF Inv, TypeOK
<1>2. RoomInv'
  <2> SUFFICES ASSUME NEW u \in Thread, NEW d \in Conn
               PROVE  /\ task'[u] = Greet(d) => unread[d] = 0
                      /\ Sends(u, d)' =>
                            \/ task'[u].then = Spawn(d) /\ unread[d] <= 2 - task'[u].left
                            \/ /\ task'[u].then = Idle /\ reader'[d] # "none"
                               /\ u # Acceptor /\ (u = Main => main # "dialing")
      BY DEF RoomInv, Greet, Spawn, Idle, local
  <2>1. CASE u = t
    <3>1. task'[u] # Greet(d)
        BY <1>1, <2>1
    <3>2. ASSUME Sends(u, d)'
          PROVE  \/ task'[u].then = Spawn(d) /\ unread[d] <= 2 - task'[u].left
                 \/ /\ task'[u].then = Idle /\ reader'[d] # "none"
                    /\ u # Acceptor /\ (u = Main => main # "dialing")
        BY <1>1, <2>1, <3>2 DEF Sends
    <3> QED
        BY <3>1, <3>2
  <2>2. CASE u # t
      BY <1>1, <2>2 DEF MoveInv, RoomInv
  <2> QED
      BY <2>1, <2>2
<1>3. HoldInv'
  <2>1. \A d \in Conn : writer[d] # NoThread =>
            writer[d] \in Thread /\ Writes(writer[d], d) /\ writer[d] # t
      BY DEF MoveInv, HoldInv
  <2>2. \A d \in Conn : writer'[d] # NoThread =>
            writer'[d] \in Thread /\ Writes(writer[d], d)'
      BY <1>1, <2>1
  <2> QED
      BY <2>2 DEF MoveInv, HoldInv, Writes, Sends
<1>4. EndInv'
    BY DEF MoveInv, EndInv, local
<1> QED
    BY <1>2, <1>3, <1>4 DEF MoveInv

\* onPeerConnected, the start of a reader, and a frame that is announced.
LEMMA TurnsMove ==
    ASSUME Inv, Inv', MoveInv, NEW t \in Thread,
           Connected(t) \/ StartReader(t) \/ \E c \in Conn : Announce(t, c)
    PROVE  MoveInv'
<1> USE DEF streams
<1>1. CASE Connected(t)
  <2> DEFINE c == task[t].to
  <2>1. c \in Conn /\ task[t] = Greet(c)
    BY <1>1, TaskDoes DEF Connected, Inv, TypeOK
  <2> DEFINE k == Sending(c, Spawn(c))
  <2>2. /\ Turn(t, k)
        /\ UNCHANGED <<local, table, wire, ready, reader, writer, unread>>
    BY <1>1 DEF Connected
  <2>3. unread[c] = 0 /\ \A d \in Conn : ~Writes(t, d)
    BY <2>1, TaskKinds DEF MoveInv, RoomInv, Writes, Sends
  <2>4. Spawn(c) \in After /\ k \in Task /\ \A d \in Conn : k # Greet(d)
    BY <2>1, TaskKinds, SendingIs
  <2>5. k \in SendTask => k.to = c /\ k.then = Spawn(c) /\ k.left = 2
    BY <2>1, <2>4, TaskKinds, SendingIs
  <2> HIDE DEF c, k
  <2> QED
    BY <2>1, <2>2, <2>3, <2>4, <2>5, TurnMoves
<1>2. CASE StartReader(t)
  <2>1. /\ Turn(t, Idle)
        /\ UNCHANGED <<local, table, wire, ready, writer, unread>>
        /\ reader' = reader \/ reader' = [reader EXCEPT ![task[t].to] = "receive"]
    BY <1>2 DEF StartReader
  <2>2. \A d \in Conn : ~Writes(t, d) /\ Idle # Greet(d)
    BY <1>2 DEF StartReader, Writes, Sends, Idle, Greet
  <2>3. \A d \in Conn : reader[d] # "none" => reader'[d] # "none"
    BY <2>1 DEF Inv, TypeOK
  <2> QED
    BY <2>1, <2>2, <2>3, TaskKinds, TurnMoves
<1>3. ASSUME NEW c \in Conn, Announce(t, c) PROVE MoveInv'
  <2> DEFINE k == Sending(c, Idle)
  <2>1. /\ task[t] = Idle /\ Turn(t, k) /\ c \in ready
        /\ \/ main = "running" /\ t \in {Miner, Main}
           \/ t \in Conn
        /\ UNCHANGED <<local, table, wire, ready, reader, writer, unread>>
    BY <1>3 DEF Announce
  <2>2. /\ k \in Task /\ \A d \in Conn : k # Greet(d)
        /\ k \in SendTask => k.to = c /\ k.then = Idle
    BY TaskKinds, SendingIs
  <2>3. \A d \in Conn : ~Writes(t, d)
    BY <2>1, TaskKinds DEF Writes, Sends
  <2>4. reader[c] # "none" /\ t # Acceptor /\ (t = Main => main # "dialing")
    BY <2>1, ThreadsDiffer DEF MoveInv, HoldInv
  <2> HIDE DEF k
  <2> QED
    BY <2>1, <2>2, <2>3, <2>4, TurnMoves
<1> QED
    BY <1>1, <1>2, <1>3

\* While a thread adds a peer, nobody else sends to it.
LEMMA OnlyAdderSends ==
    ASSUME Inv, MoveInv, NEW t \in Thread, NEW c \in Conn, Sends(t, c),
           NEW u \in Thread, u # t
    PROVE  task[u] # Greet(c) /\ ~(Sends(u, c) /\ task[u].then = Spawn(c))
<1> SUFFICES ASSUME task[u] = Greet(c) \/ (Sends(u, c) /\ task[u].then = Spawn(c))
             PROVE  FALSE
    OBVIOUS
<1>1. Adding(u, c)
    BY DEF Adding, Sends
<1>2. reader[c] = "none" /\ (Adding(t, c) => t = u)
    BY <1>1 DEF Inv, AddInv
<1>3. task[t].then = Spawn(c)
    BY <1>2 DEF MoveInv, RoomInv
<1>4. Adding(t, c)
    BY <1>3 DEF Adding, Sends
<1> QED
    BY <1>2, <1>4

\* send()'s steps.
LEMMA SendMoves ==
    ASSUME Inv, Inv', MoveInv, NEW t \in Thread, SendStep(t)
    PROVE  MoveInv'
<1>0. task[t] \in SendTask
    BY TaskDoes DEF SendStep, LockWriter, SendPiece, SendFails, Inv, TypeOK, CanLock,
                    CanWrite, CanFail
<1>1. PICK k \in SendTask, c \in Conn :
          /\ k = task[t] /\ c = k.to /\ Sends(t, c) /\ k.left \in {1, 2}
          /\ \A d \in Conn : Sends(t, d) => d = c
    BY <1>0, SendTasks DEF Sends
<1>2. UNCHANGED <<local, table, session, ready, reader, sends>>
    BY DEF SendStep, LockWriter, SendPiece, SendFails, streams, CanLock, CanWrite,
           CanFail
<1>3. wire[c] \in {"live", "dead"}
    BY <1>1 DEF Inv, AddInv
<1>4. \A d \in Conn : unread[d] \in Nat /\ unread'[d] \in Nat
    BY NetworkAssumption DEF Inv, TypeOK
<1>5. PICK n \in Task :
          /\ Turn(t, n) /\ \A d \in Conn : n # Greet(d)
          /\ \/ LockWriter(t) /\ n = [k EXCEPT !.do = "write"]
             \/ SendPiece(t) /\ k.left = 2 /\ n = [k EXCEPT !.left = 1]
             \/ /\ \/ SendPiece(t) /\ k.left = 1
                   \/ SendFails(t)
                /\ n = k.then
  <2>0. /\ \A n \in SendTask \cup After : n \in Task /\ \A d \in Conn : n # Greet(d)
        /\ [k EXCEPT !.do = "write"] \in SendTask /\ [k EXCEPT !.left = 1] \in SendTask
        /\ k.then \in After
    BY SendTasks, TaskKinds
  <2>1. CASE LockWriter(t)
    <3>1. Turn(t, [k EXCEPT !.do = "write"])
        BY <1>1, <2>1 DEF LockWriter, CanLock
    <3> QED
        BY <2>0, <2>1, <3>1
  <2>2. CASE SendPiece(t) /\ k.left = 2
    <3>1. Turn(t, [k EXCEPT !.left = 1])
        BY <1>1, <2>2 DEF SendPiece, CanWrite
    <3> QED
        BY <2>0, <2>2, <3>1
  <2>3. CASE (SendPiece(t) /\ k.left = 1) \/ SendFails(t)
    <3>1. Turn(t, k.then)
        BY <1>1, <2>3 DEF SendPiece, SendFails, SendEnds, CanWrite, CanFail
    <3> QED
        BY <2>0, <2>3, <3>1
  <2> QED
    BY <1>1, <2>1, <2>2, <2>3 DEF SendStep
<1>6. /\ task'[t] = n
      /\ \A u \in Thread : u # t => task'[u] = task[u]
      /\ \A u \in Thread, d \in Conn : u # t =>
            (Sends(u, d)' <=> Sends(u, d)) /\ (Writes(u, d)' <=> Writes(u, d))
    BY <1>5, TurnIs DEF Inv, TypeOK
<1>7. \A d \in Conn : d # c =>
          unread'[d] = unread[d] /\ wire'[d] = wire[d] /\ writer'[d] = writer[d]
    BY <1>1 DEF SendStep, LockWriter, SendPiece, SendFails, SendEnds, Shut, streams,
                Inv, TypeOK, CanLock, CanWrite, CanFail
<1>8. wire'[c] \in {"live", "dead"}
    BY <1>1, <1>3 DEF SendStep, LockWriter, SendPiece, SendFails, Shut, streams,
                      Inv, TypeOK, CanLock, CanWrite, CanFail
<1>9. RoomInv'
  <2> SUFFICES ASSUME NEW u \in Thread, NEW d \in Conn
               PROVE  /\ task'[u] = Greet(d) => unread'[d] = 0
                      /\ Sends(u, d)' =>
                            \/ task'[u].then = Spawn(d) /\ unread'[d] <= 2 - task'[u].left
                            \/ /\ task'[u].then = Idle /\ reader[d] # "none"
                               /\ u # Acceptor /\ (u = Main => main # "dialing")
    BY <1>2 DEF RoomInv, Greet, Spawn, Idle, local
  <2>1. CASE u # t /\ d # c
    BY <1>6, <1>7, <2>1 DEF MoveInv, RoomInv
  <2>2. CASE u # t /\ d = c
    <3>1. task[u] # Greet(c) /\ ~(Sends(u, c) /\ task[u].then = Spawn(c))
        BY <1>1, <2>2, OnlyAdderSends
    <3> QED
        BY <1>6, <2>2, <3>1 DEF MoveInv, RoomInv
  <2>3. CASE u = t
    <3>1. task'[u] # Greet(d)
        BY <1>5, <1>6, <2>3
    <3>2. CASE n = k.then
      <4>1. n \in After /\ n \notin SendTask
        <5>1. n \in After
            BY <3>2, SendTasks
        <5> QED
            BY <5>1, TaskKinds DEF After
      <4>2. ~Sends(t, d)'
        BY <1>6, <4>1 DEF Sends
      <4> QED
        BY <2>3, <3>1, <4>2
    <3>3. CASE LockWriter(t) /\ n = [k EXCEPT !.do = "write"]
      <4>1. unread' = unread /\ n.to = k.to /\ n.left = k.left /\ n.then = k.then
        BY <1>1, <3>3, SendTasks DEF LockWriter, streams, CanLock
      <4> QED
        BY <1>1, <1>6, <2>3, <3>1, <4>1 DEF MoveInv, RoomInv, Sends
    <3>4. CASE SendPiece(t) /\ k.left = 2 /\ n = [k EXCEPT !.left = 1]
      <4>1. n.left = 1 /\ n.to = k.to /\ n.then = k.then
        BY <3>4, SendTasks
      <4>2. unread'[c] = unread[c] + 1
        BY <1>1, <3>4 DEF SendPiece, Inv, TypeOK, CanWrite
      <4>3. k.then = Spawn(c) /\ unread[c] <= 2 - k.left => unread'[c] <= 2 - n.left
        BY <1>4, <3>4, <4>1, <4>2
      <4> QED
        BY <1>1, <1>6, <2>3, <3>1, <4>1, <4>3 DEF MoveInv, RoomInv, Sends
    <3> QED
        BY <1>5, <3>2, <3>3, <3>4
  <2> QED
    BY <2>1, <2>2, <2>3
<1>10. HoldInv'
  <2>1. ASSUME NEW d \in Conn, d # c, writer'[d] # NoThread
        PROVE  writer'[d] \in Thread /\ Writes(writer[d], d)' /\ writer'[d] = writer[d]
    <3>1. writer[d] \in Thread /\ Writes(writer[d], d) /\ writer'[d] = writer[d]
        BY <1>7, <2>1 DEF MoveInv, HoldInv
    <3>2. writer[d] # t
        BY <1>1, <2>1, <3>1 DEF Writes
    <3> QED
        BY <1>6, <3>1, <3>2
  <2>2. ASSUME writer'[c] # NoThread
        PROVE  writer'[c] = t /\ Writes(t, c)'
    <3>1. CASE LockWriter(t) /\ n = [k EXCEPT !.do = "write"]
      <4>1. writer'[c] = t
        BY <1>1, <3>1 DEF LockWriter, Inv, TypeOK, CanLock
      <4>2. n \in SendTask /\ n.to = c /\ n.do = "write"
        BY <1>1, <3>1, SendTasks
      <4> QED
        BY <1>6, <4>1, <4>2 DEF Writes, Sends
    <3>2. CASE SendPiece(t) /\ k.left = 2 /\ n = [k EXCEPT !.left = 1]
      <4>1. k.do = "write" /\ writer' = writer
        BY <1>1, <3>2 DEF SendPiece, CanWrite
      <4>2. writer[c] = t
        BY <1>1, <4>1 DEF Inv, WriteInv, Writes
      <4>3. n \in SendTask /\ n.to = c /\ n.do = "write"
        BY <1>1, <3>2, <4>1, SendTasks
      <4> QED
        BY <1>6, <4>1, <4>2, <4>3 DEF Writes, Sends
    <3>3. CASE ((SendPiece(t) /\ k.left = 1) \/ SendFails(t)) /\ n = k.then
      <4>1. writer'[c] = NoThread
        BY <1>1, <3>3 DEF SendPiece, SendFails, SendEnds, Inv, TypeOK, CanWrite,
                          CanFail
      <4> QED
        BY <2>2, <4>1
    <3> QED
        BY <1>5, <3>1, <3>2, <3>3
  <2>3. ASSUME NEW d \in Conn, writer'[d] # NoThread
        PROVE  /\ writer'[d] \in Thread
               /\ task'[writer'[d]] \in SendTask /\ task'[writer'[d]].to = d
               /\ task'[writer'[d]].do = "write"
    <3>1. CASE d = c
        BY <2>2, <2>3, <3>1 DEF Writes, Sends
    <3>2. CASE d # c
        BY <2>1, <2>3, <3>2 DEF Writes, Sends
    <3> QED
        BY <3>1, <3>2
  <2>4. ASSUME NEW d \in Conn, wire'[d] \in {"none", "offered"}
        PROVE  unread'[d] = 0
    BY <1>7, <1>8, <2>4 DEF MoveInv, HoldInv
  <2>5. \A d \in Conn : d \in ready' => reader'[d] # "none"
    BY <1>2 DEF MoveInv, HoldInv
  <2> QED
    BY <2>3, <2>4, <2>5 DEF HoldInv, Writes, Sends
<1>11. EndInv'
  <2>1. \A d \in Conn : wire[d] = "dead" => wire'[d] = "dead"
    BY <1>1, <1>7 DEF SendStep, LockWriter, SendPiece, SendFails, Shut, streams, Inv, TypeOK,
                      CanLock, CanWrite, CanFail
  <2> QED
    BY <1>2, <2>1 DEF MoveInv, EndInv, local, Inv, TypeOK
<1> QED
    BY <1>9, <1>10, <1>11 DEF MoveInv

LEMMA InitMoves == Init => MoveInv
<1> SUFFICES ASSUME Init PROVE MoveInv
    OBVIOUS
<1>1. \A t \in Thread, c \in Conn : task[t] # Greet(c) /\ ~Sends(t, c)
    BY TaskKinds DEF Init, Sends
<1> QED
    BY <1>1 DEF Init, MoveInv, RoomInv, HoldInv, EndInv

LEMMA NextMoves == Inv /\ Inv' /\ MoveInv /\ [Next]_vars => MoveInv'
<1> SUFFICES ASSUME Inv, Inv', MoveInv, [Next]_vars PROVE MoveInv'
    OBVIOUS
<1>1. CASE MainStep
    BY <1>1, OthersMove, DialAcceptMoves, TurnsMove, SendMoves, ThreadsDiffer DEF MainStep
<1>2. CASE AcceptStep
    BY <1>2, OthersMove, DialAcceptMoves, TurnsMove, SendMoves, ThreadsDiffer DEF AcceptStep
<1>3. CASE SendStep(Miner) \/ RequestStop
    BY <1>3, OthersMove, SendMoves, ThreadsDiffer
<1>4. ASSUME NEW c \in Conn,
             ReaderStep(c) \/ Receive(c) \/ Offer(c) \/ RemoteRead(c) \/ RemoteClose(c)
      PROVE  MoveInv'
    BY <1>4, OthersMove, SendMoves, ThreadsDiffer DEF ReaderStep
<1>5. ASSUME NEW t \in Thread, NEW c \in Conn, Announce(t, c) PROVE MoveInv'
    BY <1>5, TurnsMove
<1>6. CASE UNCHANGED vars
  <2>1. EndInv'
    BY <1>6 DEF vars, local, MoveInv, EndInv
  <2>2. \A c \in Conn : unread[c] \in Nat
    BY NetworkAssumption DEF Inv, TypeOK
  <2> QED
    BY <1>6, <2>1, <2>2, StillMoves DEF vars, local, streams
<1> QED
    BY <1>1, <1>2, <1>3, <1>4, <1>5, <1>6 DEF Next

-----------------------------------------------------------------------------
(* Who waits for whom. *)

\* A thread that writes goes on, or a remote end that does not read blocks it.
LEMMA WritersGoOn ==
    ASSUME Inv, NEW t \in Thread, task[t] \in SendTask, task[t].do = "write"
    PROVE  Blocked(t) \/ GoesOn(t)
<1>1. task[t].to \in Conn
    BY SendTasks
<1>2. unread[task[t].to] \in 0 .. Buffer
    BY <1>1 DEF Inv, TypeOK
<1>3. unread[task[t].to] = Buffer \/ unread[task[t].to] < Buffer
    BY <1>2, NetworkAssumption
<1> QED
    BY <1>3 DEF Blocked, GoesOn, CanWrite, CanFail

\* When the node rests, a thread that is not idle waits for a remote end that does not
\* read, in its own send or in the one it waits for.
LEMMA StuckIsBlocked ==
    ASSUME Inv, MoveInv, Rests, NEW t \in Thread, task[t] # Idle
    PROVE  \E u \in Thread : Blocked(u) /\ task[u].to = task[t].to
<1>1. \A u \in Thread : ~GoesOn(u)
    BY DEF Rests, MainMoves, AcceptorMoves, ReaderMoves, Thread, CanStart,
           CanJoinMiner, CanJoinAcceptor, CanJoinReaders, CanEndAccepting, CanAccept,
           CanEndReading, CanReturn
<1>2. task[t] \in SendTask
  <2>1. task[t] \in Task
    BY DEF Inv, TypeOK
  <2>2. \A c \in Conn : task[t] # Greet(c) /\ task[t] # Spawn(c)
    BY <1>1 DEF GoesOn, Greet, Spawn, CanLock, CanWrite, CanFail
  <2> QED
    BY <2>1, <2>2 DEF Task, After
<1>3. CASE task[t].do = "write"
    BY <1>1, <1>2, <1>3, WritersGoOn
<1>4. CASE task[t].do = "lock"
  <2> DEFINE c == task[t].to
  <2>1. c \in Conn /\ writer[c] # NoThread
    BY <1>1, <1>2, <1>4, SendTasks DEF GoesOn, CanLock, CanWrite, CanFail
  <2>2. writer[c] \in Thread /\ Writes(writer[c], c)
    BY <2>1 DEF MoveInv, HoldInv
  <2>3. Blocked(writer[c])
    BY <1>1, <2>2, WritersGoOn DEF Writes, Sends
  <2> QED
    BY <2>2, <2>3 DEF Writes, Sends
<1> QED
    BY <1>2, <1>3, <1>4, SendTasks

\* A Status finds the mutex free and room in the buffer.
LEMMA StatusGoesOn ==
    ASSUME Inv, MoveInv, NEW t \in Thread, task[t] # Idle,
           \A c \in Conn : Sends(t, c) => task[t].then # Idle
    PROVE  GoesOn(t)
<1>1. CASE \E c \in Conn : task[t] = Greet(c) \/ task[t] = Spawn(c)
    BY <1>1 DEF GoesOn, Greet, Spawn, CanLock, CanWrite, CanFail
<1>2. CASE task[t] \in SendTask
  <2> DEFINE c == task[t].to
  <2>1. c \in Conn /\ task[t].left \in {1, 2} /\ task[t].do \in {"lock", "write"}
    BY <1>2, SendTasks
  <2>2. Sends(t, c)
    BY <1>2 DEF Sends
  <2>3. task[t].then = Spawn(c) /\ unread[c] <= 2 - task[t].left
    BY <2>1, <2>2 DEF MoveInv, RoomInv
  <2>4. ~Blocked(t)
    <3>1. unread[c] \in Nat /\ unread[c] <= 1
        BY <2>1, <2>3, NetworkAssumption DEF Inv, TypeOK
    <3> QED
        BY <3>1, NetworkAssumption DEF Blocked
  <2>5. ASSUME task[t].do = "lock", writer[c] # NoThread PROVE FALSE
    <3>1. writer[c] \in Thread /\ Writes(writer[c], c)
        BY <2>1, <2>5 DEF MoveInv, HoldInv
    <3>2. writer[c] # t /\ Sends(writer[c], c)
        BY <2>5, <3>1 DEF Writes
    <3> QED
        BY <2>1, <2>2, <2>3, <3>1, <3>2, OnlyAdderSends
  <2> QED
    BY <1>2, <2>1, <2>4, <2>5, WritersGoOn DEF GoesOn, CanLock
<1> QED
    BY <1>1, <1>2 DEF Inv, TypeOK, Task, After

\* The accept thread sends nothing but a Status, nor the main thread while it dials.
LEMMA AddersGoOn ==
    ASSUME Inv, MoveInv
    PROVE  /\ task[Acceptor] # Idle => GoesOn(Acceptor)
           /\ task[Main] # Idle /\ main = "dialing" => GoesOn(Main)
<1>1. \A c \in Conn : Sends(Acceptor, c) => task[Acceptor].then # Idle
    BY ThreadsDiffer, TaskKinds DEF MoveInv, RoomInv
<1>2. main = "dialing" => \A c \in Conn : Sends(Main, c) => task[Main].then # Idle
    BY ThreadsDiffer, TaskKinds DEF MoveInv, RoomInv
<1> QED
    BY <1>1, <1>2, StatusGoesOn, ThreadsDiffer

\* Where the main thread waits when the node rests, and for whom.
LEMMA RestIsBlocked ==
    ASSUME Inv, MoveInv, ~Waits, Rests
    PROVE  StopIsBlocked
<1>1. main \in {"dialing", "running", "joinMiner", "joinAcceptor", "joinReaders"}
    BY DEF Inv, TypeOK, Waits
<1>2. CASE main = "dialing"
    BY <1>2, AddersGoOn DEF Rests, MainMoves, CanStart, CanJoinMiner, CanJoinAcceptor,
                            CanJoinReaders
<1>3. CASE main = "running"
  <2>1. task[Main] # Idle
    BY <1>3 DEF Waits
  <2> QED
    BY <1>3, <2>1, StuckIsBlocked, ThreadsDiffer DEF StopIsBlocked
<1>4. CASE main = "joinMiner"
  <2>1. task[Miner] # Idle
    BY <1>4 DEF Rests, MainMoves, CanStart, CanJoinMiner, CanJoinAcceptor,
                CanJoinReaders
  <2> QED
    BY <1>4, <2>1, StuckIsBlocked, ThreadsDiffer DEF StopIsBlocked
<1>5. CASE main = "joinAcceptor"
  <2>1. accepting /\ ~running
    BY <1>5 DEF Rests, MainMoves, Inv, StopInv, CanStart, CanJoinMiner,
                CanJoinAcceptor, CanJoinReaders
  <2>2. task[Acceptor] # Idle
    BY <2>1 DEF Rests, AcceptorMoves, CanEndAccepting, CanAccept
  <2> QED
    BY <2>2, AddersGoOn DEF Rests, AcceptorMoves, CanEndAccepting, CanAccept
<1>6. CASE main = "joinReaders"
  <2>1. PICK c \in Conn : reader[c] \notin {"none", "done"}
    BY <1>6 DEF Rests, MainMoves, CanStart, CanJoinMiner, CanJoinAcceptor,
                CanJoinReaders
  <2>2. ~running /\ ~ReaderMoves(c)
    BY <1>6 DEF Rests, Inv, StopInv
  <2>3. reader[c] = "handle" /\ task[c] # Idle
    BY <2>1, <2>2 DEF ReaderMoves, Inv, TypeOK, CanEndReading, CanReturn
  <2>4. PICK u \in Thread : Blocked(u)
    BY <2>3, StuckIsBlocked, ThreadsDiffer
  <2>5. task[u].to \notin table
    BY <1>6, <2>4 DEF MoveInv, EndInv, Blocked
  <2> QED
    BY <1>6, <2>4, <2>5 DEF StopIsBlocked
<1> QED
    BY <1>1, <1>2, <1>3, <1>4, <1>5, <1>6

\* For any connections: the types, and a table that never has more than MaxPeers
\* peers, though the main and the accept threads both add to it (addPeer).
THEOREM TableIsLimited == Spec => []TypeOK
<1>1. Spec => []Inv
    BY InitInv, NextInv, PTL DEF Spec
<1> QED
    BY <1>1, InvImplies, PTL

\* For any connections and threads: the observer hears of a peer before its
\* messages and of its end after them, and of nothing once stop() has returned.
THEOREM ObserverStaysInOrder == Spec => []ObserverIsInOrder
<1>1. Spec => []Inv
    BY InitInv, NextInv, PTL DEF Spec
<1> QED
    BY <1>1, InvImplies, PTL

\* For any senders and buffers: no frame has another in its middle (writeMutex).
THEOREM FramesAreWhole == Spec => []FramesStayWhole
<1>1. Spec => []Inv
    BY InitInv, NextInv, PTL DEF Spec
<1> QED
    BY <1>1, InvImplies, PTL

\* For any threads, connections and buffers of two pieces or more: of a node that is
\* asked to stop, some thread can move, unless a remote end that does not read blocks
\* a send that the stop waits for; no wait of its threads on each other is circular
\* (Node::run, TcpNetwork::stop).
THEOREM StopWaitsForRemoteOnly == Spec => []StopIsBlockedByRemote
<1>1. Inv /\ MoveInv => StopIsBlockedByRemote
    BY RestIsBlocked DEF StopIsBlockedByRemote
<1> QED
    BY <1>1, InitInv, NextInv, InitMoves, NextMoves, PTL DEF Spec

\* For any connections, offered and in excess: the accept thread can always go on to
\* the next, and waits for no remote end (acceptLoop, addPeer).
THEOREM OffersAreAnswered == Spec => []OfferIsAnswered
<1>1. Inv /\ MoveInv => OfferIsAnswered
    BY AddersGoOn DEF MoveInv, EndInv, OfferIsAnswered, AcceptorMoves, CanEndAccepting,
                      CanAccept
<1> QED
    BY <1>1, InitInv, NextInv, InitMoves, NextMoves, PTL DEF Spec
=============================================================================
