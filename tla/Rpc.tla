-------------------------------- MODULE Rpc ---------------------------------
(***************************************************************************)
(* The remote calls of a node (Kademlia::ping and find_node,               *)
(* dht/Kademlia.cpp:33-155), the connection table they share               *)
(* (net/UDPSocketWrapper.h, net/Address.h), the listener thread and the    *)
(* request thread (onReceiveRequest).                                      *)
(*                                                                         *)
(* Each access to the table is a step, and so is each acquisition of a     *)
(* mutex.  Datagrams come from outside, at any time, as often as they      *)
(* like, or not at all.  No datagram gets into the buffer of a connection: *)
(* that buffer has no array (Connection leaves it null), so the listener's *)
(* memcpy ends the process, and a caller that looks for an answer finds    *)
(* none.  What an answer would do is in modules Lookup and Wire.           *)
(***************************************************************************)
EXTENDS Integers, FiniteSets

CONSTANTS
  Callers,    \* threads that call ping and find_node
  Addrs,      \* addresses of remote nodes
  Width,      \* bits of m_ip: 32
  MaxCalls,   \* bound on the number of calls
  Nobody,     \* no thread
  NoPeer      \* no address

ASSUME RpcAssumption ==
  /\ Width \in Nat \ {0}
  /\ Addrs \subseteq [ip : 0..(2^Width - 1), port : Nat]
  /\ MaxCalls \in Nat
  /\ Nobody \notin Callers /\ NoPeer \notin Addrs

\* Address::operator uint64_t, m_ip << 16 + m_port: the port is added to the
\* shift count.  A count of Width or more is undefined: the processor takes it
\* modulo Width, a compiler that knows it may answer 0.
ConnIds(a) ==
  LET count == Width \div 2 + a.port
  IN {(a.ip * 2^(count % Width)) % 2^Width} \cup {id \in {0} : count >= Width}

VARIABLES
  connections,  \* the open connections: from ids to the holders of their mutexes
  pc, op,       \* per caller: its place, and which function it is in
  peer,         \* per caller: the address it connects to, NoPeer elsewhere
  connId,       \* per caller: its local connId
  ref,          \* per caller: whether the Connection it refers to still exists
  calls,        \* number of calls so far
  listener, request,   \* the two background threads
  crashed

caller  == <<pc, op, peer, connId, ref, calls>>
threads == <<listener, request>>
vars    == <<connections, caller, threads, crashed>>

Open == DOMAIN connections

At(t, place) == ~crashed /\ pc[t] = place

Goto(t, place) == pc' = [pc EXCEPT ![t] = place]

Crash == crashed' = TRUE /\ UNCHANGED <<connections, caller, threads>>

\* connections[id] makes the connection if there is none.
Opened(id) == [i \in Open \cup {id} |-> IF i \in Open THEN connections[i] ELSE Nobody]

\* Lets go of the mutex of t's connection in table; one that no longer exists
\* has no mutex to let go of.
ReleasedAny(table, t) ==                   \* mutant: of whatever connection has the id now
  [table EXCEPT ![connId[t]] = Nobody]

Released(table, t) ==
  IF ref[t] = "live" THEN [table EXCEPT ![connId[t]] = Nobody] ELSE table

\* The mutex of t's connection is free.  That of an erased one may seem so.
Free(t) == ref[t] = "live" => connections[connId[t]] = Nobody

\* UdpTransport::connect, under connMutex: the id of a connection that is open
\* already, 0 for a new one; it opens none.
Connect(a) == {IF id \in Open THEN id ELSE 0 : id \in ConnIds(a)}

-----------------------------------------------------------------------------
(* Kademlia::find_node and Kademlia::ping *)

\* find_node takes an address for none when its conversion to a number is 0.
FindNode(t, a) ==
  /\ At(t, "idle") /\ calls < MaxCalls
  /\ \E id \in ConnIds(a) :
       /\ Goto(t, IF id = 0 THEN "idle" ELSE "connect")
       /\ peer' = [peer EXCEPT ![t] = IF id = 0 THEN NoPeer ELSE a]
  /\ op' = [op EXCEPT ![t] = "find_node"]
  /\ calls' = calls + 1
  /\ UNCHANGED <<connections, connId, ref, threads, crashed>>

Ping(t, a) ==
  /\ At(t, "idle") /\ calls < MaxCalls
  /\ Goto(t, "connect")
  /\ op' = [op EXCEPT ![t] = "ping"]
  /\ peer' = [peer EXCEPT ![t] = a]
  /\ calls' = calls + 1
  /\ UNCHANGED <<connections, connId, ref, threads, crashed>>

\* mutant: an error code is taken for an id
FindConnectCode(t) ==
  /\ At(t, "connect") /\ op[t] = "find_node"
  /\ 0 \in Connect(peer[t])
  /\ connId' = [connId EXCEPT ![t] = -1]
  /\ peer' = [peer EXCEPT ![t] = NoPeer]
  /\ Goto(t, "send")
  /\ UNCHANGED <<connections, op, ref, calls, threads, crashed>>

\* find_node goes on if connect answers 0, and then connId is 1, for it is the
\* value of the comparison.  If connect answers an id, connId is 0 and the loop
\* goes round, without a pause and without counting the attempt.
FindConnect(t) ==
  /\ At(t, "connect") /\ op[t] = "find_node"
  /\ \E id \in Connect(peer[t]) :
       IF id = 0
       THEN /\ connId' = [connId EXCEPT ![t] = 1]
            /\ peer' = [peer EXCEPT ![t] = NoPeer]
            /\ Goto(t, "send")
       ELSE Goto(t, "retry") /\ UNCHANGED <<connId, peer>>
  /\ UNCHANGED <<connections, op, ref, calls, threads, crashed>>

\* The loop condition: connId is 0 and no attempt was counted.
Retry(t) ==
  /\ At(t, "retry")
  /\ Goto(t, "connect")
  /\ UNCHANGED <<connections, op, peer, connId, ref, calls, threads, crashed>>

\* mutant: ping takes 0 for an id
PingConnectUnchecked(t) ==
  /\ At(t, "connect") /\ op[t] = "ping"
  /\ \E id \in Connect(peer[t]) : connId' = [connId EXCEPT ![t] = id]
  /\ Goto(t, "lookup")
  /\ peer' = [peer EXCEPT ![t] = NoPeer]
  /\ UNCHANGED <<connections, op, ref, calls, threads, crashed>>

\* ping gives up if connect answers 0.  It does not look at what sendto returns.
PingConnect(t) ==
  /\ At(t, "connect") /\ op[t] = "ping"
  /\ \E id \in Connect(peer[t]) :
       /\ connId' = [connId EXCEPT ![t] = id]
       /\ Goto(t, IF id = 0 THEN "idle" ELSE "lookup")
  /\ peer' = [peer EXCEPT ![t] = NoPeer]
  /\ UNCHANGED <<connections, op, ref, calls, threads, crashed>>

\* sendto has no body: it may send all of the request or not.
Send(t) ==
  /\ At(t, "send")
  /\ \E next \in {"lookup", "close"} : Goto(t, next)
  /\ UNCHANGED <<connections, op, peer, connId, ref, calls, threads, crashed>>

\* connections[connId].mtx
Lookup(t) ==
  /\ At(t, "lookup")
  /\ connections' = Opened(connId[t])
  /\ ref' = [ref EXCEPT ![t] = "live"]
  /\ Goto(t, "mutex")
  /\ UNCHANGED <<op, peer, connId, calls, threads, crashed>>

\* The constructor of the unique_lock.
Acquire(t) ==
  /\ At(t, "mutex") /\ Free(t)
  /\ connections' = IF ref[t] = "live" THEN [connections EXCEPT ![connId[t]] = t] ELSE connections
  /\ Goto(t, "wait")
  /\ UNCHANGED <<op, peer, connId, ref, calls, threads, crashed>>

\* connections[connId].cv.wait_for releases the mutex.  The lookup makes a new
\* connection if the one whose mutex is held was erased.
Wait(t) ==
  /\ At(t, "wait")
  /\ connections' = Released(Opened(connId[t]), t)
  /\ Goto(t, "waiting")
  /\ UNCHANGED <<op, peer, connId, ref, calls, threads, crashed>>

\* mutant: find_node waits without a timeout
TimedOutPing(t) ==
  /\ At(t, "waiting") /\ Free(t)
  /\ op[t] = "ping"
  /\ connections' = Opened(connId[t])
  /\ Goto(t, "close")
  /\ UNCHANGED <<op, peer, connId, ref, calls, threads, crashed>>

\* mutant: the timeout returns at once
TimedOutLeaks(t) ==
  /\ At(t, "waiting") /\ Free(t)
  /\ connections' = IF op[t] = "ping" THEN Opened(connId[t]) ELSE connections
  /\ Goto(t, "idle")
  /\ UNCHANGED <<op, peer, connId, ref, calls, threads, crashed>>

\* The wait is over, the mutex is taken and released again.  ping has a
\* predicate, which looks the connection up once more.
TimedOut(t) ==
  /\ At(t, "waiting") /\ Free(t)
  /\ connections' = IF op[t] = "ping" THEN Opened(connId[t]) ELSE connections
  /\ Goto(t, "close")
  /\ UNCHANGED <<op, peer, connId, ref, calls, threads, crashed>>

\* ping's predicate sends it back to sleep; find_node has none and takes the
\* wake-up for an answer.
WakePing(t) ==
  /\ At(t, "waiting") /\ op[t] = "ping" /\ Free(t)
  /\ connections' = Opened(connId[t])
  /\ UNCHANGED <<caller, threads, crashed>>

WakeFind(t) ==
  /\ At(t, "waiting") /\ op[t] = "find_node" /\ Free(t)
  /\ connections' = IF ref[t] = "live" THEN [connections EXCEPT ![connId[t]] = t] ELSE connections
  /\ Goto(t, "decode")
  /\ UNCHANGED <<op, peer, connId, ref, calls, threads, crashed>>

\* The buffer of connections[connId] is empty: deserialize returns -1.
Decode(t) ==
  /\ At(t, "decode")
  /\ connections' = Released(Opened(connId[t]), t)
  /\ Goto(t, "close")
  /\ UNCHANGED <<op, peer, connId, ref, calls, threads, crashed>>

\* UdpTransport::close, without connMutex, and the call returns.  Other callers
\* may still use the mutex and the condition variable of the connection.
Close(t) ==
  /\ At(t, "close")
  /\ connections' = [id \in Open \ {connId[t]} |-> connections[id]]
  /\ ref' = [u \in Callers |->
               IF u = t THEN "none"
               ELSE IF connId[u] = connId[t] /\ ref[u] = "live" THEN "dangling" ELSE ref[u]]
  /\ connId' = [connId EXCEPT ![t] = 0]
  /\ Goto(t, "idle")
  /\ UNCHANGED <<op, peer, calls, threads, crashed>>

\* A mutex or condition variable that no longer exists: its memory may also be
\* gone, or say that the mutex is held for ever.
Undefined(t) ==
  /\ ref[t] = "dangling"
  /\ \E place \in {"mutex", "wait", "waiting", "decode"} : At(t, place)
  /\ \/ Crash
     \/ Goto(t, "hung") /\ UNCHANGED <<connections, op, peer, connId, ref, calls, threads, crashed>>

Step(t) ==
  \/ FindConnect(t) \/ Retry(t) \/ PingConnect(t) \/ Send(t) \/ Lookup(t) \/ Acquire(t) \/ Wait(t)
  \/ TimedOut(t) \/ Decode(t) \/ Close(t)

-----------------------------------------------------------------------------
(* The listener and the request thread *)

\* An exception that leaves a thread ends the process.
Bind ==
  /\ listener = "new" /\ ~crashed
  /\ \/ listener' = "listening" /\ UNCHANGED <<connections, caller, request, crashed>>
     \/ Crash

\* A datagram from a, or an error after one: recvfrom does not return 0.  For
\* an open connection the copy to its buffer ends the process; otherwise the
\* request thread is notified, if it waits.
Receive(a) ==
  /\ listener = "listening" /\ ~crashed
  /\ \E id \in ConnIds(a) :
       IF id \in Open THEN Crash
       ELSE /\ request' = IF request = "waiting" THEN "woken" ELSE request
            /\ UNCHANGED <<connections, caller, listener, crashed>>

\* An empty datagram ends the loop.
ReceiveEmpty ==
  /\ listener = "listening" /\ ~crashed
  /\ listener' = "ended"
  /\ UNCHANGED <<connections, caller, request, crashed>>

\* Kademlia::init starts the thread, which waits without a predicate.
RequestStart ==
  /\ request = "new" /\ ~crashed
  /\ request' = "waiting"
  /\ UNCHANGED <<connections, caller, listener, crashed>>

\* Woken, with or without reason, it reads the type of transport.msg, whose
\* buffer nobody fills.
Request ==
  /\ request \in {"waiting", "woken"} /\ ~crashed
  /\ Crash

\* Callers and listener use the table without a common lock.  A change while
\* another thread looks something up may end the process.
Changes(t) ==
  \/ pc[t] \in {"lookup", "wait", "decode"} /\ connId[t] \notin Open
  \/ pc[t] = "waiting" /\ op[t] = "ping" /\ connId[t] \notin Open
  \/ pc[t] = "close" /\ connId[t] \in Open

Looks(t) ==
  \/ pc[t] \in {"connect", "lookup", "wait", "decode", "close"}
  \/ pc[t] = "waiting" /\ op[t] = "ping"

Race ==
  /\ ~crashed
  /\ \E t \in Callers :
       Changes(t) /\ (listener = "listening" \/ \E u \in Callers \ {t} : Looks(u))
  /\ Crash

-----------------------------------------------------------------------------
Init ==
  /\ connections = [id \in {} |-> Nobody]
  /\ pc = [t \in Callers |-> "idle"] /\ op = [t \in Callers |-> "find_node"]
  /\ peer = [t \in Callers |-> NoPeer]
  /\ connId = [t \in Callers |-> 0] /\ ref = [t \in Callers |-> "none"]
  /\ calls = 0
  /\ listener = "new" /\ request = "new"
  /\ crashed = FALSE

Next ==
  \/ \E t \in Callers :
       \/ Step(t) \/ WakePing(t) \/ WakeFind(t) \/ Undefined(t)
       \/ \E a \in Addrs : FindNode(t, a) \/ Ping(t, a)
  \/ Bind \/ ReceiveEmpty \/ RequestStart \/ Request \/ Race
  \/ \E a \in Addrs : Receive(a)

\* A thread that can go on does, and waits have a timeout (dht/Config.h:13-16).
\* Which number an address converts to is owed to nobody: a round of the loop at
\* Kademlia.cpp:98 is a step as good as the one that leaves it.
Fairness == \A t \in Callers : WF_vars(Step(t))

Spec == Init /\ [][Next]_vars /\ Fairness

-----------------------------------------------------------------------------
(* Properties *)

Places == {"idle", "connect", "retry", "send", "lookup", "mutex", "wait", "waiting", "decode",
           "close", "hung"}
Using(t) == pc[t] \in {"mutex", "wait", "waiting", "decode", "close", "hung"}

\* Every variable has its type.
TypeOK ==
  /\ Open \subseteq Nat /\ connections \in [Open -> Callers \cup {Nobody}]
  /\ pc \in [Callers -> Places] /\ op \in [Callers -> {"find_node", "ping"}]
  /\ peer \in [Callers -> Addrs \cup {NoPeer}] /\ connId \in [Callers -> Nat]
  /\ ref \in [Callers -> {"none", "live", "dangling"}]
  /\ calls \in 0..MaxCalls
  /\ listener \in {"new", "listening", "ended"} /\ request \in {"new", "waiting", "woken"}
  /\ crashed \in BOOLEAN

\* However calls overlap, and although a lookup brings back a connection that
\* another caller has closed, no connection outlives the calls that use it.
ClosedAfterUse == \A id \in Open : \E t \in Callers : Using(t) /\ connId[t] = id

\* All calls share one connection, number 1 (Kademlia.cpp:101), whatever the
\* addresses.
OnlyConnectionOne == Open \subseteq {1}

\* The mutex of an open connection is held by the caller that is between its
\* lock and its release, and by no other, although connections are erased and
\* made anew under their users.
MutexOwned ==
  \A t \in Callers :
    connId[t] \in Open =>
      (connections[connId[t]] = t <=> ref[t] = "live" /\ pc[t] \in {"wait", "decode"})

\* t goes round in the loop of Kademlia.cpp:98: its address converts to a
\* connection that a call hung on an erased one has made anew and left open.
Spins(t) ==
  /\ pc[t] \in {"connect", "retry"} /\ op[t] = "find_node"
  /\ \E u \in Callers : pc[u] = "hung" /\ connId[u] \in ConnIds(peer[t]) \cap Open

\* Every call ends, unless the process dies, the call waits on a connection that
\* was erased, or it goes round for ever because of one that does: no caller is
\* blocked by others that can go on, though they share a mutex and the loop at 98
\* has no limit.
CallsEnd ==
  \A t \in Callers :
    pc[t] # "idle" ~> pc[t] \in {"idle", "hung"} \/ crashed \/ []Spins(t)

\* Kademlia.cpp:60, where ping ends, closes without a lock because "only one
\* thread closes the connection"; and ping gives up at 39 when the connection is
\* occupied.  So nobody erases a connection that a ping refers to.
OneCloser == \A t \in Callers : op[t] = "ping" => ref[t] # "dangling"

=============================================================================
