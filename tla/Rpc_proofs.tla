----------------------------- MODULE Rpc_proofs -----------------------------
(***************************************************************************)
(* Proofs of the safety properties of Rpc, for every number of callers and *)
(* of calls, and for all addresses, whatever their conversions are.        *)
(***************************************************************************)
EXTENDS Rpc, TLAPS

Users == {"mutex", "wait", "waiting", "decode", "close", "hung"}

\* What the place of a caller says of its connection.  Only one that uses a
\* connection refers to it, and the reference is live only while the connection
\* is open; a call that was not sent has none to close.
Consistent ==
  \A t \in Callers :
    /\ pc[t] \in {"connect", "retry"} => peer[t] \in Addrs
    /\ ref[t] # "none" => pc[t] \in Users
    /\ pc[t] \in Users \ {"close"} => ref[t] # "none"
    /\ pc[t] \in Users \cup {"send", "lookup"} => connId[t] = 1
    /\ ref[t] = "live" => connId[t] \in Open
    /\ pc[t] = "hung" => ref[t] = "dangling"

\* The holder of a mutex is the caller between its lock and its release.
Holders ==
  \A id \in Open, t \in Callers :
    connections[id] = t <=> connId[t] = id /\ ref[t] = "live" /\ pc[t] \in {"wait", "decode"}

Inv == TypeOK /\ ClosedAfterUse /\ OnlyConnectionOne /\ Consistent /\ Holders

-----------------------------------------------------------------------------
(* The table of connections *)

\* connections[id] adds id if it is missing, with a free mutex, and changes no
\* other entry.
LEMMA OpenedIs ==
  ASSUME connections \in [Open -> Callers \cup {Nobody}], NEW id \in Nat
  PROVE  /\ DOMAIN Opened(id) = Open \cup {id}
         /\ Opened(id) \in [Open \cup {id} -> Callers \cup {Nobody}]
         /\ \A i \in Open : Opened(id)[i] = connections[i]
         /\ id \notin Open => Opened(id)[id] = Nobody
  BY DEF Opened, Open

\* connect answers the id of an open connection or 0.
LEMMA ConnectIs ==
  ASSUME NEW a, NEW id \in Connect(a)
  PROVE  id = 0 \/ id \in Open
  BY DEF Connect

-----------------------------------------------------------------------------
(* The invariant *)

\* Nothing is open and nobody calls at the start.
LEMMA InvInit == Init => Inv
<1> SUFFICES ASSUME Init PROVE Inv
  OBVIOUS
<1> USE RpcAssumption DEF Init
<1>1. Open = {}
  BY DEF Open
<1>2. connections \in [Open -> Callers \cup {Nobody}]
  BY <1>1
<1>3. TypeOK
  <2>1. crashed \in BOOLEAN
    OBVIOUS
  <2> QED BY <1>1, <1>2, <2>1 DEF TypeOK, Places
<1>4. ClosedAfterUse /\ OnlyConnectionOne /\ Holders
  BY <1>1 DEF ClosedAfterUse, OnlyConnectionOne, Holders
<1>5. Consistent
  BY DEF Consistent, Users
<1> QED BY <1>3, <1>4, <1>5 DEF Inv

\* connections[1] leaves at most connection 1, and every mutex with its holder.
LEMMA OpenedOne ==
  ASSUME Inv
  PROVE  /\ Opened(1) \in [{1} -> Callers \cup {Nobody}]
         /\ \A u \in Callers : Opened(1)[1] = u <=> ref[u] = "live" /\ pc[u] \in {"wait", "decode"}
<1> USE DEF Inv
<1>1. connections \in [Open -> Callers \cup {Nobody}] /\ Open \subseteq {1}
  BY DEF TypeOK, OnlyConnectionOne
<1>2. Opened(1) \in [{1} -> Callers \cup {Nobody}]
  BY <1>1, OpenedIs
<1>3. ASSUME NEW u \in Callers
      PROVE  Opened(1)[1] = u <=> ref[u] = "live" /\ pc[u] \in {"wait", "decode"}
  <2>1. CASE 1 \in Open
    <3>1. Opened(1)[1] = connections[1]
      BY <1>1, <2>1, OpenedIs
    <3> QED BY <2>1, <3>1 DEF Holders, Consistent, Users
  <2>2. CASE 1 \notin Open
    BY <1>1, <2>2, OpenedIs, RpcAssumption DEF Consistent, Users
  <2> QED BY <2>1, <2>2
<1> QED BY <1>2, <1>3

-----------------------------------------------------------------------------
(* The steps of a caller *)

\* A call of find_node has no connection yet.
LEMMA FindNodeStep ==
  ASSUME Inv, NEW t \in Callers, NEW a \in Addrs, FindNode(t, a)
  PROVE  Inv'
<1> USE DEF Inv, FindNode, At, Goto
<1>1. TypeOK'
  BY RpcAssumption DEF TypeOK, Places, Open, threads
<1>2. ClosedAfterUse'
  BY DEF ClosedAfterUse, Using, Open, Consistent, Users, TypeOK
<1>3. OnlyConnectionOne'
  BY DEF OnlyConnectionOne, Open
<1>4. Consistent'
  BY DEF TypeOK, Consistent, Users, Open, OnlyConnectionOne
<1>5. Holders'
  BY DEF TypeOK, Holders, Open, Consistent, Users
<1> QED BY <1>1, <1>2, <1>3, <1>4, <1>5

\* Nor has a call of ping.
LEMMA PingStep ==
  ASSUME Inv, NEW t \in Callers, NEW a \in Addrs, Ping(t, a)
  PROVE  Inv'
<1> USE DEF Inv, Ping, At, Goto
<1>1. TypeOK'
  BY RpcAssumption DEF TypeOK, Places, Open, threads
<1>2. ClosedAfterUse'
  BY DEF ClosedAfterUse, Using, Open, Consistent, Users, TypeOK
<1>3. OnlyConnectionOne'
  BY DEF OnlyConnectionOne, Open
<1>4. Consistent'
  BY DEF TypeOK, Consistent, Users, Open, OnlyConnectionOne
<1>5. Holders'
  BY DEF TypeOK, Holders, Open, Consistent, Users
<1> QED BY <1>1, <1>2, <1>3, <1>4, <1>5

\* The value of a comparison is the id from here on, or the loop goes round.
LEMMA FindConnectStep ==
  ASSUME Inv, NEW t \in Callers, FindConnect(t)
  PROVE  Inv'
<1> USE DEF Inv, FindConnect, At, Goto
<1>1. \/ /\ pc' = [pc EXCEPT ![t] = "send"] /\ connId' = [connId EXCEPT ![t] = 1]
         /\ peer' = [peer EXCEPT ![t] = NoPeer]
      \/ pc' = [pc EXCEPT ![t] = "retry"] /\ UNCHANGED <<connId, peer>>
  OBVIOUS
<1>2. TypeOK'
  BY <1>1 DEF TypeOK, Places, Open, threads
<1>3. ClosedAfterUse'
  BY <1>1 DEF ClosedAfterUse, Using, Open, Consistent, Users, TypeOK
<1>4. OnlyConnectionOne'
  BY DEF OnlyConnectionOne, Open
<1>5. Consistent'
  BY <1>1 DEF TypeOK, Consistent, Users, Open, OnlyConnectionOne
<1>6. Holders'
  BY <1>1 DEF TypeOK, Holders, Open, Consistent, Users
<1> QED BY <1>2, <1>3, <1>4, <1>5, <1>6

\* Another round keeps the address and has no connection either.
LEMMA RetryStep ==
  ASSUME Inv, NEW t \in Callers, Retry(t)
  PROVE  Inv'
<1> USE DEF Inv, Retry, At, Goto
<1>1. TypeOK'
  BY DEF TypeOK, Places, Open, threads
<1>2. ClosedAfterUse'
  BY DEF ClosedAfterUse, Using, Open, Consistent, Users, TypeOK
<1>3. OnlyConnectionOne'
  BY DEF OnlyConnectionOne, Open
<1>4. Consistent'
  BY DEF TypeOK, Consistent, Users, Open, OnlyConnectionOne
<1>5. Holders'
  BY DEF TypeOK, Holders, Open, Consistent, Users
<1> QED BY <1>1, <1>2, <1>3, <1>4, <1>5

\* connect answers 0, and ping gives up, or the one connection there is.
LEMMA PingConnectStep ==
  ASSUME Inv, NEW t \in Callers, PingConnect(t)
  PROVE  Inv'
<1> USE DEF Inv, PingConnect, At, Goto
<1>1. /\ connId' \in {[connId EXCEPT ![t] = id] : id \in {0, 1}}
      /\ connId'[t] = 0 => pc'[t] = "idle"
  BY ConnectIs DEF OnlyConnectionOne, TypeOK
<1>2. TypeOK'
  BY <1>1 DEF TypeOK, Places, Open, threads
<1>3. ClosedAfterUse'
  BY <1>1 DEF ClosedAfterUse, Using, Open, Consistent, Users, TypeOK
<1>4. OnlyConnectionOne'
  BY <1>1 DEF OnlyConnectionOne, Open
<1>5. Consistent'
  BY <1>1 DEF TypeOK, Consistent, Users, Open, OnlyConnectionOne
<1>6. Holders'
  BY <1>1 DEF TypeOK, Holders, Open, Consistent, Users
<1> QED BY <1>2, <1>3, <1>4, <1>5, <1>6

\* Whether the request was sent or not, the table is not touched.
LEMMA SendStep ==
  ASSUME Inv, NEW t \in Callers, Send(t)
  PROVE  Inv'
<1> USE DEF Inv, Send, At, Goto
<1>1. TypeOK'
  BY DEF TypeOK, Places, Open, threads
<1>2. ClosedAfterUse'
  BY DEF ClosedAfterUse, Using, Open, Consistent, Users, TypeOK
<1>3. OnlyConnectionOne'
  BY DEF OnlyConnectionOne, Open
<1>4. Consistent'
  BY DEF TypeOK, Consistent, Users, Open, OnlyConnectionOne
<1>5. Holders'
  BY DEF TypeOK, Holders, Open, Consistent, Users
<1> QED BY <1>1, <1>2, <1>3, <1>4, <1>5

\* The lookup makes the connection if there is none.
LEMMA LookupStep ==
  ASSUME Inv, NEW t \in Callers, Lookup(t)
  PROVE  Inv'
<1> USE DEF Inv, Lookup, At, Goto
<1>1. connId[t] = 1
  BY DEF Consistent, Users
<1>2. /\ Open' = {1} /\ connections' \in [{1} -> Callers \cup {Nobody}]
      /\ \A u \in Callers :
           connections'[1] = u <=> ref'[u] = "live" /\ pc'[u] \in {"wait", "decode"}
  BY <1>1, OpenedOne DEF Open, TypeOK, Consistent, Users
<1>3. TypeOK'
  BY <1>1, <1>2 DEF TypeOK, Places, Open, threads, Consistent, Users
<1>4. ClosedAfterUse'
  BY <1>1, <1>2 DEF ClosedAfterUse, Using, Open, Consistent, Users, TypeOK, TypeOK
<1>5. OnlyConnectionOne'
  BY <1>1, <1>2 DEF OnlyConnectionOne, Open
<1>6. Consistent'
  BY <1>1, <1>2 DEF TypeOK, Consistent, Users, Open, OnlyConnectionOne
<1>7. Holders'
  BY <1>1, <1>2 DEF TypeOK, Holders, Open, Consistent, Users
<1> QED BY <1>3, <1>4, <1>5, <1>6, <1>7

\* A live mutex that is free gets its holder; an erased one is not in the table.
LEMMA AcquireStep ==
  ASSUME Inv, NEW t \in Callers, Acquire(t)
  PROVE  Inv'
<1> USE DEF Inv, Acquire, At, Goto, Free
<1>1. TypeOK'
  BY DEF TypeOK, Places, Open, threads
<1>2. ClosedAfterUse'
  BY DEF ClosedAfterUse, Using, Open, Consistent, Users, TypeOK
<1>3. OnlyConnectionOne'
  BY DEF OnlyConnectionOne, Open
<1>4. Consistent'
  BY DEF TypeOK, Consistent, Users, Open, OnlyConnectionOne
<1>5. Holders'
  BY RpcAssumption DEF TypeOK, Holders, Open, Consistent, Users, OnlyConnectionOne
<1> QED BY <1>1, <1>2, <1>3, <1>4, <1>5

\* The wait gives the mutex up, and may bring the connection back first.
LEMMA WaitStep ==
  ASSUME Inv, NEW t \in Callers, Wait(t)
  PROVE  Inv'
<1> USE DEF Inv, Wait, At, Goto, Free, Released
<1>1. connId[t] = 1
  BY DEF Consistent, Users
<1>2. /\ Open' = {1} /\ connections' \in [{1} -> Callers \cup {Nobody}]
      /\ \A u \in Callers :
           connections'[1] = u <=> ref'[u] = "live" /\ pc'[u] \in {"wait", "decode"}
  BY <1>1, OpenedOne, RpcAssumption DEF Open, TypeOK, Consistent, Users
<1>3. TypeOK'
  BY <1>1, <1>2 DEF TypeOK, Places, Open, threads
<1>4. ClosedAfterUse'
  BY <1>1, <1>2 DEF ClosedAfterUse, Using, Open, Consistent, Users, TypeOK
<1>5. OnlyConnectionOne'
  BY <1>1, <1>2 DEF OnlyConnectionOne, Open
<1>6. Consistent'
  BY <1>1, <1>2 DEF TypeOK, Consistent, Users, Open, OnlyConnectionOne
<1>7. Holders'
  BY <1>1, <1>2 DEF TypeOK, Holders, Open, Consistent, Users
<1> QED BY <1>3, <1>4, <1>5, <1>6, <1>7

\* ping's predicate may bring the connection back; the caller still uses it.
LEMMA TimedOutStep ==
  ASSUME Inv, NEW t \in Callers, TimedOut(t)
  PROVE  Inv'
<1> USE DEF Inv, TimedOut, At, Goto
<1>1. connId[t] = 1
  BY DEF Consistent, Users
<1>2. TypeOK'
  BY <1>1, OpenedOne DEF TypeOK, Places, Open, threads, Consistent, Users
<1>3. ClosedAfterUse'
  BY <1>1, OpenedOne DEF ClosedAfterUse, Using, Open, Consistent, Users, TypeOK
<1>4. OnlyConnectionOne'
  BY <1>1, OpenedOne DEF OnlyConnectionOne, Open, Consistent, Users
<1>5. Consistent'
  BY <1>1, OpenedOne DEF TypeOK, Consistent, Users, Open, OnlyConnectionOne
<1>6. Holders'
  BY <1>1, OpenedOne DEF TypeOK, Holders, Open, Consistent, Users
<1> QED BY <1>2, <1>3, <1>4, <1>5, <1>6

\* The same predicate, and ping sleeps on.
LEMMA WakePingStep ==
  ASSUME Inv, NEW t \in Callers, WakePing(t)
  PROVE  Inv'
<1> USE DEF Inv, WakePing, At, Goto
<1>1. connId[t] = 1
  BY DEF Consistent, Users
<1>2. /\ Open' = {1} /\ connections' \in [{1} -> Callers \cup {Nobody}]
      /\ \A u \in Callers :
           connections'[1] = u <=> ref'[u] = "live" /\ pc'[u] \in {"wait", "decode"}
  BY <1>1, OpenedOne DEF Open, TypeOK, Consistent, Users, caller
<1>3. TypeOK'
  BY <1>1, <1>2 DEF TypeOK, Places, Open, threads, caller
<1>4. ClosedAfterUse'
  BY <1>1, <1>2 DEF ClosedAfterUse, Using, Open, Consistent, Users, TypeOK, caller
<1>5. OnlyConnectionOne'
  BY <1>1, <1>2 DEF OnlyConnectionOne, Open
<1>6. Consistent'
  BY <1>1, <1>2 DEF TypeOK, Consistent, Users, Open, OnlyConnectionOne, caller
<1>7. Holders'
  BY <1>1, <1>2 DEF TypeOK, Holders, Open, Consistent, Users, caller
<1> QED BY <1>3, <1>4, <1>5, <1>6, <1>7

\* find_node holds the mutex again when it wakes.
LEMMA WakeFindStep ==
  ASSUME Inv, NEW t \in Callers, WakeFind(t)
  PROVE  Inv'
<1> USE DEF Inv, WakeFind, At, Goto, Free
<1>1. TypeOK'
  BY DEF TypeOK, Places, Open, threads
<1>2. ClosedAfterUse'
  BY DEF ClosedAfterUse, Using, Open, Consistent, Users, TypeOK
<1>3. OnlyConnectionOne'
  BY DEF OnlyConnectionOne, Open
<1>4. Consistent'
  BY DEF TypeOK, Consistent, Users, Open, OnlyConnectionOne
<1>5. Holders'
  BY RpcAssumption DEF TypeOK, Holders, Open, Consistent, Users, OnlyConnectionOne
<1> QED BY <1>1, <1>2, <1>3, <1>4, <1>5

\* The last lookup of find_node, after which it releases the mutex.
LEMMA DecodeStep ==
  ASSUME Inv, NEW t \in Callers, Decode(t)
  PROVE  Inv'
<1> USE DEF Inv, Decode, At, Goto, Released
<1>1. connId[t] = 1
  BY DEF Consistent, Users
<1>2. /\ Open' = {1} /\ connections' \in [{1} -> Callers \cup {Nobody}]
      /\ \A u \in Callers :
           connections'[1] = u <=> ref'[u] = "live" /\ pc'[u] \in {"wait", "decode"}
  BY <1>1, OpenedOne, RpcAssumption DEF Open, TypeOK, Consistent, Users
<1>3. TypeOK'
  BY <1>1, <1>2 DEF TypeOK, Places, Open, threads
<1>4. ClosedAfterUse'
  BY <1>1, <1>2 DEF ClosedAfterUse, Using, Open, Consistent, Users, TypeOK
<1>5. OnlyConnectionOne'
  BY <1>1, <1>2 DEF OnlyConnectionOne, Open
<1>6. Consistent'
  BY <1>1, <1>2 DEF TypeOK, Consistent, Users, Open, OnlyConnectionOne
<1>7. Holders'
  BY <1>1, <1>2 DEF TypeOK, Holders, Open, Consistent, Users
<1> QED BY <1>3, <1>4, <1>5, <1>6, <1>7

\* Closing empties the table, and whoever used the connection refers to none.
LEMMA CloseStep ==
  ASSUME Inv, NEW t \in Callers, Close(t)
  PROVE  Inv'
<1> USE DEF Inv, Close, At, Goto
<1>1. connId[t] = 1 /\ Open' = {}
  BY DEF Consistent, Users, OnlyConnectionOne, Open
<1>2. TypeOK'
  BY <1>1 DEF TypeOK, Places, Open, threads
<1>3. ClosedAfterUse'
  BY <1>1 DEF ClosedAfterUse, Using, Open, Consistent, Users, TypeOK
<1>4. OnlyConnectionOne'
  BY <1>1 DEF OnlyConnectionOne, Open, Consistent, Users
<1>5. Consistent'
  BY <1>1 DEF TypeOK, Consistent, Users, Open, OnlyConnectionOne
<1>6. Holders'
  BY <1>1 DEF TypeOK, Holders, Open, Consistent, Users
<1> QED BY <1>2, <1>3, <1>4, <1>5, <1>6

\* A caller that hangs is one whose connection was erased.
LEMMA UndefinedStep ==
  ASSUME Inv, NEW t \in Callers, Undefined(t)
  PROVE  Inv'
<1> USE DEF Inv, Undefined, At, Goto, Crash, caller
<1>1. crashed' \in BOOLEAN
  BY DEF TypeOK
<1>2. TypeOK'
  BY <1>1 DEF TypeOK, Places, Open, threads
<1>3. ClosedAfterUse'
  BY <1>1 DEF ClosedAfterUse, Using, Open, Consistent, Users, TypeOK
<1>4. OnlyConnectionOne'
  BY <1>1 DEF OnlyConnectionOne, Open
<1>5. Consistent'
  BY <1>1 DEF TypeOK, Consistent, Users, Open, OnlyConnectionOne
<1>6. Holders'
  BY <1>1 DEF TypeOK, Holders, Open, Consistent, Users
<1> QED BY <1>2, <1>3, <1>4, <1>5, <1>6

-----------------------------------------------------------------------------
(* All steps *)

\* The listener and the request thread touch nothing of the callers.
Background ==
  \/ Bind \/ ReceiveEmpty \/ RequestStart \/ Request \/ Race
  \/ \E a \in Addrs : Receive(a)

LEMMA BackgroundStep ==
  ASSUME Inv, Background
  PROVE  Inv'
<1> USE DEF Inv, Background
<1>1. UNCHANGED <<connections, caller>>
  BY DEF Bind, ReceiveEmpty, RequestStart, Request, Race, Receive, Crash
<1>2. crashed' \in BOOLEAN
  BY DEF Bind, ReceiveEmpty, RequestStart, Request, Race, Receive, Crash, TypeOK
<1>3. /\ listener' \in {"new", "listening", "ended"}
      /\ request' \in {"new", "waiting", "woken"}
  BY DEF Bind, ReceiveEmpty, RequestStart, Request, Race, Receive, Crash, TypeOK, threads
<1>4. TypeOK'
  BY <1>1, <1>2, <1>3 DEF TypeOK, Open, caller
<1>5. ClosedAfterUse' /\ OnlyConnectionOne' /\ Consistent' /\ Holders'
  BY <1>1 DEF ClosedAfterUse, Using, OnlyConnectionOne, Consistent, Holders, Open, caller
<1> QED BY <1>4, <1>5

\* A step that changes nothing.
LEMMA StutterStep ==
  ASSUME Inv, UNCHANGED vars
  PROVE  Inv'
  BY DEF Inv, vars, caller, threads, TypeOK, ClosedAfterUse, Using, OnlyConnectionOne,
         Consistent, Holders, Open

\* Every step keeps the invariant.
LEMMA InvStep == Inv /\ [Next]_vars => Inv'
<1> SUFFICES ASSUME Inv, [Next]_vars PROVE Inv'
  OBVIOUS
<1>1. CASE UNCHANGED vars
  BY <1>1, StutterStep
<1>2. CASE Background
  BY <1>2, BackgroundStep
<1>3. ASSUME NEW t \in Callers, Step(t)
      PROVE  Inv'
  BY <1>3, FindConnectStep, RetryStep, PingConnectStep, SendStep, LookupStep, AcquireStep, WaitStep,
     TimedOutStep, DecodeStep, CloseStep DEF Step
<1>4. ASSUME NEW t \in Callers, WakePing(t) \/ WakeFind(t) \/ Undefined(t)
      PROVE  Inv'
  BY <1>4, WakePingStep, WakeFindStep, UndefinedStep
<1>5. ASSUME NEW t \in Callers, NEW a \in Addrs, FindNode(t, a) \/ Ping(t, a)
      PROVE  Inv'
  BY <1>5, FindNodeStep, PingStep
<1> QED BY <1>1, <1>2, <1>3, <1>4, <1>5 DEF Next, Background

\* Inv holds in every state of Rpc.
THEOREM RpcInvariant == Spec => []Inv
  BY InvInit, InvStep, PTL DEF Spec

-----------------------------------------------------------------------------
(* The properties *)

\* Every variable of Rpc has its type, whatever the addresses convert to.
THEOREM RpcTypeOK == Spec => []TypeOK
<1>1. Inv => TypeOK
  BY DEF Inv
<1> QED BY <1>1, RpcInvariant, PTL

\* However many calls overlap, no connection outlives the calls that use it,
\* although each of them may bring it back after another has closed it.
THEOREM RpcClosedAfterUse == Spec => []ClosedAfterUse
<1>1. Inv => ClosedAfterUse
  BY DEF Inv
<1> QED BY <1>1, RpcInvariant, PTL

\* find_node's connId is 1 whatever the address is (Kademlia.cpp:101), and ping
\* gets no other: the table never holds another connection.
THEOREM RpcOnlyConnectionOne == Spec => []OnlyConnectionOne
<1>1. Inv => OnlyConnectionOne
  BY DEF Inv
<1> QED BY <1>1, RpcInvariant, PTL

\* The holder of the mutex of an open connection is exactly the caller between
\* its lock and its release, however often the connection is erased meanwhile.
THEOREM RpcMutexOwned == Spec => []MutexOwned
<1>1. Inv => MutexOwned
  BY DEF Inv, Holders, MutexOwned
<1> QED BY <1>1, RpcInvariant, PTL

=============================================================================
