------------------------------- MODULE Lookup -------------------------------
(***************************************************************************)
(* Kademlia::find and its worker threads, Kademlia::findThead              *)
(* (dht/Kademlia.cpp:157-219), over the bucket of module KBucket.          *)
(*                                                                         *)
(* The threads share one bucket and one result, as the reference           *)
(* parameters of findThead ask; the code hands both to std::thread by      *)
(* value, which does not compile.  The routing table and the remote nodes  *)
(* are outside: the table answers any set of peers, and a call of          *)
(* find_node either fails or brings any set of peers.                      *)
(***************************************************************************)
EXTENDS KBucket

CONSTANTS
  Threads,      \* CONCURRENT_FIND_PEER_REQUESTS_COUNT workers, dht/Config.h:10
  Zero,         \* the contact whose address converts to 0, net/Address.h:33
  Nobody,       \* no thread
  MaxAnswer,    \* bound on the number of peers in one answer
  Relock        \* what locking peerMapMtx may do when the thread holds it

\* Locking a std::mutex twice is undefined.  A pthread mutex of the default
\* kind blocks; where the lock is a no-op or recursive the thread goes on.
ASSUME LookupAssumption ==
  /\ 0 \in Dists
  /\ Zero \in Contacts
  /\ Threads # {} /\ Nobody \notin Threads
  /\ Relock \subseteq {"blocks", "proceeds"} /\ Relock # {}
  /\ MaxAnswer \in Nat
  /\ IsFiniteSet(Threads) /\ IsFiniteSet(Dists)

VARIABLES
  find,             \* where the caller is: "start", "join" or "returned"
  result,           \* what find returned
  contact,          \* peer.m_contact, the caller's in and out parameter
  pc, askfor,       \* per thread: its place, and the peer it asks
  answer,           \* per thread: the peers of the response still to insert
  lock,             \* the holder of peerMapMtx
  tableLock,        \* the holder of routeTableLock
  isWorking, shouldTerminate

caller == <<find, result, contact>>
flags  == <<isWorking, shouldTerminate>>
vars   == <<kvars, caller, pc, askfor, answer, lock, tableLock, flags>>

Goto(t, place) == pc' = [pc EXCEPT ![t] = place]

\* At most n peers: distances with a contact each.
Peers(n) == UNION {[D -> Contacts] : D \in {D \in SUBSET Dists : Cardinality(D) <= n}}

Answers == Peers(MaxAnswer)

-----------------------------------------------------------------------------
(* Kademlia::find *)

\* The routing table has the peer.
FindLocal ==
  /\ find = "start"
  /\ contact' \in Contacts
  /\ find' = "returned" /\ result' = 1
  /\ UNCHANGED <<kvars, pc, askfor, answer, lock, tableLock, flags>>

\* It does not: the closest peers it has fill the bucket, and the workers start.
FindStart ==
  /\ find = "start"
  /\ \E near \in Peers(Capacity) :
       /\ 0 \notin DOMAIN near
       /\ bucket' = near /\ offered' = DOMAIN near /\ size' = Cardinality(DOMAIN near)
  /\ find' = "join"
  /\ pc' = [t \in Threads |-> "lock"]
  /\ UNCHANGED <<result, contact, crashed, removed, askfor, answer, lock, tableLock, flags>>

\* mutant: it adds up what the workers return
FindReturnSum ==
  /\ find = "join" /\ ~crashed
  /\ \A t \in Threads : pc[t] \in {"found", "ended"}
  /\ find' = "returned"
  /\ result' = Cardinality({t \in Threads : pc[t] = "found"})
  /\ UNCHANGED <<kvars, contact, pc, askfor, answer, lock, tableLock, flags>>

\* All workers have been joined.
FindReturn ==
  /\ find = "join" /\ ~crashed
  /\ \A t \in Threads : pc[t] \in {"found", "ended"}
  /\ find' = "returned"
  /\ result' = IF contact = Zero THEN 0 ELSE 1
  /\ UNCHANGED <<kvars, contact, pc, askfor, answer, lock, tableLock, flags>>

-----------------------------------------------------------------------------
(* Kademlia::findThead *)

At(t, place) == ~crashed /\ pc[t] = place

\* peerMaxCv.wait finds the bucket empty and releases the mutex.  Nothing in
\* the code notifies peerMaxCv.
Sleep(t) ==
  /\ At(t, "lock") /\ lock = Nobody
  /\ InBucket = {}
  /\ Goto(t, "asleep")
  /\ UNCHANGED <<kvars, caller, askfor, answer, lock, tableLock, flags>>

\* A condition variable may wake without being notified.
SpuriousWake(t) ==
  /\ At(t, "asleep")
  /\ Goto(t, "lock")
  /\ UNCHANGED <<kvars, caller, askfor, answer, lock, tableLock, flags>>

\* mutant: the peer parameter is a copy
TakeTargetByValue(t) ==
  /\ At(t, "lock") /\ lock = Nobody
  /\ InBucket # {} /\ Closest = 0
  /\ isWorking' = isWorking + 1
  /\ shouldTerminate' = TRUE
  /\ Goto(t, "found")
  /\ UNCHANGED <<kvars, caller, askfor, answer, lock, tableLock>>

\* mutant: the target is removed before the test
TakeTargetRemoves(t) ==
  /\ At(t, "lock") /\ lock = Nobody
  /\ InBucket # {} /\ Closest = 0
  /\ Remove(Closest)
  /\ isWorking' = isWorking + 1
  /\ contact' = bucket[Closest]
  /\ shouldTerminate' = TRUE
  /\ Goto(t, "found")
  /\ UNCHANGED <<find, result, askfor, answer, lock, tableLock>>

\* mutant: the worker is counted out when it returns
TakeTargetCountsOut(t) ==
  /\ At(t, "lock") /\ lock = Nobody
  /\ InBucket # {} /\ Closest = 0
  /\ contact' = bucket[Closest]
  /\ shouldTerminate' = TRUE
  /\ Goto(t, "found")
  /\ UNCHANGED <<kvars, find, result, askfor, answer, lock, tableLock, isWorking>>

\* The closest peer is the one looked for.  The thread returns 1; isWorking
\* keeps its increment.
TakeTarget(t) ==
  /\ At(t, "lock") /\ lock = Nobody
  /\ InBucket # {} /\ Closest = 0
  /\ isWorking' = isWorking + 1
  /\ contact' = bucket[Closest]
  /\ shouldTerminate' = TRUE
  /\ Goto(t, "found")
  /\ UNCHANGED <<kvars, find, result, askfor, answer, lock, tableLock>>

\* Otherwise the thread means to ask it, and calls remove with the mutex held.
Take(t) ==
  /\ At(t, "lock") /\ lock = Nobody
  /\ InBucket # {} /\ Closest # 0
  /\ isWorking' = isWorking + 1
  /\ askfor' = [askfor EXCEPT ![t] = bucket[Closest]]
  /\ lock' = t
  /\ Goto(t, "remove")
  /\ UNCHANGED <<kvars, caller, answer, tableLock, shouldTerminate>>

\* remove locks the mutex again and the thread waits for itself.
RemoveBlocks(t) ==
  /\ At(t, "remove") /\ "blocks" \in Relock
  /\ Goto(t, "stuck")
  /\ UNCHANGED <<kvars, caller, askfor, answer, lock, tableLock, flags>>

\* remove goes on, and the thread releases the mutex.
RemoveProceeds(t) ==
  /\ At(t, "remove") /\ "proceeds" \in Relock
  /\ Remove(Closest)
  /\ lock' = Nobody
  /\ Goto(t, "ask")
  /\ UNCHANGED <<caller, askfor, answer, tableLock, flags>>

\* find_node gives up: no address, no connection, send failure, timeout or a
\* malformed response.  findThead does not look at its result.
AskFails(t) ==
  /\ At(t, "ask")
  /\ Goto(t, "finish")
  /\ UNCHANGED <<kvars, caller, askfor, answer, lock, tableLock, flags>>

\* A response arrives: find_node inserts its peers under routeTableLock.
AskAnswered(t) ==
  /\ At(t, "ask")
  /\ askfor[t] # Zero
  /\ tableLock = Nobody
  /\ tableLock' = t
  /\ \E near \in Answers : answer' = [answer EXCEPT ![t] = near]
  /\ Goto(t, "insert")
  /\ UNCHANGED <<kvars, caller, askfor, lock, flags>>

\* mutant: insert without peerMapMtx
InsertNextUnlocked(t) ==
  /\ At(t, "insert")
  /\ \E d \in DOMAIN answer[t] :
       /\ Insert(d, answer[t][d])
       /\ answer' = [answer EXCEPT ![t] = [e \in DOMAIN answer[t] \ {d} |-> answer[t][e]]]
  /\ UNCHANGED <<caller, pc, askfor, lock, tableLock, flags>>

InsertNext(t) ==
  /\ At(t, "insert")
  /\ lock = Nobody
  /\ \E d \in DOMAIN answer[t] :
       /\ Insert(d, answer[t][d])
       /\ answer' = [answer EXCEPT ![t] = [e \in DOMAIN answer[t] \ {d} |-> answer[t][e]]]
  /\ UNCHANGED <<caller, pc, askfor, lock, tableLock, flags>>

InsertDone(t) ==
  /\ At(t, "insert")
  /\ DOMAIN answer[t] = {}
  /\ tableLock' = Nobody
  /\ Goto(t, "finish")
  /\ UNCHANGED <<kvars, caller, askfor, answer, lock, flags>>

\* mutant: the mutex is not released
FinishKeepsLock(t) ==
  /\ At(t, "finish") /\ lock = Nobody
  /\ isWorking' = isWorking - 1
  /\ lock' = t
  /\ Goto(t, "loop")
  /\ UNCHANGED <<kvars, caller, askfor, answer, tableLock, shouldTerminate>>

Finish(t) ==
  /\ At(t, "finish") /\ lock = Nobody
  /\ isWorking' = isWorking - 1
  /\ Goto(t, "loop")
  /\ UNCHANGED <<kvars, caller, askfor, answer, lock, tableLock, shouldTerminate>>

\* mutant: && for ||
LoopWorkingAnd(t) ==
  /\ At(t, "loop")
  /\ Goto(t, IF isWorking # 0 THEN "loop2" ELSE "ended")
  /\ UNCHANGED <<kvars, caller, askfor, answer, lock, tableLock, flags>>

\* while (isWorking != 0 || !shouldTerminate): two atomic loads.
LoopWorking(t) ==
  /\ At(t, "loop")
  /\ Goto(t, IF isWorking # 0 THEN "lock" ELSE "loop2")
  /\ UNCHANGED <<kvars, caller, askfor, answer, lock, tableLock, flags>>

LoopTerminate(t) ==
  /\ At(t, "loop2")
  /\ Goto(t, IF shouldTerminate THEN "ended" ELSE "lock")
  /\ UNCHANGED <<kvars, caller, askfor, answer, lock, tableLock, flags>>

Step(t) ==
  \/ Sleep(t) \/ TakeTarget(t) \/ Take(t)
  \/ RemoveBlocks(t) \/ RemoveProceeds(t)
  \/ AskFails(t) \/ AskAnswered(t) \/ InsertNext(t) \/ InsertDone(t)
  \/ Finish(t) \/ LoopWorking(t) \/ LoopTerminate(t)

-----------------------------------------------------------------------------
Init ==
  /\ KInit
  /\ find = "start" /\ result = 0
  /\ contact \in Contacts
  /\ pc = [t \in Threads |-> "new"]
  /\ askfor = [t \in Threads |-> Zero]
  /\ answer = [t \in Threads |-> [d \in {} |-> Zero]]
  /\ lock = Nobody /\ tableLock = Nobody
  /\ isWorking = 0 /\ shouldTerminate = FALSE

Next ==
  \/ FindLocal \/ FindStart \/ FindReturn
  \/ \E t \in Threads : Step(t) \/ SpuriousWake(t)

\* Every thread that can move does so in the end; find_node is among its steps
\* because each of its waits has a timeout (dht/Config.h:13-22).  A spurious
\* wake-up may happen but is owed to nobody.
Fairness == WF_vars(FindReturn) /\ \A t \in Threads : WF_vars(Step(t))

Spec == Init /\ [][Next]_vars /\ Fairness

-----------------------------------------------------------------------------
(* Properties *)

Places == {"new", "lock", "asleep", "remove", "stuck", "ask", "insert", "finish",
           "loop", "loop2", "found", "ended"}

\* Every variable has its type.
TypeOK ==
  /\ KTypeOK
  /\ find \in {"start", "join", "returned"} /\ result \in {0, 1} /\ contact \in Contacts
  /\ pc \in [Threads -> Places] /\ askfor \in [Threads -> Contacts]
  /\ answer \in [Threads -> Answers]
  /\ lock \in Threads \cup {Nobody} /\ tableLock \in Threads \cup {Nobody}
  /\ isWorking \in Int /\ shouldTerminate \in BOOLEAN

\* The counter isWorking is not 0 once a worker has found the target, since the
\* early return at Kademlia.cpp:177 leaves its increment behind.  The loop
\* condition at 189 depends on this: once the target is found, a worker that
\* starts to evaluate it is never let go, but takes the mutex again and finds the
\* target itself.  Only one that loaded isWorking = 0 before another one found
\* the target, and shouldTerminate after, can return 0.
LoopGoesOn == [][\A t \in Threads : shouldTerminate /\ pc[t] = "loop" => pc'[t] # "loop2"]_vars

\* From the moment a worker says that the search is over, the target is in the
\* bucket and the caller's variable holds the contact the bucket has for it:
\* however many threads write the variable (Kademlia.cpp:175), they write the same.
ResultIsTarget ==
  shouldTerminate => 0 \in InBucket /\ contact = bucket[0]

\* Once the target is in the bucket no thread takes it out, though every thread
\* removes what it finds at the front.
TargetStays == [][0 \in InBucket => 0 \in DOMAIN bucket']_vars

\* The peer a thread means to ask is still the front of the map when the thread
\* erases it: the iterator of Kademlia.cpp:170 is valid at 179, and no peer is
\* dropped without having been asked.
FrontIsAsked ==
  \A t \in Threads : pc[t] = "remove" => InBucket # {} /\ bucket[Closest] = askfor[t]

\* Once the target is in the bucket, every worker that is not asleep on the
\* condition variable ends, unless one has locked itself out or the process
\* dies: the others do not go on asking around for ever.
FoundSpreads ==
  \A t \in Threads :
    0 \in InBucket /\ find = "join" ~>
      \/ pc[t] \in {"found", "ended", "asleep"}
      \/ crashed \/ \E u \in Threads : pc[u] = "stuck"

Promise == INSTANCE Search WITH status <- find, found <- shouldTerminate

\* Seen by its caller, find is one thread that searches: whatever the workers do
\* and however many write the peer, a search that returns 1 has found the target
\* and hands it over, and one that found it returns what its address says.
ImplementsSearch == Promise!Spec

\* Kademlia.cpp:182: the mutex is released for the time of the remote call, so
\* that other threads can work.
LockReleased == \A t \in Threads : lock = t ~> lock # t

\* Kademlia.h:96 and Kademlia.cpp:218: a search has an answer, 0 if the peer was
\* not found.
FindReturns == find = "join" ~> find = "returned" \/ crashed

=============================================================================
