--------------------------- MODULE Lookup_proofs ----------------------------
(***************************************************************************)
(* Proofs of the safety properties of Lookup, and of the refinement of     *)
(* Search, for every number of workers, every capacity and either outcome  *)
(* of the double lock.                                                     *)
(***************************************************************************)
EXTENDS Lookup, FiniteSetTheorems, TLAPS

\* remove runs with the mutex held, and a thread that locked itself out keeps it.
Locked == \A t \in Threads : pc[t] \in {"remove", "stuck"} => lock = t

\* What a thread is about to remove is the front it looked at.
Front ==
  \A t \in Threads : pc[t] = "remove" =>
    InBucket # {} /\ Closest # 0 /\ bucket[Closest] = askfor[t]

\* shouldTerminate is set by a thread that has found the target and by no other,
\* and no thread ends without it.
Known ==
  /\ \A t \in Threads : pc[t] \in {"found", "ended"} => shouldTerminate
  /\ shouldTerminate => \E t \in Threads : pc[t] = "found"

\* Workers are at work only while find joins them.
Phases ==
  /\ find = "start" =>
       /\ ~shouldTerminate /\ result = 0 /\ InBucket = {}
       /\ \A t \in Threads : pc[t] = "new"
  /\ find # "join" => \A t \in Threads : pc[t] \in {"new", "found", "ended"}

\* isWorking counts the threads at work, and also those that have returned with
\* the target: 177 returns without the decrement of 187, so it is more than the
\* "threads at work" of Kademlia.h:20.
Working == {t \in Threads : pc[t] \in {"remove", "stuck", "ask", "insert", "finish"}}
Found   == {t \in Threads : pc[t] = "found"}
WorkAccounted == isWorking = Cardinality(Working \cup Found)

Inv == TypeOK /\ WorkAccounted /\ Locked /\ Front /\ ResultIsTarget /\ Known /\ Phases

-----------------------------------------------------------------------------
(* The bucket *)

\* A set of numbers that is not empty has a least one.
LEMMA Least ==
  ASSUME NEW S \in SUBSET Nat, S # {}
  PROVE  \E d \in S : \A e \in S : d <= e
<1> DEFINE Low(d) == {e \in S : e < d}
           T == {Low(d) : d \in S}
<1>0. \A d \in S : d \in Nat
  OBVIOUS
<1>1. ASSUME NEW d \in S
      PROVE  IsFiniteSet(Low(d)) /\ Low(d) \in SUBSET Nat
  <2>1. Low(d) \in SUBSET Nat /\ d \in Nat /\ \A s \in Low(d) : s <= d
    <3>1. d \in Nat
      BY <1>0
    <3>2. ASSUME NEW s \in Low(d) PROVE s \in Nat /\ s <= d
      BY <1>0, <3>1
    <3> QED BY <3>1, <3>2
  <2> HIDE DEF Low
  <2> QED
    BY <2>1, FS_BoundedSetOfNaturals
<1>2. T \subseteq FiniteSubsetsOf(Nat) /\ T # {}
  BY <1>1 DEF FiniteSubsetsOf
<1>3. PICK low \in T : \A lower \in T : ~(<<lower, low>> \in StrictSubsetOrdering(Nat))
  <2> HIDE DEF T
  <2> QED
    BY <1>2, FS_StrictSubsetOrderingWellFounded, WFMin
<1>4. PICK d \in S : low = Low(d)
  OBVIOUS
<1>5. ASSUME NEW e \in S, e < d
      PROVE  FALSE
  <2>0. Low(e) \in T
    OBVIOUS
  <2>1. Low(e) \in SUBSET Low(d) /\ e \in Low(d) /\ e \notin Low(e)
    <3>1. d \in Nat /\ e \in Nat
      BY <1>0
    <3>2. ASSUME NEW x \in Low(e) PROVE x \in Low(d)
      <4>1. x \in S /\ x \in Nat /\ x < e
        BY <1>0
      <4> QED BY <1>5, <3>1, <4>1
    <3>3. e \in Low(d)
      BY <1>5
    <3>4. e \notin Low(e)
      BY <3>1
    <3> HIDE DEF Low
    <3> QED BY <3>2, <3>3, <3>4
  <2>2. <<Low(e), low>> \in StrictSubsetOrdering(Nat)
    BY <1>1, <1>4, <2>1 DEF StrictSubsetOrdering, FiniteSubsetsOf
  <2> QED
    BY <1>3, <2>0, <2>2
<1> QED
  BY <1>5

\* begin() of a map that is not empty is one of its keys.
LEMMA ClosestIsIn ==
  ASSUME KTypeOK, InBucket # {}
  PROVE  Closest \in InBucket
<1>1. InBucket \in SUBSET Nat
  BY LookupAssumption, KBucketAssumption DEF KTypeOK
<1>2. \E d \in InBucket : \A e \in InBucket : d <= e
  BY <1>1, Least
<1> QED
  BY <1>2 DEF Closest

\* insert takes nothing out and changes no contact.
LEMMA InsertGrows ==
  ASSUME KTypeOK, NEW d \in Dists, NEW c \in Contacts, Insert(d, c)
  PROVE  /\ KTypeOK' /\ InBucket \subseteq InBucket'
         /\ \A e \in InBucket : bucket'[e] = bucket[e]
<1>1. /\ offered' = offered \cup {d} /\ UNCHANGED removed
  BY DEF Insert
<1>2. CASE UNCHANGED <<bucket, size>> /\ crashed' \in BOOLEAN
  BY <1>1, <1>2 DEF KTypeOK, InBucket
<1>3. CASE bucket' = Added(d, c) /\ size' \in Nat /\ UNCHANGED crashed
  <2>1. bucket' \in [InBucket \cup {d} -> Contacts]
    BY <1>3 DEF KTypeOK, Added
  <2>2. \A e \in InBucket : bucket'[e] = bucket[e] \/ e = d
    BY <1>3 DEF Added
  <2>3. InBucket' = InBucket \cup {d}
    BY <2>1 DEF InBucket
  <2>4. d \notin InBucket \/ bucket' = bucket
    BY DEF Insert, InsertKnown, InsertRoom, InsertCloser, InsertRefuse, InsertCrash
  <2> QED
    BY <1>1, <1>3, <2>1, <2>2, <2>3, <2>4 DEF KTypeOK
<1>4. size \in Nat /\ size + 1 \in Nat /\ crashed \in BOOLEAN
  BY DEF KTypeOK
<1> QED
  BY <1>2, <1>3, <1>4
     DEF Insert, InsertKnown, InsertRoom, InsertCloser, InsertRefuse, InsertCrash

\* remove takes out what it is called for.
LEMMA RemoveTakes ==
  ASSUME KTypeOK, NEW d, Remove(d)
  PROVE  /\ KTypeOK' /\ InBucket' = InBucket \ {d}
         /\ \A e \in InBucket' : bucket'[e] = bucket[e]
<1>1. /\ bucket' = [e \in InBucket \ {d} |-> bucket[e]] /\ d \in InBucket
      /\ removed' = removed \cup {d} /\ UNCHANGED <<size, crashed, offered>>
  BY DEF Remove
<1>2. InBucket' = InBucket \ {d}
  BY <1>1 DEF InBucket
<1>3. bucket' \in [InBucket \ {d} -> Contacts]
  BY <1>1 DEF KTypeOK
<1> QED
  BY <1>1, <1>2, <1>3 DEF KTypeOK

\* Inserting one peer of an answer leaves an answer.
LEMMA AnswerShrinks ==
  ASSUME NEW near \in Answers, NEW d \in DOMAIN near
  PROVE  /\ d \in Dists /\ near[d] \in Contacts
         /\ [e \in DOMAIN near \ {d} |-> near[e]] \in Answers
<1>1. PICK D \in SUBSET Dists : Cardinality(D) <= MaxAnswer /\ near \in [D -> Contacts]
  BY DEF Answers, Peers
<1>2. /\ IsFiniteSet(D) /\ (D \ {d}) \in SUBSET D
      /\ Cardinality(D) \in Nat
  BY <1>1, LookupAssumption, FS_Subset, FS_CardinalityType
<1>3. Cardinality(D \ {d}) <= Cardinality(D) /\ Cardinality(D \ {d}) \in Nat
  BY <1>2, FS_Subset, FS_CardinalityType
<1>4. Cardinality(D \ {d}) <= MaxAnswer
  BY <1>1, <1>2, <1>3, LookupAssumption
<1>5. [e \in DOMAIN near \ {d} |-> near[e]] \in [D \ {d} -> Contacts]
  BY <1>1
<1> QED
  BY <1>1, <1>4, <1>5 DEF Answers, Peers

-----------------------------------------------------------------------------
(* The invariant *)

LEMMA InvInit == Init => Inv
<1> SUFFICES ASSUME Init PROVE Inv
  OBVIOUS
<1>0. InBucket = {}
  BY DEF Init, KInit, InBucket
<1>1. KTypeOK
  <2>1. InBucket = {} /\ bucket \in [{} -> Contacts] /\ size = 0
       /\ crashed = FALSE /\ offered = {} /\ removed = {}
    BY DEF Init, KInit, InBucket
  <2> QED
    BY <2>1 DEF KTypeOK
<1>2. [d \in {} |-> Zero] \in Answers
  <2>1. [d \in {} |-> Zero] \in [{} -> Contacts] /\ {} \in SUBSET Dists /\ Cardinality({}) <= MaxAnswer
    BY FS_EmptySet, LookupAssumption
  <2> QED
    BY <2>1 DEF Answers, Peers
<1>3. TypeOK
  <2> DEFINE none == [d \in {} |-> Zero]
  <2>1. answer = [t \in Threads |-> none] /\ none \in Answers
    BY <1>2 DEF Init
  <2> HIDE DEF none
  <2>2. answer \in [Threads -> Answers]
    BY <2>1
  <2>3. /\ find = "start" /\ result = 0 /\ contact \in Contacts
        /\ pc = [t \in Threads |-> "new"] /\ askfor = [t \in Threads |-> Zero]
        /\ lock = Nobody /\ tableLock = Nobody
        /\ isWorking = 0 /\ shouldTerminate \in BOOLEAN
    BY DEF Init
  <2>4. pc \in [Threads -> Places] /\ askfor \in [Threads -> Contacts]
    BY <2>3, LookupAssumption DEF Places
  <2> QED
    BY <1>1, <2>2, <2>3, <2>4 DEF TypeOK
<1>4. Working \cup Found = {}
  BY DEF Init, Working, Found
<1>5. WorkAccounted
  BY <1>4, FS_EmptySet DEF Init, WorkAccounted
<1> QED
  BY <1>0, <1>3, <1>5 DEF Init, Inv, Locked, Front, ResultIsTarget, Known, Phases

\* Every step keeps the types.
LEMMA TypeStep ==
  ASSUME TypeOK, Next
  PROVE  TypeOK'
<1> USE DEF TypeOK, caller, flags, kvars, Goto, At
<1>1. CASE FindLocal
  BY <1>1 DEF FindLocal, KTypeOK, InBucket
<1>2. CASE FindStart
  <2>1. PICK near \in Peers(Capacity) :
          bucket' = near /\ offered' = DOMAIN near /\ size' = Cardinality(DOMAIN near)
    BY <1>2 DEF FindStart
  <2>2. PICK D \in SUBSET Dists : near \in [D -> Contacts]
    BY DEF Peers
  <2>3. Cardinality(D) \in Nat
    BY LookupAssumption, FS_Subset, FS_CardinalityType
  <2>4. KTypeOK'
    BY <1>2, <2>1, <2>2, <2>3 DEF FindStart, KTypeOK, InBucket
  <2> QED
    BY <1>2, <2>4 DEF FindStart, Places
<1>3. CASE FindReturn
  BY <1>3 DEF FindReturn, KTypeOK, InBucket
<1>4. ASSUME NEW t \in Threads, Sleep(t) \/ SpuriousWake(t)
      PROVE  TypeOK'
  BY <1>4 DEF Sleep, SpuriousWake, Places, KTypeOK, InBucket
<1>5. ASSUME NEW t \in Threads, TakeTarget(t)
      PROVE  TypeOK'
  <2>1. bucket[Closest] \in Contacts
    BY <1>5, ClosestIsIn DEF TakeTarget, KTypeOK, InBucket
  <2> HIDE DEF InBucket
  <2> QED
    BY <1>5, <2>1 DEF TakeTarget, Places, KTypeOK, InBucket
<1>6. ASSUME NEW t \in Threads, Take(t)
      PROVE  TypeOK'
  <2>1. bucket[Closest] \in Contacts
    BY <1>6, ClosestIsIn DEF Take, KTypeOK, InBucket
  <2> QED
    BY <1>6, <2>1 DEF Take, Places, KTypeOK, InBucket
<1>7. ASSUME NEW t \in Threads, RemoveBlocks(t)
      PROVE  TypeOK'
  BY <1>7 DEF RemoveBlocks, Places, KTypeOK, InBucket
<1>8. ASSUME NEW t \in Threads, RemoveProceeds(t)
      PROVE  TypeOK'
  <2>1. KTypeOK'
    BY <1>8, RemoveTakes DEF RemoveProceeds
  <2> QED
    BY <1>8, <2>1 DEF RemoveProceeds, Places
<1>9. ASSUME NEW t \in Threads, AskFails(t) \/ AskAnswered(t)
      PROVE  TypeOK'
  BY <1>9 DEF AskFails, AskAnswered, Places, KTypeOK, InBucket
<1>10. ASSUME NEW t \in Threads, InsertNext(t)
       PROVE  TypeOK'
  <2>1. PICK d \in DOMAIN answer[t] :
          /\ Insert(d, answer[t][d])
          /\ answer' = [answer EXCEPT ![t] = [e \in DOMAIN answer[t] \ {d} |-> answer[t][e]]]
    BY <1>10 DEF InsertNext
  <2>2. KTypeOK' /\ answer' \in [Threads -> Answers]
    BY <2>1, AnswerShrinks, InsertGrows
  <2> QED
    BY <1>10, <2>2 DEF InsertNext
<1>11. ASSUME NEW t \in Threads, InsertDone(t) \/ Finish(t)
       PROVE  TypeOK'
  BY <1>11 DEF InsertDone, Finish, Places, KTypeOK, InBucket
<1>12. ASSUME NEW t \in Threads, LoopWorking(t) \/ LoopTerminate(t)
       PROVE  TypeOK'
  BY <1>12 DEF LoopWorking, LoopTerminate, Places, KTypeOK, InBucket
<1> QED
  BY <1>1, <1>2, <1>3, <1>4, <1>5, <1>6, <1>7, <1>8, <1>9, <1>10, <1>11, <1>12
     DEF Next, Step

\* Every step leaves the mutex with the thread that calls remove, tells of the
\* target only what a thread knows, and keeps the workers between the start and
\* the join.
LEMMA ControlStep ==
  ASSUME Inv, Next
  PROVE  Locked' /\ Known' /\ Phases'
<1> USE DEF Inv, TypeOK, Locked, Known, Phases, caller, flags, kvars, Goto, At
<1>1. CASE FindLocal
  BY <1>1 DEF FindLocal, InBucket
<1>2. CASE FindStart
  BY <1>2 DEF FindStart
<1>3. CASE FindReturn
  BY <1>3 DEF FindReturn
<1>4. ASSUME NEW t \in Threads, Sleep(t) \/ SpuriousWake(t)
      PROVE  Locked' /\ Known' /\ Phases'
  BY <1>4 DEF Sleep, SpuriousWake, InBucket
<1>5. ASSUME NEW t \in Threads, TakeTarget(t)
      PROVE  Locked' /\ Known' /\ Phases'
  BY <1>5 DEF TakeTarget
<1>6. ASSUME NEW t \in Threads, Take(t)
      PROVE  Locked' /\ Known' /\ Phases'
  BY <1>6, LookupAssumption DEF Take
<1>7. ASSUME NEW t \in Threads, RemoveBlocks(t)
      PROVE  Locked' /\ Known' /\ Phases'
  BY <1>7 DEF RemoveBlocks
<1>8. ASSUME NEW t \in Threads, RemoveProceeds(t)
      PROVE  Locked' /\ Known' /\ Phases'
  BY <1>8 DEF RemoveProceeds
<1>9. ASSUME NEW t \in Threads, AskFails(t) \/ AskAnswered(t)
      PROVE  Locked' /\ Known' /\ Phases'
  BY <1>9 DEF AskFails, AskAnswered
<1>10. ASSUME NEW t \in Threads, InsertNext(t)
       PROVE  Locked' /\ Known' /\ Phases'
  BY <1>10 DEF InsertNext
<1>11. ASSUME NEW t \in Threads, InsertDone(t) \/ Finish(t)
       PROVE  Locked' /\ Known' /\ Phases'
  BY <1>11 DEF InsertDone, Finish
<1>12. ASSUME NEW t \in Threads, LoopWorking(t) \/ LoopTerminate(t)
       PROVE  Locked' /\ Known' /\ Phases'
  BY <1>12 DEF LoopWorking, LoopTerminate
<1> QED
  BY <1>1, <1>2, <1>3, <1>4, <1>5, <1>6, <1>7, <1>8, <1>9, <1>10, <1>11, <1>12
     DEF Next, Step

\* The front a thread means to remove stays the front: whoever changes the map
\* holds the mutex.
LEMMA FrontStep ==
  ASSUME Inv, Next
  PROVE  Front'
<1> USE DEF Inv, TypeOK, Locked, Phases, Front, caller, flags, kvars, Goto, At
<1>1. ASSUME UNCHANGED bucket,
             \A t \in Threads : pc'[t] = "remove" => pc[t] = "remove" /\ askfor'[t] = askfor[t]
      PROVE  Front'
  BY <1>1 DEF InBucket, Closest
<1>2. CASE FindLocal \/ FindReturn
  BY <1>1, <1>2 DEF FindLocal, FindReturn
<1>3. CASE FindStart
  BY <1>3 DEF FindStart
<1>4. ASSUME NEW t \in Threads,
             \/ Sleep(t) \/ SpuriousWake(t) \/ TakeTarget(t) \/ RemoveBlocks(t)
             \/ AskFails(t) \/ AskAnswered(t) \/ InsertDone(t) \/ Finish(t)
             \/ LoopWorking(t) \/ LoopTerminate(t)
      PROVE  Front'
  BY <1>1, <1>4
     DEF Sleep, SpuriousWake, TakeTarget, RemoveBlocks, AskFails, AskAnswered, InsertDone,
         Finish, LoopWorking, LoopTerminate
<1>5. ASSUME NEW t \in Threads, Take(t)
      PROVE  Front'
  <2>1. UNCHANGED bucket /\ InBucket # {} /\ Closest # 0
    BY <1>5 DEF Take
  <2>2. \A u \in Threads : pc'[u] = "remove" => u = t
    BY <1>5, LookupAssumption DEF Take
  <2>3. askfor'[t] = bucket[Closest]
    BY <1>5 DEF Take
  <2> QED
    BY <2>1, <2>2, <2>3 DEF InBucket, Closest
<1>6. ASSUME NEW t \in Threads, RemoveProceeds(t) \/ InsertNext(t)
      PROVE  Front'
  BY <1>6, LookupAssumption DEF RemoveProceeds, InsertNext
<1> QED
  BY <1>2, <1>3, <1>4, <1>5, <1>6 DEF Next, Step

\* A step takes the target out of the bucket never, and changes its contact not.
LEMMA TargetStep ==
  ASSUME Inv, Next, 0 \in InBucket
  PROVE  0 \in InBucket' /\ bucket'[0] = bucket[0]
<1> USE DEF Inv, TypeOK, caller, flags, kvars, Goto, At
<1>1. CASE UNCHANGED bucket
  BY <1>1 DEF InBucket
<1>2. CASE FindStart
  BY <1>2 DEF FindStart, Phases
<1>3. ASSUME NEW t \in Threads, RemoveProceeds(t)
      PROVE  0 \in InBucket' /\ bucket'[0] = bucket[0]
  <2>1. Closest # 0 /\ Remove(Closest)
    BY <1>3 DEF RemoveProceeds, Front
  <2> QED
    BY <2>1, RemoveTakes
<1>4. ASSUME NEW t \in Threads, InsertNext(t)
      PROVE  0 \in InBucket' /\ bucket'[0] = bucket[0]
  <2>1. PICK d \in DOMAIN answer[t] : Insert(d, answer[t][d])
    BY <1>4 DEF InsertNext
  <2>2. d \in Dists /\ answer[t][d] \in Contacts
    BY AnswerShrinks
  <2> QED
    BY <2>1, <2>2, InsertGrows
<1> QED
  BY <1>1, <1>2, <1>3, <1>4
     DEF Next, Step, FindLocal, FindReturn, Sleep, SpuriousWake, TakeTarget, Take, RemoveBlocks,
         AskFails, AskAnswered, InsertDone, Finish, LoopWorking, LoopTerminate

\* Only a thread that sees the target in the bucket writes the result, and what
\* it writes is the target's contact.
LEMMA ResultStep ==
  ASSUME Inv, Next
  PROVE  ResultIsTarget'
<1>1. CASE shouldTerminate /\ UNCHANGED contact
  BY <1>1, TargetStep DEF Inv, ResultIsTarget
<1>2. ASSUME NEW t \in Threads, TakeTarget(t)
      PROVE  ResultIsTarget'
  <2>1. Closest \in InBucket /\ Closest = 0 /\ contact' = bucket[0] /\ UNCHANGED bucket
    BY <1>2, ClosestIsIn DEF TakeTarget, Inv, TypeOK, kvars
  <2> QED
    BY <2>1 DEF ResultIsTarget, InBucket
<1>3. CASE FindLocal
  BY <1>3 DEF FindLocal, flags, Inv, Phases, ResultIsTarget
<1>4. CASE UNCHANGED <<contact, shouldTerminate>>
  BY <1>1, <1>4 DEF Inv, TypeOK, ResultIsTarget
<1> QED
  BY <1>2, <1>3, <1>4
     DEF Next, Step, caller, flags, FindStart, FindReturn, Sleep, SpuriousWake, Take, RemoveBlocks,
         RemoveProceeds, AskFails, AskAnswered, InsertNext, InsertDone, Finish, LoopWorking,
         LoopTerminate

-----------------------------------------------------------------------------
(* The counter of workers *)

Counted == {"remove", "stuck", "ask", "insert", "finish", "found"}
Busy    == {t \in Threads : pc[t] \in Counted}

LEMMA BusyIsFinite ==
  /\ Working \cup Found = Busy
  /\ IsFiniteSet(Busy) /\ Cardinality(Busy) \in Nat
<1>1. Working \cup Found = Busy
  BY DEF Working, Found, Busy, Counted
<1>2. Busy \in SUBSET Threads
  BY DEF Busy
<1> QED
  BY <1>1, <1>2, LookupAssumption, FS_Subset, FS_CardinalityType

\* A thread that goes to another place enters or leaves the busy ones alone.
LEMMA BusyMoves ==
  ASSUME NEW t \in Threads, NEW place, pc \in [Threads -> Places],
         pc' = [pc EXCEPT ![t] = place]
  PROVE  Busy' = IF place \in Counted THEN Busy \cup {t} ELSE Busy \ {t}
BY DEF Busy

\* Every step that makes a thread busy counts it, and every step that makes it
\* idle again counts it out.
LEMMA WorkStep ==
  ASSUME Inv, Next
  PROVE  WorkAccounted'
<1> USE DEF caller, flags, kvars, Goto, At
<1>0. /\ isWorking = Cardinality(Busy) /\ pc \in [Threads -> Places]
      /\ IsFiniteSet(Busy) /\ Cardinality(Busy) \in Nat
  BY BusyIsFinite DEF Inv, WorkAccounted, TypeOK
<1>1. SUFFICES isWorking' = Cardinality(Busy')
  <2>1. Working' \cup Found' = Busy'
    BY DEF Working, Found, Busy, Counted
  <2> QED
    BY <1>1, <2>1 DEF WorkAccounted
<1>2. CASE UNCHANGED <<pc, isWorking>>
  BY <1>0, <1>2 DEF Busy
<1>3. CASE FindStart
  <2>1. Busy = {} /\ Busy' = {}
    BY <1>3 DEF FindStart, Inv, Phases, Busy, Counted
  <2> QED
    BY <1>0, <1>3, <2>1 DEF FindStart
<1>4. ASSUME NEW t \in Threads, TakeTarget(t) \/ Take(t)
      PROVE  isWorking' = Cardinality(Busy')
  <2>1. t \notin Busy /\ isWorking' = isWorking + 1
    BY <1>4 DEF TakeTarget, Take, Busy, Counted
  <2>2. Busy' = Busy \cup {t}
    BY <1>0, <1>4, BusyMoves DEF TakeTarget, Take, Counted
  <2> QED
    BY <1>0, <2>1, <2>2, FS_AddElement
<1>5. ASSUME NEW t \in Threads, Finish(t)
      PROVE  isWorking' = Cardinality(Busy')
  <2>1. t \in Busy /\ isWorking' = isWorking - 1
    BY <1>5 DEF Finish, Busy, Counted
  <2>2. Busy' = Busy \ {t}
    BY <1>0, <1>5, BusyMoves DEF Finish, Counted
  <2> QED
    BY <1>0, <2>1, <2>2, FS_RemoveElement
<1>6. ASSUME NEW t \in Threads, 
             RemoveBlocks(t) \/ RemoveProceeds(t) \/ AskFails(t) \/ AskAnswered(t) \/ InsertDone(t)
      PROVE  isWorking' = Cardinality(Busy')
  <2>1. t \in Busy /\ isWorking' = isWorking
    BY <1>6 DEF RemoveBlocks, RemoveProceeds, AskFails, AskAnswered, InsertDone, Busy, Counted
  <2>2. Busy' = Busy \cup {t}
    BY <1>0, <1>6, BusyMoves
       DEF RemoveBlocks, RemoveProceeds, AskFails, AskAnswered, InsertDone, Counted
  <2> QED
    BY <1>0, <2>1, <2>2, FS_AddElement
<1>7. ASSUME NEW t \in Threads, Sleep(t) \/ SpuriousWake(t) \/ LoopWorking(t) \/ LoopTerminate(t)
      PROVE  isWorking' = Cardinality(Busy')
  <2>1. t \notin Busy /\ isWorking' = isWorking
    BY <1>7 DEF Sleep, SpuriousWake, LoopWorking, LoopTerminate, Busy, Counted
  <2>2. Busy' = Busy \ {t}
    BY <1>0, <1>7, BusyMoves DEF Sleep, SpuriousWake, LoopWorking, LoopTerminate, Counted
  <2> QED
    BY <1>0, <2>1, <2>2, FS_RemoveElement
<1> QED
  BY <1>2, <1>3, <1>4, <1>5, <1>6, <1>7 DEF Next, Step, FindLocal, FindReturn, InsertNext

-----------------------------------------------------------------------------
(* Theorems *)

\* The conjunction is an invariant.
THEOREM LookupInvariant == Spec => []Inv
<1>1. Inv /\ Next => Inv'
  BY TypeStep, ControlStep, FrontStep, ResultStep, WorkStep DEF Inv
<1>2. Inv /\ UNCHANGED vars => Inv'
  BY DEF Inv, vars, kvars, caller, flags, TypeOK, KTypeOK, InBucket, WorkAccounted, Working, Found,
         Locked, Front, Closest, ResultIsTarget, Known, Phases
<1> QED
  BY <1>1, <1>2, InvInit, PTL DEF Spec

\* Every variable of the lookup keeps its type.
THEOREM LookupTypeOK == Spec => []TypeOK
<1>1. Inv => TypeOK
  BY DEF Inv
<1> QED
  BY <1>1, LookupInvariant, PTL

\* The iterator of Kademlia.cpp:170 is still the front of the map when it is
\* erased at 179.
THEOREM LookupFrontIsAsked == Spec => []FrontIsAsked
<1>1. Inv => FrontIsAsked
  BY DEF Inv, Front, FrontIsAsked
<1> QED
  BY <1>1, LookupInvariant, PTL

\* Once the search is over the caller's peer (Kademlia.cpp:175) is the target.
THEOREM LookupResultIsTarget == Spec => []ResultIsTarget
<1>1. Inv => ResultIsTarget
  BY DEF Inv
<1> QED
  BY <1>1, LookupInvariant, PTL

\* No thread takes the target out of the bucket (Kademlia.cpp:179).
THEOREM LookupTargetStays == Spec => TargetStays
<1>1. Inv /\ [Next]_vars => [0 \in InBucket => 0 \in DOMAIN bucket']_vars
  BY TargetStep DEF InBucket
<1> QED
  BY <1>1, LookupInvariant, PTL DEF Spec, TargetStays

\* A worker that starts to evaluate the loop condition (Kademlia.cpp:189) after
\* the target was found goes on: isWorking is not 0, because the thread that
\* found it is still counted.
THEOREM LookupLoopGoesOn == Spec => LoopGoesOn
<1> DEFINE A == \A t \in Threads : shouldTerminate /\ pc[t] = "loop" => pc'[t] # "loop2"
<1>1. ASSUME Inv, Next, NEW t \in Threads, shouldTerminate, pc[t] = "loop"
      PROVE  pc'[t] # "loop2"
  <2>1. PICK u \in Threads : pc[u] = "found"
    BY <1>1 DEF Inv, Known
  <2>2. u \in Busy
    BY <2>1 DEF Busy, Counted
  <2>3. isWorking # 0
    BY <1>1, <2>2, BusyIsFinite, FS_EmptySet DEF Inv, WorkAccounted
  <2> QED
    BY <1>1, <2>3
       DEF Inv, TypeOK, Next, Step, caller, kvars, Goto, At, FindLocal, FindStart, FindReturn, Sleep,
           SpuriousWake, TakeTarget, Take, RemoveBlocks, RemoveProceeds, AskFails, AskAnswered,
           InsertNext, InsertDone, Finish, LoopWorking, LoopTerminate
<1>2. Inv /\ [Next]_vars => [A]_vars
  BY <1>1
<1> QED
  BY <1>2, LookupInvariant, PTL DEF Spec, LoopGoesOn

\* find with any number of workers is one search to its caller: what Search
\* promises holds of Kademlia.cpp:193-219.
THEOREM LookupImplementsSearch == Spec => ImplementsSearch
<1>1. Init => Promise!Init
  BY DEF Init, Promise!Init
<1>2. ASSUME Inv, Next
      PROVE  Promise!Next \/ UNCHANGED Promise!vars
  <2> USE DEF caller, flags, kvars, Goto, At, Promise!vars
  <2>1. CASE FindLocal
    BY <1>2, <2>1 DEF FindLocal, Promise!Next, Promise!Local
  <2>2. CASE FindStart
    BY <1>2, <2>2 DEF FindStart, Promise!Next, Promise!Start
  <2>3. CASE FindReturn
    <3>1. shouldTerminate
      BY <1>2, <2>3, LookupAssumption DEF FindReturn, Inv, Known
    <3> QED
      BY <2>3, <3>1 DEF FindReturn, Promise!Next, Promise!Return
  <2>4. ASSUME NEW t \in Threads, TakeTarget(t)
        PROVE  Promise!Next \/ UNCHANGED Promise!vars
    <3>1. Closest = 0 /\ 0 \in InBucket /\ contact' = bucket[0]
      BY <1>2, <2>4, ClosestIsIn DEF TakeTarget, Inv, TypeOK
    <3>2. find = "join" /\ UNCHANGED <<find, result>> /\ shouldTerminate' = TRUE
      BY <1>2, <2>4 DEF TakeTarget, Inv, Phases
    <3>3. CASE shouldTerminate
      BY <1>2, <3>1, <3>2, <3>3 DEF Inv, ResultIsTarget
    <3>4. CASE ~shouldTerminate
      <4>1. contact' \in Contacts
        BY <1>2, <3>1 DEF Inv, TypeOK, KTypeOK
      <4> QED
        BY <3>2, <3>4, <4>1 DEF Promise!Next, Promise!Find
    <3> QED
      BY <3>3, <3>4
  <2>5. CASE UNCHANGED <<find, result, contact, shouldTerminate>>
    BY <2>5
  <2> QED
    BY <1>2, <2>1, <2>2, <2>3, <2>4, <2>5
       DEF Next, Step, Sleep, SpuriousWake, Take, RemoveBlocks, RemoveProceeds, AskFails,
           AskAnswered, InsertNext, InsertDone, Finish, LoopWorking, LoopTerminate
<1>3. Inv /\ [Next]_vars => [Promise!Next]_(Promise!vars)
  <2>1. UNCHANGED vars => UNCHANGED Promise!vars
    BY DEF vars, caller, flags, Promise!vars
  <2> QED
    BY <1>2, <2>1
<1> QED
  BY <1>1, <1>3, LookupInvariant, PTL DEF Spec, ImplementsSearch, Promise!Spec

=============================================================================
