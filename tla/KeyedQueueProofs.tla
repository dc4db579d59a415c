-------------------------- MODULE KeyedQueueProofs --------------------------
(***************************************************************************)
(* KeyedQueue implements FifoQueues, for any requests, pulls, keys and     *)
(* capacity.  QueueInv is the inductive invariant: the queue a call holds  *)
(* is the queue its key leads to, no two keys share a queue, and a queue   *)
(* that is not in the map yet is empty.  On it rest the refinement, the    *)
(* balance of the counters, and where each request is.                     *)
(***************************************************************************)
EXTENDS KeyedQueue, FiniteSetTheorems, SequenceTheorems, TLAPS

HasQueue(c) == pc[c] \notin {"start", "create"}

HandleCurrent ==
    \A c \in Calls :
        IF HasQueue(c) THEN queues[KeyOf(c)] # NoQueue /\ handle[c] = queues[KeyOf(c)]
                       ELSE handle[c] = NoQueue

\* A queue is in the map under the key of the call that created it.
CreatedForKey ==
    \A k \in Keys :
        \/ queues[k] = NoQueue
        \/ queues[k] = DefaultQueue /\ k = DefaultKey
        \/ queues[k] \in Calls /\ KeyOf(queues[k]) = k /\ HasQueue(queues[k])

UncreatedEmpty == \A c \in Calls : ~HasQueue(c) => ch[c] = <<>>

WithinBounds ==
    /\ \A q \in Queues : Len(ch[q]) <= MaxSize
    /\ \A p \in Pulls : Len(out[p]) <= BatchSize[p]

QueueInv == TypeOK /\ HandleCurrent /\ CreatedForKey /\ UncreatedEmpty /\ WithinBounds

-----------------------------------------------------------------------------
\* Whatever key a call names, normalizeKey makes it the name of a queue.
LEMMA KeyOfType == \A c \in Calls : KeyOf(c) \in Keys
BY QueueAssumption DEF KeyOf, normalizeKey, Calls

\* No two keys lead to one queue.
LEMMA QueuesDistinct ==
    ASSUME CreatedForKey, NEW j \in Keys, NEW k \in Keys, queues[j] = queues[k],
           queues[j] # NoQueue
    PROVE  j = k
BY QueueAssumption DEF CreatedForKey

\* The store starts with no channel and no call under way: QueueInv holds.
LEMMA QueueInvInit == Init => QueueInv
<1> SUFFICES ASSUME Init PROVE QueueInv
  OBVIOUS
<1> USE QueueAssumption DEF Init, Calls, Queues
<1>1. TypeOK
  BY DEF TypeOK
<1>2. HandleCurrent /\ CreatedForKey /\ UncreatedEmpty
  BY KeyOfType DEF HandleCurrent, CreatedForKey, UncreatedEmpty, HasQueue
<1>3. WithinBounds
  BY DEF WithinBounds
<1> QED
  BY <1>1, <1>2, <1>3 DEF QueueInv

\* The queue a call holds is a queue of the map, so it was created.
LEMMA HandleCreated ==
    ASSUME TypeOK, HandleCurrent, CreatedForKey, NEW c \in Calls, HasQueue(c)
    PROVE  /\ handle[c] \in Queues
           /\ \A d \in Calls : ~HasQueue(d) => handle[c] # d
BY QueueAssumption, KeyOfType DEF HandleCurrent, CreatedForKey, HasQueue, TypeOK, Queues

\* The steps of the calls keep QueueInv.
LEMMA QueueInvStep == QueueInv /\ [Next]_vars => QueueInv'
<1> SUFFICES ASSUME QueueInv, [Next]_vars PROVE QueueInv'
  OBVIOUS
<1> USE QueueAssumption, KeyOfType DEF QueueInv, Queues, Calls, counters, Goto, HasQueue
<1>1. ASSUME NEW c \in Calls, Lookup(c) PROVE QueueInv'
  BY <1>1 DEF Lookup, TypeOK, HandleCurrent, CreatedForKey, UncreatedEmpty, WithinBounds
<1>2. ASSUME NEW c \in Calls, Recheck(c) PROVE QueueInv'
  BY <1>2 DEF Recheck, TypeOK, HandleCurrent, CreatedForKey, UncreatedEmpty, WithinBounds
<1>3. ASSUME NEW c \in Calls, Create(c) PROVE QueueInv'
  <2>1. TypeOK'
    BY <1>3 DEF Create, TypeOK
  <2>2. HandleCurrent'
    <3>1. ASSUME NEW d \in Calls, d # c
          PROVE  IF HasQueue(d)' THEN queues'[KeyOf(d)] # NoQueue /\ handle'[d] = queues'[KeyOf(d)]
                                 ELSE handle'[d] = NoQueue
      <4>1. HasQueue(d)' <=> HasQueue(d)
        BY <1>3, <3>1 DEF Create, TypeOK
      <4>2. HasQueue(d) => queues'[KeyOf(d)] = queues[KeyOf(d)]
        BY <1>3 DEF Create, TypeOK, HandleCurrent
      <4>3. handle'[d] = handle[d]
        BY <1>3, <3>1 DEF Create, TypeOK
      <4> QED
        BY <4>1, <4>2, <4>3 DEF HandleCurrent
    <3>2. HasQueue(c)' /\ queues'[KeyOf(c)] # NoQueue /\ handle'[c] = queues'[KeyOf(c)]
      BY <1>3 DEF Create, TypeOK
    <3> QED
      BY <3>1, <3>2 DEF HandleCurrent
  <2>3. CreatedForKey'
    BY <1>3 DEF Create, TypeOK, CreatedForKey
  <2>4. UncreatedEmpty'
    BY <1>3 DEF Create, TypeOK, UncreatedEmpty
  <2>5. WithinBounds'
    BY <1>3 DEF Create, TypeOK, WithinBounds
  <2> QED
    BY <2>1, <2>2, <2>3, <2>4, <2>5
<1>4. ASSUME NEW r \in Reqs, EnqueueSend(r) PROVE QueueInv'
  <2>1. handle[r] \in Queues /\ \A d \in Calls : ~HasQueue(d) => handle[r] # d
    BY <1>4, HandleCreated DEF EnqueueSend
  <2>2. /\ Append(ch[handle[r]], r) \in Seq(Reqs)
        /\ Len(Append(ch[handle[r]], r)) = Len(ch[handle[r]]) + 1
        /\ Len(ch[handle[r]]) \in Nat
    BY <2>1 DEF TypeOK
  <2>3. TypeOK'
    BY <1>4, <2>1, <2>2 DEF EnqueueSend, TypeOK
  <2>4. HandleCurrent'
    BY <1>4 DEF EnqueueSend, TypeOK, HandleCurrent, CreatedForKey
  <2>5. CreatedForKey'
    BY <1>4 DEF EnqueueSend, TypeOK, CreatedForKey
  <2>6. UncreatedEmpty'
    BY <1>4, <2>1, <2>2 DEF EnqueueSend, TypeOK, UncreatedEmpty
  <2>7. WithinBounds'
    BY <1>4, <2>1, <2>2 DEF EnqueueSend, TypeOK, WithinBounds
  <2> QED
    BY <2>3, <2>4, <2>5, <2>6, <2>7
<1>5. ASSUME NEW r \in Reqs, EnqueueFull(r) PROVE QueueInv'
  BY <1>5 DEF EnqueueFull, TypeOK, HandleCurrent, CreatedForKey, UncreatedEmpty, WithinBounds
<1>6. ASSUME NEW r \in Reqs, CountEnqueued(r) PROVE QueueInv'
  <2>1. handle[r] \in Queues
    BY <1>6, HandleCreated DEF CountEnqueued
  <2>2. enqueued[handle[r]] + 1 \in Nat
    BY <2>1 DEF TypeOK
  <2>3. TypeOK'
    BY <1>6, <2>1, <2>2 DEF CountEnqueued, TypeOK
  <2>4. HandleCurrent'
    BY <1>6 DEF CountEnqueued, TypeOK, HandleCurrent, CreatedForKey
  <2>5. CreatedForKey'
    BY <1>6 DEF CountEnqueued, TypeOK, CreatedForKey
  <2>6. UncreatedEmpty'
    BY <1>6, <2>1, <2>2 DEF CountEnqueued, TypeOK, UncreatedEmpty
  <2>7. WithinBounds'
    BY <1>6, <2>1, <2>2 DEF CountEnqueued, TypeOK, WithinBounds
  <2> QED
    BY <2>3, <2>4, <2>5, <2>6, <2>7
<1>7. ASSUME NEW r \in Reqs, CountDropped(r) PROVE QueueInv'
  <2>1. handle[r] \in Queues
    BY <1>7, HandleCreated DEF CountDropped
  <2>2. dropped[handle[r]] + 1 \in Nat
    BY <2>1 DEF TypeOK
  <2>3. TypeOK'
    BY <1>7, <2>1, <2>2 DEF CountDropped, TypeOK
  <2>4. HandleCurrent'
    BY <1>7 DEF CountDropped, TypeOK, HandleCurrent, CreatedForKey
  <2>5. CreatedForKey'
    BY <1>7 DEF CountDropped, TypeOK, CreatedForKey
  <2>6. UncreatedEmpty'
    BY <1>7, <2>1, <2>2 DEF CountDropped, TypeOK, UncreatedEmpty
  <2>7. WithinBounds'
    BY <1>7, <2>1, <2>2 DEF CountDropped, TypeOK, WithinBounds
  <2> QED
    BY <2>3, <2>4, <2>5, <2>6, <2>7
<1>8. ASSUME NEW p \in Pulls, DequeueReceive(p) PROVE QueueInv'
  <2> DEFINE q == handle[p]
             h == Head(ch[q])
  <2>1. q \in Queues /\ \A d \in Calls : ~HasQueue(d) => q # d
    BY <1>8, HandleCreated DEF DequeueReceive
  <2>2. /\ ch[q] \in Seq(Reqs) /\ ch[q] # <<>> /\ Len(ch[q]) \in Nat
        /\ out[p] \in Seq(Reqs) /\ Len(out[p]) \in Nat
    <3>1. ch[q] \in Seq(Reqs) /\ out[p] \in Seq(Reqs)
      BY <2>1 DEF TypeOK
    <3>2. ch[q] # <<>>
      BY <1>8 DEF DequeueReceive
    <3> QED
      BY <3>1, <3>2, LenProperties
  <2>3. h \in Reqs /\ Tail(ch[q]) \in Seq(Reqs) /\ Len(Tail(ch[q])) = Len(ch[q]) - 1
    BY <2>2, HeadTailProperties, Zenon
  <2>4. Append(out[p], h) \in Seq(Reqs) /\ Len(Append(out[p], h)) = Len(out[p]) + 1
    BY <2>2, <2>3
  <2>5. PICK l \in {"countExpired", "countDequeued"} : pc' = [pc EXCEPT ![p] = l]
    BY <1>8 DEF DequeueReceive
  <2>6. PICK b \in {out[p], Append(out[p], h)} : out' = [out EXCEPT ![p] = b]
    BY <1>8 DEF DequeueReceive, TypeOK
  <2>7. lapsed' \in {lapsed, lapsed \cup {h}}
    BY <1>8 DEF DequeueReceive
  <2>8. /\ ch' = [ch EXCEPT ![q] = Tail(ch[q])]
        /\ Len(out[p]) < BatchSize[p]
        /\ UNCHANGED <<queues, counters, handle, expired>>
    BY <1>8 DEF DequeueReceive
  <2> HIDE DEF q, h
  <2>9. TypeOK'
    BY <2>1, <2>2, <2>3, <2>4, <2>5, <2>6, <2>7, <2>8 DEF TypeOK
  <2>10. HandleCurrent'
    BY <1>8, <2>5, <2>8 DEF DequeueReceive, TypeOK, HandleCurrent
  <2>11. CreatedForKey'
    BY <1>8, <2>5, <2>8 DEF DequeueReceive, TypeOK, CreatedForKey
  <2>12. UncreatedEmpty'
    BY <1>8, <2>1, <2>5, <2>8 DEF DequeueReceive, TypeOK, UncreatedEmpty
  <2>13. WithinBounds'
    <3>1. ASSUME NEW j \in Queues PROVE Len(ch'[j]) <= MaxSize
      <4>1. ch'[j] = IF j = q THEN Tail(ch[q]) ELSE ch[j]
        BY <2>8 DEF TypeOK
      <4>2. Len(ch[j]) <= MaxSize
        BY DEF WithinBounds
      <4> QED
        BY <2>2, <2>3, <4>1, <4>2
    <3>2. ASSUME NEW j \in Pulls PROVE Len(out'[j]) <= BatchSize[j]
      <4>1. CASE j = p
        <5>1. out'[p] = b
          BY <2>6 DEF TypeOK
        <5> QED
          BY <2>2, <2>4, <2>8, <4>1, <5>1
      <4>2. CASE j # p
        BY <2>6, <4>2 DEF TypeOK, WithinBounds
      <4> QED
        BY <4>1, <4>2
    <3> QED
      BY <3>1, <3>2 DEF WithinBounds
  <2> QED
    BY <2>9, <2>10, <2>11, <2>12, <2>13
<1>9. ASSUME NEW p \in Pulls, CountDequeued(p) PROVE QueueInv'
  <2>1. handle[p] \in Queues
    BY <1>9, HandleCreated DEF CountDequeued
  <2>2. dequeued[handle[p]] + 1 \in Nat
    BY <2>1 DEF TypeOK
  <2>3. TypeOK'
    BY <1>9, <2>1, <2>2 DEF CountDequeued, TypeOK
  <2>4. HandleCurrent'
    BY <1>9 DEF CountDequeued, TypeOK, HandleCurrent, CreatedForKey
  <2>5. CreatedForKey'
    BY <1>9 DEF CountDequeued, TypeOK, CreatedForKey
  <2>6. UncreatedEmpty'
    BY <1>9, <2>1, <2>2 DEF CountDequeued, TypeOK, UncreatedEmpty
  <2>7. WithinBounds'
    BY <1>9, <2>1, <2>2 DEF CountDequeued, TypeOK, WithinBounds
  <2> QED
    BY <2>3, <2>4, <2>5, <2>6, <2>7
<1>10. ASSUME NEW p \in Pulls, CountExpired(p) PROVE QueueInv'
  <2>1. handle[p] \in Queues
    BY <1>10, HandleCreated DEF CountExpired
  <2>2. expiredCount[handle[p]] + 1 \in Nat
    BY <2>1 DEF TypeOK
  <2>3. TypeOK'
    BY <1>10, <2>1, <2>2 DEF CountExpired, TypeOK
  <2>4. HandleCurrent'
    BY <1>10 DEF CountExpired, TypeOK, HandleCurrent, CreatedForKey
  <2>5. CreatedForKey'
    BY <1>10 DEF CountExpired, TypeOK, CreatedForKey
  <2>6. UncreatedEmpty'
    BY <1>10, <2>1, <2>2 DEF CountExpired, TypeOK, UncreatedEmpty
  <2>7. WithinBounds'
    BY <1>10, <2>1, <2>2 DEF CountExpired, TypeOK, WithinBounds
  <2> QED
    BY <2>3, <2>4, <2>5, <2>6, <2>7
<1>11. ASSUME NEW p \in Pulls, DequeueReturn(p) PROVE QueueInv'
  BY <1>11 DEF DequeueReturn, TypeOK, HandleCurrent, CreatedForKey, UncreatedEmpty, WithinBounds
<1>12. ASSUME NEW r \in Reqs, Expire(r) PROVE QueueInv'
  <2>1. TypeOK'
    BY <1>12 DEF Expire, TypeOK
  <2>2. HandleCurrent' /\ CreatedForKey' /\ UncreatedEmpty' /\ WithinBounds'
    BY <1>12 DEF Expire, HandleCurrent, CreatedForKey, UncreatedEmpty, WithinBounds
  <2> QED
    BY <2>1, <2>2
<1>13. CASE UNCHANGED vars
  BY <1>13 DEF vars, TypeOK, HandleCurrent, CreatedForKey, UncreatedEmpty, WithinBounds
<1> QED
  BY <1>1, <1>2, <1>3, <1>4, <1>5, <1>6, <1>7, <1>8, <1>9, <1>10, <1>11, <1>12, <1>13
     DEF Next, GetOrCreate, Enqueue, Dequeue

\* QueueInv holds in every reachable state; it contains the type invariant.
THEOREM QueueInvariant == Spec => []QueueInv
BY QueueInvInit, QueueInvStep, PTL DEF Spec

\* Type correctness of the queues.
THEOREM QueueTypeCorrect == Spec => []TypeOK
<1>1. QueueInv => TypeOK
  BY DEF QueueInv
<1> QED
  BY <1>1, QueueInvariant, PTL

-----------------------------------------------------------------------------
(* The counters, and the calls between a channel operation and its counter. *)

Between(q, labels) == {c \in Calls : handle[c] = q /\ pc[c] \in labels}
At(q, labels) == Cardinality(Between(q, labels))
Counting == {"countEnqueued"}
Received == {"countDequeued", "countExpired"}

Sending(q) == At(q, Counting)
Receiving(q) == At(q, Received)

Balance(q) ==
    enqueued[q] + Sending(q) = dequeued[q] + expiredCount[q] + Receiving(q) + Len(ch[q])

\* The counters add up when each queue balances.
LEMMA CountersBalance == CountersAddUp <=> \A q \in Queues : Balance(q)
BY DEF CountersAddUp, Balance, Sending, Receiving, At, Between, Counting, Received

\* Sets of calls are finite.
LEMMA CallSets == \A S \in SUBSET Calls : IsFiniteSet(S) /\ Cardinality(S) \in Nat
<1>1. IsFiniteSet(Calls)
  BY FS_Union, QueueAssumption DEF Calls
<1> QED
  BY <1>1, FS_Subset, FS_CardinalityType

\* The calls between a channel operation and its counter can be counted.
LEMMA BetweenFinite ==
    \A q, labels : /\ IsFiniteSet(Between(q, labels)) /\ At(q, labels) \in Nat
                   /\ At(q, labels)' \in Nat
<1>1. \A q, labels : Between(q, labels) \in SUBSET Calls /\ Between(q, labels)' \in SUBSET Calls
  BY DEF Between
<1> QED
  BY <1>1, CallSets DEF At

\* A call that goes from a label outside to one inside the labels is one more.
LEMMA Enters ==
    ASSUME TypeOK, NEW c \in Calls, NEW labels, NEW l \in labels, NEW q,
           pc[c] \notin labels, pc' = [pc EXCEPT ![c] = l], UNCHANGED handle
    PROVE  At(q, labels)' = At(q, labels) + (IF handle[c] = q THEN 1 ELSE 0)
<1>1. c \notin Between(q, labels)
  BY DEF Between
<1>2. Between(q, labels)' = IF handle[c] = q THEN Between(q, labels) \cup {c}
                                              ELSE Between(q, labels)
  BY DEF Between, TypeOK
<1>3. Cardinality(Between(q, labels) \cup {c}) = At(q, labels) + 1
  BY <1>1, BetweenFinite, FS_AddElement DEF At
<1> QED
  BY <1>2, <1>3, BetweenFinite DEF At

\* A call that goes the other way is one less.
LEMMA Leaves ==
    ASSUME TypeOK, NEW c \in Calls, NEW labels, NEW l, l \notin labels, NEW q,
           pc[c] \in labels, pc' = [pc EXCEPT ![c] = l], UNCHANGED handle
    PROVE  At(q, labels) = At(q, labels)' + (IF handle[c] = q THEN 1 ELSE 0)
<1>1. handle[c] = q => c \in Between(q, labels)
  BY DEF Between
<1>2. Between(q, labels)' = IF handle[c] = q THEN Between(q, labels) \ {c}
                                              ELSE Between(q, labels)
  BY DEF Between, TypeOK
<1>3. handle[c] = q => Cardinality(Between(q, labels) \ {c}) = At(q, labels) - 1
  BY <1>1, BetweenFinite, FS_RemoveElement DEF At
<1> QED
  BY <1>2, <1>3, BetweenFinite DEF At

\* A call that stays outside leaves the number as it is.
LEMMA Passes ==
    ASSUME TypeOK, NEW c \in Calls, NEW labels, NEW l, l \notin labels, NEW q,
           pc[c] \notin labels, pc' = [pc EXCEPT ![c] = l],
           \A d \in Calls \ {c} : handle'[d] = handle[d]
    PROVE  At(q, labels)' = At(q, labels)
<1>1. Between(q, labels)' = Between(q, labels)
  BY DEF Between, TypeOK
<1> QED
  BY <1>1 DEF At

\* Every step keeps the balance of every queue.
LEMMA BalanceStep ==
    ASSUME QueueInv, [Next]_vars, NEW q \in Queues, Balance(q)
    PROVE  Balance(q)'
<1>1. /\ Sending(q) \in Nat /\ Receiving(q) \in Nat /\ Sending(q)' \in Nat /\ Receiving(q)' \in Nat
      /\ enqueued[q] \in Nat /\ dequeued[q] \in Nat /\ expiredCount[q] \in Nat
      /\ ch[q] \in Seq(Reqs) /\ Len(ch[q]) \in Nat
  <2>1. ch[q] \in Seq(Reqs)
    BY DEF QueueInv, TypeOK
  <2> QED
    BY <2>1, BetweenFinite, LenProperties DEF QueueInv, TypeOK, Sending, Receiving
<1>2. enqueued[q] + Sending(q) = dequeued[q] + expiredCount[q] + Receiving(q) + Len(ch[q])
  BY DEF Balance
<1>3. /\ Sending(q) \in Nat /\ Receiving(q) \in Nat /\ Len(ch[q]) \in Nat
      /\ enqueued[q] \in Nat /\ dequeued[q] \in Nat /\ expiredCount[q] \in Nat
  BY <1>1
<1> USE DEF QueueInv, Goto, counters
<1>4. ASSUME NEW c \in Calls,
             \/ GetOrCreate(c)
             \/ c \in Reqs /\ (EnqueueFull(c) \/ CountDropped(c))
             \/ c \in Pulls /\ DequeueReturn(c)
      PROVE  Balance(q)'
  <2>1. PICK l \in {"create", "use", "countDropped", "full", "done"} :
            pc' = [pc EXCEPT ![c] = l]
    BY <1>4 DEF GetOrCreate, Lookup, Recheck, Create, EnqueueFull, CountDropped, DequeueReturn
  <2>2. /\ pc[c] \notin Counting /\ pc[c] \notin Received
        /\ \A d \in Calls \ {c} : handle'[d] = handle[d]
        /\ UNCHANGED <<ch, enqueued, dequeued, expiredCount>>
    BY <1>4 DEF GetOrCreate, Lookup, Recheck, Create, EnqueueFull, CountDropped,
                DequeueReturn, Counting, Received, TypeOK
  <2>3. l \notin Counting /\ l \notin Received
    BY DEF Counting, Received
  <2>4. Sending(q)' = Sending(q) /\ Receiving(q)' = Receiving(q)
    BY <2>1, <2>2, <2>3, Passes DEF Sending, Receiving
  <2> QED
    BY <1>2, <2>2, <2>4 DEF Balance
<1>5. ASSUME NEW r \in Reqs, EnqueueSend(r) PROVE Balance(q)'
  <2>1. /\ pc' = [pc EXCEPT ![r] = "countEnqueued"] /\ pc[r] = "use" /\ r \in Calls
        /\ UNCHANGED <<handle, enqueued, dequeued, expiredCount>>
        /\ ch' = [ch EXCEPT ![handle[r]] = Append(@, r)]
    BY <1>5 DEF EnqueueSend, Calls
  <2>2. Sending(q)' = Sending(q) + (IF handle[r] = q THEN 1 ELSE 0)
    <3>1. pc[r] \notin Counting /\ "countEnqueued" \in Counting
      BY <2>1 DEF Counting
    <3> QED
      BY <2>1, <3>1, Enters DEF Sending
  <2>3. Receiving(q)' = Receiving(q)
    BY <2>1, Passes DEF Receiving, Received
  <2>4. Len(ch'[q]) = Len(ch[q]) + (IF handle[r] = q THEN 1 ELSE 0)
    BY <1>1, <2>1 DEF TypeOK
  <2>5. /\ enqueued'[q] = enqueued[q] /\ dequeued'[q] = dequeued[q] /\ expiredCount'[q] = expiredCount[q]
        /\ Len(ch'[q]) \in Int
    BY <1>1, <2>1, <2>4
  <2>6. CASE handle[r] = q
    <3>1. Sending(q)' - 1 = Sending(q) /\ Len(ch'[q]) - 1 = Len(ch[q])
      BY <1>3, <2>2, <2>4, <2>6
    <3>2. enqueued[q] + Sending(q)' = (enqueued[q] + Sending(q)) + 1
      BY <1>1, <3>1
    <3>3. dequeued[q] + expiredCount[q] + Receiving(q) + Len(ch'[q])
            = (dequeued[q] + expiredCount[q] + Receiving(q) + Len(ch[q])) + 1
      <4>1. dequeued[q] + expiredCount[q] + Receiving(q) \in Int
        BY <1>3
      <4>2. Len(ch[q]) \in Int /\ Len(ch'[q]) \in Int /\ Len(ch'[q]) - 1 = Len(ch[q])
        BY <1>3, <2>5, <3>1
      <4>3. \A x, a, b \in Int : a - 1 = b => x + a = (x + b) + 1
        OBVIOUS
      <4> QED
        BY <4>1, <4>2, <4>3, Zenon
    <3>4. enqueued[q] + Sending(q)'
            = dequeued[q] + expiredCount[q] + Receiving(q) + Len(ch'[q])
      BY <1>2, <3>2, <3>3
    <3> QED
      BY <2>3, <2>5, <3>4 DEF Balance
  <2>7. CASE handle[r] # q
    <3>1. Sending(q)' = Sending(q) /\ Len(ch'[q]) = Len(ch[q])
      BY <1>3, <2>2, <2>4, <2>7
    <3> QED
      BY <1>2, <2>3, <2>5, <3>1 DEF Balance
  <2> QED
    BY <2>6, <2>7
<1>6. ASSUME NEW r \in Reqs, CountEnqueued(r) PROVE Balance(q)'
  <2>1. /\ pc' = [pc EXCEPT ![r] = "accepted"] /\ pc[r] = "countEnqueued" /\ r \in Calls
        /\ UNCHANGED <<handle, dequeued, expiredCount, ch>>
        /\ enqueued' = [enqueued EXCEPT ![handle[r]] = @ + 1]
    BY <1>6 DEF CountEnqueued, Calls
  <2>2. Sending(q) = Sending(q)' + (IF handle[r] = q THEN 1 ELSE 0)
    <3>1. pc[r] \in Counting /\ "accepted" \notin Counting
      BY <2>1 DEF Counting
    <3> QED
      BY <2>1, <3>1, Leaves DEF Sending, Receiving
  <2>3. Receiving(q)' = Receiving(q)
    BY <2>1, Passes DEF Receiving, Received
  <2>4. enqueued'[q] = enqueued[q] + (IF handle[r] = q THEN 1 ELSE 0)
    BY <1>1, <2>1 DEF TypeOK
  <2>5. /\ dequeued'[q] = dequeued[q] /\ expiredCount'[q] = expiredCount[q] /\ ch'[q] = ch[q]
        /\ enqueued'[q] \in Int
    BY <1>1, <2>1, <2>4
  <2>6. PICK n \in {0, 1} : Sending(q) = Sending(q)' + n /\ enqueued'[q] = enqueued[q] + n
    BY <2>2, <2>4
  <2> QED
    BY <1>1, <1>2, <2>3, <2>5, <2>6 DEF Balance
<1>7. ASSUME NEW p \in Pulls, DequeueReceive(p) PROVE Balance(q)'
  <2>1. PICK l \in Received : pc' = [pc EXCEPT ![p] = l]
    BY <1>7 DEF DequeueReceive, Received
  <2>2. /\ pc[p] = "use" /\ p \in Calls
        /\ UNCHANGED <<handle, enqueued, dequeued, expiredCount>>
        /\ ch' = [ch EXCEPT ![handle[p]] = Tail(@)] /\ ch[handle[p]] # <<>>
    BY <1>7 DEF DequeueReceive, Calls
  <2>3. Sending(q)' = Sending(q)
    BY <2>1, <2>2, Passes DEF Sending, Counting, Received
  <2>4. Receiving(q)' = Receiving(q) + (IF handle[p] = q THEN 1 ELSE 0)
    BY <2>1, <2>2, Enters DEF Receiving, Received
  <2>5. Len(ch'[q]) + (IF handle[p] = q THEN 1 ELSE 0) = Len(ch[q])
    <3>1. CASE handle[p] = q
      <4>1. ch'[q] = Tail(ch[q]) /\ ch[q] # <<>>
        BY <2>2, <3>1 DEF TypeOK
      <4>2. Len(Tail(ch[q])) = Len(ch[q]) - 1
        BY <1>1, <4>1, HeadTailProperties, Zenon
      <4> QED
        BY <1>1, <3>1, <4>1, <4>2
    <3>2. CASE handle[p] # q
      BY <1>1, <2>2, <3>2 DEF TypeOK
    <3> QED
      BY <3>1, <3>2
  <2>6. PICK n \in {0, 1} : Receiving(q)' = Receiving(q) + n /\ Len(ch'[q]) + n = Len(ch[q])
    BY <2>4, <2>5
  <2>7. enqueued'[q] = enqueued[q] /\ dequeued'[q] = dequeued[q] /\ expiredCount'[q] = expiredCount[q]
        /\ Len(ch'[q]) \in Int
    BY <1>1, <2>2, <2>5
  <2> QED
    BY <1>1, <1>2, <2>3, <2>6, <2>7 DEF Balance
<1>8. ASSUME NEW p \in Pulls, CountDequeued(p) PROVE Balance(q)'
  <2>1. /\ pc' = [pc EXCEPT ![p] = "use"] /\ pc[p] = "countDequeued" /\ p \in Calls
        /\ UNCHANGED <<handle, enqueued, expiredCount, ch>>
        /\ dequeued' = [dequeued EXCEPT ![handle[p]] = @ + 1]
    BY <1>8 DEF CountDequeued, Calls
  <2>2. Sending(q)' = Sending(q)
    BY <2>1, Passes DEF Sending, Counting
  <2>3. Receiving(q) = Receiving(q)' + (IF handle[p] = q THEN 1 ELSE 0)
    <3>1. pc[p] \in Received /\ "use" \notin Received
      BY <2>1 DEF Received
    <3> QED
      BY <2>1, <3>1, Leaves DEF Sending, Receiving
  <2>4. dequeued'[q] = dequeued[q] + (IF handle[p] = q THEN 1 ELSE 0)
    BY <1>1, <2>1 DEF TypeOK
  <2>5. /\ enqueued'[q] = enqueued[q] /\ expiredCount'[q] = expiredCount[q] /\ ch'[q] = ch[q]
        /\ dequeued'[q] \in Int
    BY <1>1, <2>1, <2>4
  <2>6. PICK n \in {0, 1} : Receiving(q) = Receiving(q)' + n /\ dequeued'[q] = dequeued[q] + n
    BY <2>3, <2>4
  <2> QED
    BY <1>1, <1>2, <2>2, <2>5, <2>6 DEF Balance
<1>9. ASSUME NEW p \in Pulls, CountExpired(p) PROVE Balance(q)'
  <2>1. /\ pc' = [pc EXCEPT ![p] = "use"] /\ pc[p] = "countExpired" /\ p \in Calls
        /\ UNCHANGED <<handle, enqueued, dequeued, ch>>
        /\ expiredCount' = [expiredCount EXCEPT ![handle[p]] = @ + 1]
    BY <1>9 DEF CountExpired, Calls
  <2>2. Sending(q)' = Sending(q)
    BY <2>1, Passes DEF Sending, Counting
  <2>3. Receiving(q) = Receiving(q)' + (IF handle[p] = q THEN 1 ELSE 0)
    <3>1. pc[p] \in Received /\ "use" \notin Received
      BY <2>1 DEF Received
    <3> QED
      BY <2>1, <3>1, Leaves DEF Sending, Receiving
  <2>4. expiredCount'[q] = expiredCount[q] + (IF handle[p] = q THEN 1 ELSE 0)
    BY <1>1, <2>1 DEF TypeOK
  <2>5. /\ enqueued'[q] = enqueued[q] /\ dequeued'[q] = dequeued[q] /\ ch'[q] = ch[q]
        /\ expiredCount'[q] \in Int
    BY <1>1, <2>1, <2>4
  <2>6. PICK n \in {0, 1} : Receiving(q) = Receiving(q)' + n /\ expiredCount'[q] = expiredCount[q] + n
    BY <2>3, <2>4
  <2> QED
    BY <1>1, <1>2, <2>2, <2>5, <2>6 DEF Balance
<1>10. CASE UNCHANGED <<pc, handle, enqueued, dequeued, expiredCount, ch>>
  <2>1. Sending(q)' = Sending(q) /\ Receiving(q)' = Receiving(q)
    BY <1>10 DEF Sending, Receiving, At, Between
  <2> QED
    BY <1>2, <1>10, <2>1 DEF Balance
<1> QED
  BY <1>4, <1>5, <1>6, <1>7, <1>8, <1>9, <1>10
     DEF Next, Enqueue, Dequeue, Expire, vars, Calls

\* The statistics of a queue differ from its content only by the calls that are
\* between a channel operation and its counter (memory.go:32-64).
THEOREM CountersConsistent == Spec => []CountersAddUp
<1>1. Init => \A q \in Queues : Balance(q)
  <2> SUFFICES ASSUME Init, NEW q \in Queues PROVE Balance(q)
    OBVIOUS
  <2>1. Between(q, Counting) = {} /\ Between(q, Received) = {}
    BY DEF Init, Between, Counting, Received
  <2>2. /\ enqueued[q] = 0 /\ dequeued[q] = 0 /\ expiredCount[q] = 0
        /\ ch[q] = <<>>
    BY DEF Init
  <2>3. Sending(q) = 0 /\ Receiving(q) = 0
    BY <2>1, FS_EmptySet DEF Sending, Receiving, At
  <2> QED
    BY <2>2, <2>3 DEF Balance
<1>2. QueueInv /\ (\A q \in Queues : Balance(q)) /\ [Next]_vars => (\A q \in Queues : Balance(q))'
  BY BalanceStep DEF Queues
<1>3. (\A q \in Queues : Balance(q)) => CountersAddUp
  BY CountersBalance
<1> QED
  BY <1>1, <1>2, <1>3, QueueInvariant, PTL DEF Spec

-----------------------------------------------------------------------------
\* What a change of one channel is to the buffers: a change of the one buffer
\* whose key leads to it.
LEMMA BufferChange ==
    ASSUME QueueInv, NEW c \in Calls, HasQueue(c), NEW s,
           UNCHANGED queues, ch' = [ch EXCEPT ![handle[c]] = s]
    PROVE  /\ Buffer[KeyOf(c)] = ch[handle[c]]
           /\ Buffer' = [Buffer EXCEPT ![KeyOf(c)] = s]
<1> USE QueueAssumption, KeyOfType DEF QueueInv
<1>1. handle[c] \in Queues /\ handle[c] = queues[KeyOf(c)] /\ queues[KeyOf(c)] # NoQueue
  BY HandleCreated DEF HandleCurrent
<1>2. Buffer[KeyOf(c)] = ch[handle[c]]
  BY <1>1 DEF Buffer, QueueOf
<1>3. ASSUME NEW k \in Keys
      PROVE  Buffer'[k] = IF k = KeyOf(c) THEN s ELSE Buffer[k]
  <2>1. CASE k = KeyOf(c)
    BY <1>1, <2>1 DEF Buffer, QueueOf, TypeOK
  <2>2. CASE k # KeyOf(c)
    <3>1. queues[k] = NoQueue \/ queues[k] # handle[c]
      BY <1>1, <2>2, QueuesDistinct
    <3> QED
      BY <1>1, <2>2, <3>1 DEF Buffer, QueueOf, TypeOK
  <2> QED
    BY <2>1, <2>2
<1> QED
  BY <1>2, <1>3 DEF Buffer

\* When neither the map nor a channel changes, no buffer does.
LEMMA BufferSame == UNCHANGED <<queues, ch>> => UNCHANGED Buffer
BY DEF Buffer, QueueOf

\* Each step of KeyedQueue is a step of FifoQueues or leaves its state alone.
LEMMA RefinementStep == QueueInv /\ [Next]_vars => [Fifo!Next]_(Fifo!vars)
<1> SUFFICES ASSUME QueueInv, [Next]_vars
             PROVE  Fifo!Next \/ UNCHANGED <<Buffer, Answer, out, Ended, expired, lapsed>>
  BY DEF Fifo!vars
<1> USE QueueAssumption, KeyOfType DEF QueueInv, Calls
<1>1. ASSUME NEW c \in Calls, GetOrCreate(c)
      PROVE  UNCHANGED <<Buffer, Answer, out, Ended, expired, lapsed>>
  <2>1. UNCHANGED <<out, expired, lapsed, ch>>
    BY <1>1 DEF GetOrCreate, Lookup, Recheck, Create
  <2>2. UNCHANGED Answer
    BY <1>1 DEF GetOrCreate, Lookup, Recheck, Create, Goto, Answer, Sent, TypeOK
  <2>3. UNCHANGED Ended
    BY <1>1 DEF GetOrCreate, Lookup, Recheck, Create, Goto, Ended, TypeOK
  <2>4. UNCHANGED Buffer
    <3>1. CASE Create(c)
      BY <3>1 DEF Create, Buffer, QueueOf, TypeOK, UncreatedEmpty, HasQueue, Queues
    <3>2. CASE Lookup(c) \/ Recheck(c)
      BY <3>2, BufferSame DEF Lookup, Recheck
    <3> QED
      BY <1>1, <3>1, <3>2 DEF GetOrCreate
  <2> QED
    BY <2>1, <2>2, <2>3, <2>4
<1>2. ASSUME NEW r \in Reqs, EnqueueSend(r) PROVE Fifo!Accept(r)
  <2>1. /\ Buffer[KeyOf(r)] = ch[handle[r]]
        /\ Buffer' = [Buffer EXCEPT ![KeyOf(r)] = Append(ch[handle[r]], r)]
    BY <1>2, BufferChange DEF EnqueueSend, HasQueue
  <2>2. Answer[r] = "none" /\ Answer' = [Answer EXCEPT ![r] = "accepted"]
    BY <1>2 DEF EnqueueSend, Goto, Answer, Sent, TypeOK
  <2>3. UNCHANGED Ended
    BY <1>2 DEF EnqueueSend, Goto, Ended, TypeOK
  <2> QED
    BY <1>2, <2>1, <2>2, <2>3 DEF EnqueueSend, Fifo!Accept, QueueKey
<1>3. ASSUME NEW r \in Reqs, EnqueueFull(r) PROVE Fifo!Refuse(r)
  <2>1. UNCHANGED Buffer
    BY <1>3, BufferSame DEF EnqueueFull
  <2>2. Len(Buffer[KeyOf(r)]) = MaxSize
    <3>1. handle[r] \in Queues /\ handle[r] = queues[KeyOf(r)] /\ queues[KeyOf(r)] # NoQueue
      BY <1>3, HandleCreated DEF EnqueueFull, HandleCurrent, HasQueue
    <3>2. Len(ch[handle[r]]) \in Nat /\ Len(ch[handle[r]]) <= MaxSize
      BY <3>1, LenProperties DEF TypeOK, WithinBounds
    <3> QED
      BY <1>3, <3>1, <3>2 DEF EnqueueFull, Buffer, QueueOf
  <2>3. Answer[r] = "none" /\ Answer' = [Answer EXCEPT ![r] = "full"]
    BY <1>3 DEF EnqueueFull, Goto, Answer, Sent, TypeOK
  <2>4. UNCHANGED Ended
    BY <1>3 DEF EnqueueFull, Goto, Ended, TypeOK
  <2> QED
    BY <1>3, <2>1, <2>2, <2>3, <2>4 DEF EnqueueFull, Fifo!Refuse, QueueKey
<1>4. ASSUME NEW r \in Reqs, CountEnqueued(r) \/ CountDropped(r)
      PROVE  UNCHANGED <<Buffer, Answer, out, Ended, expired, lapsed>>
  <2>1. UNCHANGED <<Buffer, out, expired, lapsed>>
    BY <1>4, BufferSame DEF CountEnqueued, CountDropped
  <2>2. UNCHANGED <<Answer, Ended>>
    BY <1>4 DEF CountEnqueued, CountDropped, Goto, Answer, Sent, Ended, TypeOK
  <2> QED
    BY <2>1, <2>2
<1>5. ASSUME NEW p \in Pulls, DequeueReceive(p) PROVE Fifo!Take(p)
  <2>1. /\ Buffer[KeyOf(p)] = ch[handle[p]]
        /\ Buffer' = [Buffer EXCEPT ![KeyOf(p)] = Tail(ch[handle[p]])]
    BY <1>5, BufferChange DEF DequeueReceive, HasQueue
  <2>2. UNCHANGED Answer
    BY <1>5 DEF DequeueReceive, Goto, Answer, Sent, TypeOK
  <2>3. p \notin Ended /\ UNCHANGED Ended
    BY <1>5 DEF DequeueReceive, Goto, Ended, TypeOK
  <2> QED
    BY <1>5, <2>1, <2>2, <2>3 DEF DequeueReceive, Fifo!Take, DequeueKey
<1>6. ASSUME NEW p \in Pulls, CountDequeued(p) \/ CountExpired(p)
      PROVE  UNCHANGED <<Buffer, Answer, out, Ended, expired, lapsed>>
  <2>1. UNCHANGED <<Buffer, out, expired, lapsed>>
    BY <1>6, BufferSame DEF CountDequeued, CountExpired
  <2>2. UNCHANGED <<Answer, Ended>>
    BY <1>6 DEF CountDequeued, CountExpired, Goto, Answer, Sent, Ended, TypeOK
  <2> QED
    BY <2>1, <2>2
<1>7. ASSUME NEW p \in Pulls, DequeueReturn(p) PROVE Fifo!End(p)
  <2>1. UNCHANGED Buffer /\ UNCHANGED Answer
    BY <1>7, BufferSame DEF DequeueReturn, Goto, Answer, Sent, TypeOK
  <2>2. p \notin Ended /\ Ended' = Ended \cup {p}
    BY <1>7 DEF DequeueReturn, Goto, Ended, TypeOK
  <2>3. Len(out[p]) = BatchSize[p] \/ Buffer[KeyOf(p)] = <<>>
    <3>1. handle[p] = queues[KeyOf(p)] /\ queues[KeyOf(p)] # NoQueue
      BY <1>7 DEF DequeueReturn, HandleCurrent, HasQueue
    <3>2. Len(out[p]) \in Nat /\ Len(out[p]) <= BatchSize[p]
      BY LenProperties DEF TypeOK, WithinBounds
    <3> QED
      BY <1>7, <3>1, <3>2 DEF DequeueReturn, Buffer, QueueOf
  <2> QED
    BY <1>7, <2>1, <2>2, <2>3 DEF DequeueReturn, Fifo!End, DequeueKey
<1>8. ASSUME NEW r \in Reqs, Expire(r) PROVE Fifo!Expire(r)
  <2>1. UNCHANGED <<Buffer, Answer, Ended>>
    BY <1>8, BufferSame DEF Expire, Answer, Sent, Ended
  <2> QED
    BY <1>8, <2>1 DEF Expire, Fifo!Expire
<1>9. CASE UNCHANGED vars
  BY <1>9, BufferSame DEF vars, Answer, Sent, Ended
<1> QED
  BY <1>1, <1>2, <1>3, <1>4, <1>5, <1>6, <1>7, <1>8, <1>9
     DEF Next, Enqueue, Dequeue, Fifo!Next

\* The per-key queues of the code, with their racy creation and their split
\* counters, are bounded FIFOs.
THEOREM ImplementsFifo == Spec => ImplementsFifoQueues
<1>1. Init => Fifo!Init
  BY QueueAssumption DEF Init, Fifo!Init, Buffer, QueueOf, Answer, Sent, Ended, Calls, Queues
<1> QED
  BY <1>1, QueueInvariant, RefinementStep, PTL DEF Spec, Fifo!Spec, ImplementsFifoQueues

-----------------------------------------------------------------------------
(* Where a request is.  PlaceInv says it with no counting: the steps of      *)
(* FifoQueues, which the steps of KeyedQueue are, keep it.                   *)

Holds(s, r) == \E i \in DOMAIN s : s[i] = r
NoDuplicates(s) == \A i, j \in DOMAIN s : s[i] = s[j] => i = j

Filed(k) == NoDuplicates(Buffer[k]) /\ \A r \in Reqs : Holds(Buffer[k], r) => KeyOf(r) = k

Waits(r) == Holds(Buffer[KeyOf(r)], r)
Batches(r) == {p \in Pulls : Holds(out[p], r)}

Placed(r) ==
    /\ Waits(r) => r \notin lapsed /\ Batches(r) = {}
    /\ r \in lapsed => Batches(r) = {}
    /\ \A p, q \in Batches(r) : p = q
    /\ Answer[r] = "accepted" <=> Waits(r) \/ r \in lapsed \/ Batches(r) # {}

PlaceInv == (\A k \in Keys : Filed(k)) /\ (\A r \in Reqs : Placed(r))

\* A queue with a request at its end holds it too.
LEMMA AppendHolds ==
    ASSUME NEW s \in Seq(Reqs), NEW x \in Reqs
    PROVE  /\ \A r \in Reqs : Holds(Append(s, x), r) <=> Holds(s, r) \/ r = x
           /\ NoDuplicates(s) /\ ~Holds(s, x) => NoDuplicates(Append(s, x))
<1>1. /\ DOMAIN Append(s, x) = 1 .. Len(s) + 1 /\ DOMAIN s = 1 .. Len(s) /\ Len(s) \in Nat
      /\ \A i \in 1 .. Len(s) : Append(s, x)[i] = s[i]
      /\ Append(s, x)[Len(s) + 1] = x
  BY AppendProperties, LenProperties
<1>2. \A r \in Reqs : Holds(Append(s, x), r) <=> Holds(s, r) \/ r = x
  BY <1>1 DEF Holds
<1>3. ASSUME NoDuplicates(s), ~Holds(s, x) PROVE NoDuplicates(Append(s, x))
  BY <1>1, <1>3 DEF Holds, NoDuplicates
<1> QED
  BY <1>2, <1>3

\* A queue without its head holds the rest.
LEMMA TailHolds ==
    ASSUME NEW s \in Seq(Reqs), s # <<>>, NoDuplicates(s)
    PROVE  /\ \A r \in Reqs : Holds(Tail(s), r) <=> Holds(s, r) /\ r # Head(s)
           /\ NoDuplicates(Tail(s)) /\ Holds(s, Head(s)) /\ Head(s) \in Reqs
<1>1. /\ DOMAIN s = 1 .. Len(s) /\ Len(s) \in Nat \ {0}
      /\ DOMAIN Tail(s) = 1 .. Len(s) - 1
      /\ \A i \in 1 .. Len(s) - 1 : Tail(s)[i] = s[i + 1]
      /\ Head(s) = s[1] /\ Head(s) \in Reqs
  BY HeadTailProperties, LenProperties, EmptySeq
<1>2. NoDuplicates(Tail(s)) /\ Holds(s, Head(s))
  BY <1>1 DEF Holds, NoDuplicates
<1>3. ASSUME NEW r \in Reqs, Holds(Tail(s), r) PROVE Holds(s, r) /\ r # Head(s)
  BY <1>1, <1>3 DEF Holds, NoDuplicates
<1>4. ASSUME NEW r \in Reqs, Holds(s, r), r # Head(s) PROVE Holds(Tail(s), r)
  <2>1. PICK i \in 1 .. Len(s) : s[i] = r /\ i # 1
    BY <1>1, <1>4 DEF Holds
  <2>2. i - 1 \in 1 .. Len(s) - 1 /\ Tail(s)[i - 1] = r
    BY <1>1, <2>1
  <2> QED
    BY <1>1, <2>2 DEF Holds
<1> QED
  BY <1>1, <1>2, <1>3, <1>4

\* A buffer is a sequence of requests.
LEMMA BufferType == TypeOK => Buffer \in [Keys -> Seq(Reqs)]
BY QueueAssumption DEF TypeOK, Buffer, QueueOf

\* A request that is accepted waits at the tail of the queue of its key.
LEMMA AcceptPlaces ==
    ASSUME QueueInv, PlaceInv, NEW r \in Reqs, Fifo!Accept(r)
    PROVE  PlaceInv'
<1>1. /\ KeyOf(r) \in Keys /\ Answer[r] = "none" /\ UNCHANGED <<out, lapsed>>
      /\ Buffer' = [Buffer EXCEPT ![KeyOf(r)] = Append(Buffer[KeyOf(r)], r)]
      /\ Answer' = [Answer EXCEPT ![r] = "accepted"]
  BY QueueAssumption, KeyOfType DEF Fifo!Accept, QueueKey, Calls
<1>2. Buffer \in [Keys -> Seq(Reqs)] /\ DOMAIN Answer = Reqs
  BY BufferType DEF QueueInv, Answer
<1>3. ~Waits(r) /\ r \notin lapsed /\ Batches(r) = {}
  BY <1>1 DEF PlaceInv, Placed
<1>4. /\ \A x \in Reqs : Holds(Buffer'[KeyOf(r)], x) <=> Holds(Buffer[KeyOf(r)], x) \/ x = r
      /\ NoDuplicates(Buffer'[KeyOf(r)])
  BY <1>1, <1>2, <1>3, AppendHolds DEF PlaceInv, Filed, Waits
<1>5. ASSUME NEW k \in Keys PROVE Filed(k)'
  BY <1>1, <1>2, <1>4 DEF PlaceInv, Filed, KeyOf
<1>6. ASSUME NEW x \in Reqs PROVE Placed(x)'
  <2>1. KeyOf(x) \in Keys
    BY KeyOfType DEF Calls
  <2>2. Batches(x)' = Batches(x)
    BY <1>1 DEF Batches
  <2>3. Waits(x)' <=> Waits(x) \/ x = r
    <3>1. Waits(x)' <=> Holds(Buffer'[KeyOf(x)], x)
      BY DEF Waits, KeyOf
    <3> QED
      BY <1>1, <1>2, <1>4, <2>1, <3>1 DEF Waits
  <2>4. Answer'[x] = "accepted" <=> Answer[x] = "accepted" \/ x = r
    BY <1>1, <1>2
  <2>5. (x \in lapsed)' <=> x \in lapsed
    BY <1>1
  <2> QED
    BY <1>3, <2>2, <2>3, <2>4, <2>5 DEF PlaceInv, Placed
<1> QED
  BY <1>5, <1>6 DEF PlaceInv

\* The head of a queue that a pull takes is in one batch, or lapsed.
LEMMA TakePlaces ==
    ASSUME QueueInv, PlaceInv, NEW p \in Pulls, Fifo!Take(p)
    PROVE  PlaceInv'
<1> DEFINE s == Buffer[KeyOf(p)]
           h == Head(s)
<1>1. /\ KeyOf(p) \in Keys /\ s # <<>> /\ UNCHANGED Answer
      /\ Buffer' = [Buffer EXCEPT ![KeyOf(p)] = Tail(s)]
      /\ \/ lapsed' = lapsed \cup {h} /\ UNCHANGED out
         \/ out' = [out EXCEPT ![p] = Append(out[p], h)] /\ UNCHANGED lapsed
  BY QueueAssumption, KeyOfType DEF Fifo!Take, DequeueKey, Calls
<1>2. Buffer \in [Keys -> Seq(Reqs)] /\ s \in Seq(Reqs) /\ out \in [Pulls -> Seq(Reqs)]
  BY <1>1, BufferType DEF QueueInv, TypeOK
<1>3. NoDuplicates(s)
  BY <1>1 DEF PlaceInv, Filed
<1>4. /\ \A x \in Reqs : Holds(Tail(s), x) <=> Holds(s, x) /\ x # h
      /\ NoDuplicates(Tail(s)) /\ Holds(s, h) /\ h \in Reqs
  BY <1>1, <1>2, <1>3, TailHolds
<1>5. KeyOf(h) = KeyOf(p) /\ Waits(h)
  BY <1>1, <1>4 DEF PlaceInv, Filed, Waits
<1>6. h \notin lapsed /\ Batches(h) = {} /\ Answer[h] = "accepted"
  BY <1>4, <1>5 DEF PlaceInv, Placed
<1>7. Buffer'[KeyOf(p)] = Tail(s) /\ \A k \in Keys \ {KeyOf(p)} : Buffer'[k] = Buffer[k]
  BY <1>1, <1>2
<1> HIDE DEF s, h
<1>8. ASSUME NEW k \in Keys PROVE Filed(k)'
  <2>1. Filed(k)' <=> /\ NoDuplicates(Buffer'[k])
                      /\ \A x \in Reqs : Holds(Buffer'[k], x) => KeyOf(x) = k
    BY DEF Filed, KeyOf
  <2>2. NoDuplicates(Buffer[k]) /\ \A x \in Reqs : Holds(Buffer[k], x) => KeyOf(x) = k
    BY DEF PlaceInv, Filed
  <2> QED
    BY <1>4, <1>7, <2>1, <2>2 DEF s
<1>9. ASSUME NEW x \in Reqs PROVE Placed(x)'
  <2>1. KeyOf(x) \in Keys
    BY KeyOfType DEF Calls
  <2>2. Waits(x)' <=> Waits(x) /\ x # h
    <3>1. Waits(x)' <=> Holds(Buffer'[KeyOf(x)], x)
      BY DEF Waits, KeyOf
    <3> QED
      BY <1>4, <1>5, <1>7, <2>1, <3>1 DEF Waits, s
  <2>3. \/ /\ (x \in lapsed)' <=> x \in lapsed \/ x = h
           /\ Batches(x)' = Batches(x)
        \/ /\ (x \in lapsed)' <=> x \in lapsed
           /\ Batches(x)' = IF x = h THEN Batches(x) \cup {p} ELSE Batches(x)
    <3>1. CASE lapsed' = lapsed \cup {h} /\ UNCHANGED out
      BY <3>1 DEF Batches
    <3>2. CASE out' = [out EXCEPT ![p] = Append(out[p], h)] /\ UNCHANGED lapsed
      <4>1. Holds(out'[p], x) <=> Holds(out[p], x) \/ x = h
        BY <1>2, <1>4, <3>2, AppendHolds
      <4>2. \A q \in Pulls \ {p} : out'[q] = out[q]
        BY <1>2, <3>2
      <4> QED
        BY <3>2, <4>1, <4>2 DEF Batches
    <3> QED
      BY <1>1, <3>1, <3>2
  <2>4. Placed(x)
    BY DEF PlaceInv
  <2>5. CASE x = h
    BY <1>1, <1>5, <1>6, <2>2, <2>3, <2>4, <2>5 DEF Placed
  <2>6. CASE x # h
    BY <1>1, <2>2, <2>3, <2>4, <2>6 DEF Placed
  <2> QED
    BY <2>5, <2>6
<1> QED
  BY <1>8, <1>9 DEF PlaceInv

\* Every step keeps each request in one place.
LEMMA PlaceStep == QueueInv /\ PlaceInv /\ [Next]_vars => PlaceInv'
<1> SUFFICES ASSUME QueueInv, PlaceInv, [Next]_vars PROVE PlaceInv'
  OBVIOUS
<1>1. Fifo!Next \/ UNCHANGED <<Buffer, Answer, out, Ended, expired, lapsed>>
  BY RefinementStep DEF Fifo!vars
<1>2. ASSUME UNCHANGED <<Buffer, out, lapsed>>,
             \A r \in Reqs : Answer'[r] = "accepted" <=> Answer[r] = "accepted"
      PROVE  PlaceInv'
  <2>1. \A k \in Keys : Filed(k)' <=> Filed(k)
    BY <1>2 DEF Filed, KeyOf
  <2>2. \A r \in Reqs : Placed(r)' <=> Placed(r)
    BY <1>2 DEF Placed, Waits, Batches, KeyOf
  <2> QED
    BY <2>1, <2>2 DEF PlaceInv
<1>3. ASSUME NEW r \in Reqs, Fifo!Refuse(r) PROVE PlaceInv'
  BY <1>2, <1>3 DEF Fifo!Refuse, Answer
<1>4. ASSUME NEW r \in Reqs, Fifo!Expire(r) PROVE PlaceInv'
  BY <1>2, <1>4 DEF Fifo!Expire
<1>5. ASSUME NEW p \in Pulls, Fifo!End(p) PROVE PlaceInv'
  BY <1>2, <1>5 DEF Fifo!End
<1>6. CASE UNCHANGED <<Buffer, Answer, out, Ended, expired, lapsed>>
  BY <1>2, <1>6
<1> QED
  BY <1>1, <1>3, <1>4, <1>5, <1>6, AcceptPlaces, TakePlaces DEF Fifo!Next

\* PlaceInv in the numbers of NoStrandedRequest.
LEMMA PlacesAddUp == QueueInv /\ PlaceInv => NoStrandedRequest
<1> SUFFICES ASSUME QueueInv, PlaceInv, NEW r \in Reqs
             PROVE  Occurrences(r, QueueOf(KeyOf(r)))
                      + Cardinality({p \in Pulls : Occurrences(r, out[p]) > 0})
                      + (IF r \in lapsed THEN 1 ELSE 0)
                    = IF Sent(r) THEN 1 ELSE 0
  BY DEF NoStrandedRequest
<1>1. KeyOf(r) \in Keys /\ Buffer[KeyOf(r)] = QueueOf(KeyOf(r)) /\ Placed(r)
  BY KeyOfType DEF Buffer, PlaceInv, Calls
<1>2. Occurrences(r, QueueOf(KeyOf(r))) = IF Waits(r) THEN 1 ELSE 0
  <2> DEFINE S == {i \in DOMAIN QueueOf(KeyOf(r)) : QueueOf(KeyOf(r))[i] = r}
  <2>1. \A i, j \in S : i = j
    BY <1>1 DEF PlaceInv, Filed, NoDuplicates
  <2>2. Waits(r) <=> S # {}
    BY <1>1 DEF Waits, Holds
  <2>3. Cardinality(S) = IF S # {} THEN 1 ELSE 0
    <3>1. CASE S = {}
      BY <3>1, FS_EmptySet
    <3>2. CASE S # {}
      <4>1. PICK i : S = {i}
        BY <2>1, <3>2
      <4> QED
        BY <3>2, <4>1, FS_Singleton
    <3> QED
      BY <3>1, <3>2
  <2> QED
    BY <2>2, <2>3 DEF Occurrences
<1>3. {p \in Pulls : Occurrences(r, out[p]) > 0} = Batches(r)
  <2> SUFFICES ASSUME NEW p \in Pulls PROVE Occurrences(r, out[p]) > 0 <=> Holds(out[p], r)
    BY DEF Batches
  <2> DEFINE S == {i \in DOMAIN out[p] : out[p][i] = r}
  <2>1. DOMAIN out[p] = 1 .. Len(out[p]) /\ Len(out[p]) \in Nat
    BY LenProperties DEF QueueInv, TypeOK
  <2>2. IsFiniteSet(S) /\ Cardinality(S) \in Nat
    <3>1. IsFiniteSet(1 .. Len(out[p]))
      BY <2>1, FS_Interval
    <3>2. S \in SUBSET (1 .. Len(out[p]))
      BY <2>1
    <3> QED
      BY <3>1, <3>2, FS_Subset, FS_CardinalityType
  <2>3. Cardinality(S) = 0 <=> S = {}
    BY <2>2, FS_EmptySet
  <2>4. Holds(out[p], r) <=> S # {}
    BY DEF Holds
  <2> QED
    BY <2>2, <2>3, <2>4 DEF Occurrences
<1>4. Cardinality(Batches(r)) = IF Batches(r) # {} THEN 1 ELSE 0
  <2>1. CASE Batches(r) = {}
    BY <2>1, FS_EmptySet
  <2>2. CASE Batches(r) # {}
    <3>1. PICK p : Batches(r) = {p}
      BY <1>1, <2>2 DEF Placed
    <3> QED
      BY <2>2, <3>1, FS_Singleton
  <2> QED
    BY <2>1, <2>2
<1>5. Sent(r) <=> Answer[r] = "accepted"
  BY DEF Answer
<1>6. \/ Waits(r) /\ r \notin lapsed /\ Batches(r) = {} /\ Sent(r)
      \/ ~Waits(r) /\ r \in lapsed /\ Batches(r) = {} /\ Sent(r)
      \/ ~Waits(r) /\ r \notin lapsed /\ Batches(r) # {} /\ Sent(r)
      \/ ~Waits(r) /\ r \notin lapsed /\ Batches(r) = {} /\ ~Sent(r)
  BY <1>1, <1>5 DEF Placed
<1> QED
  BY <1>2, <1>3, <1>4, <1>6

\* No creation of a queue and no interleaving of enqueues and dequeues strands,
\* loses or duplicates a request: it waits where its key leads, is in one batch,
\* or lapsed (keyed.go:40-59, memory.go:32-64).
THEOREM NothingStranded == Spec => []NoStrandedRequest
<1>1. Init => PlaceInv
  <2> SUFFICES ASSUME Init PROVE PlaceInv
    OBVIOUS
  <2>1. /\ \A k \in Keys : Buffer[k] = <<>>
        /\ \A p \in Pulls : out[p] = <<>>
        /\ \A r \in Reqs : Answer[r] = "none"
        /\ lapsed = {}
    BY QueueAssumption DEF Init, Buffer, QueueOf, Answer, Sent, Calls, Queues
  <2>2. \A r \in Reqs : KeyOf(r) \in Keys
    BY KeyOfType DEF Calls
  <2>3. \A r \in Reqs : ~Waits(r) /\ Batches(r) = {}
    BY <2>1, <2>2 DEF Waits, Batches, Holds
  <2> QED
    BY <2>1, <2>3 DEF PlaceInv, Filed, Placed, NoDuplicates, Holds
<1> QED
  BY <1>1, PlaceStep, PlacesAddUp, QueueInvariant, PTL DEF Spec

=============================================================================
