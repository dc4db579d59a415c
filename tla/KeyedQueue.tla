----------------------------- MODULE KeyedQueue -----------------------------
(***************************************************************************)
(* The per-key request queues, internal/queue/keyed.go and memory.go.      *)
(*                                                                         *)
(* Enqueue and Dequeue run on the goroutines of concurrent HTTP handlers.  *)
(* An action is one critical section of kq.mu, one channel operation or    *)
(* one atomic counter update; other goroutines run between two of them.    *)
(*                                                                         *)
(* A request r stands also for the one call of Enqueue that carries it.  A *)
(* MemoryQueue is named by the call that created it, so two calls that     *)
(* create a queue for one key create two different queues.                 *)
(***************************************************************************)
EXTENDS Naturals, Sequences, FiniteSets

CONSTANTS
    Reqs,           \* requests, and the calls of KeyedQueue.Enqueue
    Pulls,          \* calls of KeyedQueue.Dequeue
    Keys,           \* queue names
    DefaultKey,     \* the queue name "default"
    NoKey,          \* the empty key of a caller that names no queue
    ReqKey,         \* the key argument of each Enqueue
    PullKey,        \* the key argument of each Dequeue
    BatchSize,      \* the argument n of each Dequeue
    MaxSize,        \* maxSize: capacity of each channel
    DefaultQueue,   \* the queue NewKeyedQueue makes for DefaultKey
    NoQueue         \* no entry in the map of queues

Calls  == Reqs \cup Pulls
Queues == Calls \cup {DefaultQueue}

ASSUME QueueAssumption ==
    /\ IsFiniteSet(Reqs) /\ IsFiniteSet(Pulls)
    /\ Reqs \cap Pulls = {}
    /\ DefaultQueue \notin Calls
    /\ NoQueue \notin Queues
    /\ DefaultKey \in Keys
    /\ NoKey \notin Keys
    /\ ReqKey \in [Reqs -> Keys \cup {NoKey}]
    /\ PullKey \in [Pulls -> Keys \cup {NoKey}]
    /\ BatchSize \in [Pulls -> Nat \ {0}]
    /\ MaxSize \in Nat

VARIABLES
    queues,         \* kq.queues
    ch,             \* the buffered channel of each MemoryQueue
    enqueued, dequeued, expiredCount, dropped,  \* counters of each MemoryQueue
    pc,             \* where each call is
    handle,         \* the *MemoryQueue each call got from getOrCreate
    out,            \* the batch each Dequeue has collected
    expired,        \* the requests past their ExpiresAt
    lapsed          \* history: requests a Dequeue dropped as expired

counters == <<enqueued, dequeued, expiredCount, dropped>>
vars == <<queues, ch, enqueued, dequeued, expiredCount, dropped, pc, handle,
          out, expired, lapsed>>

normalizeKey(k) == IF k = NoKey THEN DefaultKey ELSE k
KeyOf(c) == normalizeKey(IF c \in Reqs THEN ReqKey[c] ELSE PullKey[c])

Sent(r) == pc[r] \in {"countEnqueued", "accepted"}

TypeOK ==
    /\ queues \in [Keys -> Queues \cup {NoQueue}]
    /\ ch \in [Queues -> Seq(Reqs)]
    /\ enqueued \in [Queues -> Nat]
    /\ dequeued \in [Queues -> Nat]
    /\ expiredCount \in [Queues -> Nat]
    /\ dropped \in [Queues -> Nat]
    /\ pc \in [Calls -> {"start", "create", "use", "countEnqueued", "countDropped",
                         "accepted", "full", "countDequeued", "countExpired", "done"}]
    /\ handle \in [Calls -> Queues \cup {NoQueue}]
    /\ out \in [Pulls -> Seq(Reqs)]
    /\ expired \in SUBSET Reqs
    /\ lapsed \in SUBSET Reqs

\* NewKeyedQueue.
Init ==
    /\ queues = [k \in Keys |-> IF k = DefaultKey THEN DefaultQueue ELSE NoQueue]
    /\ ch = [q \in Queues |-> <<>>]
    /\ enqueued = [q \in Queues |-> 0]
    /\ dequeued = [q \in Queues |-> 0]
    /\ expiredCount = [q \in Queues |-> 0]
    /\ dropped = [q \in Queues |-> 0]
    /\ pc = [c \in Calls |-> "start"]
    /\ handle = [c \in Calls |-> NoQueue]
    /\ out = [p \in Pulls |-> <<>>]
    /\ expired = {}
    /\ lapsed = {}

-----------------------------------------------------------------------------
(* getOrCreate: a lookup under the read lock, then a creation under the     *)
(* write lock that looks again.                                             *)

Goto(c, label) == pc' = [pc EXCEPT ![c] = label]

Lookup(c) ==
    LET q == queues[KeyOf(c)] IN
    /\ pc[c] = "start"
    /\ handle' = [handle EXCEPT ![c] = q]
    /\ Goto(c, IF q = NoQueue THEN "create" ELSE "use")
    /\ UNCHANGED <<queues, ch, counters, out, expired, lapsed>>

Recheck(c) ==
    /\ pc[c] = "create"
    /\ queues[KeyOf(c)] # NoQueue
    /\ handle' = [handle EXCEPT ![c] = queues[KeyOf(c)]]
    /\ Goto(c, "use")
    /\ UNCHANGED <<queues, ch, counters, out, expired, lapsed>>

\* Mutant of Create: no second look under the write lock.
CreateBlind(c) ==
    /\ pc[c] = "create"
    /\ queues' = [queues EXCEPT ![KeyOf(c)] = c]
    /\ handle' = [handle EXCEPT ![c] = c]
    /\ Goto(c, "use")
    /\ UNCHANGED <<ch, counters, out, expired, lapsed>>

Create(c) ==
    /\ pc[c] = "create"
    /\ queues[KeyOf(c)] = NoQueue
    /\ queues' = [queues EXCEPT ![KeyOf(c)] = c]
    /\ handle' = [handle EXCEPT ![c] = c]
    /\ Goto(c, "use")
    /\ UNCHANGED <<ch, counters, out, expired, lapsed>>

-----------------------------------------------------------------------------
(* MemoryQueue.Enqueue: a non-blocking send, then a counter.                *)

EnqueueSend(r) ==
    /\ pc[r] = "use"
    /\ Len(ch[handle[r]]) < MaxSize
    /\ ch' = [ch EXCEPT ![handle[r]] = Append(@, r)]
    /\ Goto(r, "countEnqueued")
    /\ UNCHANGED <<queues, counters, handle, out, expired, lapsed>>

\* Mutant of EnqueueFull: one slot too early.
EnqueueFullEarly(r) ==
    /\ pc[r] = "use"
    /\ Len(ch[handle[r]]) >= MaxSize - 1
    /\ Goto(r, "countDropped")
    /\ UNCHANGED <<queues, ch, counters, handle, out, expired, lapsed>>

EnqueueFull(r) ==
    /\ pc[r] = "use"
    /\ Len(ch[handle[r]]) >= MaxSize
    /\ Goto(r, "countDropped")
    /\ UNCHANGED <<queues, ch, counters, handle, out, expired, lapsed>>

CountEnqueued(r) ==
    /\ pc[r] = "countEnqueued"
    /\ enqueued' = [enqueued EXCEPT ![handle[r]] = @ + 1]
    /\ Goto(r, "accepted")
    /\ UNCHANGED <<queues, ch, dequeued, expiredCount, dropped, handle, out, expired, lapsed>>

CountDropped(r) ==
    /\ pc[r] = "countDropped"
    /\ dropped' = [dropped EXCEPT ![handle[r]] = @ + 1]
    /\ Goto(r, "full")
    /\ UNCHANGED <<queues, ch, enqueued, dequeued, expiredCount, handle, out, expired, lapsed>>

-----------------------------------------------------------------------------
(* MemoryQueue.Dequeue: non-blocking receives, each with its counter, until *)
(* the batch is full or the channel is empty.                               *)

DequeueReceive(p) ==
    LET q == handle[p] IN
    /\ pc[p] = "use"
    /\ Len(out[p]) < BatchSize[p]
    /\ ch[q] # <<>>
    /\ ch' = [ch EXCEPT ![q] = Tail(@)]
    /\ IF Head(ch[q]) \in expired
       THEN /\ lapsed' = lapsed \cup {Head(ch[q])}
            /\ Goto(p, "countExpired")
            /\ UNCHANGED out
       ELSE /\ out' = [out EXCEPT ![p] = Append(@, Head(ch[q]))]
            /\ Goto(p, "countDequeued")
            /\ UNCHANGED lapsed
    /\ UNCHANGED <<queues, counters, handle, expired>>

CountDequeued(p) ==
    /\ pc[p] = "countDequeued"
    /\ dequeued' = [dequeued EXCEPT ![handle[p]] = @ + 1]
    /\ Goto(p, "use")
    /\ UNCHANGED <<queues, ch, enqueued, expiredCount, dropped, handle, out, expired, lapsed>>

\* Mutant of CountExpired: the counter is forgotten.
CountExpiredNever(p) ==
    /\ pc[p] = "countExpired"
    /\ Goto(p, "use")
    /\ UNCHANGED <<queues, ch, counters, handle, out, expired, lapsed>>

CountExpired(p) ==
    /\ pc[p] = "countExpired"
    /\ expiredCount' = [expiredCount EXCEPT ![handle[p]] = @ + 1]
    /\ Goto(p, "use")
    /\ UNCHANGED <<queues, ch, enqueued, dequeued, dropped, handle, out, expired, lapsed>>

DequeueReturn(p) ==
    /\ pc[p] = "use"
    /\ Len(out[p]) >= BatchSize[p] \/ ch[handle[p]] = <<>>
    /\ Goto(p, "done")
    /\ UNCHANGED <<queues, ch, counters, handle, out, expired, lapsed>>

\* Time passes the ExpiresAt of a request.
Expire(r) ==
    /\ r \notin expired
    /\ expired' = expired \cup {r}
    /\ UNCHANGED <<queues, ch, counters, pc, handle, out, lapsed>>

-----------------------------------------------------------------------------
GetOrCreate(c) == Lookup(c) \/ Recheck(c) \/ Create(c)
Enqueue(r) == EnqueueSend(r) \/ EnqueueFull(r) \/ CountEnqueued(r) \/ CountDropped(r)
Dequeue(p) == DequeueReceive(p) \/ CountDequeued(p) \/ CountExpired(p) \/ DequeueReturn(p)

Next ==
    \/ \E c \in Calls : GetOrCreate(c)
    \/ \E r \in Reqs : Enqueue(r) \/ Expire(r)
    \/ \E p \in Pulls : Dequeue(p)

Spec == Init /\ [][Next]_vars

-----------------------------------------------------------------------------
\* The queue a key leads to: empty until one is created.
QueueOf(k) == IF queues[k] = NoQueue THEN <<>> ELSE ch[queues[k]]

Occurrences(r, s) == Cardinality({i \in DOMAIN s : s[i] = r})

\* A request is either not sent, or waits under its own key where the next
\* Dequeue looks for it, or is in exactly one batch, or lapsed: no two calls
\* that create the queue of a new key at once strand a request in a queue that
\* the map does not lead to (keyed.go:40-59).
NoStrandedRequest ==
    \A r \in Reqs :
        LET places == Occurrences(r, QueueOf(KeyOf(r)))
                      + Cardinality({p \in Pulls : Occurrences(r, out[p]) > 0})
                      + (IF r \in lapsed THEN 1 ELSE 0)
        IN  places = IF Sent(r) THEN 1 ELSE 0

\* The counters of a queue differ from its content only by the calls that are
\* between a channel operation and its counter, so the statistics of a queue
\* that is at rest add up: enqueued = dequeued + expired + depth.
CountersAddUp ==
    \A q \in Queues :
        LET At(labels) == Cardinality({c \in Calls : handle[c] = q /\ pc[c] \in labels})
        IN  enqueued[q] + At({"countEnqueued"})
              = dequeued[q] + expiredCount[q] + At({"countDequeued", "countExpired"})
                + Len(ch[q])

\* The state of FifoQueues that a state of KeyedQueue stands for.  A request is
\* accepted by the send and refused by the default case of the select.
QueueKey == [r \in Reqs |-> KeyOf(r)]
DequeueKey == [p \in Pulls |-> KeyOf(p)]
Buffer == [k \in Keys |-> QueueOf(k)]
Answer == [r \in Reqs |-> IF Sent(r) THEN "accepted"
                          ELSE IF pc[r] \in {"countDropped", "full"} THEN "full"
                          ELSE "none"]
Ended == {p \in Pulls : pc[p] = "done"}

Fifo == INSTANCE FifoQueues WITH
            ReqKey <- QueueKey, PullKey <- DequeueKey,
            buffer <- Buffer, answer <- Answer, batch <- out, ended <- Ended

\* One bounded FIFO per key, however the calls interleave: nothing lost or
\* duplicated, no request of another key, no overtaking, no refusal by a queue
\* that is not full, no short batch from a queue that is not empty.
ImplementsFifoQueues == Fifo!Spec

=============================================================================
