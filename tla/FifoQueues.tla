----------------------------- MODULE FifoQueues -----------------------------
(***************************************************************************)
(* What the hub promises of its request queues: one bounded FIFO per key.  *)
(* A request is accepted at the tail of the queue of its key or refused    *)
(* because that queue is full.  A pull takes requests from the head, drops *)
(* those whose TTL is over, and ends with a full batch or an empty queue.  *)
(***************************************************************************)
EXTENDS Naturals, Sequences

CONSTANTS
    Reqs,           \* requests
    Pulls,          \* pulls
    Keys,           \* queue keys
    ReqKey,         \* the key each request is queued under
    PullKey,        \* the key each pull asks for
    BatchSize,      \* how many requests each pull asks for
    MaxSize         \* capacity of each queue

VARIABLES
    buffer,         \* the requests queued under each key, oldest first
    answer,         \* what the producer of each request was told
    batch,          \* the requests each pull has taken, oldest first
    ended,          \* the pulls that returned
    expired,        \* the requests whose TTL is over
    lapsed          \* the requests dropped because their TTL was over

vars == <<buffer, answer, batch, ended, expired, lapsed>>

Init ==
    /\ buffer = [k \in Keys |-> <<>>]
    /\ answer = [r \in Reqs |-> "none"]
    /\ batch = [p \in Pulls |-> <<>>]
    /\ ended = {}
    /\ expired = {}
    /\ lapsed = {}

Accept(r) ==
    /\ answer[r] = "none"
    /\ Len(buffer[ReqKey[r]]) < MaxSize
    /\ buffer' = [buffer EXCEPT ![ReqKey[r]] = Append(@, r)]
    /\ answer' = [answer EXCEPT ![r] = "accepted"]
    /\ UNCHANGED <<batch, ended, expired, lapsed>>

Refuse(r) ==
    /\ answer[r] = "none"
    /\ Len(buffer[ReqKey[r]]) = MaxSize
    /\ answer' = [answer EXCEPT ![r] = "full"]
    /\ UNCHANGED <<buffer, batch, ended, expired, lapsed>>

\* The head of the pull's queue leaves it: into the batch, or lapsed.
Take(p) ==
    LET k == PullKey[p] IN
    /\ p \notin ended
    /\ Len(batch[p]) < BatchSize[p]
    /\ buffer[k] # <<>>
    /\ buffer' = [buffer EXCEPT ![k] = Tail(@)]
    /\ IF Head(buffer[k]) \in expired
       THEN /\ lapsed' = lapsed \cup {Head(buffer[k])}
            /\ UNCHANGED batch
       ELSE /\ batch' = [batch EXCEPT ![p] = Append(@, Head(buffer[k]))]
            /\ UNCHANGED lapsed
    /\ UNCHANGED <<answer, ended, expired>>

End(p) ==
    /\ p \notin ended
    /\ Len(batch[p]) = BatchSize[p] \/ buffer[PullKey[p]] = <<>>
    /\ ended' = ended \cup {p}
    /\ UNCHANGED <<buffer, answer, batch, expired, lapsed>>

Expire(r) ==
    /\ r \notin expired
    /\ expired' = expired \cup {r}
    /\ UNCHANGED <<buffer, answer, batch, ended, lapsed>>

Next ==
    \/ \E r \in Reqs : Accept(r) \/ Refuse(r) \/ Expire(r)
    \/ \E p \in Pulls : Take(p) \/ End(p)

Spec == Init /\ [][Next]_vars

=============================================================================
