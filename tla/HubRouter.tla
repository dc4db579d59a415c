----------------------------- MODULE HubRouter -----------------------------
(***************************************************************************)
(* The hub at work: the HTTP handlers of internal/handler over the queues  *)
(* of FifoQueues (which KeyedQueue implements) and the store of            *)
(* MemoryStore, with online clients on one side and workers on the other.  *)
(*                                                                         *)
(* Each request of a client is one run of HandleSubmit or HandleSync, each *)
(* Get one run of HandleResult (or the Get inside a HandleSync), each pull *)
(* one run of HandlePull, and each Put one run of the local HandleResult.  *)
(***************************************************************************)
EXTENDS MemoryStore, Integers, Sequences

\* A submitted request is the ID it is given: IDs, of MemoryStore.
CONSTANTS
    Sync,           \* the requests submitted to POST /request/sync
    SyncGet,        \* the Get each synchronous submission makes
    Pulls, Keys, ReqKey, PullKey, MaxSize,                  \* of FifoQueues
    MaxBatchSize,   \* cfg.Queue.MaxBatchSize
    AskedBatch      \* ?batch= of each pull; 0 when absent or not a number

ASSUME HubAssumption ==
    /\ Sync \in SUBSET IDs
    /\ SyncGet \in [Sync -> Gets]
    /\ \A r \in Sync : GetID[SyncGet[r]] = r
    /\ MaxBatchSize \in Nat \ {0}
    /\ AskedBatch \in [Pulls -> Int]
    /\ ReqKey \in [IDs -> Keys]
    /\ PullKey \in [Pulls -> Keys]
    /\ MaxSize \in Nat

VARIABLES
    buffer, answer, batch, ended, expired, lapsed,          \* of FifoQueues
    handler,        \* where the submit handler of each request is
    reply           \* the HTTP status each submission was answered with

\* HandlePull: a client may ask for less than the configured batch, not more.
BatchSize == [p \in Pulls |-> IF AskedBatch[p] > 0 /\ AskedBatch[p] < MaxBatchSize
                             THEN AskedBatch[p] ELSE MaxBatchSize]
Fifo == INSTANCE FifoQueues WITH Reqs <- IDs

queueVars  == <<buffer, answer, batch, ended, expired, lapsed>>
submitVars == <<handler, reply>>
hubVars == <<results, aged, pending, waiters, chan, getPC, outcome, putPC, target,
             submitted, discarded, overlapped, buffer, answer, batch, ended, expired, lapsed,
             handler, reply>>

PollGets == Gets \ {SyncGet[r] : r \in Sync}
InBatch(r, p) == \E i \in DOMAIN batch[p] : batch[p][i] = r
Taken(r) == \E p \in Pulls : InBatch(r, p)
Resolved(r) == \E q \in Puts : PutID[q] = r /\ putPC[q] # "idle"

QueueTypes ==
    /\ buffer \in [Keys -> Seq(IDs)]
    /\ answer \in [IDs -> {"none", "accepted", "full"}]
    /\ batch \in [Pulls -> Seq(IDs)]
    /\ ended \in SUBSET Pulls
    /\ expired \in SUBSET IDs
    /\ lapsed \in SUBSET IDs

HubTypeOK ==
    /\ TypeOK /\ QueueTypes
    /\ handler \in [IDs -> {"new", "enqueue", "register", "undo", "get", "done"}]
    /\ reply \in [IDs -> {"none", "200", "202", "500", "503"}]

HubInit ==
    /\ Init
    /\ Fifo!Init
    /\ handler = [r \in IDs |-> "new"]
    /\ reply = [r \in IDs |-> "none"]

Goto(r, label) == handler' = [handler EXCEPT ![r] = label]
Answer(r, code) == Goto(r, "done") /\ reply' = [reply EXCEPT ![r] = code]

-----------------------------------------------------------------------------
(* HandleSubmit: enqueue first, then register the ID, then answer.          *)

\* Mutant of SubmitEnqueue: the client is answered before the ID is registered.
SubmitAnswersEarly(r) ==
    /\ r \notin Sync
    /\ handler[r] = "new"
    /\ Fifo!Accept(r)
    /\ Goto(r, "register")
    /\ reply' = [reply EXCEPT ![r] = "202"]
    /\ UNCHANGED vars

SubmitEnqueue(r) ==
    /\ r \notin Sync
    /\ handler[r] = "new"
    /\ Fifo!Accept(r)
    /\ Goto(r, "register")
    /\ UNCHANGED <<vars, reply>>

SubmitRefused(r) ==
    /\ r \notin Sync
    /\ handler[r] = "new"
    /\ Fifo!Refuse(r)
    /\ Answer(r, "503")
    /\ UNCHANGED vars

SubmitRegister(r) ==
    /\ handler[r] = "register"
    /\ RegisterPending(r)
    /\ Answer(r, "202")
    /\ UNCHANGED queueVars

-----------------------------------------------------------------------------
(* HandleSync: register first, enqueue, then wait in Get.                   *)

\* Mutant of SyncRegister: the ID is not registered.
SyncSkipsRegister(r) ==
    /\ r \in Sync
    /\ handler[r] = "new"
    /\ Goto(r, "enqueue")
    /\ UNCHANGED <<vars, queueVars, reply>>

SyncRegister(r) ==
    /\ r \in Sync
    /\ handler[r] = "new"
    /\ RegisterPending(r)
    /\ Goto(r, "enqueue")
    /\ UNCHANGED <<queueVars, reply>>

SyncEnqueue(r) ==
    /\ handler[r] = "enqueue"
    /\ Fifo!Accept(r)
    /\ Goto(r, "get")
    /\ UNCHANGED <<vars, reply>>

SyncRefused(r) ==
    /\ handler[r] = "enqueue"
    /\ Fifo!Refuse(r)
    /\ Goto(r, "undo")
    /\ UNCHANGED <<vars, reply>>

\* Mutant of SyncUndo: the registration is not taken back.
SyncKeepsPending(r) ==
    /\ handler[r] = "undo"
    /\ Answer(r, "503")
    /\ UNCHANGED <<vars, queueVars>>

SyncUndo(r) ==
    /\ handler[r] = "undo"
    /\ Delete(r)
    /\ Answer(r, "503")
    /\ UNCHANGED queueVars

\* The Get of a HandleSync returned: 200, 202 or (ErrNotFound) 500.
SyncAnswer(r) ==
    /\ handler[r] = "get"
    /\ getPC[SyncGet[r]] = "done"
    /\ Answer(r, CASE outcome[SyncGet[r]].kind = "unknown" -> "500"
                   [] outcome[SyncGet[r]].kind = "timeout" -> "202"
                   [] OTHER -> "200")
    /\ UNCHANGED <<vars, queueVars>>

-----------------------------------------------------------------------------
(* Get, called by HandleSync when it comes to it, and by HandleResult for a *)
(* client that was given the ID.                                            *)

MayCall(g) ==
    IF g \in PollGets THEN reply[GetID[g]] = "202" ELSE handler[GetID[g]] = "get"

GetCall(g) ==
    /\ MayCall(g)
    /\ GetFast(g) \/ GetUnknown(g) \/ GetRegister(g)
    /\ UNCHANGED <<queueVars, submitVars>>

GetRecheck(g) ==
    /\ GetRecheckHit(g) \/ GetRecheckMiss(g)
    /\ UNCHANGED <<queueVars, submitVars>>

\* Mutant of GetSelect: the select has no deadline.
GetSelectUnbounded(g) ==
    /\ GetWake(g)
    /\ UNCHANGED <<queueVars, submitVars>>

GetSelect(g) ==
    /\ GetWake(g) \/ GetTimeout(g)
    /\ UNCHANGED <<queueVars, submitVars>>

GetReturn(g) ==
    /\ GetCleanup(g)
    /\ UNCHANGED <<queueVars, submitVars>>

-----------------------------------------------------------------------------
(* HandlePull, and the worker behind it.                                    *)

Pull(p) ==
    /\ Fifo!Take(p) \/ Fifo!End(p)
    /\ UNCHANGED <<vars, submitVars>>

\* The local HandleResult asks nothing about the ID it is given: the request may be
\* queued, lapsed, refused, with another worker, or resolved before.  An ID that
\* was not generated yet (uuid.NewString) is not among those a caller can name.
PushResult(q) ==
    /\ handler[PutID[q]] # "new"
    /\ PutStore(q)
    /\ UNCHANGED <<queueVars, submitVars>>

PushSignal(q) ==
    /\ PutSignal(q)
    /\ UNCHANGED <<queueVars, submitVars>>

-----------------------------------------------------------------------------
(* Time.                                                                    *)

ExpireRequest(r) ==
    /\ handler[r] # "new"
    /\ Fifo!Expire(r)
    /\ UNCHANGED <<vars, submitVars>>

AgeResult(r) ==
    /\ Age(r)
    /\ UNCHANGED <<queueVars, submitVars>>

Sweep ==
    /\ SweepExpired
    /\ UNCHANGED <<queueVars, submitVars>>

-----------------------------------------------------------------------------
HandleSubmit(r) == SubmitEnqueue(r) \/ SubmitRefused(r) \/ SubmitRegister(r)
HandleSync(r) ==
    SyncRegister(r) \/ SyncEnqueue(r) \/ SyncRefused(r) \/ SyncUndo(r) \/ SyncAnswer(r)
Get(g) == GetCall(g) \/ GetRecheck(g) \/ GetSelect(g) \/ GetReturn(g)
Push(q) == PushResult(q) \/ PushSignal(q)

HubNext ==
    \/ \E r \in IDs : HandleSubmit(r) \/ HandleSync(r) \/ ExpireRequest(r) \/ AgeResult(r)
    \/ \E g \in Gets : Get(g)
    \/ \E p \in Pulls : Pull(p)
    \/ \E q \in Puts : Push(q)
    \/ Sweep

HubSpec == HubInit /\ [][HubNext]_hubVars

\* A handler that runs goes on, and the deadline of a Get that waits comes
\* (context.WithTimeout).  No client, worker or sweep is relied on.
HubFairness ==
    /\ \A r \in IDs :
           /\ WF_hubVars(SubmitRegister(r))
           /\ WF_hubVars(SyncEnqueue(r) \/ SyncRefused(r))
           /\ WF_hubVars(SyncUndo(r))
           /\ WF_hubVars(SyncAnswer(r))
    /\ \A g \in Gets :
           /\ WF_hubVars(g \notin PollGets /\ GetCall(g))
           /\ WF_hubVars(GetRecheck(g))
           /\ WF_hubVars(GetSelect(g))
           /\ WF_hubVars(GetReturn(g))
    /\ \A q \in Puts : WF_hubVars(PushSignal(q))

HubFairSpec == HubSpec /\ HubFairness

-----------------------------------------------------------------------------
\* A synchronous submission is answered 500 (its Get returned ErrNotFound) only
\* if its result came and was swept before the Get: registering before the
\* enqueue leaves no other way (online.go:120-123).
SyncUnknownOnlyIfSwept ==
    \A r \in Sync :
        outcome[SyncGet[r]].kind = "unknown" =>
            \E q \in Puts : PutID[q] = r /\ q \in discarded

\* A submission that was refused leaves no trace: not pending, not queued, not
\* handed to a worker, nobody waiting (online.go:125-134).
RefusedLeavesNoTrace ==
    \A r \in IDs :
        reply[r] = "503" =>
            /\ r \notin pending
            /\ \A i \in DOMAIN buffer[ReqKey[r]] : buffer[ReqKey[r]][i] # r
            /\ ~Taken(r)
            /\ waiters[r] = NoGet

\* "requestIDs that have been submitted but not yet resolved" (memory.go:26):
\* no ID is pending once a worker was handed its request and a result was put.
PendingUnresolved ==
    \A r \in pending : ~(Resolved(r) /\ \E p \in ended : InBatch(r, p))

\* Of a synchronous submission, which registers before it enqueues, the ID is not
\* pending once a result was put, whoever put it.
SyncPendingUnresolved == \A r \in pending \cap Sync : ~Resolved(r)

\* Every submission is answered: no handler waits for a worker for ever.
SubmissionsAnswered == \A r \in IDs : (handler[r] # "new") ~> (reply[r] # "none")

\* What a state of the hub means to its two sides.  In a reachable state no two of
\* the cases hold: what lapsed was not taken, and what lapsed or was taken had been
\* accepted.
Status == [r \in IDs |->
    CASE Taken(r) -> "taken"
      [] r \in lapsed -> "lapsed"
      [] answer[r] = "full" -> "refused"
      [] answer[r] = "none" -> "new"
      [] OTHER -> "queued"]
Verdict == [g \in Gets |->
    CASE outcome[g].kind = "none" -> "none"
      [] outcome[g].kind = "unknown" -> "unknown"
      [] outcome[g].kind = "timeout" -> "later"
      [] OTHER -> "result"]

Hub == INSTANCE Broker WITH
           Reqs <- IDs, Polls <- Gets, PollReq <- GetID,
           status <- Status, overdue <- expired, resolved <- {r \in IDs : Resolved(r)},
           told <- reply, verdict <- Verdict

\* The hub keeps the promises of Broker: a request is handed out once and in time,
\* and whatever races with the answer to its submission, its client gets a result
\* only when one was pushed, and a 404 or a 500 never for a request in progress.
ImplementsBroker == Hub!Spec

=============================================================================
