---------------------------- MODULE LocalClient ----------------------------
(***************************************************************************)
(* The worker of the Go library, pkg/client/local.go (the Go SDK holds a   *)
(* copy of it): Run polls the hub and hands each request of a batch to a   *)
(* goroutine that processes it and pushes the result.  The channel sem     *)
(* bounds the goroutines, the wait group wg counts them.                   *)
(*                                                                         *)
(* The hub is external: it gives a batch out once.  The order inside a     *)
(* batch is left out: no property tells the requests of a batch apart.     *)
(***************************************************************************)
EXTENDS Naturals, FiniteSets

CONSTANTS
    Reqs,           \* requests
    Workers,        \* opts.Workers
    BatchSize,      \* opts.BatchSize
    CallsFail       \* whether a call to the hub may fail

ASSUME LocalClientAssumption ==
    /\ IsFiniteSet(Reqs)
    /\ Workers \in Nat \ {0}
    /\ BatchSize \in Nat \ {0}
    /\ CallsFail \in BOOLEAN

VARIABLES
    cancelled,      \* ctx.Err() # nil
    loop,           \* where Run is
    stage,          \* how far each request has come
    sem,            \* the elements in the channel sem
    wg              \* the counter of wg

localVars == <<cancelled, loop, stage, sem, wg>>

In(S) == {r \in Reqs : stage[r] \in S}
At(s) == In({s})

Processing == {"process", "push"}
HoldsSlot == Processing \cup {"exit"}
Running == HoldsSlot \cup {"leave"}

LocalTypeOK ==
    /\ cancelled \in BOOLEAN
    /\ loop \in {"check", "pull", "reply", "pause", "batch", "drain", "returned"}
    /\ stage \in [Reqs -> {"away", "queued", "reply", "batch", "done", "lost"} \cup Running]
    /\ sem \in 0..Workers
    /\ wg \in Nat

LocalInit ==
    /\ cancelled = FALSE
    /\ loop = "check"
    /\ stage = [r \in Reqs |-> "away"]
    /\ sem = 0
    /\ wg = 0

Move(S, s) == stage' = [r \in Reqs |-> IF r \in S THEN s ELSE stage[r]]

-----------------------------------------------------------------------------
(* The surroundings: a client submits a request, the owner cancels ctx.     *)

Submit(r) ==
    /\ stage[r] = "away"
    /\ Move({r}, "queued")
    /\ UNCHANGED <<cancelled, loop, sem, wg>>

Cancel ==
    /\ ~cancelled
    /\ cancelled' = TRUE
    /\ UNCHANGED <<loop, stage, sem, wg>>

-----------------------------------------------------------------------------
(* Run: the poll loop.                                                      *)

Check ==
    /\ loop = "check"
    /\ loop' = IF cancelled THEN "drain" ELSE "pull"
    /\ UNCHANGED <<cancelled, stage, sem, wg>>

\* The hub takes the batch out of the queue before it answers.
Batches == {S \in SUBSET At("queued") :
                \/ Cardinality(S) = BatchSize
                \/ S = At("queued") /\ Cardinality(S) < BatchSize}

PullReachesHub(S) ==
    /\ loop = "pull"
    /\ ~cancelled
    /\ S \in Batches
    /\ Move(S, "reply")
    /\ loop' = "reply"
    /\ UNCHANGED <<cancelled, sem, wg>>

PullReturns ==
    /\ loop = "reply"
    /\ Move(At("reply"), "batch")
    /\ loop' = IF At("reply") = {} THEN "pause" ELSE "batch"
    /\ UNCHANGED <<cancelled, sem, wg>>

\* Mutant of PullFails: a failed pull ends the loop.
PullFailsEnds ==
    /\ loop \in {"pull", "reply"}
    /\ CallsFail \/ cancelled
    /\ Move(At("reply"), "lost")
    /\ loop' = "drain"
    /\ UNCHANGED <<cancelled, sem, wg>>

\* PullBatch returns an error: the hub was not reached, or its answer was not.
PullFails ==
    /\ loop \in {"pull", "reply"}
    /\ CallsFail \/ cancelled
    /\ Move(At("reply"), "lost")
    /\ loop' = IF cancelled THEN "drain" ELSE "pause"
    /\ UNCHANGED <<cancelled, sem, wg>>

\* The select ends by the timer or by ctx; Check tells which.
Pause ==
    /\ loop = "pause"
    /\ loop' = "check"
    /\ UNCHANGED <<cancelled, stage, sem, wg>>

\* Mutant of Dispatch: a cancelled loop leaves its batch.
DispatchUntilCancel(r) ==
    /\ loop = "batch"
    /\ stage[r] = "batch"
    /\ sem < Workers
    /\ sem' = sem + 1
    /\ wg' = wg + 1
    /\ Move({r}, "process")
    /\ loop' = IF At("batch") = {r} \/ cancelled THEN "check" ELSE "batch"
    /\ UNCHANGED cancelled

\* The send on sem waits for a slot, whatever ctx says.
Dispatch(r) ==
    /\ loop = "batch"
    /\ stage[r] = "batch"
    /\ sem < Workers
    /\ sem' = sem + 1
    /\ wg' = wg + 1
    /\ Move({r}, "process")
    /\ loop' = IF At("batch") = {r} THEN "check" ELSE "batch"
    /\ UNCHANGED cancelled

\* Mutant of RunReturns: no wait for the goroutines.
RunReturnsAtOnce ==
    /\ loop = "drain"
    /\ loop' = "returned"
    /\ UNCHANGED <<cancelled, stage, sem, wg>>

RunReturns ==
    /\ loop = "drain"
    /\ wg = 0
    /\ loop' = "returned"
    /\ UNCHANGED <<cancelled, stage, sem, wg>>

-----------------------------------------------------------------------------
(* The goroutine of a request.                                              *)

\* The processor returns a result or an error, and a result is pushed either way.
process(r) ==
    /\ stage[r] = "process"
    /\ Move({r}, "push")
    /\ UNCHANGED <<cancelled, loop, sem, wg>>

\* The hub has stored the result.
PushResult(r) ==
    /\ stage[r] = "push"
    /\ ~cancelled
    /\ Move({r}, "exit")
    /\ UNCHANGED <<cancelled, loop, sem, wg>>

\* Mutant of PushFails: the goroutine ends without the deferred function.
PushFailsLeaks(r) ==
    /\ stage[r] = "push"
    /\ CallsFail \/ cancelled
    /\ Move({r}, "done")
    /\ UNCHANGED <<cancelled, loop, sem, wg>>

\* The push uses the context of the loop: it fails when that is cancelled, or the
\* hub is not reached, refuses it, or its answer is lost.  It is only logged
\* (while the comment on the processor, local.go:19, has an error pushed).
PushFails(r) ==
    /\ stage[r] = "push"
    /\ CallsFail \/ cancelled
    /\ Move({r}, "exit")
    /\ UNCHANGED <<cancelled, loop, sem, wg>>

\* The deferred function: a slot is given back, then wg is told.
Release(r) ==
    /\ stage[r] = "exit"
    /\ sem' = sem - 1
    /\ Move({r}, "leave")
    /\ UNCHANGED <<cancelled, loop, wg>>

Leave(r) ==
    /\ stage[r] = "leave"
    /\ wg' = wg - 1
    /\ Move({r}, "done")
    /\ UNCHANGED <<cancelled, loop, sem>>

-----------------------------------------------------------------------------
Poll == Check \/ Pause \/ PullReturns \/ PullFails \/ RunReturns
Goroutine(r) == process(r) \/ PushResult(r) \/ PushFails(r) \/ Release(r) \/ Leave(r)

LocalNext ==
    \/ Cancel \/ Poll
    \/ \E S \in SUBSET Reqs : PullReachesHub(S)
    \/ \E r \in Reqs : Submit(r) \/ Dispatch(r) \/ Goroutine(r)

LocalSpec == LocalInit /\ [][LocalNext]_localVars

\* The Go runtime runs every goroutine, a processor returns, a call to the hub
\* ends (the HTTP client has a timeout), and the hub is not down for ever.
LocalFairness ==
    /\ WF_localVars(Poll)
    /\ WF_localVars(\E r \in Reqs : Dispatch(r))
    /\ \A r \in Reqs : WF_localVars(Goroutine(r))
    /\ SF_localVars(\E S \in SUBSET Reqs : PullReachesHub(S))
    /\ SF_localVars(PullReturns)

LocalFairSpec == LocalSpec /\ LocalFairness

-----------------------------------------------------------------------------
\* No more processors run at a time than WithWorkers allows (local.go:54).
WithinWorkers == Cardinality(In(Processing)) <= Workers

\* When Run returns, every request of every batch that reached it was given to the
\* processor and no goroutine is left, whenever ctx was cancelled (local.go:113).
NothingLeftBehind ==
    loop = "returned" => \A r \in Reqs : stage[r] \in {"away", "queued", "done", "lost"}

\* How far a request has come, seen from outside the loop.
Seen(s) == CASE s \in {"away", "queued"}         -> "waiting"
             [] s = "reply"                      -> "coming"
             [] s = "batch"                      -> "taken"
             [] s \in Processing                 -> "busy"
             [] s \in {"exit", "leave", "done"}  -> "finished"
             [] s = "lost"                       -> "lost"
progress == [r \in Reqs |-> Seen(stage[r])]

\* The loop keeps the promise of a worker that never quits: however its goroutines
\* interleave with pulls, lost answers and the cancel, each of its steps is a step of
\* WorkerPool, and a cancel makes it give up nothing it has received (local.go:113).
Pool == INSTANCE WorkerPool
            WITH state <- progress, open <- loop # "returned", quit <- FALSE
ImplementsPool == Pool!Spec

\* A cancelled Run returns, although a full semaphore, a pull and the processors
\* may hold it up.
StopsEventually == cancelled ~> (loop = "returned")

\* A queued request is taken and processed in the end, whatever calls failed
\* before, unless the answer with it was lost or ctx is cancelled.
QueuedAreProcessed ==
    \A r \in Reqs : (stage[r] = "queued") ~> (stage[r] \in {"done", "lost"} \/ cancelled)

=============================================================================
