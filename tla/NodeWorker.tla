----------------------------- MODULE NodeWorker -----------------------------
(***************************************************************************)
(* The worker of the Node SDK, sdks/node/src/hub-router.ts: run polls the  *)
(* hub and starts a promise for each request of a batch; activeWorkers     *)
(* counts the promises that have not settled.  All of it runs on one       *)
(* thread: a step lasts from one await to the next.                        *)
(*                                                                         *)
(* The hub is external: it gives a batch out once.                         *)
(***************************************************************************)
EXTENDS Integers, FiniteSets

CONSTANTS
    Reqs,           \* requests
    Workers,        \* options.workers
    BatchSize,      \* options.batchSize
    Lossy           \* whether a call to the hub may fail

VARIABLES
    stopped,
    loop,           \* where run is
    stage,          \* how far each request has come
    activeWorkers

vars == <<stopped, loop, stage, activeWorkers>>

At(s) == {r \in Reqs : stage[r] = s}
Running == {"process", "push", "settled"}
Move(S, s) == stage' = [r \in Reqs |-> IF r \in S THEN s ELSE stage[r]]

\* The head of the while loop; no await comes before the pull.
Again == IF stopped THEN "drain" ELSE "pull"

TypeOK ==
    /\ stopped \in BOOLEAN
    /\ loop \in {"start", "pull", "reply", "pause", "batch", "drain", "returned"}
    /\ stage \in [Reqs -> {"away", "queued", "reply", "batch", "done", "lost", "dropped"}
                          \cup Running]
    /\ activeWorkers = Cardinality({r \in Reqs : stage[r] \in Running})

Init ==
    /\ stopped = FALSE
    /\ loop = "start"
    /\ stage = [r \in Reqs |-> "away"]
    /\ activeWorkers = 0

-----------------------------------------------------------------------------
Submit(r) ==
    /\ stage[r] = "away"
    /\ Move({r}, "queued")
    /\ UNCHANGED <<stopped, loop, activeWorkers>>

stop ==
    /\ ~stopped
    /\ stopped' = TRUE
    /\ UNCHANGED <<loop, stage, activeWorkers>>

\* run is called.
Start ==
    /\ loop = "start"
    /\ loop' = Again
    /\ UNCHANGED <<stopped, stage, activeWorkers>>

\* The hub takes the batch out of the queue before it answers.
Batches == {S \in SUBSET At("queued") :
                \/ Cardinality(S) = BatchSize
                \/ S = At("queued") /\ Cardinality(S) < BatchSize}

PullReachesHub(S) ==
    /\ loop = "pull"
    /\ S \in Batches
    /\ Move(S, "reply")
    /\ loop' = "reply"
    /\ UNCHANGED <<stopped, activeWorkers>>

PullReturns ==
    /\ loop = "reply"
    /\ Move(At("reply"), "batch")
    /\ loop' = IF At("reply") = {} THEN "pause" ELSE "batch"
    /\ UNCHANGED <<stopped, activeWorkers>>

\* Mutant of PullFails: a pull that fails ends the loop.
PullFailsEnds ==
    /\ Lossy
    /\ loop \in {"pull", "reply"}
    /\ Move(At("reply"), "lost")
    /\ loop' = "drain"
    /\ UNCHANGED <<stopped, activeWorkers>>

\* pullBatch throws: the hub was not reached, or its answer was not.
PullFails ==
    /\ Lossy
    /\ loop \in {"pull", "reply"}
    /\ Move(At("reply"), "lost")
    /\ loop' = "pause"
    /\ UNCHANGED <<stopped, activeWorkers>>

\* The sleep goes to its end, whether stopped or not.
Pause ==
    /\ loop = "pause"
    /\ loop' = Again
    /\ UNCHANGED <<stopped, stage, activeWorkers>>

\* Mutant of Dispatch: one promise too many.
DispatchOneMore(r) ==
    /\ loop = "batch" /\ stage[r] = "batch"
    /\ activeWorkers <= Workers
    /\ ~stopped
    /\ activeWorkers' = activeWorkers + 1
    /\ Move({r}, "process")
    /\ loop' = IF At("batch") = {r} THEN Again ELSE "batch"
    /\ UNCHANGED stopped

\* waitForWorker finds a free worker.
Dispatch(r) ==
    /\ loop = "batch" /\ stage[r] = "batch"
    /\ activeWorkers < Workers
    /\ ~stopped
    /\ activeWorkers' = activeWorkers + 1
    /\ Move({r}, "process")
    /\ loop' = IF At("batch") = {r} THEN Again ELSE "batch"
    /\ UNCHANGED stopped

\* Mutant of Abandon: the loop breaks off, stopped or not.
AbandonAlways ==
    /\ loop = "batch"
    /\ activeWorkers < Workers
    /\ Move(At("batch"), "dropped")
    /\ loop' = Again
    /\ UNCHANGED <<stopped, activeWorkers>>

\* Stopped meanwhile: the loop breaks off, and leaves the rest of the batch (which
\* the comment on stop, hub-router.ts:499, says it finishes).
Abandon ==
    /\ loop = "batch"
    /\ activeWorkers < Workers
    /\ stopped
    /\ Move(At("batch"), "dropped")
    /\ loop' = Again
    /\ UNCHANGED <<stopped, activeWorkers>>

Return ==
    /\ loop = "drain"
    /\ activeWorkers = 0
    /\ loop' = "returned"
    /\ UNCHANGED <<stopped, stage, activeWorkers>>

-----------------------------------------------------------------------------
(* _processAndPush.                                                         *)

\* The processor resolves or throws; a result is pushed either way.
Process(r) ==
    /\ stage[r] = "process"
    /\ Move({r}, "push")
    /\ UNCHANGED <<stopped, loop, activeWorkers>>

\* Whatever becomes of the push, its error is swallowed.
Push(r) ==
    /\ stage[r] = "push"
    /\ Move({r}, "settled")
    /\ UNCHANGED <<stopped, loop, activeWorkers>>

\* Mutant of Finally: the count is given back only while the loop runs.
FinallyIfRunning(r) ==
    /\ stage[r] = "settled"
    /\ ~stopped
    /\ activeWorkers' = activeWorkers - 1
    /\ Move({r}, "done")
    /\ UNCHANGED <<stopped, loop>>

Finally(r) ==
    /\ stage[r] = "settled"
    /\ activeWorkers' = activeWorkers - 1
    /\ Move({r}, "done")
    /\ UNCHANGED <<stopped, loop>>

-----------------------------------------------------------------------------
Poll == Start \/ Pause \/ PullReturns \/ PullFails \/ Abandon \/ Return
processAndPush(r) == Process(r) \/ Push(r) \/ Finally(r)

Next ==
    \/ stop \/ Poll
    \/ \E S \in SUBSET Reqs : PullReachesHub(S)
    \/ \E r \in Reqs : Submit(r) \/ Dispatch(r) \/ processAndPush(r)

Spec == Init /\ [][Next]_vars

-----------------------------------------------------------------------------
Seen(s) == CASE s \in {"away", "queued"}   -> "waiting"
             [] s = "reply"                -> "coming"
             [] s = "batch"                -> "taken"
             [] s \in {"process", "push"}  -> "busy"
             [] s \in {"settled", "done"}  -> "finished"
             [] s \in {"lost", "dropped"}  -> "lost"
progress == [r \in Reqs |-> Seen(stage[r])]

\* What the loop starts it finishes, with no more than Workers at a time; of what it
\* has received it drops nothing unless stop was called.
Pool == INSTANCE WorkerPool
            WITH state <- progress, open <- loop # "returned", quit <- stopped
ImplementsPool == Pool!Spec

=============================================================================
