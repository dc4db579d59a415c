---------------------------- MODULE PythonWorker ----------------------------
(***************************************************************************)
(* The worker of the Python SDK, sdks/python/hub_router.py: run polls the  *)
(* hub and makes a task of every request at once; a semaphore lets Workers *)
(* of the tasks process at a time.  An error of a pull leaves run, and so  *)
(* does a cancel of it; the event loop may end under run or its tasks.     *)
(* All of it runs on one thread, but for the calls to the hub: a step      *)
(* lasts from one await to the next.                                       *)
(*                                                                         *)
(* The hub is external: it gives a batch out once.                         *)
(***************************************************************************)
EXTENDS Integers, FiniteSets

CONSTANTS
    Reqs,           \* requests
    Workers,        \* workers
    BatchSize,      \* batch_size
    Lossy           \* whether a call to the hub may fail

VARIABLES
    stop_event,
    loop,           \* where run is
    stage,          \* how far each request has come
    sem             \* the value of the semaphore

vars == <<stop_event, loop, stage, sem>>

At(s) == {r \in Reqs : stage[r] = s}
pending_tasks == UNION {At(s) : s \in {"task", "process", "push"}}
Move(S, s) == stage' = [r \in Reqs |-> IF r \in S THEN s ELSE stage[r]]

\* The head of the while loop; no await comes before the pull.
Again == IF stop_event THEN "drain" ELSE "pull"

\* The exits of run other than its return: the error of a pull, or a cancel, which
\* may leave its pull behind ("orphan").
Broken == {"raised", "orphan", "cancelled"}

TypeOK ==
    /\ stop_event \in BOOLEAN
    /\ loop \in {"start", "pull", "reply", "pause", "drain", "returned"} \cup Broken
    /\ stage \in [Reqs -> {"away", "queued", "reply", "task", "process", "push", "done",
                           "lost", "cancelled"}]
    /\ sem = Workers - Cardinality(At("process") \cup At("push"))

Init ==
    /\ stop_event = FALSE
    /\ loop = "start"
    /\ stage = [r \in Reqs |-> "away"]
    /\ sem = Workers

-----------------------------------------------------------------------------
Submit(r) ==
    /\ stage[r] = "away"
    /\ Move({r}, "queued")
    /\ UNCHANGED <<stop_event, loop, sem>>

stop ==
    /\ ~stop_event
    /\ stop_event' = TRUE
    /\ UNCHANGED <<loop, stage, sem>>

\* The coroutine run begins.
Start ==
    /\ loop = "start"
    /\ loop' = Again
    /\ UNCHANGED <<stop_event, stage, sem>>

\* The hub takes the batch out of the queue before it answers.
Batches == {S \in SUBSET At("queued") :
                \/ Cardinality(S) = BatchSize
                \/ S = At("queued") /\ Cardinality(S) < BatchSize}

PullReachesHub(S) ==
    /\ loop \in {"pull", "orphan"}
    /\ S \in Batches
    /\ Move(S, "reply")
    /\ loop' = IF loop = "pull" THEN "reply" ELSE "cancelled"
    /\ UNCHANGED <<stop_event, sem>>

\* A task is created for every request, however many have not begun.
PullReturns ==
    /\ loop = "reply"
    /\ Move(At("reply"), "task")
    /\ loop' = IF At("reply") = {} THEN "pause" ELSE Again
    /\ UNCHANGED <<stop_event, sem>>

\* The error leaves run (which its docstring, hub_router.py:455, says blocks until
\* it is stopped).
PullFails ==
    /\ Lossy
    /\ loop \in {"pull", "reply"}
    /\ Move(At("reply"), "lost")
    /\ loop' = "raised"
    /\ UNCHANGED <<stop_event, sem>>

\* wait_for ends by the event, which breaks the loop off, or by the timeout.
Pause ==
    /\ loop = "pause"
    /\ loop' = Again
    /\ UNCHANGED <<stop_event, stage, sem>>

\* Mutant of Return: the tasks that have not begun are not gathered.
ReturnEarly ==
    /\ loop = "drain"
    /\ At("process") \cup At("push") = {}
    /\ loop' = "returned"
    /\ UNCHANGED <<stop_event, stage, sem>>

Return ==
    /\ loop = "drain"
    /\ pending_tasks = {}
    /\ loop' = "returned"
    /\ UNCHANGED <<stop_event, stage, sem>>

-----------------------------------------------------------------------------
(* Cancellation.  CancelledError is no Exception: it leaves run and tasks,  *)
(* and a task gives its place in the semaphore back.                        *)

\* The thread that asyncio.to_thread started for a pull goes on without run.
leaveRun ==
    loop' = CASE loop \in Broken \cup {"returned"} -> loop
              [] loop = "pull"                     -> "orphan"
              [] OTHER                             -> "cancelled"

cancelTasks ==
    /\ Move(pending_tasks, "cancelled")
    /\ sem' = Workers

\* The task of run is cancelled, and with it the tasks it gathers, if it does.
CancelRun ==
    /\ loop \notin Broken \cup {"returned"}
    /\ leaveRun
    /\ IF loop = "drain" THEN cancelTasks ELSE UNCHANGED <<stage, sem>>
    /\ UNCHANGED stop_event

\* asyncio.run ends with the coroutine it was given, or by its error, and cancels
\* every task that is left.
LoopEnds ==
    /\ leaveRun
    /\ cancelTasks
    /\ UNCHANGED stop_event

\* The thread of a pull that nobody waits for is through; its answer is not read.
ThreadEnds ==
    /\ \/ loop = "orphan" /\ Lossy
       \/ loop = "cancelled" /\ At("reply") # {}
    /\ Move(At("reply"), "lost")
    /\ loop' = "cancelled"
    /\ UNCHANGED <<stop_event, sem>>

-----------------------------------------------------------------------------
(* _process_and_push.                                                       *)

Enter(r) ==
    /\ stage[r] = "task"
    /\ sem > 0
    /\ sem' = sem - 1
    /\ Move({r}, "process")
    /\ UNCHANGED <<stop_event, loop>>

\* The processor returns or raises; a result is pushed either way.
Process(r) ==
    /\ stage[r] = "process"
    /\ Move({r}, "push")
    /\ UNCHANGED <<stop_event, loop, sem>>

\* Mutant of Push: a push that fails keeps its place in the semaphore.
PushKeeps(r) ==
    /\ stage[r] = "push"
    /\ sem' \in {sem + 1} \cup (IF Lossy THEN {sem} ELSE {})
    /\ Move({r}, "done")
    /\ UNCHANGED <<stop_event, loop>>

\* Whatever becomes of the push, the task leaves the semaphore.
Push(r) ==
    /\ stage[r] = "push"
    /\ sem' = sem + 1
    /\ Move({r}, "done")
    /\ UNCHANGED <<stop_event, loop>>

-----------------------------------------------------------------------------
Poll == Start \/ Pause \/ PullReturns \/ PullFails \/ Return \/ ThreadEnds
process_and_push(r) == Enter(r) \/ Process(r) \/ Push(r)

Next ==
    \/ stop \/ Poll \/ CancelRun \/ LoopEnds
    \/ \E S \in SUBSET Reqs : PullReachesHub(S)
    \/ \E r \in Reqs : Submit(r) \/ process_and_push(r)

Spec == Init /\ [][Next]_vars

-----------------------------------------------------------------------------
Seen(s) == CASE s \in {"away", "queued"}     -> "waiting"
             [] s = "reply"                  -> "coming"
             [] s = "task"                   -> "taken"
             [] s \in {"process", "push"}    -> "busy"
             [] s = "done"                   -> "finished"
             [] s \in {"lost", "cancelled"}  -> "lost"
progress == [r \in Reqs |-> Seen(stage[r])]

\* Each step of the loop and its tasks is a step of a worker that takes, processes
\* and finishes: run returns only when all is finished, and what was received is
\* given up only when run has not returned but raised or was cancelled.
Pool == INSTANCE WorkerPool
            WITH state <- progress, open <- loop # "returned", quit <- loop \in Broken
ImplementsPool == Pool!Spec

=============================================================================
