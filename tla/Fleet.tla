------------------------------- MODULE Fleet --------------------------------
(***************************************************************************)
(* A worker of the Node SDK and a worker of the Python SDK that pull from  *)
(* one queue of the hub.  The hub gives each request to one of them; each  *)
(* of them is stopped, fails and drains on its own.                        *)
(***************************************************************************)
EXTENDS Integers, FiniteSets

CONSTANTS
    Reqs,           \* requests
    Workers,        \* how many each worker processes at a time
    BatchSize,      \* how many it asks for
    Lossy           \* whether a call to the hub may fail

ASSUME FleetAssumption ==
    /\ IsFiniteSet(Reqs)
    /\ Workers \in Nat \ {0}
    /\ BatchSize \in Nat \ {0}
    /\ Lossy \in BOOLEAN

VARIABLES
    stopped, nodeLoop, nodeStage, activeWorkers,    \* of NodeWorker
    stop_event, pyLoop, pyStage, sem                \* of PythonWorker

nodeVars == <<stopped, nodeLoop, nodeStage, activeWorkers>>
pyVars   == <<stop_event, pyLoop, pyStage, sem>>
vars     == <<nodeVars, pyVars>>

Node   == INSTANCE NodeWorker WITH loop <- nodeLoop, stage <- nodeStage
Python == INSTANCE PythonWorker WITH loop <- pyLoop, stage <- pyStage

Queued(r) == nodeStage[r] = "queued"

\* What one worker was given is away for the other.
TypeOK ==
    /\ Node!TypeOK /\ Python!TypeOK
    /\ \A r \in Reqs : /\ Queued(r) <=> pyStage[r] = "queued"
                       /\ nodeStage[r] \in {"away", "queued"} \/ pyStage[r] = "away"

Init == Node!Init /\ Python!Init

-----------------------------------------------------------------------------
Submit(r) == Node!Submit(r) /\ Python!Submit(r)

NodePulls(S) ==
    /\ Node!PullReachesHub(S)
    /\ pyStage' = [r \in Reqs |-> IF r \in S THEN "away" ELSE pyStage[r]]
    /\ UNCHANGED <<stop_event, pyLoop, sem>>

PythonPulls(S) ==
    /\ Python!PullReachesHub(S)
    /\ nodeStage' = [r \in Reqs |-> IF r \in S THEN "away" ELSE nodeStage[r]]
    /\ UNCHANGED <<stopped, nodeLoop, activeWorkers>>

NodeStep ==
    /\ \/ Node!stop \/ Node!Poll
       \/ \E r \in Reqs : Node!Dispatch(r) \/ Node!processAndPush(r)
    /\ UNCHANGED pyVars

PythonStep ==
    /\ \/ Python!stop \/ Python!Poll \/ Python!CancelRun \/ Python!LoopEnds
       \/ \E r \in Reqs : Python!process_and_push(r)
    /\ UNCHANGED nodeVars

Next ==
    \/ NodeStep \/ PythonStep
    \/ \E r \in Reqs : Submit(r)
    \/ \E S \in SUBSET Reqs : NodePulls(S) \/ PythonPulls(S)

Spec == Init /\ [][Next]_vars

NodeLoop == (Node!Poll \/ \E r \in Reqs : Node!Dispatch(r)) /\ UNCHANGED pyVars
PythonLoop == (Python!Poll /\ UNCHANGED nodeVars) \/ \E S \in SUBSET Reqs : PythonPulls(S)

\* An event loop starves neither run nor the tasks as a whole, processors return and
\* calls to the hub end (Python's urlopen has no timeout: that is the network's part);
\* of the pulls of the Node worker, which go on, not all fail to reach the hub.  The
\* event loop of the Python worker may end at any time, before or after run is left
\* (LoopEnds): that disables its tasks, which are assumed to go on only while it does.
Fairness ==
    /\ WF_vars(NodeLoop)
    /\ SF_vars(\E S \in SUBSET Reqs : NodePulls(S))
    /\ WF_vars(\E r \in Reqs : Node!processAndPush(r) /\ UNCHANGED pyVars)
    /\ WF_vars(PythonLoop)
    /\ WF_vars(\E r \in Reqs : Python!process_and_push(r) /\ UNCHANGED nodeVars)
FairSpec == Spec /\ Fairness

-----------------------------------------------------------------------------
\* run of the Node worker resolves after stop, though a batch may wait for workers
\* and a push may fail (hub-router.ts:494).
NodeStops == stopped ~> (nodeLoop = "returned")

\* What the Python worker pulled is processed in the end (hub_router.py:476-484), also
\* when it is stopped meanwhile.  Only if run was cancelled, or left by the error of
\* a pull, may the request be given up, by a cancel of its task.
PythonProcesses ==
    \A r \in Reqs : (pyStage[r] = "task") ~>
        \/ pyStage[r] = "done"
        \/ pyStage[r] = "cancelled" /\ pyLoop \in Python!Broken

\* A queued request reaches a processor, though the Python worker may be stopped, fail
\* or be cancelled, as long as the Node worker is not stopped; but it may be in an
\* answer that is lost or unread, or in a task that is cancelled.  (A pull that fails
\* ends run of the Python worker, hub_router.py:464, and not that of the Node worker,
\* hub-router.ts:470.)
QueuedAreServed ==
    \A r \in Reqs : Queued(r) ~>
        \/ nodeStage[r] \in {"done", "lost"}
        \/ pyStage[r] \in {"done", "lost", "cancelled"}
        \/ stopped

\* Each worker keeps the promise of WorkerPool beside the other, which takes
\* requests from the queue it pulls from: it processes what it takes once and
\* within its limit, and its run returns only when all of that is finished.
NodeImplementsPool   == Node!ImplementsPool
PythonImplementsPool == Python!ImplementsPool

=============================================================================
