----------------------------- MODULE FleetProofs -----------------------------
(***************************************************************************)
(* Theorems about Fleet, for any finite set of requests, any number of     *)
(* workers and any batch size: activeWorkers and the semaphore count what  *)
(* they stand for, no request is with both workers, and each worker beside *)
(* the other is the abstract worker of WorkerPool.                         *)
(***************************************************************************)
EXTENDS Fleet, FiniteSetTheorems, TLAPS

\* The requests that one of the workers has in one of the stages S.
Among(stage, S) == {r \in Reqs : stage[r] \in S}

Moved(stage, T, s) == [r \in Reqs |-> IF r \in T THEN s ELSE stage[r]]

NodeRunning == {"process", "push", "settled"}
NodeStages == {"away", "queued", "reply", "batch", "done", "lost", "dropped"} \cup NodeRunning
PyBusy == {"process", "push"}
PyPending == {"task"} \cup PyBusy
PyStages == {"away", "queued", "reply", "done", "lost", "cancelled"} \cup PyPending
PyBroken == {"raised", "orphan", "cancelled"}

NodeTypes ==
    /\ stopped \in BOOLEAN
    /\ nodeLoop \in {"start", "pull", "reply", "pause", "batch", "drain", "returned"}
    /\ nodeStage \in [Reqs -> NodeStages]
    /\ activeWorkers = Cardinality(Among(nodeStage, NodeRunning))

PyTypes ==
    /\ stop_event \in BOOLEAN
    /\ pyLoop \in {"start", "pull", "reply", "pause", "drain", "returned"} \cup PyBroken
    /\ pyStage \in [Reqs -> PyStages]
    /\ sem = Workers - Cardinality(Among(pyStage, PyBusy))

\* A request is in the queue for both workers or for none, and with one at most.
Exclusive ==
    \A r \in Reqs : /\ nodeStage[r] = "queued" <=> pyStage[r] = "queued"
                    /\ nodeStage[r] \in {"away", "queued"} \/ pyStage[r] = "away"

\* A batch, or an answer under way, pins the loop that waits for it, or the thread
\* that run has left; and run of the Python worker returns without a task.
Pinned ==
    \A r \in Reqs : /\ nodeStage[r] = "reply" => nodeLoop = "reply"
                    /\ nodeStage[r] = "batch" => nodeLoop = "batch"
                    /\ pyStage[r] = "reply" => pyLoop \in {"reply", "cancelled"}
                    /\ pyStage[r] \in PyPending => pyLoop # "returned"

IInv == NodeTypes /\ PyTypes /\ Exclusive /\ Pinned

\* NodeTypes, PyTypes and Exclusive are TypeOK with the definitions of the two
\* workers written out.
LEMMA TypesAreTypeOK == NodeTypes /\ PyTypes /\ Exclusive => TypeOK
<1> SUFFICES ASSUME NodeTypes, PyTypes, Exclusive PROVE TypeOK
  OBVIOUS
<1>1. Node!TypeOK
  BY DEF NodeTypes, Node!TypeOK, Node!Running, NodeStages, NodeRunning, Among,
         Cardinality, Node!Cardinality
<1>2. Python!TypeOK
  <2>1. Python!At("process") \cup Python!At("push") = Among(pyStage, PyBusy)
    BY DEF Python!At, Among, PyBusy
  <2> QED
    BY <2>1 DEF PyTypes, Python!TypeOK, PyStages, PyPending, PyBusy, PyBroken, Python!Broken,
                Cardinality, Python!Cardinality
<1> QED
  BY <1>1, <1>2 DEF TypeOK, Exclusive, Queued

-----------------------------------------------------------------------------
(* Counting.                                                                *)

\* The requests in some stages are finitely many.
LEMMA AmongFinite ==
    ASSUME NEW stage, NEW S
    PROVE  /\ IsFiniteSet(Among(stage, S))
           /\ Cardinality(Among(stage, S)) \in Nat
           /\ Cardinality(Among(stage, S)) = 0 <=> Among(stage, S) = {}
<1>1. Among(stage, S) \subseteq Reqs
  BY DEF Among
<1> QED
  BY <1>1, FleetAssumption, FS_Subset, FS_EmptySet, FS_CardinalityType

\* Requests that move from outside to outside of S leave it as it is.
LEMMA MoveOutside ==
    ASSUME NEW stage, NEW S, NEW T \in SUBSET Reqs, NEW s, s \notin S,
           \A r \in T : stage[r] \notin S
    PROVE  Among(Moved(stage, T, s), S) = Among(stage, S)
BY DEF Among, Moved

\* One request that moves changes the size of S by what it enters and leaves.
LEMMA MoveOne ==
    ASSUME NEW stage, NEW S, NEW r \in Reqs, NEW s
    PROVE  Cardinality(Among(Moved(stage, {r}, s), S)) =
             Cardinality(Among(stage, S)) + (IF s \in S THEN 1 ELSE 0)
                                          - (IF stage[r] \in S THEN 1 ELSE 0)
<1> DEFINE A == Among(stage, S)
           B == Among(Moved(stage, {r}, s), S)
<1>1. IsFiniteSet(A) /\ Cardinality(A) \in Nat
  BY AmongFinite
<1>2. r \in A <=> stage[r] \in S
  BY DEF Among
<1>3. IF s \in S THEN B = A \cup {r} ELSE B = A \ {r}
  BY DEF Among, Moved
<1>4. Cardinality(A \cup {r}) = IF r \in A THEN Cardinality(A) ELSE Cardinality(A) + 1
  BY <1>1, FS_AddElement
<1>5. Cardinality(A \ {r}) = IF r \in A THEN Cardinality(A) - 1 ELSE Cardinality(A)
  BY <1>1, FS_RemoveElement
<1> HIDE DEF A, B
<1>6. Cardinality(B) = Cardinality(A) + (IF s \in S THEN 1 ELSE 0)
                                     - (IF stage[r] \in S THEN 1 ELSE 0)
  <2>1. CASE s \in S
    <3>1. Cardinality(B) = IF r \in A THEN Cardinality(A) ELSE Cardinality(A) + 1
      BY <1>3, <1>4, <2>1
    <3> QED
      BY <1>1, <1>2, <2>1, <3>1
  <2>2. CASE s \notin S
    <3>1. Cardinality(B) = IF r \in A THEN Cardinality(A) - 1 ELSE Cardinality(A)
      BY <1>3, <1>5, <2>2
    <3> QED
      BY <1>1, <1>2, <2>2, <3>1
  <2> QED
    BY <2>1, <2>2
<1> QED
  BY <1>6 DEF A, B

-----------------------------------------------------------------------------
(* The invariant.                                                           *)

\* The initial states.
LEMMA InitIInv == Init => IInv
<1> SUFFICES ASSUME Init PROVE IInv
  OBVIOUS
<1>1. nodeStage = [r \in Reqs |-> "away"] /\ pyStage = [r \in Reqs |-> "away"]
  BY DEF Init, Node!Init, Python!Init
<1>2. Among(nodeStage, NodeRunning) = {} /\ Among(pyStage, PyBusy) = {}
  BY <1>1 DEF Among, NodeRunning, PyBusy
<1>3. NodeTypes
  BY <1>1, <1>2, FS_EmptySet DEF Init, Node!Init, NodeTypes, NodeStages
<1>4. PyTypes
  <2>1. Cardinality(Among(pyStage, PyBusy)) = 0
    BY <1>2, FS_EmptySet
  <2>2. sem = Workers - Cardinality(Among(pyStage, PyBusy))
    BY <2>1, FleetAssumption DEF Init, Python!Init
  <2> QED
    BY <1>1, <2>2 DEF Init, Python!Init, PyTypes, PyStages
<1> QED
  BY <1>1, <1>3, <1>4 DEF IInv, Exclusive, Pinned, PyPending, PyBusy

\* A step of the Node worker moves nothing, or a batch outside NodeRunning, or
\* one request.
LEMMA NodeStepIInv == IInv /\ NodeStep => IInv'
<1> SUFFICES ASSUME IInv, NodeStep PROVE IInv'
  OBVIOUS
<1> USE DEF IInv, pyVars
<1>1. UNCHANGED pyVars
  BY DEF NodeStep
<1>2. PyTypes'
  BY <1>1 DEF PyTypes, Among
<1>3. CASE Node!stop \/ Node!Start \/ Node!Pause \/ Node!Return
  <2>1. /\ stopped' \in BOOLEAN /\ UNCHANGED <<nodeStage, activeWorkers>>
        /\ nodeLoop' \in {"pull", "drain", "returned"} \/ UNCHANGED nodeLoop
        /\ UNCHANGED nodeLoop \/ nodeLoop \notin {"reply", "batch"}
    BY <1>3 DEF Node!stop, Node!Start, Node!Pause, Node!Return, Node!Again, NodeTypes
  <2> QED
    BY <1>1, <1>2, <2>1 DEF NodeTypes, Exclusive, Pinned, Among
<1>4. CASE Node!PullReturns \/ Node!PullFails \/ Node!Abandon
  <2>1. PICK T \in SUBSET Reqs, s \in {"batch", "lost", "dropped"} :
          /\ nodeStage' = Moved(nodeStage, T, s)
          /\ UNCHANGED <<stopped, activeWorkers>>
          /\ \/ /\ T = {r \in Reqs : nodeStage[r] = "reply"} /\ s # "dropped"
                /\ nodeLoop' = IF s = "batch" /\ T # {} THEN "batch" ELSE "pause"
                /\ nodeLoop \in {"pull", "reply"}
             \/ /\ T = {r \in Reqs : nodeStage[r] = "batch"} /\ s = "dropped"
                /\ nodeLoop' \in {"pull", "drain"} /\ nodeLoop = "batch"
    <3>1. CASE Node!PullReturns
      BY <3>1 DEF Node!PullReturns, Node!Move, Node!At, Moved
    <3>2. CASE Node!PullFails
      BY <3>2 DEF Node!PullFails, Node!Move, Node!At, Moved
    <3>3. CASE Node!Abandon
      BY <3>3 DEF Node!Abandon, Node!Again, Node!Move, Node!At, Moved
    <3> QED
      BY <1>4, <3>1, <3>2, <3>3
  <2>2. Among(nodeStage', NodeRunning) = Among(nodeStage, NodeRunning)
    BY <2>1, MoveOutside DEF NodeRunning
  <2>3. NodeTypes'
    BY <2>1, <2>2 DEF NodeTypes, NodeStages, Moved
  <2>4. Exclusive' /\ Pinned'
    BY <1>1, <2>1 DEF NodeTypes, Exclusive, Pinned, Moved
  <2> QED
    BY <1>2, <2>3, <2>4
<1>5. ASSUME NEW r \in Reqs, Node!Dispatch(r) \/ Node!processAndPush(r) PROVE IInv'
  <2>1. PICK s \in NodeRunning \cup {"done"} :
          /\ nodeStage' = Moved(nodeStage, {r}, s)
          /\ UNCHANGED stopped
          /\ \/ /\ nodeStage[r] = "batch" /\ s = "process" /\ activeWorkers' = activeWorkers + 1
                /\ IF {q \in Reqs : nodeStage[q] = "batch"} = {r}
                   THEN nodeLoop' \in {"pull", "drain"} ELSE nodeLoop' = nodeLoop
                /\ nodeLoop = "batch"
             \/ /\ nodeStage[r] = "settled" /\ s = "done" /\ activeWorkers' = activeWorkers - 1
                /\ UNCHANGED nodeLoop
             \/ /\ nodeStage[r] \in NodeRunning /\ s \in NodeRunning
                /\ UNCHANGED <<activeWorkers, nodeLoop>>
    <3>1. CASE Node!Dispatch(r)
      BY <3>1 DEF Node!Dispatch, Node!Again, Node!Move, Node!At, Moved, NodeRunning
    <3>2. CASE Node!Process(r)
      BY <3>2 DEF Node!Process, Node!Move, Moved, NodeRunning
    <3>3. CASE Node!Push(r)
      BY <3>3 DEF Node!Push, Node!Move, Moved, NodeRunning
    <3>4. CASE Node!Finally(r)
      BY <3>4 DEF Node!Finally, Node!Move, Moved, NodeRunning
    <3> QED
      BY <1>5, <3>1, <3>2, <3>3, <3>4 DEF Node!processAndPush
  <2>2. /\ Cardinality(Among(nodeStage', NodeRunning)) =
             Cardinality(Among(nodeStage, NodeRunning)) + (IF s \in NodeRunning THEN 1 ELSE 0)
                - (IF nodeStage[r] \in NodeRunning THEN 1 ELSE 0)
        /\ Cardinality(Among(nodeStage, NodeRunning)) \in Nat
    BY <2>1, MoveOne, AmongFinite
  <2>3. activeWorkers' = Cardinality(Among(nodeStage', NodeRunning))
    BY <2>1, <2>2 DEF NodeTypes, NodeRunning
  <2>4. NodeTypes'
    BY <2>1, <2>3 DEF NodeTypes, NodeStages, NodeRunning, Moved
  <2>5. Exclusive' /\ Pinned'
    BY <1>1, <2>1 DEF NodeTypes, NodeRunning, Exclusive, Pinned, Moved
  <2> QED
    BY <1>2, <2>4, <2>5
<1> QED
  BY <1>3, <1>4, <1>5 DEF NodeStep, Node!Poll

\* The pending tasks are the requests in PyPending.
LEMMA PendingTasks == Python!pending_tasks = Among(pyStage, PyPending)
<1>1. Python!pending_tasks =
        Python!At("task") \cup Python!At("process") \cup Python!At("push")
  BY DEF Python!pending_tasks
<1> QED
  BY <1>1 DEF Python!At, Among, PyPending, PyBusy

\* A cancel moves all pending tasks or none, and run to a place in PyBroken, unless
\* it was left before.
LEMMA CancelMoves ==
    ASSUME PyTypes, Python!CancelRun \/ Python!LoopEnds
    PROVE  \E T \in SUBSET Reqs :
              /\ pyStage' = Moved(pyStage, T, "cancelled") /\ UNCHANGED stop_event
              /\ \/ T = {} /\ UNCHANGED sem
                 \/ T = Among(pyStage, PyPending) /\ sem' = Workers
              /\ IF pyLoop \in PyBroken \cup {"returned"} THEN UNCHANGED pyLoop
                 ELSE pyLoop' = IF pyLoop = "pull" THEN "orphan" ELSE "cancelled"
<1>1. /\ UNCHANGED stop_event /\ Python!leaveRun
      /\ Python!cancelTasks \/ UNCHANGED <<pyStage, sem>>
  BY DEF Python!CancelRun, Python!LoopEnds
<1>2. IF pyLoop \in PyBroken \cup {"returned"} THEN UNCHANGED pyLoop
      ELSE pyLoop' = IF pyLoop = "pull" THEN "orphan" ELSE "cancelled"
  BY <1>1 DEF Python!leaveRun, Python!Broken, PyBroken
<1>3. CASE Python!cancelTasks
  <2>1. /\ pyStage' = Moved(pyStage, Among(pyStage, PyPending), "cancelled")
        /\ sem' = Workers
    BY <1>3, PendingTasks DEF Python!cancelTasks, Python!Move, Moved
  <2>2. Among(pyStage, PyPending) \in SUBSET Reqs
    BY DEF Among
  <2> DEFINE T == Among(pyStage, PyPending)
  <2>3. /\ pyStage' = Moved(pyStage, T, "cancelled") /\ UNCHANGED stop_event
        /\ \/ T = {} /\ UNCHANGED sem
           \/ T = Among(pyStage, PyPending) /\ sem' = Workers
    BY <1>1, <2>1
  <2> HIDE DEF T
  <2> QED
    BY <1>2, <2>2, <2>3 DEF T
<1>4. CASE UNCHANGED <<pyStage, sem>>
  <2>1. pyStage' = Moved(pyStage, {}, "cancelled")
    BY <1>4 DEF PyTypes, Moved
  <2> WITNESS {} \in SUBSET Reqs
  <2> QED
    BY <1>1, <1>2, <1>4, <2>1
<1> QED
  BY <1>1, <1>3, <1>4

\* The same for the Python worker.
LEMMA PythonStepIInv == IInv /\ PythonStep => IInv'
<1> SUFFICES ASSUME IInv, PythonStep PROVE IInv'
  OBVIOUS
<1> USE DEF IInv, nodeVars
<1>1. UNCHANGED nodeVars
  BY DEF PythonStep
<1>2. NodeTypes'
  BY <1>1 DEF NodeTypes, Among
<1>3. CASE Python!stop \/ Python!Start \/ Python!Pause \/ Python!Return
  <2>1. /\ stop_event' \in BOOLEAN /\ UNCHANGED <<pyStage, sem>>
        /\ pyLoop' \in {"pull", "drain", "returned"} \/ UNCHANGED pyLoop
        /\ UNCHANGED pyLoop \/ pyLoop \notin {"reply", "cancelled"}
        /\ pyLoop' = "returned" /\ pyLoop # "returned" =>
             \A r \in Reqs : pyStage[r] \notin PyPending
    <3>1. CASE Python!stop
      BY <3>1 DEF Python!stop, PyTypes
    <3>2. CASE Python!Start
      BY <3>2 DEF Python!Start, Python!Again, PyTypes
    <3>3. CASE Python!Pause
      BY <3>3 DEF Python!Pause, Python!Again, PyTypes
    <3>4. CASE Python!Return
      BY <3>4, PendingTasks DEF Python!Return, PyTypes, Among
    <3> QED
      BY <1>3, <3>1, <3>2, <3>3, <3>4
  <2> QED
    BY <1>1, <1>2, <2>1 DEF PyTypes, Exclusive, Pinned, Among
<1>4. CASE Python!PullReturns \/ Python!PullFails \/ Python!ThreadEnds
  <2>1. PICK s \in {"task", "lost"}, l \in {"pull", "drain", "pause", "raised", "cancelled"} :
          /\ pyStage' = Moved(pyStage, {r \in Reqs : pyStage[r] = "reply"}, s)
          /\ pyLoop' = l /\ pyLoop # "returned"
          /\ UNCHANGED <<stop_event, sem>>
    <3>1. CASE Python!PullReturns
      BY <3>1 DEF Python!PullReturns, Python!Again, Python!Move, Python!At, Moved
    <3>2. CASE Python!PullFails
      BY <3>2 DEF Python!PullFails, Python!Move, Python!At, Moved
    <3>3. CASE Python!ThreadEnds
      BY <3>3 DEF Python!ThreadEnds, Python!Move, Python!At, Moved
    <3> QED
      BY <1>4, <3>1, <3>2, <3>3
  <2>2. Among(pyStage', PyBusy) = Among(pyStage, PyBusy)
    BY <2>1, MoveOutside DEF PyBusy
  <2>3. PyTypes'
    BY <2>1, <2>2 DEF PyTypes, PyStages, PyPending, PyBroken, Moved
  <2>4. Exclusive' /\ Pinned'
    BY <1>1, <2>1 DEF PyTypes, Exclusive, Pinned, PyPending, PyBusy, Moved
  <2> QED
    BY <1>2, <2>3, <2>4
<1>6. CASE Python!CancelRun \/ Python!LoopEnds
  <2>1. PICK T \in SUBSET Reqs :
          /\ pyStage' = Moved(pyStage, T, "cancelled") /\ UNCHANGED stop_event
          /\ \/ T = {} /\ UNCHANGED sem
             \/ T = Among(pyStage, PyPending) /\ sem' = Workers
          /\ IF pyLoop \in PyBroken \cup {"returned"} THEN UNCHANGED pyLoop
             ELSE pyLoop' = IF pyLoop = "pull" THEN "orphan" ELSE "cancelled"
    BY <1>6, CancelMoves
  <2>2. PyTypes'
    <3>1. CASE T = {} /\ UNCHANGED sem
      <4>1. pyStage' = pyStage
        BY <2>1, <3>1 DEF Moved, PyTypes
      <4> QED
        BY <2>1, <3>1, <4>1 DEF PyTypes, PyBroken
    <3>2. CASE T = Among(pyStage, PyPending) /\ sem' = Workers
      <4>1. Among(pyStage', PyBusy) = {}
        BY <2>1, <3>2 DEF Among, Moved, PyPending, PyBusy
      <4>2. sem' = Workers - Cardinality(Among(pyStage', PyBusy))
        BY <3>2, <4>1, FS_EmptySet, FleetAssumption
      <4> QED
        BY <2>1, <4>2 DEF PyTypes, PyStages, PyBroken, Moved
    <3> QED
      BY <2>1, <3>1, <3>2
  <2>3. \A r \in T : pyStage[r] \in PyPending
    BY <2>1 DEF Among
  <2>4. Exclusive'
    BY <1>1, <2>1, <2>3 DEF PyTypes, Exclusive, PyPending, PyBusy, Moved
  <2>5. Pinned'
    BY <1>1, <2>1, <2>3 DEF PyTypes, Pinned, PyPending, PyBusy, PyBroken, Moved
  <2> QED
    BY <1>2, <2>2, <2>4, <2>5
<1>5. ASSUME NEW r \in Reqs, Python!process_and_push(r) PROVE IInv'
  <2>1. PICK s \in PyBusy \cup {"done"} :
          /\ pyStage' = Moved(pyStage, {r}, s)
          /\ UNCHANGED <<stop_event, pyLoop>>
          /\ \/ pyStage[r] = "task" /\ s = "process" /\ sem' = sem - 1
             \/ pyStage[r] = "process" /\ s = "push" /\ sem' = sem
             \/ pyStage[r] = "push" /\ s = "done" /\ sem' = sem + 1
    BY <1>5 DEF Python!process_and_push, Python!Enter, Python!Process, Python!Push,
                Python!Move, Moved, PyBusy
  <2>2. /\ Cardinality(Among(pyStage', PyBusy)) =
             Cardinality(Among(pyStage, PyBusy)) + (IF s \in PyBusy THEN 1 ELSE 0)
                - (IF pyStage[r] \in PyBusy THEN 1 ELSE 0)
        /\ Cardinality(Among(pyStage, PyBusy)) \in Nat
    <3>1. Cardinality(Among(Moved(pyStage, {r}, s), PyBusy)) =
             Cardinality(Among(pyStage, PyBusy)) + (IF s \in PyBusy THEN 1 ELSE 0)
                - (IF pyStage[r] \in PyBusy THEN 1 ELSE 0)
      BY MoveOne
    <3>2. Cardinality(Among(pyStage, PyBusy)) \in Nat
      BY AmongFinite
    <3> QED
      BY <2>1, <3>1, <3>2
  <2>3. sem' = Workers - Cardinality(Among(pyStage', PyBusy))
    BY <2>1, <2>2, FleetAssumption DEF PyTypes, PyBusy
  <2>4. PyTypes'
    BY <2>1, <2>3 DEF PyTypes, PyStages, PyPending, PyBusy, Moved
  <2>5. Exclusive' /\ Pinned'
    BY <1>1, <2>1 DEF PyTypes, PyPending, PyBusy, Exclusive, Pinned, Moved
  <2> QED
    BY <1>2, <2>4, <2>5
<1> QED
  BY <1>3, <1>4, <1>5, <1>6 DEF PythonStep, Python!Poll

\* The steps of both: a request enters the queue, or one worker takes it out.
LEMMA SharedStepIInv ==
    ASSUME IInv, \/ \E r \in Reqs : Submit(r)
                 \/ \E S \in SUBSET Reqs : NodePulls(S) \/ PythonPulls(S)
    PROVE  IInv'
<1> USE DEF IInv
<1>1. PICK T \in SUBSET Reqs, s \in {"queued", "reply", "away"}, t \in {"queued", "reply", "away"} :
        /\ nodeStage' = Moved(nodeStage, T, s) /\ pyStage' = Moved(pyStage, T, t)
        /\ UNCHANGED <<stopped, activeWorkers, stop_event, sem>>
        /\ \/ /\ s = "queued" /\ t = "queued" /\ UNCHANGED <<nodeLoop, pyLoop>>
              /\ \A r \in T : nodeStage[r] = "away" /\ pyStage[r] = "away"
           \/ /\ s = "reply" /\ t = "away" /\ nodeLoop = "pull" /\ nodeLoop' = "reply"
              /\ UNCHANGED pyLoop
              /\ \A r \in T : nodeStage[r] = "queued"
           \/ /\ s = "away" /\ t = "reply" /\ pyLoop \in {"pull", "orphan"}
              /\ pyLoop' \in {"reply", "cancelled"}
              /\ UNCHANGED nodeLoop
              /\ \A r \in T : pyStage[r] = "queued"
  <2>1. ASSUME NEW r \in Reqs, Submit(r)
        PROVE  /\ nodeStage' = Moved(nodeStage, {r}, "queued")
               /\ pyStage' = Moved(pyStage, {r}, "queued")
               /\ nodeStage[r] = "away" /\ pyStage[r] = "away"
               /\ UNCHANGED <<stopped, activeWorkers, stop_event, sem, nodeLoop, pyLoop>>
    BY <2>1 DEF Submit, Node!Submit, Python!Submit, Node!Move, Python!Move, Moved
  <2>2. ASSUME NEW S \in SUBSET Reqs, NodePulls(S)
        PROVE  /\ nodeStage' = Moved(nodeStage, S, "reply")
               /\ pyStage' = Moved(pyStage, S, "away")
               /\ nodeLoop = "pull" /\ nodeLoop' = "reply"
               /\ \A r \in S : nodeStage[r] = "queued"
               /\ UNCHANGED <<stopped, activeWorkers, stop_event, sem, pyLoop>>
    BY <2>2 DEF NodePulls, Node!PullReachesHub, Node!Batches, Node!At, Node!Move, Moved
  <2>3. ASSUME NEW S \in SUBSET Reqs, PythonPulls(S)
        PROVE  /\ nodeStage' = Moved(nodeStage, S, "away")
               /\ pyStage' = Moved(pyStage, S, "reply")
               /\ pyLoop \in {"pull", "orphan"} /\ pyLoop' \in {"reply", "cancelled"}
               /\ \A r \in S : pyStage[r] = "queued"
               /\ UNCHANGED <<stopped, activeWorkers, stop_event, sem, nodeLoop>>
    BY <2>3 DEF PythonPulls, Python!PullReachesHub, Python!Batches, Python!At, Python!Move, Moved
  <2>4. CASE \E r \in Reqs : Submit(r)
    <3>1. PICK r \in Reqs : Submit(r)
      BY <2>4
    <3> WITNESS {r} \in SUBSET Reqs, "queued" \in {"queued", "reply", "away"},
                "queued" \in {"queued", "reply", "away"}
    <3> QED
      BY <2>1, <3>1
  <2>5. CASE \E S \in SUBSET Reqs : NodePulls(S)
    <3>1. PICK S \in SUBSET Reqs : NodePulls(S)
      BY <2>5
    <3> WITNESS S \in SUBSET Reqs, "reply" \in {"queued", "reply", "away"},
                "away" \in {"queued", "reply", "away"}
    <3> QED
      BY <2>2, <3>1
  <2>6. CASE \E S \in SUBSET Reqs : PythonPulls(S)
    <3>1. PICK S \in SUBSET Reqs : PythonPulls(S)
      BY <2>6
    <3> WITNESS S \in SUBSET Reqs, "away" \in {"queued", "reply", "away"},
                "reply" \in {"queued", "reply", "away"}
    <3> QED
      BY <2>3, <3>1
  <2> QED
    BY <2>4, <2>5, <2>6
<1>2. \A r \in T : /\ nodeStage[r] \in {"away", "queued"}
                   /\ pyStage[r] \in {"away", "queued"}
  BY <1>1 DEF Exclusive
<1>3. /\ Among(nodeStage', NodeRunning) = Among(nodeStage, NodeRunning)
      /\ Among(pyStage', PyBusy) = Among(pyStage, PyBusy)
  BY <1>1, <1>2, MoveOutside DEF NodeRunning, PyBusy
<1>4. NodeTypes' /\ PyTypes'
  BY <1>1, <1>3 DEF NodeTypes, NodeStages, PyTypes, PyStages, PyBroken, Moved
<1>5. Exclusive'
  BY <1>1, <1>2 DEF Exclusive, NodeTypes, PyTypes, Moved
<1>6. Pinned'
  BY <1>1, <1>2 DEF Pinned, NodeTypes, PyTypes, PyPending, PyBusy, Moved
<1> QED
  BY <1>4, <1>5, <1>6

\* Each step keeps the invariant.
LEMMA NextIInv == IInv /\ [Next]_vars => IInv'
<1> SUFFICES ASSUME IInv, [Next]_vars PROVE IInv'
  OBVIOUS
<1>1. CASE UNCHANGED vars
  BY <1>1 DEF vars, nodeVars, pyVars, IInv, NodeTypes, PyTypes, Exclusive, Pinned, Among
<1> QED
  BY <1>1, NodeStepIInv, PythonStepIInv, SharedStepIInv DEF Next

\* The inductive invariant holds in every reachable state.
THEOREM FleetInvariant == Spec => []IInv
BY InitIInv, NextIInv, PTL DEF Spec

\* Type correctness, and no request is ever with both workers.
THEOREM FleetTypeCorrect == Spec => []TypeOK
<1>1. IInv => TypeOK
  BY TypesAreTypeOK DEF IInv
<1> QED
  BY <1>1, FleetInvariant, PTL

-----------------------------------------------------------------------------
(* The Node worker implements WorkerPool.                                   *)

\* What the stages of a request are in WorkerPool.
LEMMA NodeProgress ==
    ASSUME NodeTypes
    PROVE  \A r \in Reqs :
              /\ Node!progress[r] = "waiting" <=> nodeStage[r] \in {"away", "queued"}
              /\ Node!progress[r] = "coming" <=> nodeStage[r] = "reply"
              /\ Node!progress[r] = "taken" <=> nodeStage[r] = "batch"
              /\ Node!progress[r] = "busy" <=> nodeStage[r] \in {"process", "push"}
              /\ Node!progress[r] = "finished" <=> nodeStage[r] \in {"settled", "done"}
              /\ Node!progress[r] = "lost" <=> nodeStage[r] \in {"lost", "dropped"}
BY DEF NodeTypes, NodeStages, NodeRunning, Node!progress, Node!Seen

\* What the abstract worker sees of each stage in the Node worker.
LEMMA NodeSeen ==
    /\ Node!Seen("away") = "waiting" /\ Node!Seen("queued") = "waiting"
    /\ Node!Seen("reply") = "coming" /\ Node!Seen("batch") = "taken"
    /\ Node!Seen("process") = "busy" /\ Node!Seen("push") = "busy"
    /\ Node!Seen("settled") = "finished" /\ Node!Seen("done") = "finished"
    /\ Node!Seen("lost") = "lost" /\ Node!Seen("dropped") = "lost"
BY DEF Node!Seen

\* Requests that move show what their new stage stands for; when that is what
\* they showed before, nothing is seen.
LEMMA NodeMoves ==
    ASSUME NEW T \in SUBSET Reqs, NEW s, nodeStage' = Moved(nodeStage, T, s)
    PROVE  /\ Node!progress' =
                [r \in Reqs |-> IF r \in T THEN Node!Seen(s) ELSE Node!progress[r]]
           /\ (\A r \in T : Node!progress[r] = Node!Seen(s)) => UNCHANGED Node!progress
<1>1. \A r \in Reqs : Node!progress'[r] = IF r \in T THEN Node!Seen(s) ELSE Node!progress[r]
  <2>1. \A r \in Reqs : nodeStage'[r] = IF r \in T THEN s ELSE nodeStage[r]
    BY DEF Moved
  <2> QED
    BY <2>1 DEF Node!progress
<1> QED
  BY <1>1 DEF Node!progress

\* What the Node worker does on its own.
LEMMA NodeStepPool ==
    IInv /\ NodeStep => Node!Pool!Next \/ UNCHANGED Node!Pool!vars
<1> SUFFICES ASSUME IInv, NodeStep PROVE Node!Pool!Next \/ UNCHANGED Node!Pool!vars
  OBVIOUS
<1> DEFINE open == nodeLoop # "returned"
<1> USE DEF IInv, Node!Pool!vars
<1>1. CASE Node!Start \/ Node!Pause
  <2>1. UNCHANGED <<nodeStage, stopped>> /\ UNCHANGED open
    BY <1>1 DEF Node!Start, Node!Pause, Node!Again
  <2> QED
    BY <2>1 DEF Node!progress
<1>8. CASE Node!stop
  <2>1. /\ stopped' = TRUE /\ UNCHANGED Node!progress /\ UNCHANGED open
    BY <1>8 DEF Node!stop, Node!progress
  <2>2. Node!progress = [r \in Reqs |-> IF r \in {} THEN "lost" ELSE Node!progress[r]]
    BY DEF Node!progress
  <2>3. Node!Pool!Quit({})
    BY <2>1, <2>2 DEF Node!Pool!Quit, Node!Pool!Move
  <2> QED
    BY <2>3 DEF Node!Pool!Next
<1>2. CASE Node!Return
  <2>1. Among(nodeStage, NodeRunning) = {}
    BY <1>2, AmongFinite DEF Node!Return, NodeTypes
  <2>2. Node!Pool!In("coming") \cup Node!Pool!In("taken") \cup Node!Pool!In("busy") = {}
    <3>1. \A r \in Reqs : nodeStage[r] \notin {"reply", "batch", "process", "push"}
      BY <1>2, <2>1 DEF Node!Return, Pinned, Among, NodeRunning
    <3> QED
      BY <3>1, NodeProgress DEF Node!Pool!In
  <2>3. UNCHANGED <<Node!progress, stopped>>
    BY <1>2 DEF Node!Return, Node!progress
  <2>4. Node!Pool!Close
    BY <1>2, <2>2, <2>3 DEF Node!Return, Node!Pool!Close
  <2> QED
    BY <2>4 DEF Node!Pool!Next
<1>3. CASE Node!PullReturns
  <2>1. /\ nodeStage' = Moved(nodeStage, Node!At("reply"), "batch")
        /\ UNCHANGED open /\ UNCHANGED stopped
    BY <1>3 DEF Node!PullReturns, Node!Move, Moved
  <2>2. /\ Node!At("reply") \in SUBSET Reqs
        /\ Node!At("reply") \subseteq Node!Pool!In("coming")
    BY NodeProgress DEF Node!At, Node!Pool!In
  <2>3. Node!progress' =
          [r \in Reqs |-> IF r \in Node!At("reply") THEN "taken" ELSE Node!progress[r]]
    BY <2>1, <2>2, NodeMoves, NodeSeen
  <2>4. Node!Pool!Receive(Node!At("reply"))
    BY <2>1, <2>2, <2>3 DEF Node!Pool!Receive, Node!Pool!Move
  <2> QED
    BY <2>2, <2>4 DEF Node!Pool!Next
<1>4. CASE Node!PullFails \/ Node!Abandon
  <2>1. PICK T \in SUBSET Reqs, s \in {"lost", "dropped"} :
          /\ nodeStage' = Moved(nodeStage, T, s)
          /\ \/ \A r \in T : nodeStage[r] = "reply"
             \/ stopped /\ \A r \in T : nodeStage[r] = "batch"
    <3>1. Node!At("reply") \in SUBSET Reqs /\ Node!At("batch") \in SUBSET Reqs
      BY DEF Node!At
    <3>2. CASE Node!PullFails
      <4>1. nodeStage' = Moved(nodeStage, Node!At("reply"), "lost")
        BY <3>2 DEF Node!PullFails, Node!Move, Moved
      <4>2. \A r \in Node!At("reply") : nodeStage[r] = "reply"
        BY DEF Node!At
      <4> QED
        BY <3>1, <4>1, <4>2
    <3>3. CASE Node!Abandon
      <4>1. nodeStage' = Moved(nodeStage, Node!At("batch"), "dropped") /\ stopped
        BY <3>3 DEF Node!Abandon, Node!Move, Moved
      <4>2. \A r \in Node!At("batch") : nodeStage[r] = "batch"
        BY DEF Node!At
      <4> QED
        BY <3>1, <4>1, <4>2
    <3> QED
      BY <1>4, <3>2, <3>3
  <2>2. UNCHANGED open /\ UNCHANGED stopped
    BY <1>4 DEF Node!PullFails, Node!Abandon, Node!Again
  <2>3. Node!progress' = [r \in Reqs |-> IF r \in T THEN "lost" ELSE Node!progress[r]]
    BY <2>1, NodeMoves, NodeSeen
  <2>4. \/ T \subseteq Node!Pool!In("coming")
        \/ stopped /\ T \subseteq Node!Pool!In("taken")
    BY <2>1, NodeProgress DEF Node!Pool!In
  <2>5. Node!Pool!Lose(T) \/ Node!Pool!Quit(T)
    BY <2>2, <2>3, <2>4 DEF Node!Pool!Lose, Node!Pool!Quit, Node!Pool!Move, NodeTypes
  <2> QED
    BY <2>5 DEF Node!Pool!Next
<1>5. ASSUME NEW r \in Reqs, Node!Dispatch(r) PROVE Node!Pool!Next
  <2>1. /\ nodeStage' = Moved(nodeStage, {r}, "process") /\ nodeStage[r] = "batch"
        /\ UNCHANGED open /\ UNCHANGED stopped
    BY <1>5 DEF Node!Dispatch, Node!Again, Node!Move, Moved
  <2>2. Node!progress' = [Node!progress EXCEPT ![r] = "busy"] /\ Node!progress[r] = "taken"
    <3>1. Node!progress' = [q \in Reqs |-> IF q \in {r} THEN "busy" ELSE Node!progress[q]]
      BY <2>1, NodeMoves, NodeSeen
    <3> QED
      BY <2>1, <3>1, NodeProgress DEF Node!progress
  <2>3. Node!Pool!Cardinality(Node!Pool!In("busy")) < Workers
    <3>1. Node!Pool!In("busy") \subseteq Among(nodeStage, NodeRunning)
      BY NodeProgress DEF Node!Pool!In, Among, NodeRunning
    <3>2. /\ Cardinality(Node!Pool!In("busy")) <= Cardinality(Among(nodeStage, NodeRunning))
          /\ Cardinality(Node!Pool!In("busy")) \in Nat
      BY <3>1, AmongFinite, FS_Subset, FS_CardinalityType
    <3>3. Cardinality(Among(nodeStage, NodeRunning)) < Workers
      BY <1>5 DEF Node!Dispatch, NodeTypes
    <3>4. Cardinality(Node!Pool!In("busy")) < Workers
      BY <3>2, <3>3, AmongFinite, FleetAssumption
    <3> QED
      BY <3>4 DEF Cardinality, Node!Pool!Cardinality
  <2>4. Node!Pool!Start(r)
    BY <2>1, <2>2, <2>3 DEF Node!Pool!Start
  <2> QED
    BY <2>4 DEF Node!Pool!Next
<1>6. ASSUME NEW r \in Reqs, Node!Push(r) PROVE Node!Pool!Next
  <2>1. /\ nodeStage' = Moved(nodeStage, {r}, "settled") /\ nodeStage[r] = "push"
        /\ UNCHANGED open /\ UNCHANGED stopped
    BY <1>6 DEF Node!Push, Node!Move, Moved
  <2>2. Node!progress' = [Node!progress EXCEPT ![r] = "finished"] /\ Node!progress[r] = "busy"
    <3>1. Node!progress' = [q \in Reqs |-> IF q \in {r} THEN "finished" ELSE Node!progress[q]]
      BY <2>1, NodeMoves, NodeSeen
    <3> QED
      BY <2>1, <3>1, NodeProgress DEF Node!progress
  <2>3. Node!Pool!Finish(r)
    BY <2>1, <2>2 DEF Node!Pool!Finish
  <2> QED
    BY <2>3 DEF Node!Pool!Next
<1>7. ASSUME NEW r \in Reqs, Node!Process(r) \/ Node!Finally(r) PROVE UNCHANGED Node!Pool!vars
  <2>1. PICK s \in {"push", "done"} :
          /\ nodeStage' = Moved(nodeStage, {r}, s)
          /\ Node!progress[r] = Node!Seen(s)
    BY <1>7, NodeProgress, NodeSeen DEF Node!Process, Node!Finally, Node!Move, Moved
  <2>2. UNCHANGED open /\ UNCHANGED stopped
    BY <1>7 DEF Node!Process, Node!Finally
  <2> QED
    BY <2>1, <2>2, NodeMoves
<1> QED
  BY <1>1, <1>2, <1>3, <1>4, <1>5, <1>6, <1>7, <1>8
     DEF NodeStep, Node!Poll, Node!processAndPush

\* Each step of the fleet is a step of one abstract worker, or not seen of it.
LEMMA NodePoolStep == IInv /\ [Next]_vars => [Node!Pool!Next]_Node!Pool!vars
<1> SUFFICES ASSUME IInv, [Next]_vars PROVE Node!Pool!Next \/ UNCHANGED Node!Pool!vars
  OBVIOUS
<1> DEFINE open == nodeLoop # "returned"
<1> USE DEF IInv, Node!Pool!vars
<1>1. CASE UNCHANGED vars \/ PythonStep
  <2>1. UNCHANGED <<nodeStage, stopped>> /\ UNCHANGED open
    BY <1>1 DEF vars, PythonStep, nodeVars
  <2> QED
    BY <2>1 DEF Node!progress
<1>2. ASSUME NEW r \in Reqs, Submit(r) PROVE UNCHANGED Node!Pool!vars
  <2>1. /\ nodeStage' = Moved(nodeStage, {r}, "queued") /\ nodeStage[r] = "away"
        /\ UNCHANGED open /\ UNCHANGED stopped
    BY <1>2 DEF Submit, Node!Submit, Node!Move, Moved
  <2>2. Node!progress[r] = "waiting"
    BY <2>1, NodeProgress
  <2> QED
    BY <2>1, <2>2, NodeMoves, NodeSeen
<1>3. ASSUME NEW S \in SUBSET Reqs, PythonPulls(S) PROVE UNCHANGED Node!Pool!vars
  <2>1. /\ nodeStage' = Moved(nodeStage, S, "away") /\ \A r \in S : pyStage[r] = "queued"
        /\ UNCHANGED open /\ UNCHANGED stopped
    BY <1>3 DEF PythonPulls, Python!PullReachesHub, Python!Batches, Python!At, Moved
  <2>2. \A r \in S : Node!progress[r] = "waiting"
    BY <2>1, NodeProgress DEF Exclusive
  <2> QED
    BY <2>1, <2>2, NodeMoves, NodeSeen
<1>4. ASSUME NEW S \in SUBSET Reqs, NodePulls(S) PROVE Node!Pool!Next
  <2>1. /\ nodeStage' = Moved(nodeStage, S, "reply") /\ \A r \in S : nodeStage[r] = "queued"
        /\ nodeLoop = "pull" /\ nodeLoop' = "reply" /\ UNCHANGED stopped
    BY <1>4 DEF NodePulls, Node!PullReachesHub, Node!Batches, Node!At, Node!Move, Moved
  <2>2. Node!progress' = [r \in Reqs |-> IF r \in S THEN "coming" ELSE Node!progress[r]]
    BY <2>1, NodeMoves, NodeSeen
  <2>3. S \subseteq Node!Pool!In("waiting")
    BY <2>1, NodeProgress DEF Node!Pool!In
  <2>4. Node!Pool!Take(S)
    BY <2>1, <2>2, <2>3 DEF Node!Pool!Take, Node!Pool!Move
  <2> QED
    BY <2>4 DEF Node!Pool!Next
<1> QED
  BY <1>1, <1>2, <1>3, <1>4, NodeStepPool DEF Next

\* Beside a Python worker that takes requests from its queue, the Node worker
\* still keeps the promise of WorkerPool: what it received it drops only when stopped.
THEOREM NodeIsWorker == Spec => NodeImplementsPool
<1>1. Init => Node!Pool!Init
  <2>1. Init => /\ Node!progress = [r \in Reqs |-> "waiting"]
                /\ (nodeLoop # "returned") = TRUE /\ stopped = FALSE
    BY NodeSeen DEF Init, Node!Init, Node!progress
  <2> QED
    BY <2>1 DEF Node!Pool!Init
<1> QED
  BY <1>1, NodePoolStep, FleetInvariant, PTL
     DEF Spec, NodeImplementsPool, Node!ImplementsPool, Node!Pool!Spec

-----------------------------------------------------------------------------
(* The Python worker implements WorkerPool.                                 *)

\* What the stages of a request are in WorkerPool.
LEMMA PyProgress ==
    ASSUME PyTypes
    PROVE  \A r \in Reqs :
              /\ Python!progress[r] = "waiting" <=> pyStage[r] \in {"away", "queued"}
              /\ Python!progress[r] = "coming" <=> pyStage[r] = "reply"
              /\ Python!progress[r] = "taken" <=> pyStage[r] = "task"
              /\ Python!progress[r] = "busy" <=> pyStage[r] \in PyBusy
              /\ Python!progress[r] = "finished" <=> pyStage[r] = "done"
              /\ Python!progress[r] = "lost" <=> pyStage[r] \in {"lost", "cancelled"}
BY DEF PyTypes, PyStages, PyPending, PyBusy, Python!progress, Python!Seen

\* What the abstract worker sees of each stage in the Python worker.
LEMMA PySeen ==
    /\ Python!Seen("away") = "waiting" /\ Python!Seen("queued") = "waiting"
    /\ Python!Seen("reply") = "coming" /\ Python!Seen("task") = "taken"
    /\ Python!Seen("process") = "busy" /\ Python!Seen("push") = "busy"
    /\ Python!Seen("done") = "finished"
    /\ Python!Seen("lost") = "lost" /\ Python!Seen("cancelled") = "lost"
BY DEF Python!Seen

\* Requests that move take the progress of the stage they move to.
LEMMA PyMoves ==
    ASSUME NEW T \in SUBSET Reqs, NEW s, pyStage' = Moved(pyStage, T, s)
    PROVE  /\ Python!progress' =
                [r \in Reqs |-> IF r \in T THEN Python!Seen(s) ELSE Python!progress[r]]
           /\ (\A r \in T : Python!progress[r] = Python!Seen(s)) => UNCHANGED Python!progress
<1>1. \A r \in Reqs :
        Python!progress'[r] = IF r \in T THEN Python!Seen(s) ELSE Python!progress[r]
  <2>1. \A r \in Reqs : pyStage'[r] = IF r \in T THEN s ELSE pyStage[r]
    BY DEF Moved
  <2> QED
    BY <2>1 DEF Python!progress
<1> QED
  BY <1>1 DEF Python!progress

\* What the Python worker does on its own.
LEMMA PyStepPool ==
    IInv /\ PythonStep => Python!Pool!Next \/ UNCHANGED Python!Pool!vars
<1> SUFFICES ASSUME IInv, PythonStep PROVE Python!Pool!Next \/ UNCHANGED Python!Pool!vars
  OBVIOUS
<1> DEFINE open == pyLoop # "returned"
           quit == pyLoop \in Python!Broken
<1> USE DEF IInv, Python!Pool!vars
<1>1. CASE Python!stop \/ Python!Start \/ Python!Pause
  <2>1. UNCHANGED pyStage /\ UNCHANGED open /\ UNCHANGED quit
    BY <1>1 DEF Python!stop, Python!Start, Python!Pause, Python!Again, Python!Broken
  <2> QED
    BY <2>1 DEF Python!progress
<1>2. CASE Python!Return
  <2>1. \A r \in Reqs : pyStage[r] \notin {"reply", "task", "process", "push"}
    BY <1>2 DEF Python!Return, Python!pending_tasks, Python!At, Pinned
  <2>2. Python!Pool!In("coming") \cup Python!Pool!In("taken") \cup Python!Pool!In("busy") = {}
    BY <2>1, PyProgress DEF PyBusy, Python!Pool!In
  <2>3. UNCHANGED Python!progress /\ UNCHANGED quit
    BY <1>2 DEF Python!Return, Python!progress, Python!Broken
  <2>4. Python!Pool!Close
    BY <1>2, <2>2, <2>3 DEF Python!Return, Python!Pool!Close
  <2> QED
    BY <2>4 DEF Python!Pool!Next
<1>3. CASE Python!PullReturns
  <2>1. /\ pyStage' = Moved(pyStage, Python!At("reply"), "task")
        /\ UNCHANGED open /\ UNCHANGED quit
    BY <1>3 DEF Python!PullReturns, Python!Again, Python!Broken, Python!Move, Moved
  <2>2. /\ Python!At("reply") \in SUBSET Reqs
        /\ Python!At("reply") \subseteq Python!Pool!In("coming")
    BY PyProgress DEF Python!At, Python!Pool!In
  <2>3. Python!progress' =
          [r \in Reqs |-> IF r \in Python!At("reply") THEN "taken" ELSE Python!progress[r]]
    BY <2>1, <2>2, PyMoves, PySeen
  <2>4. Python!Pool!Receive(Python!At("reply"))
    BY <2>1, <2>2, <2>3 DEF Python!Pool!Receive, Python!Pool!Move
  <2> QED
    BY <2>2, <2>4 DEF Python!Pool!Next
<1>4. CASE Python!PullFails \/ Python!ThreadEnds
  <2>1. /\ pyStage' = Moved(pyStage, Python!At("reply"), "lost")
        /\ UNCHANGED open /\ quit' = TRUE
    BY <1>4 DEF Python!PullFails, Python!ThreadEnds, Python!Broken, Python!Move, Moved
  <2>2. /\ Python!At("reply") \in SUBSET Reqs
        /\ Python!At("reply") \subseteq Python!Pool!In("coming")
    BY PyProgress DEF Python!At, Python!Pool!In
  <2>3. Python!progress' =
          [r \in Reqs |-> IF r \in Python!At("reply") THEN "lost" ELSE Python!progress[r]]
    BY <2>1, <2>2, PyMoves, PySeen
  <2>4. Python!Pool!Lose(Python!At("reply"))
    BY <2>1, <2>2, <2>3 DEF Python!Pool!Lose, Python!Pool!Move
  <2> QED
    BY <2>2, <2>4 DEF Python!Pool!Next
<1>8. CASE Python!CancelRun \/ Python!LoopEnds
  <2>1. PICK T \in SUBSET Reqs :
          /\ pyStage' = Moved(pyStage, T, "cancelled")
          /\ T = {} \/ T = Among(pyStage, PyPending)
          /\ IF pyLoop \in PyBroken \cup {"returned"} THEN UNCHANGED pyLoop
             ELSE pyLoop' = IF pyLoop = "pull" THEN "orphan" ELSE "cancelled"
    BY <1>8, CancelMoves
  <2>2. T \subseteq Python!Pool!In("taken") \cup Python!Pool!In("busy")
    BY <2>1, PyProgress DEF Among, PyPending, PyBusy, Python!Pool!In
  <2>3. Python!progress' = [r \in Reqs |-> IF r \in T THEN "lost" ELSE Python!progress[r]]
    BY <2>1, PyMoves, PySeen
  <2>4. CASE pyLoop = "returned"
    <3>1. T = {}
      BY <2>1, <2>4 DEF Among, Pinned
    <3>2. UNCHANGED Python!progress /\ UNCHANGED pyLoop
      BY <2>1, <2>3, <2>4, <3>1 DEF Python!progress
    <3> QED
      BY <3>2
  <2>5. CASE pyLoop # "returned"
    <3>1. quit' = TRUE /\ UNCHANGED open
      BY <2>1, <2>5 DEF PyBroken, Python!Broken
    <3>2. Python!Pool!Quit(T)
      BY <2>2, <2>3, <3>1 DEF Python!Pool!Quit, Python!Pool!Move
    <3> QED
      BY <3>2 DEF Python!Pool!Next
  <2> QED
    BY <2>4, <2>5
<1>5. ASSUME NEW r \in Reqs, Python!Enter(r) PROVE Python!Pool!Next
  <2>1. /\ pyStage' = Moved(pyStage, {r}, "process") /\ pyStage[r] = "task"
        /\ UNCHANGED open /\ UNCHANGED quit
    BY <1>5 DEF Python!Enter, Python!Move, Moved
  <2>2. Python!progress' = [Python!progress EXCEPT ![r] = "busy"] /\ Python!progress[r] = "taken"
    <3>1. Python!progress' = [q \in Reqs |-> IF q \in {r} THEN "busy" ELSE Python!progress[q]]
      BY <2>1, PyMoves, PySeen
    <3> QED
      BY <2>1, <3>1, PyProgress DEF Python!progress
  <2>3. Python!Pool!Cardinality(Python!Pool!In("busy")) < Workers
    <3>1. Python!Pool!In("busy") = Among(pyStage, PyBusy)
      BY PyProgress DEF Python!Pool!In, Among
    <3>2. Cardinality(Among(pyStage, PyBusy)) < Workers
      BY <1>5, AmongFinite, FleetAssumption DEF Python!Enter, PyTypes
    <3> QED
      BY <3>1, <3>2 DEF Cardinality, Python!Pool!Cardinality
  <2>4. Python!Pool!Start(r)
    BY <2>1, <2>2, <2>3 DEF Python!Pool!Start
  <2> QED
    BY <2>4 DEF Python!Pool!Next
<1>6. ASSUME NEW r \in Reqs, Python!Push(r) PROVE Python!Pool!Next
  <2>1. /\ pyStage' = Moved(pyStage, {r}, "done") /\ pyStage[r] = "push"
        /\ UNCHANGED open /\ UNCHANGED quit
    BY <1>6 DEF Python!Push, Python!Move, Moved
  <2>2. Python!progress' = [Python!progress EXCEPT ![r] = "finished"]
        /\ Python!progress[r] = "busy"
    <3>1. Python!progress' = [q \in Reqs |-> IF q \in {r} THEN "finished" ELSE Python!progress[q]]
      BY <2>1, PyMoves, PySeen
    <3> QED
      BY <2>1, <3>1, PyProgress DEF Python!progress, PyBusy
  <2>3. Python!Pool!Finish(r)
    BY <2>1, <2>2 DEF Python!Pool!Finish
  <2> QED
    BY <2>3 DEF Python!Pool!Next
<1>7. ASSUME NEW r \in Reqs, Python!Process(r) PROVE UNCHANGED Python!Pool!vars
  <2>1. /\ pyStage' = Moved(pyStage, {r}, "push") /\ pyStage[r] = "process"
        /\ UNCHANGED open /\ UNCHANGED quit
    BY <1>7 DEF Python!Process, Python!Move, Moved
  <2>2. Python!progress[r] = Python!Seen("push")
    BY <2>1, PyProgress, PySeen DEF PyBusy
  <2> QED
    BY <2>1, <2>2, PyMoves
<1> QED
  BY <1>1, <1>2, <1>3, <1>4, <1>5, <1>6, <1>7, <1>8
     DEF PythonStep, Python!Poll, Python!process_and_push

\* Each step is an abstract step of the Python worker, or a stutter.
LEMMA PyPoolStep == IInv /\ [Next]_vars => [Python!Pool!Next]_Python!Pool!vars
<1> SUFFICES ASSUME IInv, [Next]_vars PROVE Python!Pool!Next \/ UNCHANGED Python!Pool!vars
  OBVIOUS
<1> DEFINE open == pyLoop # "returned"
           quit == pyLoop \in Python!Broken
<1> USE DEF IInv, Python!Pool!vars
<1>1. CASE UNCHANGED vars \/ NodeStep
  <2>1. UNCHANGED pyStage /\ UNCHANGED open /\ UNCHANGED quit
    BY <1>1 DEF vars, NodeStep, pyVars
  <2> QED
    BY <2>1 DEF Python!progress
<1>2. ASSUME NEW r \in Reqs, Submit(r) PROVE UNCHANGED Python!Pool!vars
  <2>1. /\ pyStage' = Moved(pyStage, {r}, "queued") /\ pyStage[r] = "away"
        /\ UNCHANGED open /\ UNCHANGED quit
    BY <1>2 DEF Submit, Python!Submit, Python!Move, Moved
  <2>2. Python!progress[r] = "waiting"
    BY <2>1, PyProgress
  <2> QED
    BY <2>1, <2>2, PyMoves, PySeen
<1>3. ASSUME NEW S \in SUBSET Reqs, NodePulls(S) PROVE UNCHANGED Python!Pool!vars
  <2>1. /\ pyStage' = Moved(pyStage, S, "away") /\ \A r \in S : nodeStage[r] = "queued"
        /\ UNCHANGED open /\ UNCHANGED quit
    BY <1>3 DEF NodePulls, Node!PullReachesHub, Node!Batches, Node!At, Moved
  <2>2. \A r \in S : Python!progress[r] = "waiting"
    BY <2>1, PyProgress DEF Exclusive
  <2> QED
    BY <2>1, <2>2, PyMoves, PySeen
<1>4. ASSUME NEW S \in SUBSET Reqs, PythonPulls(S) PROVE Python!Pool!Next
  <2>1. /\ pyStage' = Moved(pyStage, S, "reply") /\ \A r \in S : pyStage[r] = "queued"
        /\ open /\ UNCHANGED open /\ UNCHANGED quit
    BY <1>4 DEF PythonPulls, Python!PullReachesHub, Python!Batches, Python!At, Python!Move,
                Python!Broken, Moved
  <2>2. Python!progress' = [r \in Reqs |-> IF r \in S THEN "coming" ELSE Python!progress[r]]
    BY <2>1, PyMoves, PySeen
  <2>3. S \subseteq Python!Pool!In("waiting")
    BY <2>1, PyProgress DEF Python!Pool!In
  <2>4. Python!Pool!Take(S)
    BY <2>1, <2>2, <2>3 DEF Python!Pool!Take, Python!Pool!Move
  <2> QED
    BY <2>4 DEF Python!Pool!Next
<1> QED
  BY <1>1, <1>2, <1>3, <1>4, PyStepPool DEF Next

\* Beside a Node worker the Python worker keeps the promise of WorkerPool: it gives up
\* what it received only if its run was cancelled, or left by the error of a pull.
THEOREM PythonIsWorker == Spec => PythonImplementsPool
<1>1. Init => Python!Pool!Init
  <2>1. Init => /\ Python!progress = [r \in Reqs |-> "waiting"]
                /\ (pyLoop # "returned") = TRUE /\ (pyLoop \in Python!Broken) = FALSE
    BY PySeen DEF Init, Python!Init, Python!Broken, Python!progress
  <2> QED
    BY <2>1 DEF Python!Pool!Init
<1> QED
  BY <1>1, PyPoolStep, FleetInvariant, PTL
     DEF Spec, PythonImplementsPool, Python!ImplementsPool, Python!Pool!Spec

=============================================================================
