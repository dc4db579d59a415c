---------------------------- MODULE ClientProofs ----------------------------
(***************************************************************************)
(* Proofs about the Go library, pkg/client.  Of the worker loop, for any   *)
(* number of requests and workers: the semaphore and the wait group count  *)
(* the goroutines they stand for, so that no more processors run than      *)
(* allowed, Run leaves nothing behind, and every step is a step of         *)
(* WorkerPool.  Of the online client, for any calls, any MaxRetries and    *)
(* any number of WaitResults, on a network that may lose messages: CallInv *)
(* says of one call which of its GETs were answered, and who has its       *)
(* result when the store has it no more.                                   *)
(***************************************************************************)
EXTENDS LocalClient, OnlineClient, Integers, FiniteSetTheorems, TLAPS

-----------------------------------------------------------------------------
(* The worker loop, LocalClient.                                            *)

\* sem and wg count goroutines, and a batch or an answer under way pins the loop.
Counts ==
    /\ sem = Cardinality(In(HoldsSlot))
    /\ wg = Cardinality(In(Running))
Pinned ==
    /\ At("reply") # {} => loop = "reply"
    /\ At("batch") # {} => loop = "batch"
    /\ loop = "returned" => In(Running) = {}
LocalInv == LocalTypeOK /\ Counts /\ Pinned

\* A set of requests picked by their stage is finite.
LEMMA StagesFinite == \A S : /\ IsFiniteSet(In(S))
                             /\ Cardinality(In(S)) \in Nat
                             /\ Cardinality(In(S)) = 0 <=> In(S) = {}
  <1> TAKE S
  <1>1. In(S) \subseteq Reqs
    BY DEF In
  <1> QED
    BY <1>1, LocalClientAssumption, FS_Subset, FS_EmptySet, FS_CardinalityType

\* One request that moves enters or leaves each set of stages alone.
LEMMA MoveOne ==
    ASSUME NEW r \in Reqs, NEW s, NEW S, Move({r}, s)
    PROVE  /\ s \in S => In(S)' = In(S) \cup {r}
           /\ s \notin S => In(S)' = In(S) \ {r}
  BY DEF Move, In

\* ... and changes their sizes by one or not at all.
LEMMA CountOne ==
    ASSUME NEW r \in Reqs, NEW s, NEW S, Move({r}, s)
    PROVE  Cardinality(In(S))' =
             Cardinality(In(S)) + (IF s \in S THEN 1 ELSE 0)
                                - (IF stage[r] \in S THEN 1 ELSE 0)
  <1>1. r \in In(S) <=> stage[r] \in S
    BY DEF In
  <1>2. /\ IsFiniteSet(In(S))
        /\ Cardinality(In(S)) \in Nat
    BY StagesFinite
  <1>3. CASE s \in S
    <2>1. In(S)' = In(S) \cup {r}
      BY <1>3, MoveOne
    <2>2. Cardinality(In(S) \cup {r}) =
            IF r \in In(S) THEN Cardinality(In(S)) ELSE Cardinality(In(S)) + 1
      BY <1>2, FS_AddElement
    <2> QED
      BY <1>1, <1>2, <1>3, <2>1, <2>2
  <1>4. CASE s \notin S
    <2>1. In(S)' = In(S) \ {r}
      BY <1>4, MoveOne
    <2>2. Cardinality(In(S) \ {r}) =
            IF r \in In(S) THEN Cardinality(In(S)) - 1 ELSE Cardinality(In(S))
      BY <1>2, FS_RemoveElement
    <2> QED
      BY <1>1, <1>2, <1>4, <2>1, <2>2
  <1> QED
    BY <1>3, <1>4

\* A batch that moves between stages outside a set leaves the set alone.
LEMMA MoveOutside ==
    ASSUME NEW T \in SUBSET Reqs, NEW s, NEW S, Move(T, s),
           s \notin S, \A r \in T : stage[r] \notin S
    PROVE  In(S)' = In(S)
  BY DEF Move, In

-----------------------------------------------------------------------------
\* The initial states.
LEMMA LocalInvInit == LocalInit => LocalInv
  <1> SUFFICES ASSUME LocalInit PROVE LocalInv
    OBVIOUS
  <1>1. In(HoldsSlot) = {} /\ In(Running) = {} /\ At("reply") = {} /\ At("batch") = {}
    BY DEF LocalInit, In, At, HoldsSlot, Running, Processing
  <1>2. Counts
    BY <1>1, FS_EmptySet DEF LocalInit, Counts
  <1>3. LocalTypeOK
    <2>1. 0 \in 0..Workers
      BY LocalClientAssumption
    <2>2. stage \in [Reqs -> {"away", "queued", "reply", "batch", "done", "lost"} \cup Running]
      BY DEF LocalInit
    <2> QED
      BY <2>1, <2>2 DEF LocalInit, LocalTypeOK
  <1> QED
    BY <1>1, <1>2, <1>3 DEF LocalInit, LocalInv, Pinned

\* Every step keeps the types and the order of the loop.
LEMMA StepTypeOK == LocalInv /\ [LocalNext]_localVars => LocalTypeOK'
  <1> SUFFICES ASSUME LocalInv, [LocalNext]_localVars PROVE LocalTypeOK'
    OBVIOUS
  <1> USE DEF LocalInv, LocalTypeOK
  <1>1. CASE Cancel \/ Poll
    BY <1>1 DEF Cancel, Poll, Check, Pause, PullReturns, PullFails, RunReturns, Move
  <1>2. CASE \E S \in SUBSET Reqs : PullReachesHub(S)
    BY <1>2 DEF PullReachesHub, Move
  <1>3. ASSUME NEW r \in Reqs, Submit(r) \/ Dispatch(r) PROVE LocalTypeOK'
    BY <1>3, LocalClientAssumption
    DEF Submit, Dispatch, Move, HoldsSlot, Running, Processing
  <1>4. ASSUME NEW r \in Reqs, process(r) \/ PushResult(r) \/ PushFails(r) PROVE LocalTypeOK'
    BY <1>4 DEF process, PushResult, PushFails, Move, HoldsSlot, Running, Processing
  <1>5. ASSUME NEW r \in Reqs, Release(r) \/ Leave(r) PROVE LocalTypeOK'
    <2>1. /\ Release(r) => In(HoldsSlot) # {}
          /\ Leave(r) => In(Running) # {}
      BY DEF Release, Leave, In, HoldsSlot, Running, Processing
    <2>2. /\ sem = Cardinality(In(HoldsSlot)) /\ sem \in Nat
          /\ wg = Cardinality(In(Running)) /\ wg \in Nat
      BY LocalClientAssumption DEF Counts
    <2>3. (Release(r) => sem # 0) /\ (Leave(r) => wg # 0)
      BY <2>1, <2>2, StagesFinite
    <2> QED
      BY <1>5, <2>2, <2>3, LocalClientAssumption
      DEF Release, Leave, Move, HoldsSlot, Running, Processing
  <1>6. CASE UNCHANGED localVars
    BY <1>6 DEF localVars
  <1> QED
    BY <1>1, <1>2, <1>3, <1>4, <1>5, <1>6 DEF LocalNext, Goroutine

\* Every step keeps the counters equal to what they count.
LEMMA StepCounts == LocalInv /\ [LocalNext]_localVars => Counts'
  <1> SUFFICES ASSUME LocalInv, [LocalNext]_localVars PROVE Counts'
    OBVIOUS
  <1>1. CASE \/ Cancel \/ Check \/ Pause \/ RunReturns \/ UNCHANGED localVars
    BY <1>1 DEF Cancel, Check, Pause, RunReturns, In, localVars, LocalInv, Counts
  <1>2. CASE PullReturns \/ PullFails \/ \E S \in SUBSET Reqs : PullReachesHub(S)
    <2>1. \E T \in SUBSET Reqs : \E s \in {"reply", "batch", "lost"} :
             /\ Move(T, s)
             /\ \A r \in T : stage[r] \in {"queued", "reply"}
      BY <1>2 DEF PullReturns, PullFails, PullReachesHub, Batches, At, In
    <2>2. In(HoldsSlot)' = In(HoldsSlot) /\ In(Running)' = In(Running)
      BY <2>1, MoveOutside DEF HoldsSlot, Running, Processing
    <2> QED
      BY <1>2, <2>2 DEF PullReturns, PullFails, PullReachesHub, LocalInv, Counts
  <1>3. ASSUME NEW r \in Reqs, Submit(r) \/ Dispatch(r) \/ Goroutine(r) PROVE Counts'
    <2>1. PICK s : Move({r}, s) /\ \/ Submit(r) /\ s = "queued"
                                   \/ Dispatch(r) /\ s = "process"
                                   \/ process(r) /\ s = "push"
                                   \/ PushResult(r) /\ s = "exit"
                                   \/ PushFails(r) /\ s = "exit"
                                   \/ Release(r) /\ s = "leave"
                                   \/ Leave(r) /\ s = "done"
      BY <1>3 DEF Goroutine, Submit, Dispatch, process, PushResult, PushFails, Release, Leave
    <2>2. Cardinality(In(HoldsSlot))' =
             Cardinality(In(HoldsSlot)) + (IF s \in HoldsSlot THEN 1 ELSE 0)
                                        - (IF stage[r] \in HoldsSlot THEN 1 ELSE 0)
      BY <2>1, CountOne
    <2>3. Cardinality(In(Running))' =
             Cardinality(In(Running)) + (IF s \in Running THEN 1 ELSE 0)
                                      - (IF stage[r] \in Running THEN 1 ELSE 0)
      BY <2>1, CountOne
    <2>4. Cardinality(In(HoldsSlot)) \in Nat /\ Cardinality(In(Running)) \in Nat
      BY StagesFinite
    <2>5. sem = Cardinality(In(HoldsSlot)) /\ wg = Cardinality(In(Running))
      BY DEF LocalInv, Counts
    <2>6. sem' = Cardinality(In(HoldsSlot))' /\ wg' = Cardinality(In(Running))'
      BY <2>1, <2>2, <2>3, <2>4, <2>5
      DEF Submit, Dispatch, process, PushResult, PushFails, Release, Leave,
          HoldsSlot, Running, Processing
    <2> QED
      BY <2>6 DEF Counts
  <1> QED
    BY <1>1, <1>2, <1>3 DEF LocalNext, Poll

\* Every step keeps the loop where its batch is.
LEMMA StepPinned == LocalInv /\ [LocalNext]_localVars => Pinned'
  <1> SUFFICES ASSUME LocalInv, [LocalNext]_localVars PROVE Pinned'
    OBVIOUS
  <1> USE DEF LocalInv, LocalTypeOK, Pinned, At, In, Running, HoldsSlot, Processing
  <1>1. CASE Cancel \/ Check \/ Pause \/ UNCHANGED localVars
    BY <1>1 DEF Cancel, Check, Pause, localVars
  <1>2. CASE RunReturns
    <2>1. In(Running) = {}
      BY <1>2, StagesFinite DEF RunReturns, Counts
    <2> QED
      BY <1>2, <2>1 DEF RunReturns
  <1>3. CASE PullReturns \/ PullFails \/ \E S \in SUBSET Reqs : PullReachesHub(S)
    BY <1>3 DEF PullReturns, PullFails, PullReachesHub, Move, Batches
  <1>4. ASSUME NEW r \in Reqs, Submit(r) \/ Dispatch(r) PROVE Pinned'
    BY <1>4 DEF Submit, Dispatch, Move
  <1>5. ASSUME NEW r \in Reqs, Goroutine(r) PROVE Pinned'
    BY <1>5 DEF Goroutine, process, PushResult, PushFails, Release, Leave, Move
  <1> QED
    BY <1>1, <1>2, <1>3, <1>4, <1>5 DEF LocalNext, Poll

\* sem and wg count the goroutines of Run in every reachable state.
THEOREM LocalInvariant == LocalSpec => []LocalInv
  <1>1. LocalInv /\ [LocalNext]_localVars => LocalInv'
    BY StepTypeOK, StepCounts, StepPinned DEF LocalInv
  <1> QED
    BY LocalInvInit, <1>1, PTL DEF LocalSpec

\* The types hold: sem stays within its capacity and wg never goes below zero
\* (local.go:67-68, a negative counter of a WaitGroup panics).
THEOREM LocalTypeCorrect == LocalSpec => []LocalTypeOK
  <1>1. LocalInv => LocalTypeOK
    BY DEF LocalInv
  <1> QED
    BY LocalInvariant, <1>1, PTL

\* Processors run within opts.Workers.
LEMMA SlotsBoundProcessors == LocalInv => WithinWorkers
  <1> SUFFICES ASSUME LocalInv PROVE WithinWorkers
    OBVIOUS
  <1>1. In(Processing) \subseteq In(HoldsSlot)
    BY DEF In, HoldsSlot
  <1>2. Cardinality(In(Processing)) <= Cardinality(In(HoldsSlot))
    BY <1>1, StagesFinite, FS_Subset
  <1> QED
    BY <1>2, StagesFinite, LocalClientAssumption DEF LocalInv, LocalTypeOK, Counts, WithinWorkers

\* No more processors run at a time than opts.Workers.
THEOREM ConcurrencyBounded == LocalSpec => []WithinWorkers
  BY LocalInvariant, SlotsBoundProcessors, PTL

\* When Run returns, all it took has been processed and no goroutine is left.
THEOREM RunLeavesNothing == LocalSpec => []NothingLeftBehind
  <1>1. LocalInv => NothingLeftBehind
    BY DEF LocalInv, LocalTypeOK, Pinned, NothingLeftBehind, At, In, Running, HoldsSlot, Processing
  <1> QED
    BY LocalInvariant, <1>1, PTL

-----------------------------------------------------------------------------
(* The refinement of WorkerPool.                                            *)

\* What progress says of each stage.
LEMMA ProgressOf ==
    ASSUME LocalTypeOK
    PROVE  \A r \in Reqs :
              /\ progress[r] = "waiting" <=> stage[r] \in {"away", "queued"}
              /\ progress[r] = "coming" <=> stage[r] = "reply"
              /\ progress[r] = "taken" <=> stage[r] = "batch"
              /\ progress[r] = "busy" <=> stage[r] \in Processing
              /\ progress[r] = "finished" <=> stage[r] \in {"exit", "leave", "done"}
              /\ progress[r] = "lost" <=> stage[r] = "lost"
  BY DEF LocalTypeOK, progress, Seen, Running, HoldsSlot, Processing

\* Requests that move take the progress of the stage they move to.
LEMMA ProgressMoves ==
    ASSUME LocalTypeOK, LocalTypeOK', NEW T \in SUBSET Reqs, NEW s, NEW p, Move(T, s),
           \/ s \in {"away", "queued"} /\ p = "waiting"
           \/ s = "reply" /\ p = "coming"
           \/ s = "batch" /\ p = "taken"
           \/ s \in Processing /\ p = "busy"
           \/ s \in {"exit", "leave", "done"} /\ p = "finished"
           \/ s = "lost" /\ p = "lost"
    PROVE  progress' = [r \in Reqs |-> IF r \in T THEN p ELSE progress[r]]
  <1>1. \A r \in Reqs : r \in T => progress'[r] = p
    BY DEF Move, progress, Seen, Processing
  <1>2. \A r \in Reqs : r \notin T => progress'[r] = progress[r]
    BY DEF Move, progress
  <1>3. progress' = [r \in Reqs |-> progress'[r]]
    BY DEF progress
  <1> QED
    BY <1>1, <1>2, <1>3

\* The abstract initial state.
LEMMA InitPool == LocalInit => Pool!Init
  <1> SUFFICES ASSUME LocalInit PROVE Pool!Init
    OBVIOUS
  <1>1. progress = [r \in Reqs |-> Seen("away")]
    BY DEF LocalInit, progress
  <1>2. Seen("away") = "waiting"
    BY DEF Seen, Processing
  <1> QED
    BY <1>1, <1>2 DEF LocalInit, Pool!Init

\* Each step is an abstract step or a stutter.
LEMMA StepPool == LocalInv /\ LocalInv' /\ [LocalNext]_localVars => [Pool!Next]_Pool!vars
  <1> SUFFICES ASSUME LocalInv, LocalInv', [LocalNext]_localVars PROVE [Pool!Next]_Pool!vars
    OBVIOUS
  <1>0. LocalTypeOK /\ LocalTypeOK'
    BY DEF LocalInv
  <1> USE DEF Pool!vars
  <1>1. CASE Cancel \/ Check \/ Pause \/ UNCHANGED localVars
    <2>1. UNCHANGED stage /\ ((loop # "returned")' <=> loop # "returned")
      BY <1>0, <1>1 DEF Cancel, Check, Pause, localVars
    <2> QED
      BY <2>1 DEF progress
  <1>2. CASE RunReturns
    <2>1. Pool!In("coming") \cup Pool!In("taken") \cup Pool!In("busy") = {}
      <3>1. \A r \in Reqs : stage[r] \notin {"reply", "batch"} \cup Processing
        BY <1>2, StagesFinite
        DEF RunReturns, LocalInv, Counts, Pinned, In, At, Running, HoldsSlot
      <3> QED
        BY <1>0, <3>1, ProgressOf DEF Pool!In
    <2>2. UNCHANGED progress
      BY <1>2 DEF RunReturns, progress
    <2>3. Pool!Close
      BY <1>2, <2>1, <2>2 DEF RunReturns, Pool!Close
    <2> QED
      BY <2>3 DEF Pool!Next
  <1>3. ASSUME NEW S \in SUBSET Reqs, PullReachesHub(S) PROVE Pool!Next
    <2>1. progress' = [r \in Reqs |-> IF r \in S THEN "coming" ELSE progress[r]]
      BY <1>0, <1>3, ProgressMoves DEF PullReachesHub
    <2>2. S \subseteq Pool!In("waiting")
      BY <1>0, <1>3, ProgressOf DEF PullReachesHub, Batches, Pool!In, At, In
    <2>3. Pool!Take(S)
      BY <1>3, <2>1, <2>2 DEF PullReachesHub, Pool!Take, Pool!Move
    <2> QED
      BY <2>3 DEF Pool!Next
  <1>4. CASE PullReturns
    <2>1. At("reply") \subseteq Reqs
      BY DEF At, In
    <2>2. progress' = [r \in Reqs |-> IF r \in At("reply") THEN "taken" ELSE progress[r]]
      BY <1>0, <1>4, <2>1, ProgressMoves DEF PullReturns
    <2>3. At("reply") \subseteq Pool!In("coming")
      BY <1>0, ProgressOf DEF At, In, Pool!In
    <2>4. Pool!Receive(At("reply"))
      BY <1>4, <2>2, <2>3 DEF PullReturns, Pool!Receive, Pool!Move
    <2> QED
      BY <2>1, <2>4 DEF Pool!Next
  <1>5. CASE PullFails
    <2>1. At("reply") \in SUBSET Reqs
      BY DEF At, In
    <2>2. progress' = [r \in Reqs |-> IF r \in At("reply") THEN "lost" ELSE progress[r]]
      BY <1>0, <1>5, <2>1, ProgressMoves DEF PullFails
    <2>3. At("reply") \subseteq Pool!In("coming")
      BY <1>0, ProgressOf DEF At, In, Pool!In
    <2>4. UNCHANGED (loop # "returned")
      BY <1>5 DEF PullFails
    <2>5. Pool!Lose(At("reply"))
      BY <2>2, <2>3, <2>4 DEF Pool!Lose, Pool!Move
    <2> QED
      BY <2>1, <2>5 DEF Pool!Next
  <1>6. ASSUME NEW r \in Reqs, Submit(r) \/ Dispatch(r) \/ Goroutine(r)
        PROVE  [Pool!Next]_Pool!vars
    <2> DEFINE To(p) == progress' = [progress EXCEPT ![r] = p]
    <2>1. ASSUME NEW s, NEW p, Move({r}, s),
                 \/ s \in {"away", "queued"} /\ p = "waiting"
                 \/ s \in Processing /\ p = "busy"
                 \/ s \in {"exit", "leave", "done"} /\ p = "finished"
          PROVE  To(p)
      <3>1. /\ {r} \in SUBSET Reqs
            /\ \/ s \in {"away", "queued"} /\ p = "waiting"
               \/ s = "reply" /\ p = "coming"
               \/ s = "batch" /\ p = "taken"
               \/ s \in Processing /\ p = "busy"
               \/ s \in {"exit", "leave", "done"} /\ p = "finished"
               \/ s = "lost" /\ p = "lost"
        BY <1>6, <2>1
      <3>2. progress' = [q \in Reqs |-> IF q \in {r} THEN p ELSE progress[q]]
        BY <1>0, <2>1, <3>1, ProgressMoves, Zenon
      <3> QED
        BY <3>2 DEF progress
    <2>2. UNCHANGED (loop # "returned")
      BY <1>6 DEF Submit, Dispatch, Goroutine, process, PushResult, PushFails, Release, Leave
    <2>3. CASE Submit(r)
      <3>1. To("waiting") /\ progress[r] = "waiting"
        BY <1>0, <1>6, <2>1, <2>3, ProgressOf DEF Submit
      <3> QED
        BY <2>2, <3>1 DEF progress
    <2>4. CASE Dispatch(r)
      <3>1. To("busy") /\ progress[r] = "taken"
        BY <1>0, <1>6, <2>1, <2>4, ProgressOf DEF Dispatch, Processing
      <3>2. Pool!In("busy") = In(Processing)
        BY <1>0, ProgressOf DEF Pool!In, In
      <3>3. In(Processing) \subseteq In(HoldsSlot)
        BY DEF In, HoldsSlot
      <3>4. Cardinality(In(Processing)) <= sem
        BY <3>3, StagesFinite, FS_Subset DEF LocalInv, Counts
      <3>5. Cardinality(In(Processing)) < Workers
        BY <1>0, <2>4, <3>4, StagesFinite, LocalClientAssumption DEF Dispatch, LocalTypeOK
      <3>6. Pool!Cardinality(Pool!In("busy")) < Workers
        BY <3>2, <3>5 DEF Cardinality, Pool!Cardinality
      <3>7. Pool!Start(r)
        BY <2>2, <3>1, <3>6 DEF Pool!Start
      <3> QED
        BY <1>6, <3>7 DEF Pool!Next
    <2>5. CASE process(r)
      <3>1. To("busy") /\ progress[r] = "busy"
        BY <1>0, <1>6, <2>1, <2>5, ProgressOf DEF process, Processing
      <3> QED
        BY <2>2, <3>1 DEF progress
    <2>6. CASE PushResult(r) \/ PushFails(r)
      <3>1. To("finished") /\ progress[r] = "busy"
        BY <1>0, <1>6, <2>1, <2>6, ProgressOf DEF PushResult, PushFails, Processing
      <3>2. Pool!Finish(r)
        BY <2>2, <3>1 DEF Pool!Finish
      <3> QED
        BY <1>6, <3>2 DEF Pool!Next
    <2>7. CASE Release(r) \/ Leave(r)
      <3>1. To("finished") /\ progress[r] = "finished"
        BY <1>0, <1>6, <2>1, <2>7, ProgressOf DEF Release, Leave
      <3> QED
        BY <2>2, <3>1 DEF progress
    <2> QED
      BY <1>6, <2>3, <2>4, <2>5, <2>6, <2>7 DEF Goroutine
  <1> QED
    BY <1>1, <1>2, <1>3, <1>4, <1>5, <1>6 DEF LocalNext, Poll

\* The worker loop implements WorkerPool: each request is lost on the way or
\* processed once, within the bound, and Run returns with nothing unfinished.
THEOREM LocalImplementsPool == LocalSpec => ImplementsPool
  <1>1. LocalInit => Pool!Init
    BY InitPool
  <1>2. LocalInv /\ LocalInv' /\ [LocalNext]_localVars => [Pool!Next]_Pool!vars
    BY StepPool
  <1> QED
    BY <1>1, <1>2, LocalInvariant, PTL DEF LocalSpec, ImplementsPool, Pool!Spec

-----------------------------------------------------------------------------
(* The online client, OnlineClient.                                         *)

V(c, n) == verdict[<<c, n>>]

\* A call has sent no GET before its POST was answered, and is told 202 before
\* it sends one; 200 and 202 are for a request that was queued.
Posts(c) ==
    /\ pc[c] \in {"start", "post"} => polls[c] = 0 /\ attempt[c] = 0
    /\ polls[c] > 0 \/ pc[c] \in {"idle", "poll", "get"} => told[c] = "202"
    /\ told[c] \in {"200", "202"} => status[c] \notin {"new", "refused"}

\* A result that left the store without expiring went to the POST or to a GET.
Handed(c) ==
    c \in resolved /\ c \notin kept \cup swept =>
        told[c] = "200" \/ \E n \in 1..polls[c] : V(c, n) = "result"

\* The client goes on only after an answer it can go on from, or a lost one.
GoesOn(c) ==
    \A n \in 1..polls[c] :
        /\ n < polls[c] \/ pc[c] \in {"idle", "poll"} =>
              V(c, n) \in {"later", "unknown"} \/ c \in failed
        /\ pc[c] = "done" => V(c, n) # "none" \/ c \in failed

\* What the loop counter of WaitResult counts.
Attempts(c) ==
    /\ pc[c] = "poll" => /\ attempt[c] <= polls[c]
                         /\ \A n \in (polls[c] - attempt[c] + 1)..polls[c] : V(c, n) = "later"
    /\ pc[c] = "get" => /\ attempt[c] <= MaxRetries /\ attempt[c] < polls[c]
                        /\ \A n \in (polls[c] - attempt[c])..(polls[c] - 1) : V(c, n) = "later"

Unknowns(c) ==
    /\ \A n \in 1..MaxPolls : V(c, n) = "unknown" => c \in failed \cup swept \cup overdue
    /\ ret[c] = "unknown" => c \in failed \cup swept \cup overdue

Exhausted(c) ==
    ret[c] = "exhausted" =>
        \/ pc[c] \in {"poll", "get"}
        \/ /\ polls[c] > MaxRetries
           /\ \A n \in (polls[c] - MaxRetries)..polls[c] : V(c, n) = "later"

CallInv(c) ==
    Posts(c) /\ Handed(c) /\ GoesOn(c) /\ Attempts(c) /\ Unknowns(c) /\ Exhausted(c)

HubTypes ==
    /\ status \in [Calls -> {"new", "queued", "taken", "lapsed", "refused"}]
    /\ overdue \in SUBSET Calls /\ resolved \in SUBSET Calls
    /\ told \in [Calls -> {"none", "200", "202", "500", "503"}]
    /\ verdict \in [Polls -> {"none", "result", "unknown", "later"}]

IInv == TypeOK /\ HubTypes /\ \A c \in Calls : CallInv(c)

-----------------------------------------------------------------------------
\* The bound on polls is a natural number.
LEMMA MaxPollsNat == MaxPolls \in Nat
BY OnlineClientAssumption DEF MaxPolls

\* A GET that a call has sent is one of Polls.
LEMMA PollOf ==
    ASSUME TypeOK, NEW c \in Calls
    PROVE  /\ polls[c] \in 0..MaxPolls /\ polls[c] \in Nat
           /\ \A n \in 1..MaxPolls : <<c, n>> \in Polls
           /\ \A n \in 1..polls[c] : n \in 1..MaxPolls
BY MaxPollsNat DEF TypeOK, Polls

\* The initial states.
LEMMA InitIInv == Init => IInv
<1> SUFFICES ASSUME Init PROVE IInv
  OBVIOUS
<1> USE OnlineClientAssumption, MaxPollsNat DEF Init, Hub!Init
<1>1. TypeOK
  BY DEF TypeOK, Errors
<1>2. HubTypes
  BY DEF HubTypes
<1>3. ASSUME NEW c \in Calls PROVE CallInv(c)
  <2>1. \A n \in 1..MaxPolls : V(c, n) = "none"
    BY DEF V, Polls
  <2>2. polls[c] = 0 /\ pc[c] = "start" /\ attempt[c] = 0 /\ ret[c] = "none"
        /\ status[c] = "new" /\ told[c] = "none"
    OBVIOUS
  <2> QED
    BY <2>1, <2>2 DEF CallInv, Posts, Handed, GoesOn, Attempts, Unknowns, Exhausted
<1> QED
  BY <1>1, <1>2, <1>3 DEF IInv

-----------------------------------------------------------------------------
(* Steps of the hub.                                                        *)

\* What a step of the hub does for the call c.
HubMoves(c) ==
    \/ HubQueues(c) \/ HubWorks(c) \/ HubExpires(c) \/ HubStores(c)
    \/ HubSweeps(c) \/ HubTells(c) \/ HubReads(c)

\* A step of the hub keeps the types.
LEMMA HubKeepsTypes == ASSUME TypeOK, HubTypes, NEW c \in Calls, HubMoves(c)
                       PROVE  TypeOK' /\ HubTypes'
<1> USE DEF HubTypes, client
<1>1. UNCHANGED client
  BY DEF HubMoves, HubQueues, HubWorks, HubExpires, HubStores, HubSweeps, HubTells, HubReads
<1>2. swept' \in {swept, swept \cup {c}} /\ kept' \in {kept, kept \cup {c}, kept \ {c}}
  BY DEF HubMoves, HubQueues, HubWorks, HubExpires, HubStores, HubSweeps, HubTells, HubReads, Hand
<1>3. HubTypes'
  BY DEF HubMoves, HubQueues, HubWorks, HubExpires, HubStores, HubSweeps, HubTells, HubReads,
         Hub!Enqueue, Hub!HandOut, Hub!Lapse, Hub!Advance, Hub!Expire, Hub!Resolve,
         Hub!Refuse, Hub!Tell, Hub!Read
<1>4. kept' \subseteq resolved'
  <2>1. CASE HubStores(c)
    BY <2>1 DEF HubStores, Hub!Resolve, TypeOK
  <2>2. CASE ~HubStores(c)
    <3>1. UNCHANGED resolved /\ kept' \subseteq kept
      BY <2>2 DEF HubMoves, HubQueues, HubWorks, HubExpires, HubSweeps, HubTells, HubReads, Hand,
             Hub!Enqueue, Hub!HandOut, Hub!Lapse, Hub!Advance, Hub!Expire, Hub!Refuse,
             Hub!Tell, Hub!Read
    <3> QED
      BY <3>1 DEF TypeOK
  <2> QED
    BY <2>1, <2>2
<1> QED
  BY <1>1, <1>2, <1>3, <1>4 DEF TypeOK

\* Only the read of a GET that was not answered changes a verdict.
LEMMA HubKeepsCall ==
    ASSUME TypeOK, HubTypes, NEW c \in Calls, HubMoves(c), CallInv(c)
    PROVE  CallInv(c)'
<1> USE DEF CallInv
<1>1. /\ UNCHANGED <<pc, polls, attempt, ret, failed>>
      /\ swept \subseteq swept' /\ overdue \subseteq overdue'
  BY DEF HubMoves, HubQueues, HubWorks, HubExpires, HubStores, HubSweeps, HubTells, HubReads, client,
         Hub!Enqueue, Hub!HandOut, Hub!Lapse, Hub!Advance, Hub!Expire, Hub!Resolve,
         Hub!Refuse, Hub!Tell, Hub!Read
<1>2. polls[c] \in Nat /\ polls[c] \in 0..MaxPolls /\ MaxPolls \in Nat
  BY PollOf, MaxPollsNat
<1>3. CASE HubQueues(c) \/ HubWorks(c) \/ HubExpires(c) \/ HubStores(c)
  <2>1. /\ UNCHANGED verdict
        /\ told[c] \in {"200", "202"} =>
              told'[c] = told[c] /\ status'[c] \notin {"new", "refused"}
        /\ told[c] \notin {"200", "202"} => told'[c] \notin {"200", "202"}
        /\ c \in resolved' /\ c \notin kept' => c \in resolved /\ c \notin kept
    BY <1>3 DEF HubQueues, HubWorks, HubExpires, HubStores, Hub!Enqueue, Hub!HandOut, Hub!Lapse,
           Hub!Advance, Hub!Expire, Hub!Resolve, Hub!Refuse, HubTypes, Posts
  <2>2. Posts(c)' /\ Handed(c)'
    BY <1>1, <2>1 DEF Posts, Handed, V
  <2>3. GoesOn(c)' /\ Attempts(c)'
    BY <1>1, <2>1 DEF GoesOn, Attempts, V
  <2>4. Unknowns(c)' /\ Exhausted(c)'
    BY <1>1, <2>1 DEF Unknowns, Exhausted, V
  <2> QED
    BY <2>2, <2>3, <2>4
<1>4. CASE HubSweeps(c)
  <2>1. UNCHANGED <<status, resolved, told, verdict>> /\ c \in swept'
    BY <1>4 DEF HubSweeps
  <2> QED
    BY <1>1, <2>1 DEF Posts, Handed, GoesOn, Attempts, Unknowns, Exhausted, V
<1>5. CASE HubTells(c)
  <2>1. /\ UNCHANGED <<status, resolved, verdict, swept>> /\ told[c] = "none"
        /\ told'[c] \in {"200", "202"} => status[c] \notin {"new", "refused"}
        /\ told'[c] = "200" \/ UNCHANGED kept
    BY <1>5 DEF HubTells, Hub!Tell, Hub!MayDefer, Hub!MayGive, Hub!Live, HubTypes
  <2>2. polls[c] = 0 /\ pc[c] \notin {"idle", "poll", "get"}
    BY <1>2, <2>1 DEF Posts
  <2>3. Posts(c)' /\ Handed(c)'
    BY <1>1, <2>1, <2>2 DEF Posts, Handed, V
  <2>4. GoesOn(c)' /\ Attempts(c)'
    BY <1>1, <2>1, <2>2 DEF GoesOn, Attempts, V
  <2>5. Unknowns(c)' /\ Exhausted(c)'
    BY <1>1, <2>1 DEF Unknowns, Exhausted, V
  <2> QED
    BY <2>3, <2>4, <2>5
<1>6. CASE HubReads(c)
  <2>1. PICK m \in 1..polls[c], v \in {"result", "unknown", "later"} :
          /\ V(c, m) = "none" /\ verdict' = [verdict EXCEPT ![<<c, m>>] = v]
          /\ v = "unknown" => c \in resolved \cup overdue /\ c \notin kept
          /\ v = "result" \/ UNCHANGED kept
          /\ UNCHANGED <<status, resolved, told, swept>>
    <3>1. PICK g \in Polls :
            /\ g[1] = c /\ g[2] <= polls[c]
            /\ Hub!Read(g)
            /\ CASE verdict'[g] = "result"  -> Hand(c)
                 [] verdict'[g] = "unknown" -> c \notin kept /\ UNCHANGED kept
                 [] OTHER                   -> UNCHANGED kept
      BY <1>6 DEF HubReads
    <3>2. g = <<c, g[2]>> /\ g[2] \in 1..polls[c]
      BY <1>2, <3>1 DEF Polls
    <3>3. PICK v \in {"result", "unknown", "later"} :
            /\ v = "unknown" => PollReq[g] \in resolved \cup overdue
            /\ verdict' = [verdict EXCEPT ![g] = v]
      BY <3>1 DEF Hub!Read, Hub!MayForget
    <3>4. PollReq[g] = c /\ verdict[g] = "none" /\ verdict'[g] = v
      BY <3>1, <3>3 DEF PollReq, Hub!Read, HubTypes
    <3>5. UNCHANGED <<status, resolved, told, swept>>
      BY <1>6, <3>1 DEF HubReads, Hub!Read
    <3>6. (v = "unknown" => c \notin kept) /\ (v = "result" \/ UNCHANGED kept)
      BY <3>1, <3>4
    <3> DEFINE k == g[2]
    <3>7. k \in 1..polls[c] /\ g = <<c, k>>
      BY <3>2
    <3> QED
      BY <3>3, <3>4, <3>5, <3>6, <3>7 DEF V
  <2>2. \A n \in 1..MaxPolls : V(c, n)' = IF n = m THEN v ELSE V(c, n)
    BY <1>2, PollOf, <2>1 DEF V, HubTypes
  <2>3. v = "unknown" => c \in failed \cup swept \cup overdue
    <3> SUFFICES ASSUME v = "unknown", c \notin swept \cup overdue PROVE c \in failed
      OBVIOUS
    <3>1. PICK n \in 1..polls[c] : V(c, n) = "result"
      BY <1>2, <2>1 DEF Handed, Posts
    <3>2. n < polls[c] \/ m < polls[c]
      BY <1>2, <2>1, <3>1
    <3> QED
      BY <1>2, <2>1, <3>1, <3>2 DEF GoesOn
  <2>4. Posts(c)'
    BY <1>1, <2>1 DEF Posts
  <2>5. Handed(c)'
    <3>1. CASE v = "result"
      BY <1>1, <1>2, <2>1, <2>2, <3>1 DEF Handed
    <3>2. CASE v # "result"
      <4>1. \A n \in 1..polls[c] : V(c, n) = "result" => V(c, n)' = "result"
        BY <1>2, <2>1, <2>2
      <4> QED
        BY <1>1, <2>1, <3>2, <4>1 DEF Handed
    <3> QED
      BY <3>1, <3>2
  <2>6. \A n \in 1..polls[c] : V(c, n) # "none" => V(c, n)' = V(c, n)
    BY <1>2, <2>1, <2>2
  <2>7. \A n \in 1..polls[c] : V(c, n) # "none" => V(c, n)' # "none"
    BY <2>6
  <2>8. GoesOn(c)'
    <3> SUFFICES ASSUME NEW n \in 1..polls[c]
                 PROVE  /\ n < polls[c] \/ pc[c] \in {"idle", "poll"} =>
                              V(c, n)' \in {"later", "unknown"} \/ c \in failed
                        /\ pc[c] = "done" => V(c, n)' # "none" \/ c \in failed
      BY <1>1 DEF GoesOn
    <3> QED
      BY <2>6 DEF GoesOn
  <2>9. Attempts(c)' /\ Exhausted(c)'
    <3>1. \A n \in 1..polls[c] : V(c, n) = "later" => V(c, n)' = "later"
      BY <2>6
    <3>2. attempt[c] \in Nat /\ MaxRetries \in Nat
      BY OnlineClientAssumption DEF TypeOK
    <3>3. Attempts(c)'
      BY <1>1, <1>2, <3>1, <3>2 DEF Attempts
    <3>4. Exhausted(c)'
      BY <1>1, <1>2, <3>1, <3>2 DEF Exhausted
    <3> QED
      BY <3>3, <3>4
  <2>10. Unknowns(c)'
    BY <1>1, <2>1, <2>2, <2>3 DEF Unknowns
  <2> QED
    BY <2>4, <2>5, <2>8, <2>9, <2>10
<1> QED
  BY <1>3, <1>4, <1>5, <1>6 DEF HubMoves

-----------------------------------------------------------------------------
(* Steps of the client.                                                     *)

ClientMoves(c) ==
    \/ Do(c) \/ Post(c) \/ PostFails(c) \/ WaitResult(c) \/ PollFails(c)

\* A step of the client keeps the types.
LEMMA ClientKeepsTypes ==
    ASSUME TypeOK, HubTypes, NEW c \in Calls, ClientMoves(c), CallInv(c)
    PROVE  TypeOK' /\ HubTypes'
<1> USE OnlineClientAssumption DEF hub
<1>1. UNCHANGED hub
  BY DEF ClientMoves, Do, Post, PostReturns, PostFails, WaitResult, PollSend,
         PollsExhausted, PollReturns, PollFails
<1>2. polls[c] \in Nat /\ MaxPolls \in Nat /\ attempt[c] \in Nat /\ waits[c] \in Nat
  BY MaxPollsNat DEF TypeOK
<1>3. polls' \in [Calls -> 0..MaxPolls]
  <2>1. polls' = polls \/ (polls[c] < MaxPolls /\ polls' = [polls EXCEPT ![c] = @ + 1])
    BY DEF ClientMoves, Do, Post, PostReturns, PostFails, WaitResult, PollSend,
           PollsExhausted, PollReturns, PollFails
  <2> QED
    BY <1>2, <2>1 DEF TypeOK
<1>4. waits' \in [Calls -> 0..MaxWaits]
  <2>1. waits' = waits \/ (waits[c] < MaxWaits /\ waits' = [waits EXCEPT ![c] = @ + 1])
    BY DEF ClientMoves, Do, Post, PostReturns, PostFails, WaitResult, PollSend,
           PollsExhausted, PollReturns, PollFails
  <2> QED
    BY <1>2, <2>1 DEF TypeOK
<1>5. attempt' \in [Calls -> 0..(MaxRetries + 1)]
  <2>1. \/ attempt' = attempt
        \/ attempt' = [attempt EXCEPT ![c] = 0]
        \/ pc[c] = "get" /\ attempt' = [attempt EXCEPT ![c] = @ + 1]
    BY DEF ClientMoves, Do, Post, PostReturns, PostFails, WaitResult, PollSend,
           PollsExhausted, PollReturns, PollFails
  <2>2. pc[c] = "get" => attempt[c] + 1 \in 0..(MaxRetries + 1)
    BY <1>2 DEF CallInv, Attempts
  <2> QED
    BY <1>2, <2>1, <2>2 DEF TypeOK
<1>6. pc' \in [Calls -> {"start", "post", "idle", "poll", "get", "done"}]
  BY DEF ClientMoves, Do, Post, PostReturns, PostFails, WaitResult, PollSend,
         PollsExhausted, PollReturns, PollFails, Return, Goto, TypeOK
<1>7. ret' \in [Calls -> {"none", "result"} \cup Errors]
  <2>1. CASE PollReturns(c)
    <3>1. verdict[<<c, polls[c]>>] \in {"none", "result", "unknown", "later"}
      BY <1>2, <2>1, PollOf DEF HubTypes, CallInv, Attempts, PollReturns
    <3> QED
      BY <2>1, <3>1 DEF PollReturns, Return, TypeOK, Errors
  <2>2. CASE PostReturns(c)
    BY <2>2 DEF PostReturns, Return, TypeOK, Errors
  <2>3. CASE ~PollReturns(c) /\ ~PostReturns(c)
    BY <2>3 DEF ClientMoves, Do, Post, PostFails, WaitResult, PollSend,
                PollsExhausted, PollFails, Return, TypeOK, Errors
  <2> QED
    BY <2>1, <2>2, <2>3
<1>8. failed' \subseteq Calls
  BY DEF ClientMoves, Do, Post, PostReturns, PostFails, WaitResult, PollSend,
         PollsExhausted, PollReturns, PollFails, TypeOK
<1>9. method' = method
  BY DEF ClientMoves, Do, Post, PostReturns, PostFails, WaitResult, PollSend,
         PollsExhausted, PollReturns, PollFails
<1> QED
  BY <1>1, <1>3, <1>4, <1>5, <1>6, <1>7, <1>8, <1>9 DEF TypeOK, HubTypes

\* A step of the client for a call keeps what is known of the call.
LEMMA ClientKeepsCall ==
    ASSUME TypeOK, HubTypes, NEW c \in Calls, ClientMoves(c), CallInv(c)
    PROVE  CallInv(c)'
<1> USE DEF CallInv
<1>1. UNCHANGED <<status, overdue, resolved, told, verdict, kept, swept>> /\ failed \subseteq failed'
      /\ \A n : V(c, n)' = V(c, n)
  BY DEF ClientMoves, Do, Post, PostReturns, PostFails, WaitResult, PollSend,
         PollsExhausted, PollReturns, PollFails, hub, V
<1>2. /\ polls[c] \in Nat /\ polls[c] \in 0..MaxPolls /\ MaxPolls \in Nat
      /\ attempt[c] \in Nat /\ MaxRetries \in Nat
  BY PollOf, MaxPollsNat, OnlineClientAssumption DEF TypeOK
<1>3. CASE Post(c) \/ PostReturns(c) \/ PostFails(c)
  <2>1. /\ polls[c] = 0 /\ polls'[c] = 0 /\ attempt[c] = 0 /\ attempt'[c] = 0
        /\ pc'[c] \in {"post", "idle", "poll", "done"}
        /\ pc'[c] \in {"idle", "poll"} => told[c] = "202"
    BY <1>3 DEF Posts, Post, PostReturns, PostFails, Return, Goto, TypeOK
  <2>2. ret'[c] # "unknown" \/ ret'[c] = ret[c]
    BY <1>3 DEF Post, PostReturns, PostFails, Return, TypeOK
  <2>3. ret'[c] # "exhausted"
    <3>1. ret[c] # "exhausted"
      BY <1>2, <1>3, <2>1 DEF Exhausted, Post, PostReturns, PostFails
    <3> QED
      BY <1>3, <3>1 DEF Post, PostReturns, PostFails, Return, TypeOK
  <2>4. Posts(c)' /\ Handed(c)' /\ GoesOn(c)'
    BY <1>1, <1>2, <2>1 DEF Posts, Handed, GoesOn
  <2>5. Attempts(c)'
    BY <1>1, <1>2, <2>1 DEF Attempts
  <2>6. Unknowns(c)' /\ Exhausted(c)'
    BY <1>1, <2>2, <2>3 DEF Unknowns, Exhausted
  <2> QED
    BY <2>4, <2>5, <2>6
<1>4. CASE WaitResult(c)
  <2>1. /\ pc[c] = "idle" /\ pc'[c] = "poll" /\ attempt'[c] = 0
        /\ UNCHANGED <<polls, ret, failed>>
    BY <1>4 DEF WaitResult, Goto, TypeOK
  <2>2. Posts(c)' /\ Handed(c)' /\ GoesOn(c)'
    BY <1>1, <2>1 DEF Posts, Handed, GoesOn
  <2>3. Attempts(c)'
    BY <1>1, <1>2, <2>1 DEF Attempts
  <2>4. Unknowns(c)' /\ Exhausted(c)'
    BY <1>1, <2>1 DEF Unknowns, Exhausted
  <2> QED
    BY <2>2, <2>3, <2>4
<1>5. CASE PollSend(c)
  <2>1. /\ pc[c] = "poll" /\ pc'[c] = "get" /\ attempt[c] <= MaxRetries
        /\ polls'[c] = polls[c] + 1 /\ UNCHANGED <<attempt, ret, failed>>
    BY <1>5 DEF PollSend, Goto, TypeOK
  <2>2. Posts(c)' /\ Handed(c)'
    BY <1>1, <1>2, <2>1 DEF Posts, Handed
  <2>3. GoesOn(c)'
    BY <1>1, <1>2, <2>1 DEF GoesOn
  <2>4. Attempts(c)'
    <3>1. \A n \in (polls'[c] - attempt[c])..(polls'[c] - 1) : V(c, n) = "later"
      BY <1>2, <2>1 DEF Attempts
    <3>2. attempt[c] < polls'[c]
      BY <1>2, <2>1 DEF Attempts
    <3> QED
      BY <1>1, <2>1, <3>1, <3>2 DEF Attempts
  <2>5. Unknowns(c)' /\ Exhausted(c)'
    BY <1>1, <2>1 DEF Unknowns, Exhausted
  <2> QED
    BY <2>2, <2>3, <2>4, <2>5
<1>6. CASE PollsExhausted(c)
  <2>1. /\ pc[c] = "poll" /\ pc'[c] \in {"idle", "done"} /\ attempt[c] > MaxRetries
        /\ ret'[c] = "exhausted" /\ UNCHANGED <<polls, attempt, failed>>
    BY <1>6 DEF PollsExhausted, Return, Goto, TypeOK
  <2>2. Posts(c)' /\ Handed(c)' /\ GoesOn(c)' /\ Attempts(c)' /\ Unknowns(c)'
    BY <1>1, <2>1 DEF Posts, Handed, GoesOn, Attempts, Unknowns
  <2>3. Exhausted(c)'
    <3>1. polls[c] > MaxRetries
      BY <1>2, <2>1 DEF Attempts
    <3>2. \A n \in (polls[c] - MaxRetries)..polls[c] : V(c, n) = "later"
      BY <1>2, <2>1 DEF Attempts
    <3> QED
      BY <1>1, <2>1, <3>1, <3>2 DEF Exhausted
  <2> QED
    BY <2>2, <2>3
<1>7. CASE PollReturns(c)
  <2> DEFINE v == V(c, polls[c])
  <2>1. /\ pc[c] = "get" /\ v # "none" /\ UNCHANGED <<polls, failed>>
        /\ \/ v = "later" /\ pc'[c] = "poll" /\ attempt'[c] = attempt[c] + 1 /\ ret' = ret
           \/ v # "later" /\ pc'[c] \in {"idle", "done"} /\ ret'[c] = v
              /\ (pc'[c] = "idle" => v # "result")
    BY <1>7 DEF PollReturns, Return, Goto, TypeOK, V
  <2>2. polls[c] \in 1..polls[c] /\ polls[c] \in 1..MaxPolls
        /\ v \in {"none", "result", "unknown", "later"}
    BY <1>2, <2>1, PollOf DEF Attempts, HubTypes, V
  <2>3. Posts(c)' /\ Handed(c)'
    BY <1>1, <2>1 DEF Posts, Handed
  <2>4. GoesOn(c)'
    <3> SUFFICES ASSUME NEW n \in 1..polls[c]
                 PROVE  /\ n < polls[c] \/ pc'[c] \in {"idle", "poll"} =>
                              V(c, n) \in {"later", "unknown"} \/ c \in failed
                        /\ pc'[c] = "done" => V(c, n) # "none" \/ c \in failed
      BY <1>1, <2>1 DEF GoesOn
    <3>1. CASE n < polls[c]
      BY <3>1 DEF GoesOn
    <3>2. CASE n = polls[c]
      BY <1>2, <2>1, <2>2, <3>2
    <3> QED
      BY <1>2, <3>1, <3>2
  <2>5. Attempts(c)'
    <3>1. CASE v = "later"
      <4>1. \A n \in (polls[c] - (attempt[c] + 1) + 1)..polls[c] : V(c, n) = "later"
        BY <1>2, <2>1, <3>1 DEF Attempts
      <4>2. attempt[c] + 1 <= polls[c]
        BY <1>2, <2>1 DEF Attempts
      <4> QED
        BY <1>1, <2>1, <3>1, <4>1, <4>2 DEF Attempts
    <3>2. CASE v # "later"
      BY <1>1, <2>1, <3>2 DEF Attempts
    <3> QED
      BY <3>1, <3>2
  <2>6. Unknowns(c)'
    BY <1>1, <2>1, <2>2 DEF Unknowns
  <2>7. Exhausted(c)'
    BY <1>1, <2>1, <2>2 DEF Exhausted
  <2> QED
    BY <2>3, <2>4, <2>5, <2>6, <2>7
<1>8. CASE PollFails(c)
  <2>1. /\ pc[c] = "get" /\ pc'[c] \in {"idle", "done"} /\ ret'[c] = "network"
        /\ c \in failed' /\ UNCHANGED <<polls, attempt>>
    BY <1>8 DEF PollFails, Return, Goto, TypeOK
  <2> QED
    BY <1>1, <2>1 DEF Posts, Handed, GoesOn, Attempts, Unknowns, Exhausted
<1> QED
  BY <1>3, <1>4, <1>5, <1>6, <1>7, <1>8 DEF ClientMoves, Do

-----------------------------------------------------------------------------
(* The other calls, and the invariant.                                      *)

\* A step for one call leaves what is known of another.
LEMMA OthersKeepCall ==
    ASSUME TypeOK, HubTypes, NEW c \in Calls, NEW d \in Calls, d # c,
           HubMoves(c) \/ ClientMoves(c), CallInv(d)
    PROVE  CallInv(d)'
<1>1. /\ status'[d] = status[d] /\ told'[d] = told[d]
      /\ (d \in kept') = (d \in kept) /\ (d \in swept') = (d \in swept)
      /\ (d \in resolved') = (d \in resolved) /\ (d \in overdue') = (d \in overdue)
  BY DEF HubMoves, HubQueues, HubWorks, HubExpires, HubStores, HubSweeps, HubTells, HubReads,
         Hub!Enqueue, Hub!HandOut, Hub!Lapse, Hub!Advance, Hub!Expire, Hub!Resolve,
         Hub!Refuse, Hub!Tell, Hub!Read, Hand, HubTypes, hub,
         ClientMoves, Do, Post, PostReturns, PostFails, WaitResult, PollSend,
         PollsExhausted, PollReturns, PollFails
<1>2. \A n \in 1..MaxPolls : V(d, n)' = V(d, n)
  <2>1. \/ verdict' = verdict
        \/ \E g \in Polls, v \in {"result", "unknown", "later"} :
              g[1] = c /\ verdict' = [verdict EXCEPT ![g] = v]
    BY DEF HubMoves, HubQueues, HubWorks, HubExpires, HubStores, HubSweeps, HubTells, HubReads,
           Hub!Enqueue, Hub!HandOut, Hub!Lapse, Hub!Advance, Hub!Expire, Hub!Resolve,
         Hub!Refuse, Hub!Tell, Hub!Read, hub,
           ClientMoves, Do, Post, PostReturns, PostFails, WaitResult, PollSend,
           PollsExhausted, PollReturns, PollFails
  <2> QED
    BY <2>1, PollOf DEF V, HubTypes
<1>3. /\ pc'[d] = pc[d] /\ polls'[d] = polls[d] /\ attempt'[d] = attempt[d]
      /\ ret'[d] = ret[d] /\ (d \in failed') = (d \in failed)
  BY DEF HubMoves, HubQueues, HubWorks, HubExpires, HubStores, HubSweeps, HubTells, HubReads, client,
         ClientMoves, Do, Post, PostReturns, PostFails, WaitResult, PollSend,
         PollsExhausted, PollReturns, PollFails, Return, Goto, TypeOK
<1>4. /\ polls[d] \in 0..MaxPolls /\ attempt[d] \in Nat
      /\ MaxPolls \in Nat /\ MaxRetries \in Nat
  BY PollOf, MaxPollsNat, OnlineClientAssumption DEF TypeOK
<1>5. Posts(d)' /\ Handed(d)' /\ GoesOn(d)'
  BY <1>1, <1>2, <1>3, <1>4 DEF CallInv, Posts, Handed, GoesOn
<1>6. Attempts(d)'
  BY <1>2, <1>3, <1>4 DEF CallInv, Attempts
<1>7. Unknowns(d)' /\ Exhausted(d)'
  BY <1>1, <1>2, <1>3, <1>4 DEF CallInv, Unknowns, Exhausted
<1> QED
  BY <1>5, <1>6, <1>7 DEF CallInv

\* Every step keeps the invariant.
LEMMA NextKeepsIInv == IInv /\ [Next]_vars => IInv'
<1> SUFFICES ASSUME IInv, [Next]_vars PROVE IInv'
  OBVIOUS
<1>1. CASE Next
  <2>1. PICK c \in Calls : HubMoves(c) \/ ClientMoves(c)
    BY <1>1 DEF Next, HubStep, HubMoves, ClientMoves
  <2>2. TypeOK' /\ HubTypes'
    BY <2>1, HubKeepsTypes, ClientKeepsTypes DEF IInv
  <2>3. CallInv(c)'
    BY <2>1, HubKeepsCall, ClientKeepsCall DEF IInv
  <2>4. ASSUME NEW d \in Calls, d # c PROVE CallInv(d)'
    BY <2>1, <2>4, OthersKeepCall DEF IInv
  <2> QED
    BY <2>2, <2>3, <2>4 DEF IInv
<1>2. CASE UNCHANGED vars
  BY <1>2 DEF vars, hub, client, IInv, TypeOK, HubTypes, CallInv, Posts, Handed, GoesOn,
              Attempts, Unknowns, Exhausted, V
<1> QED
  BY <1>1, <1>2

-----------------------------------------------------------------------------
\* The inductive invariant: what each call was told, and who has its result.
THEOREM OnlineInvariant == Spec => []IInv
<1> QED
  BY InitIInv, NextKeepsIInv, PTL DEF Spec

\* The variables of the client keep their types; its loop counter never passes
\* MaxRetries + 1 (online.go:104).
THEOREM OnlineTypeCorrect == Spec => []TypeOK
<1>1. IInv => TypeOK
  BY DEF IInv
<1> QED
  BY <1>1, OnlineInvariant, PTL

\* A client is told that its ID is unknown only after its result was lost on the
\* way, or it or the request expired (online.go:111-137).
THEOREM UnknownIsLost == Spec => []UnknownMeansLost
<1>1. IInv => UnknownMeansLost
  BY DEF IInv, CallInv, Unknowns, UnknownMeansLost
<1> QED
  BY <1>1, OnlineInvariant, PTL

\* WaitResult gives up only after as many answers "not yet" as it is documented to
\* ask for, with no other answer among them (online.go:92-138); Exhausted says of
\* the code that it has asked once more.
THEOREM ExhaustedIsNotYet == Spec => []ExhaustedMeansNotYet
<1>1. ASSUME IInv PROVE ExhaustedMeansNotYet
  <2> SUFFICES ASSUME NEW c \in Calls, ret[c] = "exhausted", pc[c] \notin {"poll", "get"}
               PROVE  /\ polls[c] >= MaxRetries
                      /\ (polls[c] - MaxRetries + 1)..polls[c] \subseteq Answers(c, "later")
    BY DEF ExhaustedMeansNotYet
  <2>1. polls[c] \in Nat /\ MaxRetries \in Nat
    BY <1>1, PollOf, OnlineClientAssumption DEF IInv
  <2>2. /\ polls[c] > MaxRetries
        /\ \A n \in (polls[c] - MaxRetries)..polls[c] : V(c, n) = "later"
    BY <1>1 DEF IInv, CallInv, Exhausted
  <2> QED
    BY <2>1, <2>2 DEF Answers, V
<1> QED
  BY <1>1, OnlineInvariant, PTL

=============================================================================
