--------------------------- MODULE HubRouterProofs ---------------------------
(***************************************************************************)
(* Safety of the hub, for any number of requests, calls, pulls and keys.   *)
(* First the store alone, for any number of concurrent Puts and Gets:      *)
(* StoreInv says where the result of a Put may be and which Get may hold a *)
(* copy of it.  Then the hub: its steps are steps of the store and of the  *)
(* FIFO queues, so their theorems hold in it, and HubInv ties the handler  *)
(* of each request to the queues, the registrations and the Gets.          *)
(***************************************************************************)
EXTENDS HubRouter, SequenceTheorems, TLAPS


\* Only stored results age, so the sweep discards results and nothing else.
AgedStored == \A id \in aged : Stored(id)

\* What the map holds under an ID answers that ID, and its Put was called.
StoredAnswers ==
    \A id \in IDs : Stored(id) => PutID[results[id]] = id /\ putPC[results[id]] # "idle"

\* A channel only holds the result of the Put that was to signal it.
ChanAddressed ==
    \A g \in Gets : chan[g] # NoPut => target[chan[g]] = g /\ putPC[chan[g]] = "done"

\* A Get has an outcome only when it is past its select.
OutcomeFinal ==
    \A g \in Gets : getPC[g] \in {"idle", "recheck", "wait"} => outcome[g] = NoOutcome

\* A result taken out of the map is not in it any more; a result that came by
\* channel was addressed to the Get that returned it.
OutcomeSource ==
    \A g \in Gets :
        LET p == outcome[g].put IN
        p # NoPut =>
            /\ putPC[p] # "idle"
            /\ outcome[g].kind \in {"map", "chan"}
            /\ outcome[g].kind = "map" => results[PutID[p]] # p
            /\ outcome[g].kind = "chan" => target[p] = g

Provenance == StoredAnswers /\ ChanAddressed /\ OutcomeFinal /\ OutcomeSource

StoreInv == TypeOK /\ AgedStored /\ Provenance

\* What a Put is to signal, and what a Get returns, is about one ID; a Get that is
\* past its select has an outcome, and it is a result or it carries none.
TargetAnswers ==
    \A q \in Puts : target[q] # NoGet => GetID[target[q]] = PutID[q]

OutcomeAnswers ==
    \A g \in Gets : outcome[g].put # NoPut => PutID[outcome[g].put] = GetID[g]

OutcomeShape ==
    \A g \in Gets :
        /\ outcome[g].kind \in {"map", "chan"} <=> outcome[g].put # NoPut
        /\ getPC[g] \in {"cleanup", "done"} => outcome[g].kind # "none"

AnswersInv == TargetAnswers /\ OutcomeAnswers /\ OutcomeShape

\* A poll that no other poll of its ID overlaps with is the only one in flight, and
\* it is the registered waiter.
SoloRegistered ==
    \A g \in Gets \ overlapped : InFlight(g) =>
        /\ waiters[GetID[g]] = g
        /\ \A h \in Gets : InFlight(h) /\ GetID[h] = GetID[g] => h = g

SoloInv == TypeOK /\ SoloRegistered /\ NoStrandedWaiter

-----------------------------------------------------------------------------
\* Every variable keeps its type, and a sweep only ever finds stored results.
THEOREM TypeInvariant == Spec => [](TypeOK /\ AgedStored)
<1> USE CallAssumption
<1>1. Init => TypeOK /\ AgedStored
  BY DEF Init, TypeOK, AgedStored, Outcome, NoOutcome
<1>2. TypeOK /\ AgedStored /\ [Next]_vars => TypeOK' /\ AgedStored'
  <2> SUFFICES ASSUME TypeOK, AgedStored, [Next]_vars
               PROVE  TypeOK' /\ AgedStored'
    OBVIOUS
  <2> USE DEF TypeOK, AgedStored, Stored, Outcome, storeVars, callVars
  <2>1. ASSUME NEW id \in IDs, RegisterPending(id)
        PROVE  TypeOK' /\ AgedStored'
    BY <2>1 DEF RegisterPending
  <2>2. ASSUME NEW id \in IDs, Delete(id)
        PROVE  TypeOK' /\ AgedStored'
    BY <2>2 DEF Delete
  <2>3. ASSUME NEW id \in IDs, Age(id)
        PROVE  TypeOK' /\ AgedStored'
    BY <2>3 DEF Age
  <2>4. ASSUME NEW p \in Puts, PutStore(p)
        PROVE  TypeOK' /\ AgedStored'
    BY <2>4 DEF PutStore
  <2>5. ASSUME NEW p \in Puts, PutSignal(p)
        PROVE  TypeOK' /\ AgedStored'
    BY <2>5 DEF PutSignal
  <2>6. ASSUME NEW g \in Gets, GetFast(g)
        PROVE  TypeOK' /\ AgedStored'
    BY <2>6 DEF GetFast, Take
  <2>7. ASSUME NEW g \in Gets, GetUnknown(g)
        PROVE  TypeOK' /\ AgedStored'
    BY <2>7 DEF GetUnknown
  <2>8. ASSUME NEW g \in Gets, GetRegister(g)
        PROVE  TypeOK' /\ AgedStored'
    BY <2>8 DEF GetRegister, Company
  <2>9. ASSUME NEW g \in Gets, GetRecheckHit(g)
        PROVE  TypeOK' /\ AgedStored'
    BY <2>9 DEF GetRecheckHit, Take
  <2>10. ASSUME NEW g \in Gets, GetRecheckMiss(g)
         PROVE  TypeOK' /\ AgedStored'
    BY <2>10 DEF GetRecheckMiss
  <2>11. ASSUME NEW g \in Gets, GetWake(g)
         PROVE  TypeOK' /\ AgedStored'
    BY <2>11 DEF GetWake
  <2>12. ASSUME NEW g \in Gets, GetTimeout(g)
         PROVE  TypeOK' /\ AgedStored'
    BY <2>12 DEF GetTimeout
  <2>13. ASSUME NEW g \in Gets, GetCleanup(g)
         PROVE  TypeOK' /\ AgedStored'
    BY <2>13 DEF GetCleanup
  <2>14. CASE SweepExpired
    BY <2>14 DEF SweepExpired
  <2>15. CASE UNCHANGED vars
    BY <2>15 DEF vars
  <2> QED
    BY <2>1, <2>2, <2>3, <2>4, <2>5, <2>6, <2>7, <2>8, <2>9, <2>10, <2>11,
       <2>12, <2>13, <2>14, <2>15 DEF Next, PutStep, GetStep
<1> QED
  BY <1>1, <1>2, PTL DEF Spec

-----------------------------------------------------------------------------
\* Every step of a Put, a Get or the cleanup loop keeps results traceable: what the
\* map, a channel or an outcome holds came from the Put that stored or signalled it.
LEMMA ProvenanceStep ==
    TypeOK /\ AgedStored /\ Provenance /\ [Next]_vars => Provenance'
<1> USE CallAssumption
<1> SUFFICES ASSUME TypeOK, AgedStored, Provenance, [Next]_vars
             PROVE  Provenance'
  OBVIOUS
<1> USE DEF TypeOK, AgedStored, Provenance, StoredAnswers, ChanAddressed,
            OutcomeFinal, OutcomeSource, NoOutcome, Outcome, Stored, storeVars, callVars
<1>1. ASSUME NEW id \in IDs, RegisterPending(id)
      PROVE  Provenance'
  BY <1>1 DEF RegisterPending
<1>2. ASSUME NEW id \in IDs, Delete(id)
      PROVE  Provenance'
  BY <1>2 DEF Delete
<1>3. ASSUME NEW id \in IDs, Age(id)
      PROVE  Provenance'
  BY <1>3 DEF Age
<1>4. ASSUME NEW p \in Puts, PutStore(p)
      PROVE  Provenance'
  BY <1>4 DEF PutStore
<1>5. ASSUME NEW p \in Puts, PutSignal(p)
      PROVE  Provenance'
  BY <1>5 DEF PutSignal
<1>6. ASSUME NEW g \in Gets, GetFast(g)
      PROVE  Provenance'
  BY <1>6 DEF GetFast, Take
<1>7. ASSUME NEW g \in Gets, GetUnknown(g)
      PROVE  Provenance'
  BY <1>7 DEF GetUnknown
<1>8. ASSUME NEW g \in Gets, GetRegister(g)
      PROVE  Provenance'
  BY <1>8 DEF GetRegister
<1>9. ASSUME NEW g \in Gets, GetRecheckHit(g)
      PROVE  Provenance'
  BY <1>9 DEF GetRecheckHit, Take
<1>10. ASSUME NEW g \in Gets, GetRecheckMiss(g)
       PROVE  Provenance'
  BY <1>10 DEF GetRecheckMiss
<1>11. ASSUME NEW g \in Gets, GetWake(g)
       PROVE  Provenance'
  BY <1>11 DEF GetWake
<1>12. ASSUME NEW g \in Gets, GetTimeout(g)
       PROVE  Provenance'
  BY <1>12 DEF GetTimeout
<1>13. ASSUME NEW g \in Gets, GetCleanup(g)
       PROVE  Provenance'
  BY <1>13 DEF GetCleanup
<1>14. CASE SweepExpired
  BY <1>14 DEF SweepExpired
<1>15. CASE UNCHANGED vars
  BY <1>15 DEF vars
<1> QED
  BY <1>1, <1>2, <1>3, <1>4, <1>5, <1>6, <1>7, <1>8, <1>9, <1>10, <1>11,
     <1>12, <1>13, <1>14, <1>15 DEF Next, PutStep, GetStep

\* StoreInv holds in every reachable state.
THEOREM StoreInvariant == Spec => []StoreInv
<1>1. Init => Provenance
  BY CallAssumption DEF Init, Provenance, StoredAnswers, ChanAddressed, OutcomeFinal,
                        OutcomeSource, Stored, NoOutcome
<1>2. QED
  BY <1>1, TypeInvariant, ProvenanceStep, PTL DEF Spec, StoreInv

\* An accepted result never vanishes: it is stored, was returned by a Get, or
\* was overwritten, deleted, or swept when it was due (memory.go:55-126).
THEOREM ResultsNeverLost == Spec => []NoLostResult
<1>1. Init => NoLostResult
  BY CallAssumption DEF Init, NoLostResult
<1>2. StoreInv /\ NoLostResult /\ [Next]_vars => NoLostResult'
  <2> USE CallAssumption
  <2> SUFFICES ASSUME StoreInv, NoLostResult, [Next]_vars
               PROVE  NoLostResult'
    OBVIOUS
  <2> USE DEF StoreInv, TypeOK, AgedStored, Provenance, OutcomeFinal, NoLostResult,
              NoOutcome, Outcome, Stored, storeVars, callVars
  <2>1. ASSUME NEW id \in IDs, RegisterPending(id)
        PROVE  NoLostResult'
    BY <2>1 DEF RegisterPending
  <2>2. ASSUME NEW id \in IDs, Delete(id)
        PROVE  NoLostResult'
    BY <2>2 DEF Delete
  <2>3. ASSUME NEW id \in IDs, Age(id)
        PROVE  NoLostResult'
    BY <2>3 DEF Age
  <2>4. ASSUME NEW p \in Puts, PutStore(p)
        PROVE  NoLostResult'
    BY <2>4 DEF PutStore
  <2>5. ASSUME NEW p \in Puts, PutSignal(p)
        PROVE  NoLostResult'
    BY <2>5 DEF PutSignal
  <2>6. ASSUME NEW g \in Gets, GetFast(g)
        PROVE  NoLostResult'
    BY <2>6 DEF GetFast, Take
  <2>7. ASSUME NEW g \in Gets, GetUnknown(g)
        PROVE  NoLostResult'
    BY <2>7 DEF GetUnknown
  <2>8. ASSUME NEW g \in Gets, GetRegister(g)
        PROVE  NoLostResult'
    BY <2>8 DEF GetRegister
  <2>9. ASSUME NEW g \in Gets, GetRecheckHit(g)
        PROVE  NoLostResult'
    BY <2>9 DEF GetRecheckHit, Take
  <2>10. ASSUME NEW g \in Gets, GetRecheckMiss(g)
         PROVE  NoLostResult'
    BY <2>10 DEF GetRecheckMiss
  <2>11. ASSUME NEW g \in Gets, GetWake(g)
         PROVE  NoLostResult'
    BY <2>11 DEF GetWake
  <2>12. ASSUME NEW g \in Gets, GetTimeout(g)
         PROVE  NoLostResult'
    BY <2>12 DEF GetTimeout
  <2>13. ASSUME NEW g \in Gets, GetCleanup(g)
         PROVE  NoLostResult'
    BY <2>13 DEF GetCleanup
  <2>14. CASE SweepExpired
    BY <2>14 DEF SweepExpired
  <2>15. CASE UNCHANGED vars
    BY <2>15 DEF vars
  <2> QED
    BY <2>1, <2>2, <2>3, <2>4, <2>5, <2>6, <2>7, <2>8, <2>9, <2>10, <2>11,
       <2>12, <2>13, <2>14, <2>15 DEF Next, PutStep, GetStep
<1>3. QED
  BY <1>1, <1>2, StoreInvariant, PTL DEF Spec

\* One Get takes a result out of the map and at most one other returns the
\* copy it was handed through its channel.
THEOREM DeliveriesBounded == Spec => []DeliveredAtMostTwice
<1>1. Init => DeliveredAtMostTwice
  BY CallAssumption DEF Init, DeliveredAtMostTwice, NoOutcome
<1>2. StoreInv /\ DeliveredAtMostTwice /\ [Next]_vars => DeliveredAtMostTwice'
  <2> USE CallAssumption
  <2> SUFFICES ASSUME StoreInv, DeliveredAtMostTwice, [Next]_vars
               PROVE  DeliveredAtMostTwice'
    OBVIOUS
  <2> USE DEF StoreInv, TypeOK, Provenance, StoredAnswers, ChanAddressed, OutcomeSource,
              DeliveredAtMostTwice, Outcome, Stored, storeVars, callVars
  <2>1. ASSUME NEW id \in IDs, RegisterPending(id)
        PROVE  DeliveredAtMostTwice'
    BY <2>1 DEF RegisterPending
  <2>2. ASSUME NEW id \in IDs, Delete(id)
        PROVE  DeliveredAtMostTwice'
    BY <2>2 DEF Delete
  <2>3. ASSUME NEW id \in IDs, Age(id)
        PROVE  DeliveredAtMostTwice'
    BY <2>3 DEF Age
  <2>4. ASSUME NEW p \in Puts, PutStore(p)
        PROVE  DeliveredAtMostTwice'
    BY <2>4 DEF PutStore
  <2>5. ASSUME NEW p \in Puts, PutSignal(p)
        PROVE  DeliveredAtMostTwice'
    BY <2>5 DEF PutSignal
  <2>6. ASSUME NEW g \in Gets, GetFast(g)
        PROVE  DeliveredAtMostTwice'
    BY <2>6 DEF GetFast, Take
  <2>7. ASSUME NEW g \in Gets, GetUnknown(g)
        PROVE  DeliveredAtMostTwice'
    BY <2>7 DEF GetUnknown
  <2>8. ASSUME NEW g \in Gets, GetRegister(g)
        PROVE  DeliveredAtMostTwice'
    BY <2>8 DEF GetRegister
  <2>9. ASSUME NEW g \in Gets, GetRecheckHit(g)
        PROVE  DeliveredAtMostTwice'
    BY <2>9 DEF GetRecheckHit, Take
  <2>10. ASSUME NEW g \in Gets, GetRecheckMiss(g)
         PROVE  DeliveredAtMostTwice'
    BY <2>10 DEF GetRecheckMiss
  <2>11. ASSUME NEW g \in Gets, GetWake(g)
         PROVE  DeliveredAtMostTwice'
    BY <2>11 DEF GetWake
  <2>12. ASSUME NEW g \in Gets, GetTimeout(g)
         PROVE  DeliveredAtMostTwice'
    BY <2>12 DEF GetTimeout
  <2>13. ASSUME NEW g \in Gets, GetCleanup(g)
         PROVE  DeliveredAtMostTwice'
    BY <2>13 DEF GetCleanup
  <2>14. CASE SweepExpired
    BY <2>14 DEF SweepExpired
  <2>15. CASE UNCHANGED vars
    BY <2>15 DEF vars
  <2> QED
    BY <2>1, <2>2, <2>3, <2>4, <2>5, <2>6, <2>7, <2>8, <2>9, <2>10, <2>11,
       <2>12, <2>13, <2>14, <2>15 DEF Next, PutStep, GetStep
<1>3. QED
  BY <1>1, <1>2, StoreInvariant, PTL DEF Spec

\* The map of waiters holds no entry of a Get that returned.
THEOREM WaitersInFlight == Spec => []NoDanglingWaiter
<1>1. Init => NoDanglingWaiter
  BY CallAssumption DEF Init, NoDanglingWaiter
<1>2. TypeOK /\ NoDanglingWaiter /\ [Next]_vars => NoDanglingWaiter'
  <2> USE CallAssumption
  <2> SUFFICES ASSUME TypeOK, NoDanglingWaiter, [Next]_vars
               PROVE  NoDanglingWaiter'
    OBVIOUS
  <2> USE DEF TypeOK, NoDanglingWaiter, InFlight, Stored, storeVars, callVars
  <2>1. ASSUME NEW id \in IDs, RegisterPending(id)
        PROVE  NoDanglingWaiter'
    BY <2>1 DEF RegisterPending
  <2>2. ASSUME NEW id \in IDs, Delete(id)
        PROVE  NoDanglingWaiter'
    BY <2>2 DEF Delete
  <2>3. ASSUME NEW id \in IDs, Age(id)
        PROVE  NoDanglingWaiter'
    BY <2>3 DEF Age
  <2>4. ASSUME NEW p \in Puts, PutStore(p)
        PROVE  NoDanglingWaiter'
    BY <2>4 DEF PutStore
  <2>5. ASSUME NEW p \in Puts, PutSignal(p)
        PROVE  NoDanglingWaiter'
    BY <2>5 DEF PutSignal
  <2>6. ASSUME NEW g \in Gets, GetFast(g)
        PROVE  NoDanglingWaiter'
    BY <2>6 DEF GetFast, Take
  <2>7. ASSUME NEW g \in Gets, GetUnknown(g)
        PROVE  NoDanglingWaiter'
    BY <2>7 DEF GetUnknown
  <2>8. ASSUME NEW g \in Gets, GetRegister(g)
        PROVE  NoDanglingWaiter'
    BY <2>8 DEF GetRegister
  <2>9. ASSUME NEW g \in Gets, GetRecheckHit(g)
        PROVE  NoDanglingWaiter'
    BY <2>9 DEF GetRecheckHit, Take
  <2>10. ASSUME NEW g \in Gets, GetRecheckMiss(g)
         PROVE  NoDanglingWaiter'
    BY <2>10 DEF GetRecheckMiss
  <2>11. ASSUME NEW g \in Gets, GetWake(g)
         PROVE  NoDanglingWaiter'
    BY <2>11 DEF GetWake
  <2>12. ASSUME NEW g \in Gets, GetTimeout(g)
         PROVE  NoDanglingWaiter'
    BY <2>12 DEF GetTimeout
  <2>13. ASSUME NEW g \in Gets, GetCleanup(g)
         PROVE  NoDanglingWaiter'
    BY <2>13 DEF GetCleanup
  <2>14. CASE SweepExpired
    BY <2>14 DEF SweepExpired
  <2>15. CASE UNCHANGED vars
    BY <2>15 DEF vars
  <2> QED
    BY <2>1, <2>2, <2>3, <2>4, <2>5, <2>6, <2>7, <2>8, <2>9, <2>10, <2>11,
       <2>12, <2>13, <2>14, <2>15 DEF Next, PutStep, GetStep
<1>3. QED
  BY <1>1, <1>2, TypeInvariant, PTL DEF Spec

\* A poll that no other poll of its ID overlaps with loses no wakeup, however calls
\* of its ID and of others interleave with it.
THEOREM SoloPollsAreSignalled == Spec => []NoStrandedWaiter
<1>1. Init => SoloRegistered /\ NoStrandedWaiter
  BY CallAssumption DEF Init, SoloRegistered, NoStrandedWaiter, InFlight, Waiting, Stored
<1>2. SoloInv /\ [Next]_vars => SoloRegistered' /\ NoStrandedWaiter'
  <2> USE CallAssumption
  <2> SUFFICES ASSUME SoloInv, [Next]_vars
               PROVE  SoloRegistered' /\ NoStrandedWaiter'
    OBVIOUS
  <2> USE DEF SoloInv, TypeOK, SoloRegistered, NoStrandedWaiter, InFlight, Waiting,
              Company, Stored, storeVars, callVars
  <2>1. ASSUME NEW id \in IDs, RegisterPending(id)
        PROVE  SoloRegistered' /\ NoStrandedWaiter'
    BY <2>1 DEF RegisterPending
  <2>2. ASSUME NEW id \in IDs, Delete(id)
        PROVE  SoloRegistered' /\ NoStrandedWaiter'
    BY <2>2 DEF Delete
  <2>3. ASSUME NEW id \in IDs, Age(id)
        PROVE  SoloRegistered' /\ NoStrandedWaiter'
    BY <2>3 DEF Age
  <2>4. ASSUME NEW p \in Puts, PutStore(p)
        PROVE  SoloRegistered' /\ NoStrandedWaiter'
    BY <2>4 DEF PutStore
  <2>5. ASSUME NEW p \in Puts, PutSignal(p)
        PROVE  SoloRegistered' /\ NoStrandedWaiter'
    BY <2>5 DEF PutSignal
  <2>6. ASSUME NEW g \in Gets, GetFast(g)
        PROVE  SoloRegistered' /\ NoStrandedWaiter'
    BY <2>6 DEF GetFast, Take
  <2>7. ASSUME NEW g \in Gets, GetUnknown(g)
        PROVE  SoloRegistered' /\ NoStrandedWaiter'
    BY <2>7 DEF GetUnknown
  <2>8. ASSUME NEW g \in Gets, GetRegister(g)
        PROVE  SoloRegistered' /\ NoStrandedWaiter'
    BY <2>8 DEF GetRegister
  <2>9. ASSUME NEW g \in Gets, GetRecheckHit(g)
        PROVE  SoloRegistered' /\ NoStrandedWaiter'
    BY <2>9 DEF GetRecheckHit, Take
  <2>10. ASSUME NEW g \in Gets, GetRecheckMiss(g)
         PROVE  SoloRegistered' /\ NoStrandedWaiter'
    BY <2>10 DEF GetRecheckMiss
  <2>11. ASSUME NEW g \in Gets, GetWake(g)
         PROVE  SoloRegistered' /\ NoStrandedWaiter'
    BY <2>11 DEF GetWake
  <2>12. ASSUME NEW g \in Gets, GetTimeout(g)
         PROVE  SoloRegistered' /\ NoStrandedWaiter'
    BY <2>12 DEF GetTimeout
  <2>13. ASSUME NEW g \in Gets, GetCleanup(g)
         PROVE  SoloRegistered' /\ NoStrandedWaiter'
    BY <2>13 DEF GetCleanup
  <2>14. CASE SweepExpired
    BY <2>14 DEF SweepExpired
  <2>15. CASE UNCHANGED vars
    BY <2>15 DEF vars
  <2> QED
    BY <2>1, <2>2, <2>3, <2>4, <2>5, <2>6, <2>7, <2>8, <2>9, <2>10, <2>11,
       <2>12, <2>13, <2>14, <2>15 DEF Next, PutStep, GetStep
<1>3. QED
  BY <1>1, <1>2, TypeInvariant, PTL DEF Spec, SoloInv

\* A Get only ever returns results that were put for its own ID, and once past its
\* select it has an answer, however many IDs, Puts and Gets interleave.
THEOREM AnswersMatchIDs == Spec => []AnswersInv
<1>1. Init => AnswersInv
  BY CallAssumption DEF Init, AnswersInv, TargetAnswers, OutcomeAnswers, OutcomeShape, NoOutcome
<1>2. StoreInv /\ NoDanglingWaiter /\ AnswersInv /\ [Next]_vars => AnswersInv'
  <2> USE CallAssumption
  <2> SUFFICES ASSUME StoreInv, NoDanglingWaiter, AnswersInv, [Next]_vars
               PROVE  AnswersInv'
    OBVIOUS
  <2> USE DEF StoreInv, TypeOK, Provenance, StoredAnswers, ChanAddressed, NoDanglingWaiter,
              AnswersInv, TargetAnswers, OutcomeAnswers, OutcomeShape, Outcome,
              Stored, storeVars, callVars
  <2>1. ASSUME NEW id \in IDs, RegisterPending(id)
        PROVE  AnswersInv'
    BY <2>1 DEF RegisterPending
  <2>2. ASSUME NEW id \in IDs, Delete(id)
        PROVE  AnswersInv'
    BY <2>2 DEF Delete
  <2>3. ASSUME NEW id \in IDs, Age(id)
        PROVE  AnswersInv'
    BY <2>3 DEF Age
  <2>4. ASSUME NEW p \in Puts, PutStore(p)
        PROVE  AnswersInv'
    BY <2>4 DEF PutStore
  <2>5. ASSUME NEW p \in Puts, PutSignal(p)
        PROVE  AnswersInv'
    BY <2>5 DEF PutSignal
  <2>6. ASSUME NEW g \in Gets, GetFast(g)
        PROVE  AnswersInv'
    BY <2>6 DEF GetFast, Take
  <2>7. ASSUME NEW g \in Gets, GetUnknown(g)
        PROVE  AnswersInv'
    BY <2>7 DEF GetUnknown
  <2>8. ASSUME NEW g \in Gets, GetRegister(g)
        PROVE  AnswersInv'
    BY <2>8 DEF GetRegister
  <2>9. ASSUME NEW g \in Gets, GetRecheckHit(g)
        PROVE  AnswersInv'
    BY <2>9 DEF GetRecheckHit, Take
  <2>10. ASSUME NEW g \in Gets, GetRecheckMiss(g)
         PROVE  AnswersInv'
    BY <2>10 DEF GetRecheckMiss
  <2>11. ASSUME NEW g \in Gets, GetWake(g)
         PROVE  AnswersInv'
    BY <2>11 DEF GetWake
  <2>12. ASSUME NEW g \in Gets, GetTimeout(g)
         PROVE  AnswersInv'
    BY <2>12 DEF GetTimeout
  <2>13. ASSUME NEW g \in Gets, GetCleanup(g)
         PROVE  AnswersInv'
    BY <2>13 DEF GetCleanup
  <2>14. CASE SweepExpired
    BY <2>14 DEF SweepExpired
  <2>15. CASE UNCHANGED vars
    BY <2>15 DEF vars
  <2> QED
    BY <2>1, <2>2, <2>3, <2>4, <2>5, <2>6, <2>7, <2>8, <2>9, <2>10, <2>11,
       <2>12, <2>13, <2>14, <2>15 DEF Next, PutStep, GetStep
<1>3. QED
  BY <1>1, <1>2, StoreInvariant, WaitersInFlight, PTL DEF Spec
-----------------------------------------------------------------------------
(* The hub.                                                                 *)

Holds(s, r) == \E i \in DOMAIN s : s[i] = r
NoDuplicates(s) == \A i, j \in DOMAIN s : s[i] = s[j] => i = j

Waits(r) == Holds(buffer[ReqKey[r]], r)

\* A request is queued at most once, under its own key; it waits, lapsed or was
\* taken, never two of these, and only if its producer was told so.
Filed ==
    \A k \in Keys :
        /\ NoDuplicates(buffer[k])
        /\ \A r \in IDs : Holds(buffer[k], r) => ReqKey[r] = k

Placed ==
    \A r \in IDs :
        /\ Waits(r) => r \notin lapsed /\ ~Taken(r)
        /\ r \in lapsed => ~Taken(r)
        /\ Waits(r) \/ r \in lapsed \/ Taken(r) => answer[r] = "accepted"

QueueInv == QueueTypes /\ Filed /\ Placed

\* What the place of a submit handler says about its request.
Handled(r) ==
    /\ handler[r] = "new" =>
           answer[r] = "none" /\ reply[r] = "none" /\ r \notin submitted
    /\ handler[r] = "register" =>
           r \notin Sync /\ answer[r] = "accepted" /\ reply[r] = "none" /\ r \notin submitted
    /\ handler[r] = "enqueue" =>
           r \in Sync /\ answer[r] = "none" /\ reply[r] = "none" /\ r \in submitted
    /\ handler[r] = "undo" =>
           r \in Sync /\ answer[r] = "full" /\ reply[r] = "none" /\ r \in submitted
    /\ handler[r] = "get" =>
           r \in Sync /\ answer[r] = "accepted" /\ reply[r] = "none" /\ r \in submitted
    /\ handler[r] = "done" =>
           IF reply[r] = "503"
           THEN answer[r] = "full" /\ r \notin pending
           ELSE answer[r] = "accepted" /\ reply[r] # "none" /\ r \in submitted

\* A registered ID that was not refused is pending or resolved; no ID is pending
\* before it was registered, and none is resolved before it was generated.
Registered(r) ==
    /\ r \in submitted /\ reply[r] # "503" => r \in pending \/ Resolved(r)
    /\ r \in pending => r \in submitted
    /\ handler[r] = "new" => ~Resolved(r)

\* A Get runs only for a request that was accepted, and from the place of its
\* handler that calls it.
Polled(g) ==
    getPC[g] # "idle" =>
        /\ answer[GetID[g]] = "accepted"
        /\ IF g \in PollGets THEN reply[GetID[g]] = "202"
                             ELSE handler[GetID[g]] \in {"get", "done"}

\* Only a Get of a resolved request returned ErrNotFound.
UnknownResolved(g) == outcome[g].kind = "unknown" => Resolved(GetID[g])

HubInv ==
    /\ HubTypeOK
    /\ QueueInv
    /\ \A r \in IDs : Handled(r) /\ Registered(r)
    /\ \A g \in Gets : Polled(g) /\ UnknownResolved(g)

\* What the theorems of the store say in the hub.
StoreFacts == StoreInv /\ AnswersInv /\ NoLostResult /\ NoDanglingWaiter

-----------------------------------------------------------------------------
\* The sequences of the queues: what Append adds and Tail takes away.
LEMMA AppendHolds ==
    ASSUME NEW s \in Seq(IDs), NEW x \in IDs
    PROVE  /\ \A r \in IDs : Holds(Append(s, x), r) <=> Holds(s, r) \/ r = x
           /\ NoDuplicates(s) /\ ~Holds(s, x) => NoDuplicates(Append(s, x))
           /\ Append(s, x) \in Seq(IDs)
<1>1. /\ DOMAIN Append(s, x) = 1 .. Len(s) + 1 /\ DOMAIN s = 1 .. Len(s) /\ Len(s) \in Nat
      /\ \A i \in 1 .. Len(s) : Append(s, x)[i] = s[i]
      /\ Append(s, x)[Len(s) + 1] = x
      /\ Append(s, x) \in Seq(IDs)
  BY AppendProperties, LenProperties
<1>2. \A r \in IDs : Holds(Append(s, x), r) <=> Holds(s, r) \/ r = x
  BY <1>1 DEF Holds
<1>3. ASSUME NoDuplicates(s), ~Holds(s, x) PROVE NoDuplicates(Append(s, x))
  BY <1>1, <1>3 DEF Holds, NoDuplicates
<1> QED
  BY <1>1, <1>2, <1>3

\* A queue without its head holds the rest.
LEMMA TailHolds ==
    ASSUME NEW s \in Seq(IDs), s # <<>>, NoDuplicates(s)
    PROVE  /\ \A r \in IDs : Holds(Tail(s), r) <=> Holds(s, r) /\ r # Head(s)
           /\ NoDuplicates(Tail(s)) /\ Holds(s, Head(s)) /\ Head(s) \in IDs
           /\ Tail(s) \in Seq(IDs)
<1>1. /\ DOMAIN s = 1 .. Len(s) /\ Len(s) \in Nat \ {0}
      /\ DOMAIN Tail(s) = 1 .. Len(s) - 1
      /\ \A i \in 1 .. Len(s) - 1 : Tail(s)[i] = s[i + 1]
      /\ Head(s) = s[1] /\ Head(s) \in IDs /\ Tail(s) \in Seq(IDs)
  BY HeadTailProperties, LenProperties, EmptySeq
<1>2. NoDuplicates(Tail(s)) /\ Holds(s, Head(s))
  BY <1>1 DEF Holds, NoDuplicates
<1>3. ASSUME NEW r \in IDs, Holds(Tail(s), r) PROVE Holds(s, r) /\ r # Head(s)
  BY <1>1, <1>3 DEF Holds, NoDuplicates
<1>4. ASSUME NEW r \in IDs, Holds(s, r), r # Head(s) PROVE Holds(Tail(s), r)
  <2>1. PICK i \in 1 .. Len(s) : s[i] = r /\ i # 1
    BY <1>1, <1>4 DEF Holds
  <2>2. i - 1 \in 1 .. Len(s) - 1 /\ Tail(s)[i - 1] = r
    BY <1>1, <2>1
  <2> QED
    BY <1>1, <2>2 DEF Holds
<1> QED
  BY <1>1, <1>2, <1>3, <1>4

\* An empty queue holds nothing.
LEMMA EmptyHolds == ~(\E r \in IDs : Holds(<<>>, r)) /\ NoDuplicates(<<>>)
BY DEF Holds, NoDuplicates

\* A request is taken when some batch holds it.
LEMMA TakenHolds == \A r \in IDs : Taken(r) <=> \E p \in Pulls : Holds(batch[p], r)
BY DEF Taken, InBatch, Holds

-----------------------------------------------------------------------------
\* What an accepted request and a pull change in the places of the requests.
LEMMA AcceptEffect ==
    ASSUME QueueInv, NEW r \in IDs, Fifo!Accept(r)
    PROVE  /\ answer[r] = "none" /\ answer' = [answer EXCEPT ![r] = "accepted"]
           /\ \A x \in IDs : Waits(x)' <=> Waits(x) \/ x = r
           /\ \A x \in IDs : Taken(x)' <=> Taken(x)
           /\ lapsed' = lapsed
           /\ QueueTypes' /\ Filed'
<1> USE HubAssumption
<1> DEFINE k == ReqKey[r]
           s == buffer[k]
<1>1. /\ k \in Keys /\ s \in Seq(IDs) /\ answer[r] = "none"
      /\ buffer' = [buffer EXCEPT ![k] = Append(s, r)]
      /\ answer' = [answer EXCEPT ![r] = "accepted"]
      /\ UNCHANGED <<batch, ended, expired, lapsed>>
  BY DEF Fifo!Accept, QueueInv, QueueTypes
<1>2. /\ Append(s, r) \in Seq(IDs)
      /\ \A x \in IDs : Holds(Append(s, r), x) <=> Holds(s, x) \/ x = r
      /\ ~Holds(s, r) => NoDuplicates(Append(s, r))
  BY <1>1, AppendHolds DEF QueueInv, Filed
<1>3. ~Holds(s, r)
  BY <1>1 DEF QueueInv, Placed, Waits
<1>4. /\ buffer'[k] = Append(s, r)
      /\ \A j \in Keys : j # k => buffer'[j] = buffer[j]
  BY <1>1 DEF QueueInv, QueueTypes
<1>5. QueueTypes'
  BY <1>1, <1>2 DEF QueueInv, QueueTypes
<1>6. Filed'
  <2>1. NoDuplicates(buffer'[k]) /\ \A x \in IDs : Holds(buffer'[k], x) => ReqKey[x] = k
    BY <1>1, <1>2, <1>3, <1>4 DEF QueueInv, Filed
  <2> QED
    BY <1>4, <2>1 DEF QueueInv, Filed
<1>7. ASSUME NEW x \in IDs PROVE Waits(x)' <=> Waits(x) \/ x = r
  <2>1. Waits(x)' <=> Holds(buffer'[ReqKey[x]], x)
    BY DEF Waits
  <2>2. CASE ReqKey[x] = k
    BY <1>2, <1>4, <2>1, <2>2 DEF Waits
  <2>3. CASE ReqKey[x] # k
    BY <1>4, <2>1, <2>3 DEF Waits
  <2> QED
    BY <2>2, <2>3
<1>8. \A x \in IDs : Taken(x)' <=> Taken(x)
  BY <1>1 DEF Taken, InBatch
<1> QED
  BY <1>1, <1>5, <1>6, <1>7, <1>8

\* A pull that takes a request hands it to its batch, or drops it as lapsed.
LEMMA TakeEffect ==
    ASSUME QueueInv, NEW p \in Pulls, Fifo!Take(p)
    PROVE  /\ answer' = answer
           /\ \E h \in IDs :
                  /\ Waits(h)
                  /\ \A x \in IDs : Waits(x)' <=> Waits(x) /\ x # h
                  /\ \/ /\ h \in expired
                        /\ lapsed' = lapsed \cup {h}
                        /\ \A x \in IDs : Taken(x)' <=> Taken(x)
                     \/ /\ h \notin expired
                        /\ lapsed' = lapsed
                        /\ \A x \in IDs : Taken(x)' <=> Taken(x) \/ x = h
           /\ QueueTypes' /\ Filed'
<1> USE HubAssumption
<1> DEFINE k == PullKey[p]
           s == buffer[k]
           h == Head(s)
<1>1. /\ k \in Keys /\ s \in Seq(IDs) /\ s # <<>>
      /\ buffer' = [buffer EXCEPT ![k] = Tail(s)]
      /\ \/ h \in expired /\ lapsed' = lapsed \cup {h} /\ UNCHANGED batch
         \/ h \notin expired /\ batch' = [batch EXCEPT ![p] = Append(@, h)] /\ UNCHANGED lapsed
      /\ UNCHANGED <<answer, ended, expired>>
  BY DEF Fifo!Take, QueueInv, QueueTypes
<1>2. /\ Tail(s) \in Seq(IDs) /\ h \in IDs /\ Holds(s, h) /\ NoDuplicates(Tail(s))
      /\ \A x \in IDs : Holds(Tail(s), x) <=> Holds(s, x) /\ x # h
  BY <1>1, TailHolds DEF QueueInv, Filed
<1>3. ReqKey[h] = k
  BY <1>1, <1>2 DEF QueueInv, Filed
<1>4. /\ buffer'[k] = Tail(s)
      /\ \A j \in Keys : j # k => buffer'[j] = buffer[j]
  BY <1>1 DEF QueueInv, QueueTypes
<1>5. batch[p] \in Seq(IDs)
  BY DEF QueueInv, QueueTypes
<1>6. /\ Append(batch[p], h) \in Seq(IDs)
      /\ \A x \in IDs : Holds(Append(batch[p], h), x) <=> Holds(batch[p], x) \/ x = h
  BY <1>2, <1>5, AppendHolds
<1>7. QueueTypes'
  BY <1>1, <1>2, <1>6 DEF QueueInv, QueueTypes
<1>8. Filed'
  BY <1>2, <1>4 DEF QueueInv, Filed
<1>9. Waits(h)
  BY <1>2, <1>3 DEF Waits
<1>10. ASSUME NEW x \in IDs PROVE Waits(x)' <=> Waits(x) /\ x # h
  <2>1. Waits(x)' <=> Holds(buffer'[ReqKey[x]], x)
    BY DEF Waits
  <2>2. CASE ReqKey[x] = k
    BY <1>2, <1>4, <2>1, <2>2 DEF Waits
  <2>3. CASE ReqKey[x] # k
    BY <1>3, <1>4, <2>1, <2>3 DEF Waits
  <2> QED
    BY <2>2, <2>3
<1>11. CASE h \in expired /\ lapsed' = lapsed \cup {h} /\ UNCHANGED batch
  <2>1. \A x \in IDs : Taken(x)' <=> Taken(x)
    BY <1>11 DEF Taken, InBatch
  <2> QED
    BY <1>1, <1>2, <1>7, <1>8, <1>9, <1>10, <1>11, <2>1
<1>12. CASE h \notin expired /\ batch' = [batch EXCEPT ![p] = Append(@, h)] /\ UNCHANGED lapsed
  <2>1. /\ batch'[p] = Append(batch[p], h)
        /\ \A q \in Pulls \ {p} : batch'[q] = batch[q]
    BY <1>12 DEF QueueInv, QueueTypes
  <2>2. ASSUME NEW x \in IDs PROVE Taken(x)' <=> Taken(x) \/ x = h
    <3>1. Taken(x)' <=> \E q \in Pulls : Holds(batch'[q], x)
      BY DEF Taken, InBatch, Holds
    <3>2. Holds(batch'[p], x) <=> Holds(batch[p], x) \/ x = h
      BY <1>6, <2>1
    <3>3. \A q \in Pulls \ {p} : Holds(batch'[q], x) <=> Holds(batch[q], x)
      BY <2>1
    <3> QED
      BY <3>1, <3>2, <3>3, TakenHolds
  <2> QED
    BY <1>1, <1>2, <1>7, <1>8, <1>9, <1>10, <1>12, <2>2
<1> QED
  BY <1>1, <1>11, <1>12

\* A step that leaves buffers, batches and lapsed requests alone leaves every
\* request where it is.
LEMMA SamePlaces ==
    ASSUME UNCHANGED <<buffer, batch, lapsed>>
    PROVE  /\ \A x \in IDs : (Waits(x)' <=> Waits(x)) /\ (Taken(x)' <=> Taken(x))
           /\ Filed' <=> Filed
BY DEF Waits, Taken, InBatch, Filed

\* Every step of the queues keeps QueueInv.
LEMMA QueueStep == QueueInv /\ [Fifo!Next]_(Fifo!vars) => QueueInv'
<1> SUFFICES ASSUME QueueInv, [Fifo!Next]_(Fifo!vars) PROVE QueueInv'
  OBVIOUS
<1> USE HubAssumption
<1>1. ASSUME NEW r \in IDs, Fifo!Accept(r) PROVE QueueInv'
  BY <1>1, AcceptEffect DEF QueueInv, QueueTypes, Placed
<1>2. ASSUME NEW p \in Pulls, Fifo!Take(p) PROVE QueueInv'
  BY <1>2, TakeEffect DEF QueueInv, QueueTypes, Placed
<1>3. CASE /\ UNCHANGED <<buffer, batch, lapsed>>
           /\ QueueTypes'
           /\ \A r \in IDs : answer[r] = "accepted" => answer'[r] = "accepted"
  BY <1>3, SamePlaces DEF QueueInv, Placed
<1>4. ASSUME NEW r \in IDs, Fifo!Refuse(r) PROVE QueueInv'
  <2>1. /\ UNCHANGED <<buffer, batch, ended, expired, lapsed>> /\ answer[r] = "none"
        /\ answer' = [answer EXCEPT ![r] = "full"]
    BY <1>4 DEF Fifo!Refuse
  <2> QED
    BY <1>3, <2>1 DEF QueueInv, QueueTypes
<1>5. ASSUME NEW p \in Pulls, Fifo!End(p) PROVE QueueInv'
  BY <1>3, <1>5 DEF Fifo!End, QueueInv, QueueTypes
<1>6. ASSUME NEW r \in IDs, Fifo!Expire(r) PROVE QueueInv'
  BY <1>3, <1>6 DEF Fifo!Expire, QueueInv, QueueTypes
<1>7. CASE UNCHANGED Fifo!vars
  BY <1>3, <1>7 DEF Fifo!vars, QueueInv, QueueTypes
<1> QED
  BY <1>1, <1>2, <1>4, <1>5, <1>6, <1>7 DEF Fifo!Next

-----------------------------------------------------------------------------
\* A step of the hub is a step of the store, and a step of the queues, or leaves
\* them as they are.
LEMMA HubStoreStep == [HubNext]_hubVars => [Next]_vars
BY DEF HubNext, hubVars, vars, HandleSubmit, HandleSync, Get, Push, SubmitEnqueue,
       SubmitRefused, SubmitRegister, SyncRegister, SyncEnqueue, SyncRefused, SyncUndo,
       SyncAnswer, GetCall, GetRecheck, GetSelect, GetReturn, Pull, PushResult,
       PushSignal, ExpireRequest, AgeResult, Sweep, Next, GetStep, PutStep

\* A step of the hub is one of the abstract queues, or none.
LEMMA HubQueueStep == [HubNext]_hubVars => [Fifo!Next]_(Fifo!vars)
BY DEF HubNext, hubVars, queueVars, HandleSubmit, HandleSync, Get, Push, SubmitEnqueue,
       SubmitRefused, SubmitRegister, SyncRegister, SyncEnqueue, SyncRefused, SyncUndo,
       SyncAnswer, GetCall, GetRecheck, GetSelect, GetReturn, Pull, PushResult,
       PushSignal, ExpireRequest, AgeResult, Sweep, Fifo!Next, Fifo!vars

\* The hub uses the store as MemoryStore describes it, so what is proved of the
\* store holds in the hub.
THEOREM HubUsesStore == HubSpec => Spec
BY HubStoreStep, PTL DEF HubSpec, HubInit, Spec

\* The hub uses its queues as FifoQueues describes them, which KeyedQueue implements.
THEOREM HubUsesQueues == HubSpec => Fifo!Spec
BY HubQueueStep, PTL DEF HubSpec, HubInit, Fifo!Spec

\* In the hub too no result is lost, none is delivered more than twice, no poll
\* that is alone on its ID loses its wakeup, and none gets another ID's result.
THEOREM StoreInHub ==
    HubSpec => [](StoreFacts /\ DeliveredAtMostTwice /\ NoStrandedWaiter)
BY HubUsesStore, StoreInvariant, AnswersMatchIDs, ResultsNeverLost, WaitersInFlight,
   DeliveriesBounded, SoloPollsAreSignalled, PTL DEF StoreFacts

-----------------------------------------------------------------------------
\* Only the critical section of a Put resolves a request, and it resolves one.
LEMMA PutResolves ==
    ASSUME TypeOK, NEW q \in Puts, PutStore(q)
    PROVE  \A x \in IDs : Resolved(x)' <=> Resolved(x) \/ x = PutID[q]
BY CallAssumption DEF TypeOK, PutStore, Resolved

\* No other step of the hub resolves a request.
LEMMA OthersResolveNothing ==
    ASSUME TypeOK, [HubNext]_hubVars, \A q \in Puts : ~PushResult(q)
    PROVE  \A x \in IDs : Resolved(x)' <=> Resolved(x)
<1>1. (\A q \in Puts : putPC'[q] # "idle" <=> putPC[q] # "idle") \/ UNCHANGED putPC
  BY DEF TypeOK, HubNext, hubVars, vars, HandleSubmit, HandleSync, Get, Push, SubmitEnqueue,
       SubmitRefused, SubmitRegister, SyncRegister, SyncEnqueue, SyncRefused, SyncUndo,
       SyncAnswer, GetCall, GetRecheck, GetSelect, GetReturn, Pull,
       PushSignal, ExpireRequest, AgeResult, Sweep, callVars, RegisterPending, Delete, Age,
       SweepExpired, PutSignal, GetFast, GetUnknown, GetRegister, GetRecheckHit,
       GetRecheckMiss, GetWake, GetTimeout, GetCleanup
<1> QED
  BY <1>1 DEF Resolved

\* What was once taken, resolved, or discarded stays so.
LEMMA Monotone ==
    ASSUME TypeOK, QueueInv, [HubNext]_hubVars
    PROVE  /\ \A x \in IDs : Resolved(x) => Resolved(x)'
           /\ \A x \in IDs : Taken(x) => Taken(x)'
           /\ discarded \subseteq discarded'
<1>1. \A x \in IDs : Taken(x) => Taken(x)'
  <2>1. [Fifo!Next]_(Fifo!vars)
    BY HubQueueStep
  <2>2. ASSUME NEW r \in IDs, Fifo!Accept(r) PROVE \A x \in IDs : Taken(x) => Taken(x)'
    BY <2>2, AcceptEffect
  <2>3. ASSUME NEW p \in Pulls, Fifo!Take(p) PROVE \A x \in IDs : Taken(x) => Taken(x)'
    BY <2>3, TakeEffect
  <2>4. CASE UNCHANGED batch
    BY <2>4 DEF Taken, InBatch
  <2> QED
    BY <2>1, <2>2, <2>3, <2>4
       DEF Fifo!Next, Fifo!vars, Fifo!Refuse, Fifo!End, Fifo!Expire
<1>2. \A x \in IDs : Resolved(x) => Resolved(x)'
  <2>1. CASE \E q \in Puts : PushResult(q)
    BY <2>1, PutResolves DEF PushResult
  <2> QED
    BY <2>1, OthersResolveNothing
<1>3. discarded \subseteq discarded'
  BY HubStoreStep DEF Next, vars, PutStep, GetStep, callVars, RegisterPending, Delete, Age,
       SweepExpired, PutStore, PutSignal, GetFast, GetUnknown, GetRegister, GetRecheckHit,
       GetRecheckMiss, GetWake, GetTimeout, GetCleanup
<1> QED
  BY <1>1, <1>2, <1>3

-----------------------------------------------------------------------------
\* The steps of the submit handlers follow Handled; a push and an undo only take
\* the ID out of pending.
LEMMA HandledStep ==
    ASSUME HubInv, [HubNext]_hubVars
    PROVE  \A r \in IDs : Handled(r)'
<1> USE HubAssumption, CallAssumption
    DEF HubInv, HubTypeOK, QueueInv, QueueTypes, TypeOK, Goto, Answer, Handled
<1>1. ASSUME NEW r \in IDs, SubmitEnqueue(r) PROVE \A x \in IDs : Handled(x)'
  BY <1>1 DEF SubmitEnqueue, Fifo!Accept, vars
<1>2. ASSUME NEW r \in IDs, SubmitRefused(r) PROVE \A x \in IDs : Handled(x)'
  BY <1>2 DEF SubmitRefused, Fifo!Refuse, vars, Registered
<1>3. ASSUME NEW r \in IDs, SubmitRegister(r) PROVE \A x \in IDs : Handled(x)'
  BY <1>3 DEF SubmitRegister, RegisterPending, queueVars, callVars
<1>4. ASSUME NEW r \in IDs, SyncRegister(r) PROVE \A x \in IDs : Handled(x)'
  BY <1>4 DEF SyncRegister, RegisterPending, queueVars, callVars
<1>5. ASSUME NEW r \in IDs, SyncEnqueue(r) PROVE \A x \in IDs : Handled(x)'
  BY <1>5 DEF SyncEnqueue, Fifo!Accept, vars
<1>6. ASSUME NEW r \in IDs, SyncRefused(r) PROVE \A x \in IDs : Handled(x)'
  BY <1>6 DEF SyncRefused, Fifo!Refuse, vars
<1>7. ASSUME NEW r \in IDs, SyncUndo(r) PROVE \A x \in IDs : Handled(x)'
  BY <1>7 DEF SyncUndo, Delete, queueVars, callVars
<1>8. ASSUME NEW r \in IDs, SyncAnswer(r) PROVE \A x \in IDs : Handled(x)'
  BY <1>8 DEF SyncAnswer, queueVars, vars
<1>9. ASSUME UNCHANGED <<handler, reply, answer, submitted>>, pending' \subseteq pending
      PROVE  \A x \in IDs : Handled(x)'
  BY <1>9
<1> HIDE DEF HubInv, HubTypeOK, QueueInv, QueueTypes, TypeOK, Goto, Answer, Handled
<1>10. ASSUME NEW r \in IDs, ExpireRequest(r) \/ AgeResult(r) PROVE \A x \in IDs : Handled(x)'
  BY <1>9, <1>10 DEF ExpireRequest, Fifo!Expire, AgeResult, Age, vars, callVars,
                     queueVars, submitVars
<1>11. ASSUME NEW g \in Gets, Get(g) PROVE \A x \in IDs : Handled(x)'
  BY <1>9, <1>11 DEF Get, GetCall, GetRecheck, GetSelect, GetReturn, GetFast, GetUnknown,
       GetRegister, GetRecheckHit, GetRecheckMiss, GetWake, GetTimeout, GetCleanup,
       storeVars, queueVars, submitVars
<1>12. ASSUME NEW p \in Pulls, Pull(p) PROVE \A x \in IDs : Handled(x)'
  BY <1>9, <1>12 DEF Pull, Fifo!Take, Fifo!End, vars, queueVars, submitVars
<1>13. ASSUME NEW q \in Puts, Push(q) PROVE \A x \in IDs : Handled(x)'
  BY <1>9, <1>13 DEF Push, PushResult, PushSignal, PutStore, PutSignal, queueVars, submitVars
<1>14. CASE Sweep \/ UNCHANGED hubVars
  BY <1>9, <1>14 DEF Sweep, SweepExpired, hubVars, callVars, queueVars, submitVars
<1> QED
  BY <1>1, <1>2, <1>3, <1>4, <1>5, <1>6, <1>7, <1>8, <1>10, <1>11, <1>12, <1>13, <1>14
     DEF HubNext, HandleSubmit, HandleSync

\* What a submission has come to is not taken back.
LEMMA Settled ==
    ASSUME HubInv, [HubNext]_hubVars, NEW r \in IDs
    PROVE  /\ answer[r] = "accepted" => answer'[r] = "accepted"
           /\ reply[r] # "none" => reply'[r] = reply[r]
           /\ handler[r] \in {"get", "done"} => handler'[r] \in {"get", "done"}
           /\ handler'[r] = "new" => handler[r] = "new"
<1>1. Handled(r) /\ answer \in [IDs -> {"none", "accepted", "full"}]
      /\ handler \in [IDs -> {"new", "enqueue", "register", "undo", "get", "done"}]
      /\ reply \in [IDs -> {"none", "200", "202", "500", "503"}]
  BY DEF HubInv, HubTypeOK, QueueTypes
<1> USE DEF Handled, Goto, Answer
<1>2. answer[r] = "accepted" => answer'[r] = "accepted"
  BY <1>1, HubQueueStep DEF Fifo!Next, Fifo!vars, Fifo!Accept, Fifo!Refuse, Fifo!Take,
                            Fifo!End, Fifo!Expire
<1>3. ASSUME NEW x \in IDs, HandleSubmit(x) \/ HandleSync(x)
      PROVE  /\ reply[r] # "none" => reply'[r] = reply[r]
             /\ handler[r] \in {"get", "done"} => handler'[r] \in {"get", "done"}
             /\ handler'[r] = "new" => handler[r] = "new"
  BY <1>1, <1>3 DEF HandleSubmit, HandleSync, SubmitEnqueue, SubmitRefused, SubmitRegister,
       SyncRegister, SyncEnqueue, SyncRefused, SyncUndo, SyncAnswer
<1>4. CASE ~\E x \in IDs : HandleSubmit(x) \/ HandleSync(x)
  <2>1. UNCHANGED submitVars
    BY <1>4 DEF HubNext, hubVars, submitVars, Get, Push, GetCall, GetRecheck, GetSelect,
                GetReturn, Pull, PushResult, PushSignal, ExpireRequest,
                AgeResult, Sweep
  <2> QED
    BY <1>2, <2>1 DEF submitVars
<1> QED
  BY <1>2, <1>3, <1>4

\* Registering makes an ID pending, a push resolves it, and only a refusal takes a
\* registration back.
LEMMA RegisteredStep ==
    ASSUME HubInv, [HubNext]_hubVars
    PROVE  \A r \in IDs : Registered(r)'
<1> USE HubAssumption, CallAssumption
<1>1. /\ TypeOK /\ QueueInv /\ \A x \in IDs : Registered(x) /\ Handled(x)
      /\ handler \in [IDs -> {"new", "enqueue", "register", "undo", "get", "done"}]
      /\ reply \in [IDs -> {"none", "200", "202", "500", "503"}]
  BY DEF HubInv, HubTypeOK
<1>2. \A x \in IDs : (Resolved(x) => Resolved(x)') /\ (handler'[x] = "new" => handler[x] = "new")
  BY <1>1, Monotone, Settled
<1>3. ASSUME NEW q \in Puts, PushResult(q) PROVE \A x \in IDs : Registered(x)'
  <2>1. \A x \in IDs : Resolved(x)' <=> Resolved(x) \/ x = PutID[q]
    BY <1>1, <1>3, PutResolves DEF PushResult
  <2>2. handler'[PutID[q]] # "new" /\ PutID[q] \in IDs
    BY <1>3 DEF PushResult, submitVars
  <2>3. /\ pending' = pending \ {PutID[q]} /\ submitted' = submitted
        /\ reply' = reply
    BY <1>3 DEF PushResult, PutStore, submitVars
  <2> QED
    BY <1>1, <1>2, <2>1, <2>2, <2>3 DEF Registered
<1>4. CASE \A q \in Puts : ~PushResult(q)
  <2>1. \A x \in IDs : Resolved(x)' <=> Resolved(x)
    BY <1>1, <1>4, OthersResolveNothing
  <2>2. ASSUME UNCHANGED <<pending, submitted>>,
               \A x \in IDs : reply'[x] = reply[x] \/ reply'[x] = "503" \/ reply[x] # "503"
        PROVE  \A x \in IDs : Registered(x)'
    BY <1>1, <1>2, <2>1, <2>2 DEF Registered
  <2>3. ASSUME NEW r \in IDs, RegisterPending(r),
               \A x \in IDs : reply'[x] = reply[x] \/ x = r
        PROVE  \A x \in IDs : Registered(x)'
    BY <1>1, <1>2, <2>1, <2>3 DEF Registered, RegisterPending
  <2>4. ASSUME NEW r \in IDs, SubmitRegister(r) \/ SyncRegister(r)
        PROVE  \A x \in IDs : Registered(x)'
    BY <1>1, <2>3, <2>4 DEF SubmitRegister, SyncRegister, Answer, Goto
  <2>5. ASSUME NEW r \in IDs, SyncUndo(r) PROVE \A x \in IDs : Registered(x)'
    BY <1>1, <1>2, <2>1, <2>5 DEF Registered, SyncUndo, Delete, Answer, Goto
  <2>6. ASSUME NEW r \in IDs, SubmitEnqueue(r) \/ SyncEnqueue(r) \/ SyncRefused(r)
        PROVE  \A x \in IDs : Registered(x)'
    BY <2>2, <2>6 DEF SubmitEnqueue, SyncEnqueue, SyncRefused, vars
  <2>7. ASSUME NEW r \in IDs, SubmitRefused(r) \/ SyncAnswer(r)
        PROVE  \A x \in IDs : Registered(x)'
    BY <1>1, <2>2, <2>7 DEF SubmitRefused, SyncAnswer, Answer, Goto, vars, Handled
  <2>8. ASSUME NEW g \in Gets, Get(g) PROVE \A x \in IDs : Registered(x)'
    BY <2>2, <2>8 DEF Get, GetCall, GetRecheck, GetSelect, GetReturn, GetFast, GetUnknown,
       GetRegister, GetRecheckHit, GetRecheckMiss, GetWake, GetTimeout, GetCleanup,
       storeVars, submitVars
  <2>9. CASE \E r \in IDs : ExpireRequest(r) \/ AgeResult(r)
    BY <2>2, <2>9 DEF ExpireRequest, AgeResult, Age, vars, submitVars
  <2>10. CASE \E p \in Pulls : Pull(p)
    BY <2>2, <2>10 DEF Pull, vars, submitVars
  <2>11. CASE \E q \in Puts : PushSignal(q)
    BY <2>2, <2>11 DEF PushSignal, PutSignal, submitVars
  <2>12. CASE Sweep \/ UNCHANGED hubVars
    BY <2>2, <2>12 DEF Sweep, SweepExpired, hubVars, submitVars
  <2> QED
    BY <1>4, <2>4, <2>5, <2>6, <2>7, <2>8, <2>9, <2>10, <2>11, <2>12
       DEF HubNext, HandleSubmit, HandleSync, Push
<1> QED
  BY <1>3, <1>4

\* A step either leaves every Get alone or is a step of one Get.
LEMMA OneGetMoves ==
    ASSUME HubInv, [HubNext]_hubVars
    PROVE  \/ \E g \in Gets : Get(g) /\ GetStep(g)
           \/ UNCHANGED <<getPC, outcome>>
BY DEF HubNext, hubVars, vars, HandleSubmit, HandleSync, Get, Push, SubmitEnqueue,
       SubmitRefused, SubmitRegister, SyncRegister, SyncEnqueue, SyncRefused, SyncUndo,
       SyncAnswer, GetCall, GetRecheck, GetSelect, GetReturn, Pull, PushResult,
       PushSignal, ExpireRequest, AgeResult, Sweep, GetStep, callVars, RegisterPending,
       Delete, Age, SweepExpired, PutStore, PutSignal

\* What a step of a Get does to the places and the outcomes of the Gets.
LEMMA GetEffect ==
    ASSUME TypeOK, NEW g \in Gets, GetStep(g)
    PROVE  /\ \A h \in Gets : h # g => getPC'[h] = getPC[h] /\ outcome'[h] = outcome[h]
           /\ getPC'[g] # "idle"
           /\ getPC[g] = "idle" => GetFast(g) \/ GetUnknown(g) \/ GetRegister(g)
           /\ outcome'[g].kind = "unknown" => outcome[g].kind = "unknown" \/ GetUnknown(g)
           /\ UNCHANGED <<pending, submitted, discarded, putPC, target>>
BY DEF TypeOK, GetStep, GetFast, GetUnknown, GetRegister, GetRecheckHit, GetRecheckMiss,
       GetWake, GetTimeout, GetCleanup, Take, storeVars

\* A Get that begins was called by a client that was told 202, or by a handler
\* that had its request accepted.
LEMMA CallJustified ==
    ASSUME HubInv, NEW g \in Gets, MayCall(g)
    PROVE  /\ GetID[g] \in IDs
           /\ answer[GetID[g]] = "accepted"
           /\ GetID[g] \in submitted /\ reply[GetID[g]] # "503"
           /\ IF g \in PollGets THEN reply[GetID[g]] = "202"
                                ELSE handler[GetID[g]] = "get" /\ reply[GetID[g]] = "none"
BY CallAssumption, HubAssumption DEF HubInv, HubTypeOK, MayCall, Handled

\* The call of a Get: the actions of the store that leave "idle".
LEMMA GetCalls ==
    ASSUME TypeOK, NEW g \in Gets, Get(g), getPC[g] = "idle"
    PROVE  MayCall(g)
BY DEF Get, GetCall, GetRecheck, GetSelect, GetReturn, GetRecheckHit, GetRecheckMiss, GetWake,
       GetTimeout, GetCleanup

\* Every step keeps the Gets where their handlers need them.
LEMMA PolledStep ==
    ASSUME HubInv, [HubNext]_hubVars
    PROVE  \A g \in Gets : Polled(g)' /\ UnknownResolved(g)'
<1> USE CallAssumption
<1>1. /\ TypeOK /\ QueueInv /\ \A x \in IDs : Registered(x)
      /\ \A g \in Gets : Polled(g) /\ UnknownResolved(g)
      /\ \A g \in Gets : GetID[g] \in IDs
  BY DEF HubInv, HubTypeOK
<1>2. \A x \in IDs : Resolved(x) => Resolved(x)'
  BY <1>1, Monotone
<1>3. \A x \in IDs : /\ answer[x] = "accepted" => answer'[x] = "accepted"
                     /\ reply[x] # "none" => reply'[x] = reply[x]
                     /\ handler[x] \in {"get", "done"} => handler'[x] \in {"get", "done"}
  BY Settled
<1>4. ASSUME NEW h \in Gets, getPC'[h] = getPC[h], outcome'[h] = outcome[h]
      PROVE  Polled(h)' /\ UnknownResolved(h)'
  BY <1>1, <1>2, <1>3, <1>4 DEF Polled, UnknownResolved
<1>5. ASSUME NEW g \in Gets, Get(g), GetStep(g)
      PROVE  Polled(g)' /\ UnknownResolved(g)'
  <2>1. CASE getPC[g] # "idle"
    <3>1. ~GetUnknown(g)
      BY <2>1 DEF GetUnknown
    <3> QED
      BY <1>1, <1>2, <1>3, <1>5, <2>1, <3>1, GetEffect DEF Polled, UnknownResolved
  <2>2. CASE getPC[g] = "idle"
    <3>1. MayCall(g)
      BY <1>1, <1>5, <2>2, GetCalls
    <3>2. Polled(g)'
      BY <1>3, <3>1, CallJustified DEF Polled
    <3>3. GetUnknown(g) => Resolved(GetID[g])
      BY <1>1, <3>1, CallJustified DEF GetUnknown, Registered
    <3> QED
      BY <1>1, <1>2, <1>5, <3>2, <3>3, GetEffect DEF UnknownResolved
  <2> QED
    BY <2>1, <2>2
<1>6. CASE \E g \in Gets : Get(g) /\ GetStep(g)
  BY <1>1, <1>4, <1>5, <1>6, GetEffect
<1>7. CASE UNCHANGED <<getPC, outcome>>
  BY <1>4, <1>7
<1> QED
  BY <1>6, <1>7, OneGetMoves

\* The places of the handlers, and the replies keep their types.
LEMMA HubTypeStep ==
    ASSUME HubInv, TypeOK', [HubNext]_hubVars
    PROVE  HubTypeOK' /\ QueueInv'
<1>1. QueueInv'
  BY HubQueueStep, QueueStep DEF HubInv
<1>2. /\ handler' \in [IDs -> {"new", "enqueue", "register", "undo", "get", "done"}]
      /\ reply' \in [IDs -> {"none", "200", "202", "500", "503"}]
  BY DEF HubInv, HubTypeOK, HubNext, hubVars, HandleSubmit, HandleSync, Get, Push,
       SubmitEnqueue, SubmitRefused, SubmitRegister, SyncRegister, SyncEnqueue, SyncRefused,
       SyncUndo, SyncAnswer, GetCall, GetRecheck, GetSelect, GetReturn, Pull,
       PushResult, PushSignal, ExpireRequest, AgeResult, Sweep, Goto, Answer, submitVars
<1> QED
  BY <1>1, <1>2 DEF HubTypeOK, QueueInv

\* The initial states.
LEMMA HubInvInit == HubInit => HubInv
<1> SUFFICES ASSUME HubInit PROVE HubInv
  OBVIOUS
<1> USE HubAssumption, CallAssumption DEF HubInit, Init, Fifo!Init
<1>1. TypeOK
  BY DEF TypeOK, Outcome, NoOutcome
<1>2. HubTypeOK
  BY <1>1 DEF HubTypeOK, QueueTypes
<1>3. QueueInv
  <2>1. ASSUME NEW r \in IDs PROVE ~Waits(r) /\ ~Taken(r) /\ r \notin lapsed
    <3>1. buffer[ReqKey[r]] = <<>> /\ \A p \in Pulls : batch[p] = <<>>
      OBVIOUS
    <3> QED
      BY <3>1, EmptyHolds, TakenHolds DEF Waits
  <2>2. Filed
    BY EmptyHolds DEF Filed
  <2> QED
    BY <1>2, <2>1, <2>2 DEF QueueInv, HubTypeOK, Placed
<1>4. \A r \in IDs : Handled(r) /\ Registered(r)
  BY DEF Handled, Registered, Resolved
<1>5. \A g \in Gets : Polled(g) /\ UnknownResolved(g)
  BY DEF Polled, UnknownResolved, NoOutcome
<1> QED
  BY <1>2, <1>3, <1>4, <1>5 DEF HubInv

\* Every step keeps the invariant.
LEMMA HubInvStep == HubInv /\ TypeOK' /\ [HubNext]_hubVars => HubInv'
BY HubTypeStep, HandledStep, RegisteredStep, PolledStep DEF HubInv

\* HubInv holds in every reachable state of the hub, and with it the types.
THEOREM HubInvariant == HubSpec => []HubInv
<1>1. HubSpec => []TypeOK
  BY HubUsesStore, TypeInvariant, PTL
<1> QED
  BY <1>1, HubInvInit, HubInvStep, PTL DEF HubSpec

\* The handlers keep to their types: a batch is a sequence of requests, and an
\* answer one that the handler can give.
THEOREM HubTypeCorrect == HubSpec => []HubTypeOK
BY HubInvariant, PTL DEF HubInv

-----------------------------------------------------------------------------
\* A refused submission leaves nothing behind: a place in a queue, a batch or a
\* waiter would each mean that its producer was told "accepted".
THEOREM RefusalsLeaveNoTrace == HubSpec => []RefusedLeavesNoTrace
<1>1. HubInv /\ StoreFacts => RefusedLeavesNoTrace
  <2> USE CallAssumption
  <2> SUFFICES ASSUME HubInv, StoreFacts, NEW r \in IDs, reply[r] = "503"
               PROVE  /\ r \notin pending
                      /\ \A i \in DOMAIN buffer[ReqKey[r]] : buffer[ReqKey[r]][i] # r
                      /\ ~Taken(r)
                      /\ waiters[r] = NoGet
    BY DEF RefusedLeavesNoTrace
  <2>1. answer[r] = "full" /\ r \notin pending
    BY DEF HubInv, HubTypeOK, Handled
  <2>2. ~Waits(r) /\ ~Taken(r)
    BY <2>1 DEF HubInv, QueueInv, Placed
  <2>3. waiters[r] = NoGet
    <3>1. waiters[r] # NoGet =>
              waiters[r] \in Gets /\ GetID[waiters[r]] = r /\ getPC[waiters[r]] # "idle"
      BY DEF StoreFacts, StoreInv, TypeOK, NoDanglingWaiter, InFlight
    <3> QED
      BY <2>1, <3>1 DEF HubInv, Polled
  <2> QED
    BY <2>1, <2>2, <2>3 DEF Waits, Holds
<1> QED
  BY <1>1, HubInvariant, StoreInHub, PTL

\* An ID of a synchronous submission becomes pending with its first step, when
\* nobody can name it, and stays so only until the first push of a result.
THEOREM SyncPendingUntilResolved == HubSpec => []SyncPendingUnresolved
<1>1. HubInit => SyncPendingUnresolved
  BY DEF HubInit, Init, SyncPendingUnresolved
<1>2. HubInv /\ SyncPendingUnresolved /\ [HubNext]_hubVars => SyncPendingUnresolved'
  <2> SUFFICES ASSUME HubInv, SyncPendingUnresolved, [HubNext]_hubVars,
                      NEW r \in Sync, r \in pending'
               PROVE  ~Resolved(r)'
    BY DEF SyncPendingUnresolved
  <2>1. TypeOK /\ r \in IDs
    BY HubAssumption DEF HubInv, HubTypeOK
  <2>2. ASSUME NEW q \in Puts, PushResult(q) PROVE ~Resolved(r)'
    <3>1. r # PutID[q] /\ r \in pending
      BY <2>2 DEF PushResult, PutStore
    <3> QED
      BY <2>1, <2>2, <3>1, PutResolves DEF PushResult, SyncPendingUnresolved
  <2>3. CASE \A q \in Puts : ~PushResult(q)
    <3>1. Resolved(r)' <=> Resolved(r)
      BY <2>1, <2>3, OthersResolveNothing
    <3>2. CASE r \in pending
      BY <3>1, <3>2 DEF SyncPendingUnresolved
    <3>3. CASE r \notin pending
      <4>1. SyncRegister(r) \/ SubmitRegister(r)
        BY <2>3, <3>3 DEF HubNext, hubVars, vars, HandleSubmit, HandleSync, Get, Push,
           SubmitEnqueue, SubmitRefused, SubmitRegister, SyncRegister, SyncEnqueue,
           SyncRefused, SyncUndo, SyncAnswer, GetCall, GetRecheck, GetSelect, GetReturn,
           Pull, PushSignal, ExpireRequest, AgeResult, Sweep, storeVars,
           RegisterPending, Delete, Age, SweepExpired, PutSignal, GetFast, GetUnknown,
           GetRegister, GetRecheckHit, GetRecheckMiss, GetWake, GetTimeout, GetCleanup
      <4>2. handler[r] = "new"
        BY <2>1, <4>1 DEF HubInv, Handled, SyncRegister, SubmitRegister
      <4> QED
        BY <2>1, <3>1, <4>2 DEF HubInv, Registered
    <3> QED
      BY <3>2, <3>3
  <2> QED
    BY <2>2, <2>3
<1> QED
  BY <1>1, <1>2, HubInvariant, PTL DEF HubSpec

\* When the Get of a HandleSync finds its ID neither stored nor pending, its result
\* came and was discarded: nobody else can have read it, since nobody else was
\* given the ID.
LEMMA SyncReadsItsOwn ==
    ASSUME HubInv, StoreFacts, NEW r \in Sync, GetUnknown(SyncGet[r]), MayCall(SyncGet[r])
    PROVE  \E q \in Puts : PutID[q] = r /\ q \in discarded
<1> DEFINE g == SyncGet[r]
<1>1. g \in Gets /\ GetID[g] = r /\ g \notin PollGets /\ r \in IDs
  BY HubAssumption DEF PollGets
<1>2. handler[r] = "get" /\ reply[r] = "none" /\ r \in submitted
  BY <1>1, CallJustified
<1>3. PICK q \in Puts : PutID[q] = r /\ putPC[q] # "idle"
  BY <1>1, <1>2 DEF HubInv, Registered, Resolved, GetUnknown
<1>4. results[r] # q
  BY <1>1, <1>3, CallAssumption DEF GetUnknown, Stored
<1>5. ASSUME NEW h \in Gets, outcome[h].put = q PROVE FALSE
  <2>1. GetID[h] = r /\ getPC[h] # "idle"
    BY <1>3, <1>5, CallAssumption DEF StoreFacts, AnswersInv, OutcomeAnswers, StoreInv,
       Provenance, OutcomeFinal, NoOutcome
  <2>2. h \notin PollGets
    BY <1>1, <1>2, <2>1 DEF HubInv, Polled
  <2>3. h = g
    BY <2>1, <2>2, HubAssumption DEF PollGets
  <2> QED
    BY <2>1, <2>3 DEF GetUnknown
<1> QED
  BY <1>3, <1>4, <1>5 DEF StoreFacts, NoLostResult

\* A synchronous submission is answered 500 only when its result was swept.
THEOREM SyncUnknownMeansSwept == HubSpec => []SyncUnknownOnlyIfSwept
<1>1. HubInit => SyncUnknownOnlyIfSwept
  BY HubAssumption DEF HubInit, Init, SyncUnknownOnlyIfSwept, NoOutcome
<1>2. HubInv /\ StoreFacts /\ SyncUnknownOnlyIfSwept /\ [HubNext]_hubVars
          => SyncUnknownOnlyIfSwept'
  <2> SUFFICES ASSUME HubInv, StoreFacts, SyncUnknownOnlyIfSwept, [HubNext]_hubVars,
                      NEW r \in Sync, outcome'[SyncGet[r]].kind = "unknown"
               PROVE  \E q \in Puts : PutID[q] = r /\ q \in discarded'
    BY DEF SyncUnknownOnlyIfSwept
  <2>1. TypeOK /\ QueueInv /\ SyncGet[r] \in Gets
    BY HubAssumption DEF HubInv, HubTypeOK
  <2>2. discarded \subseteq discarded'
    BY <2>1, Monotone
  <2>3. CASE outcome[SyncGet[r]].kind = "unknown"
    BY <2>2, <2>3 DEF SyncUnknownOnlyIfSwept
  <2>4. CASE outcome[SyncGet[r]].kind # "unknown"
    <3>1. Get(SyncGet[r]) /\ GetUnknown(SyncGet[r])
      BY <2>1, <2>4, OneGetMoves, GetEffect
    <3>2. MayCall(SyncGet[r])
      BY <2>1, <3>1, GetCalls DEF GetUnknown
    <3> QED
      BY <2>2, <3>1, <3>2, SyncReadsItsOwn
  <2> QED
    BY <2>3, <2>4
<1> QED
  BY <1>1, <1>2, HubInvariant, StoreInHub, PTL DEF HubSpec

-----------------------------------------------------------------------------
\* The status of a request, as nested conditions.
StatusOf(r) ==
    IF Taken(r) THEN "taken"
    ELSE IF r \in lapsed THEN "lapsed"
    ELSE IF answer[r] = "full" THEN "refused"
    ELSE IF answer[r] = "none" THEN "new" ELSE "queued"

\* The status is the one of the nested conditions, now ...
LEMMA StatusIs == HubInv => Status = [r \in IDs |-> StatusOf(r)]
<1> SUFFICES ASSUME HubInv PROVE Status = [r \in IDs |-> StatusOf(r)]
  OBVIOUS
<1>1. ASSUME NEW r \in IDs PROVE Status[r] = StatusOf(r)
  BY DEF HubInv, QueueInv, Placed, Registered, Status, StatusOf
<1>2. Status = [r \in IDs |-> Status[r]]
  BY DEF Status
<1> QED
  BY <1>1, <1>2

\* ... and after a step.
LEMMA StatusNext == HubInv' => Status' = [r \in IDs |-> StatusOf(r)']
<1>1. (HubInv => Status = [r \in IDs |-> StatusOf(r)])'
  BY StatusIs, PTL
<1> QED
  BY <1>1

\* A request whose place did not change has the status it had.
LEMMA StatusKept ==
    ASSUME NEW r \in IDs, Taken(r)' <=> Taken(r),
           r \in lapsed' <=> r \in lapsed, answer'[r] = answer[r]
    PROVE  StatusOf(r)' = StatusOf(r)
BY DEF StatusOf

\* When one request moves and the others do not, Status changes in one place.
LEMMA StatusMoves ==
    ASSUME HubInv, HubInv', NEW r \in IDs, NEW to, StatusOf(r)' = to,
           \A x \in IDs : x # r => StatusOf(x)' = StatusOf(x)
    PROVE  Status' = [Status EXCEPT ![r] = to]
BY StatusIs, StatusNext

\* When none moves, Status stays.
LEMMA StatusStays ==
    ASSUME HubInv, HubInv', \A x \in IDs : StatusOf(x)' = StatusOf(x)
    PROVE  Status' = Status
BY StatusIs, StatusNext

\* The verdict as nested conditions, now ...
LEMMA VerdictIs ==
    Verdict = [g \in Gets |->
        IF outcome[g].kind = "none" THEN "none"
        ELSE IF outcome[g].kind = "unknown" THEN "unknown"
        ELSE IF outcome[g].kind = "timeout" THEN "later" ELSE "result"]
BY DEF Verdict

\* ... and after a step.
LEMMA VerdictNext ==
    Verdict' = [g \in Gets |->
        IF outcome'[g].kind = "none" THEN "none"
        ELSE IF outcome'[g].kind = "unknown" THEN "unknown"
        ELSE IF outcome'[g].kind = "timeout" THEN "later" ELSE "result"]
BY DEF Verdict

\* The resolved requests, as Broker sees them, change only with the Puts.
LEMMA ResolvedKept ==
    ASSUME \A x \in IDs : Resolved(x)' <=> Resolved(x)
    PROVE  {r \in IDs : Resolved(r)}' = {r \in IDs : Resolved(r)}
OBVIOUS

\* A request moves on when it enters a queue ...
LEMMA EnqueueProgress ==
    ASSUME HubInv, HubInv', NEW r \in IDs, Fifo!Accept(r), UNCHANGED <<vars, reply>>
    PROVE  Hub!Enqueue(r)
<1>1. QueueInv
  BY DEF HubInv
<1>2. /\ \A x \in IDs : (Taken(x)' <=> Taken(x)) /\ (x \in lapsed' <=> x \in lapsed)
      /\ answer[r] = "none" /\ answer'[r] = "accepted"
      /\ \A x \in IDs : x # r => answer'[x] = answer[x]
  BY <1>1, AcceptEffect DEF QueueInv, QueueTypes
<1>3. \A x \in IDs : Resolved(x)' <=> Resolved(x)
  BY DEF vars, Resolved
<1>4. StatusOf(r) = "new" /\ StatusOf(r)' = "queued"
  BY <1>1, <1>2 DEF StatusOf, QueueInv, Placed
<1>5. \A x \in IDs : x # r => StatusOf(x)' = StatusOf(x)
  BY <1>2, StatusKept
<1>6. Status' = [Status EXCEPT ![r] = "queued"] /\ Status[r] = "new"
  BY <1>4, <1>5, StatusMoves, StatusIs
<1>7. Verdict' = Verdict /\ expired' = expired
  BY VerdictIs, VerdictNext DEF vars, Fifo!Accept
<1> QED
  BY <1>3, <1>6, <1>7, ResolvedKept DEF Hub!Enqueue, Hub!Advance

\* ... and when a pull takes it out, in time or not.
LEMMA TakeProgress ==
    ASSUME HubInv, HubInv', NEW p \in Pulls, Fifo!Take(p), UNCHANGED <<vars, reply>>
    PROVE  \E r \in IDs : Hub!HandOut(r) \/ Hub!Lapse(r)
<1>1. QueueInv
  BY DEF HubInv
<1>2. answer' = answer /\ expired' = expired
  BY <1>1, TakeEffect DEF Fifo!Take
<1>3. PICK h \in IDs :
          /\ Waits(h)
          /\ \/ /\ h \in expired
                /\ lapsed' = lapsed \cup {h}
                /\ \A x \in IDs : Taken(x)' <=> Taken(x)
             \/ /\ h \notin expired
                /\ lapsed' = lapsed
                /\ \A x \in IDs : Taken(x)' <=> Taken(x) \/ x = h
  BY <1>1, TakeEffect
<1>4. \A x \in IDs : Resolved(x)' <=> Resolved(x)
  BY DEF vars, Resolved
<1>5. ~Taken(h) /\ h \notin lapsed /\ answer[h] = "accepted"
  BY <1>1, <1>3 DEF QueueInv, Placed
<1>6. /\ StatusOf(h) = "queued"
      /\ h \in expired => StatusOf(h)' = "lapsed"
      /\ h \notin expired => StatusOf(h)' = "taken"
  BY <1>2, <1>3, <1>5 DEF StatusOf
<1>7. \A x \in IDs : x # h => StatusOf(x)' = StatusOf(x)
  BY <1>2, <1>3, StatusKept
<1>8. /\ Status[h] = "queued"
      /\ h \in expired => Status' = [Status EXCEPT ![h] = "lapsed"]
      /\ h \notin expired => Status' = [Status EXCEPT ![h] = "taken"]
  BY <1>6, <1>7, StatusMoves, StatusIs
<1>9. Verdict' = Verdict
  BY VerdictIs, VerdictNext DEF vars
<1> QED
  BY <1>2, <1>4, <1>8, <1>9, ResolvedKept DEF Hub!HandOut, Hub!Lapse, Hub!Advance

\* A push resolves the request it names, wherever that request is.
LEMMA PushProgress ==
    ASSUME HubInv, HubInv', NEW q \in Puts, PushResult(q)
    PROVE  Hub!Resolve(PutID[q])
<1> DEFINE r == PutID[q]
<1>1. TypeOK /\ r \in IDs /\ PutStore(q)
  BY CallAssumption DEF HubInv, HubTypeOK, PushResult
<1>2. \A x \in IDs : Resolved(x)' <=> Resolved(x) \/ x = r
  BY <1>1, PutResolves
<1>3. UNCHANGED <<reply, answer, lapsed, batch, expired, outcome>>
  BY <1>1 DEF PushResult, PutStore, queueVars, submitVars
<1>4. \A x \in IDs : Taken(x)' <=> Taken(x)
  BY <1>3 DEF Taken, InBatch
<1>5. Status' = Status
  BY <1>3, <1>4, StatusKept, StatusStays
<1>6. Verdict' = Verdict
  BY <1>3, VerdictIs, VerdictNext
<1>7. {x \in IDs : Resolved(x)}' = {x \in IDs : Resolved(x)} \cup {r}
  BY <1>1, <1>2
<1> QED
  BY <1>3, <1>5, <1>6, <1>7 DEF Hub!Resolve

\* The clock only makes a request overdue.
LEMMA ExpiryProgress ==
    ASSUME HubInv, HubInv', NEW r \in IDs, ExpireRequest(r)
    PROVE  Hub!Expire(r)
<1>1. UNCHANGED <<batch, lapsed, answer, reply, outcome, putPC>> /\ expired' = expired \cup {r}
  BY DEF ExpireRequest, Fifo!Expire, vars, submitVars
<1>2. \A x \in IDs : (Taken(x)' <=> Taken(x)) /\ (Resolved(x)' <=> Resolved(x))
  BY <1>1 DEF Taken, InBatch, Resolved
<1>3. Status' = Status
  BY <1>1, <1>2, StatusKept, StatusStays
<1>4. Verdict' = Verdict
  BY <1>1, VerdictIs, VerdictNext
<1> QED
  BY <1>1, <1>2, <1>3, <1>4, ResolvedKept DEF Hub!Expire

\* A full queue refuses: the client is told at once, or after the registration of
\* its ID is taken back.
LEMMA RefuseRefused ==
    ASSUME HubInv, HubInv', NEW r \in IDs, Fifo!Refuse(r), UNCHANGED vars,
           reply' \in {reply, [reply EXCEPT ![r] = "503"]}
    PROVE  Hub!Refuse(r)
<1>1. QueueInv
  BY DEF HubInv
<1>2. /\ \A x \in IDs : (Taken(x)' <=> Taken(x)) /\ (x \in lapsed' <=> x \in lapsed)
      /\ answer[r] = "none" /\ answer'[r] = "full"
      /\ \A x \in IDs : x # r => answer'[x] = answer[x]
  BY <1>1, SamePlaces DEF Fifo!Refuse, QueueInv, QueueTypes
<1>3. \A x \in IDs : Resolved(x)' <=> Resolved(x)
  BY DEF vars, Resolved
<1>4. StatusOf(r) = "new" /\ StatusOf(r)' = "refused"
  BY <1>1, <1>2 DEF StatusOf, QueueInv, Placed
<1>5. \A x \in IDs : x # r => StatusOf(x)' = StatusOf(x)
  BY <1>2, StatusKept
<1>6. Status' = [Status EXCEPT ![r] = "refused"] /\ Status[r] = "new"
  BY <1>4, <1>5, StatusMoves, StatusIs
<1>7. Verdict' = Verdict /\ expired' = expired
  BY VerdictIs, VerdictNext DEF vars, Fifo!Refuse
<1> QED
  BY <1>3, <1>6, <1>7, ResolvedKept DEF Hub!Refuse

-----------------------------------------------------------------------------
\* Steps that move no request.
LEMMA StatusSteady ==
    ASSUME HubInv, HubInv', UNCHANGED <<batch, lapsed, answer>>
    PROVE  Status' = Status
<1>1. \A x \in IDs : Taken(x)' <=> Taken(x)
  BY DEF Taken, InBatch
<1> QED
  BY <1>1, StatusKept, StatusStays

\* An accepted request is neither new nor refused.
LEMMA AcceptedLive ==
    ASSUME HubInv, NEW r \in IDs, answer[r] = "accepted"
    PROVE  Hub!Live(r)
<1>1. StatusOf(r) \notin {"new", "refused"}
  BY DEF StatusOf
<1> QED
  BY <1>1, StatusIs DEF Hub!Live

\* An outcome that carries a result, or says that the ID is unknown, is about a
\* resolved request.
OutcomesResolved ==
    \A g \in Gets : outcome[g].kind \in {"map", "chan", "unknown"} => Resolved(GetID[g])

\* HubInv and the facts of the store make it so.
LEMMA OutcomeResolved == HubInv /\ StoreFacts => OutcomesResolved
<1> SUFFICES ASSUME HubInv, StoreFacts, NEW g \in Gets,
                    outcome[g].kind \in {"map", "chan", "unknown"}
             PROVE  Resolved(GetID[g])
  BY DEF OutcomesResolved
<1>1. outcome[g].kind \in {"map", "chan"} =>
          outcome[g].put \in Puts /\ PutID[outcome[g].put] = GetID[g]
          /\ putPC[outcome[g].put] # "idle"
  BY CallAssumption DEF StoreFacts, AnswersInv, OutcomeAnswers, OutcomeShape, StoreInv, TypeOK, Outcome,
         Provenance, OutcomeSource
<1> QED
  BY <1>1 DEF HubInv, UnknownResolved, Resolved

\* The answer of each handler is one the status of its request allows.
LEMMA HandlerTells ==
    ASSUME HubInv, HubInv', StoreFacts, NEW r \in IDs,
           SubmitRegister(r) \/ SyncUndo(r) \/ SyncAnswer(r)
    PROVE  Hub!Tell(r)
<1>1. /\ Handled(r) /\ reply \in [IDs -> {"none", "200", "202", "500", "503"}]
      /\ TypeOK
  BY DEF HubInv, HubTypeOK
<1>2. UNCHANGED <<batch, lapsed, expired, answer, putPC, outcome>>
  BY DEF SubmitRegister, SyncUndo, SyncAnswer, RegisterPending, Delete, callVars, vars, queueVars
<1>3. /\ Status' = Status /\ Verdict' = Verdict
      /\ {x \in IDs : Resolved(x)}' = {x \in IDs : Resolved(x)}
  BY <1>2, StatusSteady, VerdictIs, VerdictNext DEF Resolved
<1>4. reply[r] = "none"
  BY <1>1 DEF Handled, SubmitRegister, SyncUndo, SyncAnswer
<1>5. ASSUME NEW code \in {"202", "200", "500", "503"}, reply' = [reply EXCEPT ![r] = code],
             code = "503" => Status[r] = "refused",
             code = "202" => Hub!MayDefer(r),
             code = "200" => Hub!MayGive(r),
             code = "500" => Hub!MayForget(r)
      PROVE  Hub!Tell(r)
  BY <1>2, <1>3, <1>4, <1>5 DEF Hub!Tell
<1>6. CASE SubmitRegister(r)
  <2>1. answer[r] = "accepted" /\ reply' = [reply EXCEPT ![r] = "202"]
    BY <1>1, <1>6 DEF Handled, SubmitRegister, Answer
  <2> QED
    BY <1>5, <2>1, AcceptedLive DEF Hub!MayDefer
<1>7. CASE SyncUndo(r)
  <2>1. answer[r] = "full" /\ reply' = [reply EXCEPT ![r] = "503"]
    BY <1>1, <1>7 DEF Handled, SyncUndo, Answer
  <2>2. StatusOf(r) = "refused"
    BY <2>1 DEF StatusOf, HubInv, QueueInv, Placed
  <2> QED
    BY <1>5, <2>1, <2>2, StatusIs
<1>8. CASE SyncAnswer(r)
  <2> DEFINE g == SyncGet[r]
  <2>1. /\ r \in Sync /\ g \in Gets /\ GetID[g] = r /\ answer[r] = "accepted"
        /\ getPC[g] = "done"
    BY <1>1, <1>8, HubAssumption DEF Handled, SyncAnswer
  <2>2. /\ outcome[g].kind \in {"map", "chan", "unknown", "timeout"}
        /\ outcome[g].kind # "timeout" => Resolved(r)
    BY <1>1, <2>1, OutcomeResolved DEF OutcomesResolved, StoreFacts, AnswersInv, OutcomeShape, TypeOK, Outcome
  <2>3. Hub!Live(r)
    BY <2>1, AcceptedLive
  <2>4. CASE outcome[g].kind = "timeout"
    <3>1. reply' = [reply EXCEPT ![r] = "202"]
      BY <1>8, <2>4 DEF SyncAnswer, Answer
    <3> QED
      BY <1>5, <2>3, <3>1 DEF Hub!MayDefer
  <2>5. CASE outcome[g].kind = "unknown"
    <3>1. reply' = [reply EXCEPT ![r] = "500"]
      BY <1>8, <2>5 DEF SyncAnswer, Answer
    <3> QED
      BY <1>5, <2>2, <2>3, <2>5, <3>1 DEF Hub!MayForget
  <2>6. CASE outcome[g].kind \in {"map", "chan"}
    <3>1. reply' = [reply EXCEPT ![r] = "200"]
      BY <1>8, <2>6 DEF SyncAnswer, Answer
    <3> QED
      BY <1>5, <2>2, <2>3, <2>6, <3>1 DEF Hub!MayGive
  <2> QED
    BY <2>2, <2>4, <2>5, <2>6
<1> QED
  BY <1>6, <1>7, <1>8

\* The verdict of each Get is one the status of its request allows.
LEMMA GetReads ==
    ASSUME HubInv, HubInv', OutcomesResolved', StoreFacts, NEW g \in Gets, Get(g), GetStep(g)
    PROVE  Hub!Read(g) \/ UNCHANGED Hub!vars
<1>1. TypeOK /\ GetID[g] \in IDs
  BY CallAssumption DEF HubInv, HubTypeOK
<1>2. /\ \A h \in Gets : h # g => outcome'[h] = outcome[h]
      /\ putPC' = putPC
  BY <1>1, GetEffect
<1>3. UNCHANGED <<batch, lapsed, expired, answer, reply>>
  BY DEF Get, GetCall, GetRecheck, GetSelect, GetReturn, queueVars, submitVars
<1>4. Status' = Status
  BY <1>3, StatusSteady
<1>5. /\ Resolved(GetID[g])' <=> Resolved(GetID[g])
      /\ {x \in IDs : Resolved(x)}' = {x \in IDs : Resolved(x)}
  BY <1>2 DEF Resolved
<1>6. CASE outcome'[g] = outcome[g]
  <2>1. Verdict' = Verdict
    BY <1>2, <1>6, VerdictIs, VerdictNext
  <2> QED
    BY <1>3, <1>4, <1>5, <2>1 DEF Hub!vars
<1>7. CASE outcome'[g] # outcome[g]
  <2>1. outcome[g] = NoOutcome
    <3>1. getPC[g] \in {"idle", "recheck", "wait"}
      BY <1>7 DEF GetStep, GetFast, GetUnknown, GetRegister, GetRecheckHit, GetRecheckMiss,
         GetWake, GetTimeout, GetCleanup
    <3> QED
      BY <3>1 DEF StoreFacts, StoreInv, Provenance, OutcomeFinal
  <2>2. outcome'[g].kind \in {"map", "chan", "unknown", "timeout"}
    BY <1>1, <1>7 DEF GetStep, GetFast, GetUnknown, GetRegister, GetRecheckHit,
       GetRecheckMiss, GetWake, GetTimeout, GetCleanup, Take, TypeOK
  <2>3. /\ Verdict[g] = "none"
        /\ outcome'[g].kind \in {"map", "chan"} => Verdict' = [Verdict EXCEPT ![g] = "result"]
        /\ outcome'[g].kind = "unknown" => Verdict' = [Verdict EXCEPT ![g] = "unknown"]
        /\ outcome'[g].kind = "timeout" => Verdict' = [Verdict EXCEPT ![g] = "later"]
    <3>1. Verdict[g] = "none"
      BY <2>1, VerdictIs DEF NoOutcome
    <3>2. \A h \in Gets : h # g => Verdict'[h] = Verdict[h]
      BY <1>2, VerdictIs, VerdictNext
    <3>3. /\ Verdict = [h \in Gets |-> Verdict[h]]
          /\ Verdict' = [h \in Gets |-> Verdict'[h]]
      BY VerdictIs, VerdictNext
    <3>4. /\ outcome'[g].kind \in {"map", "chan"} => Verdict'[g] = "result"
          /\ outcome'[g].kind = "unknown" => Verdict'[g] = "unknown"
          /\ outcome'[g].kind = "timeout" => Verdict'[g] = "later"
      BY VerdictNext
    <3> QED
      BY <3>1, <3>2, <3>3, <3>4
  <2>4. outcome'[g].kind \in {"map", "chan", "unknown"} => Resolved(GetID[g])
    BY <1>1, <1>5 DEF OutcomesResolved
  <2>5. answer[GetID[g]] = "accepted"
    <3>1. getPC'[g] # "idle"
      BY <1>1, GetEffect
    <3>2. answer'[GetID[g]] = "accepted"
      BY <3>1 DEF HubInv, Polled
    <3> QED
      BY <1>3, <3>2
  <2>6. Hub!Live(GetID[g])
    BY <1>1, <2>5, AcceptedLive
  <2>7. ASSUME NEW v \in {"result", "unknown", "later"}, Verdict' = [Verdict EXCEPT ![g] = v],
               v = "result" => Hub!MayGive(GetID[g]),
               v = "unknown" => Hub!MayForget(GetID[g]),
               v = "later" => Hub!MayDefer(GetID[g])
        PROVE  Hub!Read(g)
    BY <1>3, <1>4, <1>5, <2>3, <2>7 DEF Hub!Read
  <2>8. CASE outcome'[g].kind \in {"map", "chan"}
    BY <1>1, <2>3, <2>4, <2>6, <2>7, <2>8 DEF Hub!MayGive
  <2>9. CASE outcome'[g].kind = "unknown"
    BY <1>1, <2>3, <2>4, <2>6, <2>7, <2>9 DEF Hub!MayForget
  <2>10. CASE outcome'[g].kind = "timeout"
    BY <2>3, <2>6, <2>7, <2>10 DEF Hub!MayDefer
  <2> QED
    BY <2>2, <2>8, <2>9, <2>10
<1> QED
  BY <1>6, <1>7

\* Each step of the hub is a step of Broker, or a stutter.
LEMMA HubRefinesStep ==
    HubInv /\ HubInv' /\ StoreFacts /\ OutcomesResolved' /\ [HubNext]_hubVars
        => [Hub!Next]_(Hub!vars)
<1> SUFFICES ASSUME HubInv, HubInv', StoreFacts, OutcomesResolved', [HubNext]_hubVars
             PROVE  [Hub!Next]_(Hub!vars)
  OBVIOUS
<1>1. ASSUME NEW r \in IDs, SubmitEnqueue(r) \/ SyncEnqueue(r) PROVE Hub!Next
  BY <1>1, EnqueueProgress DEF SubmitEnqueue, SyncEnqueue, Hub!Next
<1>2. ASSUME NEW r \in IDs, SubmitRefused(r) \/ SyncRefused(r) PROVE Hub!Next
  BY <1>2, RefuseRefused DEF SubmitRefused, SyncRefused, Answer, Hub!Next
<1>3. ASSUME NEW r \in IDs, SubmitRegister(r) \/ SyncUndo(r) \/ SyncAnswer(r) PROVE Hub!Next
  BY <1>3, HandlerTells DEF Hub!Next
<1>4. ASSUME NEW g \in Gets, Get(g), GetStep(g) PROVE [Hub!Next]_(Hub!vars)
  BY <1>4, GetReads DEF Hub!Next
<1>5. ASSUME NEW p \in Pulls, Fifo!Take(p), UNCHANGED <<vars, submitVars>> PROVE Hub!Next
  BY <1>5, TakeProgress DEF submitVars, Hub!Next
<1>6. ASSUME NEW q \in Puts, PushResult(q) PROVE [Hub!Next]_(Hub!vars)
  BY <1>6, PushProgress, CallAssumption DEF Hub!Next
<1>7. CASE /\ UNCHANGED <<batch, lapsed, expired, answer, reply, outcome>>
           /\ \A q \in Puts : ~PushResult(q)
  <2>1. \A x \in IDs : Resolved(x)' <=> Resolved(x)
    BY <1>7, OthersResolveNothing DEF HubInv, HubTypeOK
  <2>2. Status' = Status
    BY <1>7, StatusSteady
  <2>3. Verdict' = Verdict
    BY <1>7, VerdictIs, VerdictNext
  <2> QED
    BY <1>7, <2>1, <2>2, <2>3, ResolvedKept DEF Hub!vars
<1>8. ASSUME \A q \in Puts : ~PushResult(q),
             \/ \E r \in IDs : SyncRegister(r) \/ AgeResult(r)
             \/ \E p \in Pulls : Pull(p) /\ ~Fifo!Take(p)
             \/ \E q \in Puts : PushSignal(q)
             \/ Sweep \/ UNCHANGED hubVars
      PROVE  [Hub!Next]_(Hub!vars)
  <2>1. UNCHANGED <<batch, lapsed, expired, answer, reply, outcome>>
    BY <1>8 DEF SyncRegister, AgeResult, Pull, PushSignal, Sweep,
       RegisterPending, Age, SweepExpired, PutSignal, Fifo!End, hubVars, vars,
       callVars, queueVars, submitVars
  <2> QED
    BY <1>7, <1>8, <2>1
<1>9. CASE \E g \in Gets : Get(g)
  <2>1. \A g \in Gets : Get(g) => GetStep(g)
    BY DEF Get, GetCall, GetRecheck, GetSelect, GetReturn, GetStep
  <2> QED
    BY <1>4, <1>9, <2>1
<1>10. CASE \E p \in Pulls : Pull(p) /\ Fifo!Take(p)
  BY <1>5, <1>10 DEF Pull
<1>11. CASE \E r \in IDs : ExpireRequest(r)
  BY <1>11, ExpiryProgress DEF Hub!Next
<1> QED
  BY <1>1, <1>2, <1>3, <1>6, <1>8, <1>9, <1>10, <1>11 DEF HubNext, HandleSubmit, HandleSync, Push

\* The hub keeps the promises of Broker: each step of a handler, a Get, a pull or a
\* push is one step of what the hub promises to its two sides, or none.
THEOREM HubKeepsItsPromises == HubSpec => ImplementsBroker
<1>1. HubInit => Hub!Init
  <2> SUFFICES ASSUME HubInit PROVE Hub!Init
    OBVIOUS
  <2>1. HubInv
    BY HubInvInit
  <2>2. \A r \in IDs : StatusOf(r) = "new"
    BY <2>1 DEF HubInit, HubInv, QueueInv, Placed, StatusOf, Fifo!Init
  <2>3. Verdict = [g \in Gets |-> "none"]
    BY VerdictIs DEF HubInit, Init, NoOutcome
  <2>4. {r \in IDs : Resolved(r)} = {} /\ expired = {}
    BY CallAssumption DEF HubInit, Init, Fifo!Init, Resolved
  <2> QED
    BY <2>1, <2>2, <2>3, <2>4, StatusIs DEF HubInit, Hub!Init
<1>2. HubSpec => [](HubInv /\ StoreFacts)
  BY HubInvariant, StoreInHub, PTL
<1> QED
  BY <1>1, <1>2, OutcomeResolved, HubRefinesStep, PTL DEF HubSpec, ImplementsBroker, Hub!Spec
=============================================================================
