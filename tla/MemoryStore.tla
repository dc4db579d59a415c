----------------------------- MODULE MemoryStore -----------------------------
(***************************************************************************)
(* The in-memory result store with long polling, internal/store/memory.go. *)
(*                                                                         *)
(* Put and Get run on the goroutines of concurrent HTTP handlers.  Each    *)
(* action below is one critical section of s.mu, or one channel operation  *)
(* made outside it; between two of them any other goroutine may run.       *)
(*                                                                         *)
(* A Put call and a Get call are used once (a handler goroutine makes one  *)
(* call), so a call stands for its goroutine, a Get call for the channel   *)
(* it makes, and a Put call for the *model.Result it stores.  The request  *)
(* ID a call names is fixed with the call.                                 *)
(***************************************************************************)
CONSTANTS
    IDs,            \* request IDs
    Gets,           \* calls of MemoryStore.Get
    Puts,           \* calls of MemoryStore.Put, and the results they carry
    GetID,          \* the request ID each Get asks for
    PutID,          \* the request ID each Put answers
    NoPut,          \* no result: an empty map entry or an empty channel
    NoGet           \* no waiter registered

ASSUME CallAssumption ==
    /\ GetID \in [Gets -> IDs]
    /\ PutID \in [Puts -> IDs]
    /\ NoPut \notin Puts
    /\ NoGet \notin Gets

VARIABLES
    results,        \* s.results: the result stored under each ID
    aged,           \* IDs whose stored result is past its expiresAt
    pending,        \* s.pending
    waiters,        \* s.waiters: the Get whose channel is registered
    chan,           \* content of the one-slot channel each Get made
    getPC,          \* where each Get call is
    outcome,        \* what each Get call returns
    putPC,          \* where each Put call is
    target,         \* ch: the waiter a Put read before it unlocked s.mu
    submitted,      \* history: IDs ever registered (a UUIDv7 is used once)
    discarded,      \* history: results overwritten, deleted, or swept when due
    overlapped      \* history: Gets that were in flight beside another Get of their ID

callVars  == <<getPC, outcome, putPC, target, overlapped>>
storeVars == <<results, aged, pending, waiters, chan>>
vars == <<results, aged, pending, waiters, chan, getPC, outcome, putPC,
          target, submitted, discarded, overlapped>>

\* "map": the result came out of s.results; "chan": it came from the waiter
\* channel; "unknown": ErrNotFound; "timeout": (nil, nil).
Outcome == [kind : {"map", "chan", "unknown", "timeout", "none"},
            put  : Puts \cup {NoPut}]
NoOutcome == [kind |-> "none", put |-> NoPut]

Stored(id) == results[id] # NoPut
InFlight(g) == getPC[g] \in {"recheck", "wait", "cleanup"}
Waiting(g) == getPC[g] = "wait"

TypeOK ==
    /\ results \in [IDs -> Puts \cup {NoPut}]
    /\ aged \in SUBSET IDs
    /\ pending \in SUBSET IDs
    /\ waiters \in [IDs -> Gets \cup {NoGet}]
    /\ chan \in [Gets -> Puts \cup {NoPut}]
    /\ getPC \in [Gets -> {"idle", "recheck", "wait", "cleanup", "done"}]
    /\ outcome \in [Gets -> Outcome]
    /\ putPC \in [Puts -> {"idle", "signal", "done"}]
    /\ target \in [Puts -> Gets \cup {NoGet}]
    /\ submitted \in SUBSET IDs
    /\ discarded \in SUBSET Puts
    /\ overlapped \in SUBSET Gets

\* NewMemoryStore.
Init ==
    /\ results = [id \in IDs |-> NoPut]
    /\ aged = {}
    /\ pending = {}
    /\ waiters = [id \in IDs |-> NoGet]
    /\ chan = [g \in Gets |-> NoPut]
    /\ getPC = [g \in Gets |-> "idle"]
    /\ outcome = [g \in Gets |-> NoOutcome]
    /\ putPC = [p \in Puts |-> "idle"]
    /\ target = [p \in Puts |-> NoGet]
    /\ submitted = {}
    /\ discarded = {}
    /\ overlapped = {}

-----------------------------------------------------------------------------
RegisterPending(id) ==
    /\ id \notin submitted
    /\ pending' = pending \cup {id}
    /\ submitted' = submitted \cup {id}
    /\ UNCHANGED <<results, aged, waiters, chan, callVars, discarded>>

\* Mutants of PutStore: hand the result to a registered waiter instead of
\* storing it; forget the waiter; forget that the ID is resolved.
PutHandsOver(p) ==
    LET id == PutID[p] IN
    /\ putPC[p] = "idle"
    /\ results' = IF waiters[id] = NoGet THEN [results EXCEPT ![id] = p] ELSE results
    /\ aged' = aged \ {id}
    /\ pending' = pending \ {id}
    /\ discarded' = discarded \cup ({results[id]} \ {NoPut})
    /\ target' = [target EXCEPT ![p] = waiters[id]]
    /\ putPC' = [putPC EXCEPT ![p] = IF waiters[id] = NoGet THEN "done" ELSE "signal"]
    /\ UNCHANGED <<waiters, chan, getPC, outcome, submitted, overlapped>>

PutSilently(p) ==
    LET id == PutID[p] IN
    /\ putPC[p] = "idle"
    /\ results' = [results EXCEPT ![id] = p]
    /\ aged' = aged \ {id}
    /\ pending' = pending \ {id}
    /\ discarded' = discarded \cup ({results[id]} \ {NoPut})
    /\ putPC' = [putPC EXCEPT ![p] = "done"]
    /\ UNCHANGED <<waiters, chan, getPC, outcome, target, submitted, overlapped>>

PutKeepsPending(p) ==
    LET id == PutID[p] IN
    /\ putPC[p] = "idle"
    /\ results' = [results EXCEPT ![id] = p]
    /\ aged' = aged \ {id}
    /\ discarded' = discarded \cup ({results[id]} \ {NoPut})
    /\ target' = [target EXCEPT ![p] = waiters[id]]
    /\ putPC' = [putPC EXCEPT ![p] = IF waiters[id] = NoGet THEN "done" ELSE "signal"]
    /\ UNCHANGED <<pending, waiters, chan, getPC, outcome, submitted, overlapped>>

\* Put, the critical section: store the result over whatever is there, forget
\* that the ID was pending, and read the waiter to signal after unlocking.
PutStore(p) ==
    LET id == PutID[p] IN
    /\ putPC[p] = "idle"
    /\ results' = [results EXCEPT ![id] = p]
    /\ aged' = aged \ {id}
    /\ pending' = pending \ {id}
    /\ discarded' = discarded \cup ({results[id]} \ {NoPut})
    /\ target' = [target EXCEPT ![p] = waiters[id]]
    /\ putPC' = [putPC EXCEPT ![p] = IF waiters[id] = NoGet THEN "done" ELSE "signal"]
    /\ UNCHANGED <<waiters, chan, getPC, outcome, submitted, overlapped>>

\* Mutant of PutSignal: the send is always dropped.
PutDropsSignal(p) ==
    /\ putPC[p] = "signal"
    /\ putPC' = [putPC EXCEPT ![p] = "done"]
    /\ UNCHANGED <<storeVars, getPC, outcome, target, submitted, discarded, overlapped>>

\* Put, after unlocking: a non-blocking send into the waiter's one-slot channel.
PutSignal(p) ==
    LET g == target[p] IN
    /\ putPC[p] = "signal"
    /\ chan' = [chan EXCEPT ![g] = IF @ = NoPut THEN p ELSE @]
    /\ putPC' = [putPC EXCEPT ![p] = "done"]
    /\ UNCHANGED <<results, aged, pending, waiters, getPC, outcome, target,
                   submitted, discarded, overlapped>>

\* The Gets of the same ID that a Get which registers finds in flight.
Company(g) == {h \in Gets : GetID[h] = GetID[g] /\ InFlight(h)}

\* Mutant of Take: the entry is not deleted.
TakeKeepsEntry(g) ==
    /\ Stored(GetID[g])
    /\ outcome' = [outcome EXCEPT ![g] = [kind |-> "map", put |-> results[GetID[g]]]]
    /\ UNCHANGED <<results, aged>>

\* The Get g takes the stored result out of s.results.
Take(g) ==
    LET id == GetID[g] IN
    /\ Stored(id)
    /\ results' = [results EXCEPT ![id] = NoPut]
    /\ aged' = aged \ {id}
    /\ outcome' = [outcome EXCEPT ![g] = [kind |-> "map", put |-> results[id]]]

\* Get, first critical section, result already stored.
GetFast(g) ==
    /\ getPC[g] = "idle"
    /\ Take(g)
    /\ getPC' = [getPC EXCEPT ![g] = "done"]
    /\ UNCHANGED <<pending, waiters, chan, putPC, target, submitted, discarded, overlapped>>

\* Get, first critical section, ID neither stored nor pending.
GetUnknown(g) ==
    /\ getPC[g] = "idle"
    /\ ~Stored(GetID[g])
    /\ GetID[g] \notin pending
    /\ outcome' = [outcome EXCEPT ![g] = [kind |-> "unknown", put |-> NoPut]]
    /\ getPC' = [getPC EXCEPT ![g] = "done"]
    /\ UNCHANGED <<storeVars, putPC, target, submitted, discarded, overlapped>>

\* Get, first critical section, ID pending: register this call's channel over
\* the one of any other Get of the ID.
GetRegister(g) ==
    /\ getPC[g] = "idle"
    /\ ~Stored(GetID[g])
    /\ GetID[g] \in pending
    /\ waiters' = [waiters EXCEPT ![GetID[g]] = g]
    /\ getPC' = [getPC EXCEPT ![g] = "recheck"]
    /\ overlapped' = IF Company(g) = {} THEN overlapped
                     ELSE overlapped \cup Company(g) \cup {g}
    /\ UNCHANGED <<results, aged, pending, chan, outcome, putPC, target,
                   submitted, discarded>>

\* Get, second critical section: look once more before blocking.
GetRecheckHit(g) ==
    /\ getPC[g] = "recheck"
    /\ Take(g)
    /\ getPC' = [getPC EXCEPT ![g] = "cleanup"]
    /\ UNCHANGED <<pending, waiters, chan, putPC, target, submitted, discarded, overlapped>>

GetRecheckMiss(g) ==
    /\ getPC[g] = "recheck"
    /\ ~Stored(GetID[g])
    /\ getPC' = [getPC EXCEPT ![g] = "wait"]
    /\ UNCHANGED <<storeVars, outcome, putPC, target, submitted, discarded, overlapped>>

\* Get, the select, channel case.  The entry of s.results is left in place.
GetWake(g) ==
    /\ getPC[g] = "wait"
    /\ chan[g] # NoPut
    /\ outcome' = [outcome EXCEPT ![g] = [kind |-> "chan", put |-> chan[g]]]
    /\ chan' = [chan EXCEPT ![g] = NoPut]
    /\ getPC' = [getPC EXCEPT ![g] = "cleanup"]
    /\ UNCHANGED <<results, aged, pending, waiters, putPC, target, submitted, discarded, overlapped>>

\* Get, the select, ctx.Done case: the long-poll timeout elapsed or the client
\* went away, either of which may happen at any time.
GetTimeout(g) ==
    /\ getPC[g] = "wait"
    /\ outcome' = [outcome EXCEPT ![g] = [kind |-> "timeout", put |-> NoPut]]
    /\ getPC' = [getPC EXCEPT ![g] = "cleanup"]
    /\ UNCHANGED <<storeVars, putPC, target, submitted, discarded, overlapped>>

\* Get, the deferred function: delete the waiter entry of the ID, whichever
\* call it belongs to.
GetCleanup(g) ==
    /\ getPC[g] = "cleanup"
    /\ waiters' = [waiters EXCEPT ![GetID[g]] = NoGet]
    /\ getPC' = [getPC EXCEPT ![g] = "done"]
    /\ UNCHANGED <<results, aged, pending, chan, outcome, putPC, target,
                   submitted, discarded, overlapped>>

Delete(id) ==
    /\ id \in submitted
    /\ results' = [results EXCEPT ![id] = NoPut]
    /\ aged' = aged \ {id}
    /\ pending' = pending \ {id}
    /\ discarded' = discarded \cup ({results[id]} \ {NoPut})
    /\ UNCHANGED <<waiters, chan, callVars, submitted>>

\* Time passes the expiresAt of a stored result.
Age(id) ==
    /\ Stored(id)
    /\ id \notin aged
    /\ aged' = aged \cup {id}
    /\ UNCHANGED <<results, pending, waiters, chan, callVars, submitted, discarded>>

\* Mutant of SweepExpired: it does not ask whether a result is past its expiresAt.
SweepFresh ==
    /\ \E id \in IDs : Stored(id)
    /\ results' = [id \in IDs |-> NoPut]
    /\ discarded' = discarded \cup {results[id] : id \in aged}
    /\ aged' = {}
    /\ UNCHANGED <<pending, waiters, chan, callVars, submitted>>

\* sweepExpired: every result past its expiresAt is deleted in one section.
SweepExpired ==
    /\ aged # {}
    /\ results' = [id \in IDs |-> IF id \in aged THEN NoPut ELSE results[id]]
    /\ discarded' = discarded \cup {results[id] : id \in aged}
    /\ aged' = {}
    /\ UNCHANGED <<pending, waiters, chan, callVars, submitted>>

GetStep(g) ==
    \/ GetFast(g) \/ GetUnknown(g) \/ GetRegister(g)
    \/ GetRecheckHit(g) \/ GetRecheckMiss(g)
    \/ GetWake(g) \/ GetTimeout(g) \/ GetCleanup(g)

PutStep(p) == PutStore(p) \/ PutSignal(p)

Next ==
    \/ \E id \in IDs : RegisterPending(id) \/ Delete(id) \/ Age(id)
    \/ \E p \in Puts : PutStep(p)
    \/ \E g \in Gets : GetStep(g)
    \/ SweepExpired

Spec == Init /\ [][Next]_vars

\* The Go scheduler runs every goroutine that can run: a call inside the store
\* goes on.  Nothing makes a client start a call, and a timeout is not relied on.
Fairness ==
    /\ \A p \in Puts : WF_vars(PutSignal(p))
    /\ \A g \in Gets : /\ WF_vars(GetRecheckHit(g) \/ GetRecheckMiss(g))
                       /\ WF_vars(GetWake(g))
                       /\ WF_vars(GetCleanup(g))

FairSpec == Spec /\ Fairness

-----------------------------------------------------------------------------
\* A result that was accepted is in the map, was returned by some Get, or was
\* discarded for a reason (overwritten, deleted, or swept once it was due): no
\* interleaving of the signal, the timeout, the two looks of Get and the sweep
\* makes it vanish (memory.go:55-126, 172-182).
NoLostResult ==
    \A p \in Puts :
        putPC[p] # "idle" =>
            \/ results[PutID[p]] = p
            \/ p \in discarded
            \/ \E g \in Gets : outcome[g].put = p

\* A result is returned at most twice: by at most one Get that took it out of
\* the map and by at most one Get that was handed a copy through its channel.
DeliveredAtMostTwice ==
    \A g, h \in Gets :
        outcome[g] = outcome[h] /\ outcome[g].put # NoPut => g = h

\* A waiter entry belongs to a Get that has not returned, so the map of
\* waiters does not grow with finished polls.
NoDanglingWaiter ==
    \A id \in IDs :
        waiters[id] # NoGet => GetID[waiters[id]] = id /\ InFlight(waiters[id])

\* A Get blocked in its select while its result is in the map has been, or is
\* about to be, signalled: no lost wakeup (memory.go:18-22), unless another Get of
\* the ID took its place in the map of waiters or removed it from there.
NoStrandedWaiter ==
    \A g \in Gets \ overlapped :
        Waiting(g) /\ Stored(GetID[g]) =>
            \/ chan[g] # NoPut
            \/ \E p \in Puts : putPC[p] = "signal" /\ target[p] = g

\* "Any goroutine in store.Get(ctx, id) wakes up and reads the result"
\* (docs/architecture.md:124): a Get blocked while its result is stored stops
\* waiting without the help of its timeout, unless the result is discarded; true
\* only of a Get that no other Get of its ID overlaps with.
EveryWaiterWakes ==
    \A g \in Gets : (Waiting(g) /\ Stored(GetID[g]))
                      ~> (~Waiting(g) \/ ~Stored(GetID[g]) \/ g \in overlapped)

=============================================================================
