----------------------------- MODULE Dashboard -----------------------------
(***************************************************************************)
(* The terminal dashboard, internal/tui/tui.go: a Bubble Tea program that  *)
(* fetches GET /debug/stats once a second, and when "r" is pressed, and    *)
(* shows the queues, the history of their total depth and the rate of      *)
(* enqueues.  A fetch is a command that runs beside the others, so fetches *)
(* overlap and their answers reach Update in any order; one takes at most  *)
(* the 5 s of the HTTP client.                                             *)
(*                                                                         *)
(* The server behind it is reduced to the depth and the counter of each    *)
(* queue, read in one step; a restart of it begins with zeros.             *)
(***************************************************************************)
EXTENDS Integers, Sequences, FiniteSets, Functions

CONSTANTS
    Keys,               \* routing keys
    TickSlots,          \* fetches made by Init and by a tick
    PressSlots,         \* bound: fetches that a key press may add to them
    NoStats,            \* nil
    Interval,           \* refreshInterval
    Timeout,            \* of the HTTP client
    HistoryLen,         \* historyLen
    Served,             \* what was enqueued before the dashboard started
    MaxEnqueued,        \* bound: enqueues while the dashboard runs
    MaxRestarts,        \* bound: restarts of the server
    MaxFailures         \* bound: fetches that fail before the timeout

ASSUME DashboardAssumption ==
    /\ IsFiniteSet(Keys)
    /\ {Interval, Timeout, HistoryLen} \subseteq Nat \ {0}
    /\ TickSlots \cap PressSlots = {}
    /\ {Served, MaxEnqueued, MaxRestarts, MaxFailures} \subseteq Nat

Slots == TickSlots \cup PressSlots
MaxTotal == Served + MaxEnqueued
Queues == [Keys -> [depth : 0..MaxTotal, enqueued : 0..MaxTotal]]

VARIABLES
    queues,             \* the server: depth and enqueued total of each key
    restarts, since, failures, \* counters of the bounds
    timer,              \* seconds until tickMsg
    fetch,              \* the commands of fetchCmd that run
    running,            \* until "q"
    stats, fetchErr, depthHistory, prevEnqueued, throughput

env == <<restarts, since, failures>>
shown == <<stats, fetchErr, depthHistory, prevEnqueued, throughput>>
vars == <<queues, env, timer, fetch, running, shown>>

Free == [at |-> "free", age |-> 0, snap |-> NoStats]
Sent == [Free EXCEPT !.at = "sent"]
InFlight == {s \in Slots : fetch[s].at \in {"sent", "read"}}

TypeOK ==
    /\ queues \in Queues
    /\ restarts \in 0..MaxRestarts
    /\ since \in 0..MaxEnqueued
    /\ failures \in 0..MaxFailures
    /\ timer \in 0..Interval
    /\ fetch \in [Slots -> [at : {"free", "sent", "read", "failed"},
                            age : 0..Timeout, snap : Queues \cup {NoStats}]]
    /\ running \in BOOLEAN
    /\ stats \in Queues \cup {NoStats}
    /\ fetchErr \in BOOLEAN
    /\ depthHistory \in UNION {[1..n -> 0..MaxTotal] : n \in 0..HistoryLen}
    /\ prevEnqueued \in 0..MaxTotal
    /\ throughput \in 0..MaxTotal

Init ==
    /\ \E k \in Keys : queues = [j \in Keys |->
          [depth |-> 0, enqueued |-> IF j = k THEN Served ELSE 0]]
    /\ restarts = 0 /\ since = 0 /\ failures = 0
    /\ timer = Interval
    /\ fetch = [s \in Slots |-> IF s = CHOOSE t \in TickSlots : TRUE THEN Sent ELSE Free]
    /\ running = TRUE
    /\ stats = NoStats
    /\ fetchErr = FALSE
    /\ depthHistory = <<>>
    /\ prevEnqueued = 0
    /\ throughput = 0

-----------------------------------------------------------------------------
(* The server.                                                              *)

Enqueue(k) ==
    /\ since < MaxEnqueued
    /\ queues' = [queues EXCEPT ![k].depth = @ + 1, ![k].enqueued = @ + 1]
    /\ since' = since + 1
    /\ UNCHANGED <<restarts, failures, timer, fetch, running, shown>>

Dequeue(k) ==
    /\ queues[k].depth > 0
    /\ queues' = [queues EXCEPT ![k].depth = @ - 1]
    /\ UNCHANGED <<env, timer, fetch, running, shown>>

\* The counters start again, and the connections without an answer break.
Restart ==
    /\ restarts < MaxRestarts
    /\ restarts' = restarts + 1
    /\ queues' = [k \in Keys |-> [depth |-> 0, enqueued |-> 0]]
    /\ fetch' = [s \in Slots |-> IF fetch[s].at = "sent" THEN [Free EXCEPT !.at = "failed"]
                                 ELSE fetch[s]]
    /\ UNCHANGED <<since, failures, timer, running, shown>>

HandleStats(s) ==
    /\ fetch[s].at = "sent"
    /\ fetch' = [fetch EXCEPT ![s].at = "read", ![s].snap = queues]
    /\ UNCHANGED <<queues, env, timer, running, shown>>

-----------------------------------------------------------------------------
(* A fetch that ends without stats, and the passing of time.                *)

\* The connection fails, or the answer is not a 200 with stats in it.
FetchFails(s) ==
    /\ fetch[s].at \in {"sent", "read"}
    /\ failures < MaxFailures
    /\ failures' = failures + 1
    /\ fetch' = [fetch EXCEPT ![s] = [Free EXCEPT !.at = "failed"]]
    /\ UNCHANGED <<queues, restarts, since, timer, running, shown>>

\* Mutant of Second: the HTTP client has no timeout.
SecondUnlimited ==
    /\ running => timer > 0
    /\ \A s \in Slots : fetch[s].at # "failed"
    /\ timer' = IF running THEN timer - 1 ELSE timer
    /\ UNCHANGED <<queues, restarts, since, failures, fetch, running, shown>>

Older(f) ==
    CASE f.at = "free"         -> f
      [] f.age + 1 < Timeout   -> [f EXCEPT !.age = @ + 1]
      [] OTHER                 -> [Free EXCEPT !.at = "failed"]

\* A second passes, and ends the fetches that have lasted for Timeout.  Update is
\* prompt: it has no tick and no failed fetch to handle.
Second ==
    /\ running => timer > 0
    /\ \A s \in Slots : fetch[s].at # "failed"
    /\ timer' = IF running THEN timer - 1 ELSE timer
    /\ fetch' = [s \in Slots |-> Older(fetch[s])]
    /\ UNCHANGED <<queues, restarts, since, failures, running, shown>>

-----------------------------------------------------------------------------
(* Update.                                                                  *)

\* A slot is only the name of a fetch: any free one will do.
fetchCmd(slots) ==
    LET free == {s \in slots : fetch[s].at = "free"} IN
    free # {} /\ fetch' = [fetch EXCEPT ![CHOOSE s \in free : TRUE] = Sent]

\* Mutant of UpdateTick: after an error only "r" fetches.
UpdateTickGivesUp ==
    /\ running /\ timer = 0
    /\ IF fetchErr THEN UNCHANGED fetch ELSE fetchCmd(TickSlots)
    /\ timer' = Interval
    /\ UNCHANGED <<queues, env, running, shown>>

UpdateTick ==
    /\ running /\ timer = 0
    /\ fetchCmd(TickSlots)
    /\ timer' = Interval
    /\ UNCHANGED <<queues, env, running, shown>>

UpdateRefresh ==
    /\ running
    /\ fetchCmd(PressSlots)
    /\ UNCHANGED <<queues, env, timer, running, shown>>

\* The program ends, and what it fetches is not waited for.
UpdateQuit ==
    /\ running
    /\ running' = FALSE
    /\ fetch' = [s \in Slots |-> Free]
    /\ UNCHANGED <<queues, env, timer, shown>>

UpdateError(s) ==
    /\ fetch[s].at = "failed"
    /\ fetch' = [fetch EXCEPT ![s] = Free]
    /\ fetchErr' = TRUE
    /\ UNCHANGED <<queues, env, timer, running, stats, depthHistory, prevEnqueued, throughput>>

aggregateTotals(q) ==
    [depth    |-> FoldFunction(LAMBDA s, n : s.depth + n, 0, q),
     enqueued |-> FoldFunction(LAMBDA s, n : s.enqueued + n, 0, q)]

\* Mutant of Remember: the oldest entry stays.
RememberAll(depth) == Append(depthHistory, depth)

\* The ring buffer, after `depth` is added.
Remember(depth) ==
    Append(IF Len(depthHistory) >= HistoryLen THEN Tail(depthHistory) ELSE depthHistory, depth)

\* Mutant of Rate: the first answer counts from zero.
RateFromZero(enqueued) ==
    IF enqueued >= prevEnqueued THEN enqueued - prevEnqueued ELSE throughput

\* Enqueues since the stats shown; a counter that went back leaves the rate.
Rate(enqueued) ==
    IF stats # NoStats /\ enqueued >= prevEnqueued THEN enqueued - prevEnqueued ELSE throughput

UpdateStats(s) ==
    /\ fetch[s].at = "read"
    /\ LET totals == aggregateTotals(fetch[s].snap) IN
          /\ depthHistory' = Remember(totals.depth)
          /\ throughput' = Rate(totals.enqueued)
          /\ prevEnqueued' = totals.enqueued
    /\ stats' = fetch[s].snap
    /\ fetchErr' = FALSE
    /\ fetch' = [fetch EXCEPT ![s] = Free]
    /\ UNCHANGED <<queues, env, timer, running>>

-----------------------------------------------------------------------------
Update(s) == UpdateError(s) \/ UpdateStats(s)

Next ==
    \/ \E k \in Keys : Enqueue(k) \/ Dequeue(k)
    \/ \E s \in Slots : HandleStats(s) \/ FetchFails(s) \/ Update(s)
    \/ Restart \/ Second \/ UpdateTick \/ UpdateRefresh \/ UpdateQuit

Spec == Init /\ [][Next]_vars

\* Time passes, the program handles its messages, and of the fetches that are
\* made again and again some are answered in time: that is the network's part, and
\* nothing in the code makes it so.
Fairness ==
    /\ WF_vars(Second \/ UpdateTick \/ \E s \in Slots : UpdateError(s))
    /\ SF_vars(\E s \in Slots : HandleStats(s))
    /\ SF_vars(\E s \in Slots : UpdateStats(s))
FairSpec == Spec /\ Fairness

-----------------------------------------------------------------------------
\* Slow answers pile up no further than the client's timeout allows, and none is
\* left running: a tick always finds one of the fetches before it ended.
FetchesBounded ==
    Cardinality(InFlight \cap TickSlots) <= (Timeout \div Interval) + 1

\* Until the server restarts, the rate counts only requests that came while the
\* dashboard was running, however its answers overtake each other: a difference
\* of two totals, never a total, and never below zero.
RateSeenLive == restarts = 0 => throughput \in 0..since

\* A dashboard that goes on running shows what the server holds once the server
\* changes no more, and no error for ever: late answers, failed fetches and a
\* restart leave no trace in it.
CatchesUp ==
    /\ <>[](running => stats = queues)
    /\ []<>(running => ~fetchErr)

=============================================================================
