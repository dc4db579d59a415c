------------------------------- MODULE Broker -------------------------------
(***************************************************************************)
(* What the hub promises to the two sides it connects.  A request is       *)
(* refused or queued; a queued one is handed to one worker before its TTL  *)
(* is over, or lapses after.  Anybody with a worker's key may push a       *)
(* result for it, at any time.  A client is given a result only when one   *)
(* was pushed, told that its ID is unknown only when a result was pushed   *)
(* or the TTL is over, and told to come back only for a request that was   *)
(* queued.                                                                 *)
(***************************************************************************)
CONSTANTS
    Reqs,           \* requests
    Polls,          \* reads of a result
    PollReq         \* the request each read is about

VARIABLES
    status,         \* how far each request has come
    overdue,        \* requests whose TTL is over
    resolved,       \* requests a result was pushed for
    told,           \* the answer to the submission of each request
    verdict         \* the answer to each read

vars == <<status, overdue, resolved, told, verdict>>

Init ==
    /\ status = [r \in Reqs |-> "new"]
    /\ overdue = {}
    /\ resolved = {}
    /\ told = [r \in Reqs |-> "none"]
    /\ verdict = [g \in Polls |-> "none"]

Advance(r, from, to) ==
    /\ status[r] = from
    /\ status' = [status EXCEPT ![r] = to]
    /\ UNCHANGED <<overdue, resolved, told, verdict>>

Enqueue(r) == Advance(r, "new", "queued")
HandOut(r) == r \notin overdue /\ Advance(r, "queued", "taken")
Lapse(r)   == r \in overdue /\ Advance(r, "queued", "lapsed")

Expire(r) ==
    /\ overdue' = overdue \cup {r}
    /\ UNCHANGED <<status, resolved, told, verdict>>

Resolve(r) ==
    /\ resolved' = resolved \cup {r}
    /\ UNCHANGED <<status, overdue, told, verdict>>

\* The client of a refused request is told at once, or later by Tell.
Refuse(r) ==
    /\ status[r] = "new"
    /\ status' = [status EXCEPT ![r] = "refused"]
    /\ told' \in {told, [told EXCEPT ![r] = "503"]}
    /\ UNCHANGED <<overdue, resolved, verdict>>

Live(r) == status[r] \notin {"new", "refused"}

\* A result, a 404 (or the 500 it becomes in a submission), or "come back".
MayGive(r)   == Live(r) /\ r \in resolved
MayForget(r) == Live(r) /\ r \in resolved \cup overdue
MayDefer(r)  == Live(r)

Tell(r) ==
    /\ told[r] = "none"
    /\ \E answer \in {"202", "200", "500", "503"} :
           /\ CASE answer = "503" -> status[r] = "refused"
                [] answer = "202" -> MayDefer(r)
                [] answer = "200" -> MayGive(r)
                [] answer = "500" -> MayForget(r)
           /\ told' = [told EXCEPT ![r] = answer]
    /\ UNCHANGED <<status, overdue, resolved, verdict>>

Read(g) ==
    /\ verdict[g] = "none"
    /\ \E v \in {"result", "unknown", "later"} :
           /\ CASE v = "result"  -> MayGive(PollReq[g])
                [] v = "unknown" -> MayForget(PollReq[g])
                [] v = "later"   -> MayDefer(PollReq[g])
           /\ verdict' = [verdict EXCEPT ![g] = v]
    /\ UNCHANGED <<status, overdue, resolved, told>>

Next ==
    \/ \E r \in Reqs : Enqueue(r) \/ HandOut(r) \/ Lapse(r) \/ Expire(r) \/ Resolve(r)
    \/ \E r \in Reqs : Refuse(r) \/ Tell(r)
    \/ \E g \in Polls : Read(g)

Spec == Init /\ [][Next]_vars

=============================================================================
