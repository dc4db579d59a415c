----------------------------- MODULE RateLimiter -----------------------------
(***************************************************************************)
(* The token bucket of each client address, internal/middleware/           *)
(* ratelimit.go.                                                           *)
(*                                                                         *)
(* Every request runs Middleware on a goroutine of its own.  rl.mu guards  *)
(* the map of buckets and b.mu one bucket; a request holds no lock between *)
(* finding its bucket and drawing from it.  An action is one such critical *)
(* section.  A bucket is named by the request that made it.                *)
(*                                                                         *)
(* Tokens are counted in fractions: a request costs Cost of them, and Rate *)
(* of them are added per tick of the clock.  The model does not round as   *)
(* the float64 arithmetic of the code does.                                *)
(***************************************************************************)
EXTENDS Integers, Sequences, FiniteSets

CONSTANTS
    Reqs,           \* requests, and the buckets they may create
    IPs,            \* client addresses
    NoIP,           \* a header or a part of one that is not an address
    Header,         \* X-Forwarded-For, X-Real-IP and RemoteAddr of each request
    Cost,           \* fractions in one token
    Rate,           \* rps: fractions added per tick
    Burst,          \* burst, in fractions
    Second,         \* clock ticks in a second
    CleanupAfter,   \* cleanupAfter, in ticks
    MaxTime,        \* bound on the clock
    NoBucket        \* no entry in the map, no bucket held

ASSUME RateLimiterAssumption ==
    /\ IsFiniteSet(Reqs)
    /\ NoBucket \notin Reqs
    /\ NoIP \notin IPs
    /\ Header \in [Reqs -> [xff : Seq(IPs \cup {NoIP}), xri : IPs \cup {NoIP},
                            remote : IPs]]
    /\ Cost \in Nat \ {0}
    /\ Rate \in Nat \ {0}
    /\ Burst \in Nat
    /\ Second \in Nat \ {0}
    /\ CleanupAfter \in Nat
    /\ MaxTime \in Nat

VARIABLES
    now,                \* the clock
    buckets,            \* rl.buckets
    tokens, lastSeen,   \* the fields of each bucket
    pc,                 \* where each request is in Middleware
    handle,             \* the bucket each request got from the map
    retry,              \* the Retry-After of each refused request, in seconds
    sweep,              \* where cleanup is; it holds rl.mu in "scan"
    cutoff,             \* the clock when cleanup computed its cutoff
    todo,               \* the addresses cleanup has not visited yet
    victim,             \* the address whose bucket cleanup found stale
    drawnAt,            \* history: when each request was allowed or refused
    onMap               \* history: requests whose bucket was not being removed

sweeper == <<sweep, cutoff, todo, victim>>
history == <<drawnAt, onMap>>
vars == <<now, buckets, tokens, lastSeen, pc, handle, retry, sweeper, history>>

\* The first part of X-Forwarded-For that parses, then X-Real-IP, then the peer.
clientIP(r) ==
    LET h == Header[r]
        valid == {i \in DOMAIN h.xff : h.xff[i] # NoIP}
    IN  IF valid # {} THEN h.xff[CHOOSE i \in valid : \A j \in valid : i <= j]
        ELSE IF h.xri # NoIP THEN h.xri ELSE h.remote

Answered == {"served", "limited"}
Using == {"draw", "peek", "readNeed"}
Sweeping == sweep = "scan"

TypeOK ==
    /\ now \in 0..MaxTime
    /\ buckets \in [IPs -> Reqs \cup {NoBucket}]
    /\ tokens \in [Reqs -> 0..Burst]
    /\ lastSeen \in [Reqs -> 0..now]
    /\ pc \in [Reqs -> {"start", "draw", "refused", "peek", "readNeed"} \cup Answered]
    /\ handle \in [Reqs -> Reqs \cup {NoBucket}]
    /\ \A r \in Reqs : pc[r] \in Using => handle[r] # NoBucket
    /\ retry \in [Reqs -> Int]
    /\ sweep \in {"idle", "lock", "scan"}
    /\ cutoff \in 0..MaxTime
    /\ todo \in SUBSET IPs
    /\ victim \in SUBSET IPs
    /\ drawnAt \in [Reqs -> 0..now]
    /\ onMap \in SUBSET Reqs

\* NewRateLimiter.
Init ==
    /\ now = 0
    /\ buckets = [ip \in IPs |-> NoBucket]
    /\ tokens = [b \in Reqs |-> 0]
    /\ lastSeen = [b \in Reqs |-> 0]
    /\ pc = [r \in Reqs |-> "start"]
    /\ handle = [r \in Reqs |-> NoBucket]
    /\ retry = [r \in Reqs |-> 0]
    /\ sweep = "idle"
    /\ cutoff = 0
    /\ todo = {}
    /\ victim = {}
    /\ drawnAt = [r \in Reqs |-> 0]
    /\ onMap = {}

Goto(r, label) == pc' = [pc EXCEPT ![r] = label]

Tick ==
    /\ now < MaxTime
    /\ now' = now + 1
    /\ UNCHANGED <<buckets, tokens, lastSeen, pc, handle, retry, sweeper, history>>

-----------------------------------------------------------------------------
(* Allow: find or make the bucket under rl.mu, then draw under b.mu.        *)

FindBucket(r) ==
    LET ip == clientIP(r)
        made == buckets[ip] = NoBucket
        b == IF made THEN r ELSE buckets[ip]
    IN
    /\ pc[r] = "start"
    /\ ~Sweeping
    /\ buckets' = [buckets EXCEPT ![ip] = b]
    /\ tokens' = [tokens EXCEPT ![b] = IF made THEN Burst ELSE @]
    /\ lastSeen' = [lastSeen EXCEPT ![b] = IF made THEN now ELSE @]
    /\ handle' = [handle EXCEPT ![r] = b]
    /\ Goto(r, "draw")
    /\ UNCHANGED <<now, retry, sweeper, history>>

\* Mutant of Refilled: the cap before the refill.
RefilledLate(b) == IF tokens[b] + Rate * (now - lastSeen[b]) > Burst THEN tokens[b]
                   ELSE tokens[b] + Rate * (now - lastSeen[b])

\* The tokens of a bucket after its refill.
Refilled(b) ==
    LET sum == tokens[b] + Rate * (now - lastSeen[b])
    IN  IF sum > Burst THEN Burst ELSE sum

\* Mutant of Draw: a refusal does not move lastSeen, but keeps the refill.
DrawRefillTwice(r) ==
    LET b == handle[r]
        allowed == Refilled(b) >= Cost
    IN
    /\ pc[r] = "draw"
    /\ tokens' = [tokens EXCEPT ![b] = IF allowed THEN Refilled(b) - Cost ELSE Refilled(b)]
    /\ lastSeen' = [lastSeen EXCEPT ![b] = IF allowed THEN now ELSE @]
    /\ drawnAt' = [drawnAt EXCEPT ![r] = now]
    /\ onMap' = IF b = buckets[clientIP(r)] /\ clientIP(r) \notin victim
                THEN onMap \cup {r} ELSE onMap
    /\ Goto(r, IF allowed THEN "served" ELSE "refused")
    /\ UNCHANGED <<now, buckets, handle, retry, sweeper>>

Draw(r) ==
    LET b == handle[r]
        allowed == Refilled(b) >= Cost
    IN
    /\ pc[r] = "draw"
    /\ tokens' = [tokens EXCEPT ![b] = IF allowed THEN Refilled(b) - Cost ELSE Refilled(b)]
    /\ lastSeen' = [lastSeen EXCEPT ![b] = now]
    /\ drawnAt' = [drawnAt EXCEPT ![r] = now]
    /\ onMap' = IF b = buckets[clientIP(r)] /\ clientIP(r) \notin victim
                THEN onMap \cup {r} ELSE onMap
    /\ Goto(r, IF allowed THEN "served" ELSE "refused")
    /\ UNCHANGED <<now, buckets, handle, retry, sweeper>>

-----------------------------------------------------------------------------
(* RetryAfterSeconds: a lookup, a read without b.mu, a read under b.mu.     *)

LookupBucket(r) ==
    LET b == buckets[clientIP(r)] IN
    /\ pc[r] = "refused"
    /\ ~Sweeping
    /\ handle' = [handle EXCEPT ![r] = b]
    /\ Goto(r, IF b = NoBucket THEN "limited" ELSE "peek")
    /\ UNCHANGED <<now, buckets, tokens, lastSeen, retry, sweeper, history>>

\* The race at ratelimit.go:87: the read may fall inside the critical section of
\* a request that draws, and then sees the refilled tokens, capped or not yet.
Peek(r) ==
    LET b == handle[r]
        drawing == \E q \in Reqs : pc[q] = "draw" /\ handle[q] = b
    IN
    /\ pc[r] = "peek"
    /\ \E seen \in {tokens[b]} \cup
                   IF drawing THEN {tokens[b] + Rate * (now - lastSeen[b]), Refilled(b)} ELSE {} :
          Goto(r, IF seen >= Cost THEN "limited" ELSE "readNeed")
    /\ UNCHANGED <<now, buckets, tokens, lastSeen, handle, retry, sweeper, history>>

\* The conversion int(need / rps) of Go rounds toward zero.
Quotient(n, d) == IF n >= 0 THEN n \div d ELSE -((-n) \div d)

\* Mutant of ReadNeed: rounded down.
ReadNeedFloor(r) ==
    /\ pc[r] = "readNeed"
    /\ retry' = [retry EXCEPT ![r] = Quotient(Cost - tokens[handle[r]], Rate * Second)]
    /\ Goto(r, "limited")
    /\ UNCHANGED <<now, buckets, tokens, lastSeen, handle, sweeper, history>>

ReadNeed(r) ==
    /\ pc[r] = "readNeed"
    /\ retry' = [retry EXCEPT ![r] =
                    Quotient(Cost - tokens[handle[r]], Rate * Second) + 1]
    /\ Goto(r, "limited")
    /\ UNCHANGED <<now, buckets, tokens, lastSeen, handle, sweeper, history>>

-----------------------------------------------------------------------------
(* cleanup: a cutoff, then a look at every bucket under rl.mu.  A bucket    *)
(* found stale is deleted after its own lock is released.                   *)

SweepTick ==
    /\ sweep = "idle"
    /\ sweep' = "lock"
    /\ cutoff' = now
    /\ UNCHANGED <<now, buckets, tokens, lastSeen, pc, handle, retry, todo, victim, history>>

SweepLock ==
    /\ sweep = "lock"
    /\ sweep' = "scan"
    /\ todo' = {ip \in IPs : buckets[ip] # NoBucket}
    /\ UNCHANGED <<now, buckets, tokens, lastSeen, pc, handle, retry, cutoff, victim, history>>

\* Mutant of Stale: the cutoff is the time of the sweep itself.
StaleNow(b) == lastSeen[b] < cutoff

Stale(b) == lastSeen[b] + CleanupAfter < cutoff

SweepScan(ip) ==
    /\ Sweeping
    /\ victim = {}
    /\ ip \in todo
    /\ todo' = todo \ {ip}
    /\ victim' = IF Stale(buckets[ip]) THEN {ip} ELSE {}
    /\ UNCHANGED <<now, buckets, tokens, lastSeen, pc, handle, retry, sweep, cutoff, history>>

SweepDelete ==
    /\ victim # {}
    /\ buckets' = [ip \in IPs |-> IF ip \in victim THEN NoBucket ELSE buckets[ip]]
    /\ victim' = {}
    /\ UNCHANGED <<now, tokens, lastSeen, pc, handle, retry, sweep, cutoff, todo, history>>

SweepEnd ==
    /\ Sweeping
    /\ todo = {} /\ victim = {}
    /\ sweep' = "idle"
    /\ cutoff' = 0
    /\ UNCHANGED <<now, buckets, tokens, lastSeen, pc, handle, retry, todo, victim, history>>

-----------------------------------------------------------------------------
Middleware(r) ==
    \/ FindBucket(r) \/ Draw(r)
    \/ LookupBucket(r) \/ Peek(r) \/ ReadNeed(r)

cleanup ==
    \/ SweepTick \/ SweepLock \/ SweepDelete \/ SweepEnd
    \/ \E ip \in IPs : SweepScan(ip)

Next == Tick \/ cleanup \/ \E r \in Reqs : Middleware(r)

Spec == Init /\ [][Next]_vars

-----------------------------------------------------------------------------
\* The requests a bucket, or an address, let through from s to t.
ServedBy(b, s, t) == {r \in Reqs : /\ pc[r] = "served" /\ handle[r] = b
                                   /\ drawnAt[r] \in s..t}
ServedFor(ip, s, t) == {r \in Reqs : /\ pc[r] = "served" /\ clientIP(r) = ip
                                     /\ drawnAt[r] \in s..t}

\* In no interval does a bucket let through more than the burst and what the rate
\* adds over the interval, however its requests and refusals interleave.
BucketBound ==
    \A b \in Reqs : \A t \in 0..now : \A s \in 0..t :
        Cost * Cardinality(ServedBy(b, s, t)) <= Burst + Rate * (t - s)

\* Nobody is refused who keeps within the rate: for a refused request there is an
\* interval up to the refusal in which its bucket could not let one more through.
RefusedOnlyWhenSpent ==
    [][\A r \in Reqs : pc[r] = "draw" /\ pc'[r] = "refused" =>
          \E s \in 0..now :
              Cost * (Cardinality(ServedBy(handle[r], s, now)) + 1)
                > Burst + Rate * (now - s)]_vars

\* When a bucket that has sat unused for cleanupAfter would be full anyway, the
\* cleanup takes nothing from the limit of an address, except through requests
\* that hold a bucket while it is being removed (ratelimit.go:57-60, 165).
AddressBound ==
    Rate * CleanupAfter >= Burst =>
        \A ip \in IPs : \A t \in 0..now : \A s \in 0..t :
            Cost * Cardinality(ServedFor(ip, s, t) \cap onMap) <= Burst + Rate * (t - s)

\* What a bucket holds at t if nobody draws from it until then.
Holds(b, t) ==
    LET sum == tokens[b] + Rate * (t - lastSeen[b])
    IN  IF sum > Burst THEN Burst ELSE sum

\* A refused client that waits as Retry-After tells finds a token in the bucket
\* the time was computed from, unless others drew from it meanwhile or no bucket
\* ever holds one (a burst of 0, which config.go:120 accepts).
RetryAfterSuffices ==
    [][\A r \in Reqs : Burst >= Cost /\ pc[r] = "readNeed" /\ pc'[r] = "limited" =>
          Holds(handle[r], now + Second * retry'[r]) >= Cost]_vars

=============================================================================
