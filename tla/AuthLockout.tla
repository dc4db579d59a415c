----------------------------- MODULE AuthLockout -----------------------------
(***************************************************************************)
(* The lockout of IP addresses that present wrong keys,                    *)
(* internal/middleware/lockout.go.                                         *)
(*                                                                         *)
(* Every request runs Wrap on a goroutine of its own.  al.mu guards the    *)
(* map of records and rec.mu one record, and no call holds both except     *)
(* cleanup and Stats, so other goroutines run between a lookup and the use *)
(* of the record that it found.  An action is one such critical section.   *)
(*                                                                         *)
(* A record is named by the request whose getOrCreate made it: a record    *)
(* that cleanup has removed from the map, but that a request still holds,  *)
(* is not the record made for the same IP afterwards.                      *)
(***************************************************************************)
EXTENDS Integers, FiniteSets

CONSTANTS
    Reqs,               \* requests, and the records they may create
    IPs,                \* client addresses
    IPOf,               \* the address of each request
    ValidKey,           \* the requests whose key authFn accepts
    Threshold,          \* threshold: failures before a lockout
    LockoutDuration,    \* lockoutDuration, in clock ticks
    WindowDuration,     \* windowDuration, in clock ticks
    Second,             \* clock ticks in a second
    MaxTime,            \* bound on the clock
    NoRecord            \* no entry in the map, no record held

ASSUME LockoutAssumption ==
    /\ IsFiniteSet(Reqs)
    /\ NoRecord \notin Reqs
    /\ IPOf \in [Reqs -> IPs]
    /\ ValidKey \subseteq Reqs
    /\ Threshold \in Nat \ {0}
    /\ LockoutDuration \in Nat \ {0}
    /\ WindowDuration \in Nat
    /\ Second \in Nat \ {0}
    /\ MaxTime \in Nat \ {0}

VARIABLES
    now,                \* the clock; it starts after time.Time{}
    records,            \* al.records
    failures, lockedAt, resetAt,    \* the fields of each record
    pc,                 \* where each request is in Wrap
    handle,             \* the record each request got from the map
    retry,              \* the Retry-After of each rejected request
    sweep,              \* where cleanup is; it holds al.mu in "scan"
    cutoff,             \* the clock when cleanup computed its cutoff
    todo,               \* the addresses cleanup has not visited yet
    victim,             \* the address whose record cleanup found stale
    ahead,              \* history: requests under way when a record was locked
    lockedUntil,        \* history: the end of the last lockout of each address
    failedAt            \* history: when each failure was recorded

fields == <<failures, lockedAt, resetAt>>
sweeper == <<sweep, cutoff, todo, victim>>
history == <<ahead, lockedUntil, failedAt>>
vars == <<now, records, fields, pc, handle, retry, sweeper, history>>

ZeroTime == 0

Answered == {"rejected", "denied", "served"}
Using == {"isLocked", "unlockIn", "recordFailure", "recordSuccess"}
Sweeping == sweep = "scan"

TypeOK ==
    /\ now \in 1..MaxTime
    /\ records \in [IPs -> Reqs \cup {NoRecord}]
    /\ failures \in [Reqs -> Nat]
    /\ lockedAt \in [Reqs -> Nat]
    /\ resetAt \in [Reqs -> Nat]
    /\ pc \in [Reqs -> {"start", "isLocked", "locked", "unlockIn", "auth",
                        "recordFailure", "recordSuccess"} \cup Answered]
    /\ handle \in [Reqs -> Reqs \cup {NoRecord}]
    /\ \A r \in Reqs : pc[r] \in Using => handle[r] # NoRecord
    /\ retry \in [Reqs -> Nat]
    /\ sweep \in {"idle", "lock", "scan"}
    /\ cutoff \in 0..MaxTime
    /\ todo \in SUBSET IPs
    /\ victim \in SUBSET IPs
    /\ ahead \in [Reqs -> SUBSET Reqs]
    /\ lockedUntil \in [IPs -> Nat]
    /\ failedAt \in [Reqs -> Nat]

\* NewAuthLockout.
Init ==
    /\ now = 1
    /\ records = [ip \in IPs |-> NoRecord]
    /\ failures = [R \in Reqs |-> 0]
    /\ lockedAt = [R \in Reqs |-> ZeroTime]
    /\ resetAt = [R \in Reqs |-> ZeroTime]
    /\ pc = [r \in Reqs |-> "start"]
    /\ handle = [r \in Reqs |-> NoRecord]
    /\ retry = [r \in Reqs |-> 0]
    /\ sweep = "idle"
    /\ cutoff = 0
    /\ todo = {}
    /\ victim = {}
    /\ ahead = [R \in Reqs |-> {}]
    /\ lockedUntil = [ip \in IPs |-> 0]
    /\ failedAt = [r \in Reqs |-> 0]

Goto(r, label) == pc' = [pc EXCEPT ![r] = label]

Locked(R) == lockedAt[R] # ZeroTime
Elapsed(R) == now - lockedAt[R] >= LockoutDuration
Underway(ip) == {r \in Reqs : IPOf[r] = ip /\ pc[r] \notin Answered \cup {"start"}}

Tick ==
    /\ now < MaxTime
    /\ now' = now + 1
    /\ UNCHANGED <<records, fields, pc, handle, retry, sweeper, history>>

-----------------------------------------------------------------------------
(* IsLocked and UnlockIn: a lookup, then a look at the record.              *)

\* The first half of IsLocked (from "start") and of UnlockIn (from "locked").
Lookup(r) ==
    LET R == records[IPOf[r]] IN
    /\ pc[r] \in {"start", "locked"}
    /\ ~Sweeping
    /\ handle' = [handle EXCEPT ![r] = R]
    /\ Goto(r, IF pc[r] = "start" THEN IF R = NoRecord THEN "auth" ELSE "isLocked"
                                  ELSE IF R = NoRecord THEN "rejected" ELSE "unlockIn")
    /\ UNCHANGED <<now, records, fields, retry, sweeper, history>>

\* Mutant of IsLocked: the lockout is over one tick early.
IsLockedEarly(r) ==
    LET R == handle[r]
        over == Locked(R) /\ now - lockedAt[R] >= LockoutDuration - 1
    IN
    /\ pc[r] = "isLocked"
    /\ lockedAt' = [lockedAt EXCEPT ![R] = IF over THEN ZeroTime ELSE @]
    /\ failures' = [failures EXCEPT ![R] = IF over THEN 0 ELSE @]
    /\ Goto(r, IF Locked(R) /\ ~over THEN "locked" ELSE "auth")
    /\ UNCHANGED <<now, records, resetAt, handle, retry, sweeper, history>>

IsLocked(r) ==
    LET R == handle[r]
        over == Locked(R) /\ Elapsed(R)
    IN
    /\ pc[r] = "isLocked"
    /\ lockedAt' = [lockedAt EXCEPT ![R] = IF over THEN ZeroTime ELSE @]
    /\ failures' = [failures EXCEPT ![R] = IF over THEN 0 ELSE @]
    /\ Goto(r, IF Locked(R) /\ ~over THEN "locked" ELSE "auth")
    /\ UNCHANGED <<now, records, resetAt, handle, retry, sweeper, history>>

\* Mutant of RetryAfter: rounded down.
RetryAfterFloor(R) ==
    IF ~Locked(R) \/ Elapsed(R) THEN 0
    ELSE (LockoutDuration - (now - lockedAt[R])) \div Second

\* The result of UnlockIn for record R, in seconds.
RetryAfter(R) ==
    IF ~Locked(R) \/ Elapsed(R) THEN 0
    ELSE (LockoutDuration - (now - lockedAt[R])) \div Second + 1

UnlockIn(r) ==
    /\ pc[r] = "unlockIn"
    /\ retry' = [retry EXCEPT ![r] = RetryAfter(handle[r])]
    /\ Goto(r, "rejected")
    /\ UNCHANGED <<now, records, fields, handle, sweeper, history>>

-----------------------------------------------------------------------------
(* The key is checked; its outcome is recorded in the record of the IP.     *)

\* authFn, and getOrCreate of RecordFailure or RecordSuccess.
GetOrCreate(r) ==
    LET R == IF records[IPOf[r]] = NoRecord THEN r ELSE records[IPOf[r]] IN
    /\ pc[r] = "auth"
    /\ ~Sweeping
    /\ records' = [records EXCEPT ![IPOf[r]] = R]
    /\ handle' = [handle EXCEPT ![r] = R]
    /\ Goto(r, IF r \in ValidKey THEN "recordSuccess" ELSE "recordFailure")
    /\ UNCHANGED <<now, fields, retry, sweeper, history>>

\* Mutant of RecordFailure: the threshold is passed one failure early.
RecordFailureEarly(r) ==
    LET R == handle[r]
        lapsed == resetAt[R] # ZeroTime /\ now > resetAt[R]
        count == IF lapsed THEN 1 ELSE failures[R] + 1
        locks == count + 1 >= Threshold /\ (lapsed \/ ~Locked(R))
    IN
    /\ pc[r] = "recordFailure"
    /\ failures' = [failures EXCEPT ![R] = count]
    /\ resetAt' = [resetAt EXCEPT ![R] = now + WindowDuration]
    /\ lockedAt' = [lockedAt EXCEPT ![R] = IF locks THEN now
                                           ELSE IF lapsed THEN ZeroTime ELSE @]
    /\ ahead' = [ahead EXCEPT ![R] = IF locks THEN Underway(IPOf[r]) ELSE @]
    /\ lockedUntil' = [lockedUntil EXCEPT ![IPOf[r]] =
                          IF locks THEN now + LockoutDuration ELSE @]
    /\ failedAt' = [failedAt EXCEPT ![r] = now]
    /\ Goto(r, "denied")
    /\ UNCHANGED <<now, records, handle, retry, sweeper>>

RecordFailure(r) ==
    LET R == handle[r]
        lapsed == resetAt[R] # ZeroTime /\ now > resetAt[R]
        count == IF lapsed THEN 1 ELSE failures[R] + 1
        locks == count >= Threshold /\ (lapsed \/ ~Locked(R))
    IN
    /\ pc[r] = "recordFailure"
    /\ failures' = [failures EXCEPT ![R] = count]
    /\ resetAt' = [resetAt EXCEPT ![R] = now + WindowDuration]
    /\ lockedAt' = [lockedAt EXCEPT ![R] = IF locks THEN now
                                           ELSE IF lapsed THEN ZeroTime ELSE @]
    /\ ahead' = [ahead EXCEPT ![R] = IF locks THEN Underway(IPOf[r]) ELSE @]
    /\ lockedUntil' = [lockedUntil EXCEPT ![IPOf[r]] =
                          IF locks THEN now + LockoutDuration ELSE @]
    /\ failedAt' = [failedAt EXCEPT ![r] = now]
    /\ Goto(r, "denied")
    /\ UNCHANGED <<now, records, handle, retry, sweeper>>

\* Mutant of RecordSuccess: the counter is cleared, not the lock.
RecordSuccessKeepsLock(r) ==
    LET R == handle[r] IN
    /\ pc[r] = "recordSuccess"
    /\ failures' = [failures EXCEPT ![R] = 0]
    /\ resetAt' = [resetAt EXCEPT ![R] = ZeroTime]
    /\ Goto(r, "served")
    /\ UNCHANGED <<now, records, lockedAt, handle, retry, sweeper, history>>

RecordSuccess(r) ==
    LET R == handle[r] IN
    /\ pc[r] = "recordSuccess"
    /\ failures' = [failures EXCEPT ![R] = 0]
    /\ lockedAt' = [lockedAt EXCEPT ![R] = ZeroTime]
    /\ resetAt' = [resetAt EXCEPT ![R] = ZeroTime]
    /\ Goto(r, "served")
    /\ UNCHANGED <<now, records, handle, retry, sweeper, history>>

-----------------------------------------------------------------------------
(* cleanup: a cutoff, then a look at every record under al.mu.  A record    *)
(* found stale is deleted after its own lock is released.                   *)

SweepTick ==
    /\ sweep = "idle"
    /\ sweep' = "lock"
    /\ cutoff' = now
    /\ UNCHANGED <<now, records, fields, pc, handle, retry, todo, victim, history>>

SweepLock ==
    /\ sweep = "lock"
    /\ sweep' = "scan"
    /\ todo' = {ip \in IPs : records[ip] # NoRecord}
    /\ UNCHANGED <<now, records, fields, pc, handle, retry, cutoff, victim, history>>

\* A record never written, or last written by RecordSuccess, is stale at once.
Stale(R) ==
    /\ ~Locked(R)
    /\ resetAt[R] = ZeroTime \/ resetAt[R] + 2 * LockoutDuration < cutoff

SweepScan(ip) ==
    /\ Sweeping
    /\ victim = {}
    /\ ip \in todo
    /\ todo' = todo \ {ip}
    /\ victim' = IF Stale(records[ip]) THEN {ip} ELSE {}
    /\ UNCHANGED <<now, records, fields, pc, handle, retry, sweep, cutoff, history>>

SweepDelete ==
    /\ victim # {}
    /\ records' = [ip \in IPs |-> IF ip \in victim THEN NoRecord ELSE records[ip]]
    /\ victim' = {}
    /\ UNCHANGED <<now, fields, pc, handle, retry, sweep, cutoff, todo, history>>

SweepEnd ==
    /\ Sweeping
    /\ todo = {} /\ victim = {}
    /\ sweep' = "idle"
    /\ cutoff' = 0
    /\ UNCHANGED <<now, records, fields, pc, handle, retry, todo, victim, history>>

-----------------------------------------------------------------------------
Wrap(r) ==
    \/ Lookup(r) \/ IsLocked(r) \/ UnlockIn(r)
    \/ GetOrCreate(r) \/ RecordFailure(r) \/ RecordSuccess(r)

cleanup ==
    \/ SweepTick \/ SweepLock \/ SweepDelete \/ SweepEnd
    \/ \E ip \in IPs : SweepScan(ip)

Next == Tick \/ cleanup \/ \E r \in Reqs : Wrap(r)

Spec == Init /\ [][Next]_vars

-----------------------------------------------------------------------------
\* What Stats counts.
LockedIPs == {ip \in IPs : /\ records[ip] # NoRecord
                            /\ Locked(records[ip]) /\ ~Elapsed(records[ip])}
WatchedIPs == {ip \in IPs : records[ip] # NoRecord /\ failures[records[ip]] > 0}

\* A locked address is also a watched one, as the comment on LockoutStats says:
\* whatever path clears one of the two fields of a record clears the other, so
\* the dashboard never shows more locked than watched addresses (lockout.go:192).
LockedAreWatched == LockedIPs \subseteq WatchedIPs

\* Nobody is locked out by the failures of another address, or by fewer failures
\* than the threshold: a locked record has behind it Threshold failures of its
\* own address, each at most one window after the one before it.
LockEarned ==
    \A R \in Reqs : Locked(R) =>
        Cardinality({r \in Reqs :
            /\ IPOf[r] = IPOf[R] /\ pc[r] = "denied"
            /\ failedAt[r] <= lockedAt[R]
            /\ failedAt[r] + (Threshold - 1) * WindowDuration >= lockedAt[R]})
        >= Threshold

\* A lock that has not run out goes away or is renewed only by the hand of a
\* request that was already past the start of its check when the lock was set,
\* or of the cleanup in the gap between its look at the record and the delete:
\* a request that arrives later cannot lift it, with any key, on any path.
LockOutlivesNewcomers ==
    [][\A ip \in LockedIPs :
          LET R == records[ip] IN
          records'[ip] # R \/ lockedAt'[R] # lockedAt[R] =>
              ip \in victim \/ \E r \in ahead[R] : pc'[r] # pc[r]]_vars

\* A client that waits as Retry-After tells it finds the lock that rejected it
\* gone, and has not waited a second more than needed, although UnlockIn looks
\* the record up again after IsLocked (lockout.go:154-161).
RetryAfterCovers ==
    [][\A r \in Reqs :
          pc[r] = "unlockIn" /\ pc'[r] = "rejected" /\ Locked(handle[r]) =>
              LET end == lockedAt[handle[r]] + LockoutDuration IN
              /\ now + retry'[r] * Second >= end
              /\ retry'[r] = 0 \/ now + (retry'[r] - 1) * Second <= end]_vars

-----------------------------------------------------------------------------
(* What the documentation says, and the code does not do.                   *)

\* "after threshold consecutive failures from the same IP, all requests from that
\* IP are rejected" (lockout.go:25): when a threshold of wrong keys of one address
\* has been refused, none of them outside the window, it has been locked.
ThresholdLocks ==
    \A ip \in IPs :
        LET refused == {r \in Reqs : IPOf[r] = ip /\ pc[r] = "denied"} IN
        /\ Cardinality(refused) >= Threshold
        /\ \A r \in refused : failedAt[r] + WindowDuration >= now
        => lockedUntil[ip] # 0

=============================================================================
