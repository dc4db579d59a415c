-------------------------- MODULE AuthLockoutProofs --------------------------
(***************************************************************************)
(* Proofs about AuthLockout, for any requests, addresses, keys, durations  *)
(* and threshold.  LockoutInv is the inductive invariant: a record belongs *)
(* to one address and is untouched until its creator puts it in the map,   *)
(* it is locked exactly while its failures reach the threshold, and its    *)
(* failures are those of a chain of requests of its address.               *)
(***************************************************************************)
EXTENDS AuthLockout, FiniteSetTheorems, TLAPS

Created(R) == pc[R] \in {"recordFailure", "recordSuccess", "denied", "served"}

OwnRecords ==
    /\ \A ip \in IPs : records[ip] # NoRecord =>
           Created(records[ip]) /\ IPOf[records[ip]] = ip
    /\ \A r \in Reqs : handle[r] # NoRecord =>
           Created(handle[r]) /\ IPOf[handle[r]] = IPOf[r]

Untouched ==
    \A R \in Reqs : ~Created(R) => failures[R] = 0 /\ lockedAt[R] = ZeroTime

LockedAtThreshold == \A R \in Reqs : Locked(R) <=> failures[R] >= Threshold

\* A request that no lock of its address found under way is still outside, or
\* about to look at the very record that is locked.
NewcomersOutside ==
    \A ip \in LockedIPs : \A r \in Reqs \ ahead[records[ip]] :
        IPOf[r] = ip =>
            \/ pc[r] \in {"start", "locked", "unlockIn"} \cup Answered
            \/ pc[r] = "isLocked" /\ handle[r] = records[ip]

\* The failures recorded in R, no later than t and at most d before it.
Chain(R, t, d) == {r \in Reqs : /\ pc[r] = "denied" /\ handle[r] = R
                                /\ failedAt[r] <= t /\ failedAt[r] + d >= t}

\* The same after the step.
ChainNext(R, t, d) == {r \in Reqs : /\ pc'[r] = "denied" /\ handle'[r] = R
                                    /\ failedAt'[r] <= t /\ failedAt'[r] + d >= t}

LastFailure(R) == resetAt[R] - WindowDuration

FailuresChained ==
    \A R \in Reqs : failures[R] > 0 =>
        /\ LastFailure(R) \in 1..now
        /\ Cardinality(Chain(R, LastFailure(R), (failures[R] - 1) * WindowDuration))
             >= failures[R]

LockChained ==
    \A R \in Reqs : Locked(R) =>
        Cardinality(Chain(R, lockedAt[R], (Threshold - 1) * WindowDuration)) >= Threshold

LockoutInv ==
    /\ TypeOK
    /\ OwnRecords /\ Untouched
    /\ LockedAtThreshold /\ NewcomersOutside
    /\ FailuresChained /\ LockChained

-----------------------------------------------------------------------------
\* Nothing is locked and no record exists at the start.
LEMMA LockoutInvInit == Init => LockoutInv
BY LockoutAssumption
   DEF Init, LockoutInv, TypeOK, OwnRecords, Untouched, LockedAtThreshold, Locked,
       NewcomersOutside, LockedIPs, FailuresChained, LockChained, Created, ZeroTime,
       Answered, Using

\* The values stay in their types, and a request that uses a record has one.
LEMMA TypeStep == LockoutInv /\ [Next]_vars => TypeOK'
<1> SUFFICES ASSUME LockoutInv, [Next]_vars PROVE TypeOK'
  OBVIOUS
<1> USE LockoutAssumption DEF LockoutInv, TypeOK, fields, sweeper, history, Goto,
        Answered, Using, ZeroTime
<1>1. CASE Tick
  BY <1>1 DEF Tick
<1>2. CASE cleanup
  BY <1>2 DEF cleanup, SweepTick, SweepLock, SweepDelete, SweepEnd, SweepScan, Sweeping
<1>3. ASSUME NEW r \in Reqs, Lookup(r) PROVE TypeOK'
  BY <1>3 DEF Lookup
<1>4. ASSUME NEW r \in Reqs, IsLocked(r) PROVE TypeOK'
  BY <1>4 DEF IsLocked
<1>5. ASSUME NEW r \in Reqs, UnlockIn(r) PROVE TypeOK'
  <2>1. \A n \in Nat : n \div Second \in Nat
    BY DEF LockoutAssumption
  <2>2. RetryAfter(handle[r]) \in Nat
    BY <1>5, <2>1 DEF UnlockIn, RetryAfter, Elapsed, Locked
  <2> QED
    BY <1>5, <2>2 DEF UnlockIn
<1>6. ASSUME NEW r \in Reqs, GetOrCreate(r) PROVE TypeOK'
  BY <1>6 DEF GetOrCreate
<1>7. ASSUME NEW r \in Reqs, RecordFailure(r) PROVE TypeOK'
  BY <1>7 DEF RecordFailure, Underway
<1>8. ASSUME NEW r \in Reqs, RecordSuccess(r) PROVE TypeOK'
  BY <1>8 DEF RecordSuccess
<1>9. CASE UNCHANGED vars
  BY <1>9 DEF vars
<1> QED
  BY <1>1, <1>2, <1>3, <1>4, <1>5, <1>6, <1>7, <1>8, <1>9 DEF Next, Wrap

\* A record is created once, for the address of its creator, and only requests of
\* that address get hold of it.
LEMMA OwnRecordsStep == LockoutInv /\ [Next]_vars => OwnRecords' /\ Untouched'
<1> SUFFICES ASSUME LockoutInv, [Next]_vars PROVE OwnRecords' /\ Untouched'
  OBVIOUS
<1> USE LockoutAssumption DEF LockoutInv, TypeOK, OwnRecords, Untouched, Created, fields,
        sweeper, history, Goto, Answered, Using, ZeroTime
<1>1. CASE Tick
  BY <1>1 DEF Tick
<1>2. CASE cleanup
  BY <1>2 DEF cleanup, SweepTick, SweepLock, SweepDelete, SweepEnd, SweepScan, Sweeping
<1>3. ASSUME NEW r \in Reqs, Lookup(r) PROVE OwnRecords' /\ Untouched'
  BY <1>3 DEF Lookup
<1>4. ASSUME NEW r \in Reqs, IsLocked(r) PROVE OwnRecords' /\ Untouched'
  BY <1>4 DEF IsLocked
<1>5. ASSUME NEW r \in Reqs, UnlockIn(r) PROVE OwnRecords' /\ Untouched'
  BY <1>5 DEF UnlockIn
<1>6. ASSUME NEW r \in Reqs, GetOrCreate(r) PROVE OwnRecords' /\ Untouched'
  BY <1>6 DEF GetOrCreate
<1>7. ASSUME NEW r \in Reqs, RecordFailure(r) PROVE OwnRecords' /\ Untouched'
  BY <1>7 DEF RecordFailure
<1>8. ASSUME NEW r \in Reqs, RecordSuccess(r) PROVE OwnRecords' /\ Untouched'
  BY <1>8 DEF RecordSuccess
<1>9. CASE UNCHANGED vars
  BY <1>9 DEF vars
<1> QED
  BY <1>1, <1>2, <1>3, <1>4, <1>5, <1>6, <1>7, <1>8, <1>9 DEF Next, Wrap

\* Every path that clears the lock of a record brings its failures below the
\* threshold, and the failure that reaches the threshold sets the lock.
LEMMA ThresholdStep == LockoutInv /\ [Next]_vars => LockedAtThreshold'
<1> SUFFICES ASSUME LockoutInv, [Next]_vars PROVE LockedAtThreshold'
  OBVIOUS
<1> USE LockoutAssumption DEF LockoutInv, TypeOK, LockedAtThreshold, Locked, fields,
        sweeper, history, ZeroTime, Using
<1>1. CASE Tick
  BY <1>1 DEF Tick
<1>2. CASE cleanup
  BY <1>2 DEF cleanup, SweepTick, SweepLock, SweepDelete, SweepEnd, SweepScan
<1>3. ASSUME NEW r \in Reqs, Wrap(r) PROVE LockedAtThreshold'
  BY <1>3 DEF Wrap, Lookup, IsLocked, UnlockIn, GetOrCreate, RecordFailure, RecordSuccess
<1>4. CASE UNCHANGED vars
  BY <1>4 DEF vars
<1> QED
  BY <1>1, <1>2, <1>3, <1>4 DEF Next

\* A request that arrives after the lock is set finds that lock.
LEMMA NewcomersStep == LockoutInv /\ [Next]_vars => NewcomersOutside'
<1> SUFFICES ASSUME LockoutInv, [Next]_vars PROVE NewcomersOutside'
  OBVIOUS
<1> USE LockoutAssumption DEF LockoutInv, TypeOK, NewcomersOutside, LockedIPs, Locked,
        Elapsed, fields, sweeper, history, Goto, Answered, Using, ZeroTime
<1>1. CASE Tick
  BY <1>1 DEF Tick
<1>2. CASE cleanup
  BY <1>2 DEF cleanup, SweepTick, SweepLock, SweepDelete, SweepEnd, SweepScan, Sweeping
<1>3. ASSUME NEW r \in Reqs, Lookup(r) PROVE NewcomersOutside'
  BY <1>3 DEF Lookup
<1>4. ASSUME NEW r \in Reqs, IsLocked(r) PROVE NewcomersOutside'
  BY <1>4 DEF IsLocked
<1>5. ASSUME NEW r \in Reqs, UnlockIn(r) PROVE NewcomersOutside'
  BY <1>5 DEF UnlockIn
<1>6. ASSUME NEW r \in Reqs, GetOrCreate(r) PROVE NewcomersOutside'
  BY <1>6 DEF GetOrCreate, Untouched, OwnRecords, Created
<1>7. ASSUME NEW r \in Reqs, RecordFailure(r) PROVE NewcomersOutside'
  BY <1>7 DEF RecordFailure, OwnRecords, Underway
<1>8. ASSUME NEW r \in Reqs, RecordSuccess(r) PROVE NewcomersOutside'
  BY <1>8 DEF RecordSuccess
<1>9. CASE UNCHANGED vars
  BY <1>9 DEF vars
<1> QED
  BY <1>1, <1>2, <1>3, <1>4, <1>5, <1>6, <1>7, <1>8, <1>9 DEF Next, Wrap

-----------------------------------------------------------------------------
\* A set of requests with one more member is larger.
LEMMA OneMore ==
    ASSUME NEW S \in SUBSET Reqs, NEW T \in SUBSET Reqs, NEW r \in T \ S, S \subseteq T,
           NEW n \in Nat, Cardinality(S) >= n
    PROVE  Cardinality(T) >= n + 1
<1>1. IsFiniteSet(S) /\ IsFiniteSet(T)
  BY LockoutAssumption, FS_Subset
<1>2. Cardinality(S \cup {r}) = Cardinality(S) + 1
  BY <1>1, FS_AddElement
<1>3. Cardinality(S \cup {r}) <= Cardinality(T)
  BY <1>1, FS_Subset
<1> QED
  BY <1>1, <1>2, <1>3, FS_CardinalityType

\* Sets of requests grow with their members.
LEMMA NoFewer ==
    ASSUME NEW S \in SUBSET Reqs, NEW T \in SUBSET Reqs, S \subseteq T,
           NEW n \in Nat, Cardinality(S) >= n
    PROVE  Cardinality(T) >= n
<1>1. IsFiniteSet(S) /\ IsFiniteSet(T)
  BY LockoutAssumption, FS_Subset
<1> QED
  BY <1>1, FS_Subset, FS_CardinalityType

\* A step other than a failure of record R leaves every chain of R as it was.
LEMMA ChainKept ==
    ASSUME LockoutInv, [Next]_vars, NEW R \in Reqs,
           \A r \in Reqs : RecordFailure(r) => handle[r] # R
    PROVE  \A t, d \in Int : ChainNext(R, t, d) = Chain(R, t, d)
<1> USE DEF LockoutInv, TypeOK, Chain, ChainNext, fields, sweeper, history, Goto, Answered, Using
<1>1. CASE Tick
  BY <1>1 DEF Tick
<1>2. CASE cleanup
  BY <1>2 DEF cleanup, SweepTick, SweepLock, SweepDelete, SweepEnd, SweepScan
<1>3. ASSUME NEW r \in Reqs, Wrap(r), ~RecordFailure(r)
      PROVE  \A t, d \in Int : ChainNext(R, t, d) = Chain(R, t, d)
  BY <1>3 DEF Wrap, Lookup, IsLocked, UnlockIn, GetOrCreate, RecordSuccess
<1>4. ASSUME NEW r \in Reqs, RecordFailure(r)
      PROVE  \A t, d \in Int : ChainNext(R, t, d) = Chain(R, t, d)
  BY <1>4 DEF RecordFailure
<1>5. CASE UNCHANGED vars
  BY <1>5 DEF vars
<1> QED
  BY <1>1, <1>2, <1>3, <1>4, <1>5 DEF Next

\* A step other than a failure of R writes its resetAt only with a reset of its
\* failures, and no such step locks it.
LEMMA OnlyFailuresCount ==
    ASSUME LockoutInv, [Next]_vars, NEW R \in Reqs,
           \A r \in Reqs : RecordFailure(r) => handle[r] # R
    PROVE  /\ failures'[R] = 0 \/ (failures'[R] = failures[R] /\ resetAt'[R] = resetAt[R])
           /\ lockedAt'[R] = ZeroTime \/ lockedAt'[R] = lockedAt[R]
<1> USE DEF LockoutInv, TypeOK, fields, sweeper, history, Using
<1>1. CASE Tick
  BY <1>1 DEF Tick
<1>2. CASE cleanup
  BY <1>2 DEF cleanup, SweepTick, SweepLock, SweepDelete, SweepEnd, SweepScan
<1>3. ASSUME NEW r \in Reqs, Wrap(r)
      PROVE  /\ failures'[R] = 0 \/ (failures'[R] = failures[R] /\ resetAt'[R] = resetAt[R])
             /\ lockedAt'[R] = ZeroTime \/ lockedAt'[R] = lockedAt[R]
  BY <1>3 DEF Wrap, Lookup, IsLocked, UnlockIn, GetOrCreate, RecordFailure, RecordSuccess
<1>4. CASE UNCHANGED vars
  BY <1>4 DEF vars
<1> QED
  BY <1>1, <1>2, <1>3, <1>4 DEF Next

\* The clock does not go back.
LEMMA ClockStep == LockoutInv /\ [Next]_vars => now' >= now
BY DEF LockoutInv, TypeOK, Next, vars, Tick, cleanup, SweepTick, SweepLock, SweepDelete,
       SweepEnd, SweepScan, Wrap, Lookup, IsLocked, UnlockIn, GetOrCreate, RecordFailure,
       RecordSuccess

\* One more window of reach for one more failure.
LEMMA WindowAdded == \A c, w \in Nat : ((c + 1) - 1) * w = (c - 1) * w + w /\ c * w \in Nat
BY Z3

\* A failure extends the chain of its record by one member.
LEMMA FailureExtends ==
    ASSUME LockoutInv, NEW r \in Reqs, RecordFailure(r)
    PROVE  LET R == handle[r] IN
           /\ R \in Reqs /\ failures'[R] > 0 /\ failures'[R] \in Nat
           /\ resetAt'[R] = now + WindowDuration
           /\ Cardinality(ChainNext(R, now, (failures'[R] - 1) * WindowDuration))
                >= failures'[R]
           /\ lockedAt'[R] \in {ZeroTime, lockedAt[R]}
                \/ (lockedAt'[R] = now /\ failures'[R] = Threshold)
<1> DEFINE R == handle[r]
           c == failures[R]
           C2 == ChainNext(R, now, (failures'[R] - 1) * WindowDuration)
<1> USE LockoutAssumption DEF LockoutInv, TypeOK, Goto, Using, Answered, ZeroTime
<1>1. R \in Reqs /\ c \in Nat /\ now \in Nat /\ pc[r] = "recordFailure"
  BY DEF RecordFailure
<1>2. C2 \in SUBSET Reqs
  BY DEF ChainNext
<1>3. failures'[R] = 1 \/ (failures'[R] = c + 1 /\ (resetAt[R] = ZeroTime \/ now <= resetAt[R]))
  BY <1>1 DEF RecordFailure
<1>4. resetAt'[R] = now + WindowDuration
  BY <1>1 DEF RecordFailure
<1>5. failedAt'[r] = now /\ pc'[r] = "denied" /\ handle'[r] = R
  BY <1>1 DEF RecordFailure
<1>6. r \in C2
  <2> DEFINE m == failures'[R] - 1
  <2>1. m \in Nat
    BY <1>1, <1>3
  <2>2. m * WindowDuration \in Nat
    BY <2>1, WindowAdded
  <2> QED
    BY <2>2, <1>1, <1>5 DEF ChainNext
<1>7. Cardinality(C2) >= failures'[R]
  <2>1. CASE failures'[R] = 1
    <3>1. Cardinality({}) >= 0
      BY FS_EmptySet
    <3> QED
      BY <1>2, <1>6, <2>1, <3>1, OneMore
  <2>2. CASE failures'[R] = c + 1 /\ c > 0
    <3> DEFINE S == Chain(R, LastFailure(R), (c - 1) * WindowDuration)
    <3>1. LastFailure(R) \in 1..now /\ Cardinality(S) >= c
      BY <1>1, <2>2 DEF FailuresChained
    <3>2. now <= LastFailure(R) + WindowDuration
      BY <1>1, <1>3, <2>2, <3>1 DEF LastFailure
    <3>3. S \in SUBSET Reqs /\ r \notin S
      BY <1>1 DEF Chain
    <3>4. (failures'[R] - 1) * WindowDuration = (c - 1) * WindowDuration + WindowDuration
      BY <1>1, <2>2, WindowAdded
    <3>5. (c - 1) * WindowDuration \in Nat
      BY <1>1, <2>2, WindowAdded
    <3>6. ASSUME NEW s \in S PROVE s \in C2
      <4>1. failedAt[s] <= LastFailure(R) /\ failedAt[s] + (c - 1) * WindowDuration >= LastFailure(R)
        BY DEF Chain
      <4>2. s # r /\ pc'[s] = "denied" /\ handle'[s] = R /\ failedAt'[s] = failedAt[s]
        BY <1>1, <3>3 DEF Chain, RecordFailure
      <4> QED
        BY <1>1, <3>1, <3>2, <3>3, <3>4, <3>5, <4>1, <4>2 DEF ChainNext
    <3> QED
      BY <1>1, <1>2, <1>6, <2>2, <3>1, <3>3, <3>6, OneMore
  <2> QED
    BY <1>1, <1>3, <2>1, <2>2
<1>8. lockedAt'[R] \in {ZeroTime, lockedAt[R]} \/ (lockedAt'[R] = now /\ failures'[R] = Threshold)
  BY <1>1 DEF RecordFailure, LockedAtThreshold, Locked
<1> QED
  BY <1>1, <1>3, <1>4, <1>7, <1>8

\* The chains behind the failures and behind the locks survive every step.
LEMMA ChainStep == LockoutInv /\ [Next]_vars => FailuresChained' /\ LockChained'
<1> SUFFICES ASSUME LockoutInv, [Next]_vars, NEW R \in Reqs
             PROVE  /\ failures'[R] > 0 =>
                         /\ resetAt'[R] - WindowDuration \in 1..now'
                         /\ Cardinality(ChainNext(R, resetAt'[R] - WindowDuration,
                                                  (failures'[R] - 1) * WindowDuration))
                              >= failures'[R]
                    /\ lockedAt'[R] # ZeroTime =>
                         Cardinality(ChainNext(R, lockedAt'[R],
                                               (Threshold - 1) * WindowDuration))
                           >= Threshold
  BY DEF FailuresChained, LockChained, LastFailure, Locked, Chain, ChainNext
<1> USE LockoutAssumption DEF ZeroTime
<1> DEFINE D == (Threshold - 1) * WindowDuration
<1>0. D \in Nat
  <2> DEFINE m == Threshold - 1
  <2>1. m \in Nat
    OBVIOUS
  <2> QED
    BY <2>1, WindowAdded
<1>1. CASE \E r \in Reqs : RecordFailure(r) /\ handle[r] = R
  <2> PICK r \in Reqs : RecordFailure(r) /\ handle[r] = R
    BY <1>1
  <2>1. now \in 1..MaxTime /\ now' = now /\ lockedAt[R] \in Nat
    BY DEF RecordFailure, LockoutInv, TypeOK
  <2>2. resetAt'[R] - WindowDuration = now
    BY <2>1, FailureExtends
  <2>3. Cardinality(ChainNext(R, now, (failures'[R] - 1) * WindowDuration)) >= failures'[R]
    BY FailureExtends
  <2>4. ASSUME lockedAt'[R] # ZeroTime
        PROVE  Cardinality(ChainNext(R, lockedAt'[R], D)) >= Threshold
    <3>1. CASE lockedAt'[R] = now /\ failures'[R] = Threshold
      BY <2>3, <3>1
    <3>2. CASE lockedAt'[R] = lockedAt[R]
      <4>1. Cardinality(Chain(R, lockedAt[R], D)) >= Threshold
        BY <2>4, <3>2 DEF LockoutInv, LockChained, Locked
      <4>2. \A s \in Reqs : pc[s] = "denied" =>
              pc'[s] = "denied" /\ handle'[s] = handle[s] /\ failedAt'[s] = failedAt[s]
        BY DEF RecordFailure, LockoutInv, TypeOK, Goto
      <4>3. Chain(R, lockedAt[R], D) \subseteq ChainNext(R, lockedAt[R], D)
        BY <4>2 DEF Chain, ChainNext
      <4>4. Chain(R, lockedAt[R], D) \in SUBSET Reqs /\ ChainNext(R, lockedAt[R], D) \in SUBSET Reqs
        BY DEF Chain, ChainNext
      <4> HIDE DEF D
      <4> QED
        BY <3>2, <4>1, <4>3, <4>4, NoFewer
    <3> QED
      BY <2>4, <3>1, <3>2, FailureExtends
  <2> QED
    BY <2>1, <2>2, <2>3, <2>4
<1>2. CASE \A r \in Reqs : RecordFailure(r) => handle[r] # R
  <2>1. \A t, d \in Int : ChainNext(R, t, d) = Chain(R, t, d)
    BY <1>2, ChainKept
  <2>2. /\ failures'[R] = 0 \/ (failures'[R] = failures[R] /\ resetAt'[R] = resetAt[R])
        /\ lockedAt'[R] = ZeroTime \/ lockedAt'[R] = lockedAt[R]
    BY <1>2, OnlyFailuresCount
  <2>3. now' >= now /\ now \in Nat /\ now' \in Nat
    BY ClockStep, TypeStep DEF LockoutInv, TypeOK
  <2>4. failures[R] \in Nat /\ resetAt[R] \in Nat /\ lockedAt[R] \in Nat
    BY DEF LockoutInv, TypeOK
  <2>5. ASSUME failures'[R] > 0
        PROVE  /\ resetAt'[R] - WindowDuration \in 1..now'
               /\ Cardinality(ChainNext(R, resetAt'[R] - WindowDuration,
                                        (failures'[R] - 1) * WindowDuration))
                    >= failures'[R]
    <3>1. failures'[R] = failures[R] /\ resetAt'[R] = resetAt[R] /\ failures[R] > 0
      BY <2>2, <2>4, <2>5
    <3> DEFINE m == failures[R] - 1
    <3>2. m \in Nat /\ m * WindowDuration \in Nat
      <4>1. m \in Nat
        BY <2>4, <3>1
      <4> QED
        BY <4>1, WindowAdded
    <3>3. ChainNext(R, resetAt[R] - WindowDuration, m * WindowDuration)
            = Chain(R, resetAt[R] - WindowDuration, m * WindowDuration)
      BY <2>1, <2>4, <3>2
    <3> QED
      BY <2>3, <3>1, <3>3 DEF LockoutInv, FailuresChained, LastFailure
  <2>6. ASSUME lockedAt'[R] # ZeroTime
        PROVE  Cardinality(ChainNext(R, lockedAt'[R], D)) >= Threshold
    <3>1. ChainNext(R, lockedAt[R], D) = Chain(R, lockedAt[R], D)
      BY <1>0, <2>1, <2>4
    <3> QED
      BY <2>2, <2>6, <3>1 DEF LockoutInv, LockChained, Locked
  <2> QED
    BY <2>5, <2>6
<1> QED
  BY <1>1, <1>2

-----------------------------------------------------------------------------
\* LockoutInv is an invariant of the lockout.
THEOREM LockoutInvariant == Spec => []LockoutInv
<1>1. LockoutInv /\ [Next]_vars => LockoutInv'
  BY TypeStep, OwnRecordsStep, ThresholdStep, NewcomersStep, ChainStep DEF LockoutInv
<1> QED
  BY <1>1, LockoutInvInit, PTL DEF Spec

\* Type correctness, and no request uses a record it does not have.
THEOREM LockoutTypeCorrect == Spec => []TypeOK
<1>1. LockoutInv => TypeOK
  BY DEF LockoutInv
<1> QED
  BY <1>1, LockoutInvariant, PTL

\* The two numbers of LockoutStats are never at odds: locked addresses are watched.
THEOREM StatsConsistent == Spec => []LockedAreWatched
<1>1. LockoutInv => LockedAreWatched
  BY LockoutAssumption
     DEF LockoutInv, TypeOK, LockedAreWatched, LockedIPs, WatchedIPs, LockedAtThreshold
<1> QED
  BY <1>1, LockoutInvariant, PTL

\* No address is locked out without a chain of Threshold failures of its own.
THEOREM NoInnocentLockout == Spec => []LockEarned
<1>1. LockoutInv => LockEarned
  <2> SUFFICES ASSUME LockoutInv, NEW R \in Reqs, Locked(R)
               PROVE  Cardinality({r \in Reqs :
                          /\ IPOf[r] = IPOf[R] /\ pc[r] = "denied"
                          /\ failedAt[r] <= lockedAt[R]
                          /\ failedAt[r] + (Threshold - 1) * WindowDuration >= lockedAt[R]})
                        >= Threshold
    BY DEF LockEarned
  <2> DEFINE S == Chain(R, lockedAt[R], (Threshold - 1) * WindowDuration)
             T == {r \in Reqs :
                     /\ IPOf[r] = IPOf[R] /\ pc[r] = "denied"
                     /\ failedAt[r] <= lockedAt[R]
                     /\ failedAt[r] + (Threshold - 1) * WindowDuration >= lockedAt[R]}
  <2>1. S \subseteq T
    BY LockoutAssumption DEF Chain, LockoutInv, OwnRecords
  <2>2. S \in SUBSET Reqs /\ T \in SUBSET Reqs
    BY DEF Chain
  <2>3. Cardinality(S) >= Threshold
    BY DEF LockoutInv, LockChained
  <2> HIDE DEF S, T
  <2>4. Cardinality(T) >= Threshold
    BY <2>1, <2>2, <2>3, NoFewer, LockoutAssumption
  <2> QED
    BY <2>4 DEF T
<1> QED
  BY <1>1, LockoutInvariant, PTL

\* Only requests that were under way when an active lock was set, or the cleanup,
\* can lift or renew it.
THEOREM NewcomersCannotUnlock == Spec => LockOutlivesNewcomers
<1>1. ASSUME LockoutInv, [Next]_vars
      PROVE  [\A ip \in LockedIPs :
                LET R == records[ip] IN
                records'[ip] # R \/ lockedAt'[R] # lockedAt[R] =>
                    ip \in victim \/ \E r \in ahead[R] : pc'[r] # pc[r]]_vars
  <2> SUFFICES ASSUME NEW ip \in LockedIPs,
                      \/ records'[ip] # records[ip]
                      \/ lockedAt'[records[ip]] # lockedAt[records[ip]],
                      ip \notin victim
               PROVE  \E r \in ahead[records[ip]] : pc'[r] # pc[r]
    OBVIOUS
  <2> DEFINE R == records[ip]
  <2> USE <1>1, LockoutAssumption DEF LockoutInv, TypeOK, LockedIPs, Locked, Elapsed, ZeroTime,
          fields, sweeper, history, Goto, Using
  <2>1. ASSUME NEW r \in Reqs, RecordFailure(r) PROVE r \in ahead[R] /\ pc'[r] # pc[r]
    BY <2>1 DEF RecordFailure, NewcomersOutside, OwnRecords, Answered
  <2>2. ASSUME NEW r \in Reqs, RecordSuccess(r) PROVE r \in ahead[R] /\ pc'[r] # pc[r]
    BY <2>2 DEF RecordSuccess, NewcomersOutside, OwnRecords, Answered
  <2>3. ~UNCHANGED vars /\ ~Tick /\ ~cleanup
    BY DEF vars, Tick, cleanup, SweepTick, SweepLock, SweepDelete, SweepEnd, SweepScan
  <2>4. ASSUME NEW r \in Reqs PROVE ~Lookup(r) /\ ~IsLocked(r) /\ ~UnlockIn(r) /\ ~GetOrCreate(r)
    BY DEF Lookup, IsLocked, UnlockIn, GetOrCreate
  <2> QED
    BY <2>1, <2>2, <2>3, <2>4 DEF Next, Wrap
<1> QED
  BY <1>1, LockoutInvariant, PTL DEF Spec, LockOutlivesNewcomers

\* What rounding down and adding one gives.
LEMMA NextSecond ==
    ASSUME NEW left \in Nat
    PROVE  LET n == left \div Second + 1 IN
           /\ n \in Nat /\ n * Second >= left /\ (n - 1) * Second <= left
<1> DEFINE q == left \div Second
<1>1. q \in Nat /\ Second * q <= left /\ left < Second * (q + 1)
  BY LockoutAssumption
<1> HIDE DEF q
<1>2. Second * (q + 1) = (q + 1) * Second /\ Second * q = ((q + 1) - 1) * Second
  BY <1>1, LockoutAssumption
<1>3. q + 1 \in Nat /\ (q + 1) * Second >= left /\ ((q + 1) - 1) * Second <= left
  BY <1>1, <1>2, LockoutAssumption
<1> QED
  BY <1>3 DEF q

\* A rejected client that waits for Retry-After finds the lock gone, and waited at
\* most a second too long (lockout.go:136-140).
THEOREM RetryIsEnough == Spec => RetryAfterCovers
<1>1. ASSUME LockoutInv, [Next]_vars
      PROVE  [\A r \in Reqs :
                pc[r] = "unlockIn" /\ pc'[r] = "rejected" /\ Locked(handle[r]) =>
                    LET end == lockedAt[handle[r]] + LockoutDuration IN
                    /\ now + retry'[r] * Second >= end
                    /\ retry'[r] = 0 \/ now + (retry'[r] - 1) * Second <= end]_vars
  <2> SUFFICES ASSUME NEW r \in Reqs, pc[r] = "unlockIn", pc'[r] = "rejected",
                      Locked(handle[r])
               PROVE  LET end == lockedAt[handle[r]] + LockoutDuration IN
                      /\ now + retry'[r] * Second >= end
                      /\ retry'[r] = 0 \/ now + (retry'[r] - 1) * Second <= end
    OBVIOUS
  <2> DEFINE R == handle[r]
             left == LockoutDuration - (now - lockedAt[R])
  <2>1. UnlockIn(r)
    <3>1. ~UNCHANGED vars /\ ~Tick /\ ~cleanup
      BY DEF vars, Tick, cleanup, SweepTick, SweepLock, SweepDelete, SweepEnd, SweepScan
    <3>2. ASSUME NEW q \in Reqs, Wrap(q) PROVE q = r /\ UnlockIn(r)
      BY <1>1, <3>2 DEF LockoutInv, TypeOK, Wrap, Lookup, IsLocked, UnlockIn, GetOrCreate,
                        RecordFailure, RecordSuccess, Goto
    <3> QED
      BY <1>1, <3>1, <3>2 DEF Next
  <2>2. /\ R \in Reqs /\ now \in Nat /\ lockedAt[R] \in Nat /\ LockoutDuration \in Nat
        /\ Second \in Nat /\ retry'[r] = RetryAfter(R)
    BY <1>1, <2>1, LockoutAssumption DEF LockoutInv, TypeOK, UnlockIn, Using
  <2>3. CASE Elapsed(R)
    BY <2>2, <2>3 DEF RetryAfter, Elapsed
  <2>4. CASE ~Elapsed(R)
    <3>1. left \in Nat /\ retry'[r] = left \div Second + 1
      BY <2>2, <2>4 DEF RetryAfter, Elapsed
    <3>2. retry'[r] \in Nat /\ retry'[r] * Second >= left /\ (retry'[r] - 1) * Second <= left
      BY <3>1, NextSecond
    <3> DEFINE m == retry'[r] * Second
               n == (retry'[r] - 1) * Second
    <3>3. m \in Int /\ n \in Int
      BY <2>2, <3>2
    <3>4. m >= left /\ n <= left
      BY <3>2
    <3> HIDE DEF m, n
    <3>5. now + m >= lockedAt[R] + LockoutDuration /\ now + n <= lockedAt[R] + LockoutDuration
      BY <2>2, <3>3, <3>4
    <3> QED
      BY <3>5 DEF m, n
  <2> QED
    BY <2>3, <2>4
<1> QED
  BY <1>1, LockoutInvariant, PTL DEF Spec, RetryAfterCovers

=============================================================================
