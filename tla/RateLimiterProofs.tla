-------------------------- MODULE RateLimiterProofs --------------------------
(***************************************************************************)
(* Proofs about RateLimiter, for any requests, addresses, rate, burst and  *)
(* clean-up age.  The inductive invariant LimiterInv keeps the account of  *)
(* every bucket from both sides: what it let through since any time s and  *)
(* the tokens it has left are at most what it could hold (Credit), and     *)
(* since some time s they are no less (Debit).  AddressInv keeps the       *)
(* account of every address across the buckets it has had (Account).       *)
(***************************************************************************)
EXTENDS RateLimiter, FiniteSetTheorems, WellFoundedInduction, TLAPS

Created(b) == pc[b] # "start"

CreatedBuckets ==
    /\ \A ip \in IPs : buckets[ip] # NoBucket => Created(buckets[ip])
    /\ \A r \in Reqs : handle[r] # NoBucket => Created(handle[r])

\* What bucket b let through since s.
Served(b, s) == {r \in Reqs : pc[r] = "served" /\ handle[r] = b /\ drawnAt[r] >= s}
\* The same after the step.
ServedNext(b, s) == {r \in Reqs : /\ pc'[r] = "served" /\ handle'[r] = b
                                  /\ drawnAt'[r] >= s}

LastDraw == \A r \in Reqs : pc[r] = "served" =>
                handle[r] # NoBucket /\ drawnAt[r] <= lastSeen[handle[r]]

Credit ==
    \A b \in Reqs : \A s \in 0..lastSeen[b] :
        Cost * Cardinality(Served(b, s)) + tokens[b] <= Burst + Rate * (lastSeen[b] - s)

DebitOf(b) ==
    \E s \in 0..lastSeen[b] :
        Cost * Cardinality(Served(b, s)) + tokens[b] >= Burst + Rate * (lastSeen[b] - s)

Debit ==
    /\ \A ip \in IPs : buckets[ip] # NoBucket => DebitOf(buckets[ip])
    /\ \A r \in Reqs : handle[r] # NoBucket => DebitOf(handle[r])

LimiterInv == TypeOK /\ CreatedBuckets /\ LastDraw /\ Credit /\ Debit /\ BucketBound

-----------------------------------------------------------------------------
\* A nonempty set of naturals has a least element.
LEMMA LeastElement ==
    ASSUME NEW S \in SUBSET Nat, S # {}
    PROVE  \E i \in S : \A j \in S : i <= j
<1> DEFINE R == OpToRel(<, Nat)
<1>1. IsWellFoundedOn(R, Nat)
  BY NatLessThanWellFounded
<1>2. \A i, j \in Nat : i < j => <<i, j>> \in R
  BY DEF OpToRel
<1> HIDE DEF R
<1>3. \E i \in S : \A j \in S : <<j, i>> \notin R
  BY <1>1, WFMin
<1>4. \A i, j \in Nat : <<j, i>> \notin R => i <= j
  <2> SUFFICES ASSUME NEW i \in Nat, NEW j \in Nat, j < i PROVE <<j, i>> \in R
    OBVIOUS
  <2> QED
    BY <1>2
<1> QED
  BY <1>3, <1>4

\* Every request is counted for an address, whatever its headers hold.
LEMMA ClientAddress == \A r \in Reqs : clientIP(r) \in IPs
<1> SUFFICES ASSUME NEW r \in Reqs PROVE clientIP(r) \in IPs
  OBVIOUS
<1> DEFINE h == Header[r]
           valid == {i \in DOMAIN h.xff : h.xff[i] # NoIP}
<1>1. h \in [xff : Seq(IPs \cup {NoIP}), xri : IPs \cup {NoIP}, remote : IPs]
  BY RateLimiterAssumption
<1>2. /\ h.xff \in Seq(IPs \cup {NoIP})
      /\ h.xri \in IPs \cup {NoIP}
      /\ h.remote \in IPs
  BY <1>1
<1>3. valid \in SUBSET Nat /\ \A i \in valid : h.xff[i] \in IPs
  BY <1>2
<1>4. CASE valid # {}
  <2>1. \E i \in valid : \A j \in valid : i <= j
    BY <1>3, <1>4, LeastElement
  <2>2. (CHOOSE i \in valid : \A j \in valid : i <= j) \in valid
    BY <2>1
  <2> QED
    BY <1>3, <1>4, <2>2 DEF clientIP
<1>5. CASE valid = {}
  BY <1>2, <1>5 DEF clientIP
<1> QED
  BY <1>4, <1>5

\* The account of a bucket is in whole fractions.
LEMMA Products ==
    /\ Cost * 0 = 0 /\ Rate * 0 = 0 /\ Cost * 1 = Cost
    /\ \A n \in Nat : Cost * n \in Nat /\ Rate * n \in Nat
    /\ \A n \in Nat : Cost * (n + 1) = Cost * n + Cost
    /\ \A m, n \in Nat : Rate * (m + n) = Rate * m + Rate * n
    /\ \A m, n \in Nat : m <= n => Cost * m <= Cost * n
<1>1. Cost \in Nat /\ Rate \in Nat
  BY RateLimiterAssumption
<1>2. \A a, m \in Nat : a * m \in Nat
  BY Z3
<1>3. \A a, m, n \in Nat : a * (m + n) = a * m + a * n
  BY Z3
<1>4. \A a \in Nat : a * 1 = a /\ a * 0 = 0
  BY Z3
<1>5. ASSUME NEW m \in Nat, NEW n \in Nat, m <= n PROVE Cost * m <= Cost * n
  <2>1. n = m + (n - m) /\ n - m \in Nat
    BY <1>5
  <2>2. Cost * n = Cost * m + Cost * (n - m)
    BY <1>1, <1>3, <2>1
  <2> QED
    BY <1>1, <1>2, <2>1, <2>2
<1> QED
  BY <1>1, <1>2, <1>3, <1>4, <1>5

\* Sets of requests are finite, and grow with their members.
LEMMA SetSizes ==
    /\ \A S \in SUBSET Reqs : Cardinality(S) \in Nat
    /\ \A S, T \in SUBSET Reqs : S \subseteq T => Cardinality(S) <= Cardinality(T)
    /\ \A S \in SUBSET Reqs : \A r \in Reqs \ S :
           Cardinality(S \cup {r}) = Cardinality(S) + 1
    /\ Cardinality({}) = 0
<1>1. \A S \in SUBSET Reqs : IsFiniteSet(S)
  BY RateLimiterAssumption, FS_Subset
<1> QED
  BY <1>1, FS_Subset, FS_AddElement, FS_CardinalityType, FS_EmptySet

-----------------------------------------------------------------------------
\* No bucket and no request yet: every account is empty.
LEMMA LimiterInvInit == Init => LimiterInv
<1> SUFFICES ASSUME Init PROVE LimiterInv
  OBVIOUS
<1> USE RateLimiterAssumption DEF Init
<1>1. TypeOK /\ CreatedBuckets /\ LastDraw /\ Debit
  BY DEF TypeOK, CreatedBuckets, LastDraw, Debit, Using, Answered
<1>2. \A b, s : Served(b, s) = {}
  BY DEF Served
<1>3. Credit
  BY <1>2, SetSizes, Products DEF Credit
<1>4. \A b, s, t : ServedBy(b, s, t) = {}
  BY DEF ServedBy
<1>5. BucketBound
  BY <1>4, SetSizes, Products DEF BucketBound
<1> QED
  BY <1>1, <1>3, <1>5 DEF LimiterInv

\* The rounded quotient is a whole number of seconds.
LEMMA QuotientType == \A n \in Int, d \in Nat \ {0} : Quotient(n, d) \in Int
<1> SUFFICES ASSUME NEW n \in Int, NEW d \in Nat \ {0} PROVE Quotient(n, d) \in Int
  OBVIOUS
<1>1. \A m \in Nat : m \div d \in Nat
  OBVIOUS
<1> QED
  BY <1>1 DEF Quotient

\* A refill stays within the burst.
LEMMA RefillRange ==
    ASSUME NEW b, tokens[b] \in 0..Burst, now - lastSeen[b] \in Nat
    PROVE  Refilled(b) \in 0..Burst
<1>1. Rate * (now - lastSeen[b]) \in Nat /\ tokens[b] \in 0..Burst /\ Burst \in Nat
  BY Products, RateLimiterAssumption
<1> QED
  BY <1>1 DEF Refilled

\* The tokens stay between nothing and the burst, and a request that draws or
\* reads a bucket has one.
LEMMA TypeStep == LimiterInv /\ [Next]_vars => TypeOK'
<1> SUFFICES ASSUME LimiterInv, [Next]_vars PROVE TypeOK'
  OBVIOUS
<1> USE RateLimiterAssumption, ClientAddress
    DEF LimiterInv, TypeOK, sweeper, history, Goto, Answered, Using
<1>1. CASE Tick
  BY <1>1 DEF Tick
<1>2. CASE cleanup
  BY <1>2 DEF cleanup, SweepTick, SweepLock, SweepDelete, SweepEnd, SweepScan, Sweeping
<1>3. ASSUME NEW r \in Reqs, FindBucket(r) PROVE TypeOK'
  BY <1>3 DEF FindBucket
<1>4. ASSUME NEW r \in Reqs, Draw(r) PROVE TypeOK'
  <2>1. /\ handle[r] \in Reqs /\ now - lastSeen[handle[r]] \in Nat
        /\ tokens[handle[r]] \in 0..Burst
    BY <1>4 DEF Draw
  <2>2. Refilled(handle[r]) \in 0..Burst
    BY <2>1, RefillRange
  <2> DEFINE v == IF Refilled(handle[r]) >= Cost THEN Refilled(handle[r]) - Cost
                  ELSE Refilled(handle[r])
  <2>3. v \in 0..Burst
    BY <2>2
  <2>4. /\ tokens' = [tokens EXCEPT ![handle[r]] = v]
        /\ pc' \in {[pc EXCEPT ![r] = "served"], [pc EXCEPT ![r] = "refused"]}
        /\ onMap' \in SUBSET Reqs
        /\ lastSeen' = [lastSeen EXCEPT ![handle[r]] = now]
        /\ drawnAt' = [drawnAt EXCEPT ![r] = now]
        /\ UNCHANGED <<now, buckets, handle, retry, sweeper>>
    BY <1>4 DEF Draw
  <2>5. handle[r] # NoBucket
    BY <2>1
  <2> HIDE DEF v
  <2>6. tokens' \in [Reqs -> 0..Burst] /\ lastSeen' \in [Reqs -> 0..now]
        /\ drawnAt' \in [Reqs -> 0..now]
    BY <2>1, <2>3, <2>4
  <2>7. pc' \in [Reqs -> {"start", "draw", "refused", "peek", "readNeed"} \cup Answered]
        /\ \A q \in Reqs : pc'[q] \in Using => pc[q] \in Using
    BY <2>4
  <2> QED
    BY <2>4, <2>6, <2>7
<1>5. ASSUME NEW r \in Reqs, LookupBucket(r) PROVE TypeOK'
  BY <1>5 DEF LookupBucket
<1>6. ASSUME NEW r \in Reqs, Peek(r) PROVE TypeOK'
  <2>1. pc' = [pc EXCEPT ![r] = "limited"] \/ pc' = [pc EXCEPT ![r] = "readNeed"]
    BY <1>6 DEF Peek
  <2>2. handle[r] # NoBucket
    BY <1>6 DEF Peek
  <2> QED
    BY <1>6, <2>1, <2>2 DEF Peek
<1>7. ASSUME NEW r \in Reqs, ReadNeed(r) PROVE TypeOK'
  <2> DEFINE n == Cost - tokens[handle[r]]
             d == Rate * Second
  <2>1. n \in Int /\ d \in Nat \ {0}
    BY <1>7, Z3 DEF ReadNeed
  <2> HIDE DEF n, d
  <2>2. Quotient(n, d) \in Int
    BY <2>1, QuotientType
  <2>3. /\ retry' = [retry EXCEPT ![r] = Quotient(n, d) + 1]
        /\ pc' = [pc EXCEPT ![r] = "limited"]
        /\ UNCHANGED <<now, buckets, tokens, lastSeen, handle, sweeper, history>>
    BY <1>7 DEF ReadNeed, n, d
  <2>4. retry' \in [Reqs -> Int]
    BY <2>2, <2>3
  <2> QED
    BY <2>3, <2>4
<1>8. CASE UNCHANGED vars
  BY <1>8 DEF vars
<1> QED
  BY <1>1, <1>2, <1>3, <1>4, <1>5, <1>6, <1>7, <1>8 DEF Next, Middleware

-----------------------------------------------------------------------------
Accounts == CreatedBuckets /\ LastDraw /\ Credit /\ Debit /\ BucketBound

\* What every step but a draw leaves alone.
Quiet ==
    /\ UNCHANGED drawnAt
    /\ \A r \in Reqs : /\ pc'[r] = "served" <=> pc[r] = "served"
                       /\ pc[r] = "served" => handle'[r] = handle[r]
                       /\ Created(r) => pc'[r] # "start"
    /\ now' \in {now, now + 1}

QuietStep ==
    /\ Quiet
    /\ UNCHANGED <<tokens, lastSeen>>
    /\ \A ip \in IPs : buckets'[ip] \in {buckets[ip], NoBucket}
    /\ \A r \in Reqs : handle'[r] = handle[r] \/ \E ip \in IPs : handle'[r] = buckets[ip]

\* The steps of the clock, of cleanup and of RetryAfterSeconds touch no bucket.
LEMMA QuietSteps ==
    ASSUME LimiterInv, [Next]_vars, \A r \in Reqs : ~FindBucket(r) /\ ~Draw(r)
    PROVE  QuietStep
<1> USE ClientAddress DEF LimiterInv, TypeOK, Quiet, QuietStep, Created, sweeper, history, Goto, Using, Answered
<1>1. CASE Tick
  BY <1>1 DEF Tick
<1>2. CASE cleanup
  BY <1>2 DEF cleanup, SweepTick, SweepLock, SweepDelete, SweepEnd, SweepScan
<1>3. ASSUME NEW r \in Reqs, LookupBucket(r) 
      PROVE  QuietStep
  BY <1>3 DEF LookupBucket
<1>4. ASSUME NEW r \in Reqs, Peek(r) 
      PROVE  QuietStep
  BY <1>4 DEF Peek
<1>5. ASSUME NEW r \in Reqs, ReadNeed(r) 
      PROVE  QuietStep
  BY <1>5 DEF ReadNeed
<1>6. CASE UNCHANGED vars
  BY <1>6 DEF vars
<1> QED
  BY <1>1, <1>2, <1>3, <1>4, <1>5, <1>6 DEF Next, Middleware

\* A quiet step leaves what a bucket let through as it was, and no interval that
\* ends with the new time contains a draw at that time.
LEMMA SameServed ==
    ASSUME LimiterInv, Quiet
    PROVE  /\ \A b \in Reqs : \A s \in Nat : ServedNext(b, s) = Served(b, s)
           /\ \A b \in Reqs : \A s, t \in Nat : ServedBy(b, s, t)' = ServedBy(b, s, t)
BY DEF LimiterInv, TypeOK, Quiet, Served, ServedNext, ServedBy

\* When the clock reaches a time, the bound holds up to it.
LEMMA BoundAtTick ==
    ASSUME LimiterInv, now' \in {now, now + 1},
           \A b \in Reqs : \A s, t \in Nat : ServedBy(b, s, t)' = ServedBy(b, s, t)
    PROVE  BucketBound'
<1> SUFFICES ASSUME NEW b \in Reqs, NEW t \in 0..now', NEW s \in 0..t
             PROVE  Cost * Cardinality(ServedBy(b, s, t)) <= Burst + Rate * (t - s)
  BY DEF BucketBound, LimiterInv, TypeOK
<1> USE RateLimiterAssumption DEF LimiterInv, TypeOK
<1>0. now \in Nat
  OBVIOUS
<1>1. CASE t \in 0..now
  BY <1>1 DEF BucketBound
<1>2. CASE t = now + 1 /\ s \in 0..now
  <2>1. ServedBy(b, s, t) = ServedBy(b, s, now)
    BY <1>2 DEF ServedBy
  <2>2. Cost * Cardinality(ServedBy(b, s, now)) <= Burst + Rate * (now - s)
    BY <1>2, <1>0 DEF BucketBound
  <2>3. Rate * ((now - s) + 1) = Rate * (now - s) + Rate * 1
    BY <1>2, <1>0, Products
  <2>4. (now - s) + 1 = t - s /\ Rate * 1 = Rate /\ Rate * (now - s) \in Nat
    BY <1>2, <1>0, Products
  <2>5. Cardinality(ServedBy(b, s, now)) \in Nat /\ Cost * Cardinality(ServedBy(b, s, now)) \in Nat
    BY SetSizes, Products DEF ServedBy
  <2> DEFINE x == Rate * (t - s)
             y == Rate * (now - s)
             z == Cost * Cardinality(ServedBy(b, s, now))
  <2>6. x = y + Rate
    BY <2>3, <2>4
  <2>7. z <= Burst + y /\ y \in Nat /\ z \in Nat
    BY <2>2, <2>4, <2>5
  <2> HIDE DEF x, y, z
  <2>8. z <= Burst + x
    BY <2>6, <2>7
  <2> QED
    BY <2>1, <2>8 DEF x, z
<1>3. CASE s = now + 1 /\ t = now + 1
  <2>1. ServedBy(b, s, t) = {}
    BY <1>3 DEF ServedBy
  <2>2. t - s = 0
    BY <1>0, <1>3
  <2> QED
    BY <2>1, <2>2, SetSizes, Products
<1> QED
  BY <1>0, <1>1, <1>2, <1>3

\* Quiet steps keep the accounts.
LEMMA QuietKeeps ==
    ASSUME LimiterInv, QuietStep, TypeOK'
    PROVE  Accounts'
<1> USE DEF LimiterInv, TypeOK
<1>1. /\ \A b \in Reqs : \A s \in Nat : ServedNext(b, s) = Served(b, s)
      /\ \A b \in Reqs : \A s, t \in Nat : ServedBy(b, s, t)' = ServedBy(b, s, t)
  BY SameServed DEF QuietStep
<1>2. CreatedBuckets'
  <2>1. \A b \in Reqs : Created(b) => Created(b)'
    BY DEF QuietStep, Quiet, Created
  <2> QED
    BY <2>1 DEF QuietStep, CreatedBuckets
<1>3. LastDraw'
  BY DEF QuietStep, Quiet, LastDraw
<1>4. Credit'
  <2> SUFFICES ASSUME NEW b \in Reqs, NEW s \in 0..lastSeen[b]
               PROVE  Cost * Cardinality(ServedNext(b, s)) + tokens[b]
                        <= Burst + Rate * (lastSeen[b] - s)
    BY DEF Credit, QuietStep, Served, ServedNext
  <2> QED
    BY <1>1 DEF Credit
<1>5. Debit'
  <2>1. \A b \in Reqs : DebitOf(b) => DebitOf(b)'
    <3> SUFFICES ASSUME NEW b \in Reqs, NEW s \in 0..lastSeen[b],
                        Cost * Cardinality(Served(b, s)) + tokens[b]
                          >= Burst + Rate * (lastSeen[b] - s)
                 PROVE  Cost * Cardinality(ServedNext(b, s)) + tokens[b]
                          >= Burst + Rate * (lastSeen[b] - s)
      BY DEF DebitOf, QuietStep, Served, ServedNext
    <3> QED
      BY <1>1
  <2> QED
    BY <2>1, RateLimiterAssumption DEF QuietStep, Debit
<1>6. BucketBound'
  BY <1>1, BoundAtTick DEF QuietStep, Quiet
<1> QED
  BY <1>2, <1>3, <1>4, <1>5, <1>6 DEF Accounts

-----------------------------------------------------------------------------
\* Before a bucket is made, no request holds it and it has let nothing through.
LEMMA NewBucketUnused ==
    ASSUME LimiterInv, NEW r \in Reqs, pc[r] = "start"
    PROVE  /\ \A ip \in IPs : buckets[ip] # r
           /\ \A q \in Reqs : handle[q] # r
BY RateLimiterAssumption DEF LimiterInv, TypeOK, CreatedBuckets, Created

\* What FindBucket changes: at most the new bucket, which is full.
FindStep(r) ==
    /\ Quiet /\ now' = now /\ pc'[r] = "draw"
    /\ pc[r] = "start"
    /\ \A b \in Reqs \ {r} : tokens'[b] = tokens[b] /\ lastSeen'[b] = lastSeen[b]
    /\ \/ tokens'[r] = Burst /\ lastSeen'[r] = now
       \/ tokens'[r] = tokens[r] /\ lastSeen'[r] = lastSeen[r]
    /\ \A ip \in IPs : buckets'[ip] = buckets[ip]
                        \/ (buckets'[ip] = r /\ tokens'[r] = Burst /\ lastSeen'[r] = now)
    /\ \A q \in Reqs : \/ handle'[q] = handle[q]
                       \/ \E ip \in IPs : handle'[q] = buckets[ip] /\ buckets[ip] # NoBucket
                       \/ handle'[q] = r /\ tokens'[r] = Burst /\ lastSeen'[r] = now

\* FindBucket returns the bucket of the address, or makes a full one.
LEMMA FindSteps ==
    ASSUME LimiterInv, NEW r \in Reqs, FindBucket(r)
    PROVE  FindStep(r)
<1> USE ClientAddress, RateLimiterAssumption DEF LimiterInv, TypeOK, history, sweeper, Goto, Answered
<1>1. CASE buckets[clientIP(r)] = NoBucket
  BY <1>1 DEF FindBucket, FindStep, Quiet, Created
<1>2. CASE buckets[clientIP(r)] # NoBucket
  BY <1>2 DEF FindBucket, FindStep, Quiet, Created
<1> QED
  BY <1>1, <1>2

\* FindBucket keeps the accounts.
LEMMA FindKeeps ==
    ASSUME LimiterInv, NEW r \in Reqs, FindStep(r), TypeOK'
    PROVE  Accounts'
<1> USE RateLimiterAssumption DEF LimiterInv, TypeOK
<1>0. /\ \A b \in Reqs : \A s \in Nat : ServedNext(b, s) = Served(b, s)
      /\ \A b \in Reqs : \A s, t \in Nat : ServedBy(b, s, t)' = ServedBy(b, s, t)
  BY SameServed DEF FindStep
<1>1. /\ \A s \in Nat : Served(r, s) = {}
      /\ \A q \in Reqs : handle[q] # r
  <2>1. \A q \in Reqs : handle[q] # r
    BY NewBucketUnused DEF FindStep
  <2> QED
    BY <2>1 DEF Served
<1>2. CreatedBuckets'
  <2>1. \A b \in Reqs : Created(b) => Created(b)'
    BY DEF FindStep, Quiet, Created
  <2>2. Created(r)'
    BY DEF FindStep, Created
  <2> QED
    BY <2>1, <2>2 DEF FindStep, CreatedBuckets
<1>3. LastDraw'
  BY <1>1 DEF FindStep, Quiet, LastDraw
<1>4. Credit'
  <2> SUFFICES ASSUME NEW b \in Reqs, NEW s \in 0..lastSeen'[b]
               PROVE  Cost * Cardinality(ServedNext(b, s)) + tokens'[b]
                        <= Burst + Rate * (lastSeen'[b] - s)
    BY DEF Credit, Served, ServedNext
  <2>1. CASE tokens'[b] = tokens[b] /\ lastSeen'[b] = lastSeen[b]
    BY <1>0, <2>1 DEF Credit
  <2>2. CASE b = r /\ tokens'[r] = Burst /\ lastSeen'[r] = now
    <3>1. Cost * Cardinality(ServedNext(b, s)) = 0
      <4>1. ServedNext(b, s) = {}
        BY <1>0, <1>1, <2>2
      <4> QED
        BY <4>1, SetSizes, Products
    <3>2. Rate * (now - s) \in Nat
      BY <2>2, Products
    <3> QED
      BY <2>2, <3>1, <3>2
  <2> QED
    BY <2>1, <2>2 DEF FindStep
<1>5. Debit'
  <2>1. ASSUME NEW b \in Reqs, b # r, DebitOf(b) PROVE DebitOf(b)'
    <3> PICK s \in 0..lastSeen[b] : Cost * Cardinality(Served(b, s)) + tokens[b]
                                      >= Burst + Rate * (lastSeen[b] - s)
      BY <2>1 DEF DebitOf
    <3>1. /\ ServedNext(b, s) = Served(b, s)
          /\ tokens'[b] = tokens[b] /\ lastSeen'[b] = lastSeen[b]
      BY <1>0, <2>1 DEF FindStep
    <3>2. s \in 0..lastSeen'[b] /\ Cost * Cardinality(ServedNext(b, s)) + tokens'[b]
                                    >= Burst + Rate * (lastSeen'[b] - s)
      BY <3>1
    <3> QED
      BY <3>2 DEF DebitOf, Served, ServedNext
  <2>2. ASSUME tokens'[r] = Burst, lastSeen'[r] = now PROVE DebitOf(r)'
    <3>1. Cost * Cardinality(ServedNext(r, now)) + tokens'[r] >= Burst + Rate * (now - now)
      <4>1. now - now = 0 /\ ServedNext(r, now) = {}
        BY <1>0, <1>1
      <4> QED
        BY <2>2, <4>1, SetSizes, Products
    <3>2. now \in 0..lastSeen'[r] /\ Cost * Cardinality(ServedNext(r, now)) + tokens'[r]
                                      >= Burst + Rate * (lastSeen'[r] - now)
      BY <2>2, <3>1
    <3> QED
      BY <3>2 DEF DebitOf, Served, ServedNext
  <2>3. \A ip \in IPs : buckets[ip] # r
    BY NewBucketUnused DEF FindStep
  <2>4. ASSUME NEW ip \in IPs, NEW b \in Reqs, buckets'[ip] = b PROVE DebitOf(b)'
    <3>1. CASE buckets'[ip] = buckets[ip]
      BY <2>1, <2>3, <2>4, <3>1 DEF Debit
    <3>2. CASE buckets'[ip] = r /\ tokens'[r] = Burst /\ lastSeen'[r] = now
      BY <2>2, <2>4, <3>2
    <3> QED
      BY <3>1, <3>2 DEF FindStep
  <2>5. ASSUME NEW q \in Reqs, NEW b \in Reqs, handle'[q] = b PROVE DebitOf(b)'
    <3>1. CASE handle'[q] = handle[q]
      BY <1>1, <2>1, <2>5, <3>1 DEF Debit
    <3>2. CASE \E ip \in IPs : handle'[q] = buckets[ip]
      BY <2>1, <2>3, <2>5, <3>2 DEF Debit
    <3>3. CASE handle'[q] = r /\ tokens'[r] = Burst /\ lastSeen'[r] = now
      BY <2>2, <2>5, <3>3
    <3> QED
      BY <3>1, <3>2, <3>3 DEF FindStep
  <2>6. \A ip \in IPs : buckets'[ip] # NoBucket => buckets'[ip] \in Reqs
    OBVIOUS
  <2>7. \A q \in Reqs : handle'[q] # NoBucket => handle'[q] \in Reqs
    OBVIOUS
  <2> QED
    BY <2>4, <2>5, <2>6, <2>7, Zenon DEF Debit
<1>6. BucketBound'
  BY <1>0, BoundAtTick DEF FindStep, Quiet
<1> QED
  BY <1>2, <1>3, <1>4, <1>5, <1>6 DEF Accounts

-----------------------------------------------------------------------------
\* The tokens after a refill, and what a draw makes of them.
LEMMA RefillFacts ==
    ASSUME LimiterInv, NEW b \in Reqs
    PROVE  /\ now - lastSeen[b] \in Nat /\ Rate * (now - lastSeen[b]) \in Nat
           /\ Refilled(b) \in 0..Burst
           /\ Refilled(b) <= tokens[b] + Rate * (now - lastSeen[b])
           /\ Refilled(b) = Burst \/ Refilled(b) = tokens[b] + Rate * (now - lastSeen[b])
<1>1. now - lastSeen[b] \in Nat /\ tokens[b] \in 0..Burst
  BY DEF LimiterInv, TypeOK
<1>2. Rate * (now - lastSeen[b]) \in Nat
  BY <1>1, Products
<1> QED
  BY <1>1, <1>2, RateLimiterAssumption DEF Refilled

\* Whom a draw counts: nobody when it is refused, its own request when not.
LEMMA DrawServes ==
    ASSUME LimiterInv, NEW r \in Reqs, Draw(r)
    PROVE  LET b == handle[r] IN
           /\ b \in Reqs
           /\ \A c \in Reqs \ {b} : \A s \in Nat : ServedNext(c, s) = Served(c, s)
           /\ \A s \in 0..lastSeen[b] :
                  ServedNext(b, s) = IF Refilled(b) >= Cost THEN Served(b, s) \cup {r}
                                                            ELSE Served(b, s)
           /\ \A s \in (lastSeen[b] + 1)..now :
                  ServedNext(b, s) = IF Refilled(b) >= Cost THEN {r} ELSE {}
           /\ \A s \in Nat : r \notin Served(b, s)
           /\ tokens'[b] = IF Refilled(b) >= Cost THEN Refilled(b) - Cost ELSE Refilled(b)
           /\ lastSeen'[b] = now /\ now' = now
           /\ \A c \in Reqs \ {b} : tokens'[c] = tokens[c] /\ lastSeen'[c] = lastSeen[c]
           /\ UNCHANGED <<buckets, handle>>
<1> DEFINE b == handle[r]
<1> USE RateLimiterAssumption DEF LimiterInv, TypeOK, Goto, Using, Answered
<1>1. b \in Reqs /\ pc[r] = "draw" /\ lastSeen[b] \in 0..now /\ now \in Nat
  BY DEF Draw
<1>2. /\ handle' = handle
      /\ \A q \in Reqs \ {r} : pc'[q] = pc[q] /\ drawnAt'[q] = drawnAt[q]
      /\ drawnAt'[r] = now
      /\ pc'[r] = IF Refilled(b) >= Cost THEN "served" ELSE "refused"
  BY <1>1 DEF Draw
<1>3. \A c \in Reqs \ {b} : \A s \in Nat : ServedNext(c, s) = Served(c, s)
  BY <1>1, <1>2 DEF Served, ServedNext
<1>4. \A s \in 0..lastSeen[b] :
        ServedNext(b, s) = IF Refilled(b) >= Cost THEN Served(b, s) \cup {r} ELSE Served(b, s)
  <2> SUFFICES ASSUME NEW s \in 0..lastSeen[b]
               PROVE  ServedNext(b, s) = IF Refilled(b) >= Cost THEN Served(b, s) \cup {r}
                                                                ELSE Served(b, s)
    OBVIOUS
  <2>1. now >= s
    BY <1>1
  <2>2. \A q \in Reqs \ {r} : q \in ServedNext(b, s) <=> q \in Served(b, s)
    BY <1>2 DEF Served, ServedNext
  <2>3. r \in ServedNext(b, s) <=> Refilled(b) >= Cost
    BY <1>1, <1>2, <2>1 DEF ServedNext
  <2>4. r \notin Served(b, s)
    BY <1>1 DEF Served
  <2> QED
    BY <2>2, <2>3, <2>4 DEF Served, ServedNext
<1>5. \A s \in (lastSeen[b] + 1)..now :
        ServedNext(b, s) = IF Refilled(b) >= Cost THEN {r} ELSE {}
  <2> SUFFICES ASSUME NEW s \in (lastSeen[b] + 1)..now
               PROVE  ServedNext(b, s) = IF Refilled(b) >= Cost THEN {r} ELSE {}
    OBVIOUS
  <2>1. \A q \in Reqs : pc[q] = "served" /\ handle[q] = b => drawnAt[q] <= lastSeen[b]
    BY DEF LastDraw
  <2>2. \A q \in Reqs \ {r} : q \notin ServedNext(b, s)
    <3> SUFFICES ASSUME NEW q \in Reqs \ {r}, q \in ServedNext(b, s) PROVE FALSE
      OBVIOUS
    <3>1. pc[q] = "served" /\ handle[q] = b /\ drawnAt[q] >= s
      BY <1>2 DEF ServedNext
    <3>2. drawnAt[q] \in Nat /\ lastSeen[b] \in Nat
      BY <1>1
    <3> QED
      BY <2>1, <3>1, <3>2
  <2>3. r \in ServedNext(b, s) <=> Refilled(b) >= Cost
    BY <1>1, <1>2 DEF ServedNext
  <2> QED
    BY <2>2, <2>3 DEF ServedNext
<1>6. /\ \A s \in Nat : r \notin Served(b, s)
      /\ tokens'[b] = IF Refilled(b) >= Cost THEN Refilled(b) - Cost ELSE Refilled(b)
      /\ lastSeen'[b] = now /\ now' = now
      /\ \A c \in Reqs \ {b} : tokens'[c] = tokens[c] /\ lastSeen'[c] = lastSeen[c]
      /\ UNCHANGED <<buckets, handle>>
  BY <1>1, <1>2 DEF Served, Draw
<1> QED
  BY <1>1, <1>3, <1>4, <1>5, <1>6

\* A draw keeps the accounts.
LEMMA DrawKeeps ==
    ASSUME LimiterInv, NEW r \in Reqs, Draw(r), TypeOK'
    PROVE  Accounts'
<1>0. PICK b \in Reqs : b = handle[r]
  BY DrawServes
<1> DEFINE L == lastSeen[b]
           F == Refilled(b)
           e == Rate * (now - L)
<1> USE <1>0
<1>1. /\ b \in Reqs /\ now \in Nat /\ L \in 0..now /\ tokens[b] \in 0..Burst
      /\ b # NoBucket /\ Cost \in Nat \ {0} /\ Rate \in Nat \ {0} /\ Burst \in Nat
  BY DrawServes, RateLimiterAssumption DEF LimiterInv, TypeOK
<1>2. e \in Nat /\ F \in 0..Burst /\ F <= tokens[b] + e /\ (F = Burst \/ F = tokens[b] + e)
  BY <1>1, RefillFacts
<1>14. tokens'[b] = IF F >= Cost THEN F - Cost ELSE F
  BY DrawServes
<1>3. /\ lastSeen'[b] = now /\ now' = now /\ handle' = handle /\ buckets' = buckets
      /\ \A c \in Reqs \ {b} : tokens'[c] = tokens[c] /\ lastSeen'[c] = lastSeen[c]
      /\ \A c \in Reqs \ {b} : \A s \in Nat : ServedNext(c, s) = Served(c, s)
  BY DrawServes
<1>4. \A s \in 0..L : Rate * (now - s) = e + Rate * (L - s) /\ Rate * (L - s) \in Nat
  <2> SUFFICES ASSUME NEW s \in 0..L
               PROVE  Rate * (now - s) = e + Rate * (L - s) /\ Rate * (L - s) \in Nat
    OBVIOUS
  <2>1. now - s = (now - L) + (L - s) /\ now - L \in Nat /\ L - s \in Nat
    BY <1>1
  <2> QED
    BY <2>1, Products
<1>5. ASSUME NEW s \in 0..L
      PROVE  LET n == Cost * Cardinality(Served(b, s)) IN
             /\ n \in Nat
             /\ Cost * Cardinality(ServedNext(b, s)) = IF F >= Cost THEN n + Cost ELSE n
  <2> DEFINE S == Served(b, s)
  <2>1. ServedNext(b, s) = IF F >= Cost THEN S \cup {r} ELSE S
    BY DrawServes
  <2>2. S \in SUBSET Reqs /\ r \notin S
    <3>1. s \in Nat
      BY <1>1
    <3>2. r \notin S
      BY <3>1, DrawServes
    <3> QED
      BY <3>2 DEF Served
  <2> HIDE DEF S, F
  <2>3. Cardinality(S) \in Nat /\ Cardinality(S \cup {r}) = Cardinality(S) + 1
    BY <2>2, SetSizes
  <2>4. Cost * (Cardinality(S) + 1) = Cost * Cardinality(S) + Cost /\ Cost * Cardinality(S) \in Nat
    BY <2>3, Products
  <2> QED
    BY <2>1, <2>3, <2>4 DEF S
<1>6. ASSUME NEW s \in (L + 1)..now
      PROVE  Cost * Cardinality(ServedNext(b, s)) = IF F >= Cost THEN Cost ELSE 0
  <2>1. ServedNext(b, s) = IF F >= Cost THEN {r} ELSE {}
    BY DrawServes
  <2>2. Cardinality({r}) = 1 /\ Cardinality({}) = 0
    BY FS_Singleton, FS_EmptySet
  <2>3. Cost * 1 = Cost /\ Cost * 0 = 0
    BY Products
  <2> QED
    BY <2>1, <2>2, <2>3
<1> HIDE DEF L, F, e
<1>7. ASSUME NEW s \in 0..now
      PROVE  Cost * Cardinality(ServedNext(b, s)) + tokens'[b] <= Burst + Rate * (now - s)
  <2>1. CASE s \in 0..L
    <3>1. Cost * Cardinality(Served(b, s)) + tokens[b] <= Burst + Rate * (L - s)
      BY <1>1, <2>1 DEF LimiterInv, Credit, L
    <3> DEFINE n == Cost * Cardinality(Served(b, s))
               x == Rate * (now - s)
               y == Rate * (L - s)
               m == Cost * Cardinality(ServedNext(b, s))
    <3>2. n \in Nat /\ m = IF F >= Cost THEN n + Cost ELSE n
      BY <1>5, <2>1
    <3>3. x = e + y /\ y \in Nat /\ n + tokens[b] <= Burst + y
      BY <1>4, <2>1, <3>1
    <3> HIDE DEF n, x, y, m
    <3>4. m + tokens'[b] <= Burst + x
      BY <1>1, <1>2, <1>14, <3>2, <3>3
    <3> QED
      BY <3>4 DEF m, x
  <2>2. CASE s \in (L + 1)..now
    <3> DEFINE x == Rate * (now - s)
               m == Cost * Cardinality(ServedNext(b, s))
    <3>1. x \in Nat
      BY <1>1, Products
    <3>2. m = IF F >= Cost THEN Cost ELSE 0
      BY <1>6, <2>2
    <3> HIDE DEF x, m
    <3>3. m + tokens'[b] <= Burst + x
      BY <1>1, <1>2, <1>14, <3>1, <3>2
    <3> QED
      BY <3>3 DEF x, m
  <2> QED
    BY <1>1, <2>1, <2>2
<1>8. Credit'
  <2> SUFFICES ASSUME NEW c \in Reqs, NEW s \in 0..lastSeen'[c]
               PROVE  Cost * Cardinality(ServedNext(c, s)) + tokens'[c]
                        <= Burst + Rate * (lastSeen'[c] - s)
    BY DEF Credit, Served, ServedNext
  <2>1. CASE c = b
    BY <1>3, <1>7, <2>1
  <2>2. CASE c # b
    BY <1>3, <2>2 DEF LimiterInv, TypeOK, Credit
  <2> QED
    BY <2>1, <2>2
<1>9. DebitOf(b)'
  <2> SUFFICES ASSUME TRUE
               PROVE  \E s \in 0..now : Cost * Cardinality(ServedNext(b, s)) + tokens'[b]
                                          >= Burst + Rate * (now - s)
    BY <1>3 DEF DebitOf, Served, ServedNext
  <2>1. CASE F = Burst
    <3> DEFINE m == Cost * Cardinality(ServedNext(b, now))
    <3>1. m >= IF F >= Cost THEN Cost ELSE 0
      <4>1. CASE now \in 0..L
        <5> DEFINE n == Cost * Cardinality(Served(b, now))
        <5>1. n \in Nat /\ m = IF F >= Cost THEN n + Cost ELSE n
          BY <1>5, <4>1
        <5> HIDE DEF n, m
        <5> QED
          BY <1>1, <5>1
      <4>2. CASE now \in (L + 1)..now
        <5>1. m = IF F >= Cost THEN Cost ELSE 0
          BY <1>6, <4>2
        <5> HIDE DEF m
        <5> QED
          BY <1>1, <5>1
      <4> QED
        BY <1>1, <4>1, <4>2
    <3>2. Rate * (now - now) = 0 /\ now \in 0..now
      BY <1>1, Products
    <3>3. Cost * Cardinality(ServedNext(b, now)) \in Nat
      BY SetSizes, Products DEF ServedNext
    <3> QED
      BY <1>1, <1>2, <1>14, <2>1, <3>1, <3>2, <3>3
  <2>2. CASE F = tokens[b] + e
    <3>1. PICK s \in 0..L : Cost * Cardinality(Served(b, s)) + tokens[b]
                              >= Burst + Rate * (L - s)
      BY <1>1 DEF LimiterInv, TypeOK, Debit, DebitOf, L
    <3> DEFINE n == Cost * Cardinality(Served(b, s))
               x == Rate * (now - s)
               y == Rate * (L - s)
               m == Cost * Cardinality(ServedNext(b, s))
    <3>2. n \in Nat /\ m = IF F >= Cost THEN n + Cost ELSE n
      BY <1>5
    <3>3. x = e + y /\ y \in Nat /\ n + tokens[b] >= Burst + y
      BY <1>4, <3>1
    <3> HIDE DEF n, x, y, m
    <3>4. m + tokens'[b] >= Burst + x
      BY <1>1, <1>2, <1>14, <2>2, <3>2, <3>3
    <3>5. s \in 0..now
      BY <1>1
    <3> QED
      BY <3>4, <3>5 DEF m, x
  <2> QED
    BY <1>2, <2>1, <2>2
<1>10. Debit'
  <2>1. ASSUME NEW c \in Reqs, c # b, DebitOf(c) PROVE DebitOf(c)'
    <3>1. PICK s \in 0..lastSeen[c] : Cost * Cardinality(Served(c, s)) + tokens[c]
                                        >= Burst + Rate * (lastSeen[c] - s)
      BY <2>1 DEF DebitOf
    <3>2. s \in 0..lastSeen'[c] /\ Cost * Cardinality(ServedNext(c, s)) + tokens'[c]
                                    >= Burst + Rate * (lastSeen'[c] - s)
      BY <1>3, <2>1, <3>1 DEF LimiterInv, TypeOK
    <3> QED
      BY <3>2 DEF DebitOf, Served, ServedNext
  <2>2. Debit
    BY DEF LimiterInv
  <2>3. \A c \in Reqs : DebitOf(c) => DebitOf(c)'
    BY <1>9, <2>1
  <2> QED
    BY <1>3, <2>2, <2>3 DEF Debit, LimiterInv, TypeOK
<1>11. CreatedBuckets'
  <2>1. \A c \in Reqs : Created(c) => Created(c)'
    BY DEF Created, Draw, Goto, LimiterInv, TypeOK
  <2> QED
    BY <1>3, <2>1 DEF LimiterInv, TypeOK, CreatedBuckets
<1>12. LastDraw'
  <2> USE DEF LimiterInv, TypeOK
  <2>1. /\ drawnAt'[r] = now
        /\ \A q \in Reqs \ {r} : pc'[q] = pc[q] /\ drawnAt'[q] = drawnAt[q]
    BY DEF Draw, Goto
  <2>2. \A q \in Reqs \ {r} : pc'[q] = "served" =>
          handle'[q] # NoBucket /\ drawnAt'[q] <= lastSeen'[handle'[q]]
    BY <1>1, <1>3, <2>1 DEF LastDraw
  <2>3. handle'[r] # NoBucket /\ drawnAt'[r] <= lastSeen'[handle'[r]]
    BY <1>1, <1>3, <2>1
  <2> QED
    BY <2>2, <2>3 DEF LastDraw
<1>13. BucketBound'
  <2> SUFFICES ASSUME NEW c \in Reqs, NEW t \in 0..now, NEW s \in 0..t
               PROVE  Cost * Cardinality(ServedBy(c, s, t)') <= Burst + Rate * (t - s)
    BY <1>3 DEF BucketBound
  <2>1. CASE c # b \/ t # now
    <3>1. ServedBy(c, s, t)' = ServedBy(c, s, t)
      <4> USE DEF LimiterInv, TypeOK
      <4>1. /\ drawnAt'[r] = now /\ pc[r] = "draw"
            /\ \A q \in Reqs \ {r} : pc'[q] = pc[q] /\ drawnAt'[q] = drawnAt[q]
        BY DEF Draw, Goto
      <4>2. \A q \in Reqs \ {r} : q \in ServedBy(c, s, t)' <=> q \in ServedBy(c, s, t)
        BY <1>3, <4>1 DEF ServedBy
      <4>3. r \notin ServedBy(c, s, t) /\ r \notin ServedBy(c, s, t)'
        BY <1>1, <1>3, <2>1, <4>1 DEF ServedBy
      <4> QED
        BY <4>2, <4>3 DEF ServedBy
    <3> QED
      BY <3>1 DEF LimiterInv, BucketBound
  <2>2. CASE c = b /\ t = now
    <3>1. ServedBy(c, s, t)' = ServedNext(b, s)
      BY <1>1, <1>3, <2>2 DEF ServedBy, ServedNext, TypeOK
    <3> DEFINE x == Rate * (now - s)
               m == Cost * Cardinality(ServedNext(b, s))
    <3>2. m + tokens'[b] <= Burst + x
      BY <1>7, <2>2
    <3>3. m \in Nat /\ x \in Nat
      <4>1. now - s \in Nat
        BY <1>1, <2>2
      <4>2. ServedNext(b, s) \in SUBSET Reqs
        BY DEF ServedNext
      <4>3. Cardinality(ServedNext(b, s)) \in Nat
        BY <4>2, SetSizes
      <4> QED
        BY <4>1, <4>3, Products
    <3> HIDE DEF m, x
    <3>4. m <= Burst + x
      BY <1>1, <1>2, <1>14, <3>2, <3>3
    <3> QED
      BY <2>2, <3>1, <3>4 DEF m, x
  <2> QED
    BY <2>1, <2>2
<1> QED
  BY <1>8, <1>10, <1>11, <1>12, <1>13 DEF Accounts

-----------------------------------------------------------------------------
\* A request that finds less than a token in its bucket, after the refill, is at
\* the end of an interval in which the bucket gave all that it could.
LEMMA SpentBucket ==
    ASSUME LimiterInv, NEW b \in Reqs, DebitOf(b), Refilled(b) < Cost
    PROVE  \E s \in 0..now : Cost * (Cardinality(ServedBy(b, s, now)) + 1) > Burst + Rate * (now - s)
<1> DEFINE Count(s) == Cardinality(ServedBy(b, s, now))
<1>1. /\ now \in Nat /\ lastSeen[b] \in 0..now /\ tokens[b] \in Nat
      /\ Cost \in Nat /\ Burst \in Nat
  BY RateLimiterAssumption DEF LimiterInv, TypeOK
<1>2. ASSUME NEW s \in 0..now
      PROVE  /\ ServedBy(b, s, now) = Served(b, s) /\ Count(s) \in Nat
             /\ Cost * (Count(s) + 1) = Cost * Count(s) + Cost /\ Cost * Count(s) \in Nat
  <2>1. ServedBy(b, s, now) = Served(b, s)
    BY <1>1 DEF ServedBy, Served, LimiterInv, TypeOK
  <2>2. Count(s) \in Nat
    BY SetSizes DEF ServedBy
  <2> HIDE DEF Count
  <2> QED
    BY <2>1, <2>2, Products
<1>3. CASE Refilled(b) = Burst
  <2>1. Rate * (now - now) = 0 /\ now \in 0..now
    BY <1>1, Products
  <2> DEFINE m == Cost * Count(now)
             k == Cost * (Count(now) + 1)
  <2>2. k = m + Cost /\ m \in Nat
    BY <1>1, <1>2
  <2> HIDE DEF m, k
  <2>3. k > Burst + 0
    BY <1>1, <1>3, <2>2
  <2> QED
    BY <2>1, <2>3 DEF k
<1>4. CASE Refilled(b) = tokens[b] + Rate * (now - lastSeen[b])
  <2>1. PICK s \in 0..lastSeen[b] : Cost * Cardinality(Served(b, s)) + tokens[b]
                                      >= Burst + Rate * (lastSeen[b] - s)
    BY DEF DebitOf
  <2>2. s \in 0..now /\ now - lastSeen[b] \in Nat /\ lastSeen[b] - s \in Nat
        /\ now - s = (now - lastSeen[b]) + (lastSeen[b] - s)
    BY <1>1
  <2> DEFINE e == Rate * (now - lastSeen[b])
             x == Rate * (now - s)
             y == Rate * (lastSeen[b] - s)
             n == Cost * Count(s)
             k == Cost * (Count(s) + 1)
  <2>3. x = e + y /\ e \in Nat /\ y \in Nat
    BY <2>2, Products
  <2>4. k = n + Cost /\ n \in Nat /\ n + tokens[b] >= Burst + y
    BY <1>2, <2>1, <2>2
  <2>5. tokens[b] + e < Cost
    BY <1>4
  <2> HIDE DEF e, x, y, n, k
  <2>6. k > Burst + x
    BY <1>1, <2>3, <2>4, <2>5
  <2> QED
    BY <2>2, <2>6 DEF k, x
<1> QED
  BY <1>3, <1>4, RefillFacts

\* LimiterInv is an invariant of the rate limiter.
THEOREM LimiterInvariant == Spec => []LimiterInv
<1>1. ASSUME LimiterInv, [Next]_vars PROVE LimiterInv'
  <2>1. TypeOK'
    BY <1>1, TypeStep
  <2>2. Accounts'
    <3>1. CASE \E r \in Reqs : FindBucket(r)
      BY <1>1, <2>1, <3>1, FindSteps, FindKeeps
    <3>2. CASE \E r \in Reqs : Draw(r)
      BY <1>1, <2>1, <3>2, DrawKeeps
    <3>3. CASE \A r \in Reqs : ~FindBucket(r) /\ ~Draw(r)
      BY <1>1, <2>1, <3>3, QuietSteps, QuietKeeps
    <3> QED
      BY <3>1, <3>2, <3>3
  <2> QED
    BY <2>1, <2>2 DEF LimiterInv, Accounts
<1> QED
  BY <1>1, LimiterInvInit, PTL DEF Spec

\* Type correctness: the tokens of a bucket stay between nothing and the burst.
THEOREM LimiterTypeCorrect == Spec => []TypeOK
<1>1. LimiterInv => TypeOK
  BY DEF LimiterInv
<1> QED
  BY <1>1, LimiterInvariant, PTL

\* No bucket lets through more than the burst and the rate allow, in any interval.
THEOREM BucketsBound == Spec => []BucketBound
<1>1. LimiterInv => BucketBound
  BY DEF LimiterInv
<1> QED
  BY <1>1, LimiterInvariant, PTL

\* Nobody who keeps within the burst and the rate is refused by the bucket.
THEOREM RefusalsDeserved == Spec => RefusedOnlyWhenSpent
<1>1. ASSUME LimiterInv, [Next]_vars
      PROVE  [\A r \in Reqs : pc[r] = "draw" /\ pc'[r] = "refused" =>
                 \E s \in 0..now :
                     Cost * (Cardinality(ServedBy(handle[r], s, now)) + 1)
                       > Burst + Rate * (now - s)]_vars
  <2> SUFFICES ASSUME NEW r \in Reqs, pc[r] = "draw", pc'[r] = "refused"
               PROVE  \E s \in 0..now :
                          Cost * (Cardinality(ServedBy(handle[r], s, now)) + 1)
                            > Burst + Rate * (now - s)
    OBVIOUS
  <2> USE <1>1 DEF LimiterInv, TypeOK, Goto, sweeper, history
  <2>1. ~Tick /\ ~cleanup /\ ~UNCHANGED vars
    BY DEF Tick, cleanup, SweepTick, SweepLock, SweepDelete, SweepEnd, SweepScan, vars
  <2>2. ASSUME NEW q \in Reqs
        PROVE  ~FindBucket(q) /\ ~LookupBucket(q) /\ ~Peek(q) /\ ~ReadNeed(q) /\ (Draw(q) => q = r)
    BY DEF FindBucket, LookupBucket, Peek, ReadNeed, Draw
  <2>3. Draw(r)
    BY <2>1, <2>2 DEF Next, Middleware
  <2>4. handle[r] \in Reqs /\ Refilled(handle[r]) \in Int
    BY <2>3, DrawServes, RefillFacts
  <2>5. Refilled(handle[r]) < Cost
    BY <2>3, <2>4, RateLimiterAssumption DEF Draw
  <2>6. DebitOf(handle[r])
    BY <2>4, RateLimiterAssumption DEF Debit
  <2> QED
    BY <2>4, <2>5, <2>6, SpentBucket
<1> QED
  BY <1>1, LimiterInvariant, PTL DEF Spec, RefusedOnlyWhenSpent

\* A wait of as many seconds as ReadNeed computes refills what is needed, also
\* when the bucket had more than a token by then.
LEMMA WaitRefills ==
    ASSUME NEW n \in Int
    PROVE  Rate * (Second * (Quotient(n, Rate * Second) + 1)) >= n
<1> DEFINE d == Rate * Second
           q == n \div d
           p == (-n) \div d
<1>1. d \in Nat \ {0} /\ Rate \in Nat /\ Second \in Nat
  BY RateLimiterAssumption
<1>2. \A k \in Int : Rate * (Second * k) = d * k
  BY <1>1
<1> HIDE DEF d
<1>3. CASE n >= 0
  <2>1. q \in Nat /\ n < d * (q + 1)
    BY <1>1, <1>3
  <2>2. Quotient(n, d) = q
    BY <1>3 DEF Quotient
  <2> HIDE DEF q
  <2>3. Rate * (Second * (q + 1)) = d * (q + 1)
    BY <1>2, <2>1
  <2>4. d * (q + 1) \in Int
    BY <1>1, <2>1
  <2> QED
    BY <2>1, <2>2, <2>3, <2>4 DEF d
<1>4. CASE n < 0
  <2>1. p \in Nat /\ d * p <= -n
    BY <1>1, <1>4
  <2>2. Quotient(n, d) = -p
    BY <1>4 DEF Quotient
  <2> HIDE DEF p
  <2>3. Rate * (Second * (-p + 1)) = d * (-p + 1)
    BY <1>2, <2>1
  <2>4. d * (-p + 1) = d - d * p
    BY <1>1, <2>1
  <2>5. d * p \in Int /\ d - d * p >= n
    BY <1>1, <2>1
  <2> QED
    BY <2>2, <2>3, <2>4, <2>5 DEF d
<1> QED
  BY <1>3, <1>4

\* The seconds a refused client is told are enough for its bucket to hold a
\* token again, under any burst that holds one (ratelimit.go:90-94).
THEOREM RetryRefills == Spec => RetryAfterSuffices
<1>1. ASSUME LimiterInv, [Next]_vars
      PROVE  [\A r \in Reqs : Burst >= Cost /\ pc[r] = "readNeed" /\ pc'[r] = "limited" =>
                 Holds(handle[r], now + Second * retry'[r]) >= Cost]_vars
  <2> SUFFICES ASSUME NEW r \in Reqs, Burst >= Cost, pc[r] = "readNeed", pc'[r] = "limited"
               PROVE  Holds(handle[r], now + Second * retry'[r]) >= Cost
    OBVIOUS
  <2> USE <1>1 DEF LimiterInv, TypeOK, Goto, sweeper, history
  <2>1. ~Tick /\ ~cleanup /\ ~UNCHANGED vars
    BY DEF Tick, cleanup, SweepTick, SweepLock, SweepDelete, SweepEnd, SweepScan, vars
  <2>2. ASSUME NEW q \in Reqs
        PROVE  ~FindBucket(q) /\ ~LookupBucket(q) /\ ~Peek(q) /\ ~Draw(q) /\ (ReadNeed(q) => q = r)
    BY DEF FindBucket, LookupBucket, Peek, ReadNeed, Draw
  <2>3. ReadNeed(r)
    BY <2>1, <2>2 DEF Next, Middleware
  <2> DEFINE n == Cost - tokens[handle[r]]
             w == Rate * (Second * retry'[r])
  <2>4. tokens[handle[r]] \in Int /\ Cost \in Int /\ n \in Int
    BY RateLimiterAssumption DEF Using
  <2>5. retry'[r] = Quotient(n, Rate * Second) + 1
    BY <2>3 DEF ReadNeed
  <2>6. w >= n
    BY <2>4, <2>5, WaitRefills
  <2>7. retry'[r] \in Int
    <3>1. Rate * Second \in Nat \ {0}
      BY RateLimiterAssumption
    <3> QED
      BY <2>4, <2>5, <3>1, QuotientType
  <2>8. w \in Int
    BY <2>7, RateLimiterAssumption
  <2> DEFINE old == Rate * (now - lastSeen[handle[r]])
  <2>9. Rate * ((now + Second * retry'[r]) - lastSeen[handle[r]]) = old + w /\ old \in Nat
    <3>1. /\ lastSeen[handle[r]] \in Int /\ now \in Int /\ now - lastSeen[handle[r]] \in Nat
          /\ Rate \in Nat /\ Second \in Nat
      BY RateLimiterAssumption DEF Using
    <3>2. \A a \in Nat, b \in Int : Rate * (a + b) = Rate * a + Rate * b /\ Rate * a \in Nat
      BY <3>1
    <3> DEFINE a == now - lastSeen[handle[r]]
               b == Second * retry'[r]
    <3>3. b \in Int /\ (now + b) - lastSeen[handle[r]] = a + b
      BY <2>7, <3>1
    <3> HIDE DEF b
    <3>4. Rate * ((now + b) - lastSeen[handle[r]]) = Rate * a + Rate * b /\ Rate * a \in Nat
      BY <3>1, <3>2, <3>3
    <3> QED
      BY <3>4 DEF b
  <2> HIDE DEF w, old
  <2>10. tokens[handle[r]] + (old + w) >= Cost
    BY <2>4, <2>6, <2>8, <2>9
  <2> QED
    BY <2>9, <2>10 DEF Holds
<1> QED
  BY <1>1, LimiterInvariant, PTL DEF Spec, RetryAfterSuffices

-----------------------------------------------------------------------------
(* The limit of an address, across the buckets it has had.                  *)

\* The requests counted for an address since s: let through by the bucket that
\* the map held for it, and that was not being removed.
Counted(ip, s) == {r \in Reqs : /\ pc[r] = "served" /\ clientIP(r) = ip
                                /\ drawnAt[r] >= s /\ r \in onMap}

\* A bucket serves the address of the request that made it.
Owned ==
    /\ \A ip \in IPs : buckets[ip] # NoBucket => clientIP(buckets[ip]) = ip
    /\ \A r \in Reqs : handle[r] # NoBucket => clientIP(handle[r]) = clientIP(r)

CountedOnce == \A r \in onMap : pc[r] \notin {"start", "draw"}

InUse(ip) == buckets[ip] # NoBucket /\ ip \notin victim

\* While an address has a bucket that is not being removed, that bucket accounts
\* for all its requests, those of earlier buckets included.  While it has none, what
\* was let through is no more than what the rate alone has allowed since.
Account(ip) ==
    IF InUse(ip)
    THEN /\ \A r \in Counted(ip, 0) : drawnAt[r] <= lastSeen[buckets[ip]]
         /\ \A s \in 0..lastSeen[buckets[ip]] :
                Cost * Cardinality(Counted(ip, s)) + tokens[buckets[ip]]
                    <= Burst + Rate * (lastSeen[buckets[ip]] - s)
    ELSE \A s \in 0..now : Cost * Cardinality(Counted(ip, s)) <= Rate * (now - s)

\* What sits unused for cleanupAfter is full again.
Ample == Rate * CleanupAfter >= Burst

CountedIn(ip, s, t) == ServedFor(ip, s, t) \cap onMap

WithinBound ==
    \A ip \in IPs : \A t \in 0..now : \A s \in 0..t :
        Cost * Cardinality(CountedIn(ip, s, t)) <= Burst + Rate * (t - s)

AddressInv ==
    /\ Owned /\ CountedOnce /\ cutoff <= now
    /\ Ample => (\A ip \in IPs : Account(ip)) /\ WithinBound


\* The initial states.
LEMMA AddressInvInit == Init => AddressInv
<1> SUFFICES ASSUME Init PROVE AddressInv
  OBVIOUS
<1> USE RateLimiterAssumption DEF Init
<1>1. \A ip \in IPs, s \in Nat : Counted(ip, s) = {}
  BY DEF Counted
<1>2. \A ip \in IPs : Account(ip)
  BY <1>1, SetSizes, Products DEF Account, InUse
<1>3. \A ip \in IPs, s, t \in Nat : ServedFor(ip, s, t) = {}
  BY DEF ServedFor
<1>4. WithinBound
  <2>1. \A ip \in IPs, s, t \in Nat : CountedIn(ip, s, t) = {}
    BY <1>3 DEF CountedIn
  <2> SUFFICES ASSUME NEW ip \in IPs, NEW t \in 0..now, NEW s \in 0..t
               PROVE  Cost * Cardinality(CountedIn(ip, s, t)) <= Burst + Rate * (t - s)
    BY DEF WithinBound
  <2>2. s \in Nat /\ t \in Nat /\ t - s = 0
    OBVIOUS
  <2>3. Cardinality(CountedIn(ip, s, t)) = 0
    BY <2>1, <2>2, SetSizes
  <2>4. Cost * Cardinality(CountedIn(ip, s, t)) = 0 /\ Rate * (t - s) = 0
    BY <2>2, <2>3, Products
  <2> QED
    BY <2>4
<1>5. Owned /\ CountedOnce /\ cutoff <= now
  BY DEF Owned, CountedOnce
<1> QED
  BY <1>2, <1>4, <1>5 DEF AddressInv

\* A bucket of one address is never handed to another, a request is counted once,
\* and a sweep looks no further than the present.
LEMMA OwnedStep ==
    ASSUME LimiterInv, AddressInv, [Next]_vars
    PROVE  Owned' /\ CountedOnce' /\ (cutoff <= now)'
<1> USE RateLimiterAssumption, ClientAddress
    DEF LimiterInv, TypeOK, AddressInv, Owned, CountedOnce, sweeper, history, Goto, Using, Answered
<1>0. \A r \in Reqs : clientIP(r)' = clientIP(r)
  BY DEF clientIP
<1>1. CASE Tick
  BY <1>0, <1>1 DEF Tick
<1>2. CASE cleanup
  BY <1>0, <1>2 DEF cleanup, SweepTick, SweepLock, SweepDelete, SweepEnd, SweepScan, Sweeping
<1>3. ASSUME NEW r \in Reqs, FindBucket(r) PROVE Owned' /\ CountedOnce' /\ (cutoff <= now)'
  BY <1>0, <1>3 DEF FindBucket
<1>4. ASSUME NEW r \in Reqs, Draw(r) PROVE Owned' /\ CountedOnce' /\ (cutoff <= now)'
  <2>1. /\ pc[r] = "draw" /\ UNCHANGED <<now, buckets, handle, cutoff>>
        /\ \A q \in Reqs : pc'[q] = IF q = r THEN pc'[r] ELSE pc[q]
        /\ pc'[r] \in {"served", "refused"} /\ onMap' \subseteq onMap \cup {r}
    BY <1>4 DEF Draw
  <2> QED
    BY <1>0, <2>1
<1>5. ASSUME NEW r \in Reqs, LookupBucket(r) PROVE Owned' /\ CountedOnce' /\ (cutoff <= now)'
  BY <1>0, <1>5 DEF LookupBucket
<1>6. ASSUME NEW r \in Reqs, Peek(r) PROVE Owned' /\ CountedOnce' /\ (cutoff <= now)'
  <2>1. pc' = [pc EXCEPT ![r] = "limited"] \/ pc' = [pc EXCEPT ![r] = "readNeed"]
    BY <1>6 DEF Peek
  <2> QED
    BY <1>0, <1>6, <2>1 DEF Peek
<1>7. ASSUME NEW r \in Reqs, ReadNeed(r) PROVE Owned' /\ CountedOnce' /\ (cutoff <= now)'
  BY <1>0, <1>7 DEF ReadNeed
<1>8. CASE UNCHANGED vars
  BY <1>0, <1>8 DEF vars
<1> QED
  BY <1>1, <1>2, <1>3, <1>4, <1>5, <1>6, <1>7, <1>8 DEF Next, Middleware

\* Every step but a draw counts the same requests, and the bound of an address
\* holds up to a new time because nothing was drawn at it yet.
LEMMA SameCounted ==
    ASSUME LimiterInv, Quiet, onMap' = onMap
    PROVE  /\ \A ip \in IPs, s \in Nat : Counted(ip, s)' = Counted(ip, s)
           /\ \A ip \in IPs, s, t \in Nat :
                  CountedIn(ip, s, t)' = CountedIn(ip, s, t)
BY DEF LimiterInv, TypeOK, Quiet, Counted, CountedIn, ServedFor, clientIP

\* What an address was allowed can be counted.
LEMMA CountedSets ==
    \A ip \in IPs, s \in Nat :
        /\ Counted(ip, s) \in SUBSET Reqs
        /\ Cost * Cardinality(Counted(ip, s)) \in Nat
<1> SUFFICES ASSUME NEW ip \in IPs, NEW s \in Nat
             PROVE  /\ Counted(ip, s) \in SUBSET Reqs
                    /\ Cost * Cardinality(Counted(ip, s)) \in Nat
  OBVIOUS
<1>1. Counted(ip, s) \in SUBSET Reqs
  BY DEF Counted
<1>2. Cardinality(Counted(ip, s)) \in Nat
  BY <1>1, SetSizes
<1> QED
  BY <1>1, <1>2, Products

\* A step that counts nothing keeps the bound, also when time passes.
LEMMA AddressBoundAtTick ==
    ASSUME LimiterInv, WithinBound, now' \in {now, now + 1},
           \A ip \in IPs, s, t \in Nat :
               CountedIn(ip, s, t)' = CountedIn(ip, s, t)
    PROVE  WithinBound'
<1> USE RateLimiterAssumption DEF LimiterInv, TypeOK
<1>0. now \in Nat
  OBVIOUS
<1> SUFFICES ASSUME NEW ip \in IPs, NEW t \in 0..now', NEW s \in 0..t
             PROVE  Cost * Cardinality(CountedIn(ip, s, t)) <= Burst + Rate * (t - s)
  BY <1>0 DEF WithinBound
<1>1. CASE t \in 0..now
  BY <1>1 DEF WithinBound
<1>2. CASE t = now + 1 /\ s \in 0..now
  <2>1. CountedIn(ip, s, t) = CountedIn(ip, s, now)
    BY <1>2 DEF CountedIn, ServedFor
  <2>2. Cost * Cardinality(CountedIn(ip, s, now)) <= Burst + Rate * (now - s)
    BY <1>2, <1>0 DEF WithinBound
  <2>3. Rate * ((now - s) + 1) = Rate * (now - s) + Rate * 1
    BY <1>2, <1>0, Products
  <2>4. (now - s) + 1 = t - s /\ Rate * 1 = Rate /\ Rate * (now - s) \in Nat
    BY <1>2, <1>0, Products
  <2>5. CountedIn(ip, s, now) \in SUBSET Reqs
    BY DEF CountedIn, ServedFor
  <2>6. Cardinality(CountedIn(ip, s, now)) \in Nat /\ Cost * Cardinality(CountedIn(ip, s, now)) \in Nat
    BY <2>5, SetSizes, Products
  <2> DEFINE x == Rate * (t - s)
             y == Rate * (now - s)
             z == Cost * Cardinality(CountedIn(ip, s, now))
  <2>7. x = y + Rate
    BY <2>3, <2>4
  <2>8. z <= Burst + y /\ y \in Nat /\ z \in Nat
    BY <2>2, <2>4, <2>6
  <2> HIDE DEF x, y, z
  <2>9. z <= Burst + x
    BY <2>7, <2>8
  <2> QED
    BY <2>1, <2>9 DEF x, z
<1>3. CASE s = now + 1 /\ t = now + 1
  <2>1. CountedIn(ip, s, t) = {}
    BY <1>3 DEF CountedIn, ServedFor
  <2>2. t - s = 0
    BY <1>0, <1>3
  <2> QED
    BY <2>1, <2>2, SetSizes, Products
<1> QED
  BY <1>0, <1>1, <1>2, <1>3

\* What the map holds for an address is a bucket.
LEMMA BucketFacts ==
    ASSUME LimiterInv, NEW ip \in IPs, buckets[ip] # NoBucket
    PROVE  /\ buckets[ip] \in Reqs
           /\ lastSeen[buckets[ip]] \in 0..now /\ now \in Nat
           /\ tokens[buckets[ip]] \in 0..Burst
BY RateLimiterAssumption DEF LimiterInv, TypeOK

\* An address that keeps its bucket, or that has none in use before and after,
\* keeps its account over every step but a draw.
LEMMA AccountKept ==
    ASSUME LimiterInv, AddressInv, Ample, NEW ip \in IPs, now' \in {now, now + 1},
           \A s \in 0..now' : Counted(ip, s)' = Counted(ip, s),
           \A r \in Counted(ip, 0) : drawnAt'[r] = drawnAt[r],
           \/ /\ InUse(ip) /\ InUse(ip)' /\ buckets'[ip] = buckets[ip]
              /\ tokens'[buckets[ip]] = tokens[buckets[ip]]
              /\ lastSeen'[buckets[ip]] = lastSeen[buckets[ip]]
           \/ ~InUse(ip) /\ ~InUse(ip)'
    PROVE  Account(ip)'
<1> USE RateLimiterAssumption DEF LimiterInv, TypeOK, AddressInv
<1>1. CASE InUse(ip)
  <2> DEFINE b == buckets[ip]
  <2>1. 0 \in 0..now' /\ \A s \in 0..lastSeen[b] : s \in 0..now'
    BY <1>1, BucketFacts DEF InUse
  <2>2. InUse(ip)' /\ buckets'[ip] = b /\ tokens'[b] = tokens[b] /\ lastSeen'[b] = lastSeen[b]
    BY <1>1
  <2>3. \A q \in Counted(ip, 0)' : drawnAt'[q] <= lastSeen[b]
    BY <1>1, <2>1 DEF Account
  <2>4. \A s \in 0..lastSeen[b] :
            Cost * Cardinality(Counted(ip, s)') + tokens[b] <= Burst + Rate * (lastSeen[b] - s)
    BY <1>1, <2>1 DEF Account
  <2> QED
    BY <2>2, <2>3, <2>4 DEF Account
<1>2. CASE ~InUse(ip) /\ now' = now
  BY <1>2 DEF Account
<1>3. CASE ~InUse(ip) /\ now' = now + 1
  <2> SUFFICES ASSUME NEW s \in 0..(now + 1)
               PROVE  Cost * Cardinality(Counted(ip, s)) <= Rate * (now + 1 - s)
    BY <1>3 DEF Account
  <2>1. CASE s \in 0..now
    <3> DEFINE n == Cost * Cardinality(Counted(ip, s))
               x == Rate * (now - s)
               y == Rate * (now + 1 - s)
    <3>1. n <= x
      BY <1>3, <2>1 DEF Account
    <3>2. now + 1 - s = (now - s) + 1 /\ now - s \in Nat
      BY <2>1
    <3>3. y = x + Rate /\ x \in Nat /\ Rate \in Nat
      BY <3>2, Products
    <3>4. n \in Nat
      BY <2>1, CountedSets
    <3> HIDE DEF n, x, y
    <3>5. n <= y
      BY <3>1, <3>3, <3>4
    <3> QED
      BY <3>5 DEF n, y
  <2>2. CASE s = now + 1
    <3>1. Counted(ip, s) = {}
      BY <2>2 DEF Counted
    <3>2. now + 1 - s = 0
      BY <2>2
    <3> QED
      BY <3>1, <3>2, SetSizes, Products
  <2> QED
    BY <2>1, <2>2
<1> QED
  BY <1>1, <1>2, <1>3

\* The steps of the clock, of RetryAfterSeconds and of cleanup between two looks.
LEMMA QuietAccounts ==
    ASSUME LimiterInv, AddressInv, Ample, QuietStep,
           onMap' = onMap, victim' = victim, buckets' = buckets
    PROVE  (\A ip \in IPs : Account(ip)') /\ WithinBound'
<1>1. /\ \A ip \in IPs, s \in Nat : Counted(ip, s)' = Counted(ip, s)
      /\ \A ip \in IPs, s, t \in Nat : CountedIn(ip, s, t)' = CountedIn(ip, s, t)
  BY SameCounted DEF QuietStep
<1>2. WithinBound'
  BY <1>1, AddressBoundAtTick DEF AddressInv, QuietStep, Quiet
<1>3. ASSUME NEW ip \in IPs PROVE Account(ip)'
  BY <1>1, AccountKept DEF InUse, QuietStep, Quiet
<1> QED
  BY <1>2, <1>3

\* A bucket that has been unused for cleanupAfter has had the time to fill up, so
\* that the address keeps within the rate alone when the map forgets it.
LEMMA StaleAccount ==
    ASSUME LimiterInv, AddressInv, Ample, NEW ip \in IPs, InUse(ip), Stale(buckets[ip]),
           NEW s \in 0..now
    PROVE  Cost * Cardinality(Counted(ip, s)) <= Rate * (now - s)
<1> DEFINE b == buckets[ip]
           L == lastSeen[b]
           n == Cost * Cardinality(Counted(ip, s))
           x == Rate * (now - s)
<1>1. L \in 0..now /\ now \in Nat /\ tokens[b] \in 0..Burst /\ Burst \in Nat
  BY BucketFacts, RateLimiterAssumption DEF InUse
<1>2. n \in Nat /\ x \in Nat
  <2>1. now - s \in Nat /\ s \in Nat
    BY <1>1
  <2> QED
    BY <2>1, CountedSets, Products
<1>3. CASE s \in 0..L
  <2> DEFINE y == Rate * (L - s)
             z == Rate * CleanupAfter
             w == Rate * (now - L - CleanupAfter)
  <2>1. n + tokens[b] <= Burst + y
    BY <1>3 DEF AddressInv, Account
  <2>2. L + CleanupAfter < now /\ CleanupAfter \in Nat
    BY <1>1, RateLimiterAssumption DEF Stale, AddressInv, LimiterInv, TypeOK
  <2>3. /\ L - s \in Nat /\ now - L - CleanupAfter \in Nat
        /\ now - s = (L - s) + (CleanupAfter + (now - L - CleanupAfter))
    BY <1>1, <1>3, <2>2
  <2> DEFINE d == now - L - CleanupAfter
  <2>4. /\ y \in Nat /\ z \in Nat /\ w \in Nat
        /\ x = y + Rate * (CleanupAfter + d)
    <3>1. x = Rate * ((L - s) + (CleanupAfter + d))
      BY <2>3
    <3>2. CleanupAfter + d \in Nat
      BY <2>2, <2>3
    <3> HIDE DEF d
    <3> QED
      BY <2>2, <2>3, <3>1, <3>2, Products
  <2>5. Rate * (CleanupAfter + (now - L - CleanupAfter)) = z + w
    BY <2>2, <2>3, Products
  <2>6. z >= Burst
    BY DEF Ample
  <2> HIDE DEF n, x, y, z, w
  <2>7. n <= Burst + y
    BY <1>1, <1>2, <2>1, <2>4
  <2>8. x = y + (z + w)
    BY <2>4, <2>5 DEF z, w
  <2>9. n <= x
    BY <1>1, <1>2, <2>4, <2>6, <2>7, <2>8
  <2> QED
    BY <2>9 DEF n, x
<1>4. CASE s \in (L + 1)..now
  <2>1. Counted(ip, s) = {}
    <3> SUFFICES ASSUME NEW q \in Counted(ip, s) PROVE FALSE
      OBVIOUS
    <3>1. drawnAt[q] >= s /\ q \in Counted(ip, 0) /\ drawnAt[q] \in Nat
      BY <1>1, <1>4 DEF Counted, LimiterInv, TypeOK
    <3>2. drawnAt[q] <= L
      BY <3>1 DEF AddressInv, Account
    <3> QED
      BY <1>1, <1>4, <3>1, <3>2
  <2>2. n = 0
    BY <2>1, SetSizes, Products
  <2> HIDE DEF n, x
  <2>3. n <= x
    BY <1>2, <2>2
  <2> QED
    BY <2>3 DEF n, x
<1> QED
  BY <1>1, <1>3, <1>4

\* Cleanup looks at a bucket: it condemns it only when it has filled up.
LEMMA ScanAccounts ==
    ASSUME LimiterInv, AddressInv, Ample, NEW jp \in IPs, SweepScan(jp)
    PROVE  (\A ip \in IPs : Account(ip)') /\ WithinBound'
<1> USE DEF LimiterInv, TypeOK, SweepScan, history
<1>1. /\ \A ip \in IPs, s \in Nat : Counted(ip, s)' = Counted(ip, s)
      /\ \A ip \in IPs, s, t \in Nat : CountedIn(ip, s, t)' = CountedIn(ip, s, t)
  <2>1. Quiet /\ onMap' = onMap
    BY DEF Quiet, Created
  <2> QED
    BY <2>1, SameCounted
<1>2. WithinBound'
  BY <1>1, AddressBoundAtTick DEF AddressInv
<1>3. ASSUME NEW ip \in IPs PROVE Account(ip)'
  <2>1. CASE InUse(ip) /\ ip \in victim'
    <3>1. Stale(buckets[ip]) /\ ~InUse(ip)' /\ now' = now
      BY <2>1 DEF InUse
    <3>2. ASSUME NEW s \in 0..now
          PROVE  Cost * Cardinality(Counted(ip, s)) <= Rate * (now - s)
      BY <2>1, <3>1, StaleAccount
    <3> QED
      BY <1>1, <3>1, <3>2 DEF Account
  <2>2. CASE InUse(ip) /\ ip \notin victim'
    BY <1>1, <2>2, AccountKept DEF InUse
  <2>3. CASE ~InUse(ip)
    BY <1>1, <2>3, AccountKept DEF InUse
  <2> QED
    BY <2>1, <2>2, <2>3
<1> QED
  BY <1>2, <1>3

\* The condemned bucket leaves the map.
LEMMA DeleteAccounts ==
    ASSUME LimiterInv, AddressInv, Ample, SweepDelete
    PROVE  (\A ip \in IPs : Account(ip)') /\ WithinBound'
<1> USE DEF LimiterInv, TypeOK, SweepDelete, history
<1>1. /\ \A ip \in IPs, s \in Nat : Counted(ip, s)' = Counted(ip, s)
      /\ \A ip \in IPs, s, t \in Nat : CountedIn(ip, s, t)' = CountedIn(ip, s, t)
  <2>1. Quiet /\ onMap' = onMap
    BY DEF Quiet, Created
  <2> QED
    BY <2>1, SameCounted
<1>2. WithinBound'
  BY <1>1, AddressBoundAtTick DEF AddressInv
<1>3. ASSUME NEW ip \in IPs PROVE Account(ip)'
  <2>1. CASE InUse(ip)
    BY <1>1, <2>1, AccountKept DEF InUse
  <2>2. CASE ~InUse(ip)
    BY <1>1, <2>2, AccountKept DEF InUse
  <2> QED
    BY <2>1, <2>2
<1> QED
  BY <1>2, <1>3

\* A new bucket is full, and the address has kept within the rate until now.
LEMMA FindAccounts ==
    ASSUME LimiterInv, AddressInv, Ample, NEW r \in Reqs, FindBucket(r)
    PROVE  (\A ip \in IPs : Account(ip)') /\ WithinBound'
<1> USE RateLimiterAssumption, ClientAddress DEF LimiterInv, TypeOK
<1>f. FindStep(r)
  BY FindSteps
<1>0. /\ pc[r] = "start" /\ now' = now /\ now \in Nat
      /\ drawnAt' = drawnAt /\ onMap' = onMap /\ victim' = victim
  BY DEF FindBucket, history, sweeper
<1>1. /\ \A ip \in IPs, s \in Nat : Counted(ip, s)' = Counted(ip, s)
      /\ \A ip \in IPs, s, t \in Nat : CountedIn(ip, s, t)' = CountedIn(ip, s, t)
  BY <1>0, <1>f, SameCounted DEF FindStep
<1>2. WithinBound'
  BY <1>0, <1>1, AddressBoundAtTick DEF AddressInv
<1>3. /\ \A ip \in IPs : \A s \in 0..now' : Counted(ip, s)' = Counted(ip, s)
      /\ \A ip \in IPs : \A q \in Counted(ip, 0) : drawnAt'[q] = drawnAt[q]
      /\ now' \in {now, now + 1}
  BY <1>0, <1>1
<1>4. ASSUME NEW ip \in IPs PROVE Account(ip)'
  <2>1. CASE buckets'[ip] = buckets[ip] /\ InUse(ip)
    <3>1. buckets[ip] # r /\ buckets[ip] \in Reqs
      BY <1>0, <2>1, NewBucketUnused DEF InUse
    <3>2. /\ tokens'[buckets[ip]] = tokens[buckets[ip]]
          /\ lastSeen'[buckets[ip]] = lastSeen[buckets[ip]]
      BY <1>f, <3>1 DEF FindStep
    <3> QED
      BY <1>0, <1>3, <2>1, <3>2, AccountKept DEF InUse
  <2>2. CASE ~InUse(ip) /\ ~InUse(ip)'
    BY <1>3, <2>2, AccountKept
  <2>3. CASE ~InUse(ip) /\ InUse(ip)'
    <3>1. buckets'[ip] = r /\ tokens'[r] = Burst /\ lastSeen'[r] = now
      BY <1>0, <1>f, <2>3 DEF FindStep, InUse
    <3>2. \A q \in Counted(ip, 0) : drawnAt[q] <= now
      BY DEF Counted
    <3>3. ASSUME NEW s \in 0..now
          PROVE  Cost * Cardinality(Counted(ip, s)) + Burst <= Burst + Rate * (now - s)
      <4> DEFINE n == Cost * Cardinality(Counted(ip, s))
                 x == Rate * (now - s)
      <4>1. n <= x
        BY <2>3 DEF AddressInv, Account
      <4>2. s \in Nat /\ now - s \in Nat
        BY <1>0
      <4>3. n \in Nat /\ x \in Nat
        BY <4>2, CountedSets, Products
      <4> HIDE DEF n, x
      <4>4. n + Burst <= Burst + x
        BY <4>1, <4>3
      <4> QED
        BY <4>4 DEF n, x
    <3>4. \A s \in 0..now :
              Cost * Cardinality(Counted(ip, s)') + Burst <= Burst + Rate * (now - s)
      BY <1>0, <1>1, <3>3
    <3>5. \A q \in Counted(ip, 0)' : drawnAt'[q] <= now
      BY <1>0, <1>1, <3>2
    <3> QED
      BY <2>3, <3>1, <3>4, <3>5 DEF Account
  <2>4. buckets'[ip] = buckets[ip] \/ (buckets'[ip] = r /\ buckets[ip] = NoBucket)
    BY DEF FindBucket
  <2> QED
    BY <1>0, <2>1, <2>2, <2>3, <2>4 DEF InUse
<1> QED
  BY <1>2, <1>4

\* Whom a draw counts for an address: its own request, when it is let through by
\* the bucket that the map holds.
OnTheMap(r) == handle[r] = buckets[clientIP(r)] /\ clientIP(r) \notin victim

\* A draw counts its own request or none, at the present time.
LEMMA DrawCounts ==
    ASSUME LimiterInv, AddressInv, NEW r \in Reqs, Draw(r)
    PROVE  /\ \A ip \in IPs, s \in Nat : r \notin Counted(ip, s)
           /\ \A ip \in IPs, s \in 0..now :
                  Counted(ip, s)' = IF /\ ip = clientIP(r) /\ OnTheMap(r)
                                       /\ Refilled(handle[r]) >= Cost
                                    THEN Counted(ip, s) \cup {r} ELSE Counted(ip, s)
           /\ \A ip \in IPs, s \in Nat, t \in 0..now :
                  ip # clientIP(r) \/ ~OnTheMap(r) \/ t # now
                      => CountedIn(ip, s, t)' = CountedIn(ip, s, t)
           /\ \A ip \in IPs, s \in Nat : CountedIn(ip, s, now) = Counted(ip, s)
           /\ \A ip \in IPs, s \in Nat : CountedIn(ip, s, now)' = Counted(ip, s)'
           /\ \A ip \in IPs : \A q \in Counted(ip, 0) : drawnAt'[q] = drawnAt[q]
           /\ drawnAt'[r] = now
<1> USE DEF LimiterInv, TypeOK, Goto
<1>0. /\ pc[r] = "draw" /\ r \notin onMap /\ now \in Nat /\ now' = now
      /\ handle[r] \in Reqs
  BY RateLimiterAssumption DEF Draw, AddressInv, CountedOnce, Using
<1>1. /\ \A q \in Reqs \ {r} : pc'[q] = pc[q] /\ drawnAt'[q] = drawnAt[q]
      /\ drawnAt'[r] = now
      /\ pc'[r] = IF Refilled(handle[r]) >= Cost THEN "served" ELSE "refused"
      /\ onMap' = IF OnTheMap(r) THEN onMap \cup {r} ELSE onMap
      /\ drawnAt' \in [Reqs -> Nat]
      /\ \A q \in Reqs : drawnAt'[q] <= now
  BY <1>0 DEF Draw, OnTheMap, Answered
<1>2. \A q \in Reqs : clientIP(q)' = clientIP(q)
  BY DEF clientIP
<1>3. \A ip \in IPs, s \in Nat : r \notin Counted(ip, s)
  BY <1>0 DEF Counted
<1>4. ASSUME NEW ip \in IPs, NEW s \in 0..now
      PROVE  Counted(ip, s)' = IF /\ ip = clientIP(r) /\ OnTheMap(r)
                                  /\ Refilled(handle[r]) >= Cost
                               THEN Counted(ip, s) \cup {r} ELSE Counted(ip, s)
  <2>1. \A q \in Reqs \ {r} : q \in Counted(ip, s)' <=> q \in Counted(ip, s)
    BY <1>1, <1>2 DEF Counted
  <2>2. r \in Counted(ip, s)' <=> /\ ip = clientIP(r) /\ OnTheMap(r)
                                  /\ Refilled(handle[r]) >= Cost
    BY <1>0, <1>1, <1>2 DEF Counted
  <2>3. Counted(ip, s)' \subseteq Reqs /\ Counted(ip, s) \subseteq Reqs
    BY DEF Counted
  <2>4. r \notin Counted(ip, s)
    BY <1>3
  <2> DEFINE A == Counted(ip, s)
             B == Counted(ip, s)'
             in == /\ ip = clientIP(r) /\ OnTheMap(r)
                   /\ Refilled(handle[r]) >= Cost
  <2>5. /\ A \subseteq Reqs /\ B \subseteq Reqs
        /\ \A q \in Reqs \ {r} : q \in B <=> q \in A
    BY <2>1, <2>3
  <2> HIDE DEF A, B
  <2>6. CASE in
    <3>1. r \in B
      BY <2>2, <2>6 DEF B
    <3>2. B = A \cup {r}
      BY <2>5, <3>1
    <3> QED
      BY <2>6, <3>2 DEF A, B
  <2>7. CASE ~in
    <3>1. r \notin B /\ r \notin A
      BY <2>2, <2>4, <2>7 DEF A, B
    <3>2. B = A
      BY <2>5, <3>1
    <3> QED
      BY <2>7, <3>2 DEF A, B
  <2> QED
    BY <2>6, <2>7
<1>5. ASSUME NEW ip \in IPs, NEW s \in Nat, NEW t \in 0..now,
             ip # clientIP(r) \/ ~OnTheMap(r) \/ t # now
      PROVE  CountedIn(ip, s, t)' = CountedIn(ip, s, t)
  <2>1. \A q \in Reqs \ {r} : q \in CountedIn(ip, s, t)' <=> q \in CountedIn(ip, s, t)
    BY <1>1, <1>2 DEF CountedIn, ServedFor
  <2>2. r \notin CountedIn(ip, s, t)' /\ r \notin CountedIn(ip, s, t)
    BY <1>0, <1>1, <1>2, <1>5 DEF CountedIn, ServedFor
  <2>3. CountedIn(ip, s, t)' \subseteq Reqs /\ CountedIn(ip, s, t) \subseteq Reqs
    BY DEF CountedIn, ServedFor
  <2> QED
    BY <2>1, <2>2, <2>3
<1>6. \A ip \in IPs, s \in Nat : CountedIn(ip, s, now) = Counted(ip, s)
  BY <1>0 DEF CountedIn, ServedFor, Counted
<1>7. \A ip \in IPs, s \in Nat : CountedIn(ip, s, now)' = Counted(ip, s)'
  BY <1>0, <1>1 DEF CountedIn, ServedFor, Counted
<1>8. \A ip \in IPs : \A q \in Counted(ip, 0) : drawnAt'[q] = drawnAt[q]
  BY <1>1, <1>3 DEF Counted
<1> QED
  BY <1>1, <1>3, <1>4, <1>5, <1>6, <1>7, <1>8

\* The account of an address after a request of its own drew from its bucket.
LEMMA DrawCredit ==
    ASSUME LimiterInv, AddressInv, Ample, NEW r \in Reqs, Draw(r), OnTheMap(r),
           NEW s \in 0..now
    PROVE  LET b == handle[r] IN
           /\ Cost * Cardinality(Counted(clientIP(r), s)') + tokens'[b]
                <= Burst + Rate * (now - s)
           /\ Cost * Cardinality(Counted(clientIP(r), s)') \in Nat
<1>0. PICK b \in Reqs, ip \in IPs : b = handle[r] /\ ip = clientIP(r)
  BY DrawServes, ClientAddress
<1> DEFINE L == lastSeen[b]
           F == Refilled(b)
           e == Rate * (now - L)
           S == Counted(ip, s)
           T == Counted(ip, s)'
           n == Cost * Cardinality(S)
           m == Cost * Cardinality(T)
           x == Rate * (now - s)
           y == Rate * (L - s)
<1>1. /\ now \in Nat /\ L \in 0..now /\ tokens[b] \in 0..Burst
      /\ Cost \in Nat \ {0} /\ Burst \in Nat
      /\ InUse(ip) /\ buckets[ip] = b
  BY <1>0, DrawServes, RateLimiterAssumption DEF LimiterInv, TypeOK, InUse, OnTheMap
<1>2. /\ e \in Nat /\ F \in 0..Burst /\ F <= tokens[b] + e
      /\ tokens'[b] = IF F >= Cost THEN F - Cost ELSE F
  BY <1>0, RefillFacts, DrawServes
<1>3. /\ T = IF F >= Cost THEN S \cup {r} ELSE S
      /\ r \notin S
  BY <1>0, <1>1, DrawCounts
<1>4. x \in Nat /\ n \in Nat /\ S \in SUBSET Reqs
  <2>1. s \in Nat /\ now - s \in Nat
    BY <1>1
  <2> QED
    BY <1>1, <2>1, CountedSets, Products
<1>5. m = IF F >= Cost THEN n + Cost ELSE n
  <2> HIDE DEF S, T, F
  <2>1. Cardinality(S) \in Nat /\ Cardinality(S \cup {r}) = Cardinality(S) + 1
    BY <1>3, <1>4, SetSizes
  <2>2. Cost * (Cardinality(S) + 1) = Cost * Cardinality(S) + Cost
    BY <2>1, Products
  <2> QED
    BY <1>3, <2>1, <2>2
<1>6. CASE s \in 0..L
  <2>1. n + tokens[b] <= Burst + y
    BY <1>1, <1>6 DEF AddressInv, Account
  <2>2. x = e + y /\ y \in Nat
    <3>1. now - s = (now - L) + (L - s) /\ now - L \in Nat /\ L - s \in Nat
      BY <1>1, <1>6
    <3> QED
      BY <3>1, Products
  <2> HIDE DEF n, m, x, y, e, F
  <2>3. m + tokens'[b] <= Burst + x /\ m \in Nat
    BY <1>1, <1>2, <1>4, <1>5, <2>1, <2>2
  <2> QED
    BY <1>0, <2>3 DEF m, x
<1>7. CASE s \in (L + 1)..now
  <2>1. S = {}
    <3> SUFFICES ASSUME NEW q \in S PROVE FALSE
      OBVIOUS
    <3>1. drawnAt[q] >= s /\ q \in Counted(ip, 0) /\ drawnAt[q] \in Nat
      BY <1>1, <1>7 DEF Counted, LimiterInv, TypeOK
    <3>2. drawnAt[q] <= L
      BY <1>1, <3>1 DEF AddressInv, Account
    <3> QED
      BY <1>1, <1>7, <3>1, <3>2
  <2>2. n = 0
    BY <2>1, SetSizes, Products
  <2> HIDE DEF n, m, x, F
  <2>3. m + tokens'[b] <= Burst + x /\ m \in Nat
    BY <1>1, <1>2, <1>4, <1>5, <2>2
  <2> QED
    BY <1>0, <2>3 DEF m, x
<1> QED
  BY <1>1, <1>6, <1>7

\* A draw is charged to the account of the address, or is not counted for it.
LEMMA DrawAccounts ==
    ASSUME LimiterInv, AddressInv, Ample, NEW r \in Reqs, Draw(r), TypeOK'
    PROVE  (\A ip \in IPs : Account(ip)') /\ WithinBound'
<1> DEFINE b == handle[r]
<1>0. /\ b \in Reqs /\ now \in Nat /\ now' = now /\ buckets' = buckets
      /\ victim' = victim /\ lastSeen'[b] = now
      /\ tokens'[b] \in Nat /\ Burst \in Nat /\ b # NoBucket
  BY DrawServes, RateLimiterAssumption DEF LimiterInv, TypeOK, Draw, sweeper
<1>1. ASSUME NEW ip \in IPs, ip # clientIP(r) \/ ~OnTheMap(r)
      PROVE  Account(ip)'
  <2>1. \A s \in 0..now : Counted(ip, s)' = Counted(ip, s)
    BY <1>1, DrawCounts
  <2>2. \A q \in Counted(ip, 0) : drawnAt'[q] = drawnAt[q]
    BY DrawCounts
  <2>3. CASE InUse(ip)
    <3>1. buckets[ip] # b /\ buckets[ip] \in Reqs
      BY <1>0, <1>1, <2>3, BucketFacts DEF InUse, OnTheMap, AddressInv, Owned
    <3>2. /\ tokens'[buckets[ip]] = tokens[buckets[ip]]
          /\ lastSeen'[buckets[ip]] = lastSeen[buckets[ip]]
      BY <3>1, DrawServes
    <3> QED
      BY <1>0, <2>1, <2>2, <2>3, <3>2, AccountKept DEF InUse
  <2>4. CASE ~InUse(ip)
    BY <1>0, <2>1, <2>2, <2>4, AccountKept DEF InUse
  <2> QED
    BY <2>3, <2>4
<1>2. ASSUME OnTheMap(r) PROVE Account(clientIP(r))'
  <2> DEFINE ip == clientIP(r)
  <2>1. ip \in IPs /\ clientIP(r)' = ip /\ InUse(ip)' /\ buckets'[ip] = b
    BY <1>0, <1>2, ClientAddress DEF OnTheMap, InUse, clientIP
  <2>2. ASSUME NEW s \in 0..now
        PROVE  Cost * Cardinality(Counted(ip, s)') + tokens'[b] <= Burst + Rate * (now - s)
    BY <1>2, DrawCredit
  <2>3. \A q \in Counted(ip, 0)' : drawnAt'[q] <= now
    BY <1>0 DEF Counted, TypeOK
  <2> QED
    BY <1>0, <2>1, <2>2, <2>3 DEF Account
<1>3. WithinBound'
  <2> SUFFICES ASSUME NEW ip \in IPs, NEW t \in 0..now, NEW s \in 0..t
               PROVE  Cost * Cardinality(CountedIn(ip, s, t)') <= Burst + Rate * (t - s)
    BY <1>0 DEF WithinBound
  <2>1. CASE ip # clientIP(r) \/ ~OnTheMap(r) \/ t # now
    <3>1. CountedIn(ip, s, t)' = CountedIn(ip, s, t)
      BY <1>0, <2>1, DrawCounts
    <3> QED
      BY <3>1 DEF AddressInv, WithinBound
  <2>2. CASE ip = clientIP(r) /\ OnTheMap(r) /\ t = now
    <3> DEFINE m == Cost * Cardinality(Counted(clientIP(r), s)')
               x == Rate * (now - s)
    <3>1. s \in 0..now /\ s \in Nat /\ now - s \in Nat
      BY <1>0, <2>2
    <3>2. CountedIn(ip, s, t)' = Counted(clientIP(r), s)'
      BY <1>0, <2>2, <3>1, DrawCounts
    <3>3. m + tokens'[b] <= Burst + x /\ m \in Nat /\ x \in Nat
      BY <2>2, <3>1, DrawCredit, Products
    <3> HIDE DEF m, x
    <3>4. m <= Burst + x
      BY <1>0, <3>3
    <3> QED
      BY <2>2, <3>2, <3>4 DEF m, x
  <2> QED
    BY <2>1, <2>2
<1> QED
  BY <1>1, <1>2, <1>3

\* AddressInv is an invariant of the rate limiter.
THEOREM AddressInvariant == Spec => []AddressInv
<1>1. ASSUME LimiterInv, LimiterInv', AddressInv, [Next]_vars PROVE AddressInv'
  <2>1. Owned' /\ CountedOnce' /\ (cutoff <= now)'
    BY <1>1, OwnedStep
  <2>2. ASSUME Ample PROVE (\A ip \in IPs : Account(ip)') /\ WithinBound'
    <3>1. CASE \E r \in Reqs : FindBucket(r)
      BY <1>1, <2>2, <3>1, FindAccounts
    <3>2. CASE \E r \in Reqs : Draw(r)
      BY <1>1, <2>2, <3>2, DrawAccounts DEF LimiterInv
    <3>3. CASE \E ip \in IPs : SweepScan(ip)
      BY <1>1, <2>2, <3>3, ScanAccounts
    <3>4. CASE SweepDelete
      BY <1>1, <2>2, <3>4, DeleteAccounts
    <3>5. CASE /\ \A r \in Reqs : ~FindBucket(r) /\ ~Draw(r)
               /\ \A ip \in IPs : ~SweepScan(ip)
               /\ ~SweepDelete
      <4>1. QuietStep
        BY <1>1, <3>5, QuietSteps
      <4>2. onMap' = onMap /\ victim' = victim /\ buckets' = buckets
        BY <1>1, <3>5 DEF Next, cleanup, Middleware, Tick, SweepTick, SweepLock, SweepEnd,
                          LookupBucket, Peek, ReadNeed, history, sweeper, vars
      <4> QED
        BY <1>1, <2>2, <4>1, <4>2, QuietAccounts
    <3> QED
      BY <3>1, <3>2, <3>3, <3>4, <3>5
  <2>3. Ample' <=> Ample
    BY DEF Ample
  <2> QED
    BY <2>1, <2>2, <2>3 DEF AddressInv
<1> QED
  BY <1>1, AddressInvInit, LimiterInvariant, PTL DEF Spec

\* When a bucket unused for cleanupAfter has had the time to fill up, cleanup takes
\* nothing from the limit of an address: over all the buckets it has had, an
\* address is let through no more than the burst and the rate allow, in any
\* interval (ratelimit.go:154-171), but for the requests that hold a bucket while
\* it is being removed.
THEOREM AddressesBound == Spec => []AddressBound
<1>1. AddressInv => AddressBound
  BY DEF AddressInv, AddressBound, WithinBound, CountedIn, Ample
<1> QED
  BY <1>1, AddressInvariant, PTL

=============================================================================
