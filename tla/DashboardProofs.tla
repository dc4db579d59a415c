-------------------------- MODULE DashboardProofs --------------------------
(***************************************************************************)
(* Proofs about Dashboard, for any queues, slots, interval and timeout.    *)
(***************************************************************************)
EXTENDS Dashboard, FiniteSetTheorems, SequenceTheorems, WellFoundedInduction, TLAPS

-----------------------------------------------------------------------------
(* How many fetches run.                                                    *)

\* The fetches made by Init and by ticks that have not ended.
Ticked == InFlight \cap TickSlots

\* Two fetches made by ticks began an interval apart, and the youngest began when
\* the timer that runs was set.
Spaced ==
    /\ ~running => InFlight = {}
    /\ timer \in 0..Interval
    /\ fetch \in [Slots -> [at : {"free", "sent", "read", "failed"}, age : 0..(Timeout - 1),
                            snap : Queues \cup {NoStats}]]
    /\ \A s \in Ticked : fetch[s].age + timer >= Interval
    /\ \A s, t \in Ticked : s # t => \/ fetch[s].age + Interval <= fetch[t].age
                                     \/ fetch[t].age + Interval <= fetch[s].age

\* So no more fit into the timeout than it has intervals, and one.
LEMMA SpacedAreFew == Spaced => FetchesBounded
<1> SUFFICES ASSUME Spaced PROVE FetchesBounded
  OBVIOUS
<1> DEFINE N == Timeout \div Interval
           slice == [s \in Ticked |-> fetch[s].age \div Interval]
<1>1. Timeout \in Nat \ {0} /\ Interval \in Nat \ {0}
  BY DashboardAssumption
<1>2. \A a, d \in Nat : d # 0 => /\ a \div d \in Nat
                                 /\ d * (a \div d) <= a /\ a < d * (a \div d) + d
  BY Z3
<1>3. N \in Nat
  BY <1>1, <1>2
<1>4. \A s \in Ticked : fetch[s].age \in 0..(Timeout - 1)
  BY DEF Spaced, Ticked, InFlight
<1>5. ASSUME NEW s \in Ticked PROVE slice[s] \in 0..N
  <2> DEFINE a == fetch[s].age
             q == a \div Interval
  <2>1. a \in Nat /\ a < Timeout
    BY <1>1, <1>4
  <2>2. q \in Nat /\ Interval * q <= a
    BY <1>1, <1>2, <2>1
  <2>3. Timeout < Interval * N + Interval
    BY <1>1, <1>2
  <2> HIDE DEF a, q, N
  <2>4. q <= N
    <3>1. Interval * q < Interval * (N + 1)
      BY <1>1, <1>3, <2>1, <2>2, <2>3
    <3> QED
      BY <1>1, <1>3, <2>2, <3>1, Z3
  <2> QED
    BY <1>3, <2>2, <2>4 DEF q, a
<1>6. ASSUME NEW s \in Ticked, NEW t \in Ticked, slice[s] = slice[t] PROVE s = t
  <2> DEFINE a == fetch[s].age
             b == fetch[t].age
             p == a \div Interval
             q == b \div Interval
  <2>1. a \in Nat /\ b \in Nat /\ p = q
    BY <1>1, <1>4, <1>6
  <2>2. /\ p \in Nat /\ Interval * p <= a /\ a < Interval * p + Interval
        /\ q \in Nat /\ Interval * q <= b /\ b < Interval * q + Interval
    BY <1>1, <1>2, <2>1
  <2>3. s # t => a + Interval <= b \/ b + Interval <= a
    BY DEF Spaced
  <2> HIDE DEF a, b, p, q
  <2> DEFINE m == Interval * p
  <2>4. m \in Nat /\ m <= a /\ a < m + Interval /\ m <= b /\ b < m + Interval
    BY <1>1, <2>1, <2>2
  <2> HIDE DEF m
  <2> QED
    BY <1>1, <2>1, <2>3, <2>4
<1> HIDE DEF slice
<1>7. slice \in Injection(Ticked, 0..N)
  <2>1. slice \in [Ticked -> 0..N]
    BY <1>5 DEF slice
  <2> QED
    BY <1>6, <2>1 DEF Injection, IsInjective
<1>8. IsFiniteSet(0..N) /\ Cardinality(0..N) = N + 1
  BY <1>3, FS_Interval
<1>9. Cardinality(Ticked) <= N + 1
  BY <1>7, <1>8, FS_Injection
<1> QED
  BY <1>9 DEF FetchesBounded, Ticked

\* The first fetch is made as the timer starts.
LEMMA SpacedInit == Init => Spaced
<1> SUFFICES ASSUME Init PROVE Spaced
  OBVIOUS
<1>1. Timeout \in Nat \ {0} /\ Interval \in Nat \ {0}
  BY DashboardAssumption
<1> DEFINE u == CHOOSE t \in TickSlots : TRUE
<1>2. fetch = [s \in Slots |-> IF s = u THEN Sent ELSE Free]
  BY DEF Init
<1> HIDE DEF u
<1>3. Ticked \subseteq {u}
  BY <1>2 DEF Ticked, InFlight, Free
<1> QED
  BY <1>1, <1>2, <1>3 DEF Init, Spaced, Free, Sent, Ticked, InFlight

\* Time makes every fetch older at once, a tick begins one when the last is an
\* interval old, and nothing else begins one in these slots.
LEMMA SpacedStep == Spaced /\ queues \in Queues /\ [Next]_vars => Spaced'
<1> SUFFICES ASSUME Spaced, queues \in Queues, [Next]_vars PROVE Spaced'
  OBVIOUS
<1>0. Timeout \in Nat \ {0} /\ Interval \in Nat \ {0} /\ TickSlots \cap PressSlots = {}
  BY DashboardAssumption
<1> USE <1>0 DEF env, shown
<1>1. ASSUME NEW k \in Keys, Enqueue(k) \/ Dequeue(k) PROVE Spaced'
  BY <1>1 DEF Enqueue, Dequeue, Spaced, Ticked, InFlight
<1>2. ASSUME NEW s \in Slots, HandleStats(s) PROVE Spaced'
  BY <1>2 DEF HandleStats, Spaced, Ticked, InFlight
<1>3. ASSUME NEW s \in Slots, FetchFails(s) \/ UpdateError(s) \/ UpdateStats(s) PROVE Spaced'
  BY <1>3 DEF FetchFails, UpdateError, UpdateStats, Spaced, Ticked, InFlight, Free
<1>4. CASE Restart
  BY <1>4 DEF Restart, Spaced, Ticked, InFlight, Free
<1>5. CASE Second
  BY <1>5 DEF Second, Older, Spaced, Ticked, InFlight, Free
<1>6. CASE UpdateTick
  <2>1. PICK u \in TickSlots : fetch' = [fetch EXCEPT ![u] = Sent]
    BY <1>6 DEF UpdateTick, fetchCmd
  <2>2. /\ timer = 0 /\ timer' = Interval /\ running /\ running' = running
        /\ u \in Slots /\ u \notin PressSlots
    BY <1>6, <2>1 DEF UpdateTick, Slots
  <2>3. /\ fetch' \in [Slots -> [at : {"free", "sent", "read", "failed"},
                                 age : 0..(Timeout - 1), snap : Queues \cup {NoStats}]]
        /\ fetch'[u].age = 0
        /\ \A s \in Slots \ {u} : fetch'[s] = fetch[s]
    BY <2>1, <2>2 DEF Spaced, Free, Sent
  <2>4. Ticked' \subseteq Ticked \cup {u} /\ Ticked \subseteq Slots
    BY <2>2, <2>3 DEF Ticked, InFlight
  <2>5. \A s \in Ticked : fetch[s].age \in Nat /\ fetch[s].age >= Interval
    BY <2>2, <2>4 DEF Spaced
  <2>6. \A s \in Ticked' : fetch'[s].age \in Nat
    BY <2>3, <2>4, <2>5
  <2>7. \A s \in Ticked' : fetch'[s].age + timer' >= Interval
    BY <2>2, <2>6
  <2>8. \A s \in Ticked' \ {u} : s \in Ticked /\ fetch'[s] = fetch[s]
    BY <2>3, <2>4
  <2>9. \A s, t \in Ticked' : s # t => \/ fetch'[s].age + Interval <= fetch'[t].age
                                       \/ fetch'[t].age + Interval <= fetch'[s].age
    BY <2>3, <2>5, <2>8 DEF Spaced
  <2> QED
    BY <2>2, <2>3, <2>7, <2>9 DEF Spaced
<1>7. CASE UpdateRefresh
  BY <1>7 DEF UpdateRefresh, fetchCmd, Spaced, Ticked, InFlight, Free, Sent, Slots
<1>8. CASE UpdateQuit
  BY <1>8 DEF UpdateQuit, Spaced, Ticked, InFlight, Free
<1>9. CASE UNCHANGED vars
  BY <1>9 DEF vars, Spaced, Ticked, InFlight
<1> QED
  BY <1>1, <1>2, <1>3, <1>4, <1>5, <1>6, <1>7, <1>8, <1>9 DEF Next, Update

-----------------------------------------------------------------------------
(* The sums of aggregateTotals.                                             *)

\* The key that FoldFunction takes next, and the function by which it recurs.
first(s) == CHOOSE k \in s : TRUE

Sums(q, field, f) ==
    f = [s \in SUBSET Keys |->
            IF s = {} THEN 0 ELSE q[first(s)][field] + f[s \ {first(s)}]]
Sum(q, field) == CHOOSE f : Sums(q, field, f)
Total(q, field) == Sum(q, field)[Keys]

\* What aggregateTotals folds over the queues are the two sums.
LEMMA TotalsAreSums ==
    ASSUME NEW q, DOMAIN q = Keys
    PROVE  /\ aggregateTotals(q).depth = Total(q, "depth")
           /\ aggregateTotals(q).enqueued = Total(q, "enqueued")
BY DEF aggregateTotals, FoldFunction, FoldFunctionOnSet, MapThenFoldSet, Total, Sum, Sums, first

\* A set of naturals that holds 0 and the successor of each of its elements.
LEMMA Successors ==
    ASSUME NEW T \in SUBSET Nat, 0 \in T, \A n \in T : n + 1 \in T
    PROVE  T = Nat
<1> DEFINE R == OpToRel(<, Nat)
           S == Nat \ T
<1>1. IsWellFoundedOn(R, Nat)
  BY NatLessThanWellFounded
<1>2. \A i, j \in Nat : i < j => <<i, j>> \in R
  BY DEF OpToRel
<1> HIDE DEF R
<1>3. ASSUME S # {} PROVE FALSE
  <2>1. PICK n \in S : \A m \in S : <<m, n>> \notin R
    BY <1>1, <1>3, WFMin
  <2> HIDE DEF S
  <2>2. n \in Nat /\ n # 0 /\ n - 1 \in Nat
    BY <2>1 DEF S
  <2>3. <<n - 1, n>> \in R
    BY <1>2, <2>2
  <2>4. (n - 1) + 1 \in T
    BY <2>1, <2>2, <2>3 DEF S
  <2>5. (n - 1) + 1 = n
    BY <2>2
  <2> QED
    BY <2>1, <2>4, <2>5 DEF S
<1> QED
  BY <1>3

\* A set of keys that is not empty has a first key, and is smaller without it.
LEMMA FiniteKeys ==
    \A s \in SUBSET Keys :
        /\ IsFiniteSet(s) /\ Cardinality(s) \in Nat /\ (Cardinality(s) = 0 <=> s = {})
        /\ s # {} => /\ first(s) \in s /\ s \ {first(s)} \in SUBSET Keys
                     /\ Cardinality(s \ {first(s)}) = Cardinality(s) - 1
<1> SUFFICES ASSUME NEW s \in SUBSET Keys
             PROVE  /\ IsFiniteSet(s) /\ Cardinality(s) \in Nat
                    /\ Cardinality(s) = 0 <=> s = {}
                    /\ s # {} => /\ first(s) \in s /\ s \ {first(s)} \in SUBSET Keys
                                 /\ Cardinality(s \ {first(s)}) = Cardinality(s) - 1
  OBVIOUS
<1>1. IsFiniteSet(s)
  BY DashboardAssumption, FS_Subset
<1>2. Cardinality(s) \in Nat /\ (Cardinality(s) = 0 <=> s = {})
  BY <1>1, FS_CardinalityType, FS_EmptySet
<1>3. ASSUME s # {} PROVE first(s) \in s
  BY <1>3 DEF first
<1>4. ASSUME s # {} PROVE Cardinality(s \ {first(s)}) = Cardinality(s) - 1
  BY <1>1, <1>3, <1>4, FS_RemoveElement
<1> QED
  BY <1>1, <1>2, <1>3, <1>4

\* What holds of no keys, and of a set when it holds without its first key, holds
\* of every set of keys.
LEMMA KeysInduction ==
    ASSUME NEW T \in SUBSET (SUBSET Keys), {} \in T,
           \A s \in SUBSET Keys : s # {} /\ s \ {first(s)} \in T => s \in T
    PROVE  T = SUBSET Keys
<1> DEFINE U == {n \in Nat : \A s \in SUBSET Keys : Cardinality(s) = n => s \in T}
<1>1. 0 \in U
  BY FiniteKeys
<1>2. ASSUME NEW n \in U PROVE n + 1 \in U
  <2> SUFFICES ASSUME NEW s \in SUBSET Keys, Cardinality(s) = n + 1 PROVE s \in T
    OBVIOUS
  <2>1. s # {} /\ Cardinality(s \ {first(s)}) = n /\ s \ {first(s)} \in SUBSET Keys
    BY FiniteKeys
  <2> QED
    BY <2>1
<1>3. U = Nat
  <2>1. U \in SUBSET Nat
    OBVIOUS
  <2> HIDE DEF U
  <2> QED
    BY <1>1, <1>2, <2>1, Successors
<1> QED
  BY <1>3, FiniteKeys

\* The recursion has a solution: one over the sets of up to n keys, for every n.
LEMMA SumsExist == \A q, field : Sums(q, field, Sum(q, field))
<1> SUFFICES ASSUME NEW q, NEW field PROVE \E f : Sums(q, field, f)
  BY DEF Sum
<1> DEFINE Upto(n) == {s \in SUBSET Keys : Cardinality(s) <= n}
           Step_(s, g) == IF s = {} THEN 0 ELSE q[first(s)][field] + g[s \ {first(s)}]
           Partial(n) == \E g : g = [s \in Upto(n) |-> Step_(s, g)]
           U == {n \in Nat : Partial(n)}
<1>1. Partial(0)
  <2> DEFINE g == [s \in Upto(0) |-> 0]
  <2>1. \A s \in Upto(0) : s = {}
    <3> SUFFICES ASSUME NEW s \in SUBSET Keys, Cardinality(s) <= 0 PROVE s = {}
      OBVIOUS
    <3>1. Cardinality(s) \in Nat /\ (Cardinality(s) = 0 <=> s = {})
      BY FiniteKeys
    <3> QED
      BY <3>1
  <2>2. g = [s \in Upto(0) |-> Step_(s, g)]
    BY <2>1
  <2> QED
    BY <2>2
<1>2. ASSUME NEW n \in Nat, Partial(n) PROVE Partial(n + 1)
  <2>1. PICK g : g = [s \in Upto(n) |-> Step_(s, g)]
    BY <1>2
  <2> DEFINE h == [s \in Upto(n + 1) |-> Step_(s, g)]
  <2>2. \A s \in Upto(n) : s \in Upto(n + 1) /\ g[s] = Step_(s, g)
    <3> SUFFICES ASSUME NEW s \in Upto(n) PROVE s \in Upto(n + 1) /\ g[s] = Step_(s, g)
      OBVIOUS
    <3>1. Cardinality(s) \in Nat
      BY FiniteKeys
    <3>2. s \in Upto(n + 1)
      BY <3>1
    <3> HIDE DEF Step_
    <3>3. g[s] = Step_(s, g)
      BY <2>1
    <3> QED
      BY <3>2, <3>3
  <2>3. \A s \in Upto(n) : h[s] = g[s]
    BY <2>2
  <2>4. \A s \in Upto(n + 1) : s # {} => s \ {first(s)} \in Upto(n)
    BY FiniteKeys
  <2>5. \A s \in Upto(n + 1) : Step_(s, g) = Step_(s, h)
    BY <2>3, <2>4
  <2>6. h = [s \in Upto(n + 1) |-> Step_(s, h)]
    BY <2>5
  <2> QED
    BY <2>6
<1>3. U = Nat
  <2>1. U \in SUBSET Nat /\ 0 \in U /\ \A n \in U : n + 1 \in U
    <3> HIDE DEF Partial
    <3> QED
      BY <1>1, <1>2
  <2> HIDE DEF U
  <2> QED
    BY <2>1, Successors
<1>4. Partial(Cardinality(Keys)) /\ Upto(Cardinality(Keys)) = SUBSET Keys
  <2>1. Cardinality(Keys) \in U
    BY <1>3, FiniteKeys
  <2>2. \A s \in SUBSET Keys : Cardinality(s) <= Cardinality(Keys)
    BY DashboardAssumption, FS_Subset
  <2> QED
    BY <2>1, <2>2
<1> QED
  BY <1>4 DEF Sums

\* The sum over a set is that over the set without its first key, and the first.
LEMMA SumSteps ==
    ASSUME NEW q, NEW field
    PROVE  /\ Sum(q, field)[{}] = 0
           /\ \A s \in SUBSET Keys : s # {} =>
                  Sum(q, field)[s] = q[first(s)][field] + Sum(q, field)[s \ {first(s)}]
<1> DEFINE f == Sum(q, field)
<1>1. f = [s \in SUBSET Keys |->
              IF s = {} THEN 0 ELSE q[first(s)][field] + f[s \ {first(s)}]]
  BY SumsExist DEF Sums
<1> HIDE DEF f
<1>2. \A s \in SUBSET Keys : f[s] = IF s = {} THEN 0 ELSE q[first(s)][field] + f[s \ {first(s)}]
  BY <1>1
<1> QED
  BY <1>2 DEF f

Fields == {"depth", "enqueued"}

\* A sum of naturals is a natural number.
LEMMA SumNat ==
    ASSUME NEW q \in Queues, NEW field \in Fields
    PROVE  \A s \in SUBSET Keys : Sum(q, field)[s] \in Nat
<1> DEFINE f == Sum(q, field)
           T == {s \in SUBSET Keys : f[s] \in Nat}
<1>1. \A k \in Keys : q[k][field] \in Nat
  BY DashboardAssumption DEF Queues, Fields, MaxTotal
<1>2. /\ f[{}] = 0
      /\ \A s \in SUBSET Keys : s # {} => f[s] = q[first(s)][field] + f[s \ {first(s)}]
  BY SumSteps
<1> HIDE DEF f
<1>3. ASSUME NEW s \in SUBSET Keys, s # {}, s \ {first(s)} \in T PROVE s \in T
  <2>1. first(s) \in Keys
    BY <1>3, FiniteKeys
  <2> QED
    BY <1>1, <1>2, <1>3, <2>1
<1>4. {} \in T /\ T \in SUBSET (SUBSET Keys)
  BY <1>2
<1> HIDE DEF T
<1>5. T = SUBSET Keys
  BY <1>3, <1>4, KeysInduction
<1> QED
  BY <1>5 DEF f, T

\* The sum of what is nowhere above something else is not above the sum of that.
LEMMA SumAtMost ==
    ASSUME NEW q \in Queues, NEW p \in Queues, NEW d \in Fields, NEW e \in Fields,
           \A k \in Keys : q[k][d] <= p[k][e]
    PROVE  Total(q, d) <= Total(p, e)
<1> DEFINE f == Sum(q, d)
           g == Sum(p, e)
           T == {s \in SUBSET Keys : f[s] <= g[s]}
<1>1. \A k \in Keys : q[k][d] \in Nat /\ p[k][e] \in Nat
  BY DashboardAssumption DEF Queues, Fields, MaxTotal
<1>2. /\ f[{}] = 0
      /\ \A s \in SUBSET Keys : s # {} => f[s] = q[first(s)][d] + f[s \ {first(s)}]
      /\ g[{}] = 0
      /\ \A s \in SUBSET Keys : s # {} => g[s] = p[first(s)][e] + g[s \ {first(s)}]
  BY SumSteps
<1>3. \A s \in SUBSET Keys : f[s] \in Nat /\ g[s] \in Nat
  BY SumNat
<1> HIDE DEF f, g
<1>4. ASSUME NEW s \in SUBSET Keys, s # {}, s \ {first(s)} \in T PROVE s \in T
  <2> DEFINE k == first(s)
             r == s \ {k}
  <2>1. k \in Keys /\ r \in SUBSET Keys /\ f[r] <= g[r]
    BY <1>4, FiniteKeys
  <2>2. f[s] = q[k][d] + f[r] /\ g[s] = p[k][e] + g[r]
    BY <1>2, <1>4
  <2>3. q[k][d] \in Nat /\ p[k][e] \in Nat /\ q[k][d] <= p[k][e]
    BY <1>1, <2>1
  <2>4. f[r] \in Nat /\ g[r] \in Nat
    BY <1>3, <2>1
  <2> HIDE DEF k, r
  <2>5. f[s] <= g[s]
    BY <2>1, <2>2, <2>3, <2>4
  <2> QED
    BY <2>5
<1>5. {} \in T /\ T \in SUBSET (SUBSET Keys)
  BY <1>2
<1> HIDE DEF T
<1>6. T = SUBSET Keys
  BY <1>4, <1>5, KeysInduction
<1> QED
  BY <1>6 DEF Total, f, g, T

\* A change at one key changes the sum by as much.
LEMMA SumChanges ==
    ASSUME NEW q \in Queues, NEW p \in Queues, NEW d \in Fields, NEW k \in Keys,
           \A j \in Keys \ {k} : p[j][d] = q[j][d]
    PROVE  Total(p, d) = Total(q, d) + p[k][d] - q[k][d]
<1> DEFINE f == Sum(q, d)
           g == Sum(p, d)
           a == q[k][d]
           b == p[k][d]
           T == {s \in SUBSET Keys : IF k \in s THEN g[s] + a = f[s] + b ELSE g[s] = f[s]}
<1>1. \A j \in Keys : q[j][d] \in Nat /\ p[j][d] \in Nat
  BY DashboardAssumption DEF Queues, Fields, MaxTotal
<1>2. /\ f[{}] = 0
      /\ \A s \in SUBSET Keys : s # {} => f[s] = q[first(s)][d] + f[s \ {first(s)}]
      /\ g[{}] = 0
      /\ \A s \in SUBSET Keys : s # {} => g[s] = p[first(s)][d] + g[s \ {first(s)}]
  BY SumSteps
<1>3. \A s \in SUBSET Keys : f[s] \in Nat /\ g[s] \in Nat
  BY SumNat
<1>4. a \in Nat /\ b \in Nat
  BY <1>1
<1> HIDE DEF f, g
<1>5. ASSUME NEW s \in SUBSET Keys, s # {}, s \ {first(s)} \in T PROVE s \in T
  <2> DEFINE j == first(s)
             r == s \ {j}
             x == q[j][d]
             y == p[j][d]
  <2>1. /\ j \in Keys /\ j \in s /\ r \in SUBSET Keys
        /\ IF k \in r THEN g[r] + a = f[r] + b ELSE g[r] = f[r]
    BY <1>5, FiniteKeys
  <2>2. f[s] = x + f[r] /\ g[s] = y + g[r]
    BY <1>2, <1>5
  <2>3. /\ x \in Nat /\ y \in Nat /\ f[r] \in Nat /\ g[r] \in Nat
        /\ j = k => x = a /\ y = b
        /\ j # k => x = y
    BY <1>1, <1>3, <2>1
  <2>4. k \in s <=> k \in r \/ j = k
    BY <2>1
  <2>5. j = k => k \notin r
    OBVIOUS
  <2> HIDE DEF j, r, x, y, a, b
  <2>6. IF k \in s THEN g[s] + a = f[s] + b ELSE g[s] = f[s]
    BY <1>4, <2>1, <2>2, <2>3, <2>4, <2>5
  <2> QED
    BY <2>6
<1>6. {} \in T /\ T \in SUBSET (SUBSET Keys)
  BY <1>2
<1> HIDE DEF T
<1>7. T = SUBSET Keys
  BY <1>5, <1>6, KeysInduction
<1>8. g[Keys] + a = f[Keys] + b
  BY <1>7 DEF T
<1>9. f[Keys] \in Nat /\ g[Keys] \in Nat
  BY <1>3
<1> HIDE DEF a, b
<1>10. g[Keys] = f[Keys] + b - a
  BY <1>4, <1>8, <1>9
<1> QED
  BY <1>10 DEF Total, f, g, a, b

\* A sum of zeros is zero.
LEMMA SumZero ==
    ASSUME NEW q, NEW field, \A k \in Keys : q[k][field] = 0
    PROVE  Total(q, field) = 0
<1> DEFINE f == Sum(q, field)
           T == {s \in SUBSET Keys : f[s] = 0}
<1>1. /\ f[{}] = 0
      /\ \A s \in SUBSET Keys : s # {} => f[s] = q[first(s)][field] + f[s \ {first(s)}]
  BY SumSteps
<1> HIDE DEF f
<1>2. ASSUME NEW s \in SUBSET Keys, s # {}, s \ {first(s)} \in T PROVE s \in T
  <2>1. first(s) \in Keys
    BY <1>2, FiniteKeys
  <2> QED
    BY <1>1, <1>2, <2>1
<1>3. {} \in T /\ T \in SUBSET (SUBSET Keys)
  BY <1>1
<1> HIDE DEF T
<1>4. T = SUBSET Keys
  BY <1>2, <1>3, KeysInduction
<1> QED
  BY <1>4 DEF f, T, Total

-----------------------------------------------------------------------------
(* What the dashboard shows.                                                *)

\* Stats the server had, or has: no depth above its counter, and in all no more
\* than was enqueued; before a restart, no less than what was there at the start.
Sound(q) ==
    /\ q \in Queues
    /\ \A k \in Keys : q[k].depth <= q[k].enqueued
    /\ \A k \in Keys : q[k].enqueued <= Served + since
    /\ Total(q, "enqueued") <= Served + since
    /\ restarts = 0 => Total(q, "enqueued") >= Served

DashInv ==
    /\ TypeOK /\ Spaced
    /\ Sound(queues)
    /\ restarts = 0 => Total(queues, "enqueued") = Served + since
    /\ \A s \in Slots : fetch[s].at = "read" => Sound(fetch[s].snap)
    /\ prevEnqueued <= Served + since
    /\ restarts = 0 /\ stats # NoStats => prevEnqueued >= Served
    /\ RateSeenLive

\* The totals of stats are natural numbers.
LEMMA TotalNat == \A q \in Queues, field \in Fields : Total(q, field) \in Nat
BY SumNat DEF Total

\* The sums of the stats stay within the bounds of the counters.
LEMMA SoundTotals ==
    ASSUME TypeOK, NEW q, Sound(q)
    PROVE  /\ aggregateTotals(q).depth \in 0..MaxTotal
           /\ aggregateTotals(q).enqueued = Total(q, "enqueued")
           /\ Total(q, "enqueued") \in 0..MaxTotal
<1>1. q \in Queues /\ DOMAIN q = Keys
  BY DEF Sound, Queues
<1>2. Total(q, "depth") <= Total(q, "enqueued")
  BY <1>1, SumAtMost DEF Sound, Fields
<1>3. Total(q, "depth") \in Nat /\ Total(q, "enqueued") \in Nat
  BY <1>1, TotalNat DEF Fields
<1>4. Total(q, "enqueued") <= Served + since /\ Served + since <= MaxTotal
      /\ Served \in Nat /\ since \in Nat /\ MaxTotal \in Nat
  BY DashboardAssumption DEF Sound, TypeOK, MaxTotal
<1> QED
  BY <1>1, <1>2, <1>3, <1>4, TotalsAreSums

\* A bound holds when one of its summands grows.
LEMMA MoreRoom == \A a, b, c, d \in Nat : a <= c + b /\ d >= b => a <= c + d
OBVIOUS

\* Stats that were sound stay so, until a restart and after it.
LEMMA SoundStays ==
    ASSUME NEW q, Sound(q), TypeOK, since' \in {since, since + 1}, restarts' \in {restarts, restarts + 1}
    PROVE  Sound(q)'
<1>1. Total(q, "enqueued") \in Nat /\ \A k \in Keys : q[k].enqueued \in Nat
  BY TotalNat, DashboardAssumption DEF Sound, Fields, Queues, MaxTotal
<1>2. Served \in Nat /\ since \in Nat /\ restarts \in Nat
  BY DashboardAssumption DEF TypeOK
<1>3. since' \in Nat /\ since' >= since /\ (restarts' = 0 => restarts = 0)
  BY <1>2
<1>4. \A n \in Nat : n <= Served + since => n <= Served + since'
  BY <1>2, <1>3, MoreRoom
<1>5. /\ \A k \in Keys : q[k].enqueued <= Served + since'
      /\ Total(q, "enqueued") <= Served + since'
  BY <1>1, <1>4 DEF Sound
<1> QED
  BY <1>3, <1>5 DEF Sound

\* The initial states.
LEMMA DashInvInit == Init => DashInv
<1> SUFFICES ASSUME Init PROVE DashInv
  OBVIOUS
<1>0. /\ Served \in Nat /\ MaxEnqueued \in Nat /\ MaxTotal \in Nat /\ Served <= MaxTotal
      /\ MaxRestarts \in Nat /\ MaxFailures \in Nat
      /\ HistoryLen \in Nat /\ Interval \in Nat \ {0} /\ Timeout \in Nat \ {0}
  BY DashboardAssumption DEF MaxTotal
<1>1. Spaced
  BY SpacedInit
<1>2. PICK k \in Keys : queues = [j \in Keys |->
          [depth |-> 0, enqueued |-> IF j = k THEN Served ELSE 0]]
  BY DEF Init
<1>3. queues \in Queues
  BY <1>0, <1>2 DEF Queues
<1>4. Total(queues, "enqueued") = Served
  <2> DEFINE zero == [j \in Keys |-> [depth |-> 0, enqueued |-> 0]]
  <2>1. zero \in Queues /\ \A j \in Keys : zero[j]["enqueued"] = 0
    BY <1>0 DEF Queues
  <2>2. \A j \in Keys \ {k} : queues[j]["enqueued"] = zero[j]["enqueued"]
    BY <1>2
  <2>3. queues[k]["enqueued"] = Served
    BY <1>2
  <2> HIDE DEF zero
  <2>4. Total(zero, "enqueued") = 0
    BY <2>1, SumZero
  <2>5. Total(queues, "enqueued") = Total(zero, "enqueued") + queues[k]["enqueued"] - zero[k]["enqueued"]
    BY <1>3, <2>1, <2>2, SumChanges DEF Fields
  <2> QED
    BY <1>0, <2>1, <2>3, <2>4, <2>5
<1>5. Sound(queues)
  BY <1>0, <1>2, <1>3, <1>4 DEF Sound, Init
<1>6. depthHistory \in UNION {[1..n -> 0..MaxTotal] : n \in 0..HistoryLen}
  <2>1. depthHistory \in [1..0 -> 0..MaxTotal]
    BY DEF Init
  <2> QED
    BY <1>0, <2>1
<1>7. TypeOK
  <2>1. fetch \in [Slots -> [at : {"free", "sent", "read", "failed"},
                             age : 0..Timeout, snap : Queues \cup {NoStats}]]
    BY <1>0 DEF Init, Free, Sent
  <2>2. /\ restarts \in 0..MaxRestarts /\ since \in 0..MaxEnqueued /\ failures \in 0..MaxFailures
        /\ timer \in 0..Interval /\ running \in BOOLEAN /\ fetchErr \in BOOLEAN
        /\ stats \in Queues \cup {NoStats}
        /\ prevEnqueued \in 0..MaxTotal /\ throughput \in 0..MaxTotal
    <3>1. /\ restarts = 0 /\ since = 0 /\ failures = 0 /\ timer = Interval /\ running = TRUE
          /\ stats = NoStats /\ fetchErr = FALSE /\ prevEnqueued = 0 /\ throughput = 0
      BY DEF Init
    <3>2. running \in BOOLEAN /\ fetchErr \in BOOLEAN /\ stats \in Queues \cup {NoStats}
      BY <3>1, Zenon
    <3>3. /\ restarts \in 0..MaxRestarts /\ since \in 0..MaxEnqueued /\ failures \in 0..MaxFailures
          /\ timer \in 0..Interval /\ prevEnqueued \in 0..MaxTotal /\ throughput \in 0..MaxTotal
      BY <1>0, <3>1
    <3> QED
      BY <3>2, <3>3
  <2> QED
    BY <1>3, <1>6, <2>1, <2>2, Zenon DEF TypeOK
<1>8. \A s \in Slots : fetch[s].at # "read"
  BY DEF Init, Free, Sent
<1> QED
  BY <1>0, <1>1, <1>4, <1>5, <1>7, <1>8 DEF Init, DashInv, RateSeenLive

\* The steps of the server keep its sums.
LEMMA ServerSums ==
    ASSUME DashInv, [Next]_vars
    PROVE  /\ Sound(queues)'
           /\ (restarts = 0 => Total(queues, "enqueued") = Served + since)'
<1> USE DEF DashInv
<1>0. /\ Served \in Nat /\ MaxEnqueued \in Nat /\ MaxTotal = Served + MaxEnqueued
      /\ since \in 0..MaxEnqueued /\ restarts \in Nat
      /\ queues \in Queues /\ \A k \in Keys : queues[k].depth \in Nat /\ queues[k].enqueued \in Nat
  BY DashboardAssumption DEF MaxTotal, TypeOK, Queues
<1>t. Total(queues, "enqueued") \in Nat
  BY <1>0, TotalNat DEF Fields
<1>1. ASSUME NEW k \in Keys, Enqueue(k)
      PROVE  /\ Sound(queues)'
             /\ (restarts = 0 => Total(queues, "enqueued") = Served + since)'
  <2>1. /\ since < MaxEnqueued /\ since' = since + 1 /\ restarts' = restarts
        /\ queues' = [queues EXCEPT ![k].depth = @ + 1, ![k].enqueued = @ + 1]
    BY <1>1 DEF Enqueue
  <2>2. /\ queues' \in [Keys -> [depth : Nat, enqueued : Nat]]
        /\ \A j \in Keys \ {k} : queues'[j] = queues[j]
        /\ queues'[k].depth = queues[k].depth + 1
        /\ queues'[k].enqueued = queues[k].enqueued + 1
    BY <1>0, <2>1 DEF Queues
  <2>3. \A j \in Keys : /\ queues'[j].depth <= queues'[j].enqueued
                        /\ queues'[j].enqueued <= Served + since'
    BY <1>0, <2>1, <2>2 DEF Sound
  <2>4. queues' \in Queues
    <3>1. Served + since' <= MaxTotal /\ MaxTotal \in Nat /\ Served + since' \in Nat
      BY <1>0, <2>1
    <3>2. \A j \in Keys : queues'[j].depth \in 0..MaxTotal /\ queues'[j].enqueued \in 0..MaxTotal
      BY <2>2, <2>3, <3>1
    <3> QED
      BY <2>2, <3>2 DEF Queues
  <2>5. Total(queues', "enqueued") = Total(queues, "enqueued") + queues'[k]["enqueued"] - queues[k]["enqueued"]
    BY <1>0, <2>2, <2>4, SumChanges DEF Fields
  <2>6. Total(queues', "enqueued") = Total(queues, "enqueued") + 1
    BY <1>0, <1>t, <2>2, <2>5
  <2>7. Total(queues, "enqueued")' = Total(queues', "enqueued")
    BY DEF Total, Sum, Sums
  <2>8. /\ Total(queues', "enqueued") <= Served + since'
        /\ restarts = 0 => Total(queues', "enqueued") = Served + since'
    BY <1>0, <1>t, <2>1, <2>6 DEF Sound
  <2>9. restarts = 0 => Total(queues', "enqueued") >= Served
    BY <1>0, <2>1, <2>8
  <2> QED
    BY <2>1, <2>3, <2>4, <2>7, <2>8, <2>9 DEF Sound
<1>2. ASSUME NEW k \in Keys, Dequeue(k)
      PROVE  /\ Sound(queues)'
             /\ (restarts = 0 => Total(queues, "enqueued") = Served + since)'
  <2>1. /\ queues[k].depth > 0 /\ UNCHANGED <<since, restarts>>
        /\ queues' = [queues EXCEPT ![k].depth = @ - 1]
    BY <1>2 DEF Dequeue, env
  <2>2. /\ queues' \in Queues
        /\ \A j \in Keys : queues'[j].enqueued = queues[j].enqueued
        /\ \A j \in Keys : queues'[j].depth <= queues[j].depth /\ queues'[j].depth \in Nat
    BY <1>0, <2>1 DEF Queues
  <2>3. Total(queues', "enqueued") = Total(queues, "enqueued") + queues'[k]["enqueued"] - queues[k]["enqueued"]
    BY <1>0, <2>2, SumChanges DEF Fields
  <2>4. Total(queues', "enqueued") = Total(queues, "enqueued")
    BY <1>0, <1>t, <2>2, <2>3
  <2>5. Total(queues, "enqueued")' = Total(queues', "enqueued")
    BY DEF Total, Sum, Sums
  <2> QED
    BY <1>0, <1>t, <2>1, <2>2, <2>4, <2>5 DEF Sound
<1>3. CASE Restart
  <2>1. /\ queues' = [k \in Keys |-> [depth |-> 0, enqueued |-> 0]]
        /\ restarts' = restarts + 1 /\ since' = since
    BY <1>3 DEF Restart
  <2>2. queues' \in Queues /\ \A k \in Keys : queues'[k].depth = 0 /\ queues'[k]["enqueued"] = 0
    BY <1>0, <2>1 DEF Queues
  <2>3. Total(queues', "enqueued") = 0
    BY <2>2, SumZero
  <2>4. Total(queues, "enqueued")' = Total(queues', "enqueued")
    BY DEF Total, Sum, Sums
  <2> QED
    BY <1>0, <2>1, <2>2, <2>3, <2>4 DEF Sound
<1>4. CASE UNCHANGED <<queues, since, restarts>>
  <2>1. Total(queues, "enqueued")' = Total(queues, "enqueued")
    BY <1>4 DEF Total, Sum, Sums
  <2> QED
    BY <1>4, <2>1 DEF Sound
<1>5. ASSUME NEW s \in Slots, HandleStats(s) \/ FetchFails(s) \/ Update(s)
      PROVE  UNCHANGED <<queues, since, restarts>>
  BY <1>5 DEF HandleStats, FetchFails, Update, UpdateError, UpdateStats, env
<1>6. CASE Second \/ UpdateTick \/ UpdateRefresh \/ UpdateQuit \/ UNCHANGED vars
  BY <1>4, <1>6 DEF Second, UpdateTick, UpdateRefresh, UpdateQuit, vars, env
<1> QED
  BY <1>1, <1>2, <1>3, <1>4, <1>5, <1>6 DEF Next

\* A function on 1..n is a sequence of length n, and a sequence is such a function.
LEMMA LenOfFunction ==
    ASSUME NEW D, NEW n \in Nat, NEW f \in [1..n -> D]
    PROVE  f \in Seq(D) /\ Len(f) = n
<1>1. f \in Seq(D)
  BY SeqDef
<1>2. Len(f) \in Nat /\ DOMAIN f = 1..Len(f)
  BY <1>1, LenProperties
<1>3. 1..n = 1..Len(f)
  BY <1>2
<1> QED
  BY <1>1, <1>2, <1>3

\* The history has at most HistoryLen entries.
LEMMA HistoryBounded ==
    ASSUME NEW total \in 0..MaxTotal,
           depthHistory \in UNION {[1..n -> 0..MaxTotal] : n \in 0..HistoryLen}
    PROVE  Remember(total) \in UNION {[1..n -> 0..MaxTotal] : n \in 0..HistoryLen}
<1>1. HistoryLen \in Nat \ {0}
  BY DashboardAssumption
<1>2. PICK n \in 0..HistoryLen : depthHistory \in [1..n -> 0..MaxTotal]
  OBVIOUS
<1> DEFINE D == 0..MaxTotal
<1> HIDE DEF D
<1>3. depthHistory \in Seq(D) /\ Len(depthHistory) = n
  <2>1. depthHistory \in [1..n -> D] /\ n \in Nat
    BY <1>1, <1>2 DEF D
  <2> QED
    BY <2>1, LenOfFunction
<1>4. total \in D
  BY DEF D
<1>5. CASE n >= HistoryLen
  <2>1. n = HistoryLen /\ depthHistory # <<>>
    BY <1>1, <1>2, <1>3, <1>5
  <2>2. Tail(depthHistory) \in Seq(D) /\ Len(Tail(depthHistory)) = n - 1
    BY <1>3, <2>1
  <2>3. /\ Append(Tail(depthHistory), total) \in Seq(D)
        /\ Len(Append(Tail(depthHistory), total)) = n
    BY <1>1, <1>2, <1>4, <2>1, <2>2
  <2>4. Remember(total) \in [1..n -> D]
    BY <1>3, <1>5, <2>3, LenProperties DEF Remember
  <2> QED
    BY <2>4 DEF D
<1>6. CASE ~(n >= HistoryLen)
  <2>1. /\ Append(depthHistory, total) \in Seq(D)
        /\ Len(Append(depthHistory, total)) = n + 1
    BY <1>3, <1>4
  <2>2. n + 1 \in 0..HistoryLen
    BY <1>1, <1>2, <1>6
  <2>3. Remember(total) \in [1..(n + 1) -> D]
    BY <1>3, <1>6, <2>1, LenProperties DEF Remember
  <2> QED
    BY <2>2, <2>3 DEF D
<1> QED
  BY <1>5, <1>6

\* What an answer makes of the dashboard.
LEMMA ShownStats ==
    ASSUME DashInv, NEW s \in Slots, UpdateStats(s)
    PROVE  /\ depthHistory' \in UNION {[1..n -> 0..MaxTotal] : n \in 0..HistoryLen}
           /\ stats' \in Queues
           /\ prevEnqueued' \in 0..MaxTotal /\ prevEnqueued' <= Served + since
           /\ throughput' \in 0..MaxTotal
           /\ restarts = 0 => prevEnqueued' >= Served /\ throughput' \in 0..since
<1> USE DEF DashInv
<1> DEFINE q == fetch[s].snap
           e == aggregateTotals(q).enqueued
<1>0. /\ Served \in Nat /\ MaxTotal \in Nat /\ since \in Nat /\ Served + since <= MaxTotal
      /\ prevEnqueued \in 0..MaxTotal /\ throughput \in 0..MaxTotal
  BY DashboardAssumption DEF MaxTotal, TypeOK
<1>1. Sound(q)
  BY DEF UpdateStats
<1>2. /\ aggregateTotals(q).depth \in 0..MaxTotal /\ e \in 0..MaxTotal
      /\ e <= Served + since /\ (restarts = 0 => e >= Served)
  BY <1>1, SoundTotals DEF Sound
<1>3. /\ depthHistory' = Remember(aggregateTotals(q).depth)
      /\ throughput' = Rate(e) /\ prevEnqueued' = e /\ stats' = q
  BY DEF UpdateStats
<1> HIDE DEF e
<1>4. depthHistory' \in UNION {[1..n -> 0..MaxTotal] : n \in 0..HistoryLen}
  BY <1>2, <1>3, HistoryBounded DEF TypeOK
<1>5. throughput' = throughput \/ (stats # NoStats /\ e >= prevEnqueued /\ throughput' = e - prevEnqueued)
  BY <1>3 DEF Rate
<1>6. throughput' \in 0..MaxTotal
  BY <1>0, <1>2, <1>5
<1>7. ASSUME restarts = 0 PROVE throughput' \in 0..since
  BY <1>0, <1>2, <1>5, <1>7 DEF RateSeenLive
<1>8. stats' \in Queues
  BY <1>1, <1>3 DEF Sound
<1> QED
  BY <1>2, <1>3, <1>4, <1>6, <1>7, <1>8

\* The fields of a fetch through every step.
LEMMA FetchTypes ==
    ASSUME DashInv, Spaced'
    PROVE  (fetch \in [Slots -> [at : {"free", "sent", "read", "failed"},
                                 age : 0..Timeout, snap : Queues \cup {NoStats}]])'
<1>1. Timeout \in Nat \ {0} /\ Queues' = Queues
  BY DashboardAssumption DEF Queues, MaxTotal
<1>2. \A a \in 0..(Timeout - 1) : a \in 0..Timeout
  BY <1>1
<1> QED
  BY <1>1, <1>2 DEF Spaced

\* Every step keeps the types.
LEMMA DashTypes == DashInv /\ [Next]_vars => TypeOK'
<1> SUFFICES ASSUME DashInv, [Next]_vars PROVE TypeOK'
  OBVIOUS
<1> DEFINE H == UNION {[1..n -> 0..MaxTotal] : n \in 0..HistoryLen}
           F == [Slots -> [at : {"free", "sent", "read", "failed"},
                           age : 0..Timeout, snap : Queues \cup {NoStats}]]
<1>1. /\ restarts \in 0..MaxRestarts /\ since \in 0..MaxEnqueued /\ failures \in 0..MaxFailures
      /\ timer \in 0..Interval /\ running \in BOOLEAN /\ fetchErr \in BOOLEAN
      /\ stats \in Queues \cup {NoStats}
      /\ prevEnqueued \in 0..MaxTotal /\ throughput \in 0..MaxTotal
      /\ depthHistory \in H
      /\ Interval \in Nat \ {0} /\ MaxRestarts \in Nat /\ MaxEnqueued \in Nat /\ MaxFailures \in Nat
  BY DashboardAssumption, Zenon DEF DashInv, TypeOK
<1>2. queues' \in Queues
  BY ServerSums DEF Sound, Queues, MaxTotal
<1>3. fetch' \in F
  <2>1. Spaced'
    BY SpacedStep DEF DashInv, Sound
  <2> QED
    BY <2>1, FetchTypes
<1> HIDE DEF H, F
<1>4. /\ restarts' \in 0..MaxRestarts /\ since' \in 0..MaxEnqueued /\ failures' \in 0..MaxFailures
      /\ timer' \in 0..Interval /\ running' \in BOOLEAN /\ fetchErr' \in BOOLEAN
      /\ stats' \in Queues \cup {NoStats}
      /\ prevEnqueued' \in 0..MaxTotal /\ throughput' \in 0..MaxTotal
      /\ depthHistory' \in H
  <2> USE <1>1 DEF env, shown
  <2>1. CASE \E k \in Keys : Enqueue(k) \/ Dequeue(k)
    BY <2>1 DEF Enqueue, Dequeue
  <2>2. ASSUME NEW s \in Slots, HandleStats(s) \/ FetchFails(s) \/ UpdateError(s)
        PROVE  /\ restarts' \in 0..MaxRestarts /\ since' \in 0..MaxEnqueued
               /\ failures' \in 0..MaxFailures
               /\ timer' \in 0..Interval /\ running' \in BOOLEAN /\ fetchErr' \in BOOLEAN
               /\ stats' \in Queues \cup {NoStats}
               /\ prevEnqueued' \in 0..MaxTotal /\ throughput' \in 0..MaxTotal
               /\ depthHistory' \in H
    <3>1. CASE HandleStats(s)
      BY <3>1 DEF HandleStats
    <3>2. CASE FetchFails(s)
      <4>1. failures < MaxFailures /\ failures' = failures + 1
        BY <3>2 DEF FetchFails
      <4>2. UNCHANGED <<restarts, since, timer, running, shown>>
        BY <3>2 DEF FetchFails
      <4> QED
        BY <4>1, <4>2
    <3>3. CASE UpdateError(s)
      <4>1. fetchErr' = TRUE
        BY <3>3 DEF UpdateError
      <4>2. UNCHANGED <<env, timer, running, stats, depthHistory, prevEnqueued, throughput>>
        BY <3>3 DEF UpdateError
      <4> QED
        BY <4>1, <4>2
    <3> QED
      BY <2>2, <3>1, <3>2, <3>3
  <2>3. ASSUME NEW s \in Slots, UpdateStats(s)
        PROVE  /\ restarts' \in 0..MaxRestarts /\ since' \in 0..MaxEnqueued
               /\ failures' \in 0..MaxFailures
               /\ timer' \in 0..Interval /\ running' \in BOOLEAN /\ fetchErr' \in BOOLEAN
               /\ stats' \in Queues \cup {NoStats}
               /\ prevEnqueued' \in 0..MaxTotal /\ throughput' \in 0..MaxTotal
               /\ depthHistory' \in H
    <3>1. /\ depthHistory' \in H /\ stats' \in Queues
          /\ prevEnqueued' \in 0..MaxTotal /\ throughput' \in 0..MaxTotal
      BY <2>3, ShownStats DEF H
    <3> QED
      BY <2>3, <3>1 DEF UpdateStats
  <2>4. CASE Restart \/ Second \/ UpdateTick \/ UpdateRefresh \/ UpdateQuit \/ UNCHANGED vars
    <3>1. CASE Restart
      <4>1. restarts < MaxRestarts /\ restarts' = restarts + 1
        BY <3>1 DEF Restart
      <4>2. UNCHANGED <<since, failures, timer, running, shown>>
        BY <3>1 DEF Restart
      <4> QED
        BY <4>1, <4>2
    <3>2. CASE Second
      <4>1. timer' = IF running THEN timer - 1 ELSE timer
        BY <3>2 DEF Second
      <4>2. (running => timer > 0) /\ UNCHANGED <<restarts, since, failures, running, shown>>
        BY <3>2 DEF Second
      <4> QED
        BY <4>1, <4>2
    <3>3. CASE UpdateTick
      BY <3>3 DEF UpdateTick
    <3>4. CASE UpdateRefresh
      BY <3>4 DEF UpdateRefresh
    <3>5. CASE UpdateQuit
      BY <3>5 DEF UpdateQuit
    <3>6. CASE UNCHANGED vars
      BY <3>6 DEF vars
    <3> QED
      BY <2>4, <3>1, <3>2, <3>3, <3>4, <3>5, <3>6
  <2> QED
    BY <2>1, <2>2, <2>3, <2>4 DEF Next, Update
<1> QED
  BY <1>2, <1>3, <1>4, Zenon DEF TypeOK, H, F


\* Each counter stays or goes up by one.
LEMMA CountersStep ==
    ASSUME [Next]_vars
    PROVE  since' \in {since, since + 1} /\ restarts' \in {restarts, restarts + 1}
<1>1. ASSUME NEW k \in Keys, Enqueue(k) \/ Dequeue(k)
      PROVE  since' \in {since, since + 1} /\ restarts' \in {restarts, restarts + 1}
  BY <1>1 DEF Enqueue, Dequeue, env
<1>2. ASSUME NEW s \in Slots, HandleStats(s) \/ FetchFails(s) \/ Update(s)
      PROVE  since' = since /\ restarts' = restarts
  BY <1>2 DEF HandleStats, FetchFails, Update, UpdateError, UpdateStats, env
<1>3. CASE Restart
  BY <1>3 DEF Restart
<1>4. CASE Second \/ UpdateTick \/ UpdateRefresh \/ UpdateQuit \/ UNCHANGED vars
  BY <1>4 DEF Second, UpdateTick, UpdateRefresh, UpdateQuit, vars, env
<1> QED
  BY <1>1, <1>2, <1>3, <1>4 DEF Next

\* An answer that is there was there before, or is read from the server now.
LEMMA AnswersStep ==
    ASSUME Spaced, [Next]_vars, NEW s \in Slots, fetch'[s].at = "read"
    PROVE  \/ fetch[s].at = "read" /\ fetch'[s].snap = fetch[s].snap
           \/ fetch'[s].snap = queues
<1>1. fetch \in [Slots -> [at : {"free", "sent", "read", "failed"}, age : 0..(Timeout - 1),
                           snap : Queues \cup {NoStats}]]
  BY DEF Spaced
<1> DEFINE Kept == fetch[s].at = "read" /\ fetch'[s].snap = fetch[s].snap
<1>2. CASE fetch' = fetch
  BY <1>2
<1>3. ASSUME NEW t \in Slots, HandleStats(t) PROVE Kept \/ fetch'[s].snap = queues
  BY <1>1, <1>3 DEF HandleStats
<1>4. ASSUME NEW t \in Slots, FetchFails(t) \/ Update(t) PROVE Kept
  BY <1>1, <1>4 DEF FetchFails, Update, UpdateError, UpdateStats, Free
<1>5. CASE Restart
  BY <1>1, <1>5 DEF Restart, Free
<1>6. CASE Second
  <2>1. fetch'[s] = Older(fetch[s])
    BY <1>6 DEF Second
  <2>2. fetch[s] \in [at : {"free", "sent", "read", "failed"}, age : 0..(Timeout - 1),
                      snap : Queues \cup {NoStats}]
    BY <1>1
  <2> QED
    BY <2>1, <2>2 DEF Older, Free
<1>7. CASE UpdateTick \/ UpdateRefresh
  <2>1. PICK t : fetch' = [fetch EXCEPT ![t] = Sent]
    BY <1>7 DEF UpdateTick, UpdateRefresh, fetchCmd
  <2> QED
    BY <1>1, <2>1 DEF Sent, Free
<1>8. CASE UpdateQuit
  BY <1>8 DEF UpdateQuit, Free
<1>9. ASSUME NEW k \in Keys, Enqueue(k) \/ Dequeue(k) PROVE fetch' = fetch
  BY <1>9 DEF Enqueue, Dequeue
<1> HIDE DEF Kept
<1>10. CASE UNCHANGED vars
  BY <1>2, <1>10 DEF vars, Kept
<1> QED
  BY <1>2, <1>3, <1>4, <1>5, <1>6, <1>7, <1>8, <1>9, <1>10 DEF Next, Kept

\* The answers on their way stay sound.
LEMMA AnswersSound ==
    ASSUME DashInv, [Next]_vars
    PROVE  (\A s \in Slots : fetch[s].at = "read" => Sound(fetch[s].snap))'
<1>1. since' \in {since, since + 1} /\ restarts' \in {restarts, restarts + 1}
  BY CountersStep
<1> SUFFICES ASSUME NEW s \in Slots, fetch'[s].at = "read"
             PROVE  Sound(fetch[s].snap)'
  OBVIOUS
<1>2. PICK q : q = fetch'[s].snap
  OBVIOUS
<1>3. Sound(q)
  BY <1>2, AnswersStep DEF DashInv
<1>4. Sound(q)'
  BY <1>1, <1>3, SoundStays DEF DashInv
<1> QED
  BY <1>2, <1>4 DEF Sound, Total, Sum, Sums

\* What is shown comes from sound stats.
LEMMA ShownStep ==
    ASSUME DashInv, [Next]_vars
    PROVE  /\ (prevEnqueued <= Served + since)'
           /\ (restarts = 0 /\ stats # NoStats => prevEnqueued >= Served)'
           /\ RateSeenLive'
<1>0. /\ Served \in Nat /\ since \in Nat /\ restarts \in Nat
      /\ prevEnqueued \in Nat /\ throughput \in Nat
  BY DashboardAssumption DEF DashInv, TypeOK, MaxTotal
<1>1. since' \in {since, since + 1} /\ restarts' \in {restarts, restarts + 1}
  BY CountersStep
<1>2. ASSUME NEW s \in Slots, UpdateStats(s)
      PROVE  /\ (prevEnqueued <= Served + since)'
             /\ (restarts = 0 /\ stats # NoStats => prevEnqueued >= Served)'
             /\ RateSeenLive'
  <2>1. since' = since /\ restarts' = restarts
    BY <1>2 DEF UpdateStats, env
  <2>2. /\ prevEnqueued' <= Served + since
        /\ restarts = 0 => prevEnqueued' >= Served /\ throughput' \in 0..since
    BY <1>2, ShownStats
  <2> QED
    BY <2>1, <2>2 DEF RateSeenLive
<1>3. CASE UNCHANGED <<stats, prevEnqueued, throughput>>
  <2>1. /\ prevEnqueued <= Served + since
        /\ restarts = 0 /\ stats # NoStats => prevEnqueued >= Served
        /\ restarts = 0 => throughput \in 0..since
    BY DEF DashInv, RateSeenLive
  <2>2. restarts' = 0 => restarts = 0
    BY <1>0, <1>1
  <2>3. since' \in Nat /\ since' >= since
    BY <1>0, <1>1
  <2>4. prevEnqueued' = prevEnqueued /\ throughput' = throughput /\ stats' = stats
    BY <1>3
  <2>5. prevEnqueued' <= Served + since'
    <3>1. prevEnqueued <= Served + since
      BY <2>1
    <3> QED
      BY <1>0, <2>3, <2>4, <3>1, MoreRoom
  <2>6. restarts' = 0 => throughput' \in 0..since'
    BY <1>0, <2>1, <2>2, <2>3, <2>4
  <2> QED
    BY <2>1, <2>2, <2>4, <2>5, <2>6 DEF RateSeenLive
<1>4. ASSUME NEW k \in Keys, Enqueue(k) \/ Dequeue(k)
      PROVE  UNCHANGED <<stats, prevEnqueued, throughput>>
  BY <1>4 DEF Enqueue, Dequeue, shown
<1>5. ASSUME NEW s \in Slots, HandleStats(s) \/ FetchFails(s) \/ UpdateError(s)
      PROVE  UNCHANGED <<stats, prevEnqueued, throughput>>
  BY <1>5 DEF HandleStats, FetchFails, UpdateError, shown
<1>6. CASE Restart \/ Second \/ UpdateTick \/ UpdateRefresh \/ UpdateQuit \/ UNCHANGED vars
  BY <1>3, <1>6 DEF Restart, Second, UpdateTick, UpdateRefresh, UpdateQuit, vars, shown
<1> QED
  BY <1>2, <1>3, <1>4, <1>5, <1>6 DEF Next, Update

\* Every step keeps the invariant.
LEMMA DashInvStep == DashInv /\ [Next]_vars => DashInv'
<1> SUFFICES ASSUME DashInv, [Next]_vars PROVE DashInv'
  OBVIOUS
<1>1. Spaced'
  BY SpacedStep DEF DashInv, Sound
<1>2. TypeOK'
  BY DashTypes
<1> QED
  BY <1>1, <1>2, ServerSums, AnswersSound, ShownStep, Zenon DEF DashInv

-----------------------------------------------------------------------------
(* The theorems.                                                            *)

\* The invariant the others follow from: internal/tui/tui.go starts a fetch a tick
\* and takes every answer, however late, and its HTTP client gives up in time.
THEOREM DashInvariant == Spec => []DashInv
<1> QED
  BY DashInvInit, DashInvStep, PTL DEF Spec

\* Every variable keeps to its type: the history never outgrows the sparkline's
\* ring, no total of any answer exceeds what was enqueued, no fetch its timeout.
THEOREM DashTypeCorrect == Spec => []TypeOK
<1>1. DashInv => TypeOK
  BY DEF DashInv
<1> QED
  BY <1>1, DashInvariant, PTL

\* However slow the server, the fetches that ticks made and that still run are no
\* more than the timeout has intervals, and one: tickMsg starts one every
\* refreshInterval, and the client's Timeout ends it.
THEOREM DashFetchesBounded == Spec => []FetchesBounded
<1>1. DashInv => FetchesBounded
  BY SpacedAreFew DEF DashInv
<1> QED
  BY <1>1, DashInvariant, PTL

\* The rate shown never counts what was enqueued before the dashboard started, and
\* is never negative, whatever the order of the answers to statsMsg.
THEOREM DashRateSeenLive == Spec => []RateSeenLive
<1>1. DashInv => RateSeenLive
  BY DEF DashInv
<1> QED
  BY <1>1, DashInvariant, PTL
=============================================================================
