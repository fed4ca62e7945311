---------------------------- MODULE RateLimitProofs ----------------------------
(***************************************************************************)
(* What holds of the rate limit for any rate, burst, cost, TTL and number  *)
(* of subjects.                                                            *)
(***************************************************************************)
EXTENDS RateLimit, FiniteSetTheorems, TLAPS

RateTypes ==
  /\ inRedis \in BOOLEAN /\ second \in Seconds
  /\ bucket \in [Principals -> Buckets \union {NoBucket}]
  /\ \A p \in Principals : bucket[p] # NoBucket => bucket[p].updated <= second
  /\ admitted \in [Principals -> [Seconds -> Nat]]
  /\ lateness \in [Principals -> [Seconds -> Nat]]
  /\ promised \in [Principals -> Nat]

\* By the time that p was told, its bucket has a request's worth of tokens.
PromiseKept ==
  \A p \in Principals : promised[p] # 0 /\ bucket[p] # NoBucket =>
    bucket[p].units + (promised[p] - bucket[p].updated) * Rate >= Cost

RateInv == RateTypes /\ Cardinality(Known(bucket)) <= MaxSubjects /\ PromiseKept

-------------------------------------------------------------------------------
(* Arithmetic                                                              *)

LEMMA Products ==
  ASSUME NEW a \in Nat, NEW b \in Nat, NEW c \in Nat, a <= b
  PROVE  a * c \in Nat /\ a * c <= b * c
  OBVIOUS

LEMMA RoundedUp ==
  ASSUME NEW a \in Nat, NEW r \in Nat \ {0}
  PROVE  a \div r \in Nat /\ (a \div r) * r > a - r
  OBVIOUS

LEMMA CapacityIsEnough == Capacity \in Nat /\ Capacity >= Cost /\ Cost \in Nat \ {0} /\ Rate \in Nat \ {0}
<1>1. Burst \in Nat /\ Burst >= 1 /\ Cost \in Nat \ {0} /\ Rate \in Nat \ {0}
  BY RateAssumption
<1>2. 1 * Cost <= Burst * Cost /\ Burst * Cost \in Nat
  BY <1>1, Products
<1> QED
  BY <1>1, <1>2 DEF Capacity

\* Whoever waits as long as it is told has a request's worth.
LEMMA WaitIsEnough ==
  ASSUME NEW units \in 0..Capacity, units < Cost
  PROVE  RetryAfter(units) \in Nat /\ units + RetryAfter(units) * Rate >= Cost
<1> DEFINE a == Cost - units + Rate - 1
<1>1. a \in Nat /\ Rate \in Nat \ {0} /\ Cost \in Nat
  BY CapacityIsEnough
<1>2. RetryAfter(units) = a \div Rate
  BY DEF RetryAfter
<1> HIDE DEF a
<1>3. RetryAfter(units) \in Nat /\ RetryAfter(units) * Rate > a - Rate
  BY <1>1, <1>2, RoundedUp
<1>4. RetryAfter(units) * Rate \in Nat
  BY <1>1, <1>3
<1> QED
  BY <1>1, <1>3, <1>4 DEF a

-------------------------------------------------------------------------------
(* One request                                                             *)

LEMMA SecondTypes ==
  ASSUME RateInv
  PROVE  /\ second \in Nat /\ LastSecond \in Nat /\ second <= LastSecond
         /\ \A p \in Principals : \A t \in ClockReads(p) : t \in Nat /\ t \in Seconds /\ t <= second
  BY RateAssumption DEF RateInv, RateTypes, Seconds, ClockReads

LEMMA RetainedTypes ==
  ASSUME RateInv, NEW read \in Nat
  PROVE  /\ Retained(read) \in [Principals -> Buckets \union {NoBucket}]
         /\ \A p \in Principals : Retained(read)[p] \in {bucket[p], NoBucket}
         /\ Known(Retained(read)) \subseteq Known(bucket)
  BY DEF RateInv, RateTypes, Retained, Known

LEMMA BucketTypes ==
  /\ NoBucket \notin Buckets
  /\ \A b \in Buckets : b.units \in 0..Capacity /\ b.updated \in Seconds /\ b.updated \in Nat
  BY RateAssumption, CapacityIsEnough DEF Buckets, Seconds

\* A refill brings what the rate brings in the time that has passed, if any has,
\* and fills the bucket at most.
LEMMA Refill ==
  ASSUME NEW b \in Buckets, NEW read \in Nat
  PROVE  /\ Refilled(b, read) \in 0..Capacity
         /\ Refilled(b, read) >= b.units
         /\ read >= b.updated =>
              Refilled(b, read) = IF b.units + (read - b.updated) * Rate < Capacity
                                  THEN b.units + (read - b.updated) * Rate ELSE Capacity
         /\ read < b.updated => Refilled(b, read) = b.units
<1>1. /\ b.units \in 0..Capacity /\ b.updated \in Nat /\ Rate \in Nat /\ Capacity \in Nat
      /\ b # NoBucket
  BY BucketTypes, CapacityIsEnough
<1> DEFINE elapsed == IF read < b.updated THEN 0 ELSE read - b.updated
<1>2. elapsed \in Nat
  BY <1>1
<1>3. Refilled(b, read) = IF b.units + elapsed * Rate < Capacity THEN b.units + elapsed * Rate
                          ELSE Capacity
  BY <1>1 DEF Refilled
<1>4. read < b.updated => elapsed = 0
  OBVIOUS
<1>5. read >= b.updated => elapsed = read - b.updated
  BY <1>1
<1> HIDE DEF elapsed
<1>6. elapsed * Rate \in Nat /\ (elapsed = 0 => elapsed * Rate = 0)
  BY <1>1, <1>2, Products
<1> QED
  BY <1>1, <1>2, <1>3, <1>4, <1>5, <1>6

LEMMA RefillTypes ==
  ASSUME RateInv, NEW p \in Principals, NEW read \in Nat
  PROVE  Refilled(Retained(read)[p], read) \in 0..Capacity
<1>1. CASE Retained(read)[p] = NoBucket
  BY <1>1, CapacityIsEnough DEF Refilled
<1>2. CASE Retained(read)[p] # NoBucket
  <2>1. Retained(read)[p] \in Buckets
    BY <1>2, RetainedTypes
  <2> QED
    BY <2>1, Refill
<1> QED
  BY <1>1, <1>2

\* The request of a subject that has waited finds enough tokens.
LEMMA PromisePays ==
  ASSUME RateInv, NEW p \in Principals, NEW read \in Nat,
         promised[p] # 0, read >= promised[p]
  PROVE  Refilled(Retained(read)[p], read) >= Cost
<1>1. CASE Retained(read)[p] = NoBucket
  BY <1>1, CapacityIsEnough DEF Refilled
<1>2. CASE Retained(read)[p] # NoBucket
  <2> DEFINE b == Retained(read)[p]
  <2>1. b = bucket[p] /\ b \in Buckets
    BY <1>2, RetainedTypes DEF RateInv, RateTypes
  <2>2. /\ b.units \in Nat /\ b.updated \in Nat /\ promised[p] \in Nat
        /\ Rate \in Nat \ {0} /\ Cost \in Nat /\ Capacity \in Nat /\ Capacity >= Cost
    BY <2>1, BucketTypes, CapacityIsEnough DEF RateInv, RateTypes
  <2>3. b.units + (promised[p] - b.updated) * Rate >= Cost
    BY <1>2, <2>1 DEF RateInv, PromiseKept
  <2> HIDE DEF b
  <2>4. (promised[p] - b.updated) * Rate <= (read - b.updated) * Rate
    BY <2>2
  <2>5. b.units + (read - b.updated) * Rate >= Cost
    BY <2>2, <2>3, <2>4
  <2>6. CASE read >= b.updated
    BY <2>1, <2>2, <2>5, <2>6, Refill DEF b
  <2>7. CASE read < b.updated
    <3>1. (read - b.updated) * Rate <= 0
      BY <2>2, <2>7
    <3>2. b.units >= Cost
      BY <2>2, <2>5, <3>1
    <3>3. Refilled(b, read) >= b.units /\ Refilled(b, read) \in 0..Capacity
      BY <2>1, Refill DEF b
    <3> QED
      BY <2>2, <3>2, <3>3 DEF b
  <2> QED
    BY <2>2, <2>6, <2>7
<1> QED
  BY <1>1, <1>2

\* p's request counted with the time `read`: it leaves the other buckets as they
\* were, or forgotten, and its own with these units as of that time.
Counted(p, read, units) ==
  /\ read \in Nat /\ read \in Seconds /\ read <= second
  /\ bucket' = [Retained(read) EXCEPT ![p] = [units |-> units, updated |-> read]]
  /\ [units |-> units, updated |-> read] \in Buckets
  /\ ~AtCapacityFor(p, read)
  /\ lateness' = [lateness EXCEPT ![p] = More(@, second - read)]
  /\ \/ /\ promised' = [promised EXCEPT ![p] = 0]
        /\ Refilled(Retained(read)[p], read) = units + Cost
        /\ admitted' = [admitted EXCEPT ![p] = More(@, 1)]
     \/ /\ units = Refilled(Retained(read)[p], read) /\ units < Cost
        /\ promised' = [promised EXCEPT ![p] = second + RetryAfter(units)]
        /\ UNCHANGED admitted
  /\ UNCHANGED <<inRedis, second>>

LEMMA ConsumeCounts ==
  ASSUME RateInv, NEW p \in Principals, Consume(p)
  PROVE  \E read \in Nat, units \in 0..Capacity : Counted(p, read, units)
<1>1. PICK read \in ClockReads(p) :
        /\ ~AtCapacityFor(p, read)
        /\ LET units == Refilled(Retained(read)[p], read)
           IN Allow(p, units, read) \/ Limit(p, units, read)
        /\ lateness' = [lateness EXCEPT ![p] = More(@, second - read)]
        /\ UNCHANGED <<inRedis, second>>
  BY DEF Consume
<1>2. read \in Nat /\ read \in Seconds /\ read <= second
  BY SecondTypes
<1> DEFINE units == Refilled(Retained(read)[p], read)
<1>3. units \in 0..Capacity
  BY <1>2, RefillTypes
<1>4. Allow(p, units, read) \/ Limit(p, units, read)
  BY <1>1
<1>5. \A n \in 0..Capacity : [units |-> n, updated |-> read] \in Buckets
  BY <1>2 DEF Buckets
<1> HIDE DEF units
<1>6. CASE Allow(p, units, read)
  <2>1. units - Cost \in 0..Capacity /\ units = (units - Cost) + Cost
    BY <1>3, <1>6, CapacityIsEnough DEF Allow
  <2> QED
    BY <1>1, <1>2, <1>5, <1>6, <2>1 DEF Allow, Counted, units
<1>7. CASE Limit(p, units, read)
  BY <1>1, <1>2, <1>3, <1>5, <1>7 DEF Limit, Counted, units
<1> QED
  BY <1>4, <1>6, <1>7

LEMMA ConsumeCapacity ==
  ASSUME RateInv, NEW p \in Principals, Consume(p)
  PROVE  Cardinality(Known(bucket)') <= MaxSubjects
<1>1. PICK read \in Nat, units \in 0..Capacity :
        /\ bucket' = [Retained(read) EXCEPT ![p] = [units |-> units, updated |-> read]]
        /\ [units |-> units, updated |-> read] \in Buckets
        /\ ~AtCapacityFor(p, read)
  BY ConsumeCounts DEF Counted
<1>2. [units |-> units, updated |-> read] # NoBucket
  BY <1>1, BucketTypes
<1>3. Known(bucket)' = Known(Retained(read)) \union {p}
  BY <1>1, <1>2, RetainedTypes DEF Known
<1>4. /\ IsFiniteSet(Known(bucket)) /\ IsFiniteSet(Known(Retained(read)))
      /\ Cardinality(Known(Retained(read))) <= Cardinality(Known(bucket))
      /\ Cardinality(Known(Retained(read))) \in Nat /\ Cardinality(Known(bucket)) \in Nat
  <2>1. IsFiniteSet(Known(bucket))
    BY RateAssumption, FS_Subset DEF Known
  <2> QED
    BY <2>1, RetainedTypes, FS_Subset, FS_CardinalityType
<1>5. MaxSubjects \in Nat /\ Cardinality(Known(bucket)) <= MaxSubjects
  BY RateAssumption DEF RateInv
<1>6. CASE p \in Known(Retained(read))
  <2>1. Known(bucket)' = Known(Retained(read))
    BY <1>3, <1>6
  <2> DEFINE m == Cardinality(Known(Retained(read)))  n == Cardinality(Known(bucket))
  <2>2. Cardinality(Known(bucket)') = m
    BY <2>1
  <2>3. m <= n /\ n <= MaxSubjects /\ m \in Nat /\ n \in Nat /\ MaxSubjects \in Nat
    BY <1>4, <1>5
  <2> HIDE DEF m, n
  <2> QED
    BY <2>2, <2>3
<1>7. CASE p \notin Known(Retained(read))
  <2>1. Cardinality(Known(Retained(read))) < MaxSubjects
    BY <1>1, <1>4, <1>5, <1>7 DEF AtCapacityFor, Known
  <2>2. Cardinality(Known(Retained(read)) \union {p}) = Cardinality(Known(Retained(read))) + 1
    BY <1>4, <1>7, FS_AddElement
  <2> QED
    BY <1>3, <1>4, <1>5, <2>1, <2>2
<1> QED
  BY <1>6, <1>7

\* More counts for every second up to now, and for none after.
LEMMA MoreTypes ==
  ASSUME NEW since \in [Seconds -> Nat], NEW n \in Nat
  PROVE  /\ More(since, n) \in [Seconds -> Nat]
         /\ \A t \in Seconds : More(since, n)[t] = IF t <= second THEN since[t] + n ELSE since[t]
  BY DEF More

LEMMA ConsumeStep == ASSUME RateInv, NEW p \in Principals, Consume(p) PROVE RateInv'
<1>1. PICK read \in Nat, units \in 0..Capacity :
        /\ read \in Seconds /\ read <= second
        /\ bucket' = [Retained(read) EXCEPT ![p] = [units |-> units, updated |-> read]]
        /\ [units |-> units, updated |-> read] \in Buckets
        /\ lateness' = [lateness EXCEPT ![p] = More(@, second - read)]
        /\ \/ promised' = [promised EXCEPT ![p] = 0] /\ admitted' = [admitted EXCEPT ![p] = More(@, 1)]
           \/ /\ units < Cost /\ UNCHANGED admitted
              /\ promised' = [promised EXCEPT ![p] = second + RetryAfter(units)]
        /\ UNCHANGED <<inRedis, second>>
  BY ConsumeCounts DEF Counted
<1>2. second \in Nat /\ second - read \in Nat
  BY <1>1, SecondTypes
<1>3. /\ admitted' \in [Principals -> [Seconds -> Nat]]
      /\ lateness' \in [Principals -> [Seconds -> Nat]]
  <2>1. /\ admitted \in [Principals -> [Seconds -> Nat]] /\ admitted[p] \in [Seconds -> Nat]
        /\ lateness \in [Principals -> [Seconds -> Nat]] /\ lateness[p] \in [Seconds -> Nat]
    BY DEF RateInv, RateTypes
  <2>2. /\ More(admitted[p], 1) \in [Seconds -> Nat]
        /\ More(lateness[p], second - read) \in [Seconds -> Nat]
    BY <1>2, <2>1, MoreTypes
  <2>3. admitted' = [admitted EXCEPT ![p] = More(admitted[p], 1)] \/ admitted' = admitted
    BY <1>1
  <2>4. lateness' = [lateness EXCEPT ![p] = More(lateness[p], second - read)]
    BY <1>1
  <2> QED
    BY <2>1, <2>2, <2>3, <2>4
<1>4. units < Cost => RetryAfter(units) \in Nat /\ units + RetryAfter(units) * Rate >= Cost
  BY WaitIsEnough
<1>5. promised' \in [Principals -> Nat]
  BY <1>1, <1>2, <1>4 DEF RateInv, RateTypes
<1>6. RateTypes'
  BY <1>1, <1>3, <1>5, RetainedTypes DEF RateInv, RateTypes
<1>7. ASSUME NEW q \in Principals, promised'[q] # 0, bucket'[q] # NoBucket
      PROVE  bucket'[q].units + (promised'[q] - bucket'[q].updated) * Rate >= Cost
  <2>1. CASE q = p
    <3>1. /\ bucket'[p] = [units |-> units, updated |-> read]
          /\ units < Cost /\ promised'[p] = second + RetryAfter(units)
      BY <1>1, <1>7, <2>1, RetainedTypes DEF RateInv, RateTypes
    <3>2. RetryAfter(units) \in Nat /\ Rate \in Nat /\ Cost \in Nat /\ units \in Nat
          /\ units + RetryAfter(units) * Rate >= Cost
      BY <1>4, <3>1, CapacityIsEnough
    <3>3. promised'[p] - read = RetryAfter(units) + (second - read)
      BY <1>2, <3>1, <3>2
    <3>4. RetryAfter(units) * Rate <= (promised'[p] - read) * Rate
          /\ RetryAfter(units) * Rate \in Nat /\ (promised'[p] - read) * Rate \in Nat
      <4>1. RetryAfter(units) <= RetryAfter(units) + (second - read)
            /\ RetryAfter(units) + (second - read) \in Nat
        BY <1>2, <3>2
      <4> HIDE DEF RetryAfter
      <4> QED
        BY <3>2, <3>3, <4>1, Products
    <3> QED
      BY <2>1, <3>1, <3>2, <3>4
  <2>2. CASE q # p
    <3>1. bucket'[q] = bucket[q] /\ promised'[q] = promised[q]
      BY <1>1, <1>7, <2>2, RetainedTypes DEF RateInv, RateTypes
    <3> QED
      BY <1>7, <3>1 DEF RateInv, PromiseKept
  <2> QED
    BY <2>1, <2>2
<1> QED
  BY <1>6, <1>7, ConsumeCapacity DEF RateInv, PromiseKept

LEMMA TurnAwayStep == ASSUME RateInv, NEW p \in Principals, TurnAway(p) PROVE RateInv'
<1>1. PICK read \in Nat :
        bucket' = Retained(read) /\ UNCHANGED <<inRedis, second, admitted, lateness, promised>>
  BY SecondTypes DEF TurnAway
<1>2. RateTypes'
  BY <1>1, RetainedTypes DEF RateInv, RateTypes
<1>3. Cardinality(Known(bucket)') <= MaxSubjects
  <2>1. IsFiniteSet(Known(bucket))
    BY RateAssumption, FS_Subset DEF Known
  <2>2. /\ Cardinality(Known(Retained(read))) <= Cardinality(Known(bucket))
        /\ Cardinality(Known(Retained(read))) \in Nat /\ Cardinality(Known(bucket)) \in Nat
    BY <2>1, RetainedTypes, FS_Subset, FS_CardinalityType
  <2>3. Known(bucket)' = Known(Retained(read))
    BY <1>1 DEF Known
  <2> QED
    BY <2>2, <2>3, RateAssumption DEF RateInv
<1>4. PromiseKept'
  BY <1>1, RetainedTypes DEF RateInv, PromiseKept
<1> QED
  BY <1>2, <1>3, <1>4 DEF RateInv

LEMMA InitRate == RateInit => RateInv
<1> SUFFICES ASSUME RateInit PROVE RateInv
  OBVIOUS
<1>1. RateTypes /\ PromiseKept
  BY RateAssumption DEF RateInit, RateTypes, PromiseKept, Seconds
<1>2. Known(bucket) = {}
  BY DEF RateInit, Known
<1> QED
  BY <1>1, <1>2, FS_EmptySet, RateAssumption DEF RateInv

LEMMA NextRate == ASSUME RateInv, [RateNext]_rateVars PROVE RateInv'
<1>1. CASE NextSecond
  <2>1. /\ UNCHANGED <<inRedis, bucket, admitted, lateness, promised>> /\ second' = second + 1
        /\ second < LastSecond
    BY <1>1 DEF NextSecond
  <2>2. RateTypes'
    <3>1. second' \in Seconds /\ second \in Nat
      BY <2>1, SecondTypes DEF Seconds
    <3>2. ASSUME NEW p \in Principals, bucket[p] # NoBucket PROVE bucket[p].updated <= second'
      <4>1. bucket[p].updated \in Nat /\ bucket[p].updated <= second
        BY <3>2, BucketTypes DEF RateInv, RateTypes
      <4> QED
        BY <2>1, <3>1, <4>1
    <3> QED
      BY <2>1, <3>1, <3>2 DEF RateInv, RateTypes
  <2> QED
    BY <2>1, <2>2 DEF RateInv, Known, PromiseKept
<1>2. CASE UNCHANGED rateVars
  BY <1>2 DEF rateVars, RateInv, RateTypes, Known, PromiseKept
<1> QED
  BY <1>1, <1>2, ConsumeStep, TurnAwayStep DEF RateNext

LEMMA RateAlways == RateSpec => []RateInv
  BY InitRate, NextRate, PTL DEF RateSpec

\* No more than MaxSubjects buckets are remembered, in the map or in Redis,
\* however many subjects send requests (docs/operations.md:36).
THEOREM SubjectsBounded == RateSpec => []RateTypeOK
<1>1. RateInv => RateTypeOK
  BY DEF RateInv, RateTypes, RateTypeOK, Known
<1> QED
  BY RateAlways, <1>1, PTL

\* Whatever the rate, however the waits are rounded and however late requests
\* are counted: who waits as long as Retry-After said is not limited again
\* (remote.rs:123, redis_store.rs:207).
THEOREM WaitsAreHonest == RateSpec => RetryAfterIsHonest
<1>1. ASSUME RateInv, [RateNext]_rateVars, NEW p \in Principals,
             promised'[p] # promised[p], promised'[p] # 0, promised[p] # 0,
             ~(bucket'[p].updated < promised[p])
      PROVE  FALSE
  <2>1. PICK q \in Principals : Consume(q)
    BY <1>1 DEF RateNext, NextSecond, TurnAway, rateVars
  <2>2. PICK read \in Nat, units \in 0..Capacity : Counted(q, read, units)
    BY <1>1, <2>1, ConsumeCounts
  <2>3. p = q /\ units = Refilled(Retained(read)[p], read) /\ units < Cost
    BY <1>1, <2>2 DEF Counted, RateInv, RateTypes
  <2>4. read >= promised[p]
    <3>1. bucket'[p].updated = read /\ promised[p] \in Nat
      BY <1>1, <2>2, <2>3, RetainedTypes DEF Counted, RateInv, RateTypes
    <3> QED
      BY <1>1, <3>1
  <2>5. Refilled(Retained(read)[p], read) >= Cost /\ Cost \in Nat /\ Capacity \in Nat
    BY <1>1, <2>4, PromisePays, CapacityIsEnough
  <2> QED
    BY <2>3, <2>5
<1>2. ASSUME RateInv, [RateNext]_rateVars
      PROVE  \A p \in Principals :
               promised'[p] # promised[p] /\ promised'[p] # 0 =>
                 promised[p] = 0 \/ bucket'[p].updated < promised[p]
  BY <1>1, <1>2
<1> QED
  BY RateAlways, <1>2, PTL DEF RateSpec, RetryAfterIsHonest

-------------------------------------------------------------------------------
(* The rate                                                                *)

LEMMA AllowanceGrows ==
  ASSUME NEW m \in Nat, NEW n \in Nat, m <= n
  PROVE  /\ Allowance(m) \in Nat /\ Allowance(n) \in Nat
         /\ Allowance(m) >= Capacity
         /\ Allowance(n) >= Allowance(m) + (n - m) * Rate
         /\ m + BucketTtl <= n => Allowance(n) >= Allowance(m) + Capacity
<1> DEFINE a == m \div BucketTtl  b == n \div BucketTtl
<1>1. BucketTtl \in Nat \ {0} /\ Capacity \in Nat /\ Rate \in Nat
  BY RateAssumption, CapacityIsEnough
<1>2. a \in Nat /\ b \in Nat /\ a <= b /\ (m + BucketTtl <= n => a + 1 <= b)
  <2>1. a \in Nat /\ b \in Nat /\ a * BucketTtl <= m /\ (b + 1) * BucketTtl > n
    BY <1>1
  <2>2. (b + 1) * BucketTtl = b * BucketTtl + BucketTtl
    BY <1>1, <2>1
  <2>3. ASSUME b < a PROVE FALSE
    <3>1. (b + 1) * BucketTtl <= a * BucketTtl
      BY <1>1, <2>1, <2>3, Products
    <3> QED
      BY <2>1, <3>1, <1>1
  <2>4. ASSUME m + BucketTtl <= n, b <= a PROVE FALSE
    <3>1. b * BucketTtl <= a * BucketTtl
      BY <1>1, <2>1, <2>4, Products
    <3> QED
      BY <1>1, <2>1, <2>2, <2>4, <3>1
  <2> QED
    BY <2>1, <2>3, <2>4
<1>3. Allowance(m) = Capacity + Capacity * a + Rate * m
      /\ Allowance(n) = Capacity + Capacity * b + Rate * n
  BY <1>1, <1>2 DEF Allowance
<1> HIDE DEF a, b
<1>4. /\ a * Capacity \in Nat /\ a * Capacity <= b * Capacity /\ b * Capacity \in Nat
      /\ m * Rate \in Nat /\ n * Rate \in Nat /\ n * Rate = m * Rate + (n - m) * Rate
      /\ (n - m) * Rate \in Nat
      /\ a + 1 <= b => a * Capacity + Capacity <= b * Capacity
  <2>1. a + 1 <= b => (a + 1) * Capacity <= b * Capacity
    BY <1>1, <1>2, Products
  <2>2. (a + 1) * Capacity = a * Capacity + Capacity
    BY <1>1, <1>2
  <2> QED
    BY <1>1, <1>2, <2>1, <2>2, Products
<1>5. Capacity * a = a * Capacity /\ Capacity * b = b * Capacity /\ Rate * m = m * Rate /\ Rate * n = n * Rate
  BY <1>1, <1>2
<1> QED
  BY <1>1, <1>2, <1>3, <1>4, <1>5

Spent(p, from) == admitted[p][from] * Cost

\* How far since a second the time that p's bucket was counted with has come, if
\* what its requests were late is added: it never goes back, though the time
\* itself may.  Before p's first request since then it is negative.
Progress(p, b, from) == (b.updated - from) + lateness[p][from]

\* What p has spent since a second and what its bucket holds are within the
\* allowance, as of when the bucket was counted; a forgotten bucket is full.
Covers(p, b, from) ==
  IF b = NoBucket THEN Spent(p, from) + Capacity <= Allowance((second - from) + lateness[p][from])
  ELSE IF Progress(p, b, from) >= 0
       THEN /\ Spent(p, from) + b.units <= Allowance(Progress(p, b, from))
            /\ Progress(p, b, from) <= (second - from) + lateness[p][from]
       ELSE admitted[p][from] = 0 /\ lateness[p][from] = 0

\* Nothing is counted before its time.
Ahead ==
  \A p \in Principals : \A t \in Seconds : t > second => admitted[p][t] = 0 /\ lateness[p][t] = 0

Budget ==
  /\ Ahead
  /\ \A p \in Principals : \A from \in 0..second : Covers(p, bucket[p], from)

LEMMA SinceTypes ==
  ASSUME RateInv, NEW p \in Principals, NEW from \in 0..second
  PROVE  /\ from \in Nat /\ from \in Seconds /\ from <= second /\ second \in Nat
         /\ admitted[p][from] \in Nat /\ lateness[p][from] \in Nat
         /\ Spent(p, from) \in Nat /\ second - from \in Nat
         /\ (second - from) + lateness[p][from] \in Nat
<1>1. from \in Nat /\ from \in Seconds /\ from <= second /\ second \in Nat
  BY SecondTypes DEF Seconds
<1>2. admitted[p] \in [Seconds -> Nat] /\ lateness[p] \in [Seconds -> Nat]
  BY DEF RateInv, RateTypes
<1>3. admitted[p][from] \in Nat /\ lateness[p][from] \in Nat
  BY <1>1, <1>2
<1>4. Spent(p, from) \in Nat
  BY <1>3, CapacityIsEnough, Products DEF Spent
<1> QED
  BY <1>1, <1>3, <1>4

\* A bucket that is forgotten was idle for a TTL, which earns its burst.
LEMMA RetainedCovers ==
  ASSUME RateInv, Budget, NEW p \in Principals, NEW from \in 0..second,
         NEW read \in Nat, read <= second
  PROVE  Covers(p, Retained(read)[p], from)
<1>1. CASE Retained(read)[p] = bucket[p]
  BY <1>1 DEF Budget
<1>2. CASE Retained(read)[p] # bucket[p]
  <2> DEFINE u == bucket[p].updated  v == Progress(p, bucket[p], from)
             w == (second - from) + lateness[p][from]
  <2>1. Retained(read)[p] = NoBucket /\ bucket[p] # NoBucket /\ Forgotten(bucket[p], read)
    BY <1>2 DEF Retained
  <2>2. /\ u \in Nat /\ BucketTtl \in Nat /\ bucket[p].units \in Nat /\ Capacity \in Nat
    BY <2>1, BucketTypes, RateAssumption, CapacityIsEnough DEF RateInv, RateTypes
  <2>3. u + BucketTtl <= second
    BY <2>1, <2>2, SecondTypes DEF Forgotten
  <2>4. Covers(p, bucket[p], from)
    BY DEF Budget
  <2>5. w \in Nat /\ Allowance(w) \in Nat /\ Allowance(w) >= Capacity /\ Spent(p, from) \in Nat
    BY SinceTypes, AllowanceGrows
  <2>6. Spent(p, from) + Capacity <= Allowance(w)
    <3>1. CASE v >= 0
      <4>1. Spent(p, from) + bucket[p].units <= Allowance(v)
        BY <2>1, <2>4, <3>1 DEF Covers
      <4>2. v \in Nat /\ v + BucketTtl <= w /\ v <= w
        BY <2>2, <2>3, <3>1, SinceTypes DEF Progress
      <4>3. Allowance(w) >= Allowance(v) + Capacity /\ Allowance(v) \in Nat
        BY <2>5, <4>2, AllowanceGrows
      <4> HIDE DEF v, w
      <4> QED
        BY <2>2, <2>5, <4>1, <4>3
    <3>2. CASE ~(v >= 0)
      <4>1. admitted[p][from] = 0
        BY <2>1, <2>4, <3>2 DEF Covers
      <4>2. Spent(p, from) = 0
        BY <4>1, CapacityIsEnough DEF Spent
      <4> QED
        BY <2>2, <2>5, <4>2
    <3> QED
      BY <3>1, <3>2
  <2> QED
    BY <2>1, <2>6 DEF Covers
<1> QED
  BY <1>1, <1>2

\* The refill brings no more than the rate, nor than a burst, however late the
\* request is counted.
LEMMA RefillCovers ==
  ASSUME RateInv, Budget, NEW p \in Principals, NEW from \in 0..second,
         NEW read \in Nat, read <= second
  PROVE  Spent(p, from) + Refilled(Retained(read)[p], read)
           <= Allowance((second - from) + lateness[p][from])
<1> DEFINE b == Retained(read)[p]  w == (second - from) + lateness[p][from]
<1>0. /\ w \in Nat /\ Allowance(w) \in Nat /\ Allowance(w) >= Capacity /\ Spent(p, from) \in Nat
      /\ Refilled(b, read) \in 0..Capacity /\ Capacity \in Nat /\ Rate \in Nat
      /\ Covers(p, b, from)
  <2>1. w \in Nat /\ Spent(p, from) \in Nat
    BY SinceTypes
  <2>2. Allowance(w) \in Nat /\ Allowance(w) >= Capacity
    <3> HIDE DEF w
    <3> QED
      BY <2>1, AllowanceGrows
  <2> QED
    BY <2>1, <2>2, RefillTypes, CapacityIsEnough, RetainedCovers
<1>1. CASE b = NoBucket
  BY <1>0, <1>1 DEF Covers
<1>2. CASE b # NoBucket /\ Progress(p, b, from) >= 0
  <2> DEFINE v == Progress(p, b, from)
  <2>1. b \in Buckets /\ b.updated \in Nat /\ b.units \in Nat /\ b.updated <= second
    <3>1. b \in Buckets /\ b = bucket[p]
      BY <1>2, RetainedTypes DEF RateInv, RateTypes
    <3> QED
      BY <3>1, <1>2, BucketTypes, CapacityIsEnough DEF RateInv, RateTypes
  <2>2. Spent(p, from) + b.units <= Allowance(v) /\ v <= w
    BY <1>0, <1>2 DEF Covers
  <2>3. v \in Nat
    BY <1>2, <2>1, SinceTypes DEF Progress
  <2>4. /\ Allowance(v) \in Nat /\ Allowance(w) >= Allowance(v) + (w - v) * Rate
        /\ (w - v) * Rate \in Nat
    <3> DEFINE f == w - v
    <3>1. f \in Nat /\ v \in Nat /\ w \in Nat /\ v <= w
      BY <1>0, <2>2, <2>3
    <3>2. Allowance(v) \in Nat /\ Allowance(w) >= Allowance(v) + (w - v) * Rate
      <4> HIDE DEF v, w, f
      <4> QED
        BY <3>1, AllowanceGrows
    <3>3. f * Rate \in Nat
      <4> HIDE DEF f
      <4> QED
        BY <1>0, <3>1
    <3> HIDE DEF v, w
    <3> QED
      BY <3>2, <3>3
  <2>5. Refilled(b, read) <= b.units + (w - v) * Rate
    <3>1. CASE read >= b.updated
      <4>1. read - b.updated \in Nat /\ read - b.updated <= w - v /\ w - v \in Nat
        BY <1>0, <2>1, <2>3, <3>1, SinceTypes DEF Progress
      <4>2. (read - b.updated) * Rate <= (w - v) * Rate /\ (read - b.updated) * Rate \in Nat
        <5> DEFINE e == read - b.updated  f == w - v
        <5>1. e \in Nat /\ f \in Nat /\ e <= f
          BY <4>1
        <5> HIDE DEF e, f
        <5>2. e * Rate <= f * Rate /\ e * Rate \in Nat
          BY <1>0, <5>1, Products
        <5> QED
          BY <5>2 DEF e, f
      <4>3. Refilled(b, read) = IF b.units + (read - b.updated) * Rate < Capacity
                                THEN b.units + (read - b.updated) * Rate ELSE Capacity
        BY <2>1, <3>1, Refill
      <4> HIDE DEF b, v, w
      <4> QED
        BY <1>0, <2>1, <2>4, <4>2, <4>3
    <3>2. CASE read < b.updated
      <4>1. Refilled(b, read) = b.units
        BY <2>1, <3>2, Refill
      <4> HIDE DEF b, v, w
      <4> QED
        BY <2>1, <2>4, <4>1
    <3> QED
      BY <2>1, <3>1, <3>2
  <2> HIDE DEF b, v, w
  <2>6. Spent(p, from) + Refilled(b, read) <= Allowance(w)
    BY <1>0, <2>1, <2>2, <2>4, <2>5
  <2> QED
    BY <2>6 DEF b, w
<1>3. CASE b # NoBucket /\ ~(Progress(p, b, from) >= 0)
  <2>1. admitted[p][from] = 0
    BY <1>0, <1>3 DEF Covers
  <2>2. Spent(p, from) = 0
    BY <2>1, CapacityIsEnough DEF Spent
  <2> QED
    BY <1>0, <2>2
<1> QED
  BY <1>1, <1>2, <1>3

LEMMA ConsumeBudget ==
  ASSUME RateInv, Budget, NEW p \in Principals, Consume(p) PROVE Budget'
<1>1. PICK read \in Nat, units \in 0..Capacity :
        /\ read \in Seconds /\ read <= second
        /\ bucket' = [Retained(read) EXCEPT ![p] = [units |-> units, updated |-> read]]
        /\ [units |-> units, updated |-> read] \in Buckets
        /\ lateness' = [lateness EXCEPT ![p] = More(@, second - read)]
        /\ \/ /\ Refilled(Retained(read)[p], read) = units + Cost
              /\ admitted' = [admitted EXCEPT ![p] = More(@, 1)]
           \/ /\ units = Refilled(Retained(read)[p], read)
              /\ UNCHANGED admitted
        /\ UNCHANGED second
  BY ConsumeCounts DEF Counted
<1>2. /\ second - read \in Nat /\ second \in Nat
      /\ admitted \in [Principals -> [Seconds -> Nat]]
      /\ lateness \in [Principals -> [Seconds -> Nat]]
      /\ Retained(read) \in [Principals -> Buckets \union {NoBucket}]
  BY <1>1, SecondTypes, RetainedTypes DEF RateInv, RateTypes
<1>3. Ahead'
  BY <1>1, <1>2, MoreTypes DEF Budget, Ahead
<1>4. ASSUME NEW from \in 0..second PROVE Covers(p, bucket[p], from)'
  <2> DEFINE w == (second - from) + lateness[p][from]
             had == Refilled(Retained(read)[p], read)
  <2>1. from \in Seconds /\ from <= second /\ from \in Nat /\ w \in Nat /\ Spent(p, from) \in Nat
        /\ lateness[p][from] \in Nat /\ admitted[p][from] \in Nat
    BY SinceTypes
  <2>2. /\ bucket'[p] = [units |-> units, updated |-> read] /\ bucket'[p] # NoBucket
    BY <1>1, <1>2, BucketTypes
  <2>3. lateness'[p][from] = lateness[p][from] + (second - read)
    BY <1>1, <1>2, <2>1, MoreTypes
  <2>4. Progress(p, bucket[p], from)' = w
    BY <1>1, <1>2, <2>1, <2>2, <2>3 DEF Progress
  <2>5. Spent(p, from)' + units = Spent(p, from) + had
    <3>1. CASE admitted' = [admitted EXCEPT ![p] = More(@, 1)] /\ had = units + Cost
      <4>1. admitted'[p][from] = admitted[p][from] + 1
        BY <1>2, <2>1, <3>1, MoreTypes
      <4>2. Cost \in Nat /\ units \in Nat
        BY CapacityIsEnough
      <4>3. Spent(p, from)' = (admitted[p][from] + 1) * Cost
        BY <4>1 DEF Spent
      <4>4. (admitted[p][from] + 1) * Cost = admitted[p][from] * Cost + Cost
        BY <2>1, <4>2
      <4>5. Spent(p, from)' = Spent(p, from) + Cost
        BY <4>3, <4>4 DEF Spent
      <4> HIDE DEF had
      <4> QED
        BY <2>1, <3>1, <4>2, <4>5
    <3>2. CASE UNCHANGED admitted /\ had = units
      BY <3>2 DEF Spent
    <3> QED
      BY <1>1, <3>1, <3>2
  <2>6. Spent(p, from) + had <= Allowance(w)
    BY <1>1, RefillCovers
  <2>7. w <= (second - from)' + lateness'[p][from]
    BY <1>1, <1>2, <2>1, <2>3
  <2> HIDE DEF w, had
  <2> QED
    BY <1>1, <2>1, <2>2, <2>4, <2>5, <2>6, <2>7 DEF Covers
<1>5. ASSUME NEW q \in Principals, q # p, NEW from \in 0..second
      PROVE  Covers(q, bucket[q], from)'
  <2>1. bucket'[q] = Retained(read)[q] /\ admitted'[q] = admitted[q] /\ lateness'[q] = lateness[q]
    BY <1>1, <1>2, <1>5
  <2>2. Covers(q, Retained(read)[q], from)
    BY <1>1, RetainedCovers
  <2> QED
    BY <1>1, <2>1, <2>2 DEF Covers, Spent, Progress
<1> QED
  BY <1>1, <1>3, <1>4, <1>5 DEF Budget

LEMMA TurnAwayBudget ==
  ASSUME RateInv, Budget, NEW p \in Principals, TurnAway(p) PROVE Budget'
<1>1. PICK read \in Nat :
        read <= second /\ bucket' = Retained(read) /\ UNCHANGED <<second, admitted, lateness>>
  BY SecondTypes DEF TurnAway
<1>2. ASSUME NEW q \in Principals, NEW from \in 0..second PROVE Covers(q, bucket[q], from)'
  BY <1>1, RetainedCovers DEF Covers, Spent, Progress
<1> QED
  BY <1>1, <1>2 DEF Budget, Ahead

LEMMA SecondBudget == ASSUME RateInv, Budget, NextSecond PROVE Budget'
<1>0. /\ UNCHANGED <<bucket, admitted, lateness>> /\ second' = second + 1 /\ second \in Nat
      /\ second + 1 \in Seconds
  BY SecondTypes DEF NextSecond, Seconds
<1>1. Ahead'
  BY <1>0 DEF Budget, Ahead, Seconds
<1>2. ASSUME NEW p \in Principals, NEW from \in 0..second PROVE Covers(p, bucket[p], from)'
  <2> DEFINE w == (second - from) + lateness[p][from]
  <2>1. w \in Nat /\ Spent(p, from) \in Nat /\ ((second + 1) - from) + lateness[p][from] = w + 1
    BY <1>0, SinceTypes
  <2>2. Allowance(w) \in Nat /\ Allowance(w + 1) \in Nat /\ Allowance(w) <= Allowance(w + 1)
    <3>1. w + 1 \in Nat /\ w <= w + 1 /\ (w + 1) - w = 1 /\ 1 * Rate = Rate /\ Rate \in Nat
      BY <2>1, CapacityIsEnough
    <3> HIDE DEF w
    <3>2. /\ Allowance(w) \in Nat /\ Allowance(w + 1) \in Nat
          /\ Allowance(w + 1) >= Allowance(w) + ((w + 1) - w) * Rate
      BY <2>1, <3>1, AllowanceGrows
    <3> QED
      BY <3>1, <3>2
  <2>3. Covers(p, bucket[p], from)
    BY DEF Budget
  <2>4. bucket[p] # NoBucket => Progress(p, bucket[p], from) \in Int
    BY <1>0, SinceTypes, BucketTypes DEF Progress, RateInv, RateTypes
  <2>5. CASE bucket[p] = NoBucket
    <3>1. Spent(p, from) + Capacity <= Allowance(w)
      BY <2>3, <2>5 DEF Covers
    <3>2. Spent(p, from) + Capacity <= Allowance(w + 1)
      <4> HIDE DEF w
      <4> QED
        BY <2>1, <2>2, <3>1, CapacityIsEnough
    <3> QED
      BY <1>0, <2>1, <2>5, <3>2 DEF Covers, Spent
  <2>6. CASE bucket[p] # NoBucket
    BY <1>0, <2>1, <2>3, <2>4, <2>6 DEF Covers, Spent, Progress
  <2> QED
    BY <2>5, <2>6
<1>3. ASSUME NEW p \in Principals, NEW from \in Nat, from = second + 1
      PROVE  Covers(p, bucket[p], from)'
  <2>1. /\ admitted'[p][from] = 0 /\ lateness'[p][from] = 0 /\ Cost \in Nat
        /\ second' - from = 0
    BY <1>0, <1>3, CapacityIsEnough DEF Budget, Ahead
  <2>2. CASE bucket[p] = NoBucket
    <3>1. Allowance(0) >= Capacity /\ Capacity \in Nat
      BY AllowanceGrows, CapacityIsEnough
    <3>2. Spent(p, from)' = 0 /\ (second' - from) + lateness'[p][from] = 0
      BY <2>1 DEF Spent
    <3>3. bucket'[p] = NoBucket
      BY <1>0, <2>2
    <3> QED
      BY <3>1, <3>2, <3>3 DEF Covers
  <2>3. CASE bucket[p] # NoBucket
    <3>1. bucket[p].updated \in Nat /\ bucket[p].updated <= second
      BY <2>3, BucketTypes DEF RateInv, RateTypes
    <3>2. bucket'[p] = bucket[p] /\ ~((bucket'[p].updated - from) + lateness'[p][from] >= 0)
      BY <1>0, <1>3, <2>1, <3>1
    <3> QED
      BY <2>1, <2>3, <3>2 DEF Covers, Progress
  <2> QED
    BY <2>2, <2>3
<1>4. \A from \in 0..second' : from \in 0..second \/ (from \in Nat /\ from = second + 1)
  BY <1>0
<1> QED
  BY <1>1, <1>2, <1>3, <1>4 DEF Budget

LEMMA InitBudget == RateInit => Budget
<1> SUFFICES ASSUME RateInit PROVE Budget
  OBVIOUS
<1>1. /\ second = 0 /\ LastSecond \in Nat
      /\ \A p \in Principals : /\ bucket[p] = NoBucket
                               /\ \A t \in Seconds : admitted[p][t] = 0 /\ lateness[p][t] = 0
  BY RateAssumption DEF RateInit
<1>2. Allowance(0) \in Nat /\ Allowance(0) >= Capacity /\ Capacity \in Nat /\ Cost \in Nat
  BY AllowanceGrows, CapacityIsEnough
<1>3. 0 \in Seconds
  BY <1>1 DEF Seconds
<1>4. \A p \in Principals : Covers(p, bucket[p], 0)
  BY <1>1, <1>2, <1>3 DEF Covers, Spent
<1> QED
  BY <1>1, <1>4 DEF Budget, Ahead

\* Within the budget, what was admitted is within the allowance.
LEMMA BudgetHolds == ASSUME RateInv, Budget PROVE RateHolds
<1> SUFFICES ASSUME NEW p \in Principals, NEW from \in 0..second
             PROVE  Spent(p, from) <= Allowance((second - from) + lateness[p][from])
  BY DEF RateHolds, Spent
<1> DEFINE had == Refilled(Retained(second)[p], second)
<1> DEFINE w == (second - from) + lateness[p][from]
<1>1. w \in Nat /\ Spent(p, from) \in Nat /\ second \in Nat
  BY SinceTypes
<1>2. had \in 0..Capacity /\ Capacity \in Nat
  BY <1>1, RefillTypes, CapacityIsEnough
<1>3. Spent(p, from) + had <= Allowance(w)
  BY <1>1, RefillCovers
<1> HIDE DEF had, w
<1>4. Allowance(w) \in Nat
  BY <1>1, AllowanceGrows
<1> QED
  BY <1>1, <1>2, <1>3, <1>4 DEF w

\* Whatever the rate, the burst and the TTL, however requests are spread, however
\* late they are counted and whether buckets are in the map or in Redis: a stretch
\* of time admits no more than the rate, a burst, and a burst for every TTL a
\* bucket may have been idle in it, where the stretch is longer by as much as its
\* requests were late (remote.rs:515, redis_store.rs:204).
THEOREM RateIsHeld == RateSpec => []RateHolds
<1>1. ASSUME RateInv, Budget, [RateNext]_rateVars PROVE Budget'
  <2>1. CASE UNCHANGED rateVars
    BY <1>1, <2>1 DEF rateVars, Budget, Ahead, Covers, Spent, Progress
  <2> QED
    BY <1>1, <2>1, ConsumeBudget, TurnAwayBudget, SecondBudget DEF RateNext
<1> QED
  BY RateAlways, InitBudget, BudgetHolds, <1>1, PTL DEF RateSpec
===============================================================================
