------------------------------- MODULE RateLimit -------------------------------
(***************************************************************************)
(* The token bucket of the remote MCP gateway: one bucket per subject, in  *)
(* a map of one gateway (mcp/remote.rs) or in Redis, where a sorted set of *)
(* subjects and one hash per bucket expire on their own                    *)
(* (mcp/redis_store.rs).  The map is locked and the Redis script runs      *)
(* alone, but the time a request counts with may be behind: it is read     *)
(* before the wait for the map's lock, and Redis's clock may be set back.  *)
(*                                                                         *)
(* Tokens are counted in units: a request costs Cost units and a second    *)
(* brings Rate of them, so that Rate / Cost is requests_per_minute / 60.   *)
(***************************************************************************)
EXTENDS Integers, FiniteSets

CONSTANTS
  Principals,    (* subjects that send requests                             *)
  NoBucket,
  Cost, Rate,    (* units per request and per second                        *)
  Burst,         (* --rate-limit-burst, in requests                         *)
  BucketTtl,     (* --session-ttl-seconds                                   *)
  MaxSubjects,   (* --max-sessions                                          *)
  LastSecond,    (* bound on the clock                                      *)
  MaxLate        (* bound on the seconds all requests of a subject are late *)

\* validate_config refuses limits that are not positive.
ASSUME RateAssumption ==
  /\ {Cost, Rate, Burst, BucketTtl, MaxSubjects} \subseteq Nat \ {0}
  /\ LastSecond \in Nat /\ MaxLate \in Nat
  /\ IsFiniteSet(Principals) /\ NoBucket \notin [units : Nat, updated : Nat]

VARIABLES
  inRedis,   (* where the buckets are                                       *)
  second,    (* the latest second a clock has shown                         *)
  bucket,    (* bucket[p]: units and when they were counted                 *)
  admitted,  (* history: admitted[p][t], p's requests admitted since second t *)
  lateness,  (* history: lateness[p][t], how late p's requests since t were *)
  promised   (* history: when p was told to try again, after a refusal      *)

rateVars == <<inRedis, second, bucket, admitted, lateness, promised>>

Capacity == Burst * Cost
Seconds == 0..LastSecond
Buckets == [units : 0..Capacity, updated : Seconds]

RateInit ==
  /\ inRedis \in BOOLEAN
  /\ second = 0
  /\ bucket = [p \in Principals |-> NoBucket]
  /\ admitted = [p \in Principals |-> [t \in Seconds |-> 0]]
  /\ lateness = [p \in Principals |-> [t \in Seconds |-> 0]]
  /\ promised = [p \in Principals |-> 0]

Known(b) == {p \in Principals : b[p] # NoBucket}

\* Instant::now() before the lock, TIME in the script: no later than `second`.
ClockReads(p) == {t \in 0..second : lateness[p][0] + (second - t) <= MaxLate}

\* The map drops a bucket idle for longer than the TTL; in Redis the subject's
\* score and the hash both expire as the TTL is reached.
Forgotten(b, read) ==
  IF inRedis THEN read >= b.updated + BucketTtl
  ELSE read - b.updated > BucketTtl

Retained(read) ==
  [p \in Principals |->
     IF bucket[p] # NoBucket /\ Forgotten(bucket[p], read) THEN NoBucket ELSE bucket[p]]

\* TokenBucket::full for a new subject, the refill of TokenBucket::consume: a
\* time before the last refill brings nothing.
Refilled(b, read) ==
  IF b = NoBucket THEN Capacity
  ELSE LET elapsed == IF read < b.updated THEN 0 ELSE read - b.updated
           units == b.units + elapsed * Rate
       IN IF units < Capacity THEN units ELSE Capacity

\* Slip: the wait is rounded down, and still at least a second.
RetryAfterRoundedDown(units) ==
  IF Cost - units < Rate THEN 1 ELSE (Cost - units) \div Rate

\* Retry-After: whole seconds, rounded up, at least one.
RetryAfter(units) == (Cost - units + Rate - 1) \div Rate

\* History: n more of what is counted since each second up to now.
More(since, n) == [t \in Seconds |-> IF t <= second THEN since[t] + n ELSE since[t]]

Allow(p, units, read) ==
  /\ units >= Cost
  /\ bucket' = [Retained(read) EXCEPT ![p] = [units |-> units - Cost, updated |-> read]]
  /\ admitted' = [admitted EXCEPT ![p] = More(@, 1)]
  /\ promised' = [promised EXCEPT ![p] = 0]

\* Slip: a refusal adds the refill but leaves the time it was counted from.
LimitKeepsTime(p, units, read) ==
  /\ units < Cost
  /\ bucket' = [Retained(read) EXCEPT ![p] =
       [units |-> units,
        updated |-> IF Retained(read)[p] = NoBucket THEN read ELSE Retained(read)[p].updated]]
  /\ promised' = [promised EXCEPT ![p] = second + RetryAfter(units)]
  /\ UNCHANGED admitted

\* A refusal counts the refill as well: the time it covers is used up.
Limit(p, units, read) ==
  /\ units < Cost
  /\ bucket' = [Retained(read) EXCEPT ![p] = [units |-> units, updated |-> read]]
  /\ promised' = [promised EXCEPT ![p] = second + RetryAfter(units)]
  /\ UNCHANGED admitted

\* Slip: forgotten subjects still count, and a new one is never turned away.
AtCapacityForNobody(p, read) == FALSE

AtCapacityFor(p, read) ==
  /\ Retained(read)[p] = NoBucket
  /\ Cardinality(Known(Retained(read))) >= MaxSubjects

\* last_refill becomes the time that was read, be it earlier than before.
Consume(p) ==
  \E read \in ClockReads(p) :
    /\ ~AtCapacityFor(p, read)
    /\ LET units == Refilled(Retained(read)[p], read)
       IN Allow(p, units, read) \/ Limit(p, units, read)
    /\ lateness' = [lateness EXCEPT ![p] = More(@, second - read)]
    /\ UNCHANGED <<inRedis, second>>

\* RateLimitFailure::Capacity
TurnAway(p) ==
  \E read \in ClockReads(p) :
    /\ AtCapacityFor(p, read)
    /\ bucket' = Retained(read)
    /\ UNCHANGED <<inRedis, second, admitted, lateness, promised>>

NextSecond ==
  /\ second < LastSecond
  /\ second' = second + 1
  /\ UNCHANGED <<inRedis, bucket, admitted, lateness, promised>>

RateNext == NextSecond \/ \E p \in Principals : Consume(p) \/ TurnAway(p)

RateSpec == RateInit /\ [][RateNext]_rateVars

-----------------------------------------------------------------------------
(* Properties.                                                               *)

\* The type invariant, with the bound on the subjects remembered at once
\* (docs/operations.md:36).
RateTypeOK ==
  /\ inRedis \in BOOLEAN /\ second \in Seconds
  /\ \A p \in Known(bucket) : bucket[p] \in Buckets
  /\ Cardinality(Known(bucket)) <= MaxSubjects
  /\ {admitted, lateness} \subseteq [Principals -> [Seconds -> Nat]]
  /\ promised \in [Principals -> Nat]

\* What the rate brings in n seconds, one burst, and one more for every TTL of them.
Allowance(n) == Capacity * (1 + n \div BucketTtl) + Rate * n

\* However a subject spreads its requests, a stretch of time, from any second to
\* now, admits no more than the rate brings in it and one burst, plus one more
\* burst for every TTL of it: a bucket that is idle for a TTL is forgotten and
\* comes back full, which matters when it refills more slowly than that.  A
\* request that counts with an older time sets the bucket's back, and the same
\* time is refilled again: the stretch is as much longer as its requests were
\* late, and no more (remote.rs:515).
RateHolds ==
  \A p \in Principals : \A t \in 0..second :
    admitted[p][t] * Cost <= Allowance((second - t) + lateness[p][t])

\* Retry-After is honest: a subject that waits as long as it was told and sends
\* nothing meanwhile is not limited again, whatever the others do and however
\* late its refused requests were counted (remote.rs:123, redis_store.rs:207).
RetryAfterIsHonest ==
  [][\A p \in Principals :
       promised'[p] # promised[p] /\ promised'[p] # 0 =>
         promised[p] = 0 \/ bucket'[p].updated < promised[p]]_rateVars
===============================================================================
