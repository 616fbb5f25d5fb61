---------------------------- MODULE MetricsStore ----------------------------
(***************************************************************************)
(* The history of metrics, internal/metrics/store.go: a ring of buckets,   *)
(* one per Resolution of time, that is turned when something is recorded   *)
(* and read as it is by GetHistory.  Every method holds s.mu, so each is   *)
(* one step; what is hard is the arithmetic: the ring after idle time, the *)
(* window of a query, and the aggregation to a coarser resolution.         *)
(*                                                                         *)
(* Time is a natural number: the wall clock's (Truncate drops the reading  *)
(* of the monotonic one), which may be set back.  A bucket keeps the sum   *)
(* of its latencies, which AvgLatency rounds down to milliseconds; the     *)
(* percentiles modelled are those of the latest requests, from which a     *)
(* bucket's differ only in the latencies they are of.                      *)
(***************************************************************************)
EXTENDS Integers, Sequences, FiniteSets, SequencesExt, TLC

CONSTANTS MaxBuckets,   \* s.maxBuckets: 1440 by default
          Resolution,   \* s.resolution
          Millisecond,  \* in the unit of Latencies
          Latencies,    \* the latencies of requests
          MaxLatencies, \* s.maxLatencies: 10000
          MaxTime       \* bound on time, for TLC

ASSUME StoreAssumption == /\ MaxBuckets \in Nat \ {0} /\ Resolution \in Nat \ {0}
                          /\ Millisecond \in Nat \ {0} /\ Latencies \subseteq Nat
                          /\ MaxLatencies \in Nat \ {0}
                          /\ MaxTime \in Nat /\ MaxTime >= (MaxBuckets + 1) * Resolution

VARIABLES now,
          buckets, current,
          allLatencies, \* the latest MaxLatencies of them
          latest,       \* ghost: the latest time at which the ring was made or recorded in
          truth         \* ghost: what was recorded at each time, per bucket start

storeVars == <<now, buckets, current, allLatencies, latest, truth>>

Indexes == 0..MaxBuckets - 1
Truncate(t, resolution) == t - (t % resolution)
Empty == [requests |-> 0, errors |-> 0, latency |-> 0]
Bucket(start) == [timestamp |-> start, requests |-> 0, errors |-> 0, latency |-> 0]
Data(b) == [requests |-> b.requests, errors |-> b.errors, latency |-> b.latency]
Starts == {t \in 0..MaxTime : t % Resolution = 0}
Forgotten == -1         \* where the ghost keeps what Reset dropped

(* The ring is made so that its last bucket is the one of the time now. *)
NewBuckets(t) ==
  [i \in Indexes |-> Bucket(Truncate(t, Resolution) - (MaxBuckets - 1 - i) * Resolution)]

StoreInit ==
  /\ now \in MaxBuckets * Resolution .. (MaxBuckets + 1) * Resolution - 1
  /\ buckets = NewBuckets(now)
  /\ current = MaxBuckets - 1
  /\ allLatencies = <<>>
  /\ latest = now
  /\ truth = [t \in Starts \union {Forgotten} |-> Empty]

------------------------------------------------------------------------------
(* getCurrentBucket: the ring is turned once for each Resolution elapsed,  *)
(* however many turns round it these are.                                  *)

Elapsed == Truncate(now, Resolution) - buckets[current].timestamp
Skip == IF Elapsed > 0 THEN Elapsed \div Resolution ELSE 0
\* Mutant: the ring is not closed.
TurnedPast == current + Skip

Turned == (current + Skip) % MaxBuckets
(* The last of the skipped buckets that falls on place i, if any does. *)
LastSkip(i) == Skip - ((Turned - i) % MaxBuckets)

\* Mutant: the buckets skipped over are left as they are.
Reuse == [buckets EXCEPT ![Turned] =
            IF Skip = 0 THEN @ ELSE Bucket(buckets[current].timestamp + Skip * Resolution)]

Rotated ==
  [i \in Indexes |->
     IF LastSkip(i) >= 1
     THEN Bucket(buckets[current].timestamp + LastSkip(i) * Resolution)
     ELSE buckets[i]]

Add(b, change) == [b EXCEPT !.requests = @ + change.requests,
                            !.errors = @ + change.errors,
                            !.latency = @ + change.latency]

(* The ghosts of a record: it belongs to the latest time the clock showed. *)
Witness(change) ==
  /\ latest' = IF now > latest THEN now ELSE latest
  /\ truth' = [truth EXCEPT ![Truncate(latest', Resolution)] = Add(@, change)]

\* Mutant: the bucket is counted in before the ring is turned.
RecordFirst(change) ==
  /\ current' = Turned
  /\ buckets' = [Rotated EXCEPT ![current] = Add(@, change)]
  /\ Witness(change) /\ UNCHANGED now

Record(change) ==
  /\ current' = Turned
  /\ buckets' = [Rotated EXCEPT ![Turned] = Add(@, change)]
  /\ Witness(change) /\ UNCHANGED now

(* RecordRequest, and the latencies from which percentiles are taken. *)
RecordRequest(latency) ==
  /\ Record([requests |-> 1, errors |-> 0, latency |-> latency])
  /\ LET all == Append(allLatencies, latency)
     IN  allLatencies' = IF Len(all) > MaxLatencies
                         THEN SubSeq(all, Len(all) - MaxLatencies + 1, Len(all)) ELSE all
RecordError ==
  /\ Record([requests |-> 0, errors |-> 1, latency |-> 0])
  /\ UNCHANGED allLatencies

(* Reset forgets what was recorded. *)
Reset == /\ buckets' = NewBuckets(now)
         /\ current' = MaxBuckets - 1
         /\ allLatencies' = <<>> /\ latest' = now
         /\ truth' = [t \in DOMAIN truth |->
                        IF t = Forgotten THEN FoldFunction(Add, Empty, truth) ELSE Empty]
         /\ UNCHANGED now

TimePasses == /\ now < MaxTime /\ now' = now + 1
              /\ UNCHANGED <<buckets, current, allLatencies, latest, truth>>
(* By more than a ring, or before its first bucket, is no other case. *)
ClockSetBack == /\ now' \in (MaxBuckets - 1) * Resolution .. now - 1
                /\ UNCHANGED <<buckets, current, allLatencies, latest, truth>>

StoreNext == \/ (\E l \in Latencies : RecordRequest(l)) \/ RecordError
             \/ Reset \/ TimePasses \/ ClockSetBack
StoreSpec == StoreInit /\ [][StoreNext]_storeVars

------------------------------------------------------------------------------
(* sort.Slice: the places of the keys in ascending order of the keys.      *)
Earlier(keys, i) == {j \in DOMAIN keys : keys[j] < keys[i] \/ (keys[j] = keys[i] /\ j < i)}
Sorting(keys) == [n \in 1..Cardinality(DOMAIN keys) |->
                    CHOOSE i \in DOMAIN keys : Cardinality(Earlier(keys, i)) = n - 1]

(* GetLatencyPercentiles; a percentage of 100 is past the end. *)

\* Mutant: the rank is taken as an index that begins with 1.
PercentileBelow(latencies, percent) ==
  LET rank == (Len(latencies) * percent) \div 100
  IN  latencies[Sorting(latencies)[IF rank = 0 THEN 1 ELSE rank]]

Percentile(latencies, percent) ==
  latencies[Sorting(latencies)[((Len(latencies) * percent) \div 100) + 1]]

------------------------------------------------------------------------------
(* GetHistory and aggregatePoints *)

Points(duration) ==
  LET kept == {i \in Indexes : buckets[i].timestamp >= now - duration}
      order == Sorting([i \in kept |-> buckets[i].timestamp])
  IN  [n \in DOMAIN order |-> buckets[order[n]]]

(* What the loop of aggregatePoints carries: current is the point that is  *)
(* being summed, with latencyCount the requests whose latency it has.      *)
Nothing == [result |-> <<>>, any |-> FALSE, end |-> 0, current |-> Bucket(0), latencyCount |-> 0]

(* A point is left out if no bucket in it has latencies of a millisecond   *)
(* in all, also when it has requests or errors.                            *)
Emitted(acc) ==
  IF acc.any /\ acc.latencyCount > 0 THEN Append(acc.result, acc.current) ELSE acc.result

\* Mutant: the sums are not reset for the next point.
OpenWithoutReset(acc, start, resolution) ==
  [result |-> Emitted(acc), any |-> TRUE, end |-> start + resolution,
   current |-> [acc.current EXCEPT !.timestamp = start], latencyCount |-> acc.latencyCount]

Open(acc, start, resolution) ==
  [result |-> Emitted(acc), any |-> TRUE, end |-> start + resolution,
   current |-> Bucket(start), latencyCount |-> 0]

CountIn(acc, p) ==
  [acc EXCEPT !.current = Add(@, p),
              !.latencyCount = IF p.latency >= Millisecond THEN @ + p.requests ELSE @]

(* What the loop does with a point. *)
Include(acc, p, resolution) ==
  LET start == Truncate(p.timestamp, resolution)
  IN  CountIn(IF ~acc.any \/ start > acc.end THEN Open(acc, start, resolution) ELSE acc, p)

Summed(points, resolution) ==
  FoldLeft(LAMBDA acc, p : Include(acc, p, resolution), Nothing, points)

Aggregate(points, resolution) == Emitted(Summed(points, resolution))

Coarsened(points, resolution) ==
  IF resolution > Resolution THEN Aggregate(points, resolution) ELSE points

GetHistory(duration, resolution) == Coarsened(Points(duration), resolution)

------------------------------------------------------------------------------
(* Properties *)

(* Type invariant of the ring. *)
StoreTypeOK ==
  /\ now \in 0..MaxTime /\ current \in Indexes
  /\ DOMAIN buckets = Indexes
  /\ \A i \in Indexes : /\ buckets[i].timestamp \in Starts
                        /\ Data(buckets[i]) \in [requests : Nat, errors : Nat, latency : Nat]

(* The inductive invariant: each bucket has what was recorded in its       *)
(* period, and the bucket i places back round the ring is of the i-th      *)
(* period before the latest in which anything was recorded.                *)
Counts == [requests : Nat, errors : Nat, latency : Nat]
BucketSet == [timestamp : Int, requests : Nat, errors : Nat, latency : Nat]
Period(t) == t \div Resolution
Back(i) == IF i <= current THEN current - i ELSE current - i + MaxBuckets

RingInv ==
  /\ current \in Indexes /\ now \in 0..MaxTime /\ latest \in 0..MaxTime
  /\ now >= (MaxBuckets - 1) * Resolution /\ Period(latest) >= MaxBuckets - 1
  /\ buckets \in [Indexes -> BucketSet]
  /\ \A i \in Indexes :
       /\ buckets[i].timestamp = (Period(latest) - Back(i)) * Resolution
       /\ Data(buckets[i]) = truth[buckets[i].timestamp]
  /\ truth = [t \in Starts \cup {Forgotten} |-> truth[t]]
  /\ \A t \in Starts : /\ truth[t] \in Counts
                       /\ t > Period(latest) * Resolution => truth[t] = Empty
LatenciesKept == allLatencies \in Seq(Latencies) /\ Len(allLatencies) <= MaxLatencies
StoreInv == RingInv /\ LatenciesKept

(* The ring is a window of consecutive buckets that ends with the current  *)
(* one, after any idle time, also longer than the whole ring.              *)
RingIsWindow ==
  \A i \in Indexes :
    buckets[(current + MaxBuckets - i) % MaxBuckets].timestamp
      = buckets[current].timestamp - i * Resolution

(* What GetHistory returns of a past shorter than the ring is what         *)
(* happened: every bucket of that past in which anything was recorded is   *)
(* there, once and in its place, with exactly what was recorded, and       *)
(* nothing else is counted.  After the clock was set back, what is         *)
(* recorded until it has caught up counts as recorded at the latest time   *)
(* it had shown.                                                           *)
HistoryIsTruth ==
  LET oldest == Truncate(latest, Resolution) - (MaxBuckets - 1) * Resolution
  IN  \A duration \in 0..MaxBuckets * Resolution - 1 :
        LET points == GetHistory(duration, Resolution)
            times == [n \in DOMAIN points |-> points[n].timestamp]
        IN  /\ \A m, n \in DOMAIN times : m < n => times[m] < times[n]
            /\ \A p \in Range(points) : Data(p) = truth[p.timestamp]
            /\ \A t \in Starts : t >= now - duration /\ t >= oldest /\ truth[t] # Empty
                                   => t \in Range(times)

Durations == {n * Resolution : n \in 1..MaxBuckets}
Coarser == {n * Resolution : n \in 2..MaxBuckets}
SumOf(points) == FoldLeft(Add, Empty, points)
IfSlow(p) == IF p.latency >= Millisecond THEN p ELSE Empty
Slow(points) == [i \in DOMAIN points |-> IfSlow(points[i])]

(* "aggregatePoints combines data points into larger time buckets"         *)
(* (store.go:216), "Don't forget the last bucket" (store.go:263): nothing  *)
(* is counted twice, the points are in order and their windows, of the     *)
(* resolution asked for, do not overlap, and no request is lost of a       *)
(* bucket whose latencies come to a millisecond, whatever else falls into  *)
(* its window and wherever the history ends.  Nothing is promised of the   *)
(* requests and errors of other buckets: the code leaves some out.         *)
AggregateCounts ==
  \A duration \in Durations :
    LET raw == GetHistory(duration, Resolution)
        all == SumOf(raw)
        slow == SumOf(Slow(raw))
    IN  \A resolution \in Coarser :
          LET coarse == Coarsened(raw, resolution)
              kept == SumOf(coarse)
          IN  /\ kept.requests \in slow.requests..all.requests
              /\ kept.errors <= all.errors
              /\ \A i \in 1..Len(coarse) - 1 :
                   coarse[i].timestamp + resolution <= coarse[i + 1].timestamp

(* A percentile is where it should be among the latencies: more than that  *)
(* share of them is no longer, and no more than that share is shorter.     *)
Percents == {50, 90, 99}
Ranked(latencies, percent) ==
  LET n == Len(latencies)
      p == Percentile(latencies, percent)
  IN  /\ Cardinality({i \in 1..n : latencies[i] <= p}) * 100 > n * percent
      /\ Cardinality({i \in 1..n : latencies[i] < p}) * 100 <= n * percent
Samples == SeqOf(Latencies, MaxLatencies + 3)
SamplesRank == \A percent \in Percents : \A s \in Samples \ {<<>>} : Ranked(s, percent)
PercentilesRank ==
  SamplesRank /\ (allLatencies # <<>> => \A percent \in Percents : Ranked(allLatencies, percent))
==============================================================================
